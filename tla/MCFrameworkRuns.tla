-------------------------- MODULE MCFrameworkRuns --------------------------
(* Model-checking instance of FrameworkRuns.  For the three adapters, one      *)
(* prompt, reply and tool result of each kind the guards tell apart, and       *)
(* replies of no, one or two calls; for the Agent Framework, two runs of one   *)
(* agent.                                                                      *)
EXTENDS FrameworkRuns

CONSTANTS query, export, RawRuns

MCMaxRuns == [f \in Frameworks |-> IF f = "raw" THEN RawRuns ELSE 1]

Text(marks, size) == [marks |-> marks, size |-> size]

MCPrompts ==
    {Text({}, 2), Text({"secret"}, 1), Text({"attack", "secret"}, 1), Text({"suspect"}, 1)}
MCReplies == {Text({}, 0), Text({"pii"}, 1)}
MCResults == {Text({}, 1), Text({"attack"}, 1), Text({"secret", "pii"}, 1), Text({"unsafe"}, 1)}

Plain(t) == [tool |-> t, args |-> "plain"]
MCCallLists ==
    {<< >>, <<Plain(query)>>, <<Plain(query), Plain(query)>>, <<Plain(query), Plain(export)>>,
     <<Plain(query), [tool |-> query, args |-> "pattern"]>>,
     <<[tool |-> query, args |-> "refused"], Plain(query)>>,
     <<Plain(query), [tool |-> query, args |-> "malformed"]>>}

Msg(marks, big, shape, tail) == [marks |-> marks, big |-> big, shape |-> shape, tail |-> tail]
SomeMessages ==
    { Msg({}, FALSE, "plain", FALSE), Msg({"suspect"}, TRUE, "plain", FALSE),
      Msg({"attack"}, FALSE, "plain", FALSE), Msg({"secret"}, FALSE, "plain", FALSE),
      Msg({"secret"}, FALSE, "parts", TRUE), Msg({"secret"}, FALSE, "frozen", FALSE) }
=============================================================================
