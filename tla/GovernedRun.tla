----------------------------- MODULE GovernedRun -----------------------------
(***************************************************************************)
(* The runs of one agent bundle: the model/tool loop of each framework     *)
(* adapter around the shared GuardPipeline (payload_agents/raw/_runner.py, *)
(* langgraph/_guard.py, pydantic/_runner.py).  The adapters call the same  *)
(* hooks but not at the same moments, and do not use the same answers:     *)
(*   raw        the calls of a reply one after the other, each guarded     *)
(*              right before it executes; the loop is bounded              *)
(*   langgraph  the calls of a reply in concurrent tasks, each guarded in  *)
(*              its task; the only adapter that redacts                    *)
(*   pydantic   all calls of a reply guarded before any of them executes;  *)
(*              results and errors of tools are not reported back          *)
(* The circuit breakers outlive a run; everything else starts afresh.      *)
(***************************************************************************)
EXTENDS GuardPipeline, FiniteSets

CONSTANTS
    Tools,          \* tools the model may ask for
    Prompts,        \* texts a caller may pass to invoke()
    Replies,        \* texts the model may answer
    CallLists,      \* sequences of tool calls the model may ask for
    Results,        \* texts a tool may return
    MaxIters,       \* _MAX_ITERS of the raw loop; the frameworks' own limits
    MaxRuns         \* bound: runs of the bundle in one behaviour, by framework

Frameworks == {"raw", "langgraph", "pydantic"}

ASSUME LoopAssumption ==
    /\ Prompts \cup Replies \cup Results \subseteq Texts
    /\ CallLists \subseteq Seq(ToolCalls(Tools))
    /\ MaxIters \in Nat \ {0} /\ MaxRuns \in [Frameworks -> Nat]

VARIABLES
    framework,  \* the adapter the bundle was built for
    cred_mode,  \* governance.credential_mode of the agent: "redact" or "deny"
    pc,         \* what the run does next
    messages,   \* the conversation: user, ai and tool texts
    request,    \* history: the messages of the last model request
    reply,      \* the model's last answer
    stage,      \* progress of each tool call of the reply
    result,     \* what each executed call returned
    iter,       \* model calls made by this run
    breaker,    \* circuit breaker of each tool
    audit,      \* entries logged by this run
    turns,      \* texts of the RunResult handed to the caller
    outcome,    \* how the run ended
    runs,       \* history: runs begun, bounded by MaxRuns
    streak      \* history: failures of each tool since it last succeeded or recovered

deployment == <<framework, cred_mode>>
conversation == <<messages, request, reply, iter, turns>>
toolVars == <<stage, result, breaker, streak>>
vars == <<framework, cred_mode, pc, messages, request, reply, stage, result, iter,
          breaker, audit, turns, outcome, runs, streak>>

\* editable: the content is a str and the message can be assigned to.  A LangChain
\* message may hold a list of blocks instead, which is read but not redacted.
Message(role, text, editable) == [role |-> role, text |-> text, editable |-> editable]

\* The forms in which a text the run adds to the conversation may come; they are told
\* apart only where it matters, for texts with a credential in LangGraph.
Forms(text) == IF framework = "langgraph" /\ "secret" \in text.marks THEN BOOLEAN ELSE {TRUE}

EmptyText == [marks |-> {}, size |-> 0]
NoReply == [text |-> EmptyText, calls |-> << >>]
Calls == DOMAIN reply.calls

TypeOK ==
    /\ framework \in Frameworks /\ cred_mode \in {"redact", "deny"}
    /\ pc \in {"idle", "guard_input", "model", "guard_calls", "guard_output", "tools",
               "unwinding"}
    /\ messages \in Seq([role : {"user", "ai", "tool"}, text : Texts, editable : BOOLEAN])
    /\ request \in Seq([role : {"user", "ai", "tool"}, text : Texts, editable : BOOLEAN])
    /\ reply \in [text : Replies \cup {EmptyText}, calls : CallLists \cup {<< >>}]
    /\ stage \in [Calls -> {"pending", "approved", "executed", "done", "stopped"}]
    /\ result \in [Calls -> Results \cup {EmptyText}]
    /\ iter \in 0 .. MaxIters
    /\ breaker \in [Tools -> Breakers]
    /\ audit \in Seq(Entries)
    /\ turns \in Seq(Texts)
    /\ outcome \in {"none", "ok", "blocked", "failed"}
    /\ runs \in 0 .. MaxRuns[framework]
    /\ streak \in [Tools -> Nat]

Init ==
    /\ framework \in Frameworks /\ cred_mode \in {"redact", "deny"}
    /\ pc = "idle" /\ messages = << >> /\ request = << >> /\ reply = NoReply
    /\ stage = << >> /\ result = << >> /\ iter = 0
    /\ breaker = [t \in Tools |-> ClosedBreaker]
    /\ audit = << >> /\ turns = << >> /\ outcome = "none" /\ runs = 0
    /\ streak = [t \in Tools |-> 0]

\* invoke(prompt): a new conversation over the same pipeline.
Invoke ==
    /\ pc = "idle" /\ runs < MaxRuns[framework]
    /\ \E p \in Prompts : messages' = <<Message("user", p, TRUE)>>
    /\ request' = << >> /\ reply' = NoReply /\ stage' = << >> /\ result' = << >>
    /\ iter' = 0 /\ audit' = << >> /\ turns' = << >> /\ outcome' = "none"
    /\ runs' = runs + 1
    /\ pc' = "guard_input"
    /\ UNCHANGED <<deployment, breaker, streak>>

-------------------------------------------------------------------------------
\* Mutant of GuardedTexts: only what the user said is inspected.
GuardedTextsOfUser ==
    [i \in DOMAIN messages |-> IF messages[i].role = "user" THEN messages[i].text ELSE EmptyText]

\* What a conversation says that the model did not say itself; a message left out
\* adds no more to the concatenation than the empty text.
Inbound(conv) == [i \in DOMAIN conv |-> IF conv[i].role # "ai" THEN conv[i].text ELSE EmptyText]

\* The texts an adapter hands to before_model: LangGraph joins every message,
\* the others leave out what the model said itself.
GuardedTexts ==
    IF framework = "langgraph" THEN [i \in DOMAIN messages |-> messages[i].text]
    ELSE Inbound(messages)

\* before_model raises: the run ends before the model is asked.
InputBlocked ==
    /\ pc = "guard_input" /\ iter < MaxIters
    /\ Blocks(BeforeModel(Join(GuardedTexts), cred_mode))
    /\ audit' = audit \o BeforeModel(Join(GuardedTexts), cred_mode)
    /\ outcome' = "blocked" /\ pc' = "idle"
    /\ UNCHANGED <<deployment, conversation, toolVars, runs>>

\* Mutant of RedactedMessages: the adapter drops the answer of before_model.
MessagesUnredacted == messages

\* _redact_in_place: only LangGraph acts on the answer of before_model, on the
\* messages of the conversation themselves; those it cannot edit it passes over.
RedactedMessages ==
    IF framework = "langgraph" /\ ShouldRedact(Join(GuardedTexts), cred_mode)
    THEN [i \in DOMAIN messages |->
             IF messages[i].editable THEN [messages[i] EXCEPT !.text = Redact(@)] ELSE messages[i]]
    ELSE messages

\* before_model returns: the messages are sent to the model.
InputAllowed ==
    /\ pc = "guard_input" /\ iter < MaxIters
    /\ ~Blocks(BeforeModel(Join(GuardedTexts), cred_mode))
    /\ audit' = audit \o BeforeModel(Join(GuardedTexts), cred_mode)
    /\ messages' = RedactedMessages /\ request' = RedactedMessages
    /\ pc' = "model"
    /\ UNCHANGED <<deployment, reply, iter, turns, toolVars, outcome, runs>>

\* The model answers with a text and tool calls.
ModelReplies ==
    /\ pc = "model"
    /\ \E t \in Replies, calls \in CallLists :
          /\ reply' = [text |-> t, calls |-> calls]
          /\ stage' = [i \in DOMAIN calls |-> "pending"]
          /\ result' = [i \in DOMAIN calls |-> EmptyText]
    /\ iter' = iter + 1
    /\ pc' = IF framework = "pydantic" THEN "guard_calls" ELSE "guard_output"
    /\ UNCHANGED <<deployment, messages, request, turns, breaker, streak, audit, outcome, runs>>

\* The model call raises; no adapter catches it.
ModelRaises ==
    /\ pc = "model"
    /\ outcome' = "failed" /\ pc' = "idle"
    /\ UNCHANGED <<deployment, conversation, toolVars, audit, runs>>

\* Mutant of Delivered: every adapter hands out what the model wrote.
DeliveredUnmasked(conv) == [i \in 1 .. Len(conv) - 1 |-> conv[i + 1].text]

\* The turns of the RunResult, of every message but the user's, the first: the raw loop
\* keeps the text after_model returned, the other adapters normalize the conversation
\* as it is.
Delivered(conv) ==
    [i \in 1 .. Len(conv) - 1 |->
        IF framework = "raw" /\ conv[i + 1].role = "ai"
        THEN MaskPii(conv[i + 1].text) ELSE conv[i + 1].text]

\* after_model, which never raises with the guards that are registered: a reply
\* without tool calls ends the run.
OutputGuarded ==
    /\ pc = "guard_output"
    /\ \E trace \in Capture(reply.text) : audit' = audit \o AfterModel(reply.text, trace)
    /\ \E form \in Forms(reply.text) :
          messages' = IF reply.text.size = 0 THEN messages
                      ELSE Append(messages, Message("ai", reply.text, form))
    /\ IF reply.calls = << >>
       THEN /\ turns' = Delivered(messages')
            /\ outcome' = "ok" /\ pc' = "idle"
       ELSE /\ pc' = "tools"
            /\ UNCHANGED <<turns, outcome>>
    /\ UNCHANGED <<deployment, request, reply, iter, toolVars, runs>>

-------------------------------------------------------------------------------
\* When before_tool is called for call i of the reply.
MayGuard(i) ==
    /\ stage[i] = "pending"
    /\ CASE framework = "raw"       -> pc = "tools" /\ \A j \in 1 .. i - 1 : stage[j] = "done"
         [] framework = "langgraph" -> pc \in {"tools", "unwinding"}
         [] framework = "pydantic"  -> pc = "guard_calls" /\ \A j \in 1 .. i - 1 : stage[j] = "approved"

\* The first exception of a run decides how it ends; in LangGraph the tasks
\* already started run to their end before it is raised to the caller.
Raise(kind) ==
    /\ outcome' = IF outcome = "none" THEN kind ELSE outcome
    /\ pc' = "unwinding"

\* before_tool permits call i.
CallApproved(i) ==
    LET checks == BeforeTool(reply.calls[i], breaker[reply.calls[i].tool])
    IN  /\ MayGuard(i)
        /\ ~Blocks(checks) /\ ~Breaks(reply.calls[i], breaker[reply.calls[i].tool])
        /\ audit' = audit \o checks
        /\ stage' = [stage EXCEPT ![i] = "approved"]
        /\ UNCHANGED <<deployment, pc, conversation, result, breaker, outcome, runs, streak>>

\* before_tool raises for call i.
CallRefused(i) ==
    LET checks == BeforeTool(reply.calls[i], breaker[reply.calls[i].tool])
    IN  /\ MayGuard(i)
        /\ Blocks(checks)
        /\ audit' = audit \o checks
        /\ stage' = [stage EXCEPT ![i] = "stopped"]
        /\ Raise("blocked")
        /\ UNCHANGED <<deployment, conversation, result, breaker, runs, streak>>

\* before_tool breaks off for call i: no adapter calls it inside a try.
CallBreaks(i) ==
    /\ MayGuard(i)
    /\ Breaks(reply.calls[i], breaker[reply.calls[i].tool])
    /\ stage' = [stage EXCEPT ![i] = "stopped"]
    /\ Raise("failed")
    /\ UNCHANGED <<deployment, conversation, result, breaker, audit, runs, streak>>

\* GovernedModel.request has guarded every call of the reply.
CallsGuarded ==
    /\ pc = "guard_calls"
    /\ \A i \in Calls : stage[i] = "approved"
    /\ pc' = "guard_output"
    /\ UNCHANGED <<deployment, conversation, toolVars, audit, outcome, runs>>

\* Mutant of MayExecute: an approved call executes although another was refused.
MayExecuteAnyway(i) == stage[i] = "approved"

\* When call i of the reply executes.
MayExecute(i) ==
    /\ stage[i] = "approved"
    /\ pc = "tools" \/ (pc = "unwinding" /\ framework = "langgraph")

\* The tool returns.  An unregistered tool of the raw loop counts as one that
\* returned a harmless text.
ToolReturns(i) ==
    /\ MayExecute(i)
    /\ \E r \in Results : result' = [result EXCEPT ![i] = r]
    /\ stage' = [stage EXCEPT ![i] = "executed"]
    /\ streak' = [streak EXCEPT ![reply.calls[i].tool] = 0]
    /\ UNCHANGED <<deployment, pc, conversation, breaker, audit, outcome, runs>>

\* The tool raises: on_tool_error, except in Pydantic, and the exception
\* propagates.
ToolRaises(i) ==
    LET tool == reply.calls[i].tool
    IN  /\ MayExecute(i)
        /\ stage' = [stage EXCEPT ![i] = "stopped"]
        /\ breaker' = IF framework = "pydantic" THEN breaker
                      ELSE [breaker EXCEPT ![tool] = RecordFailure(@)]
        /\ streak' = [streak EXCEPT ![tool] = @ + 1]
        /\ Raise("failed")
        /\ UNCHANGED <<deployment, conversation, result, audit, runs>>

\* Which adapters call after_tool.
InspectsResults == framework # "pydantic"

\* The tool's message enters the conversation; where after_tool is called, the
\* success is recorded first and the result is scanned next.
ResultAccepted(i) ==
    /\ stage[i] = "executed"
    /\ InspectsResults => ~Blocks(AfterTool(result[i]))
    /\ breaker' = IF InspectsResults
                  THEN [breaker EXCEPT ![reply.calls[i].tool] = RecordSuccess(@)] ELSE breaker
    /\ \E form \in Forms(result[i]) : messages' = Append(messages, Message("tool", result[i], form))
    /\ stage' = [stage EXCEPT ![i] = "done"]
    /\ UNCHANGED <<deployment, pc, request, reply, iter, turns, result, audit, outcome, runs,
                   streak>>

\* after_tool raises, after it has recorded the success.
ResultRefused(i) ==
    /\ stage[i] = "executed"
    /\ InspectsResults
    /\ Blocks(AfterTool(result[i]))
    /\ breaker' = [breaker EXCEPT ![reply.calls[i].tool] = RecordSuccess(@)]
    /\ audit' = audit \o AfterTool(result[i])
    /\ stage' = [stage EXCEPT ![i] = "stopped"]
    /\ Raise("blocked")
    /\ UNCHANGED <<deployment, conversation, result, runs, streak>>

\* Every call of the reply is answered: back to the model.
NextIteration ==
    /\ pc = "tools"
    /\ \A i \in Calls : stage[i] = "done"
    /\ pc' = "guard_input"
    /\ UNCHANGED <<deployment, conversation, toolVars, audit, outcome, runs>>

\* The raw loop ends after _MAX_ITERS model calls and returns what it has; the
\* frameworks raise at their own limit.
IterationsExhausted ==
    /\ pc = "guard_input" /\ iter = MaxIters
    /\ IF framework = "raw"
       THEN turns' = Delivered(messages) /\ outcome' = "ok"
       ELSE outcome' = "failed" /\ UNCHANGED turns
    /\ pc' = "idle"
    /\ UNCHANGED <<deployment, messages, request, reply, iter, toolVars, audit, runs>>

\* Mutant of Unwound: calls that were never started are waited for as well.
UnwoundWhenAllOver ==
    /\ pc = "unwinding"
    /\ \A i \in Calls : stage[i] \in {"done", "stopped"}
    /\ pc' = "idle"
    /\ UNCHANGED <<deployment, conversation, toolVars, audit, outcome, runs>>

\* The exception reaches the caller, once no started call is running any more.
Unwound ==
    /\ pc = "unwinding"
    /\ framework = "langgraph" => \A i \in Calls : stage[i] \notin {"approved", "executed"}
    /\ pc' = "idle"
    /\ UNCHANGED <<deployment, conversation, toolVars, audit, outcome, runs>>

\* recovery_timeout_seconds pass: the next read of an open circuit finds it
\* half open.
RecoveryElapses(t) ==
    /\ breaker[t].state = "open"
    /\ breaker' = [breaker EXCEPT ![t].state = "half_open"]
    /\ streak' = [streak EXCEPT ![t] = 0]
    /\ UNCHANGED <<deployment, pc, conversation, stage, result, audit, outcome, runs>>

CallStep(i) ==
    \/ CallApproved(i)
    \/ CallRefused(i)
    \/ CallBreaks(i)
    \/ ToolReturns(i)
    \/ ToolRaises(i)
    \/ ResultAccepted(i)
    \/ ResultRefused(i)

RunStep ==
    \/ InputBlocked
    \/ InputAllowed
    \/ ModelReplies
    \/ ModelRaises
    \/ OutputGuarded
    \/ CallsGuarded
    \/ NextIteration
    \/ IterationsExhausted
    \/ Unwound
    \/ \E i \in Calls : CallStep(i)

Next ==
    \/ Invoke
    \/ RunStep
    \/ \E t \in Tools : RecoveryElapses(t)

Spec == Init /\ [][Next]_vars

-------------------------------------------------------------------------------
(***************************************************************************)
(* Properties                                                              *)
(***************************************************************************)

\* Whatever the adapter, nothing the guards block is ever sent to the model,
\* neither in a prompt nor in what a tool returned turns ago, alone or together.
RequestsScreened ==
    LET text == Join(Inbound(request))
    IN  /\ "attack" \notin text.marks
        /\ text.size <= WindowTotal
        /\ cred_mode = "deny" => "secret" \notin text.marks

\* before_model has reported a redaction in the run whose request is with the model.
RedactionReported ==
    pc = "model" /\ \E i \in DOMAIN audit : audit[i] = Entry("credential_check", "audit")

\* A redaction the audit trail reports has taken place, as far as the messages can be
\* edited: none of those sent holds a credential.
RedactionHappens ==
    RedactionReported =>
        \A i \in DOMAIN request : request[i].editable => "secret" \notin request[i].text.marks

\* What the docstring of before_model asks of every caller: a credential reported as
\* redacted is in no message of the request.  The raw loop and Pydantic AI drop the
\* answer of before_model, and LangGraph passes over the messages it cannot edit.
CallersRedact ==
    RedactionReported => \A i \in DOMAIN request : "secret" \notin request[i].text.marks

\* The audit trail and the verdict agree: a run is blocked exactly when the
\* last entry of its trail is a denial, and no other entry is one.  Not in
\* LangGraph, where the calls of a reply are guarded concurrently.
BlockIsLastWord ==
    LET denied(i) == audit[i].decision = "deny"
    IN  framework # "langgraph" =>
            /\ outcome = "blocked" <=> audit # << >> /\ denied(Len(audit))
            /\ \A i \in 1 .. Len(audit) - 1 : ~denied(i)

\* Where results are reported to the guards, a tool result that the scanner
\* flags never enters the conversation.
UnsafeResultsStopped ==
    \A i \in DOMAIN messages : messages[i].role = "tool" => "unsafe" \notin messages[i].text.marks

\* A tool that keeps failing is cut off: between two successes or recoveries it is
\* never executed more often than the threshold allows.
FailuresCutOff == \A t \in Tools : streak[t] <= FailureThreshold

\* Personal data that the output guard reported masked is masked in what the caller
\* gets of the model's texts.
TurnsMasked ==
    (\E i \in DOMAIN audit : audit[i] = Entry("output_check", "audit")) =>
        \A i \in DOMAIN turns : messages[i + 1].role = "ai" => "pii" \notin turns[i].marks

\* A reply executes as a whole or not at all: no call of it executes when another one
\* of it is refused.
NoPartialReply ==
    outcome = "blocked" /\ (\E i \in Calls : stage[i] = "stopped") =>
        \A i \in Calls : stage[i] \notin {"executed", "done"}

\* The state is well typed, and each adapter keeps what its own use of the hooks gives:
\* the raw loop hands out masked texts only, cuts failing tools off and stops on unsafe
\* results; LangGraph sends what it reports redacted as redacted wherever it can edit the
\* message, and stops on unsafe results too; Pydantic AI never executes part of a reply that is refused.
AdapterContracts ==
    /\ TypeOK
    /\ framework = "raw" => TurnsMasked /\ FailuresCutOff /\ UnsafeResultsStopped
    /\ framework = "langgraph" => RedactionHappens /\ UnsafeResultsStopped
    /\ framework = "pydantic" => NoPartialReply

\* Every run ends.
RunEnds == (pc # "idle") ~> (pc = "idle")
===============================================================================
