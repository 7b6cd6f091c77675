------------------------- MODULE MCPolicyDistribution -------------------------
(* Instance of PolicyDistribution: a floor in the middle of every scale,   *)
(* files below it, above it and across it, prompts and replies on either   *)
(* side of every check.                                                    *)
EXTENDS PolicyDistribution
CONSTANTS FinOps, Rogue, i1

Governance(guards, mode, threshold, budget, patterns) ==
    [guards |-> guards, credential_mode |-> mode, threshold |-> threshold,
     budget |-> budget, patterns |-> patterns]
MCFloor == Governance(Toggles, "redact", "high", 2, {"drop"})
MCFiles ==
    {[governance |-> Governance({}, "redact", "critical", 3, {}),
      allowed |-> {"query"}, denied |-> {}, recipients |-> {}],
     [governance |-> Governance(Toggles, "deny", "medium", 1, {"drop", "rm"}),
      allowed |-> {"query", "shell"}, denied |-> {"shell"},
      recipients |-> {"auditor"}]}

Text(injection, credential, pii, patterns) ==
    [injection |-> injection, credential |-> credential, pii |-> pii, patterns |-> patterns]
Plain == Text({}, FALSE, FALSE, {})
Prompt(system, text, result, tokens, masked) ==
    [blocks |-> [system |-> system, text |-> text, toolResult |-> result],
     tokens |-> tokens, masked |-> masked]
MCPrompts ==
    {Prompt(Plain, Plain, Plain, 1, 1),
     Prompt(Plain, Text({"high"}, FALSE, FALSE, {}), Plain, 1, 1),
     Prompt(Plain, Text({"medium"}, TRUE, FALSE, {}), Text({}, TRUE, FALSE, {}), 3, 2)}
MCReplies ==
    {[texts |-> {Text({}, TRUE, TRUE, {})}, calls |-> {[tool |-> "query", patterns |-> {}]}],
     [texts |-> {Plain, Text({}, FALSE, FALSE, {"drop"})}, calls |-> {}],
     [texts |-> {}, calls |-> {[tool |-> "query", patterns |-> {}],
                               [tool |-> "shell", patterns |-> {"rm"}]}]}
===============================================================================
