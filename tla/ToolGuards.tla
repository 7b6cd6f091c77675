----------------------------- MODULE ToolGuards -----------------------------
(***************************************************************************)
(* The sweep guards that GuardPipeline.before_tool runs on a tool call     *)
(* (_register_sweep_guards in governance/pipeline.py and the guards it     *)
(* registers, governance/extensions/*_guard.py).  Each looks for its own   *)
(* argument keys and passes a call that has none of them.  A call is       *)
(* abstracted to its view: what each guard finds under its keys.           *)
(***************************************************************************)
EXTENDS Naturals, Sequences

Flags == {"egress", "semantic", "codegen", "exec", "diff", "memory", "cost"}

\* dest: url, endpoint, host, ...; body: code, content, patch, ...; script: code,
\* command, expression, ...; files: files, diff, changes; memory: content, text,
\* document, ...; cost: estimated_cost, cost_usd; intent: what the semantic policy
\* engine makes of the name and the arguments.
Views ==
    [dest : {"none", "listed", "unlisted"},
     intent : {"fine", "denied", "dangerous"},
     body : {"none", "safe", "unsafe", "unparsable"},
     script : {"none", "safe", "unsafe", "unparsable"},
     files : {"none", "within", "outside", "garbled"},
     memory : {"none", "clean", "poisoned"},
     cost : {"none", "within", "over", "garbled"}]

EmptyView ==
    [dest |-> "none", intent |-> "fine", body |-> "none", script |-> "none",
     files |-> "none", memory |-> "none", cost |-> "none"]

Verdicts == {"allow", "deny", "raise"}
Unless(bad) == IF bad THEN "deny" ELSE "allow"

\* EgressGuard.check_tool: a destination that no rule lists is denied; a network tool
\* without one is allowed.
CheckTool(v) == Unless(v.dest = "unlisted")

\* SemanticPolicyGuard.check_tool: the engine's deny set raises PolicyDenied, the other
\* dangerous categories are denied here.
CheckIntent(v) == Unless(v.intent \in {"denied", "dangerous"})

\* Mutant of CheckCode: the content of a file is not looked at.
CheckNoCode(v) == "allow"

\* SecureCodegenGuard.check_code: whatever is under its keys is read as Python, and
\* what does not parse is unsafe.
CheckCode(v) == Unless(v.body \in {"unsafe", "unparsable"})

\* SecureExecGuard.check_exec.
CheckExec(v) == Unless(v.script \in {"unsafe", "unparsable"})

\* DiffPolicyGuard.check_diff: int(additions) of a file may raise.
CheckDiff(v) == IF v.files = "garbled" THEN "raise" ELSE Unless(v.files = "outside")

\* MemoryWriteGuard.check_write: every tool's content is taken for a memory write.
CheckWrite(v) == Unless(v.memory = "poisoned")

\* The cost closure and CostGuard.check: float(estimated_cost) may raise; nothing is
\* ever charged, so only the limit of a single task can be exceeded.
CheckCost(v) == IF v.cost = "garbled" THEN "raise" ELSE Unless(v.cost = "over")

\* _register_sweep_guards: the guards in the order they are registered.
Chain(v) ==
    << [flag |-> "egress", verdict |-> CheckTool(v)],
       [flag |-> "semantic", verdict |-> CheckIntent(v)],
       [flag |-> "codegen", verdict |-> CheckCode(v)],
       [flag |-> "exec", verdict |-> CheckExec(v)],
       [flag |-> "diff", verdict |-> CheckDiff(v)],
       [flag |-> "memory", verdict |-> CheckWrite(v)],
       [flag |-> "cost", verdict |-> CheckCost(v)] >>

\* before_tool: the first enabled guard that does not allow the call decides; one that
\* raises ends the hook with its own exception and without an entry.
BeforeTool(flags, v) ==
    LET chain == Chain(v)
        stops == {i \in DOMAIN chain : chain[i].flag \in flags /\ chain[i].verdict # "allow"}
    IN  IF stops = {} THEN "allow" ELSE chain[CHOOSE i \in stops : \A j \in stops : i <= j].verdict
=============================================================================
