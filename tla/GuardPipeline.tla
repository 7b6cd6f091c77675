---------------------------- MODULE GuardPipeline ----------------------------
(***************************************************************************)
(* GuardPipeline (governance/pipeline.py): what each hook of the shared    *)
(* pipeline logs and decides.  The hooks are sequential code over values,  *)
(* so they are operators here; the modules of the framework adapters say   *)
(* when they are called and what is done with the answer.                  *)
(*                                                                         *)
(* A text is the set of marks the detectors find in it and its size in     *)
(* estimated tokens; a text of size 0 is the empty string, in which no     *)
(* detector finds anything.                                                *)
(***************************************************************************)
EXTENDS Naturals, Sequences, SequencesExt

CONSTANTS
    AllowedTools,       \* governance.allowed_tools of the agent
    WindowTotal,        \* tokens the context scheduler hands out
    FailureThreshold    \* failures that open a tool's circuit

ASSUME PostureAssumption ==
    /\ WindowTotal \in Nat
    /\ FailureThreshold \in Nat \ {0}

\* attack: an injection at or above the block threshold; suspect: one below it;
\* secret: a credential; pii: personal data; unsafe: flagged by the MCP scanner.
Marks == {"attack", "suspect", "secret", "pii", "unsafe"}
Texts == {text \in [marks : SUBSET Marks, size : Nat] : text.size = 0 => text.marks = {}}

Entry(event, decision) == [event |-> event, decision |-> decision]
Entries ==
    [event : {"prompt_injection_check", "credential_check", "context_budget_check",
              "reasoning_trace", "output_check", "capability_check", "policy_check",
              "tool_output_check"},
     decision : {"allow", "audit", "deny"}]

\* Mutant of UpToDenial: every check is run and logged before one raises.
EveryCheck(entries) == entries

\* The checks of a hook run in order and the first denial raises, so only the
\* entries up to the first denial are logged.
UpToDenial(entries) ==
    LET denials == {i \in DOMAIN entries : entries[i].decision = "deny"}
    IN  IF denials = {} THEN entries
        ELSE SubSeq(entries, 1, CHOOSE i \in denials : \A j \in denials : i <= j)

\* Did the hook raise GovernanceViolation?
Blocks(entries) == \E i \in DOMAIN entries : entries[i].decision = "deny"

-------------------------------------------------------------------------------
\* The sum of a sequence of numbers.
Total(numbers) ==
    LET sum[i \in 0 .. Len(numbers)] == IF i = 0 THEN 0 ELSE sum[i - 1] + numbers[i]
    IN  sum[Len(numbers)]

\* The concatenation of some texts, as the adapters pass it to before_model.
Join(texts) ==
    [marks |-> UNION {texts[i].marks : i \in DOMAIN texts},
     size |-> Total([i \in DOMAIN texts |-> texts[i].size])]

\* CredentialRedactor.redact: the credentials are masked, the rest stays.
Redact(text) == [text EXCEPT !.marks = @ \ {"secret"}]

\* before_model, check 1: prompt injection (B4).
InjectionCheck(text) ==
    <<Entry("prompt_injection_check",
            CASE "attack" \in text.marks -> "deny"
              [] "suspect" \in text.marks /\ "attack" \notin text.marks -> "audit"
              [] OTHER -> "allow")>>

\* before_model, check 2: credentials (B5), by governance.credential_mode;
\* nothing is logged when none is found.
CredentialCheck(text, mode) ==
    IF "secret" \notin text.marks THEN << >>
    ELSE <<Entry("credential_check", IF mode = "deny" THEN "deny" ELSE "audit")>>

\* before_model, check 3: context budget (B6).  BudgetExceeded and a prompt
\* larger than the window are logged and raised alike; the window is released
\* in either case, so no allocation outlives the hook.
BudgetCheck(text) ==
    <<Entry("context_budget_check", IF text.size > WindowTotal THEN "deny" ELSE "allow")>>

\* before_model(text): every check is skipped for an empty text.
BeforeModel(text, mode) ==
    IF text.size = 0 THEN << >>
    ELSE UpToDenial(InjectionCheck(text) \o CredentialCheck(text, mode) \o BudgetCheck(text))

\* What before_model returns when it does not raise.
ShouldRedact(text, mode) == text.size > 0 /\ "secret" \in text.marks /\ mode = "redact"

\* OutputPiiGuard.redact_output: the personal data is masked, never blocked.
MaskPii(text) == [text EXCEPT !.marks = @ \ {"pii"}]

\* ReasoningTraceLogger.capture: what it may have written to the ledger of a reply.
\* It writes past the audit logger and swallows a failed write, and an agent may be
\* configured without it.
Capture(text) == {<< >>, <<Entry("reasoning_trace", "allow")>>}

\* after_model(response), once the trace is written: the output guard transforms the
\* text.
AfterModel(text, trace) ==
    trace \o IF "pii" \in text.marks THEN <<Entry("output_check", "audit")>> ELSE << >>

-------------------------------------------------------------------------------
(* The circuit breaker is agent_os.circuit_breaker, of which src/ shows the  *)
(* constructor arguments and how its state is read.                          *)

Breakers == [state : {"closed", "open", "half_open"}, failures : 0 .. FailureThreshold]

ClosedBreaker == [state |-> "closed", failures |-> 0]

\* record_success of the library: the circuit closes and the count restarts.
RecordSuccess(breaker) == ClosedBreaker

\* Mutant of RecordFailure: the count restarts with every failure.
RecordFailureForgets(breaker) ==
    IF breaker.state = "half_open" \/ FailureThreshold = 1
    THEN [state |-> "open", failures |-> FailureThreshold]
    ELSE [breaker EXCEPT !.failures = 1]

\* record_failure of the library: the threshold or a failed trial opens it.
RecordFailure(breaker) ==
    IF breaker.state # "closed" \/ breaker.failures + 1 >= FailureThreshold
    THEN [state |-> "open", failures |-> FailureThreshold]
    ELSE [breaker EXCEPT !.failures = @ + 1]

\* CircuitBreakerGuard.allow_call: only an open circuit refuses; the number of
\* half-open trials is not counted.
AllowCall(breaker) == breaker.state # "open"

\* A tool call is a tool and what the argument guards make of its arguments: plain,
\* pattern (a blocked pattern is in them), refused (by a sweep guard) or malformed (a
\* sweep guard raises something else, as the cost guard does on an estimated_cost that
\* is no number).
ToolCalls(tools) == [tool : tools, args : {"plain", "pattern", "refused", "malformed"}]

\* ReasoningStepValidator.validate_step of a tool call, without a Cedar engine.
ToolAllowed(tool) == tool \in AllowedTools

\* before_tool(name, args): allow-list, blocked patterns, circuit breaker and
\* the guards registered after it; a denial is logged where it is found, and
\* the permission last, unless a guard has broken off.
BeforeTool(call, breaker) ==
    LET denial(event, denied) == IF denied THEN <<Entry(event, "deny")>> ELSE << >>
    IN  UpToDenial(denial("capability_check", ~ToolAllowed(call.tool))
                   \o denial("policy_check", call.args = "pattern")
                   \o denial("policy_check", ~AllowCall(breaker))
                   \o denial("policy_check", call.args = "refused")
                   \o IF call.args = "malformed" THEN << >> ELSE <<Entry("capability_check", "allow")>>)

\* Did before_tool raise something that is no GovernanceViolation?
Breaks(call, breaker) == call.args = "malformed" /\ ~Blocks(BeforeTool(call, breaker))

\* McpResponseGuard.scan_result allows the result.  The text it would have
\* sanitized is advisory: a flagged result is refused as a whole.
ResultSafe(result) == "unsafe" \notin result.marks

\* Mutant of AfterTool: a flagged result is logged as sanitized and let through.
AfterToolSanitizes(result) ==
    IF ResultSafe(result) THEN << >> ELSE <<Entry("tool_output_check", "audit")>>

\* after_tool(name, result): a result the guard refuses is logged and raises.
AfterTool(result) ==
    IF ResultSafe(result) THEN << >> ELSE <<Entry("tool_output_check", "deny")>>
===============================================================================
