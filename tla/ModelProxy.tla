------------------------------ MODULE ModelProxy ------------------------------
(***************************************************************************)
(* What the model proxy does with one request under one policy: the        *)
(* handler of cloud_adapters/aws/infra/lambda/bedrock_proxy.py and the     *)
(* checks of governance/enforcement_core.py that it calls.  A text is what *)
(* the checks find in it: the severities of the injection rules that match *)
(* it, whether it has a credential-shaped or a PII-shaped span, and the    *)
(* blocked patterns it contains once such spans are masked.  A prompt is   *)
(* its text blocks, by the place they stand in, and the token estimate of  *)
(* all of them, as they are and with credentials masked; other fields of a *)
(* request, and tool arguments of earlier turns, are not looked at by the  *)
(* code and are left out.                                                  *)
(***************************************************************************)
EXTENDS GovernanceFloor

CONSTANTS
    Tools,          \* tools an agent or its model may name
    Recipients,     \* agent types a file may list as recipients
    Prompts,        \* requests that may be posted to the proxy
    Malformed,      \* a body that is not JSON or has no messages
    Replies,        \* what the model may answer
    Raises,         \* the call of the model raises
    None            \* no policy, nothing sent, nothing returned

Marks == [injection : SUBSET Thresholds, credential : BOOLEAN, pii : BOOLEAN,
          patterns : SUBSET Patterns]

\* The places _iter_text_blocks and the system prompt read texts from.
Blocks == {"system", "text", "toolResult"}

PromptShapes == [blocks : [Blocks -> Marks], tokens : Nat, masked : Nat]
Calls == [tool : Tools, patterns : SUBSET Patterns]
ReplyShapes == [texts : SUBSET Marks, calls : SUBSET Calls]
Policies == [governance : Configs, allowed : SUBSET Tools, denied : SUBSET Tools,
             recipients : SUBSET Recipients]

ASSUME RequestsAssumption == Prompts \subseteq PromptShapes /\ Replies \subseteq ReplyShapes

-------------------------------------------------------------------------------
\* _SEVERITY_RANK: a table of its own, beside the floor's looseness scale.
SeverityRank == [medium |-> 0, high |-> 1, critical |-> 2]

\* scan_injection over _input_text: a rule matches at or above the threshold.
InjectionIn(prompt, threshold) ==
    \E b \in Blocks : \E severity \in prompt.blocks[b].injection :
        SeverityRank[severity] >= SeverityRank[threshold]

\* scan_credentials over _input_text.
CredentialIn(prompt) == \E b \in Blocks : prompt.blocks[b].credential

\* check_budget; a budget of 0, which no file may have, would be no budget.
OverBudget(tokens, budget) == budget # 0 /\ tokens > budget

\* enforce_input: the proxy masks credentials rather than refuse them.
Masks(config) ==
    "enable_credential_redactor" \in config.guards /\ config.credential_mode # "deny"

\* enforce_input: injection, then credential, then budget, the last one over
\* the text as the credential guard leaves it.
InputBlocked(prompt, config) ==
    \/ /\ "enable_prompt_injection_guard" \in config.guards
       /\ InjectionIn(prompt, config.threshold)
    \/ /\ "enable_credential_redactor" \in config.guards
       /\ config.credential_mode = "deny"
       /\ CredentialIn(prompt)
    \/ /\ "enable_context_budget" \in config.guards
       /\ OverBudget(IF Masks(config) THEN prompt.masked ELSE prompt.tokens, config.budget)

\* redact_credentials and redact_pii of one text.
RedactCredentials(text) == [text EXCEPT !.credential = FALSE]
RedactPii(text) == [text EXCEPT !.credential = FALSE, !.pii = FALSE]

\* Mutant of RedactMessages: tool results are passed over.
RedactMessagesNotResults(prompt) ==
    [prompt EXCEPT !.tokens = prompt.masked,
                   !.blocks = [b \in Blocks |-> IF b = "toolResult" THEN prompt.blocks[b]
                                                ELSE RedactCredentials(prompt.blocks[b])]]

\* _redact_messages: every text block, in place.
RedactMessages(prompt) ==
    [prompt EXCEPT !.tokens = prompt.masked,
                   !.blocks = [b \in Blocks |-> RedactCredentials(prompt.blocks[b])]]

\* The messages that handler passes to converse.
Sent(prompt, config) == IF Masks(config) THEN RedactMessages(prompt) ELSE prompt

\* check_tool_plan: deny-list, allow-list, then patterns in the arguments.
PlanBlocked(call, policy) ==
    \/ call.tool \in policy.denied
    \/ call.tool \notin policy.allowed
    \/ call.patterns \cap policy.governance.patterns # {}

\* enforce_output of a text: masked first, then searched for patterns.
OutputBlocked(text, config) == RedactPii(text).patterns \cap config.patterns # {}

ReplyBlocked(reply, policy) ==
    \/ \E call \in reply.calls : PlanBlocked(call, policy)
    \/ \E text \in reply.texts : OutputBlocked(text, policy.governance)

\* The response whose text blocks enforce_output has replaced.
Returned(reply) == [reply EXCEPT !.texts = {RedactPii(text) : text \in reply.texts}]

Outcome(verdict, sent, returned) ==
    [verdict |-> verdict, sent |-> sent, returned |-> returned]

\* handler, from the resolved policy on: 403 without one, 400 for a malformed
\* body, 403 for a blocked prompt, 502 when the model raises, 403 for a blocked
\* reply, 200.
Handled(policy, prompt, reply) ==
    IF policy = None THEN Outcome("forbidden", None, None)
    ELSE IF prompt = Malformed THEN Outcome("rejected", None, None)
    ELSE IF InputBlocked(prompt, policy.governance) THEN Outcome("blocked", None, None)
    ELSE LET sent == Sent(prompt, policy.governance)
         IN  IF reply = Raises THEN Outcome("failed", sent, None)
             ELSE IF ReplyBlocked(reply, policy) THEN Outcome("blocked", sent, None)
             ELSE Outcome("served", sent, Returned(reply))

-------------------------------------------------------------------------------
(***************************************************************************)
(* What a configuration asks of the model boundary                         *)
(***************************************************************************)

\* The prompt has nothing that the configuration is there to keep from the model.
PromptWithin(prompt, config) ==
    /\ "enable_prompt_injection_guard" \in config.guards =>
          \A b \in Blocks : \A severity \in prompt.blocks[b].injection :
              Looseness(ThresholdScale, severity) < Looseness(ThresholdScale, config.threshold)
    /\ "enable_credential_redactor" \in config.guards =>
          \A b \in Blocks : ~prompt.blocks[b].credential
    /\ "enable_context_budget" \in config.guards => prompt.tokens <= config.budget

\* The reply has no secret, no personal data and no pattern the configuration
\* blocks, in a text or in the arguments of a call.
ReplyWithin(reply, config) ==
    /\ \A text \in reply.texts :
          ~text.credential /\ ~text.pii /\ text.patterns \cap config.patterns = {}
    /\ \A call \in reply.calls : call.patterns \cap config.patterns = {}
===============================================================================
