SPECIFICATION Spec
CONSTANTS
    Toggles = {"enable_prompt_injection_guard", "enable_credential_redactor", "enable_context_budget"}
    Patterns = {"drop", "rm"}
    Agents = {FinOps, Rogue}
    FinOps = FinOps
    Rogue = Rogue
    Unknown = Unknown
    Files <- MCFiles
    Broken = Broken
    Floor <- MCFloor
    Tools = {"query", "shell"}
    Recipients = {"auditor"}
    Prompts <- MCPrompts
    Malformed = Malformed
    Replies <- MCReplies
    Raises = Raises
    None = None
    Empty = Empty
    Instances = {i1}
    i1 = i1
    NHIs = {"pinned", "other"}
    AllowedNHIs = {"pinned"}
    MaxEdits = 2
INVARIANTS
    TypeOK
    FloorHolds
    ServedIsWithinPolicy
    FloorEnforced
CHECK_DEADLOCK FALSE
