\* With and without the broker; nested and concurrent calls; the system stops at MaxCalls.
SPECIFICATION FairSpec
CONSTANTS
    FinOps = FinOps
    Auditor = Auditor
    Rogue = Rogue
    Ghost = Ghost
    None = None
    Registered <- MCRegistered
    Recipients <- MCRecipients
    AllowLists <- MCAllowLists
    Agents = {FinOps, Auditor, Rogue, Ghost}
    MaxCalls = 3
    MaxUnbrokered = 2
INVARIANTS
    TwoEntriesPerHop
    HandlersAuthorized
    NothingRunsUnawaited
PROPERTIES
    EveryDispatchAnswered
CHECK_DEADLOCK FALSE
