SPECIFICATION FrameworkSpec
CONSTANTS
    query = query
    export = export
    WindowTotal = 3
    MaxIters = 2
    RawRuns = 3
    MaxRuns <- MCMaxRuns
    FailureThreshold = 2
    Tools = {query, export}
    AllowedTools = {query}
    Prompts <- MCPrompts
    Replies <- MCReplies
    CallLists <- MCCallLists
    Results <- MCResults
    Runs = {r1, r2}
    Messages <- SomeMessages
    MaxMessages = 2
INVARIANTS
    RequestsScreened
    AdapterContracts
    BlockIsLastWord
    LastMessageScreened
    TrailExplainsRun
    WindowHasRun
PROPERTIES
    RunEnds
CHECK_DEADLOCK FALSE
