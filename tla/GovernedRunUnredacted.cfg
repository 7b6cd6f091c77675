SPECIFICATION FrameworkSpec
CONSTANTS
    query = query
    export = export
    WindowTotal = 3
    MaxIters = 2
    RawRuns = 1
    MaxRuns <- MCMaxRuns
    FailureThreshold = 2
    Tools = {query, export}
    AllowedTools = {query}
    Prompts <- MCPrompts
    Replies <- MCReplies
    CallLists <- MCCallLists
    Results <- MCResults
    Runs = {r1}
    Messages <- SomeMessages
    MaxMessages = 2
INVARIANT CallersRedact
CHECK_DEADLOCK FALSE
