SPECIFICATION SqlSpec
CONSTANTS
    agent = agent
    other = other
    allow = allow
    deny = deny
    t1 = t1
    t2 = t2
    Stores <- RunStores
    Entries = {allow, deny}
    MaxEntries <- EntriesOf
    MaxFailures = 2
    WriteDuringFlush = FALSE
    LateFailures = FALSE
    Tasks = {t1, t2}
    TraceEntries = {allow, deny}
    MaxCalls = 4
INVARIANTS TraceVerifies
CHECK_DEADLOCK FALSE
