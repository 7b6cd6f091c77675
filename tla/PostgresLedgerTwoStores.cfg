SPECIFICATION Spec
CONSTANTS
    agent = agent
    other = other
    allow = allow
    deny = deny
    Stores <- RunStores
    Entries = {allow, deny}
    MaxEntries <- EntriesOf
    MaxFailures = 0
    WriteDuringFlush = FALSE
    LateFailures = FALSE
INVARIANTS RunVerifies
CHECK_DEADLOCK FALSE
