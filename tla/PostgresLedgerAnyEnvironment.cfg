SPECIFICATION Spec
CONSTANTS
    agent = agent
    other = other
    allow = allow
    deny = deny
    Stores <- RunStores
    Entries = {allow, deny}
    MaxEntries <- EntriesOf
    MaxFailures = 2
    WriteDuringFlush = TRUE
    LateFailures = TRUE
INVARIANTS VerifiedIsPrefix
CHECK_DEADLOCK FALSE
