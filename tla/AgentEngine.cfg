SPECIFICATION Spec
CONSTANTS
    finops = finops
    query = query
    retry = retry
    allow = allow
    deny = deny
    Agents <- RunOwners
    Queries = {query, retry}
    Entries = {allow, deny}
    MaxEntries <- EntriesOf
    MaxFailures = 1
INVARIANTS FlushHeals VerifiedIsOneLog
PROPERTIES ValidHasWholeLog
SYMMETRY Symmetry
CHECK_DEADLOCK FALSE
