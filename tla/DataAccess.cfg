SPECIFICATION DataSpec
CONSTANTS
    FinOps = FinOps
    Rogue = Rogue
    r1 = r1
    r2 = r2
    AgentTypes = {FinOps, Rogue}
    Tables = {"billing", "employees"}
    Columns = {"region", "email", "tax", "salary"}
    Values = {"us", "eu", "apac", "x", "y"}
    Mask = Mask
    Denied = Denied
    Labels <- MCLabels
    Clearance <- MCClearance
    AlwaysMasked <- MCAlwaysMasked
    RowFilter <- MCRowFilter
    Readers = {r1, r2}
    Requests <- MCRequests
    Rows <- MCRows
    MinSamples = 2
    ZThreshold = 1
    Window = 2
    MinTables = 2
    DenialPercent = 30
    Missing = Missing
    Empty = Empty
    Torn = Torn
    Nothing = Nothing
    MaxReads = 3
INVARIANTS
    BaselineIsEarned
    BaselineIsComplete
    QuarantineIsEarned
    ReturnedIsInScope
PROPERTY
    ReadsReturn
CHECK_DEADLOCK FALSE
