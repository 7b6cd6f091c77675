SPECIFICATION Spec
CONSTANTS
    a1 = a1  a2 = a2  in1 = in1  in2 = in2  outer = outer  n1 = n1  n2 = n2  good = good  bad = bad
    Callers <- Two
    Files <- TheFiles
    Sandbox <- TheSandbox
    Existing <- AtFirst
    Names <- TheNames
    Relinked = {n2}
    Pieces <- ThePieces
    KindOf <- Kinds
    Calls <- TheCalls
    FlagSets <- TheFlags
    MaxTotal = 8
    MAX_LINES = 2
    OVERLAP_LINES = 2
    Targets = {1, 2, 3, 5}
    Types <- FourTypes
    RepoFiles <- SevenFiles
    MAX_FILES_TO_SCAN = 4
INVARIANTS SandboxHolds PatchIsAllOrNothing ReviewedUnlessPatched
    ChunksCoverFile ClassificationReproducible
SYMMETRY Agents
CHECK_DEADLOCK FALSE
