SPECIFICATION LiveSpec
CONSTANTS
    maf = maf
    graph = graph
    client_ = client_
    Agents <- BuiltAgents
    Callers <- KeyCallers
    FrameworkOf <- Frameworks
    Providers = {"azure", "aws", "local", "unknown"}
    Sharing = {graph}
    Client = client_
    MaxKey = 2
    TTL = 2
INVARIANTS KeyIsCurrent LedgersHaveOwners
PROPERTIES RefusedKeyIsGone KeyRecovers
CHECK_DEADLOCK FALSE
