SPECIFICATION FairToolsSpec
CONSTANTS
    b1 = b1
    c1 = c1  c2 = c2  c3 = c3  c4 = c4  c5 = c5
    w1 = w1  w2 = w2
    Container = {b1}
    NoContainer = NoContainer
    Backends = {"docker", "subprocess"}
    MaxFaults = 2
    Request <- SomeRequests
    NoCall = NoCall
    Configs <- SomeConfigs
    Chunk <- Chunks
    Libraries <- SomeLibraries
    Owner <- SomeOwner
    Vector <- SomeVector
    Keyword <- SomeKeyword
    Workspace = w1
    MaxOutputs = 2
INVARIANTS ToolsTypeOK NoProgramOutlivesItsCall ContainersAreRemoved AnswersAreGrounded BetterChunksWereOutOfReach
PROPERTIES  CallsEnd
CHECK_DEADLOCK FALSE
