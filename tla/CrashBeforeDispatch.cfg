SPECIFICATION FairSpec
CONSTANTS
    a = a  b = b  c = c  s = s
    w1 = w1  w2 = w2
    NoTask = NoTask
    Step <- ChainRows
    Task <- ChainRows
    StepOf <- ChainStepOf
    Deps <- ChainDeps
    Synthesis <- ChainSynthesis
    Worker = {w1, w2}
    MaxRetries = 2
    Outcomes = {"ok"}
    Requests = {}
    FaultKinds = {"redelivered"}
    MaxFaults = 1
PROPERTIES JobEnds
CHECK_DEADLOCK FALSE
