SPECIFICATION PlatformSpec
CONSTANTS
    a = a  b = b  s = s  a2 = a2  s2 = s2
    w1 = w1  w2 = w2
    NoTask = NoTask
    Step <- TwiceSteps
    Task <- TwiceRows
    StepOf <- TwiceStepOf
    Deps <- TwiceDeps
    Synthesis <- TwiceSynthesis
    Worker = {w1, w2}
    MaxRetries = 1
    Outcomes = {"ok", "toolerror", "transient"}
    Requests = {"cancel", "delete"}
    FaultKinds = {"lost", "redelivered", "duplicate", "unsent"}
    MaxFaults = 1
    ApiKey = TRUE
    AboutFiles = TRUE
    Replies <- TwiceReplies
    MaxSteps = 12
SYMMETRY Interchangeable
INVARIANTS PlatformTypeOK DependenciesFirst
CHECK_DEADLOCK FALSE
