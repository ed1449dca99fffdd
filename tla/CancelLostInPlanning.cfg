SPECIFICATION PlatformSpec
CONSTANTS
    a = a  b = b  s = s  a2 = a2  s2 = s2
    w1 = w1  w2 = w2
    NoTask = NoTask
    Step <- MockSteps
    Task <- MockRows
    StepOf <- MockStepOf
    Deps <- MockDeps
    Synthesis <- MockSynthesis
    Worker = {w1}
    MaxRetries = 2
    Outcomes = {"ok"}
    Requests = {"cancel"}
    FaultKinds = {}
    MaxFaults = 0
    ApiKey = FALSE
    AboutFiles = FALSE
    Replies = {}
    MaxSteps = 12
PROPERTIES CancelStopsTools
CHECK_DEADLOCK FALSE
