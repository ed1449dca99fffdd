SPECIFICATION FairPlatformSpec
CONSTANTS
    a = a  b = b  s = s  a2 = a2  s2 = s2
    w1 = w1  w2 = w2
    NoTask = NoTask
    Step <- AnySteps
    Task <- AnyRows
    StepOf <- AnyStepOf
    Deps <- AnyDeps
    Synthesis <- AnySynthesis
    Worker = {w1}
    MaxRetries = 1
    Outcomes = {"ok", "toolerror"}
    Requests = {"cancel"}
    FaultKinds = {}
    MaxFaults = 0
    ApiKey = TRUE
    AboutFiles = FALSE
    Replies <- AnyReplies
    MaxSteps = 3
INVARIANTS JobSuccessSound
PROPERTIES SchedulableJobEnds
CHECK_DEADLOCK FALSE
