SPECIFICATION Spec
CONSTANTS
    a = a  b = b  c = c  s = s
    w1 = w1  w2 = w2
    NoTask = NoTask
    Step <- DiamondRows
    Task <- DiamondRows
    StepOf <- DiamondStepOf
    Deps <- DiamondDeps
    Synthesis <- DiamondSynthesis
    Worker = {w1, w2}
    MaxRetries = 2
    Outcomes = {"ok"}
    Requests = {}
    FaultKinds = {}
    MaxFaults = 0
SYMMETRY Processes
PROPERTIES TaskOutcomeIsFinal
CHECK_DEADLOCK FALSE
