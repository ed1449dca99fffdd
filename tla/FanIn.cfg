SPECIFICATION FairSpec
CONSTANTS
    a = a  b = b  c = c  s = s
    w1 = w1  w2 = w2
    NoTask = NoTask
    Step <- FanInRows
    Task <- FanInRows
    StepOf <- FanInStepOf
    Deps <- FanInDeps
    Synthesis <- FanInSynthesis
    Worker = {w1, w2}
    MaxRetries = 2
    Outcomes = {"ok", "toolerror", "transient"}
    Requests = {"cancel"}
    FaultKinds = {}
    MaxFaults = 0
INVARIANTS OneDelivery SynthesisSeesInputs JobSuccessSound JobFailureHasCause
PROPERTIES TaskOutcomeIsFinal JobOutcomeIsFinal JobEnds RowsSettle
CHECK_DEADLOCK FALSE
