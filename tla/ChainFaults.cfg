SPECIFICATION Spec
CONSTANTS
    a = a  b = b  c = c  s = s
    w1 = w1  w2 = w2
    NoTask = NoTask
    Step <- ChainRows
    Task <- ChainRows
    StepOf <- ChainStepOf
    Deps <- ChainDeps
    Synthesis <- ChainSynthesis
    Worker = {w1, w2}
    MaxRetries = 2
    Outcomes = {"ok", "toolerror", "transient"}
    Requests = {"cancel", "delete"}
    FaultKinds = {"lost", "redelivered", "duplicate"}
    MaxFaults = 2
INVARIANTS TypeOK SingleRunner JobRememberedOnce DependenciesFirst
PROPERTIES ImplementsDataflow
CHECK_DEADLOCK FALSE
