SPECIFICATION FairDocSpec
CONSTANTS
    d1 = d1  d2 = d2  p1 = p1  p2 = p2
    Document = {d1, d2}
    Blank = {d2}
    Format <- SomeFormat
    Process = {p1, p2}
    NoMessage = NoMessage
    MaxRetries = 2
    FaultKinds = {"storeerror", "unsent", "dberror", "lost", "redelivered", "duplicate"}
    MaxFaults = 1
INVARIANTS DocTypeOK ReadyIsSearchable
PROPERTIES IngestionEnds
CHECK_DEADLOCK FALSE
