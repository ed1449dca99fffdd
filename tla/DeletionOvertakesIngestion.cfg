SPECIFICATION FairDocSpec
CONSTANTS
    d1 = d1  d2 = d2  p1 = p1  p2 = p2
    Document = {d1}
    Blank = {}
    Format <- SomeFormat
    Process = {p1, p2}
    NoMessage = NoMessage
    MaxRetries = 2
    FaultKinds = {}
    MaxFaults = 0
PROPERTIES DeletedForGood
CHECK_DEADLOCK FALSE
