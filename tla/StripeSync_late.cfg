\* A webhook delivered after the one of a later event.
SPECIFICATION Spec
CONSTANTS
    Keys = {p1, p2}
    Jobs = {j1}
    NoCursor = NoCursor
    MaxFailures = 0
    ListLimit = 1
    EventLimit = 4
    MaxEvents = 2
    MaxSecond = 3
    SharedSeconds = FALSE
    EventsExpire = "passed"
    Deliveries = {"any"}
SYMMETRY Symmetry
INVARIANTS CursorOrDelivery
