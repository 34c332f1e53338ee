\* More events in a window than one page holds.
SPECIFICATION Spec
CONSTANTS
    Keys = {p1, p2}
    Jobs = {j1}
    NoCursor = NoCursor
    MaxFailures = 0
    ListLimit = 1
    EventLimit = 1
    MaxEvents = 3
    MaxSecond = 4
    SharedSeconds = FALSE
    EventsExpire = "passed"
    Deliveries = {"none"}
SYMMETRY Symmetry
INVARIANTS CursorCoversTable
