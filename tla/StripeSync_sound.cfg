\* One pass at a time, without webhooks or beside webhooks that arrive in order.
SPECIFICATION FairSpec
CONSTANTS
    Keys = {p1, p2}
    Jobs = {j1}
    NoCursor = NoCursor
    MaxFailures = 2
    ListLimit = 1
    EventLimit = 3
    MaxEvents = 3
    MaxSecond = 4
    SharedSeconds = FALSE
    EventsExpire = "passed"
    Deliveries = {"none", "ordered"}
INVARIANTS TypeOK CursorCoversTable CursorOrDelivery PassesAudit
PROPERTIES PassesKeepVersions 
