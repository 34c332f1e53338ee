\* Events change at any time; tokens expire, or are missing, at any time.
SPECIFICATION FairSpec
CONSTANTS
    MaxEvent = 2
    Keys <- CalendarEvents
    Jobs = {j1}
    NoCursor = NoCursor
    MaxFailures = 1
    PageLimit = 1
    MaxInstant = 3
    Retries = 1
    MaxTransient = 2
    TombstonesExpire = "passed"
INVARIANTS TypeOK PassesOutlastHiccups
PROPERTIES MirrorSpec TableConverges
