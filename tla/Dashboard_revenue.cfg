\* A visit to each section while passes, releases and the seed script write.
SPECIFICATION FairSpec
CONSTANTS
    Keys = {1, 2}
    Jobs = {j1}
    NoCursor = NoCursor
    MaxFailures = 1
    MaxInstant = 3
    FirstFixture <- MCFirstFixture
    Facts <- MCFacts
    StripeRows <- MCStripeRows
    StatusMappings <- MCStatusMappings
    ByHand <- MCByHand
    Times = {12, 13, 17, 18}
    DayLength = 2
    MaxRange = 6
    Slots = {1, 2}
    Visits <- MCVisits
    Ranges <- MCRanges
    RowLimit = 2
    Pending = Pending
    Refused = Refused
    Blank = Blank
INVARIANTS TypeOK ViewsAgree RangesCompose UnlistedNeverCounts FiguresAgree BadgesAgreeWithMetrics RowOpensItsRecord SpinnerMeansLoading
PROPERTIES MirrorSpec TableConverges TableOfSourcesCatchesUp ButtonReturns
