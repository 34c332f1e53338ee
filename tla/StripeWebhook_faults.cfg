\* Concurrent deliveries, crashes, writes that fail or lose their acknowledgement.
SPECIFICATION FairSpec
CONSTANTS
    e1 = e1
    e2 = e2
    e3 = e3
    p1 = p1
    Events = {e1, e2, e3}
    Payments = {p1}
    NotPayment = NotPayment
    ObjectOf <- MCObjectOf
    Handlers = {h1, h2}
    NoEvent = NoEvent
    WriteResults = {"ok", "failed", "ackLost"}
    MaxFaults = 2
INVARIANTS TypeOK DomainLogicOnce ProcessedMeansApplied RowsAreAccountedFor
PROPERTIES EveryEventIsProcessed
