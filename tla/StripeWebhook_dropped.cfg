\* A write fails: the next delivery of the event is answered as a duplicate.
SPECIFICATION Spec
CONSTANTS
    e1 = e1
    e2 = e2
    e3 = e3
    p1 = p1
    Events = {e1}
    Payments = {p1}
    NotPayment = NotPayment
    ObjectOf <- MCObjectOf
    Handlers = {h1}
    NoEvent = NoEvent
    WriteResults = {"ok", "failed"}
    MaxFaults = 1
INVARIANTS NoEventIsDropped
