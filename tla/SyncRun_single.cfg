\* One server process that crashes and restarts; every write may fail or be
\* applied without its acknowledgement.
SPECIFICATION FairSpec
CONSTANTS
    Servers = {srv}
    Clis = {}
    NoInstance = NoInstance
    Sources = {s1, s2}
    Runs = {r1, r2}
    WriteResults = {"ok", "failed", "ackLost"}
INVARIANTS TypeOK OneExecuting SuccessRowHasSavedState
PROPERTIES TerminalIsFinal LedgerSpec EveryRunTerminates
