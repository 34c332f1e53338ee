\* Contacts change between fetches, not within one.
SPECIFICATION FairSpec
CONSTANTS
    MaxContact = 3
    Keys <- Contacts
    Jobs = {j1}
    NoCursor = NoCursor
    MaxFailures = 1
    Retries = 1
    MaxTransient = 2
    PageLimit = 1
    MaxInstant = 4
    ChangesDuringFetch = FALSE
INVARIANTS TypeOK CursorCoversTable
PROPERTIES MirrorSpec TableConverges
