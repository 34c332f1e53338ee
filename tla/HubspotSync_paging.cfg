\* A contact changes while a fetch is paging.
SPECIFICATION Spec
CONSTANTS
    MaxContact = 2
    Keys <- Contacts
    Jobs = {j1}
    NoCursor = NoCursor
    MaxFailures = 0
    Retries = 1
    MaxTransient = 1
    PageLimit = 1
    MaxInstant = 4
    ChangesDuringFetch = TRUE
INVARIANTS CursorCoversTable
