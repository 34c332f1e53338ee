---------------------------- MODULE HubspotSync ----------------------------
(***************************************************************************)
(* HubspotAdapter and HubspotClient over the HubSpot CRM, with the passes  *)
(* of the runner (RunnerPass).                                             *)
(*                                                                         *)
(* Outside the repository: the CRM stamps every change of a contact with   *)
(* the instant it happened at.  The list of all contacts is paged by id;   *)
(* the search for contacts modified after an instant is sorted by that     *)
(* instant and paged by position, so a contact that changes between two    *)
(* pages moves to the end and those behind it move up by one.              *)
(***************************************************************************)
EXTENDS Retry, FiniteSets

CONSTANTS PageLimit,          \* contacts in a page (100 in hubspot.client.ts)
          MaxInstant,         \* bounds the changes: each takes an instant of its own
          ChangesDuringFetch  \* whether contacts change while a fetch is paging

ASSUME KeyAssumption == Keys \subseteq Nat \ {0} /\ IsFiniteSet(Keys)
ASSUME LimitAssumption == PageLimit \in Nat \ {0}
ASSUME ChangesAssumption == MaxInstant \in Nat /\ ChangesDuringFetch \in BOOLEAN

VARIABLES instant,  \* the instant of the latest change
          stamp,    \* stamp[c]: when contact c last changed, 0 if it does not exist;
                    \* it also identifies the version of c
          after,    \* after[j]: the last id pass j read of the list of all contacts
          offset    \* offset[j]: how many results of the search pass j has read

placeVars == <<after, offset>>
vars == <<passVars, retryVars, instant, stamp, placeVars>>

TypeOK ==
    /\ PassTypeOK
    /\ RetryTypeOK
    /\ instant \in 0..MaxInstant
    /\ stamp \in [Keys -> 0..MaxInstant]
    /\ after \in [Jobs -> Keys \cup {0}]
    /\ offset \in [Jobs -> Nat]

Init ==
    /\ PassInit
    /\ RetryInit
    /\ instant = 0
    /\ stamp = [c \in Keys |-> 0]
    /\ after = [j \in Jobs |-> 0]
    /\ offset = [j \in Jobs |-> 0]

----------------------------------------------------------------------------
\* Upstream: a contact is created or edited.
Change(c) ==
    /\ instant < MaxInstant
    /\ ChangesDuringFetch \/ \A j \in Jobs : phase[j] \notin {"full", "incremental"}
    /\ instant' = instant + 1
    /\ stamp' = [stamp EXCEPT ![c] = instant + 1]
    /\ UNCHANGED <<passVars, retryVars, placeVars>>

Existing == {c \in Keys : stamp[c] # 0}

\* Mutant: the paging loop ends with the first page.
NothingBehind(S, rank, skipped) == {}

\* The page that follows the first skipped members of S in the order of rank,
\* and what is behind it.
PageOf(S, rank, skipped) ==
    {c \in S : Cardinality({d \in S : rank[d] < rank[c]}) \in skipped..(skipped + PageLimit - 1)}

Behind(S, rank, skipped) ==
    {c \in S : Cardinality({d \in S : rank[d] < rank[c]}) >= skipped + PageLimit}

Identity == [c \in Keys |-> c]

----------------------------------------------------------------------------
\* The fetches of HubspotAdapter

EnvelopesOf(page) == {<<c, stamp[c]>> : c \in page}

\* The latest instant of c and of the contacts of page: nextCursorFrom over
\* the pages so far.  It stays NoCursor when there is no contact at all.
NextCursorFrom(c, page) ==
    LET instants == {stamp[d] : d \in page} \cup ({c} \ {NoCursor})
    IN  IF instants = {} THEN NoCursor
        ELSE CHOOSE m \in instants : \A n \in instants : n <= m

FetchFullPage(j) ==
    /\ phase[j] = "full"
    /\ LET left == {c \in Existing : c > after[j]}
           page == PageOf(left, Identity, 0)
           last == Behind(left, Identity, 0) = {}
       IN  /\ Fetched(j, EnvelopesOf(page), NextCursorFrom(next[j], page), last)
           /\ after' = [after EXCEPT ![j] =
                 IF last THEN 0 ELSE CHOOSE c \in page : \A d \in page : d <= c]
    /\ Settles(j)
    /\ UNCHANGED <<instant, stamp, offset>>

\* searchContactsModifiedSince(sinceMs, after)
ModifiedSince(c) == {d \in Existing : stamp[d] > c}

\* newCursor ?? cursor: a search without results keeps the cursor.
FetchIncrementalPage(j) ==
    /\ phase[j] = "incremental"
    /\ LET hits == ModifiedSince(seen[j])
           page == PageOf(hits, stamp, offset[j])
           last == Behind(hits, stamp, offset[j]) = {}
           newCursor == NextCursorFrom(next[j], page)
       IN  /\ Fetched(j, EnvelopesOf(page),
                      IF last /\ newCursor = NoCursor THEN seen[j] ELSE newCursor, last)
           /\ offset' = [offset EXCEPT ![j] = IF last THEN 0 ELSE @ + PageLimit]
    /\ Settles(j)
    /\ UNCHANGED <<instant, stamp, after>>

----------------------------------------------------------------------------
FetchStep(j) == FetchFullPage(j) \/ FetchIncrementalPage(j)

PassStep(j) ==
    /\ Begin(j) \/ PersistBatch(j)
    /\ UNCHANGED <<retryVars, instant, stamp, placeVars>>

DropPages(j) ==
    /\ after' = [after EXCEPT ![j] = 0]
    /\ offset' = [offset EXCEPT ![j] = 0]

\* A rejected search (a 400, which is not repeated) and a failed pass leave
\* their place in the pages behind.
PassBreaks(j) ==
    /\ FallBack(j) \/ Fail(j)
    /\ DropPages(j)
    /\ Settles(j)
    /\ UNCHANGED <<instant, stamp>>

\* isTransient: the page is read once more, or the pass ends.
Hiccup(j) ==
    /\ TransientError(j)
    /\ IF phase'[j] = "idle" THEN DropPages(j) ELSE UNCHANGED placeVars
    /\ UNCHANGED <<instant, stamp>>

Next ==
    \/ \E c \in Keys : Change(c)
    \/ \E j \in Jobs : FetchStep(j) \/ PassStep(j) \/ Hiccup(j) \/ PassBreaks(j)

Spec == Init /\ [][Next]_vars

\* Awaited calls settle and passes are triggered again and again.
Fairness == \A j \in Jobs : WF_vars(PassStep(j)) /\ WF_vars(FetchStep(j))

FairSpec == Spec /\ Fairness

----------------------------------------------------------------------------
\* Safety

\* What the cursor claims is in the table: a contact that last changed up to
\* the cursor has that version in its row.  The next search starts behind the
\* cursor, so what this misses stays missing until the contact changes again.
CursorCoversTable ==
    cursor # NoCursor =>
        \A c \in Existing : stamp[c] <= cursor => table[c] = stamp[c]

\* The passes implement Mirror: rows go forward only, whatever failed before.
Promise == INSTANCE Mirror WITH
    latest  <- stamp,
    rows    <- table,
    claimed <- {c \in Existing : cursor # NoCursor /\ stamp[c] <= cursor}

MirrorSpec == Promise!Spec

\* Liveness

\* Once the CRM rests and calls stop failing, every row reaches the state of its contact.
TableConverges ==
    \A c \in Keys : <>[](table[c] = stamp[c])
=============================================================================
