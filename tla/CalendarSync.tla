---------------------------- MODULE CalendarSync ----------------------------
(***************************************************************************)
(* GoogleCalendarAdapter and GoogleCalendarClient over the Calendar API,   *)
(* with the passes of the runner (RunnerPass) and retried calls (Retry).   *)
(*                                                                         *)
(* Outside the repository: events.list answers page by page, in an order   *)
(* that does not depend on the changes, and with its last page it hands    *)
(* out a sync token for the state the listing began in.  A token grows old *)
(* and is then answered with 410 Gone.  A cancelled event stays listed as  *)
(* a tombstone for a while.  The events are those within the window of a   *)
(* full fetch; a token is the instant it stands for.                       *)
(***************************************************************************)
EXTENDS Retry, FiniteSets

CONSTANTS PageLimit,        \* events in a page (250 in calendar.client.ts)
          MaxInstant,       \* bounds the changes: each takes an instant of its own
          TombstonesExpire  \* which cancelled events the API forgets: those "passed" by
                            \* the cursor, or "any"

ASSUME KeyAssumption == Keys \subseteq Nat \ {0} /\ IsFiniteSet(Keys)
ASSUME LimitAssumption == PageLimit \in Nat \ {0}
ASSUME UpstreamAssumption == MaxInstant \in Nat /\ TombstonesExpire \in {"passed", "any"}

VARIABLES instant,    \* the instant of the latest change
          stamp,      \* stamp[e]: when event e last changed, 0 if it does not exist;
                      \* it also identifies the version of e
          cancelled,  \* the events whose status is cancelled
          forgotten,  \* the cancelled events that are no longer listed
          oldest,     \* the tokens of earlier instants are gone
          after,      \* after[j]: the last event of the pages pass j has read
          asOf        \* asOf[j]: the instant the listing of j began in

calendarVars == <<instant, stamp, cancelled, forgotten, oldest>>
placeVars == <<after, asOf>>
vars == <<passVars, retryVars, calendarVars, placeVars>>

TypeOK ==
    /\ PassTypeOK
    /\ RetryTypeOK
    /\ instant \in 0..MaxInstant
    /\ stamp \in [Keys -> 0..MaxInstant]
    /\ cancelled \in SUBSET Keys
    /\ forgotten \in SUBSET cancelled
    /\ oldest \in 0..instant
    /\ after \in [Jobs -> Keys \cup {0}]
    /\ asOf \in [Jobs -> (0..MaxInstant) \cup {NoCursor}]

Init ==
    /\ PassInit
    /\ RetryInit
    /\ instant = 0
    /\ stamp = [e \in Keys |-> 0]
    /\ cancelled = {}
    /\ forgotten = {}
    /\ oldest = 0
    /\ after = [j \in Jobs |-> 0]
    /\ asOf = [j \in Jobs |-> NoCursor]

----------------------------------------------------------------------------
\* Upstream

\* An event is created, edited, cancelled or brought back.
Change(e) ==
    /\ instant < MaxInstant
    /\ instant' = instant + 1
    /\ stamp' = [stamp EXCEPT ![e] = instant + 1]
    /\ cancelled' \in {cancelled \cup {e}, cancelled \ {e}}
    /\ forgotten' = forgotten \ {e}
    /\ UNCHANGED <<passVars, retryVars, oldest, placeVars>>

Forget(e) ==
    /\ e \in cancelled \ forgotten
    /\ TombstonesExpire = "passed" => cursor # NoCursor /\ stamp[e] <= cursor
    /\ forgotten' = forgotten \cup {e}
    /\ UNCHANGED <<passVars, retryVars, instant, stamp, cancelled, oldest, placeVars>>

ExpireTokens ==
    /\ oldest < instant
    /\ oldest' = oldest + 1
    /\ UNCHANGED <<passVars, retryVars, instant, stamp, cancelled, forgotten, placeVars>>

----------------------------------------------------------------------------
\* The fetches of GoogleCalendarAdapter

Existing == {e \in Keys : stamp[e] # 0}

\* showDeleted: a cancelled event is listed like any other.
Listed == Existing \ forgotten

EnvelopesOf(page) == {<<e, stamp[e]>> : e \in page}

\* Mutant: the token stands for the state the listing ends in.
AsOfLastPage(j) == instant

AsOf(j) == IF asOf[j] = NoCursor THEN instant ELSE asOf[j]

FirstOf(left) == {e \in left : Cardinality({d \in left : d < e}) < PageLimit}

\* paginate: a page of the events, in the state they are in as it is read.
\* Only the last one has a nextSyncToken, and if it has none, the cursor
\* becomes null.
Paginate(j, events) ==
    LET left == {e \in events : e > after[j]}
        page == FirstOf(left)
        last == page = left
    IN  /\ \E nextSyncToken \in IF last THEN {AsOf(j), NoCursor} ELSE {NoCursor} :
             Fetched(j, EnvelopesOf(page), nextSyncToken, last)
        /\ after' = [after EXCEPT ![j] =
              IF last THEN 0 ELSE CHOOSE e \in page : \A d \in page : d <= e]
        /\ asOf' = [asOf EXCEPT ![j] = IF last THEN NoCursor ELSE AsOf(j)]
        /\ Settles(j)
        /\ UNCHANGED calendarVars

FetchFullPage(j) ==
    /\ phase[j] = "full"
    /\ Paginate(j, Listed)

FetchIncrementalPage(j) ==
    /\ phase[j] = "incremental"
    /\ seen[j] >= oldest
    /\ Paginate(j, {e \in Listed : stamp[e] > seen[j]})

DropPages(j) ==
    /\ after' = [after EXCEPT ![j] = 0]
    /\ asOf' = [asOf EXCEPT ![j] = NoCursor]

\* 410 Gone, the one answer an old token gets and which any may get: the
\* pages read so far are dropped.
TokenGone(j) ==
    /\ FallBack(j)
    /\ DropPages(j)
    /\ Settles(j)
    /\ UNCHANGED calendarVars

\* isTransient: the page is read once more, or the pass ends.
Hiccup(j) ==
    /\ TransientError(j)
    /\ IF phase'[j] = "idle" THEN DropPages(j) ELSE UNCHANGED placeVars
    /\ UNCHANGED calendarVars

FetchStep(j) == FetchFullPage(j) \/ FetchIncrementalPage(j) \/ TokenGone(j)

----------------------------------------------------------------------------
PassStep(j) ==
    /\ Begin(j) \/ PersistBatch(j)
    /\ UNCHANGED <<retryVars, calendarVars, placeVars>>

\* A page or a record that throws, a 410 of a full fetch or an event without
\* start and end included, ends the pass.
PassFails(j) ==
    /\ Fail(j)
    /\ DropPages(j)
    /\ Settles(j)
    /\ UNCHANGED calendarVars

Next ==
    \/ \E e \in Keys : Change(e) \/ Forget(e)
    \/ ExpireTokens
    \/ \E j \in Jobs : FetchStep(j) \/ PassStep(j) \/ Hiccup(j) \/ PassFails(j)

Spec == Init /\ [][Next]_vars

\* Awaited calls settle and passes are triggered again and again.
Fairness == \A j \in Jobs : WF_vars(PassStep(j)) /\ WF_vars(FetchStep(j))

FairSpec == Spec /\ Fairness

----------------------------------------------------------------------------
\* Safety

\* The passes implement Mirror.  What the token claims is in the table, cancellations
\* included: an event that last changed up to the cursor has that version in its row,
\* although events change while a listing is paging and between the attempts of a call,
\* and tokens are rejected half-way; and rows go forward only, whatever failed before.
Promise == INSTANCE Mirror WITH
    latest  <- stamp,
    rows    <- table,
    claimed <- {e \in Existing : cursor # NoCursor /\ stamp[e] <= cursor}

MirrorSpec == Promise!Spec

----------------------------------------------------------------------------
\* Liveness

\* Once the calendar rests and calls stop failing, every row reaches the state of its event,
\* a rejected token notwithstanding: the pass that meets it "self-heals within
\* one run instead of failing" (docs/DESIGN.md:252).
TableConverges ==
    \A e \in Keys : <>[](table[e] = stamp[e])
=============================================================================
