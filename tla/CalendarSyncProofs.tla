------------------------- MODULE CalendarSyncProofs -------------------------
(***************************************************************************)
(* The passes over a calendar implement Mirror, proved for any calendar,   *)
(* page size and number of retries, one pass at a time.                    *)
(*                                                                         *)
(* That the token covers the table says nothing of the pages in flight.    *)
(* What is carried through a pass is that every event up to its place in   *)
(* the listing that has not changed since the listing began is in the      *)
(* table or among the envelopes still to persist.                          *)
(***************************************************************************)
EXTENDS CalendarSync, RunnerPassProofs

----------------------------------------------------------------------------
\* Pages

\* A page takes the events in their order: those up to its last member are all in it.
LEMMA PageIsPrefix ==
  ASSUME NEW left \in SUBSET Keys, FirstOf(left) # left,
         NEW place, place = CHOOSE e \in FirstOf(left) : \A d \in FirstOf(left) : d <= e
  PROVE  /\ place \in FirstOf(left)
         /\ \A d \in FirstOf(left) : d <= place
         /\ \A e \in left : e <= place => e \in FirstOf(left)
<1> DEFINE Lower(e) == {d \in left : d < e}
<1>1. IsFiniteSet(left) /\ left \subseteq Nat
    BY KeyAssumption, FS_Subset
<1>2. \A e \in left : IsFiniteSet(Lower(e)) /\ Cardinality(Lower(e)) \in Nat
    BY <1>1, FS_Subset, FS_CardinalityType
<1>3. FirstOf(left) = {e \in left : Cardinality(Lower(e)) < PageLimit}
    BY DEF FirstOf
<1>4. FirstOf(left) # {}
  <2>1. PICK x \in left : \A y \in left : x <= y
      BY <1>1, <1>3, NatLeast
  <2>2. Lower(x) = {}
    <3>1. \A y \in left : y \in Nat /\ x \in Nat /\ x <= y
        BY <1>1, <2>1
    <3>2. \A y \in left : ~(y < x)
        BY <3>1
    <3> QED
        BY <3>2
  <2>3. Cardinality(Lower(x)) = 0
      BY <2>2, FS_EmptySet
  <2> QED
      BY <1>3, <2>3, LimitAssumption
<1>5. IsFiniteSet(FirstOf(left)) /\ FirstOf(left) \in SUBSET Nat
    BY <1>1, <1>3, FS_Subset
<1>6. \E e \in FirstOf(left) : \A d \in FirstOf(left) : d <= e
    BY <1>4, <1>5, NatGreatest
<1>7. place \in FirstOf(left) /\ \A d \in FirstOf(left) : d <= place
    BY <1>6
<1>8. ASSUME NEW e \in left, e <= place PROVE e \in FirstOf(left)
  <2>1. Lower(e) \in SUBSET Lower(place)
    <3>1. e \in Nat /\ place \in Nat /\ left \subseteq Nat /\ place \in left
        BY <1>1, <1>3, <1>7
    <3>2. \A d \in left : d < e => d < place
        BY <1>8, <3>1
    <3> QED
        BY <3>2
  <2>2. Cardinality(Lower(e)) <= Cardinality(Lower(place))
      BY <1>2, <1>3, <1>7, <2>1, FS_Subset
  <2>3. /\ Cardinality(Lower(e)) \in Nat /\ Cardinality(Lower(place)) \in Nat
        /\ Cardinality(Lower(place)) < PageLimit
      BY <1>2, <1>3, <1>7
  <2> HIDE DEF Lower
  <2>4. Cardinality(Lower(e)) < PageLimit
      BY <2>2, <2>3, LimitAssumption
  <2> QED
      BY <1>3, <2>4
<1> QED
    BY <1>7, <1>8

----------------------------------------------------------------------------
\* Types

\* A pass that ends with a transient error is one that fails.
TypeInv == TypeOK /\ exhausted <= failures

\* The assumptions about the constants, and what they say of a cursor.
LEMMA Constants ==
    /\ Keys \subseteq Nat \ {0} /\ IsFiniteSet(Keys)
    /\ NoCursor \notin Nat
    /\ MaxFailures \in Nat /\ MaxInstant \in Nat /\ Retries \in Nat /\ MaxTransient \in Nat
BY KeyAssumption, CursorAssumption, FailureAssumption, UpstreamAssumption, RetryAssumption

\* A page keeps the types.
LEMMA PaginateTypes ==
  ASSUME TypeInv, NEW j \in Jobs, NEW events \in SUBSET Keys, Paginate(j, events)
  PROVE  TypeInv'
<1> DEFINE left == {e \in events : e > after[j]}
           page == FirstOf(left)
           last == page = left
<1> USE Constants DEF TypeInv, TypeOK, PassTypeOK, RetryTypeOK
<1>1. page \subseteq Keys /\ EnvelopesOf(page) \in SUBSET Envelopes
  <2>1. page \subseteq Keys
      BY DEF FirstOf
  <2>2. \A e \in Keys : stamp[e] \in Nat
      OBVIOUS
  <2>3. \A env \in EnvelopesOf(page) : env \in Envelopes
    <3> HIDE DEF page
    <3> QED
        BY <2>1, <2>2 DEF EnvelopesOf, Envelopes
  <2> QED
      BY <2>1, <2>3
<1>2. AsOf(j) \in 0..MaxInstant
    BY DEF AsOf
<1>3. /\ batch' \in [Jobs -> Seq(SUBSET Envelopes)]
      /\ next' \in [Jobs -> Nat \cup {NoCursor}]
      /\ phase' \in [Jobs -> Phases]
  <2>1. PICK token \in {AsOf(j), NoCursor} : Fetched(j, EnvelopesOf(page), token, last)
      BY DEF Paginate
  <2>2. Append(batch[j], EnvelopesOf(page)) \in Seq(SUBSET Envelopes)
      BY <1>1, QueuedAppend
  <2>3. batch' \in [Jobs -> Seq(SUBSET Envelopes)]
      BY <2>1, <2>2 DEF Fetched
  <2>4. token \in Nat \cup {NoCursor}
      BY <1>2, <2>1
  <2> QED
      BY <2>1, <2>3, <2>4 DEF Fetched, Phases
<1>4. after' \in [Jobs -> Keys \cup {0}]
  <2>1. CASE last
      BY <2>1 DEF Paginate
  <2>2. CASE ~last
      BY <1>1, <2>2, PageIsPrefix DEF Paginate
  <2> QED
      BY <2>1, <2>2
<1>5. asOf' \in [Jobs -> (0..MaxInstant) \cup {NoCursor}]
    BY <1>2 DEF Paginate
<1>6. attempt' \in [Jobs -> 0..Retries] /\ UNCHANGED <<transient, exhausted>>
    BY DEF Paginate, Settles
<1>7. UNCHANGED <<table, audit, cursor, seen, current, failures, calendarVars>>
    BY DEF Paginate, Fetched
<1> QED
    BY <1>3, <1>4, <1>5, <1>6, <1>7 DEF calendarVars

\* TypeOK is inductive once exhausted is bounded by failures.
LEMMA TypeStep == TypeInv /\ [Next]_vars => TypeInv'
<1> SUFFICES ASSUME TypeInv, [Next]_vars PROVE TypeInv'
    OBVIOUS
<1> USE Constants DEF TypeInv, TypeOK, PassTypeOK, RetryTypeOK
<1>1. ASSUME NEW e \in Keys, Change(e) PROVE TypeInv'
    BY <1>1 DEF Change, passVars, retryVars, placeVars
<1>2. ASSUME NEW e \in Keys, Forget(e) PROVE TypeInv'
    BY <1>2 DEF Forget, passVars, retryVars, placeVars
<1>3. CASE ExpireTokens
    BY <1>3 DEF ExpireTokens, passVars, retryVars, placeVars
<1>4. ASSUME NEW j \in Jobs, FetchFullPage(j) PROVE TypeInv'
    BY <1>4, PaginateTypes DEF FetchFullPage, Listed, Existing
<1>5. ASSUME NEW j \in Jobs, FetchIncrementalPage(j) PROVE TypeInv'
    BY <1>5, PaginateTypes DEF FetchIncrementalPage, Listed, Existing
<1>6. ASSUME NEW j \in Jobs, TokenGone(j) PROVE TypeInv'
    BY <1>6 DEF TokenGone, FallBack, DropPages, Settles, calendarVars, Phases
<1>7. ASSUME NEW j \in Jobs, PassStep(j) PROVE TypeInv'
  <2>1. UNCHANGED <<retryVars, calendarVars, placeVars>>
      BY <1>7 DEF PassStep
  <2>2. PassTypeOK' /\ UNCHANGED failures
      BY <1>7, BeginTypes, PersistTypes, AuditTypes, SaveTypes DEF PassStep, PersistBatch
  <2> QED
      BY <2>1, <2>2 DEF retryVars, calendarVars, placeVars
<1>8. ASSUME NEW j \in Jobs, Hiccup(j) PROVE TypeInv'
  <2>1. transient' \in 0..MaxTransient /\ UNCHANGED calendarVars
      BY <1>8 DEF Hiccup, TransientError
  <2>2. CASE GivesUp(attempt[j] + 1)
    <3>1. /\ Fail(j)
          /\ attempt' = [attempt EXCEPT ![j] = 0]
          /\ exhausted' = exhausted + 1
        BY <1>8, <2>2 DEF Hiccup, TransientError
    <3>2. PassTypeOK' /\ failures' = failures + 1 /\ phase' = [phase EXCEPT ![j] = "idle"]
        BY <3>1, DropTypes DEF Fail
    <3>3. DropPages(j)
        BY <1>8, <3>2 DEF Hiccup, Phases
    <3>4. RetryTypeOK' /\ exhausted' <= failures'
        BY <2>1, <3>1, <3>2
    <3> QED
        BY <2>1, <3>2, <3>3, <3>4 DEF DropPages, calendarVars
  <2>3. CASE ~GivesUp(attempt[j] + 1)
    <3>1. /\ UNCHANGED <<passVars, exhausted>>
          /\ attempt' = [attempt EXCEPT ![j] = attempt[j] + 1]
          /\ phase[j] \in {"full", "incremental"}
        BY <1>8, <2>3 DEF Hiccup, TransientError
    <3>2. UNCHANGED placeVars
        BY <1>8, <3>1 DEF Hiccup, passVars
    <3>3. attempt' \in [Jobs -> 0..Retries]
        BY <2>3, <3>1 DEF GivesUp
    <3> QED
        BY <2>1, <3>1, <3>2, <3>3 DEF passVars, calendarVars, placeVars
  <2> QED
      BY <2>2, <2>3
<1>9. ASSUME NEW j \in Jobs, PassFails(j) PROVE TypeInv'
  <2>1. PassTypeOK' /\ failures' = failures + 1
      BY <1>9, DropTypes DEF PassFails, Fail
  <2>2. DropPages(j) /\ Settles(j) /\ UNCHANGED calendarVars
      BY <1>9 DEF PassFails
  <2> QED
      BY <2>1, <2>2 DEF DropPages, Settles, calendarVars
<1>10. CASE UNCHANGED vars
    BY <1>10 DEF vars, passVars, retryVars, calendarVars, placeVars
<1> HIDE DEF TypeInv, TypeOK, PassTypeOK, RetryTypeOK
<1> QED
    BY <1>1, <1>2, <1>3, <1>4, <1>5, <1>6, <1>7, <1>8, <1>9, <1>10 DEF Next, FetchStep

LEMMA TypeHolds == Spec => []TypeInv
<1>1. Init => TypeInv
    BY Constants DEF Init, PassInit, RetryInit, TypeInv, TypeOK, PassTypeOK, RetryTypeOK, Phases
<1> QED
    BY <1>1, TypeStep, PTL DEF Spec

\* Every variable of the calendar passes keeps its type.
THEOREM TypeCorrect == Spec => []TypeOK
<1>1. TypeInv => TypeOK
    BY DEF TypeInv
<1> QED
    BY <1>1, TypeHolds, PTL

----------------------------------------------------------------------------
\* A pass and what it has seen

\* The assumption under which the token covers the table: the API forgets only
\* those tombstones that its tokens are past.
TombstonesLast == TombstonesExpire = "passed"

Fetching(j) == phase[j] \in {"full", "incremental"}

\* The version of event e upstream is in its row, or will be at the end of pass j.
Seen(j, e) == table[e] = stamp[e] \/ <<e, stamp[e]>> \in Queued(batch[j])

\* Rows hold versions their events have had.
RowsInv == \A e \in Keys : table[e] <= stamp[e] /\ stamp[e] <= instant

\* What the token claims is in the table ...
CursorInv ==
    cursor # NoCursor =>
        /\ cursor <= instant
        /\ \A e \in Existing : stamp[e] <= cursor => table[e] = stamp[e]

\* ... as is what no listing shows any more.
ForgottenInv == \A e \in forgotten : table[e] = stamp[e]

\* The envelopes still to persist, one for an event, are not behind its row.
BatchInv ==
    \A j \in Jobs :
        /\ phase[j] = "idle" => batch[j] = <<>>
        /\ \A env \in Queued(batch[j]) :
             /\ table[env[1]] <= env[2]
             /\ env[2] <= stamp[env[1]]
        /\ \A a, b \in Queued(batch[j]) : a[1] = b[1] => a = b

\* A pass that is fetching has seen what was there when its listing began, up
\* to its place in it.
PlaceInv ==
    \A j \in Jobs :
        /\ ~Fetching(j) => asOf[j] = NoCursor
        /\ asOf[j] = NoCursor => after[j] = 0
        /\ Fetching(j) => \A env \in Queued(batch[j]) : env[1] <= after[j]
        /\ phase[j] = "incremental" => seen[j] = cursor /\ cursor # NoCursor
        /\ asOf[j] # NoCursor =>
             /\ asOf[j] <= instant
             /\ \A e \in Existing : e <= after[j] /\ stamp[e] <= asOf[j] => Seen(j, e)

\* A pass that has fetched has seen what its token will claim.
TokenInv ==
    \A j \in Jobs : phase[j] \in {"persist", "audit"} /\ next[j] # NoCursor =>
        /\ next[j] <= instant
        /\ \A e \in Existing : stamp[e] <= next[j] => Seen(j, e)

PassInv ==
    /\ RowsInv
    /\ CursorInv
    /\ ForgottenInv
    /\ BatchInv
    /\ PlaceInv
    /\ TokenInv

----------------------------------------------------------------------------
\* The steps

\* Places in a listing are numbers.
LEMMA PlaceTypes ==
  ASSUME TypeInv, NEW j \in Jobs
  PROVE  instant \in Nat /\ after[j] \in Nat /\ asOf[j] \in Nat \cup {NoCursor}
<1>1. instant \in 0..MaxInstant
    BY DEF TypeInv, TypeOK
<1>2. after[j] \in Keys \cup {0}
    BY DEF TypeInv, TypeOK
<1>3. asOf[j] \in (0..MaxInstant) \cup {NoCursor}
    BY DEF TypeInv, TypeOK
<1>4. instant \in Nat
    BY <1>1, Constants
<1>5. after[j] \in Nat
  <2>1. CASE after[j] = 0
      BY <2>1
  <2>2. CASE after[j] \in Keys
      BY <2>2, Constants
  <2> QED
      BY <1>2, <2>1, <2>2
<1>6. asOf[j] \in Nat \cup {NoCursor}
    BY <1>3, Constants
<1> QED
    BY <1>4, <1>5, <1>6

\* What a page adds to what is queued.
LEMMA QueuedGrows ==
  ASSUME TypeInv, NEW j \in Jobs, NEW page, \A env \in page : env \in Envelopes,
         batch'[j] = IF page = {} THEN batch[j] ELSE Append(batch[j], page)
  PROVE  Queued(batch'[j]) = Queued(batch[j]) \cup page
<1>1. batch[j] \in Seq(SUBSET Envelopes) /\ page \in SUBSET Envelopes
    BY DEF TypeInv, TypeOK, PassTypeOK
<1>2. Queued(Append(batch[j], page)) = Queued(batch[j]) \cup page
    BY <1>1, QueuedAppend
<1> QED
    BY <1>2

\* What changes upstream is later than every listing and token.
LEMMA ChangeKeeps ==
  ASSUME TypeInv, PassInv, NEW e \in Keys, Change(e)
  PROVE  PassInv'
<1> USE Constants DEF TypeInv, TypeOK, PassTypeOK, PassInv
<1>1. /\ instant' = instant + 1 /\ stamp' = [stamp EXCEPT ![e] = instant + 1]
      /\ forgotten' = forgotten \ {e}
      /\ UNCHANGED <<table, cursor, phase, seen, batch, next, after, asOf>>
    BY DEF Change, passVars, placeVars
<1>2. /\ instant \in Nat
      /\ \A d \in Keys : stamp[d] \in Nat /\ table[d] \in Nat
      /\ \A d \in Keys : d # e => stamp'[d] = stamp[d]
      /\ stamp'[e] = instant + 1
    BY <1>1
<1>3. RowsInv'
    BY <1>1, <1>2 DEF RowsInv
<1>4. CursorInv'
    BY <1>1, <1>2 DEF CursorInv, Existing
<1>5. ForgottenInv'
    BY <1>1, <1>2 DEF ForgottenInv
<1>6. \A j \in Jobs, d \in Keys : d # e => (Seen(j, d)' <=> Seen(j, d))
    BY <1>1, <1>2 DEF Seen
<1>7. BatchInv'
  <2>1. ASSUME NEW j \in Jobs, NEW env \in Queued(batch[j])
        PROVE  table'[env[1]] <= env[2] /\ env[2] <= stamp'[env[1]]
    <3>1. env[1] \in Keys /\ env[2] \in Nat
        BY <2>1, QueuedTypes DEF TypeInv, TypeOK
    <3>2. /\ table[env[1]] <= env[2]
          /\ env[2] <= stamp[env[1]] /\ stamp[env[1]] <= instant
        BY <2>1, <3>1 DEF BatchInv, RowsInv
    <3>3. stamp'[env[1]] = stamp[env[1]] \/ stamp'[env[1]] = instant + 1
        BY <1>2, <3>1
    <3> QED
        BY <1>1, <1>2, <3>1, <3>2, <3>3
  <2> QED
      BY <1>1, <2>1 DEF BatchInv
<1>8. PlaceInv'
    BY <1>1, <1>2, <1>6 DEF PlaceInv, Fetching, Existing
<1>9. TokenInv'
    BY <1>1, <1>2, <1>6 DEF TokenInv, Existing
<1> QED
    BY <1>3, <1>4, <1>5, <1>7, <1>8, <1>9

\* A tombstone that is forgotten is one the table has.
LEMMA ForgetKeeps ==
  ASSUME TypeInv, PassInv, TombstonesLast, NEW e \in Keys, Forget(e)
  PROVE  PassInv'
<1> USE Constants DEF TypeInv, TypeOK, PassTypeOK, PassInv
<1>1. /\ forgotten' = forgotten \cup {e} /\ cursor # NoCursor /\ stamp[e] <= cursor
      /\ UNCHANGED <<table, cursor, phase, seen, batch, next, after, asOf, instant, stamp>>
    BY DEF Forget, passVars, placeVars, TombstonesLast
<1>2. table[e] = stamp[e]
    BY <1>1 DEF CursorInv, RowsInv, Existing
<1>3. \A j \in Jobs, d \in Keys : Seen(j, d)' <=> Seen(j, d)
    BY <1>1 DEF Seen
<1> QED
    BY <1>1, <1>2, <1>3
    DEF RowsInv, CursorInv, ForgottenInv, BatchInv, PlaceInv, TokenInv, Fetching, Existing

\* Steps that leave the events, the rows, the cursor and the passes alone.
LEMMA RestKeeps ==
  ASSUME PassInv,
         UNCHANGED <<table, cursor, phase, seen, batch, next, after, asOf,
                      instant, stamp, forgotten>>
  PROVE  PassInv'
<1>1. \A j \in Jobs, d \in Keys : Seen(j, d)' <=> Seen(j, d)
    BY DEF Seen
<1> QED
    BY <1>1 DEF PassInv, RowsInv, CursorInv, ForgottenInv, BatchInv, PlaceInv, TokenInv,
       Fetching, Existing

\* A page of events leaves out nothing but what the table has.
LEMMA PaginateKeeps ==
  ASSUME OnePass, TypeInv, PassInv, NEW j \in Jobs, Fetching(j), NEW events \in SUBSET Keys,
         \A e \in Existing \ events : table[e] = stamp[e],
         Paginate(j, events)
  PROVE  PassInv'
<1> DEFINE left == {e \in events : e > after[j]}
           page == FirstOf(left)
           last == page = left
           place == CHOOSE e \in page : \A d \in page : d <= e
           P == Queued(batch[j])
           E == EnvelopesOf(page)
<1> USE Constants DEF TypeInv, TypeOK, PassTypeOK, PassInv
<1>1. PICK token \in {AsOf(j), NoCursor} :
         Fetched(j, E, token, last) /\ (~last => token = NoCursor)
    BY DEF Paginate
<1>2. /\ UNCHANGED <<table, cursor, seen, instant, stamp, forgotten>>
      /\ phase'[j] = IF last THEN "persist" ELSE phase[j]
      /\ next'[j] = token
      /\ batch'[j] = IF E = {} THEN batch[j] ELSE Append(batch[j], E)
    BY <1>1 DEF Fetched, Paginate, calendarVars
<1>3. /\ after'[j] = IF last THEN 0 ELSE place
      /\ asOf'[j] = IF last THEN NoCursor ELSE AsOf(j)
    BY DEF Paginate
<1>4. /\ AsOf(j) \in Nat /\ AsOf(j) <= instant /\ instant \in Nat
      /\ asOf[j] # NoCursor => AsOf(j) = asOf[j]
      /\ asOf[j] = NoCursor => after[j] = 0
      /\ after[j] \in Nat
  <2>1. instant \in Nat /\ after[j] \in Nat /\ asOf[j] \in Nat \cup {NoCursor}
      BY PlaceTypes
  <2>2. /\ asOf[j] # NoCursor => asOf[j] <= instant
        /\ asOf[j] = NoCursor => after[j] = 0
    <3> HIDE DEF TypeInv, TypeOK, PassTypeOK
    <3> QED
        BY DEF PlaceInv
  <2> QED
      BY <2>1, <2>2 DEF AsOf
<1>5. page \subseteq left /\ left \subseteq events
    BY DEF FirstOf
<1>6. Queued(batch'[j]) = P \cup E
  <2>1. E \in SUBSET Envelopes
    <3>1. \A e \in Keys : stamp[e] \in Nat
        OBVIOUS
    <3>2. page \subseteq Keys
        BY <1>5
    <3> HIDE DEF page
    <3> QED
        BY <3>1, <3>2 DEF EnvelopesOf, Envelopes
  <2>2. batch'[j] = IF E = {} THEN batch[j] ELSE Append(batch[j], E)
      BY <1>2
  <2>3. Queued(batch'[j]) = Queued(batch[j]) \cup E
    <3> HIDE DEF E, TypeInv, TypeOK, PassTypeOK, PassInv, left, page, place, last
    <3> QED
        BY <2>1, <2>2, QueuedGrows
  <2> QED
      BY <2>3
<1>7. ASSUME NEW env \in E PROVE env[1] \in page /\ env = <<env[1], stamp[env[1]]>>
  <2>1. PICK e \in page : env = <<e, stamp[e]>>
      BY <1>7 DEF EnvelopesOf
  <2> QED
      BY <2>1
<1>8. \A e \in page : <<e, stamp[e]>> \in E
    BY DEF EnvelopesOf
<1>9. \A env \in P : env[1] \in Nat /\ env[1] \in Keys /\ env[2] \in Nat /\ env[1] <= after[j]
    BY QueuedTypes DEF PlaceInv, TypeInv, TypeOK
<1>10. ~last => /\ place \in page
                /\ \A d \in page : d <= place
                /\ \A e \in left : e <= place => e \in page
    BY <1>5, PageIsPrefix
\* What the pass has seen once it has this page.
<1>11. ASSUME NEW e \in Existing, stamp[e] <= AsOf(j), last \/ e <= place
       PROVE  Seen(j, e)'
  <2>1. CASE e <= after[j]
    <3>1. asOf[j] # NoCursor
        BY <1>4, <2>1 DEF Existing
    <3>2. Seen(j, e)
        BY <1>4, <1>11, <2>1, <3>1 DEF PlaceInv
    <3> QED
        BY <1>2, <1>6, <3>2 DEF Seen
  <2>2. CASE e > after[j] /\ e \in events
    <3>1. e \in page
        BY <1>10, <1>11, <2>2
    <3>2. <<e, stamp[e]>> \in E
        BY <1>8, <3>1
    <3> QED
        BY <1>2, <1>6, <3>2 DEF Seen
  <2>3. CASE e \notin events
      BY <1>2, <2>3 DEF Seen
  <2>4. e \in Nat /\ after[j] \in Nat
      BY <1>4 DEF Existing
  <2> QED
      BY <2>1, <2>2, <2>3, <2>4
<1>12. RowsInv' /\ CursorInv' /\ ForgottenInv'
    BY <1>2 DEF RowsInv, CursorInv, ForgottenInv, Existing
<1>13. \A i \in Jobs : i = j
    BY DEF OnePass
<1>17. RowsInv /\ BatchInv /\ PlaceInv /\ Keys \subseteq Nat
    OBVIOUS
<1> HIDE DEF page, left, E, P, last, place, TypeInv, TypeOK, PassTypeOK, PassInv
<1>14. BatchInv'
  <2>1. phase'[j] # "idle"
      BY <1>2 DEF Fetching
  <2>2. ASSUME NEW env \in P \cup E
        PROVE  table[env[1]] <= env[2] /\ env[2] <= stamp[env[1]]
    <3>1. CASE env \in P
        BY <1>17, <3>1 DEF BatchInv, P
    <3>2. CASE env \in E
      <4>1. PICK e \in page : env = <<e, stamp[e]>>
          BY <1>7, <3>2
      <4>2. e \in Keys
          BY <1>5 DEF left
      <4>3. stamp[e] \in Nat /\ table[e] <= stamp[e]
          BY <1>17, <4>2 DEF RowsInv, TypeInv, TypeOK
      <4>4. stamp[e] <= stamp[e]
          BY <4>3
      <4> QED
          BY <4>1, <4>3, <4>4
    <3> QED
        BY <2>2, <3>1, <3>2
  <2>3. ASSUME NEW a \in P \cup E, NEW b \in P \cup E, a[1] = b[1] PROVE a = b
    <3>1. \A env \in E : env[1] > after[j]
        BY <1>5, <1>7 DEF left
    <3>2. \A env \in P : ~(env[1] > after[j])
        BY <1>4, <1>9, <1>17
    <3>3. (a \in P <=> b \in P) /\ (a \in E <=> b \in E)
        BY <2>3, <3>1, <3>2
    <3>4. CASE a \in P /\ b \in P
        BY <1>17, <2>3, <3>4 DEF BatchInv, P
    <3>5. CASE a \in E /\ b \in E
        BY <1>7, <2>3, <3>5
    <3> QED
        BY <3>3, <3>4, <3>5
  <2> QED
      BY <1>2, <1>6, <1>13, <2>1, <2>2, <2>3 DEF BatchInv
<1>15. PlaceInv'
  <2>1. CASE last
    <3>1. phase'[j] = "persist" /\ asOf'[j] = NoCursor /\ after'[j] = 0
        BY <1>2, <1>3, <2>1
    <3> QED
        BY <1>13, <3>1 DEF PlaceInv, Fetching
  <2>2. CASE ~last
    <3>1. phase'[j] = phase[j] /\ asOf'[j] = AsOf(j) /\ after'[j] = place
        BY <1>2, <1>3, <2>2
    <3>2. \A env \in P \cup E : env[1] <= place
      <4>1. place \in Nat /\ place > after[j]
          BY <1>5, <1>10, <2>2 DEF left
      <4>2. \A env \in P : env[1] <= place
          BY <1>4, <1>9, <1>17, <4>1
      <4> QED
          BY <1>7, <1>10, <2>2, <4>2
    <3>3. \A e \in Existing' : e <= after'[j] /\ stamp'[e] <= asOf'[j] => Seen(j, e)'
        BY <1>2, <1>11, <3>1 DEF Existing
    <3>4. phase[j] = "incremental" => seen'[j] = cursor' /\ cursor' # NoCursor
        BY <1>2, <1>17 DEF PlaceInv
    <3> QED
        BY <1>2, <1>4, <1>6, <1>13, <3>1, <3>2, <3>3, <3>4 DEF PlaceInv, Fetching
  <2> QED
      BY <2>1, <2>2
<1>16. TokenInv'
  <2>1. CASE last
    <3>1. next'[j] # NoCursor => next'[j] = AsOf(j)
        BY <1>1, <1>2
    <3>2. \A e \in Existing' : stamp'[e] <= AsOf(j) => Seen(j, e)'
        BY <1>2, <1>11, <2>1 DEF Existing
    <3> QED
        BY <1>2, <1>4, <1>13, <3>1, <3>2 DEF TokenInv
  <2>2. CASE ~last
    <3>1. phase'[j] \notin {"persist", "audit"}
        BY <1>2, <2>2 DEF Fetching
    <3> QED
        BY <1>13, <3>1 DEF TokenInv
  <2> QED
      BY <2>1, <2>2
<1> QED
    BY <1>12, <1>14, <1>15, <1>16 DEF PassInv

\* A page leaves no gap behind the place it moves to.
LEMMA FetchKeeps ==
  ASSUME OnePass, TypeInv, PassInv, NEW j \in Jobs, FetchFullPage(j) \/ FetchIncrementalPage(j)
  PROVE  PassInv'
<1> USE Constants
<1>1. \A e \in Existing \ Listed : table[e] = stamp[e]
    BY DEF PassInv, ForgottenInv, Listed
<1>2. CASE FetchFullPage(j)
    BY <1>1, <1>2, PaginateKeeps DEF FetchFullPage, Fetching, Listed, Existing
<1>3. CASE FetchIncrementalPage(j)
  <2> DEFINE events == {e \in Listed : stamp[e] > seen[j]}
  <2>1. Fetching(j) /\ Paginate(j, events) /\ events \in SUBSET Keys
      BY <1>3 DEF FetchIncrementalPage, Fetching, Listed, Existing
  <2>2. seen[j] = cursor /\ cursor # NoCursor /\ cursor \in Nat
      BY <1>3 DEF FetchIncrementalPage, PassInv, PlaceInv, TypeInv, TypeOK, PassTypeOK
  <2>3. \A e \in Existing : stamp[e] \in Nat
      BY DEF Existing, TypeInv, TypeOK
  <2>4. \A e \in Existing \ events : table[e] = stamp[e]
      BY <1>1, <2>2, <2>3 DEF PassInv, CursorInv
  <2> QED
      BY <2>1, <2>4, PaginateKeeps
<1> QED
    BY <1>2, <1>3

\* A rejected token, a failure and the end of a pass drop what was fetched.
LEMMA DropKeeps ==
  ASSUME OnePass, TypeInv, PassInv, NEW j \in Jobs,
         batch' = [batch EXCEPT ![j] = <<>>],
         phase' \in {[phase EXCEPT ![j] = "idle"], [phase EXCEPT ![j] = "full"]},
         DropPages(j),
         UNCHANGED <<table, cursor, seen, calendarVars>>
  PROVE  PassInv'
<1> USE Constants
<1>1. /\ Queued(batch'[j]) = {} /\ batch'[j] = <<>>
      /\ phase'[j] \in {"idle", "full"}
      /\ asOf'[j] = NoCursor /\ after'[j] = 0
    BY QueuedEmpty DEF DropPages, TypeInv, TypeOK, PassTypeOK
<1>2. \A i \in Jobs : i = j
    BY DEF OnePass
<1>3. RowsInv' /\ CursorInv' /\ ForgottenInv'
    BY DEF PassInv, RowsInv, CursorInv, ForgottenInv, Existing, calendarVars
<1>4. BatchInv'
    BY <1>1, <1>2 DEF BatchInv
<1>5. PlaceInv'
    BY <1>1, <1>2 DEF PlaceInv, Fetching
<1>6. TokenInv'
    BY <1>1, <1>2 DEF TokenInv
<1> QED
    BY <1>3, <1>4, <1>5, <1>6 DEF PassInv

\* A pass that falls back has claimed nothing.
LEMMA TokenGoneKeeps ==
  ASSUME OnePass, TypeInv, PassInv, NEW j \in Jobs, TokenGone(j)
  PROVE  PassInv'
BY DropKeeps DEF TokenGone, FallBack

\* Nor has one that fails.
LEMMA PassFailsKeeps ==
  ASSUME OnePass, TypeInv, PassInv, NEW j \in Jobs, PassFails(j)
  PROVE  PassInv'
BY DropKeeps DEF PassFails, Fail

\* An attempt that is repeated has changed nothing.
LEMMA HiccupKeeps ==
  ASSUME OnePass, TypeInv, PassInv, NEW j \in Jobs, Hiccup(j)
  PROVE  PassInv'
<1>1. CASE GivesUp(attempt[j] + 1)
  <2>1. Fail(j) /\ UNCHANGED calendarVars
      BY <1>1 DEF Hiccup, TransientError
  <2>2. phase' = [phase EXCEPT ![j] = "idle"]
      BY <2>1 DEF Fail
  <2>3. DropPages(j)
      BY <2>2 DEF Hiccup, TypeInv, TypeOK, PassTypeOK
  <2> QED
      BY <2>1, <2>2, <2>3, DropKeeps DEF Fail
<1>2. CASE ~GivesUp(attempt[j] + 1)
  <2>1. UNCHANGED <<passVars, calendarVars>> /\ phase[j] \in {"full", "incremental"}
      BY <1>2 DEF Hiccup, TransientError
  <2>2. UNCHANGED placeVars
      BY <2>1 DEF Hiccup, passVars
  <2> QED
      BY <2>1, <2>2, RestKeeps DEF passVars, calendarVars, placeVars
<1> QED
    BY <1>1, <1>2

\* A pass begins with nothing fetched.
LEMMA BeginKeeps ==
  ASSUME OnePass, TypeInv, PassInv, NEW j \in Jobs,
         Begin(j), UNCHANGED <<calendarVars, placeVars>>
  PROVE  PassInv'
<1> USE Constants
<1>1. /\ phase[j] = "idle" /\ batch' = batch
      /\ phase'[j] \in {"full", "incremental"}
      /\ phase'[j] = "incremental" => cursor # NoCursor
      /\ seen'[j] = cursor
      /\ UNCHANGED <<table, cursor, calendarVars, placeVars>>
    BY DEF Begin, Mode, TypeInv, TypeOK, PassTypeOK
<1>2. /\ batch[j] = <<>> /\ Queued(batch'[j]) = {}
      /\ asOf[j] = NoCursor /\ after[j] = 0
    BY <1>1, QueuedEmpty DEF PassInv, BatchInv, PlaceInv, Fetching
<1>3. \A i \in Jobs : i = j
    BY DEF OnePass
<1>4. RowsInv' /\ CursorInv' /\ ForgottenInv'
    BY <1>1 DEF PassInv, RowsInv, CursorInv, ForgottenInv, Existing, calendarVars
<1>5. BatchInv'
    BY <1>1, <1>2, <1>3 DEF BatchInv
<1>6. PlaceInv'
    BY <1>1, <1>2, <1>3 DEF PlaceInv, Fetching, placeVars
<1>7. TokenInv'
    BY <1>1, <1>3 DEF TokenInv
<1> QED
    BY <1>4, <1>5, <1>6, <1>7 DEF PassInv

\* An envelope moves into its row, ahead of what the row held.
LEMMA PersistKeeps ==
  ASSUME OnePass, TypeInv, PassInv, NEW j \in Jobs,
         PersistOne(j), UNCHANGED <<calendarVars, placeVars>>
  PROVE  /\ PassInv'
         /\ \E k \in Keys : /\ table[k] <= table'[k] /\ table'[k] <= stamp[k]
                            /\ table' = [table EXCEPT ![k] = table'[k]]
<1> USE Constants
<1> USE DEF TypeInv, TypeOK
<1>1. PICK env \in Queued(batch[j]) :
         /\ env[1] \in Keys /\ env[2] \in Nat /\ env = <<env[1], env[2]>>
         /\ table' = [table EXCEPT ![env[1]] = env[2]]
         /\ table'[env[1]] = env[2]
         /\ \A d \in Keys : d # env[1] => table'[d] = table[d]
         /\ Queued(batch'[j]) \subseteq Queued(batch[j])
         /\ Queued(batch[j]) \subseteq Queued(batch'[j]) \cup {env}
    BY PersistTypes
<1>2. /\ phase[j] = "persist" /\ phase'[j] = "audit"
      /\ UNCHANGED <<cursor, seen, next, instant, stamp, forgotten, after, asOf>>
    BY PersistTypes DEF calendarVars, placeVars
<1>3. /\ Queued(batch'[j]) \subseteq Queued(batch[j])
      /\ Queued(batch[j]) \subseteq Queued(batch'[j]) \cup {env}
    BY <1>1
<1>4. \A d \in Keys : table[d] \in Nat /\ stamp[d] \in Nat
    BY Constants DEF PassTypeOK
<1>5. /\ env[1] \in Keys /\ env[2] \in Nat
      /\ table'[env[1]] = env[2]
      /\ \A d \in Keys : d # env[1] => table'[d] = table[d]
    BY <1>1
<1> HIDE DEF TypeInv, TypeOK
<1>6. table[env[1]] <= env[2] /\ env[2] <= stamp[env[1]]
    BY <1>3 DEF PassInv, BatchInv
<1>7. \A i \in Jobs : i = j
    BY DEF OnePass
\* A row that is up to date stays so.
<1>8. \A d \in Keys : table[d] = stamp[d] => table'[d] = stamp[d]
    BY <1>4, <1>5, <1>6
<1>9. RowsInv'
    BY <1>2, <1>4, <1>5, <1>6 DEF PassInv, RowsInv
<1>10. CursorInv' /\ ForgottenInv'
    BY <1>2, <1>8 DEF PassInv, CursorInv, ForgottenInv, Existing, TypeInv, TypeOK
<1>11. ASSUME NEW d \in Keys, Seen(j, d) PROVE Seen(j, d)'
  <2>1. CASE table[d] = stamp[d]
      BY <1>2, <1>8, <2>1 DEF Seen
  <2>2. CASE <<d, stamp[d]>> \in Queued(batch[j])
    <3>1. CASE <<d, stamp[d]>> = env
        BY <1>2, <1>5, <3>1 DEF Seen
    <3>2. CASE <<d, stamp[d]>> # env
        BY <1>2, <1>3, <2>2, <3>2 DEF Seen
    <3> QED
        BY <3>1, <3>2
  <2> QED
      BY <1>11, <2>1, <2>2 DEF Seen
<1>12. BatchInv'
  <2>1. ASSUME NEW other \in Queued(batch'[j])
        PROVE  table'[other[1]] <= other[2] /\ other[2] <= stamp'[other[1]]
    <3>1. /\ other \in Queued(batch[j]) /\ other[1] \in Keys /\ other[2] \in Nat
          /\ table[other[1]] <= other[2] /\ other[2] <= stamp[other[1]]
        BY <1>3, <2>1, QueuedTypes DEF PassInv, BatchInv, TypeInv, TypeOK
    <3>2. CASE other[1] = env[1]
      <4>1. other = env
          BY <1>3, <3>1, <3>2 DEF PassInv, BatchInv
      <4> QED
          BY <1>2, <1>4, <1>5, <1>6, <4>1
    <3>3. CASE other[1] # env[1]
        BY <1>2, <1>5, <3>1, <3>3
    <3> QED
        BY <3>2, <3>3
  <2>2. \A a, b \in Queued(batch'[j]) : a[1] = b[1] => a = b
      BY <1>3 DEF PassInv, BatchInv
  <2> QED
      BY <1>2, <1>7, <2>1, <2>2 DEF BatchInv
<1>13. PlaceInv'
    BY <1>2, <1>7 DEF PassInv, PlaceInv, Fetching
<1>14. TokenInv'
    BY <1>2, <1>7, <1>11 DEF PassInv, TokenInv, Existing
<1>15. /\ table[env[1]] <= table'[env[1]] /\ table'[env[1]] <= stamp[env[1]]
       /\ table' = [table EXCEPT ![env[1]] = table'[env[1]]]
  <2>1. table' = [table EXCEPT ![env[1]] = table'[env[1]]]
      BY <1>1
  <2>2. table[env[1]] <= table'[env[1]] /\ table'[env[1]] <= stamp[env[1]]
      BY <1>5, <1>6
  <2> QED
      BY <2>1, <2>2
<1>16. PassInv'
    BY <1>9, <1>10, <1>12, <1>13, <1>14 DEF PassInv
<1> QED
    BY <1>5, <1>15, <1>16

\* An audit entry changes neither rows nor envelopes.
LEMMA AuditKeeps ==
  ASSUME OnePass, TypeInv, PassInv, NEW j \in Jobs,
         AuditOne(j), UNCHANGED <<calendarVars, placeVars>>
  PROVE  PassInv'
<1> USE Constants
<1>1. /\ phase[j] = "audit" /\ phase'[j] = "persist"
      /\ UNCHANGED <<table, cursor, seen, batch, next, instant, stamp, forgotten, after, asOf>>
    BY DEF AuditOne, calendarVars, placeVars, TypeInv, TypeOK, PassTypeOK
<1>2. \A i \in Jobs : i = j
    BY DEF OnePass
<1>3. \A d \in Keys : Seen(j, d)' <=> Seen(j, d)
    BY <1>1 DEF Seen
<1>4. RowsInv' /\ CursorInv' /\ ForgottenInv'
    BY <1>1 DEF PassInv, RowsInv, CursorInv, ForgottenInv, Existing
<1>5. BatchInv' /\ PlaceInv'
    BY <1>1, <1>2 DEF PassInv, BatchInv, PlaceInv, Fetching
<1>6. TokenInv'
    BY <1>1, <1>2, <1>3 DEF PassInv, TokenInv, Existing
<1> QED
    BY <1>4, <1>5, <1>6 DEF PassInv

\* With nothing left to persist, what the pass has seen is in the table.
LEMMA SaveKeeps ==
  ASSUME OnePass, TypeInv, PassInv, NEW j \in Jobs,
         SaveCursor(j), UNCHANGED <<calendarVars, placeVars>>
  PROVE  PassInv'
<1> USE Constants
<1>1. /\ phase[j] = "persist" /\ batch[j] = <<>> /\ phase'[j] = "idle"
      /\ cursor' = next[j]
      /\ UNCHANGED <<table, seen, batch, next, instant, stamp, forgotten, after, asOf>>
    BY DEF SaveCursor, calendarVars, placeVars, TypeInv, TypeOK, PassTypeOK
<1>2. \A i \in Jobs : i = j
    BY DEF OnePass
<1>3. \A e \in Existing : Seen(j, e) => table[e] = stamp[e]
    BY <1>1, QueuedEmpty DEF Seen
<1>4. CursorInv'
    BY <1>1, <1>3 DEF PassInv, TokenInv, CursorInv, Existing
<1>5. RowsInv' /\ ForgottenInv'
    BY <1>1 DEF PassInv, RowsInv, ForgottenInv
<1>6. BatchInv' /\ PlaceInv' /\ TokenInv'
    BY <1>1, <1>2 DEF PassInv, BatchInv, PlaceInv, TokenInv, Fetching
<1> QED
    BY <1>4, <1>5, <1>6 DEF PassInv

----------------------------------------------------------------------------
\* The theorems

LEMMA PassStepKeeps ==
  ASSUME OnePass, TypeInv, PassInv, NEW j \in Jobs, PassStep(j)
  PROVE  PassInv'
BY BeginKeeps, PersistKeeps, AuditKeeps, SaveKeeps DEF PassStep, PersistBatch

LEMMA PassInvStep ==
  ASSUME OnePass, TombstonesLast
  PROVE  TypeInv /\ PassInv /\ [Next]_vars => PassInv'
<1> SUFFICES ASSUME TypeInv, PassInv, [Next]_vars PROVE PassInv'
    OBVIOUS
<1>1. ASSUME NEW e \in Keys, Change(e) \/ Forget(e) PROVE PassInv'
    BY <1>1, ChangeKeeps, ForgetKeeps
<1>2. CASE ExpireTokens
    BY <1>2, RestKeeps DEF ExpireTokens, passVars, placeVars
<1>3. ASSUME NEW j \in Jobs, FetchStep(j) PROVE PassInv'
    BY <1>3, FetchKeeps, TokenGoneKeeps DEF FetchStep
<1>4. ASSUME NEW j \in Jobs, PassStep(j) \/ Hiccup(j) \/ PassFails(j) PROVE PassInv'
    BY <1>4, PassStepKeeps, HiccupKeeps, PassFailsKeeps
<1>5. CASE UNCHANGED vars
    BY <1>5, RestKeeps DEF vars, passVars, calendarVars, placeVars
<1> QED
    BY <1>1, <1>2, <1>3, <1>4, <1>5 DEF Next

LEMMA PassInvHolds == ASSUME OnePass, TombstonesLast PROVE Spec => []PassInv
<1>1. Init => PassInv
  <2> SUFFICES ASSUME Init PROVE PassInv
      OBVIOUS
  <2> USE Constants, QueuedEmpty DEF Init, PassInit
  <2>1. RowsInv /\ CursorInv /\ ForgottenInv
      BY DEF RowsInv, CursorInv, ForgottenInv
  <2>2. BatchInv /\ TokenInv
      BY DEF BatchInv, TokenInv
  <2>3. PlaceInv
      BY DEF PlaceInv, Fetching
  <2> QED
      BY <2>1, <2>2, <2>3 DEF PassInv
<1> QED
    BY <1>1, PassInvStep, TypeHolds, PTL DEF Spec

\* One pass at a time implements Mirror: whatever changes, expires, is rejected or fails
\* while a listing is paging, rows only go forward along the versions their events have
\* had, and what the saved token claims is in the table.
THEOREM ImplementsMirror == ASSUME OnePass, TombstonesLast PROVE Spec => MirrorSpec
<1> DEFINE Claimed == {e \in Existing : cursor # NoCursor /\ stamp[e] <= cursor}
           Mapped == Promise!Next \/ UNCHANGED <<stamp, table, Claimed>>
<1>1. Init => Promise!Init
    BY DEF Init, PassInit, Promise!Init
<1>2. TypeInv /\ PassInv /\ TypeInv' /\ PassInv' /\ [Next]_vars
        => [Promise!Next]_(Promise!vars)
  <2> SUFFICES ASSUME TypeInv, PassInv, TypeInv', PassInv', [Next]_vars PROVE Mapped
      BY DEF Promise!vars
  <2> USE Constants
  <2> DEFINE Still == UNCHANGED <<stamp, table, cursor>>
  <2>1. ASSUME Still PROVE Mapped
      BY <2>1 DEF Existing
  <2>2. ASSUME NEW e \in Keys, Change(e) PROVE Mapped
    <3>1. /\ stamp' = [stamp EXCEPT ![e] = instant + 1]
          /\ UNCHANGED <<table, cursor>>
        BY <2>2 DEF Change, passVars
    <3>2. /\ instant \in Nat /\ stamp[e] \in Nat /\ stamp[e] <= instant
          /\ stamp'[e] = instant + 1
          /\ \A d \in Keys : d # e => stamp'[d] = stamp[d]
          /\ cursor # NoCursor => cursor \in Nat /\ cursor <= instant
        BY <3>1 DEF TypeInv, TypeOK, PassTypeOK, PassInv, RowsInv, CursorInv
    <3>3. stamp[e] < stamp'[e]
        BY <3>2
    <3>4. Claimed' = Claimed \ {e}
        BY <3>1, <3>2 DEF Existing
    <3>5. Promise!Change(e)
        BY <3>1, <3>2, <3>3, <3>4 DEF Promise!Change
    <3> QED
        BY <3>5 DEF Promise!Next
  <2>3. ASSUME NEW j \in Jobs, PersistOne(j), UNCHANGED <<calendarVars, placeVars>>
        PROVE  Mapped
    <3>1. PICK k \in Keys : /\ table[k] <= table'[k] /\ table'[k] <= stamp[k]
                            /\ table' = [table EXCEPT ![k] = table'[k]]
        BY <2>3, PersistKeeps
    <3>2. UNCHANGED <<stamp, cursor, Claimed>>
        BY <2>3 DEF PersistOne, calendarVars, Existing
    <3>3. CASE table[k] = table'[k]
      <4>1. table \in [Keys -> Nat] /\ table' \in [Keys -> Nat]
          BY DEF TypeInv, TypeOK, PassTypeOK
      <4>2. \A d \in Keys : table'[d] = table[d]
          BY <3>1, <3>3, <4>1
      <4>3. table' = table
        <5>1. table = [d \in Keys |-> table[d]] /\ table' = [d \in Keys |-> table'[d]]
            BY <4>1
        <5>2. [d \in Keys |-> table[d]] = [d \in Keys |-> table'[d]]
            BY <4>2
        <5> QED
            BY <5>1, <5>2
      <4> QED
          BY <3>2, <4>3
    <3>4. CASE table[k] # table'[k]
      <4>1. table[k] < table'[k]
          BY <3>1, <3>4 DEF TypeInv, TypeOK, PassTypeOK
      <4>2. Promise!Write(k)
          BY <3>1, <3>2, <4>1 DEF Promise!Write
      <4> QED
          BY <4>2 DEF Promise!Next
    <3> QED
        BY <3>3, <3>4
  <2>4. ASSUME NEW j \in Jobs, SaveCursor(j), UNCHANGED calendarVars PROVE Mapped
    <3>1. UNCHANGED <<stamp, table>>
        BY <2>4 DEF SaveCursor, calendarVars
    <3>2. Claimed' \subseteq {k \in Keys : table[k] = stamp[k]}
        BY <3>1 DEF PassInv, CursorInv, Existing
    <3>3. Promise!Claim
        BY <3>1, <3>2 DEF Promise!Claim, Promise!InStep
    <3> QED
        BY <3>3 DEF Promise!Next
  <2>5. ASSUME NEW e \in Keys, Forget(e) PROVE Still
      BY <2>5 DEF Forget, passVars
  <2>6. CASE ExpireTokens
      BY <2>1, <2>6 DEF ExpireTokens, passVars
  <2>7. ASSUME NEW j \in Jobs, FetchStep(j) PROVE Still
      BY <2>7 DEF FetchStep, FetchFullPage, FetchIncrementalPage, Paginate, Fetched,
         TokenGone, FallBack, calendarVars
  <2>8. ASSUME NEW j \in Jobs, Hiccup(j) \/ PassFails(j) PROVE Still
      BY <2>8 DEF Hiccup, TransientError, PassFails, Fail, calendarVars, passVars
  <2>9. ASSUME NEW j \in Jobs, PassStep(j) PROVE Mapped
    <3>1. UNCHANGED <<calendarVars, placeVars>>
        BY <2>9 DEF PassStep
    <3>2. Begin(j) \/ AuditOne(j) => Still
        BY <3>1 DEF Begin, AuditOne, calendarVars
    <3> QED
        BY <2>1, <2>3, <2>4, <2>9, <3>1, <3>2 DEF PassStep, PersistBatch
  <2>10. CASE UNCHANGED vars
      BY <2>1, <2>10 DEF vars, passVars, calendarVars
  <2> HIDE DEF Mapped, Still
  <2> QED
      BY <2>1, <2>2, <2>5, <2>6, <2>7, <2>8, <2>9, <2>10 DEF Next
<1> QED
    BY <1>1, <1>2, TypeHolds, PassInvHolds, PTL DEF Spec, MirrorSpec, Promise!Spec

\* The attempts of a call that is given up are its own: no other error counts for it.
RetriesInv ==
    /\ exhausted * (Retries + 1) <= transient
    /\ \A j \in Jobs : exhausted * (Retries + 1) + attempt[j] <= transient

\* A pass ends with a transient error only when its call was made Retries + 1 times.
THEOREM PassesOutlast == ASSUME OnePass PROVE Spec => []PassesOutlastHiccups
<1>1. Init => RetriesInv
    BY Constants DEF Init, RetryInit, RetriesInv
<1>2. TypeInv /\ RetriesInv /\ [Next]_vars => RetriesInv'
  <2> SUFFICES ASSUME TypeInv, RetriesInv, [Next]_vars PROVE RetriesInv'
      OBVIOUS
  <2> USE Constants
  <2>1. /\ exhausted \in Nat /\ transient \in Nat
        /\ \A j \in Jobs : attempt[j] \in Nat /\ attempt[j] <= Retries
      BY DEF TypeInv, TypeOK, RetryTypeOK
  <2> DEFINE lost == exhausted * (Retries + 1)
  <2>2. lost \in Nat
      BY <2>1
  <2>3. \A i, j \in Jobs : i = j
      BY DEF OnePass
  <2>4. ASSUME UNCHANGED retryVars PROVE RetriesInv'
      BY <2>4 DEF RetriesInv, retryVars
  <2>5. ASSUME NEW j \in Jobs, Settles(j) PROVE RetriesInv'
    <3>1. attempt'[j] = 0 /\ exhausted' = exhausted /\ transient' = transient
        BY <2>5 DEF Settles, TypeInv, TypeOK, RetryTypeOK
    <3> QED
        BY <2>2, <2>3, <3>1 DEF RetriesInv
  <2>6. ASSUME NEW j \in Jobs, TransientError(j) PROVE RetriesInv'
    <3>1. transient' = transient + 1 /\ lost + attempt[j] <= transient
        BY <2>6 DEF TransientError, RetriesInv
    <3>2. CASE GivesUp(attempt[j] + 1)
      <4>1. attempt'[j] = 0 /\ exhausted' = exhausted + 1
          BY <2>6, <3>2 DEF TransientError, TypeInv, TypeOK, RetryTypeOK
      <4>2. attempt[j] = Retries
          BY <2>1, <3>2 DEF GivesUp
      <4>3. exhausted' * (Retries + 1) = lost + Retries + 1
          BY <2>1, <4>1
      <4> HIDE DEF lost
      <4>4. exhausted' * (Retries + 1) <= transient'
          BY <2>1, <2>2, <3>1, <4>2, <4>3
      <4> QED
          BY <2>1, <2>3, <4>1, <4>4 DEF RetriesInv
    <3>3. CASE ~GivesUp(attempt[j] + 1)
      <4>1. attempt'[j] = attempt[j] + 1 /\ exhausted' = exhausted
          BY <2>6, <3>3 DEF TransientError, TypeInv, TypeOK, RetryTypeOK
      <4>2. exhausted' * (Retries + 1) = lost
          BY <4>1
      <4> HIDE DEF lost
      <4> QED
          BY <2>1, <2>2, <2>3, <3>1, <4>1, <4>2 DEF RetriesInv
    <3> QED
        BY <3>2, <3>3
  <2>7. ASSUME NEW e \in Keys, Change(e) \/ Forget(e) PROVE UNCHANGED retryVars
      BY <2>7 DEF Change, Forget
  <2>8. CASE ExpireTokens
      BY <2>4, <2>8 DEF ExpireTokens
  <2>9. ASSUME NEW j \in Jobs, FetchStep(j) PROVE Settles(j)
      BY <2>9 DEF FetchStep, FetchFullPage, FetchIncrementalPage, Paginate, TokenGone
  <2>10. ASSUME NEW j \in Jobs, PassStep(j) PROVE UNCHANGED retryVars
      BY <2>10 DEF PassStep
  <2>11. ASSUME NEW j \in Jobs, Hiccup(j) PROVE RetriesInv'
      BY <2>6, <2>11 DEF Hiccup
  <2>12. ASSUME NEW j \in Jobs, PassFails(j) PROVE RetriesInv'
      BY <2>5, <2>12 DEF PassFails
  <2>13. CASE UNCHANGED vars
      BY <2>4, <2>13 DEF vars
  <2> QED
      BY <2>4, <2>5, <2>7, <2>8, <2>9, <2>10, <2>11, <2>12, <2>13 DEF Next
<1>3. RetriesInv => PassesOutlastHiccups
    BY DEF RetriesInv, PassesOutlastHiccups
<1> QED
    BY <1>1, <1>2, <1>3, TypeHolds, PTL DEF Spec
=============================================================================
