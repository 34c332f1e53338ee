------------------------- MODULE HubspotSyncProofs -------------------------
(***************************************************************************)
(* The passes over the CRM implement Mirror, proved for any contacts, page *)
(* size and number of retries, one pass at a time, as long as no contact   *)
(* changes while a fetch is paging: the run HubspotSync_paging shows what  *)
(* is missed when one does.                                                *)
(*                                                                         *)
(* The full list and the search are paged in two ways, by id and by        *)
(* position.  What is carried through a pass is that every contact up to   *)
(* its place in either is in the table or among the envelopes to persist.  *)
(***************************************************************************)
EXTENDS HubspotSync, RunnerPassProofs

\* The assumptions about the constants, and what they say of a cursor.
LEMMA Constants ==
    /\ Keys \subseteq Nat \ {0} /\ IsFiniteSet(Keys)
    /\ NoCursor \notin Nat
    /\ MaxFailures \in Nat /\ MaxInstant \in Nat /\ Retries \in Nat /\ MaxTransient \in Nat
    /\ PageLimit \in Nat \ {0}
BY KeyAssumption, CursorAssumption, FailureAssumption, ChangesAssumption, RetryAssumption,
   LimitAssumption

\* A pass that ends with a transient error is one that fails.
TypeInv == TypeOK /\ exhausted <= failures

----------------------------------------------------------------------------
\* Pages

\* The place of c among the members of S.
Position(S, rank, c) == Cardinality({d \in S : rank[d] < rank[c]})

\* A place in a listing is a number.
LEMMA Positions ==
  ASSUME NEW S \in SUBSET Keys, NEW rank, NEW c
  PROVE  Position(S, rank, c) \in Nat
<1>1. IsFiniteSet({d \in S : rank[d] < rank[c]})
    BY Constants, FS_Subset
<1> QED
    BY <1>1, FS_CardinalityType DEF Position

\* A page and those behind it are all but the members that were skipped.
LEMMA PageSplits ==
  ASSUME NEW S \in SUBSET Keys, NEW rank, NEW skipped \in Nat
  PROVE  /\ PageOf(S, rank, skipped) \subseteq S
         /\ \A c \in S : \/ Position(S, rank, c) < skipped
                         \/ c \in PageOf(S, rank, skipped)
                         \/ c \in Behind(S, rank, skipped)
         /\ \A c \in S : Position(S, rank, c) < skipped + PageLimit
                           => Position(S, rank, c) < skipped \/ c \in PageOf(S, rank, skipped)
<1>1. ASSUME NEW c \in S, ~(Position(S, rank, c) < skipped),
             Position(S, rank, c) < skipped + PageLimit
      PROVE  c \in PageOf(S, rank, skipped)
  <2>1. Position(S, rank, c) \in Nat
      BY Positions
  <2>2. Position(S, rank, c) \in skipped..(skipped + PageLimit - 1)
      BY <1>1, <2>1, Constants
  <2> QED
      BY <2>2 DEF PageOf, Position
<1>2. ASSUME NEW c \in S, ~(Position(S, rank, c) < skipped + PageLimit)
      PROVE  c \in Behind(S, rank, skipped)
  <2>1. Position(S, rank, c) \in Nat
      BY Positions
  <2>2. Position(S, rank, c) >= skipped + PageLimit
      BY <1>2, <2>1, Constants
  <2> QED
      BY <2>2 DEF Behind, Position
<1>3. PageOf(S, rank, skipped) \subseteq S
    BY DEF PageOf
<1> QED
    BY <1>1, <1>2, <1>3

\* A page of the list takes the contacts in the order of their ids.
LEMMA PageIsPrefix ==
  ASSUME NEW left \in SUBSET Keys, Behind(left, Identity, 0) # {},
         NEW page, page = PageOf(left, Identity, 0),
         NEW place, place = CHOOSE c \in page : \A d \in page : d <= c
  PROVE  /\ place \in page
         /\ \A c \in left : c <= place => c \in page
<1> DEFINE Lower(c) == {d \in left : d < c}
<1>1. IsFiniteSet(left) /\ left \subseteq Nat /\ left # {}
    BY Constants, FS_Subset DEF Behind
<1>2. \A c \in left : IsFiniteSet(Lower(c)) /\ Cardinality(Lower(c)) \in Nat
    BY <1>1, FS_Subset, FS_CardinalityType
<1>3. \A c \in left : c \in page <=> Cardinality(Lower(c)) < PageLimit
  <2> SUFFICES ASSUME NEW c \in left
               PROVE  c \in page <=> Cardinality(Lower(c)) < PageLimit
      OBVIOUS
  <2>1. {d \in left : Identity[d] < Identity[c]} = Lower(c)
      BY DEF Identity
  <2>2. c \in page <=> Cardinality(Lower(c)) \in 0..(0 + PageLimit - 1)
      BY <2>1 DEF PageOf
  <2>3. Cardinality(Lower(c)) \in Nat
      BY <1>2
  <2> HIDE DEF Lower
  <2> QED
      BY <2>2, <2>3, Constants
<1>4. page \subseteq left /\ IsFiniteSet(page) /\ page \in SUBSET Nat
    BY <1>1, FS_Subset DEF PageOf
<1>5. page # {}
  <2>1. PICK x \in left : \A y \in left : x <= y
      BY <1>1, NatLeast
  <2>2. Lower(x) = {}
    <3>1. \A y \in left : y \in Nat /\ x \in Nat /\ x <= y
        BY <1>1, <2>1
    <3>2. \A y \in left : ~(y < x)
        BY <3>1
    <3> QED
        BY <3>2
  <2>3. Cardinality(Lower(x)) = 0
      BY <2>2, FS_EmptySet
  <2>4. Cardinality(Lower(x)) < PageLimit
      BY <2>3, Constants
  <2> HIDE DEF Lower
  <2>5. x \in page
      BY <1>3, <2>4
  <2> QED
      BY <2>5
<1>6. place \in page /\ \A d \in page : d <= place
    BY <1>4, <1>5, NatGreatest
<1>7. ASSUME NEW c \in left, c <= place PROVE c \in page
  <2>1. Lower(c) \in SUBSET Lower(place)
    <3>1. c \in Nat /\ place \in Nat /\ left \subseteq Nat
        BY <1>1, <1>4, <1>6
    <3>2. \A d \in left : d < c => d < place
        BY <1>7, <3>1
    <3> QED
        BY <3>2
  <2>2. Cardinality(Lower(c)) <= Cardinality(Lower(place))
    <3>1. IsFiniteSet(Lower(place))
        BY <1>2, <1>4, <1>6
    <3> HIDE DEF Lower
    <3> QED
        BY <2>1, <3>1, FS_Subset
  <2>3. /\ Cardinality(Lower(c)) \in Nat /\ Cardinality(Lower(place)) \in Nat
        /\ Cardinality(Lower(place)) < PageLimit
      BY <1>2, <1>3, <1>4, <1>6
  <2> HIDE DEF Lower
  <2>4. Cardinality(Lower(c)) < PageLimit
      BY <2>2, <2>3, Constants
  <2> QED
      BY <1>3, <2>4
<1> QED
    BY <1>6, <1>7

\* The next cursor is an instant that has been.
LEMMA NextCursorBound ==
  ASSUME NEW page, \A d \in page : stamp[d] \in 0..instant, instant \in Nat,
         NEW c \in Nat \cup {NoCursor}, c # NoCursor => c <= instant
  PROVE  /\ NextCursorFrom(c, page) \in Nat \cup {NoCursor}
         /\ NextCursorFrom(c, page) # NoCursor => NextCursorFrom(c, page) <= instant
<1> DEFINE instants == {stamp[d] : d \in page} \cup ({c} \ {NoCursor})
<1>1. CASE instants = {}
    BY <1>1 DEF NextCursorFrom
<1>2. CASE instants # {}
  <2>1. instants \subseteq 0..instant
      BY Constants
  <2>2. IsFiniteSet(0..instant)
      BY FS_Interval
  <2>3. IsFiniteSet(instants) /\ instants \in SUBSET Nat
      BY <2>1, <2>2, FS_Subset
  <2> DEFINE m == CHOOSE m \in instants : \A n \in instants : n <= m
  <2>4. \E m1 \in instants : \A n \in instants : n <= m1
    <3> HIDE DEF instants
    <3> QED
        BY <1>2, <2>3, NatGreatest
  <2>5. m \in instants
      BY <2>4
  <2>6. NextCursorFrom(c, page) = m
      BY <1>2 DEF NextCursorFrom
  <2>7. m \in 0..instant
      BY <2>1, <2>5
  <2> HIDE DEF m
  <2> QED
      BY <2>6, <2>7
<1> QED
    BY <1>1, <1>2

----------------------------------------------------------------------------
\* Types

\* The envelopes of a page hold its contacts, each as it is upstream.
LEMMA EnvelopeTypes ==
  ASSUME TypeOK, NEW page \in SUBSET Keys
  PROVE  /\ EnvelopesOf(page) \in SUBSET Envelopes
         /\ \A env \in EnvelopesOf(page) : env[1] \in page /\ env = <<env[1], stamp[env[1]]>>
         /\ \A c \in page : <<c, stamp[c]>> \in EnvelopesOf(page)
<1>1. \A c \in Keys : stamp[c] \in Nat
    BY Constants DEF TypeOK
<1>2. ASSUME NEW env \in EnvelopesOf(page)
      PROVE  env[1] \in page /\ env = <<env[1], stamp[env[1]]>> /\ env \in Envelopes
  <2>1. PICK c \in page : env = <<c, stamp[c]>>
      BY <1>2 DEF EnvelopesOf
  <2> QED
      BY <1>1, <2>1 DEF Envelopes
<1> QED
    BY <1>2 DEF EnvelopesOf

\* What a pass reads of the cursors is typed, whatever it has fetched.
LEMMA NextCursorTypes ==
  ASSUME TypeOK, NEW j \in Jobs, NEW page \in SUBSET Keys
  PROVE  NextCursorFrom(next[j], page) \in Nat \cup {NoCursor}
<1> DEFINE instants == {stamp[d] : d \in page} \cup ({next[j]} \ {NoCursor})
           token == NextCursorFrom(next[j], page)
<1>1. next[j] \in Nat \cup {NoCursor}
    BY DEF TypeOK, PassTypeOK
<1>2. {stamp[d] : d \in page} \subseteq 0..MaxInstant
    BY DEF TypeOK
<1>3. IsFiniteSet({stamp[d] : d \in page})
  <2>1. IsFiniteSet(0..MaxInstant)
      BY Constants, FS_Interval
  <2> QED
      BY <1>2, <2>1, FS_Subset
<1>4. IsFiniteSet({next[j]} \ {NoCursor})
    BY FS_Singleton, FS_Subset
<1>5. IsFiniteSet(instants) /\ instants \in SUBSET Nat
  <2>1. IsFiniteSet(instants)
      BY <1>3, <1>4, FS_Union
  <2>2. {stamp[d] : d \in page} \subseteq Nat
      BY <1>2, Constants
  <2> QED
      BY <1>1, <2>1, <2>2
<1> HIDE DEF instants
<1>6. CASE instants = {}
  <2>1. token = NoCursor
      BY <1>6 DEF NextCursorFrom, instants
  <2> QED
      BY <2>1
<1>7. CASE instants # {}
  <2>1. \E m \in instants : \A n \in instants : n <= m
      BY <1>5, <1>7, NatGreatest
  <2>2. NextCursorFrom(next[j], page) \in instants
      BY <1>7, <2>1 DEF NextCursorFrom, instants
  <2> QED
      BY <1>5, <2>2
<1> QED
    BY <1>6, <1>7

\* A call of a fetch, of either kind, keeps the types.
LEMMA FetchTypes ==
  ASSUME TypeInv, NEW j \in Jobs, FetchStep(j)
  PROVE  TypeInv'
<1>1. TypeOK /\ PassTypeOK /\ RetryTypeOK /\ exhausted <= failures
    BY DEF TypeInv, TypeOK
<1>2. Settles(j) => RetryTypeOK' /\ exhausted' = exhausted
    BY <1>1, Constants DEF Settles, RetryTypeOK
<1>3. CASE FetchFullPage(j)
  <2> DEFINE left == {c \in Existing : c > after[j]}
             page == PageOf(left, Identity, 0)
             last == Behind(left, Identity, 0) = {}
             place == CHOOSE c \in page : \A d \in page : d <= c
  <2>1. left \in SUBSET Keys /\ page \in SUBSET Keys
      BY DEF Existing, PageOf
  <2>2. /\ Fetched(j, EnvelopesOf(page), NextCursorFrom(next[j], page), last)
        /\ after' = [after EXCEPT ![j] = IF last THEN 0 ELSE place]
        /\ Settles(j) /\ UNCHANGED <<instant, stamp, offset>>
      BY <1>3 DEF FetchFullPage
  <2>3. ~last => place \in page
      BY <2>1, PageIsPrefix
  <2>4. EnvelopesOf(page) \in SUBSET Envelopes
      BY <1>1, <2>1, EnvelopeTypes
  <2>5. NextCursorFrom(next[j], page) \in Nat \cup {NoCursor}
      BY <1>1, <2>1, NextCursorTypes
  <2>6. last \in BOOLEAN
      OBVIOUS
  <2> HIDE DEF page, left, last, place
  <2>7. PassTypeOK' /\ failures' = failures
      BY <1>1, <2>2, <2>4, <2>5, <2>6, FetchedTypes
  <2>8. after' \in [Jobs -> Keys \cup {0}]
      BY <1>1, <2>1, <2>2, <2>3 DEF TypeOK
  <2> QED
      BY <1>1, <1>2, <2>2, <2>7, <2>8 DEF TypeInv, TypeOK
<1>4. CASE FetchIncrementalPage(j)
  <2> DEFINE hits == ModifiedSince(seen[j])
             page == PageOf(hits, stamp, offset[j])
             last == Behind(hits, stamp, offset[j]) = {}
             newCursor == NextCursorFrom(next[j], page)
             token == IF last /\ newCursor = NoCursor THEN seen[j] ELSE newCursor
  <2>1. page \in SUBSET Keys
      BY DEF Existing, ModifiedSince, PageOf
  <2>2. /\ Fetched(j, EnvelopesOf(page), token, last)
        /\ offset' = [offset EXCEPT ![j] = IF last THEN 0 ELSE offset[j] + PageLimit]
        /\ Settles(j) /\ UNCHANGED <<instant, stamp, after>>
      BY <1>4 DEF FetchIncrementalPage
  <2>3. EnvelopesOf(page) \in SUBSET Envelopes
      BY <1>1, <2>1, EnvelopeTypes
  <2>4. token \in Nat \cup {NoCursor}
      BY <1>1, <2>1, NextCursorTypes DEF PassTypeOK
  <2>5. last \in BOOLEAN
      OBVIOUS
  <2> HIDE DEF page, hits, last, newCursor, token
  <2>6. PassTypeOK' /\ failures' = failures
      BY <1>1, <2>2, <2>3, <2>4, <2>5, FetchedTypes
  <2>7. offset' \in [Jobs -> Nat]
      BY <1>1, <2>2, Constants DEF TypeOK
  <2> QED
      BY <1>1, <1>2, <2>2, <2>6, <2>7 DEF TypeInv, TypeOK
<1> QED
    BY <1>3, <1>4 DEF FetchStep

\* TypeOK is inductive once exhausted is bounded by failures.
LEMMA TypeStep == TypeInv /\ [Next]_vars => TypeInv'
<1> SUFFICES ASSUME TypeInv, [Next]_vars PROVE TypeInv'
    OBVIOUS
<1> USE Constants
<1>0. /\ TypeOK /\ PassTypeOK /\ RetryTypeOK /\ exhausted <= failures
      /\ after \in [Jobs -> Keys \cup {0}] /\ offset \in [Jobs -> Nat]
      /\ instant \in 0..MaxInstant /\ stamp \in [Keys -> 0..MaxInstant]
    BY DEF TypeInv, TypeOK
<1>1. ASSUME NEW c \in Keys, Change(c) PROVE TypeInv'
    BY <1>1 DEF Change, passVars, retryVars, placeVars, TypeInv, TypeOK, PassTypeOK, RetryTypeOK
<1>2. ASSUME NEW j \in Jobs, PassStep(j) PROVE TypeInv'
  <2>1. UNCHANGED <<retryVars, instant, stamp, placeVars>>
      BY <1>2 DEF PassStep
  <2>2. PassTypeOK' /\ UNCHANGED failures
      BY <1>0, <1>2, BeginTypes, PersistTypes, AuditTypes, SaveTypes DEF PassStep, PersistBatch
  <2> QED
      BY <1>0, <2>1, <2>2 DEF retryVars, placeVars, TypeInv, TypeOK, RetryTypeOK
<1>3. ASSUME NEW j \in Jobs, Hiccup(j) PROVE TypeInv'
  <2>1. transient' \in 0..MaxTransient /\ UNCHANGED <<instant, stamp>>
      BY <1>0, <1>3 DEF Hiccup, TransientError, RetryTypeOK
  <2>2. CASE GivesUp(attempt[j] + 1)
    <3>1. Fail(j) /\ attempt' = [attempt EXCEPT ![j] = 0] /\ exhausted' = exhausted + 1
        BY <1>3, <2>2 DEF Hiccup, TransientError
    <3>2. PassTypeOK' /\ failures' = failures + 1 /\ phase'[j] = "idle"
        BY <1>0, <3>1, DropTypes DEF Fail, PassTypeOK
    <3>3. DropPages(j)
        BY <1>3, <3>2 DEF Hiccup
    <3>4. RetryTypeOK' /\ exhausted' <= failures'
        BY <1>0, <2>1, <3>1, <3>2 DEF RetryTypeOK, PassTypeOK
    <3> QED
        BY <1>0, <2>1, <3>2, <3>3, <3>4 DEF DropPages, TypeInv, TypeOK
  <2>3. CASE ~GivesUp(attempt[j] + 1)
    <3>1. /\ UNCHANGED <<passVars, exhausted>>
          /\ attempt' = [attempt EXCEPT ![j] = attempt[j] + 1]
          /\ phase[j] \in {"full", "incremental"}
        BY <1>3, <2>3 DEF Hiccup, TransientError
    <3>2. UNCHANGED placeVars
        BY <1>3, <3>1 DEF Hiccup, passVars
    <3>3. attempt' \in [Jobs -> 0..Retries]
        BY <1>0, <2>3, <3>1 DEF GivesUp, RetryTypeOK
    <3> QED
        BY <1>0, <2>1, <3>1, <3>2, <3>3
        DEF passVars, placeVars, TypeInv, TypeOK, PassTypeOK, RetryTypeOK
  <2> QED
      BY <2>2, <2>3
<1>4. ASSUME NEW j \in Jobs, PassBreaks(j) PROVE TypeInv'
  <2>1. DropPages(j) /\ Settles(j) /\ UNCHANGED <<instant, stamp>>
      BY <1>4 DEF PassBreaks
  <2>2. PassTypeOK' /\ failures' \in {failures, failures + 1}
      BY <1>0, <1>4, DropTypes DEF PassBreaks, Fail, FallBack
  <2>3. failures \in Nat /\ exhausted \in Nat
      BY <1>0 DEF PassTypeOK, RetryTypeOK
  <2>4. RetryTypeOK' /\ exhausted' <= failures'
      BY <1>0, <2>1, <2>2, <2>3 DEF Settles, RetryTypeOK
  <2> QED
      BY <1>0, <2>1, <2>2, <2>4 DEF DropPages, TypeInv, TypeOK
<1>5. CASE UNCHANGED vars
    BY <1>0, <1>5
    DEF vars, passVars, retryVars, placeVars, TypeInv, TypeOK, PassTypeOK, RetryTypeOK
<1> QED
    BY <1>1, <1>2, <1>3, <1>4, <1>5, FetchTypes DEF Next

LEMMA TypeHolds == Spec => []TypeInv
<1>1. Init => TypeInv
    BY Constants DEF Init, PassInit, RetryInit, TypeInv, TypeOK, PassTypeOK, RetryTypeOK, Phases
<1> QED
    BY <1>1, TypeStep, PTL DEF Spec

\* Every variable of the passes over the CRM keeps its type.
THEOREM TypeCorrect == Spec => []TypeOK
<1>1. TypeInv => TypeOK
    BY DEF TypeInv
<1> QED
    BY <1>1, TypeHolds, PTL

----------------------------------------------------------------------------
\* A pass and what it has seen

\* The assumption under which the cursor covers the table.
Quiet == ChangesDuringFetch = FALSE

Fetching(j) == phase[j] \in {"full", "incremental"}

\* The version of contact c upstream is in its row, or will be at the end of pass j.
Seen(j, c) == table[c] = stamp[c] \/ <<c, stamp[c]>> \in Queued(batch[j])

\* Rows hold versions their contacts have had.
RowsInv == \A c \in Keys : table[c] <= stamp[c] /\ stamp[c] <= instant

CursorInv ==
    cursor # NoCursor =>
        /\ cursor <= instant
        /\ \A c \in Existing : stamp[c] <= cursor => table[c] = stamp[c]

\* The envelopes still to persist, one for a contact, are not behind its row; they
\* are up to date as long as the pass fetches.
BatchInv ==
    \A j \in Jobs :
        /\ phase[j] = "idle" => batch[j] = <<>>
        /\ \A env \in Queued(batch[j]) :
             /\ table[env[1]] <= env[2]
             /\ env[2] <= stamp[env[1]]
             /\ Fetching(j) => env[2] = stamp[env[1]]
        /\ \A a, b \in Queued(batch[j]) : a[1] = b[1] => a = b

\* A pass that is fetching has seen what comes before its place, in the list of all
\* contacts or among those a search finds.
PlaceInv ==
    \A j \in Jobs :
        /\ phase[j] # "full" => after[j] = 0
        /\ phase[j] # "incremental" => offset[j] = 0
        /\ Fetching(j) /\ next[j] # NoCursor => next[j] <= instant
        /\ phase[j] = "full" => \A c \in Existing : c <= after[j] => Seen(j, c)
        /\ phase[j] = "incremental" =>
             /\ seen[j] = cursor /\ cursor # NoCursor
             /\ \A c \in ModifiedSince(seen[j]) :
                  Position(ModifiedSince(seen[j]), stamp, c) < offset[j] => Seen(j, c)

\* A pass that has fetched has seen what its cursor will claim.
TokenInv ==
    \A j \in Jobs : phase[j] \in {"persist", "audit"} /\ next[j] # NoCursor =>
        /\ next[j] <= instant
        /\ \A c \in Existing : stamp[c] <= next[j] => Seen(j, c)

PassInv ==
    /\ RowsInv
    /\ CursorInv
    /\ BatchInv
    /\ PlaceInv
    /\ TokenInv

----------------------------------------------------------------------------
\* The steps

\* The types of what the invariant compares.
LEMMA InvTypes ==
  ASSUME TypeInv
  PROVE  /\ TypeOK /\ PassTypeOK /\ instant \in Nat /\ instant \in 0..MaxInstant
         /\ \A c \in Keys : c \in Nat \ {0} /\ stamp[c] \in Nat /\ table[c] \in Nat
         /\ cursor \in Nat \cup {NoCursor}
         /\ \A j \in Jobs : /\ after[j] \in Nat /\ offset[j] \in Nat
                            /\ next[j] \in Nat \cup {NoCursor}
<1>1. TypeOK /\ PassTypeOK
    BY DEF TypeInv, TypeOK
<1>2. ASSUME NEW j \in Jobs PROVE after[j] \in Nat
  <2>1. after[j] \in Keys \cup {0} /\ Keys \subseteq Nat
      BY <1>1, Constants DEF TypeOK
  <2>2. CASE after[j] = 0
      BY <2>2
  <2>3. CASE after[j] \in Keys
      BY <2>1, <2>3
  <2> QED
      BY <2>1, <2>2, <2>3
<1>3. instant \in Nat /\ \A c \in Keys : c \in Nat \ {0} /\ stamp[c] \in Nat
    BY <1>1, Constants DEF TypeOK
<1> QED
    BY <1>1, <1>2, <1>3 DEF TypeOK, PassTypeOK

\* A contact changes while nothing is being fetched.
LEMMA ChangeKeeps ==
  ASSUME Quiet, TypeInv, PassInv, NEW c \in Keys, Change(c)
  PROVE  PassInv'
<1> USE DEF PassInv
<1>1. /\ instant' = instant + 1 /\ stamp' = [stamp EXCEPT ![c] = instant + 1]
      /\ \A j \in Jobs : ~Fetching(j)
      /\ UNCHANGED <<table, cursor, phase, seen, batch, next, after, offset>>
    BY DEF Change, passVars, placeVars, Quiet, Fetching
<1>2. /\ instant \in Nat /\ cursor \in Nat \cup {NoCursor}
      /\ \A d \in Keys : stamp[d] \in Nat /\ table[d] \in Nat
      /\ \A d \in Keys : d # c => stamp'[d] = stamp[d]
      /\ stamp'[c] = instant + 1
      /\ \A j \in Jobs : next[j] \in Nat \cup {NoCursor}
    BY <1>1, InvTypes DEF TypeOK
<1>3. RowsInv'
    BY <1>1, <1>2 DEF RowsInv
<1>4. CursorInv'
    BY <1>1, <1>2 DEF CursorInv, Existing
<1>5. \A j \in Jobs, d \in Keys : d # c => (Seen(j, d)' <=> Seen(j, d))
    BY <1>1, <1>2 DEF Seen
<1>6. BatchInv'
  <2>1. ASSUME NEW j \in Jobs, NEW env \in Queued(batch[j])
        PROVE  table'[env[1]] <= env[2] /\ env[2] <= stamp'[env[1]]
    <3>1. env[1] \in Keys /\ env[2] \in Nat
        BY <2>1, QueuedTypes, InvTypes
    <3>2. /\ table[env[1]] <= env[2]
          /\ env[2] <= stamp[env[1]] /\ stamp[env[1]] <= instant
        BY <2>1, <3>1 DEF BatchInv, RowsInv
    <3>3. stamp'[env[1]] = stamp[env[1]] \/ stamp'[env[1]] = instant + 1
        BY <1>2, <3>1
    <3> QED
        BY <1>1, <1>2, <3>1, <3>2, <3>3
  <2> QED
      BY <1>1, <2>1 DEF BatchInv, Fetching
<1>7. PlaceInv'
    BY <1>1 DEF PlaceInv, Fetching
<1>8. TokenInv'
    BY <1>1, <1>2, <1>5 DEF TokenInv, Existing
<1> QED
    BY <1>3, <1>4, <1>6, <1>7, <1>8

\* Steps that leave the contacts, the rows, the cursor and the passes alone.
LEMMA RestKeeps ==
  ASSUME PassInv,
         UNCHANGED <<table, cursor, phase, seen, batch, next, after, offset, instant, stamp>>
  PROVE  PassInv'
<1>1. \A j \in Jobs, d \in Keys : Seen(j, d)' <=> Seen(j, d)
    BY DEF Seen
<1>2. \A j \in Jobs : ModifiedSince(seen[j])' = ModifiedSince(seen[j])
    BY DEF ModifiedSince, Existing
<1>3. \A j \in Jobs, c \in Keys :
         Position(ModifiedSince(seen[j]), stamp, c)' = Position(ModifiedSince(seen[j]), stamp, c)
    BY <1>2 DEF Position
<1>4. RowsInv' /\ CursorInv' /\ BatchInv' /\ TokenInv'
    BY <1>1 DEF PassInv, RowsInv, CursorInv, BatchInv, TokenInv, Fetching, Existing
<1>5. PlaceInv'
  <2>1. \A j \in Jobs : ModifiedSince(seen[j]) \subseteq Keys
      BY DEF ModifiedSince, Existing
  <2>2. Existing' = Existing /\ Existing \subseteq Keys
      BY DEF Existing
  <2> QED
      BY <1>1, <1>2, <1>3, <2>1, <2>2 DEF PassInv, PlaceInv, Fetching
<1> QED
    BY <1>4, <1>5 DEF PassInv

\* What both fetches have in common: a page of contacts goes behind the batch.
LEMMA PageKeeps ==
  ASSUME OnePass, TypeInv, PassInv, NEW j \in Jobs, Fetching(j),
         NEW page \in SUBSET Existing, NEW token \in Nat \cup {NoCursor}, NEW last \in BOOLEAN,
         Fetched(j, EnvelopesOf(page), token, last), UNCHANGED <<instant, stamp>>
  PROVE  /\ RowsInv' /\ CursorInv' /\ BatchInv'
         /\ \A c \in Existing : Seen(j, c) \/ c \in page => Seen(j, c)'
         /\ phase'[j] = IF last THEN "persist" ELSE phase[j]
         /\ next'[j] = token
         /\ UNCHANGED <<table, cursor, seen>>
<1>1. page \in SUBSET Keys
    BY DEF Existing
<1>2. EnvelopesOf(page) \in SUBSET Envelopes
    BY <1>1, EnvelopeTypes, InvTypes
<1>3. /\ Queued(batch'[j]) = Queued(batch[j]) \cup EnvelopesOf(page)
      /\ phase'[j] = IF last THEN "persist" ELSE phase[j]
      /\ next'[j] = token
      /\ UNCHANGED <<table, cursor, seen>>
    BY <1>2, FetchedTypes, InvTypes
<1>4. RowsInv' /\ CursorInv'
    BY <1>3 DEF PassInv, RowsInv, CursorInv, Existing
<1>5. ASSUME NEW env \in Queued(batch'[j])
      PROVE  env[2] = stamp[env[1]] /\ env[1] \in Keys /\ env = <<env[1], env[2]>>
  <2>1. CASE env \in Queued(batch[j])
      BY <2>1, InvTypes, QueuedTypes DEF PassInv, BatchInv
  <2>2. CASE env \in EnvelopesOf(page)
    <3>1. env[1] \in page /\ env = <<env[1], stamp[env[1]]>>
        BY <1>1, <2>2, EnvelopeTypes, InvTypes
    <3>2. env[2] = stamp[env[1]]
        BY <3>1
    <3> QED
        BY <1>1, <3>1, <3>2
  <2> QED
      BY <1>3, <1>5, <2>1, <2>2
<1>6. BatchInv'
  <2>1. phase'[j] # "idle"
      BY <1>3 DEF Fetching
  <2>2. \A i \in Jobs : i = j
      BY DEF OnePass
  <2>3. ASSUME NEW env \in Queued(batch'[j])
        PROVE  table'[env[1]] <= env[2] /\ env[2] <= stamp'[env[1]] /\ env[2] = stamp'[env[1]]
    <3>1. env[2] = stamp[env[1]] /\ stamp[env[1]] \in Nat /\ table[env[1]] <= stamp[env[1]]
        BY <1>5, InvTypes DEF PassInv, RowsInv
    <3> QED
        BY <1>3, <3>1
  <2>4. ASSUME NEW a \in Queued(batch'[j]), NEW b \in Queued(batch'[j]), a[1] = b[1]
        PROVE  a = b
    <3>1. a = <<a[1], a[2]>> /\ b = <<b[1], b[2]>> /\ a[2] = stamp[a[1]] /\ b[2] = stamp[b[1]]
        BY <1>5
    <3> QED
        BY <2>4, <3>1
  <2> QED
      BY <2>1, <2>2, <2>3, <2>4 DEF BatchInv
<1>7. ASSUME NEW c \in Existing, Seen(j, c) \/ c \in page PROVE Seen(j, c)'
  <2>1. CASE Seen(j, c)
      BY <1>3, <2>1 DEF Seen
  <2>2. CASE c \in page
    <3>1. <<c, stamp[c]>> \in EnvelopesOf(page)
        BY <1>1, <2>2, EnvelopeTypes, InvTypes
    <3> QED
        BY <1>3, <3>1 DEF Seen
  <2> QED
      BY <1>7, <2>1, <2>2
<1> QED
    BY <1>3, <1>4, <1>6, <1>7

\* A page of a full fetch leaves no gap behind the place it moves to.
LEMMA FullPageKeeps ==
  ASSUME OnePass, TypeInv, PassInv, NEW j \in Jobs, FetchFullPage(j)
  PROVE  PassInv'
<1> DEFINE left == {c \in Existing : c > after[j]}
           page == PageOf(left, Identity, 0)
           last == Behind(left, Identity, 0) = {}
           place == CHOOSE c \in page : \A d \in page : d <= c
           token == NextCursorFrom(next[j], page)
<1>1. left \in SUBSET Keys /\ left \subseteq Existing /\ page \subseteq left
    BY DEF Existing, PageOf
<1>2. /\ Fetched(j, EnvelopesOf(page), token, last)
      /\ phase[j] = "full"
      /\ after' = [after EXCEPT ![j] = IF last THEN 0 ELSE place]
      /\ UNCHANGED <<instant, stamp, offset>>
    BY DEF FetchFullPage
<1>3. /\ after'[j] = IF last THEN 0 ELSE place
      /\ offset[j] = 0
      /\ next[j] # NoCursor => next[j] <= instant
      /\ \A c \in Existing : c <= after[j] => Seen(j, c)
    BY <1>2, InvTypes DEF PassInv, PlaceInv, Fetching, TypeOK
<1>4. /\ \A c \in left : Position(left, Identity, c) < 0 \/ c \in page
                           \/ c \in Behind(left, Identity, 0)
      /\ \A c \in left : Position(left, Identity, c) \in Nat
    BY <1>1, PageSplits, Positions
<1>5. last => page = left
    BY <1>1, <1>4
<1>6. ~last => place \in page /\ \A c \in left : c <= place => c \in page
    BY <1>1, PageIsPrefix
<1>7. token \in Nat \cup {NoCursor} /\ (token # NoCursor => token <= instant)
  <2>1. \A d \in page : stamp[d] \in 0..instant
      BY <1>1, InvTypes DEF PassInv, RowsInv
  <2> HIDE DEF page
  <2> QED
      BY <1>3, <2>1, InvTypes, NextCursorBound
<1>8. last \in BOOLEAN /\ Fetching(j)
    BY <1>2 DEF Fetching
<1>9. \A i \in Jobs : i = j
    BY DEF OnePass
<1>10. \A c \in Existing : c \in Keys /\ c \in Nat /\ (c \in left <=> ~(c <= after[j]))
  <2>1. \A c \in Existing : c \in Keys /\ c \in Nat
      BY InvTypes DEF Existing
  <2>2. \A c \in Existing : c \in left <=> c > after[j]
      OBVIOUS
  <2>3. after[j] \in Nat
      BY InvTypes
  <2> HIDE DEF left
  <2> QED
      BY <2>1, <2>2, <2>3
<1>11. \A c \in left : c > after[j] /\ c \in Nat
    BY <1>10
<1>12. Existing' = Existing
    BY <1>2 DEF Existing
<1> HIDE DEF left, page, last, place, token
<1>13. /\ RowsInv' /\ CursorInv' /\ BatchInv'
       /\ \A c \in Existing : Seen(j, c) \/ c \in page => Seen(j, c)'
       /\ phase'[j] = IF last THEN "persist" ELSE "full"
       /\ next'[j] = token
       /\ UNCHANGED <<table, cursor, seen>>
  <2>1. page \in SUBSET Existing /\ token \in Nat \cup {NoCursor}
      BY <1>1, <1>7
  <2>2. Fetched(j, EnvelopesOf(page), token, last) /\ UNCHANGED <<instant, stamp>>
      BY <1>2
  <2>3. /\ RowsInv' /\ CursorInv' /\ BatchInv'
        /\ \A c \in Existing : Seen(j, c) \/ c \in page => Seen(j, c)'
        /\ phase'[j] = IF last THEN "persist" ELSE phase[j]
        /\ next'[j] = token
        /\ UNCHANGED <<table, cursor, seen>>
      BY <1>8, <2>1, <2>2, PageKeeps
  <2> QED
      BY <1>2, <2>3
<1>14. ASSUME last PROVE PlaceInv' /\ TokenInv'
  <2>1. \A c \in Existing : Seen(j, c)'
      BY <1>3, <1>5, <1>10, <1>13, <1>14
  <2>2. phase'[j] = "persist" /\ after'[j] = 0 /\ offset'[j] = 0
      BY <1>2, <1>3, <1>13, <1>14
  <2>3. PlaceInv'
      BY <1>9, <2>2 DEF PlaceInv, Fetching
  <2>4. TokenInv'
      BY <1>2, <1>7, <1>9, <1>12, <1>13, <2>1 DEF TokenInv
  <2> QED
      BY <2>3, <2>4
<1>15. ASSUME ~last PROVE PlaceInv' /\ TokenInv'
  <2>1. phase'[j] = "full" /\ after'[j] = place /\ offset'[j] = 0
      BY <1>2, <1>3, <1>13, <1>15
  <2>2. ASSUME NEW c \in Existing, c <= place PROVE Seen(j, c)'
    <3>1. CASE c \in left
        BY <1>6, <1>13, <1>15, <2>2, <3>1
    <3>2. CASE c \notin left
        BY <1>3, <1>10, <1>13, <3>2
    <3> QED
        BY <3>1, <3>2
  <2>3. PlaceInv'
      BY <1>2, <1>7, <1>9, <1>12, <1>13, <2>1, <2>2 DEF PlaceInv
  <2>4. TokenInv'
      BY <1>9, <2>1 DEF TokenInv
  <2> QED
      BY <2>3, <2>4
<1> QED
    BY <1>13, <1>14, <1>15 DEF PassInv

\* Nor does a page of a search; and its last page makes the pass current.
LEMMA IncrementalPageKeeps ==
  ASSUME OnePass, TypeInv, PassInv, NEW j \in Jobs, FetchIncrementalPage(j)
  PROVE  PassInv'
<1> DEFINE hits == ModifiedSince(seen[j])
           page == PageOf(hits, stamp, offset[j])
           last == Behind(hits, stamp, offset[j]) = {}
           newCursor == NextCursorFrom(next[j], page)
           token == IF last /\ newCursor = NoCursor THEN seen[j] ELSE newCursor
<1>1. hits \in SUBSET Keys /\ hits \subseteq Existing /\ page \subseteq hits
    BY DEF Existing, ModifiedSince, PageOf
<1>2. /\ Fetched(j, EnvelopesOf(page), token, last)
      /\ phase[j] = "incremental"
      /\ offset' = [offset EXCEPT ![j] = IF last THEN 0 ELSE offset[j] + PageLimit]
      /\ UNCHANGED <<instant, stamp, after>>
    BY DEF FetchIncrementalPage
<1>3. /\ offset'[j] = IF last THEN 0 ELSE offset[j] + PageLimit
      /\ after[j] = 0
      /\ next[j] # NoCursor => next[j] <= instant
      /\ seen[j] = cursor /\ cursor # NoCursor /\ cursor \in Nat /\ cursor <= instant
      /\ \A c \in hits : Position(hits, stamp, c) < offset[j] => Seen(j, c)
    BY <1>2, InvTypes DEF PassInv, PlaceInv, CursorInv, Fetching, TypeOK
<1>4. /\ \A c \in hits : \/ Position(hits, stamp, c) < offset[j] \/ c \in page
                         \/ c \in Behind(hits, stamp, offset[j])
      /\ \A c \in hits : Position(hits, stamp, c) < offset[j] + PageLimit
                           => Position(hits, stamp, c) < offset[j] \/ c \in page
    BY <1>1, PageSplits, InvTypes
<1>5. newCursor \in Nat \cup {NoCursor} /\ (newCursor # NoCursor => newCursor <= instant)
  <2>1. \A d \in page : stamp[d] \in 0..instant
      BY <1>1, InvTypes DEF PassInv, RowsInv
  <2> HIDE DEF page
  <2> QED
      BY <1>3, <2>1, InvTypes, NextCursorBound
<1>6. token \in Nat \cup {NoCursor} /\ (token # NoCursor => token <= instant)
    BY <1>3, <1>5
<1>7. last \in BOOLEAN /\ Fetching(j)
    BY <1>2 DEF Fetching
<1>8. \A i \in Jobs : i = j
    BY DEF OnePass
\* What the search leaves out is what the cursor claims already.
<1>9. \A c \in Existing : c \in hits \/ table[c] = stamp[c]
    BY <1>3, InvTypes DEF PassInv, CursorInv, ModifiedSince, Existing
<1>10. Existing' = Existing
    BY <1>2 DEF Existing
<1>11. ASSUME seen' = seen
       PROVE  ModifiedSince(seen[j])' = hits
    BY <1>2, <1>11 DEF ModifiedSince, Existing
<1>12. \A c : Position(hits, stamp, c)' = Position(hits', stamp', c)
    BY DEF Position
<1>13. ASSUME ~last PROVE token = newCursor
    BY <1>13
<1>14. last => Behind(hits, stamp, offset[j]) = {}
    OBVIOUS
<1> HIDE DEF page, last, newCursor, token
<1>15. /\ RowsInv' /\ CursorInv' /\ BatchInv'
       /\ \A c \in Existing : Seen(j, c) \/ c \in page => Seen(j, c)'
       /\ phase'[j] = IF last THEN "persist" ELSE "incremental"
       /\ next'[j] = token
       /\ UNCHANGED <<table, cursor, seen>>
    BY <1>1, <1>2, <1>6, <1>7, PageKeeps
<1>16. hits' = hits
    BY <1>11, <1>15
<1>17. \A c \in hits : Position(hits, stamp, c)' = Position(hits, stamp, c)
    BY <1>2, <1>12, <1>16
<1>18. hits = ModifiedSince(seen[j]) /\ hits' = ModifiedSince(seen[j])'
    OBVIOUS
<1> HIDE DEF hits
<1>19. ASSUME last PROVE PlaceInv' /\ TokenInv'
  <2>1. \A c \in hits : Seen(j, c)'
      BY <1>1, <1>3, <1>4, <1>14, <1>15, <1>19
  <2>2. \A c \in Existing : Seen(j, c)'
      BY <1>9, <1>15, <2>1 DEF Seen
  <2>3. phase'[j] = "persist" /\ after'[j] = 0 /\ offset'[j] = 0
      BY <1>2, <1>3, <1>15, <1>19
  <2>4. PlaceInv'
      BY <1>8, <2>3 DEF PlaceInv, Fetching
  <2>5. TokenInv'
      BY <1>2, <1>6, <1>8, <1>10, <1>15, <2>2 DEF TokenInv
  <2> QED
      BY <2>4, <2>5
<1>20. ASSUME ~last PROVE PlaceInv' /\ TokenInv'
  <2>1. phase'[j] = "incremental" /\ after'[j] = 0 /\ offset'[j] = offset[j] + PageLimit
      BY <1>2, <1>3, <1>15, <1>20
  <2>2. \A c \in hits : Position(hits, stamp, c) < offset'[j] => Seen(j, c)'
      BY <1>1, <1>3, <1>4, <1>15, <2>1
  <2>3. \A c \in ModifiedSince(seen[j])' :
           Position(ModifiedSince(seen[j]), stamp, c)' < offset'[j] => Seen(j, c)'
      BY <1>16, <1>17, <1>18, <2>2
  <2>4. PlaceInv'
      BY <1>2, <1>3, <1>6, <1>8, <1>15, <2>1, <2>3 DEF PlaceInv
  <2>5. TokenInv'
      BY <1>8, <2>1 DEF TokenInv
  <2> QED
      BY <2>4, <2>5
<1> QED
    BY <1>15, <1>19, <1>20 DEF PassInv

\* A rejected search, a failure and the end of a pass drop what was fetched.
LEMMA DropKeeps ==
  ASSUME OnePass, TypeInv, PassInv, NEW j \in Jobs,
         FallBack(j) \/ Fail(j), DropPages(j), UNCHANGED <<instant, stamp>>
  PROVE  PassInv'
<1>1. /\ batch'[j] = <<>> /\ Queued(batch'[j]) = {}
      /\ phase'[j] \in {"full", "idle"}
      /\ phase'[j] = "full" => next'[j] = NoCursor
      /\ UNCHANGED <<table, cursor, seen>>
    BY DropTypes, InvTypes
<1>2. after'[j] = 0 /\ offset'[j] = 0
    BY InvTypes DEF DropPages, TypeOK
<1>3. \A i \in Jobs : i = j
    BY DEF OnePass
<1>4. RowsInv' /\ CursorInv'
    BY <1>1 DEF PassInv, RowsInv, CursorInv, Existing
<1>5. BatchInv'
    BY <1>1, <1>3 DEF BatchInv
<1>6. \A c \in Existing' : ~(c <= 0)
    BY Constants DEF Existing
<1>7. PlaceInv'
    BY <1>1, <1>2, <1>3, <1>6 DEF PlaceInv, Fetching
<1>8. TokenInv'
    BY <1>1, <1>3 DEF TokenInv
<1> QED
    BY <1>4, <1>5, <1>7, <1>8 DEF PassInv

\* A pass that ends early has claimed nothing.
LEMMA PassBreaksKeeps ==
  ASSUME OnePass, TypeInv, PassInv, NEW j \in Jobs, PassBreaks(j)
  PROVE  PassInv'
BY DropKeeps DEF PassBreaks

\* An attempt that is repeated has changed nothing.
LEMMA HiccupKeeps ==
  ASSUME OnePass, TypeInv, PassInv, NEW j \in Jobs, Hiccup(j)
  PROVE  PassInv'
<1>1. CASE GivesUp(attempt[j] + 1)
  <2>1. Fail(j) /\ UNCHANGED <<instant, stamp>>
      BY <1>1 DEF Hiccup, TransientError
  <2>2. phase'[j] = "idle"
      BY <2>1, InvTypes DEF Fail, PassTypeOK
  <2>3. DropPages(j)
      BY <2>2 DEF Hiccup
  <2> QED
      BY <2>1, <2>3, DropKeeps
<1>2. CASE ~GivesUp(attempt[j] + 1)
  <2>1. UNCHANGED <<passVars, instant, stamp>> /\ phase[j] \in {"full", "incremental"}
      BY <1>2 DEF Hiccup, TransientError
  <2>2. UNCHANGED placeVars
      BY <2>1 DEF Hiccup, passVars
  <2> QED
      BY <2>1, <2>2, RestKeeps DEF passVars, placeVars
<1> QED
    BY <1>1, <1>2

\* A pass begins with nothing fetched.
LEMMA BeginKeeps ==
  ASSUME OnePass, TypeInv, PassInv, NEW j \in Jobs,
         Begin(j), UNCHANGED <<instant, stamp, placeVars>>
  PROVE  PassInv'
<1>1. /\ phase[j] = "idle" /\ batch' = batch
      /\ phase'[j] \in {"full", "incremental"}
      /\ phase'[j] = "incremental" => cursor # NoCursor
      /\ seen'[j] = cursor /\ next'[j] = NoCursor
      /\ UNCHANGED <<table, cursor, instant, stamp, after, offset>>
    BY BeginTypes, InvTypes DEF placeVars
<1>2. /\ batch[j] = <<>> /\ Queued(batch'[j]) = {}
      /\ after[j] = 0 /\ offset[j] = 0
    BY <1>1, QueuedEmpty DEF PassInv, BatchInv, PlaceInv
<1>3. \A i \in Jobs : i = j
    BY DEF OnePass
<1>4. RowsInv' /\ CursorInv'
    BY <1>1 DEF PassInv, RowsInv, CursorInv, Existing
<1>5. BatchInv'
    BY <1>1, <1>2, <1>3 DEF BatchInv
<1>6. PlaceInv'
  <2>1. \A c \in Existing' : ~(c <= 0)
      BY Constants DEF Existing
  <2>2. \A c \in ModifiedSince(seen[j])' : ~(Position(ModifiedSince(seen[j]), stamp, c)' < 0)
    <3>1. ModifiedSince(seen[j])' \in SUBSET Keys
        BY DEF ModifiedSince, Existing
    <3>2. \A c : Position(ModifiedSince(seen[j])', stamp', c) \in Nat
        BY <3>1, Positions
    <3>3. \A c : Position(ModifiedSince(seen[j]), stamp, c)'
                   = Position(ModifiedSince(seen[j])', stamp', c)
        BY DEF Position
    <3>4. \A n \in Nat : ~(n < 0)
        OBVIOUS
    <3> QED
        BY <3>2, <3>3, <3>4
  <2> QED
      BY <1>1, <1>2, <1>3, <2>1, <2>2 DEF PlaceInv
<1>7. TokenInv'
    BY <1>1, <1>3 DEF TokenInv
<1> QED
    BY <1>4, <1>5, <1>6, <1>7 DEF PassInv

\* An envelope moves into its row, ahead of what the row held.
LEMMA PersistKeeps ==
  ASSUME OnePass, TypeInv, PassInv, NEW j \in Jobs,
         PersistOne(j), UNCHANGED <<instant, stamp, placeVars>>
  PROVE  /\ PassInv'
         /\ \E k \in Keys : /\ table[k] <= table'[k] /\ table'[k] <= stamp[k]
                            /\ table' = [table EXCEPT ![k] = table'[k]]
<1>1. PICK env \in Queued(batch[j]) :
         /\ env[1] \in Keys /\ env[2] \in Nat /\ env = <<env[1], env[2]>>
         /\ table' = [table EXCEPT ![env[1]] = env[2]]
         /\ table'[env[1]] = env[2]
         /\ \A d \in Keys : d # env[1] => table'[d] = table[d]
         /\ Queued(batch'[j]) \subseteq Queued(batch[j])
         /\ Queued(batch[j]) \subseteq Queued(batch'[j]) \cup {env}
    BY PersistTypes, InvTypes
<1>2. /\ phase[j] = "persist" /\ phase'[j] = "audit"
      /\ UNCHANGED <<cursor, seen, next, instant, stamp, after, offset>>
    BY PersistTypes, InvTypes DEF placeVars
<1>3. /\ env[1] \in Keys /\ env[2] \in Nat /\ env = <<env[1], env[2]>>
      /\ table'[env[1]] = env[2]
      /\ \A d \in Keys : d # env[1] => table'[d] = table[d]
      /\ Queued(batch'[j]) \subseteq Queued(batch[j])
      /\ Queued(batch[j]) \subseteq Queued(batch'[j]) \cup {env}
    BY <1>1
<1>4. \A d \in Keys : table[d] \in Nat /\ stamp[d] \in Nat
    BY InvTypes
<1>5. table[env[1]] <= env[2] /\ env[2] <= stamp[env[1]]
    BY DEF PassInv, BatchInv
<1>6. \A i \in Jobs : i = j
    BY DEF OnePass
\* A row that is up to date stays so.
<1>7. \A d \in Keys : table[d] = stamp[d] => table'[d] = stamp[d]
    BY <1>3, <1>4, <1>5
<1>8. RowsInv'
    BY <1>2, <1>3, <1>4, <1>5 DEF PassInv, RowsInv
<1>9. CursorInv'
    BY <1>2, <1>7 DEF PassInv, CursorInv, Existing
<1>10. ASSUME NEW d \in Keys, Seen(j, d) PROVE Seen(j, d)'
  <2>1. CASE table[d] = stamp[d]
      BY <1>2, <1>7, <2>1 DEF Seen
  <2>2. CASE <<d, stamp[d]>> \in Queued(batch[j])
    <3>1. CASE <<d, stamp[d]>> = env
        BY <1>2, <1>3, <3>1 DEF Seen
    <3>2. CASE <<d, stamp[d]>> # env
        BY <1>2, <1>3, <2>2, <3>2 DEF Seen
    <3> QED
        BY <3>1, <3>2
  <2> QED
      BY <1>10, <2>1, <2>2 DEF Seen
<1>11. BatchInv'
  <2>1. ASSUME NEW other \in Queued(batch'[j])
        PROVE  table'[other[1]] <= other[2] /\ other[2] <= stamp'[other[1]]
    <3>1. /\ other \in Queued(batch[j]) /\ other[1] \in Keys /\ other[2] \in Nat
          /\ table[other[1]] <= other[2] /\ other[2] <= stamp[other[1]]
        BY <1>3, <2>1, QueuedTypes, InvTypes DEF PassInv, BatchInv
    <3>2. CASE other[1] = env[1]
      <4>1. other = env
          BY <3>1, <3>2 DEF PassInv, BatchInv
      <4> QED
          BY <1>2, <1>3, <1>4, <1>5, <4>1
    <3>3. CASE other[1] # env[1]
        BY <1>2, <1>3, <3>1, <3>3
    <3> QED
        BY <3>2, <3>3
  <2>2. \A a, b \in Queued(batch'[j]) : a[1] = b[1] => a = b
      BY <1>3 DEF PassInv, BatchInv
  <2> QED
      BY <1>2, <1>6, <2>1, <2>2 DEF BatchInv, Fetching
<1>12. PlaceInv'
    BY <1>2, <1>6 DEF PassInv, PlaceInv, Fetching
<1>13. TokenInv'
    BY <1>2, <1>6, <1>10 DEF PassInv, TokenInv, Existing
<1>14. PassInv'
    BY <1>8, <1>9, <1>11, <1>12, <1>13 DEF PassInv
<1>15. table[env[1]] <= table'[env[1]] /\ table'[env[1]] <= stamp[env[1]]
    BY <1>3, <1>5
<1>16. table' = [table EXCEPT ![env[1]] = table'[env[1]]]
    BY <1>1
<1> QED
    BY <1>3, <1>14, <1>15, <1>16

\* An audit entry changes neither rows nor envelopes.
LEMMA AuditKeeps ==
  ASSUME OnePass, TypeInv, PassInv, NEW j \in Jobs,
         AuditOne(j), UNCHANGED <<instant, stamp, placeVars>>
  PROVE  PassInv'
<1>1. /\ phase[j] = "audit" /\ phase'[j] = "persist"
      /\ UNCHANGED <<table, cursor, seen, batch, next, instant, stamp, after, offset>>
    BY AuditTypes, InvTypes DEF placeVars
<1>2. \A i \in Jobs : i = j
    BY DEF OnePass
<1>3. \A d \in Keys : Seen(j, d)' <=> Seen(j, d)
    BY <1>1 DEF Seen
<1>4. RowsInv' /\ CursorInv'
    BY <1>1 DEF PassInv, RowsInv, CursorInv, Existing
<1>5. BatchInv' /\ PlaceInv'
    BY <1>1, <1>2 DEF PassInv, BatchInv, PlaceInv, Fetching
<1>6. TokenInv'
    BY <1>1, <1>2, <1>3 DEF PassInv, TokenInv, Existing
<1> QED
    BY <1>4, <1>5, <1>6 DEF PassInv

\* With nothing left to persist, what the pass has seen is in the table.
LEMMA SaveKeeps ==
  ASSUME OnePass, TypeInv, PassInv, NEW j \in Jobs,
         SaveCursor(j), UNCHANGED <<instant, stamp, placeVars>>
  PROVE  PassInv'
<1>1. /\ phase[j] = "persist" /\ batch[j] = <<>> /\ phase'[j] = "idle"
      /\ Queued(batch[j]) = {} /\ cursor' = next[j]
      /\ UNCHANGED <<table, seen, batch, next, instant, stamp, after, offset>>
    BY SaveTypes, InvTypes DEF placeVars
<1>2. \A i \in Jobs : i = j
    BY DEF OnePass
<1>3. \A c \in Existing : Seen(j, c) => table[c] = stamp[c]
    BY <1>1 DEF Seen
<1>4. CursorInv'
    BY <1>1, <1>3 DEF PassInv, TokenInv, CursorInv, Existing
<1>5. RowsInv'
    BY <1>1 DEF PassInv, RowsInv
<1>6. BatchInv' /\ PlaceInv' /\ TokenInv'
    BY <1>1, <1>2 DEF PassInv, BatchInv, PlaceInv, TokenInv, Fetching
<1> QED
    BY <1>4, <1>5, <1>6 DEF PassInv

----------------------------------------------------------------------------
\* The theorems

LEMMA PassStepKeeps ==
  ASSUME OnePass, TypeInv, PassInv, NEW j \in Jobs, PassStep(j)
  PROVE  PassInv'
BY BeginKeeps, PersistKeeps, AuditKeeps, SaveKeeps DEF PassStep, PersistBatch

LEMMA PassInvStep ==
  ASSUME OnePass, Quiet
  PROVE  TypeInv /\ PassInv /\ [Next]_vars => PassInv'
<1> SUFFICES ASSUME TypeInv, PassInv, [Next]_vars PROVE PassInv'
    OBVIOUS
<1>1. ASSUME NEW j \in Jobs, FetchStep(j) PROVE PassInv'
    BY <1>1, FullPageKeeps, IncrementalPageKeeps DEF FetchStep
<1>2. CASE UNCHANGED vars
    BY <1>2, RestKeeps DEF vars, passVars, placeVars
<1> QED
    BY <1>1, <1>2, ChangeKeeps, PassStepKeeps, HiccupKeeps, PassBreaksKeeps DEF Next

LEMMA PassInvHolds == ASSUME OnePass, Quiet PROVE Spec => []PassInv
<1>1. Init => PassInv
  <2> SUFFICES ASSUME Init PROVE PassInv
      OBVIOUS
  <2> USE Constants, QueuedEmpty DEF Init, PassInit
  <2>1. RowsInv /\ CursorInv
      BY DEF RowsInv, CursorInv
  <2>2. BatchInv /\ TokenInv
      BY DEF BatchInv, TokenInv
  <2>3. PlaceInv
      BY DEF PlaceInv, Fetching
  <2> QED
      BY <2>1, <2>2, <2>3 DEF PassInv
<1> QED
    BY <1>1, PassInvStep, TypeHolds, PTL DEF Spec

\* One pass at a time, and no change while a fetch is paging: what the cursor claims is
\* in the table, so the next search misses nothing by starting behind it.
THEOREM CursorCovers == ASSUME OnePass, Quiet PROVE Spec => []CursorCoversTable
<1>1. PassInv => CursorCoversTable
    BY DEF PassInv, CursorInv, CursorCoversTable
<1> QED
    BY <1>1, PassInvHolds, PTL

\* Under the same assumptions the passes implement Mirror: whatever is rejected or fails
\* half-way, rows only go forward along the versions their contacts have had.
THEOREM ImplementsMirror == ASSUME OnePass, Quiet PROVE Spec => MirrorSpec
<1> DEFINE Claimed == {c \in Existing : cursor # NoCursor /\ stamp[c] <= cursor}
           Mapped == Promise!Next \/ UNCHANGED <<stamp, table, Claimed>>
<1>1. Init => Promise!Init
    BY Constants DEF Init, PassInit, Promise!Init, Existing
<1>2. TypeInv /\ PassInv /\ TypeInv' /\ PassInv' /\ [Next]_vars
        => [Promise!Next]_(Promise!vars)
  <2> SUFFICES ASSUME TypeInv, PassInv, TypeInv', PassInv', [Next]_vars PROVE Mapped
      BY DEF Promise!vars
  <2> DEFINE Still == UNCHANGED <<stamp, table, cursor>>
  <2>1. ASSUME Still PROVE Mapped
      BY <2>1 DEF Existing
  <2>2. ASSUME NEW c \in Keys, Change(c) PROVE Mapped
    <3>1. /\ stamp' = [stamp EXCEPT ![c] = instant + 1]
          /\ UNCHANGED <<table, cursor>>
        BY <2>2 DEF Change, passVars
    <3>2. /\ instant \in Nat /\ stamp[c] \in Nat /\ stamp[c] <= instant
          /\ stamp'[c] = instant + 1
          /\ \A d \in Keys : d # c => stamp'[d] = stamp[d]
          /\ cursor # NoCursor => cursor \in Nat /\ cursor <= instant
        BY <3>1, InvTypes DEF TypeOK, PassInv, RowsInv, CursorInv
    <3>3. stamp[c] < stamp'[c]
        BY <3>2
    <3>4. Claimed' = Claimed \ {c}
        BY <3>1, <3>2 DEF Existing
    <3>5. Promise!Change(c)
        BY <3>1, <3>2, <3>3, <3>4 DEF Promise!Change
    <3> QED
        BY <3>5 DEF Promise!Next
  <2>3. ASSUME NEW j \in Jobs, PersistOne(j), UNCHANGED <<instant, stamp, placeVars>>
        PROVE  Mapped
    <3>1. PICK k \in Keys : /\ table[k] <= table'[k] /\ table'[k] <= stamp[k]
                            /\ table' = [table EXCEPT ![k] = table'[k]]
        BY <2>3, PersistKeeps
    <3>2. UNCHANGED <<stamp, cursor, Claimed>>
        BY <2>3 DEF PersistOne, Existing
    <3>3. table \in [Keys -> Nat] /\ table' \in [Keys -> Nat]
        BY InvTypes DEF TypeInv, TypeOK, PassTypeOK
    <3>4. CASE table[k] = table'[k]
      <4>1. \A d \in Keys : table'[d] = table[d]
          BY <3>1, <3>3, <3>4
      <4>2. table = [d \in Keys |-> table[d]] /\ table' = [d \in Keys |-> table'[d]]
          BY <3>3
      <4>3. [d \in Keys |-> table[d]] = [d \in Keys |-> table'[d]]
          BY <4>1
      <4> QED
          BY <3>2, <4>2, <4>3
    <3>5. CASE table[k] # table'[k]
      <4>1. table[k] < table'[k]
          BY <3>1, <3>3, <3>5
      <4>2. Promise!Write(k)
          BY <3>1, <3>2, <4>1 DEF Promise!Write
      <4> QED
          BY <4>2 DEF Promise!Next
    <3> QED
        BY <3>4, <3>5
  <2>4. ASSUME NEW j \in Jobs, SaveCursor(j), UNCHANGED <<instant, stamp>> PROVE Mapped
    <3>1. UNCHANGED <<stamp, table>>
        BY <2>4 DEF SaveCursor
    <3>2. Claimed' \subseteq {k \in Keys : table[k] = stamp[k]}
        BY <3>1 DEF PassInv, CursorInv, Existing
    <3>3. Promise!Claim
        BY <3>1, <3>2 DEF Promise!Claim, Promise!InStep
    <3> QED
        BY <3>3 DEF Promise!Next
  <2>5. ASSUME NEW j \in Jobs, FetchStep(j) PROVE Still
      BY <2>5 DEF FetchStep, FetchFullPage, FetchIncrementalPage, Fetched
  <2>6. ASSUME NEW j \in Jobs, Hiccup(j) \/ PassBreaks(j) PROVE Still
      BY <2>6 DEF Hiccup, TransientError, PassBreaks, FallBack, Fail, passVars
  <2>7. ASSUME NEW j \in Jobs, PassStep(j) PROVE Mapped
    <3>1. UNCHANGED <<instant, stamp, placeVars>>
        BY <2>7 DEF PassStep
    <3>2. Begin(j) \/ AuditOne(j) => Still
        BY <3>1 DEF Begin, AuditOne
    <3> QED
        BY <2>1, <2>3, <2>4, <2>7, <3>1, <3>2 DEF PassStep, PersistBatch
  <2>8. CASE UNCHANGED vars
      BY <2>1, <2>8 DEF vars, passVars
  <2> HIDE DEF Mapped, Still
  <2> QED
      BY <2>1, <2>2, <2>5, <2>6, <2>7, <2>8 DEF Next
<1> QED
    BY <1>1, <1>2, TypeHolds, PassInvHolds, PTL DEF Spec, MirrorSpec, Promise!Spec
=============================================================================
