-------------------------- MODULE StripeSyncProofs --------------------------
(***************************************************************************)
(* What the passes over Stripe keep, proved for any PaymentIntents, page   *)
(* sizes and number of events, one pass at a time.                         *)
(*                                                                         *)
(* Two invariants: WriteInv says what the passes write; CoverInv says what *)
(* the cursor may claim and rests on the assumptions the runs              *)
(* StripeSync_page and StripeSync_late drop one of.  Both are about the    *)
(* events of the types the client asks for (Listed); about changes of      *)
(* another type neither claims anything, as a pass may undo them.          *)
(***************************************************************************)
EXTENDS StripeSync, RunnerPassProofs

\* The assumptions about the constants.
LEMMA Constants ==
    /\ NoCursor \notin Nat
    /\ MaxFailures \in Nat /\ MaxEvents \in Nat /\ MaxSecond \in Nat \ {0}
    /\ ListLimit \in Nat \ {0} /\ EventLimit \in Nat \ {0}
BY CursorAssumption, FailureAssumption, BoundAssumption, LimitAssumption

TypeInv == TypeOK /\ Len(log) <= MaxEvents

----------------------------------------------------------------------------
\* Pages

\* A finite set of numbers has a least and a greatest member.
LEMMA Leasts ==
  ASSUME NEW S \in SUBSET Nat, IsFiniteSet(S), S # {}
  PROVE  /\ Least(S) \in S /\ \A n \in S : Least(S) <= n
         /\ Greatest(S) \in S /\ \A n \in S : n <= Greatest(S)
<1>1. \E n \in S : \A m \in S : n <= m
    BY NatLeast
<1>2. \E n \in S : \A m \in S : n >= m
  <2>1. PICK n \in S : \A m \in S : m <= n
      BY NatGreatest
  <2>2. \A m \in S : n >= m
      BY <2>1
  <2> QED
      BY <2>2
<1>3. Least(S) \in S /\ \A n \in S : Least(S) <= n
    BY <1>1 DEF Least
<1>4. Greatest(S) \in S /\ \A n \in S : Greatest(S) >= n
    BY <1>2 DEF Greatest
<1>5. \A n \in S : n <= Greatest(S)
    BY <1>4
<1> QED
    BY <1>3, <1>4, <1>5

\* A page takes the greatest members; with a limit of at least their number, all of them.
LEMMA PageFacts ==
  ASSUME NEW S \in SUBSET Nat, IsFiniteSet(S), NEW limit \in Nat \ {0}
  PROVE  /\ Page(S, limit) \subseteq S
         /\ \A n \in Page(S, limit), m \in S : n <= m => m \in Page(S, limit)
         /\ S # {} => Page(S, limit) # {}
         /\ Cardinality(S) <= limit => Page(S, limit) = S
<1> DEFINE Above(n) == {m \in S : m > n}
<1>1. \A n \in S : IsFiniteSet(Above(n)) /\ Cardinality(Above(n)) \in Nat
    BY FS_Subset, FS_CardinalityType
<1>2. Page(S, limit) = {n \in S : Cardinality(Above(n)) < limit}
    BY DEF Page
<1>3. ASSUME NEW n \in Page(S, limit), NEW m \in S, n <= m PROVE m \in Page(S, limit)
  <2>1. n \in S /\ Cardinality(Above(n)) < limit
      BY <1>2
  <2>2. Above(m) \in SUBSET Above(n)
    <3>1. \A k \in S : k > m => k > n
        BY <1>3, <2>1
    <3> QED
        BY <3>1
  <2>3. Cardinality(Above(m)) <= Cardinality(Above(n))
    <3>1. IsFiniteSet(Above(n))
        BY <1>1, <2>1
    <3> HIDE DEF Above
    <3> QED
        BY <2>2, <3>1, FS_Subset
  <2>4. Cardinality(Above(m)) \in Nat /\ Cardinality(Above(n)) \in Nat
      BY <1>1, <2>1
  <2> HIDE DEF Above
  <2>5. Cardinality(Above(m)) < limit
      BY <2>1, <2>3, <2>4
  <2> QED
      BY <1>2, <2>5
<1>4. ASSUME S # {} PROVE Page(S, limit) # {}
  <2>1. PICK n \in S : \A m \in S : m <= n
      BY <1>4, NatGreatest
  <2>2. Above(n) = {}
    <3>1. \A m \in S : ~(m > n)
        BY <2>1
    <3> QED
        BY <3>1
  <2>3. Cardinality(Above(n)) = 0
      BY <2>2, FS_EmptySet
  <2>4. Cardinality(Above(n)) < limit
      BY <2>3
  <2> HIDE DEF Above
  <2>5. n \in Page(S, limit)
      BY <1>2, <2>4
  <2> QED
      BY <2>5
<1>5. ASSUME Cardinality(S) <= limit, NEW n \in S PROVE n \in Page(S, limit)
  <2>1. Above(n) \in SUBSET (S \ {n})
    <3>1. \A m \in S : m > n => m # n
        BY <1>5
    <3> QED
        BY <3>1
  <2>2. IsFiniteSet(S \ {n}) /\ Cardinality(S \ {n}) = Cardinality(S) - 1
      BY <1>5, FS_RemoveElement
  <2>3. Cardinality(Above(n)) <= Cardinality(S \ {n})
    <3> HIDE DEF Above
    <3> QED
        BY <2>1, <2>2, FS_Subset
  <2>4. Cardinality(Above(n)) \in Nat /\ Cardinality(S) \in Nat
      BY <1>1, <1>5, FS_CardinalityType
  <2> HIDE DEF Above
  <2>5. Cardinality(Above(n)) < limit
      BY <1>5, <2>2, <2>3, <2>4
  <2> QED
      BY <1>2, <1>5, <2>5
<1> QED
    BY <1>2, <1>3, <1>4, <1>5

----------------------------------------------------------------------------
\* The log

\* The events are finitely many, each of a PaymentIntent and a second.
LEMMA LogFacts ==
  ASSUME TypeInv
  PROVE  /\ PassTypeOK /\ Len(log) \in Nat /\ clock \in Nat /\ expired \in Nat
         /\ Indices \subseteq 1..MaxEvents /\ Indices \in SUBSET Nat /\ IsFiniteSet(Indices)
         /\ Cardinality(Indices) <= MaxEvents
         /\ \A n \in Indices : /\ log[n].obj \in Keys /\ log[n].at \in Nat
                               /\ n \in Of(log[n].obj) /\ n # 0
         /\ Listed \subseteq Indices
<1>1. /\ PassTypeOK /\ log \in Seq(Event)
      /\ clock \in 1..MaxSecond /\ expired \in 0..Len(log) /\ Len(log) <= MaxEvents
    BY DEF TypeInv, TypeOK
<1>2. Len(log) \in Nat
    BY <1>1
<1>3. Indices \subseteq 1..MaxEvents
    BY <1>1, <1>2, Constants DEF Indices
<1>4. IsFiniteSet(1..MaxEvents) /\ Cardinality(1..MaxEvents) = MaxEvents
    BY Constants, FS_Interval
<1>5. IsFiniteSet(Indices) /\ Cardinality(Indices) <= MaxEvents
    BY <1>3, <1>4, FS_Subset
<1>6. ASSUME NEW n \in Indices
      PROVE  log[n].obj \in Keys /\ log[n].at \in Nat /\ n \in Of(log[n].obj) /\ n # 0
  <2>1. log[n] \in Event
    <3>1. n \in 1..Len(log) /\ log \in Seq(Event)
        BY <1>1 DEF Indices
    <3> QED
        BY <3>1
  <2>2. log[n].obj \in Keys /\ log[n].at \in 1..MaxSecond
      BY <2>1 DEF Event
  <2> QED
      BY <1>3, <2>2, Constants DEF Of
<1>7. clock \in Nat /\ expired \in Nat
    BY <1>1, <1>2, Constants
<1>8. Indices \in SUBSET Nat
    BY <1>3
<1>9. Listed \subseteq Indices
    BY DEF Listed
<1> QED
    BY <1>1, <1>2, <1>3, <1>5, <1>6, <1>7, <1>8, <1>9

\* The events of a PaymentIntent that exists.
LEMMA ObjectFacts ==
  ASSUME TypeInv, NEW p, Of(p) # {}
  PROVE  /\ Of(p) \subseteq Indices /\ p \in Keys /\ p \in Existing
         /\ Born(p) \in Of(p) /\ Latest(p) \in Of(p)
         /\ Born(p) \in Nat /\ Latest(p) \in Nat
         /\ log[Born(p)].obj = p /\ log[Latest(p)].obj = p
         /\ \A n \in Of(p) : n \in Nat /\ Born(p) <= n /\ n <= Latest(p)
<1>1. Of(p) \subseteq Indices /\ \A n \in Of(p) : log[n].obj = p
    BY DEF Of
<1>2. IsFiniteSet(Of(p)) /\ Of(p) \in SUBSET Nat
    BY <1>1, LogFacts, FS_Subset
<1>3. p \in Keys
    BY <1>1, LogFacts
<1>4. /\ Born(p) \in Of(p) /\ Latest(p) \in Of(p)
      /\ \A n \in Of(p) : Born(p) <= n /\ n <= Latest(p)
    BY <1>2, Leasts DEF Born, Latest
<1> QED
    BY <1>1, <1>2, <1>3, <1>4 DEF Existing

\* A change of p adds an event and leaves the earlier ones as they are.
LEMMA AppendFacts ==
  ASSUME TypeInv, NEW p \in Keys, Change(p)
  PROVE  LET new == Len(log) + 1 IN
         /\ new \in Nat /\ new <= MaxEvents /\ Len(log') = new
         /\ log' \in Seq(Event)
         /\ Indices' = Indices \cup {new} /\ new \notin Indices
         /\ \A n \in Indices : n < new /\ log'[n] = log[n]
         /\ log'[new].obj = p /\ log'[new].at = clock
         /\ Of(p)' = Of(p) \cup {new}
         /\ \A q : q # p => Of(q)' = Of(q)
         /\ Listed \subseteq Listed' /\ Listed' \subseteq Listed \cup {new}
<1> DEFINE new == Len(log) + 1
<1>0. PICK listed \in BOOLEAN : log' = Append(log, [obj |-> p, at |-> clock, listed |-> listed])
    BY DEF Change
<1> DEFINE entry == [obj |-> p, at |-> clock, listed |-> listed]
<1>1. /\ log \in Seq(Event) /\ Len(log) \in Nat
      /\ entry \in Event /\ Len(log) < MaxEvents
      /\ log' = Append(log, entry)
      /\ entry.obj = p /\ entry.at = clock
    BY <1>0, LogFacts DEF Change, TypeInv, TypeOK, Event
<1> HIDE DEF entry
<1>2. /\ log' \in Seq(Event) /\ Len(log') = new
      /\ log'[new] = entry
      /\ \A n \in 1..Len(log) : log'[n] = log[n]
    BY <1>1
<1>3. Indices' = Indices \cup {new} /\ new \notin Indices /\ \A n \in Indices : n < new
    BY <1>1, <1>2 DEF Indices
<1>4. \A n \in Indices : log'[n] = log[n]
    BY <1>2 DEF Indices
<1>5. Of(p)' = Of(p) \cup {new} /\ \A q : q # p => Of(q)' = Of(q)
    BY <1>1, <1>2, <1>3, <1>4 DEF Of
<1>6. new \in Nat /\ new <= MaxEvents
    BY <1>1, Constants
<1>7. Listed \subseteq Listed' /\ Listed' \subseteq Listed \cup {new}
    BY <1>3, <1>4 DEF Listed
<1> QED
    BY <1>1, <1>2, <1>3, <1>4, <1>5, <1>6, <1>7

----------------------------------------------------------------------------
\* Types

\* The envelope of an event holds its PaymentIntent and its index.
LEMMA EnvelopeTypes ==
  ASSUME TypeInv, NEW S \in SUBSET Indices
  PROVE  /\ EnvelopesOf(S) \in SUBSET Envelopes
         /\ \A env \in EnvelopesOf(S) :
              /\ env[2] \in S /\ env[1] = log[env[2]].obj /\ env = <<env[1], env[2]>>
         /\ \A n \in S : <<log[n].obj, n>> \in EnvelopesOf(S)
<1>1. ASSUME NEW env \in EnvelopesOf(S)
      PROVE  env[2] \in S /\ env[1] = log[env[2]].obj /\ env = <<env[1], env[2]>>
  <2>1. PICK n \in S : env = <<log[n].obj, n>>
      BY <1>1 DEF EnvelopesOf
  <2> QED
      BY <2>1
<1>2. \A env \in EnvelopesOf(S) : env \in Envelopes
    BY <1>1, LogFacts DEF Envelopes
<1>3. \A n \in S : <<log[n].obj, n>> \in EnvelopesOf(S)
    BY DEF EnvelopesOf
<1> QED
    BY <1>1, <1>2, <1>3

\* A page of the full list: the PaymentIntents that come next, in their current state.
Left(j) == {Born(p) : p \in {q \in Existing : Born(q) < after[j]}}

Snapshots(page) == {Latest(log[n].obj) : n \in page}

\* What a page of the full list holds.
LEMMA FullPage ==
  ASSUME TypeInv, NEW j \in Jobs,
         NEW left, left = Left(j),
         NEW page, page = Page(left, ListLimit),
         NEW S, S = Snapshots(page)
  PROVE  /\ left \in SUBSET Nat /\ left \subseteq Indices /\ page \subseteq left
         /\ \A n \in left : n = Born(log[n].obj) /\ n < after[j]
         /\ \A p \in Existing : Born(p) < after[j] => Born(p) \in left
         /\ page # left => /\ Least(page) \in page /\ page # {}
                           /\ \A n \in page : Least(page) <= n
                           /\ \A n \in left : n \in page \/ n < Least(page)
         /\ page # {} => Greatest(page) \in Indices
         /\ S \in SUBSET Indices
         /\ \A n \in S : /\ n = Latest(log[n].obj) /\ Born(log[n].obj) \in page
         /\ \A p \in Existing : Born(p) \in page => Latest(p) \in S
<1>1. \A p \in Existing : Of(p) # {}
    BY DEF Existing
<1>2. ASSUME NEW n \in left
      PROVE  n \in Indices /\ n = Born(log[n].obj) /\ n < after[j]
  <2>1. PICK p \in Existing : n = Born(p) /\ Born(p) < after[j]
      BY <1>2 DEF Left
  <2> QED
      BY <1>1, <2>1, ObjectFacts
<1>3. left \in SUBSET Nat /\ left \subseteq Indices /\ IsFiniteSet(left)
    BY <1>2, LogFacts, FS_Subset
<1>4. /\ page \subseteq left
      /\ \A n \in page, m \in left : n <= m => m \in page
      /\ left # {} => page # {}
    BY <1>3, Constants, PageFacts
<1>5. IsFiniteSet(page) /\ page \in SUBSET Nat
    BY <1>3, <1>4, FS_Subset
<1>6. page # {} => /\ Least(page) \in page /\ \A n \in page : Least(page) <= n
                   /\ Greatest(page) \in page
    BY <1>5, Leasts
<1>7. ASSUME page # left
      PROVE  /\ Least(page) \in page /\ page # {}
             /\ \A n \in page : Least(page) <= n
             /\ \A n \in left : n \in page \/ n < Least(page)
  <2>1. page # {}
      BY <1>4, <1>7
  <2>2. Least(page) \in page /\ \A n \in page : Least(page) <= n
      BY <1>6, <2>1
  <2>3. \A n \in left : n \in page \/ ~(Least(page) <= n)
      BY <1>4, <2>2
  <2>4. \A n \in left : n \in Nat /\ Least(page) \in Nat
      BY <1>3, <1>5, <2>2
  <2>5. \A n \in left : n \in page \/ n < Least(page)
      BY <2>3, <2>4
  <2> QED
      BY <2>1, <2>2, <2>5
<1>8. ASSUME NEW p \in Existing, Born(p) < after[j] PROVE Born(p) \in left
    BY <1>8 DEF Left
<1>9. ASSUME NEW n \in S
      PROVE  n \in Indices /\ n = Latest(log[n].obj) /\ Born(log[n].obj) \in page
  <2>1. PICK m \in page : n = Latest(log[m].obj)
      BY <1>9 DEF Snapshots
  <2>2. m \in Indices /\ m = Born(log[m].obj) /\ Of(log[m].obj) # {}
      BY <1>2, <1>4, LogFacts
  <2> QED
      BY <2>1, <2>2, ObjectFacts
<1>10. ASSUME NEW p \in Existing, Born(p) \in page PROVE Latest(p) \in S
  <2>1. log[Born(p)].obj = p
      BY <1>1, ObjectFacts
  <2> QED
      BY <1>10, <2>1 DEF Snapshots
<1> QED
    BY <1>2, <1>3, <1>4, <1>6, <1>7, <1>8, <1>9, <1>10

\* A page of events: the latest one of each of its PaymentIntents.
LEMMA EventPage ==
  ASSUME TypeInv, NEW c,
         NEW page, page = Page(Since(c), EventLimit),
         NEW S, S = LatestPerObject(page)
  PROVE  /\ Since(c) \subseteq Indices /\ Since(c) \subseteq Listed
         /\ page \subseteq Since(c) /\ S \subseteq page
         /\ \A n \in page, m \in Since(c) : n <= m => m \in page
         /\ page # {} => Greatest(page) \in page /\ \A n \in page : n <= Greatest(page)
         /\ \A n \in page : \E m \in S : n <= m /\ log[m].obj = log[n].obj
         /\ \A m, n \in S : log[m].obj = log[n].obj => m = n
         /\ EventLimit >= MaxEvents => page = Since(c)
<1>1. Since(c) \subseteq Indices /\ Since(c) \subseteq Listed
    BY DEF Since, Listed
<1>2. Since(c) \in SUBSET Nat /\ IsFiniteSet(Since(c)) /\ Cardinality(Since(c)) <= MaxEvents
  <2>1. /\ Indices \in SUBSET Nat /\ IsFiniteSet(Indices) /\ Cardinality(Indices) <= MaxEvents
      BY LogFacts
  <2>2. IsFiniteSet(Since(c)) /\ Cardinality(Since(c)) <= Cardinality(Indices)
      BY <1>1, <2>1, FS_Subset
  <2>3. Cardinality(Since(c)) \in Nat /\ Cardinality(Indices) \in Nat
      BY <2>1, <2>2, FS_CardinalityType
  <2>4. Cardinality(Since(c)) <= MaxEvents
      BY <2>1, <2>2, <2>3, Constants
  <2> QED
      BY <1>1, <2>1, <2>2, <2>4
<1>3. /\ page \subseteq Since(c)
      /\ \A n \in page, m \in Since(c) : n <= m => m \in page
      /\ Cardinality(Since(c)) <= EventLimit => page = Since(c)
    BY <1>2, Constants, PageFacts
<1>4. EventLimit >= MaxEvents => page = Since(c)
  <2>1. Cardinality(Since(c)) \in Nat
      BY <1>2, FS_CardinalityType
  <2> QED
      BY <1>2, <1>3, <2>1, Constants
<1>5. IsFiniteSet(page) /\ page \in SUBSET Nat
    BY <1>2, <1>3, FS_Subset
<1>6. page # {} => Greatest(page) \in page /\ \A n \in page : n <= Greatest(page)
    BY <1>5, Leasts
<1>7. S \subseteq page /\ \A n \in S : \A m \in page \cap Of(log[n].obj) : m <= n
    BY DEF LatestPerObject
<1>8. ASSUME NEW n \in page PROVE \E m \in S : n <= m /\ log[m].obj = log[n].obj
  <2> DEFINE T == page \cap Of(log[n].obj)
  <2>1. n \in T
      BY <1>1, <1>3, LogFacts
  <2>2. IsFiniteSet(T) /\ T \in SUBSET Nat
      BY <1>5, FS_Subset
  <2>3. PICK m \in T : \A k \in T : k <= m
      BY <2>1, <2>2, NatGreatest
  <2>4. m \in page /\ log[m].obj = log[n].obj
      BY <2>3 DEF Of
  <2>5. m \in S
      BY <2>3, <2>4 DEF LatestPerObject
  <2> QED
      BY <2>1, <2>3, <2>4, <2>5
<1>9. ASSUME NEW m \in S, NEW n \in S, log[m].obj = log[n].obj PROVE m = n
  <2>1. m \in page \cap Of(log[m].obj) /\ n \in page \cap Of(log[m].obj)
      BY <1>1, <1>3, <1>7, <1>9, LogFacts
  <2>2. m <= n /\ n <= m /\ m \in Nat /\ n \in Nat
      BY <1>5, <1>7, <1>9, <2>1
  <2> QED
      BY <2>2
<1> QED
    BY <1>1, <1>3, <1>4, <1>6, <1>7, <1>8, <1>9

\* What a step of the full fetch does.
LEMMA FullStep ==
  ASSUME TypeInv, NEW j \in Jobs, FetchFullPage(j)
  PROVE  /\ phase[j] = "full" /\ PassTypeOK'
         /\ used' = TRUE
         /\ UNCHANGED <<table, audit, cursor, seen, current, failures,
                        clock, log, expired, webhooks, delivered>>
         /\ \E S \in SUBSET Indices, place \in 1..(MaxEvents + 1), last \in BOOLEAN :
              /\ Queued(batch'[j]) = Queued(batch[j]) \cup EnvelopesOf(S)
              /\ phase'[j] = IF last THEN "persist" ELSE "full"
              /\ after' = [after EXCEPT ![j] = place]
              /\ last => place = MaxEvents + 1
              /\ ~last => place <= after[j]
              /\ \A n \in S : /\ n = Latest(log[n].obj)
                              /\ Born(log[n].obj) < after[j]
                              /\ ~last => place <= Born(log[n].obj)
              /\ \A p \in Existing : Born(p) < after[j] =>
                   Latest(p) \in S \/ (~last /\ Born(p) < place)
         /\ next[j] # NoCursor => next'[j] = next[j]
         /\ next[j] = NoCursor => next'[j] \in {clock} \cup {log[n].at : n \in Indices}
         /\ next'[j] # NoCursor
<1> DEFINE left == Left(j)
           page == Page(left, ListLimit)
           S == Snapshots(page)
           newest == IF next[j] = NoCursor /\ page # {} THEN log[Greatest(page)].at ELSE next[j]
           last == page = left
           token == IF last /\ newest = NoCursor THEN clock ELSE newest
           place == IF last THEN MaxEvents + 1 ELSE Least(page)
<1>1. /\ phase[j] = "full" /\ used' = TRUE
      /\ Fetched(j, EnvelopesOf(S), token, last)
      /\ after' = [after EXCEPT ![j] = place]
      /\ UNCHANGED <<clock, log, expired, webhooks, delivered>>
    BY DEF FetchFullPage, Left, Snapshots
<1>2. /\ left \in SUBSET Nat /\ left \subseteq Indices /\ page \subseteq left
      /\ \A n \in left : n = Born(log[n].obj) /\ n < after[j]
      /\ \A p \in Existing : Born(p) < after[j] => Born(p) \in left
      /\ page # left => /\ Least(page) \in page /\ page # {}
                        /\ \A n \in page : Least(page) <= n
                        /\ \A n \in left : n \in page \/ n < Least(page)
      /\ page # {} => Greatest(page) \in Indices
      /\ S \in SUBSET Indices
      /\ \A n \in S : /\ n = Latest(log[n].obj) /\ Born(log[n].obj) \in page
      /\ \A p \in Existing : Born(p) \in page => Latest(p) \in S
  <2>1. left = Left(j) /\ page = Page(left, ListLimit) /\ S = Snapshots(page)
      OBVIOUS
  <2> HIDE DEF left, page, S
  <2> QED
      BY <2>1, FullPage
<1>3. after[j] \in Nat /\ next[j] \in Nat \cup {NoCursor}
  <2>1. after[j] \in 1..(MaxEvents + 1)
      BY DEF TypeInv, TypeOK
  <2>2. next[j] \in Nat \cup {NoCursor}
      BY LogFacts DEF PassTypeOK
  <2> QED
      BY <2>1, <2>2, Constants
<1>4. token = newest \/ token = clock
    OBVIOUS
<1>5. newest = next[j] \/ (next[j] = NoCursor /\ page # {} /\ newest = log[Greatest(page)].at)
    OBVIOUS
<1>6. last /\ newest = NoCursor => token = clock
    OBVIOUS
<1>7. newest # NoCursor => token = newest
    OBVIOUS
<1>8. page # {} /\ next[j] = NoCursor => newest = log[Greatest(page)].at
    OBVIOUS
<1>9. place = IF last THEN MaxEvents + 1 ELSE Least(page)
    OBVIOUS
<1>10. last \in BOOLEAN /\ (last <=> page = left)
    OBVIOUS
<1> HIDE DEF left, page, S, newest, last, token, place
<1>11. \A n \in Indices : log[n].at \in Nat /\ log[n].at # NoCursor
    BY LogFacts, Constants
<1>12. clock \in Nat /\ clock # NoCursor /\ PassTypeOK
    BY LogFacts, Constants
<1>13. next[j] # NoCursor => token = next[j]
    BY <1>5, <1>7
<1>14. next[j] = NoCursor => token \in {clock} \cup {log[n].at : n \in Indices}
  <2> SUFFICES ASSUME next[j] = NoCursor
               PROVE  token \in {clock} \cup {log[n].at : n \in Indices}
      OBVIOUS
  <2>1. CASE page # {}
      BY <1>2, <1>7, <1>8, <1>11, <2>1
  <2>2. CASE page = {}
      BY <1>2, <1>5, <1>6, <1>10, <2>2
  <2> QED
      BY <2>1, <2>2
<1>15. token \in Nat
    BY <1>3, <1>11, <1>12, <1>13, <1>14
<1>16. EnvelopesOf(S) \in SUBSET Envelopes
    BY <1>2, EnvelopeTypes
<1>17. /\ PassTypeOK'
       /\ Queued(batch'[j]) = Queued(batch[j]) \cup EnvelopesOf(S)
       /\ phase'[j] = IF last THEN "persist" ELSE "full"
       /\ next'[j] = token
       /\ UNCHANGED <<table, audit, cursor, seen, current, failures>>
    BY <1>1, <1>10, <1>12, <1>15, <1>16, FetchedTypes
<1>18. place \in 1..(MaxEvents + 1)
  <2>1. CASE last
      BY <1>9, <2>1, Constants
  <2>2. CASE ~last
    <3>1. Least(page) \in Indices
        BY <1>2, <1>10, <2>2
    <3>2. Least(page) \in 1..MaxEvents
        BY <3>1, LogFacts
    <3> QED
        BY <1>9, <2>2, <3>2, Constants
  <2> QED
      BY <2>1, <2>2
<1>19. ~last => place < after[j]
    BY <1>2, <1>9, <1>10
<1>20. \A n \in S : /\ n = Latest(log[n].obj)
                    /\ Born(log[n].obj) < after[j]
                    /\ ~last => place <= Born(log[n].obj)
    BY <1>2, <1>9, <1>10
<1>21. \A p \in Existing : Born(p) < after[j] =>
          Latest(p) \in S \/ (~last /\ Born(p) < place)
    BY <1>2, <1>9, <1>10
<1>22. ~last => place <= after[j]
    BY <1>3, <1>18, <1>19, Constants
<1>23. last => place = MaxEvents + 1
    BY <1>9
<1>24. S \in SUBSET Indices
    BY <1>2
<1>25. \E S0 \in SUBSET Indices, place0 \in 1..(MaxEvents + 1), last0 \in BOOLEAN :
              /\ Queued(batch'[j]) = Queued(batch[j]) \cup EnvelopesOf(S0)
              /\ phase'[j] = IF last0 THEN "persist" ELSE "full"
              /\ after' = [after EXCEPT ![j] = place0]
              /\ last0 => place0 = MaxEvents + 1
              /\ ~last0 => place0 <= after[j]
              /\ \A n \in S0 : /\ n = Latest(log[n].obj)
                               /\ Born(log[n].obj) < after[j]
                               /\ ~last0 => place0 <= Born(log[n].obj)
              /\ \A p \in Existing : Born(p) < after[j] =>
                   Latest(p) \in S0 \/ (~last0 /\ Born(p) < place0)
  <2>1. last \in BOOLEAN
      BY <1>10
  <2>2. S \in SUBSET Indices /\ place \in 1..(MaxEvents + 1)
      BY <1>18, <1>24
  <2> WITNESS S \in SUBSET Indices, place \in 1..(MaxEvents + 1), last \in BOOLEAN
  <2> QED
      BY <1>1, <1>17, <1>20, <1>21, <1>22, <1>23
<1>26. token # NoCursor
    BY <1>15, Constants
<1> QED
    BY <1>1, <1>13, <1>14, <1>17, <1>25, <1>26

\* What an incremental fetch does: one page, and it is over.
LEMMA IncrementalStep ==
  ASSUME TypeInv, NEW j \in Jobs, FetchIncremental(j)
  PROVE  /\ phase[j] = "incremental" /\ phase'[j] = "persist" /\ PassTypeOK'
         /\ used' = TRUE
         /\ UNCHANGED <<table, audit, cursor, seen, current, failures,
                        clock, log, expired, webhooks, delivered, after>>
         /\ \E S \in SUBSET Since(seen[j]) :
              /\ Queued(batch'[j]) = Queued(batch[j]) \cup EnvelopesOf(S)
              /\ \A m, n \in S : log[m].obj = log[n].obj => m = n
              /\ \A n \in S, m \in Since(seen[j]) : log[m].obj = log[n].obj => m <= n
              /\ EventLimit >= MaxEvents =>
                   \A n \in Since(seen[j]) : \E m \in S : n <= m /\ log[m].obj = log[n].obj
         /\ next'[j] \in {seen[j]} \cup {log[n].at : n \in Indices}
<1> DEFINE page == Page(Since(seen[j]), EventLimit)
           S == LatestPerObject(page)
           token == IF page = {} THEN seen[j] ELSE log[Greatest(page)].at
<1>1. /\ phase[j] = "incremental" /\ used' = TRUE
      /\ Fetched(j, EnvelopesOf(S), token, TRUE)
      /\ UNCHANGED <<clock, log, expired, webhooks, delivered, after>>
    BY DEF FetchIncremental
<1>2. /\ Since(seen[j]) \subseteq Indices /\ page \subseteq Since(seen[j]) /\ S \subseteq page
      /\ \A n \in page, m \in Since(seen[j]) : n <= m => m \in page
      /\ page # {} => Greatest(page) \in page
      /\ \A n \in page : \E m \in S : n <= m /\ log[m].obj = log[n].obj
      /\ \A m, n \in S : log[m].obj = log[n].obj => m = n
      /\ EventLimit >= MaxEvents => page = Since(seen[j])
    BY EventPage
<1>3. \A n \in S : \A m \in page \cap Of(log[n].obj) : m <= n
    BY DEF LatestPerObject
<1>4. token \in {seen[j]} \cup {log[n].at : n \in Indices}
    BY <1>2
<1> HIDE DEF page, S, token
<1>5. PassTypeOK /\ seen[j] \in Nat \cup {NoCursor}
    BY LogFacts DEF PassTypeOK
<1>6. token \in Nat \cup {NoCursor}
    BY <1>4, <1>5, LogFacts
<1>7. S \in SUBSET Indices
    BY <1>2
<1>8. EnvelopesOf(S) \in SUBSET Envelopes
    BY <1>7, EnvelopeTypes
<1>9. /\ PassTypeOK'
      /\ Queued(batch'[j]) = Queued(batch[j]) \cup EnvelopesOf(S)
      /\ phase'[j] = "persist"
      /\ next'[j] = token
      /\ UNCHANGED <<table, audit, cursor, seen, current, failures>>
    BY <1>1, <1>5, <1>6, <1>8, FetchedTypes
<1>10. ASSUME NEW n \in S, NEW m \in Since(seen[j]), log[m].obj = log[n].obj
       PROVE  m <= n
  <2>1. m \in Indices /\ n \in Indices /\ m \in Nat /\ n \in Nat
      BY <1>2, LogFacts
  <2>2. CASE n <= m
    <3>1. m \in page
        BY <1>2, <2>2
    <3>2. m \in Of(log[n].obj)
        BY <1>10, <2>1, LogFacts
    <3> QED
        BY <1>3, <3>1, <3>2
  <2> QED
      BY <2>1, <2>2
<1>11. \E S0 \in SUBSET Since(seen[j]) :
              /\ Queued(batch'[j]) = Queued(batch[j]) \cup EnvelopesOf(S0)
              /\ \A m, n \in S0 : log[m].obj = log[n].obj => m = n
              /\ \A n \in S0, m \in Since(seen[j]) : log[m].obj = log[n].obj => m <= n
              /\ EventLimit >= MaxEvents =>
                   \A n \in Since(seen[j]) : \E m \in S0 : n <= m /\ log[m].obj = log[n].obj
  <2>1. S \in SUBSET Since(seen[j])
      BY <1>2
  <2>2. EventLimit >= MaxEvents =>
           \A n \in Since(seen[j]) : \E m \in S : n <= m /\ log[m].obj = log[n].obj
      BY <1>2
  <2> QED
      BY <1>2, <1>9, <1>10, <2>1, <2>2
<1> QED
    BY <1>1, <1>4, <1>9, <1>11

\* TypeOK is inductive once the length of the log is bounded.
LEMMA TypeStep == TypeInv /\ [Next]_vars => TypeInv'
<1> SUFFICES ASSUME TypeInv, [Next]_vars PROVE TypeInv'
    OBVIOUS
<1>0. /\ TypeOK /\ PassTypeOK /\ Len(log) <= MaxEvents /\ Len(log) \in Nat
      /\ clock \in 1..MaxSecond /\ used \in BOOLEAN
      /\ log \in Seq(Event)
      /\ expired \in 0..Len(log) /\ webhooks \in Deliveries
      /\ delivered \subseteq Indices
      /\ after \in [Jobs -> 1..(MaxEvents + 1)]
    BY LogFacts DEF TypeInv, TypeOK
<1>1. CASE Tick
  <2>1. clock' \in 1..MaxSecond
      BY <1>0, <1>1, Constants DEF Tick
  <2> QED
      BY <1>0, <1>1, <2>1 DEF Tick, passVars, TypeInv, TypeOK, PassTypeOK, Indices
<1>2. ASSUME NEW p \in Keys, Change(p) PROVE TypeInv'
  <2>1. /\ log' \in Seq(Event) /\ Len(log') = Len(log) + 1
        /\ Len(log') <= MaxEvents /\ Indices \subseteq Indices'
      BY <1>2, AppendFacts
  <2>2. expired \in 0..Len(log')
      BY <1>0, <2>1
  <2>3. /\ used' = TRUE
        /\ UNCHANGED <<passVars, clock, expired, webhooks, delivered, after>>
      BY <1>2 DEF Change
  <2>4. PassTypeOK'
      BY <1>0, <2>3 DEF passVars, PassTypeOK
  <2>5. delivered' \subseteq Indices'
      BY <1>0, <2>1, <2>3
  <2> QED
      BY <1>0, <2>1, <2>2, <2>3, <2>4, <2>5 DEF TypeInv, TypeOK
<1>3. CASE Expire
  <2>1. expired' \in 0..Len(log)
      BY <1>0, <1>3 DEF Expire
  <2> QED
      BY <1>0, <1>3, <2>1 DEF Expire, passVars, TypeInv, TypeOK, PassTypeOK, Indices
<1>4. ASSUME NEW n \in Indices, WebhookWrites(n) PROVE TypeInv'
  <2>1. n \in Nat /\ log[n].obj \in Keys
      BY LogFacts
  <2>2. <<log[n].obj, n>> \in Envelopes
      BY <2>1 DEF Envelopes
  <2>3. PassTypeOK'
      BY <1>0, <1>4, <2>1, <2>2 DEF WebhookWrites, PassTypeOK
  <2> QED
      BY <1>0, <1>4, <2>3 DEF WebhookWrites, upstreamVars, TypeInv, TypeOK, Indices
<1>5. ASSUME NEW j \in Jobs, PassStep(j) PROVE TypeInv'
  <2>1. UNCHANGED <<upstreamVars, delivered, after>>
      BY <1>5 DEF PassStep
  <2>2. PassTypeOK'
      BY <1>0, <1>5, BeginTypes, PersistTypes, AuditTypes, SaveTypes DEF PassStep, PersistBatch
  <2> QED
      BY <1>0, <2>1, <2>2 DEF upstreamVars, TypeInv, TypeOK, Indices
<1>6. ASSUME NEW j \in Jobs, FetchFullPage(j) PROVE TypeInv'
  <2>1. PassTypeOK' /\ used' = TRUE /\ UNCHANGED <<clock, log, expired, webhooks, delivered>>
      BY <1>6, FullStep
  <2>2. \E place \in 1..(MaxEvents + 1) : after' = [after EXCEPT ![j] = place]
      BY <1>6, FullStep
  <2>3. after' \in [Jobs -> 1..(MaxEvents + 1)]
      BY <1>0, <2>2
  <2> QED
      BY <1>0, <2>1, <2>3 DEF TypeInv, TypeOK, Indices
<1>7. ASSUME NEW j \in Jobs, FetchIncremental(j) PROVE TypeInv'
  <2>1. /\ PassTypeOK' /\ used' = TRUE
        /\ UNCHANGED <<clock, log, expired, webhooks, delivered, after>>
      BY <1>7, IncrementalStep
  <2> QED
      BY <1>0, <2>1 DEF TypeInv, TypeOK, Indices
<1>8. ASSUME NEW j \in Jobs, CursorRejected(j) PROVE TypeInv'
  <2>1. PassTypeOK' /\ UNCHANGED <<upstreamVars, delivered, after>>
      BY <1>0, <1>8, DropTypes DEF CursorRejected
  <2> QED
      BY <1>0, <2>1 DEF upstreamVars, TypeInv, TypeOK, Indices
<1>9. ASSUME NEW j \in Jobs, PassFails(j) PROVE TypeInv'
  <2>1. /\ PassTypeOK' /\ UNCHANGED <<upstreamVars, delivered>>
        /\ after' = [after EXCEPT ![j] = MaxEvents + 1]
      BY <1>0, <1>9, DropTypes DEF PassFails
  <2>2. after' \in [Jobs -> 1..(MaxEvents + 1)]
      BY <1>0, <2>1, Constants
  <2> QED
      BY <1>0, <2>1, <2>2 DEF upstreamVars, TypeInv, TypeOK, Indices
<1>10. CASE UNCHANGED vars
    BY <1>0, <1>10 DEF vars, passVars, upstreamVars, TypeInv, TypeOK, PassTypeOK, Indices
<1> QED
    BY <1>1, <1>2, <1>3, <1>4, <1>5, <1>6, <1>7, <1>8, <1>9, <1>10 DEF Next, FetchStep

LEMMA TypeHolds == Spec => []TypeInv
<1>1. Init => TypeInv
  <2> SUFFICES ASSUME Init PROVE TypeInv
      OBVIOUS
  <2>1. PassTypeOK
      BY Constants DEF Init, PassInit, PassTypeOK, Phases
  <2>2. log = <<>> /\ Len(log) = 0 /\ log \in Seq(Event)
      BY DEF Init
  <2>3. clock \in 1..MaxSecond /\ expired \in 0..Len(log) /\ Len(log) <= MaxEvents
      BY <2>2, Constants DEF Init
  <2>4. after \in [Jobs -> 1..(MaxEvents + 1)]
      BY Constants DEF Init
  <2>5. used \in BOOLEAN /\ webhooks \in Deliveries /\ delivered \subseteq Indices
      BY DEF Init
  <2> QED
      BY <2>1, <2>2, <2>3, <2>4, <2>5 DEF TypeInv, TypeOK
<1> QED
    BY <1>1, TypeStep, PTL DEF Spec

\* Every variable of the passes over Stripe keeps its type.
THEOREM TypeCorrect == Spec => []TypeOK
<1>1. TypeInv => TypeOK
    BY DEF TypeInv
<1> QED
    BY <1>1, TypeHolds, PTL

----------------------------------------------------------------------------
\* What the passes write

\* The events are in the order of their seconds.
LogInv ==
    /\ \A n \in Indices : log[n].at <= clock
    /\ \A m, n \in Indices : m <= n => log[m].at <= log[n].at

\* Rows hold versions their PaymentIntents have had.
RowsInv == \A p \in Keys : table[p] \in Of(p) \cup {0}

\* Version v of p is at least as recent as the listed events in its row.
Keeps(p, v) == \A n \in Listed \cap Of(p) : table[p] >= n => v >= n

\* The envelopes still to persist, one for a PaymentIntent, are versions it has had; while
\* a full list is read they come from before the place in it; without webhooks they keep
\* the listed events of their rows.
BatchInv ==
    \A j \in Jobs :
        /\ phase[j] \in {"idle", "incremental"} => batch[j] = <<>>
        /\ phase[j] = "incremental" => seen[j] # NoCursor
        /\ phase[j] # "full" => after[j] = MaxEvents + 1
        /\ \A env \in Queued(batch[j]) :
             /\ env[2] \in Of(env[1])
             /\ phase[j] = "full" => Born(env[1]) >= after[j]
             /\ webhooks = "none" => Keeps(env[1], env[2])
        /\ \A a, b \in Queued(batch[j]) : a[1] = b[1] => a = b

\* The envelope in flight between its row and its audit entry.
CurrentInv ==
    \A j \in Jobs :
        /\ phase[j] # "audit" => current[j] = {}
        /\ \A env \in current[j] : env[2] \in Of(env[1])
        /\ webhooks = "none" => \A env \in current[j] : table[env[1]] >= env[2]

\* Entries are about versions their PaymentIntents have had.
EntriesInv == \A env \in audit : env[2] \in Of(env[1])

WriteInv ==
    /\ LogInv
    /\ RowsInv
    /\ BatchInv
    /\ CurrentInv
    /\ EntriesInv
    /\ PassesAudit

\* Steps that leave the log, the rows, the entries and the passes alone.
LEMMA RestWrites ==
  ASSUME WriteInv, clock <= clock', TypeInv, clock' \in Nat,
         UNCHANGED <<table, audit, phase, seen, batch, current, failures, log, webhooks, after>>
  PROVE  WriteInv'
<1>1. (\A p : Of(p)' = Of(p) /\ Born(p)' = Born(p)) /\ Listed' = Listed
    BY DEF Of, Indices, Born, Listed
<1>2. LogInv'
  <2>1. \A n \in Indices : log[n].at \in Nat /\ clock \in Nat
      BY LogFacts
  <2> QED
      BY <2>1 DEF WriteInv, LogInv, Indices
<1>3. RowsInv' /\ BatchInv'
    BY <1>1 DEF WriteInv, RowsInv, BatchInv, Keeps
<1>4. CurrentInv' /\ EntriesInv' /\ PassesAudit'
    BY <1>1 DEF WriteInv, CurrentInv, EntriesInv, PassesAudit, RowsAreAudited
<1> QED
    BY <1>2, <1>3, <1>4 DEF WriteInv

\* A PaymentIntent keeps its place in the list.
LEMMA BornStays ==
  ASSUME TypeInv, NEW p \in Keys, Change(p), NEW q, Of(q) # {}
  PROVE  Born(q)' = Born(q) /\ Of(q) \subseteq Of(q)'
<1> DEFINE new == Len(log) + 1
           T == Of(q)'
<1>1. /\ T \subseteq Of(q) \cup {new} /\ Of(q) \subseteq T
      /\ new \in Nat
      /\ \A n \in Indices : n < new
    BY AppendFacts
<1>2. /\ Of(q) \subseteq Indices /\ Born(q) \in Of(q) /\ Born(q) \in Nat
      /\ \A n \in Of(q) : n \in Nat /\ Born(q) <= n
    BY ObjectFacts
<1>3. IsFiniteSet(Of(q)) /\ IsFiniteSet({new})
    BY <1>2, LogFacts, FS_Subset, FS_Singleton
<1>4. IsFiniteSet(Of(q) \cup {new})
    BY <1>3, FS_Union
<1>5. T \in SUBSET Nat /\ IsFiniteSet(T) /\ T # {}
  <2> HIDE DEF T, new
  <2> QED
      BY <1>1, <1>2, <1>4, FS_Subset
<1>6. Least(T) \in T /\ \A n \in T : Least(T) <= n
  <2> HIDE DEF T
  <2> QED
      BY <1>5, Leasts
<1>7. Born(q)' = Least(T)
    BY DEF Born
<1> HIDE DEF T, new
<1>8. Least(T) = Born(q)
  <2>1. Least(T) <= Born(q) /\ Least(T) \in Nat /\ Born(q) < new
      BY <1>1, <1>2, <1>5, <1>6
  <2>2. Least(T) \in Of(q)
      BY <1>1, <1>2, <1>6, <2>1
  <2>3. Born(q) <= Least(T)
      BY <1>2, <2>2
  <2> QED
      BY <1>2, <2>1, <2>3
<1> QED
    BY <1>1, <1>7, <1>8 DEF T

\* An event that has just happened is in no row and no envelope.
LEMMA ChangeWrites ==
  ASSUME TypeInv, WriteInv, NEW p \in Keys, Change(p)
  PROVE  WriteInv'
<1>1. UNCHANGED <<passVars, clock, webhooks, after>>
    BY DEF Change
<1>2. LET new == Len(log) + 1 IN
      /\ new \in Nat /\ new \notin Indices /\ Indices' = Indices \cup {new}
      /\ \A n \in Indices : n < new /\ log'[n] = log[n] /\ n \in Nat /\ log[n].at \in Nat
      /\ log'[new].at = clock /\ clock \in Nat
    BY AppendFacts, LogFacts
<1>3. LogInv'
    BY <1>1, <1>2 DEF WriteInv, LogInv
<1>4. \A q : Of(q) \subseteq Of(q)'
    BY AppendFacts
<1>5. RowsInv'
    BY <1>1, <1>4 DEF WriteInv, RowsInv, passVars
<1>6. ASSUME NEW q \in Keys, NEW v, Keeps(q, v) PROVE Keeps(q, v)'
  <2> SUFFICES ASSUME NEW n \in Listed' \cap Of(q)', table[q] >= n PROVE v >= n
      BY <1>1 DEF Keeps, passVars
  <2>1. table[q] \in Of(q) \cup {0} /\ Of(q) \subseteq Indices
      BY DEF WriteInv, RowsInv, Of
  <2>2. n # Len(log) + 1
      BY <1>2, <2>1
  <2>3. n \in Listed
      BY <2>2, AppendFacts
  <2>4. n \in Of(q)
      BY <2>2, AppendFacts
  <2> QED
      BY <1>6, <2>3, <2>4 DEF Keeps
<1>7. BatchInv'
  <2>1. \A j \in Jobs : \A env \in Queued(batch[j]) :
          /\ env[1] \in Keys
          /\ env[2] \in Of(env[1])'
          /\ phase[j] = "full" => Born(env[1])' >= after[j]
          /\ webhooks = "none" => Keeps(env[1], env[2])'
      BY <1>4, <1>6, BornStays, QueuedTypes, LogFacts DEF WriteInv, BatchInv
  <2>2. UNCHANGED <<phase, seen, batch, after, webhooks>>
      BY <1>1 DEF passVars
  <2> HIDE DEF Keeps
  <2> QED
      BY <2>1, <2>2 DEF WriteInv, BatchInv
<1>8. CurrentInv' /\ EntriesInv'
    BY <1>1, <1>4 DEF WriteInv, CurrentInv, EntriesInv, passVars
<1>9. PassesAudit'
  <2>1. \A env \in audit : env[2] \in Listed' => env[2] \in Listed
    <3>1. \A env \in audit : env[2] \in Indices
        BY DEF WriteInv, EntriesInv, Of
    <3>2. \A n \in Indices : n \in Listed' => n \in Listed
        BY <1>2, AppendFacts
    <3> QED
        BY <3>1, <3>2
  <2> QED
      BY <1>1, <2>1 DEF WriteInv, PassesAudit, RowsAreAudited, passVars
<1> QED
    BY <1>3, <1>5, <1>7, <1>8, <1>9 DEF WriteInv

\* A webhook brings a version its PaymentIntent has had.
LEMMA WebhookWritesKeeps ==
  ASSUME TypeInv, WriteInv, NEW n \in Indices, WebhookWrites(n)
  PROVE  WriteInv'
<1>1. /\ webhooks # "none" /\ table' = [table EXCEPT ![log[n].obj] = n]
      /\ UNCHANGED <<phase, seen, batch, current, failures, upstreamVars, after>>
    BY DEF WebhookWrites
<1>2. \A p : Of(p)' = Of(p) /\ Born(p)' = Born(p)
    BY <1>1 DEF Of, Indices, Born, upstreamVars
<1>3. LogInv'
    BY <1>1 DEF WriteInv, LogInv, Indices, upstreamVars
<1>4. RowsInv'
  <2>1. n \in Of(log[n].obj) /\ log[n].obj \in Keys /\ table \in [Keys -> Nat]
      BY LogFacts DEF PassTypeOK
  <2> QED
      BY <1>1, <1>2, <2>1 DEF WriteInv, RowsInv
<1>5. BatchInv'
    BY <1>1, <1>2 DEF WriteInv, BatchInv, upstreamVars
<1>6. CurrentInv' /\ PassesAudit'
    BY <1>1, <1>2 DEF WriteInv, CurrentInv, PassesAudit, upstreamVars
<1>7. EntriesInv'
  <2>1. n \in Of(log[n].obj) /\ audit' = audit \cup {<<log[n].obj, n>>}
      BY LogFacts DEF WebhookWrites
  <2> QED
      BY <1>2, <2>1 DEF WriteInv, EntriesInv
<1> QED
    BY <1>3, <1>4, <1>5, <1>6, <1>7 DEF WriteInv

\* A page of the full list brings envelopes of PaymentIntents not listed before.
LEMMA FullWrites ==
  ASSUME OnePass, TypeInv, WriteInv, NEW j \in Jobs, FetchFullPage(j)
  PROVE  WriteInv'
<1>1. /\ phase[j] = "full"
      /\ UNCHANGED <<table, audit, current, failures, clock, log, webhooks>>
    BY FullStep
<1>2. PICK S \in SUBSET Indices, place \in 1..(MaxEvents + 1), last \in BOOLEAN :
              /\ Queued(batch'[j]) = Queued(batch[j]) \cup EnvelopesOf(S)
              /\ phase'[j] = IF last THEN "persist" ELSE "full"
              /\ after' = [after EXCEPT ![j] = place]
              /\ last => place = MaxEvents + 1
              /\ ~last => place <= after[j]
              /\ \A n \in S : /\ n = Latest(log[n].obj)
                              /\ Born(log[n].obj) < after[j]
                              /\ ~last => place <= Born(log[n].obj)
              /\ \A p \in Existing : Born(p) < after[j] =>
                   Latest(p) \in S \/ (~last /\ Born(p) < place)
    BY FullStep
<1>3. after'[j] = place /\ after[j] \in Nat /\ place \in Nat
  <2>1. after \in [Jobs -> 1..(MaxEvents + 1)]
      BY DEF TypeInv, TypeOK
  <2>2. after'[j] = place
      BY <1>2, <2>1
  <2>3. after[j] \in 1..(MaxEvents + 1)
      BY <2>1
  <2> QED
      BY <2>2, <2>3, Constants
<1>4. (\A p : Of(p)' = Of(p) /\ Born(p)' = Born(p)) /\ Listed' = Listed
    BY <1>1 DEF Of, Indices, Born, Listed
<1>5. \A i \in Jobs : i = j
    BY DEF OnePass
<1>6. LogInv' /\ RowsInv' /\ EntriesInv'
    BY <1>1, <1>4 DEF WriteInv, LogInv, RowsInv, EntriesInv, Indices
<1>7. ASSUME NEW env \in EnvelopesOf(S)
      PROVE  /\ env[2] \in Of(env[1]) /\ env[2] = Latest(env[1]) /\ env = <<env[1], env[2]>>
             /\ Of(env[1]) # {} /\ Born(env[1]) \in Nat /\ Born(env[1]) < after[j]
             /\ ~last => place <= Born(env[1])
             /\ Keeps(env[1], env[2])
  <2>1. env[2] \in S /\ env[1] = log[env[2]].obj /\ env = <<env[1], env[2]>>
      BY <1>7, EnvelopeTypes
  <2>2. env[2] \in Of(env[1]) /\ env[2] = Latest(env[1])
      BY <1>2, <2>1, LogFacts
  <2>3. Born(env[1]) \in Nat /\ \A n \in Of(env[1]) : n <= Latest(env[1])
      BY <2>2, ObjectFacts
  <2>4. Keeps(env[1], env[2])
      BY <2>2, <2>3 DEF Keeps
  <2> QED
      BY <1>2, <2>1, <2>2, <2>3, <2>4
<1>8. ASSUME NEW env \in Queued(batch[j])
      PROVE  /\ env[2] \in Of(env[1]) /\ Born(env[1]) \in Nat
             /\ ~(Born(env[1]) < after[j])
             /\ ~last => place <= Born(env[1])
             /\ webhooks = "none" => Keeps(env[1], env[2])
  <2>1. /\ env[2] \in Of(env[1]) /\ Born(env[1]) >= after[j]
        /\ webhooks = "none" => Keeps(env[1], env[2])
      BY <1>1 DEF WriteInv, BatchInv
  <2>2. Born(env[1]) \in Nat
      BY <2>1, ObjectFacts
  <2> QED
      BY <1>2, <1>3, <2>1, <2>2
<1>9. BatchInv'
  <2>1. phase'[j] \in {"persist", "full"} /\ (phase'[j] # "full" => after'[j] = MaxEvents + 1)
      BY <1>2, <1>3
  <2>2. ASSUME NEW env \in Queued(batch'[j])
        PROVE  /\ env[2] \in Of(env[1])'
               /\ phase'[j] = "full" => Born(env[1])' >= after'[j]
               /\ webhooks' = "none" => Keeps(env[1], env[2])'
    <3>1. Keeps(env[1], env[2])' <=> Keeps(env[1], env[2])
        BY <1>1, <1>4 DEF Keeps
    <3> QED
        BY <1>1, <1>2, <1>3, <1>4, <1>7, <1>8, <3>1
  <2>3. ASSUME NEW a \in Queued(batch'[j]), NEW b \in Queued(batch'[j]), a[1] = b[1]
        PROVE  a = b
    <3>1. CASE a \in Queued(batch[j]) /\ b \in Queued(batch[j])
        BY <2>3, <3>1 DEF WriteInv, BatchInv
    <3>2. CASE a \in EnvelopesOf(S) /\ b \in EnvelopesOf(S)
        BY <1>7, <2>3, <3>2
    <3>3. a \in Queued(batch[j]) <=> b \in Queued(batch[j])
        BY <1>2, <1>7, <1>8, <2>3
    <3> QED
        BY <1>2, <3>1, <3>2, <3>3
  <2> QED
      BY <1>5, <2>1, <2>2, <2>3 DEF BatchInv
<1>10. CurrentInv' /\ PassesAudit'
    BY <1>1, <1>2, <1>4, <1>5 DEF WriteInv, CurrentInv, PassesAudit, RowsAreAudited
<1> QED
    BY <1>6, <1>9, <1>10 DEF WriteInv

\* What an incremental fetch brings is behind no listed event.
LEMMA WindowIsLatest ==
  ASSUME TypeInv, WriteInv, NEW c \in Nat, NEW n \in Since(c),
         \A m \in Since(c) : log[m].obj = log[n].obj => m <= n
  PROVE  \A m \in Listed \cap Of(log[n].obj) : m <= n
<1>1. n \in Indices /\ n > expired /\ log[n].at > c /\ n \in Nat /\ expired \in Nat
    BY LogFacts DEF Since
<1> SUFFICES ASSUME NEW m \in Listed \cap Of(log[n].obj) PROVE m <= n
    OBVIOUS
<1>2. m \in Indices /\ m \in Nat /\ log[m].obj = log[n].obj
    BY LogFacts DEF Of
<1>3. CASE n <= m
  <2>1. log[n].at <= log[m].at /\ log[n].at \in Nat /\ log[m].at \in Nat
      BY <1>1, <1>2, <1>3, LogFacts DEF WriteInv, LogInv
  <2>2. m > expired /\ log[m].at > c
      BY <1>1, <1>2, <1>3, <2>1
  <2>3. m \in Since(c)
      BY <1>2, <2>2 DEF Since
  <2> QED
      BY <1>2, <2>3
<1> QED
    BY <1>1, <1>2, <1>3

\* A window brings the last listed event of each of its PaymentIntents.
LEMMA IncrementalWrites ==
  ASSUME OnePass, TypeInv, WriteInv, NEW j \in Jobs, FetchIncremental(j)
  PROVE  WriteInv'
<1>1. /\ phase[j] = "incremental" /\ phase'[j] = "persist"
      /\ UNCHANGED <<table, audit, current, failures, clock, log, webhooks, after>>
    BY IncrementalStep
<1>2. PICK S \in SUBSET Since(seen[j]) :
         /\ Queued(batch'[j]) = Queued(batch[j]) \cup EnvelopesOf(S)
         /\ \A m, n \in S : log[m].obj = log[n].obj => m = n
         /\ \A n \in S, m \in Since(seen[j]) : log[m].obj = log[n].obj => m <= n
    BY IncrementalStep
<1>3. /\ batch[j] = <<>> /\ Queued(batch[j]) = {} /\ seen[j] \in Nat
      /\ after[j] = MaxEvents + 1
    BY <1>1, LogFacts, QueuedEmpty DEF WriteInv, BatchInv, PassTypeOK
<1>4. (\A p : Of(p)' = Of(p) /\ Born(p)' = Born(p)) /\ Listed' = Listed
    BY <1>1 DEF Of, Indices, Born, Listed
<1>5. \A i \in Jobs : i = j
    BY DEF OnePass
<1>6. LogInv' /\ RowsInv' /\ EntriesInv'
    BY <1>1, <1>4 DEF WriteInv, LogInv, RowsInv, EntriesInv, Indices
<1>7. S \in SUBSET Indices
    BY LogFacts DEF Since
<1>8. ASSUME NEW env \in Queued(batch'[j])
      PROVE  /\ env[2] \in S /\ env[1] = log[env[2]].obj /\ env = <<env[1], env[2]>>
             /\ env[2] \in Of(env[1])
             /\ Keeps(env[1], env[2])'
  <2>1. env[2] \in S /\ env[1] = log[env[2]].obj /\ env = <<env[1], env[2]>>
      BY <1>2, <1>3, <1>7, EnvelopeTypes
  <2>2. env[2] \in Of(env[1]) /\ env[2] \in Nat /\ env[1] \in Keys
      BY <1>7, <2>1, LogFacts
  <2>3. \A m \in Listed \cap Of(env[1]) : m <= env[2]
      BY <1>2, <1>3, <2>1, WindowIsLatest
  <2>4. \A m \in Listed \cap Of(env[1]) : m \in Nat
      BY LogFacts
  <2>5. Keeps(env[1], env[2])'
      BY <1>4, <2>2, <2>3, <2>4 DEF Keeps
  <2> QED
      BY <2>1, <2>2, <2>5
<1>9. BatchInv'
  <2>1. \A a, b \in Queued(batch'[j]) : a[1] = b[1] => a = b
      BY <1>2, <1>8
  <2> QED
      BY <1>1, <1>3, <1>4, <1>5, <1>8, <2>1 DEF BatchInv
<1>10. CurrentInv' /\ PassesAudit'
    BY <1>1, <1>4, <1>5 DEF WriteInv, CurrentInv, PassesAudit, RowsAreAudited
<1> QED
    BY <1>6, <1>9, <1>10 DEF WriteInv

\* A pass begins with nothing in flight.
LEMMA BeginWrites ==
  ASSUME OnePass, TypeInv, WriteInv, NEW j \in Jobs, Begin(j), UNCHANGED <<upstreamVars, after>>
  PROVE  WriteInv'
<1>1. /\ phase[j] = "idle" /\ batch' = batch
      /\ phase'[j] \in {"full", "incremental"}
      /\ phase'[j] = "incremental" => cursor # NoCursor
      /\ seen'[j] = cursor
      /\ UNCHANGED <<table, audit, current, failures, clock, log, webhooks, after>>
    BY BeginTypes, LogFacts DEF upstreamVars
<1>2. batch[j] = <<>> /\ Queued(batch'[j]) = {} /\ after[j] = MaxEvents + 1 /\ current[j] = {}
    BY <1>1, QueuedEmpty DEF WriteInv, BatchInv, CurrentInv
<1>3. \A i \in Jobs : i = j
    BY DEF OnePass
<1>4. LogInv' /\ RowsInv' /\ EntriesInv'
    BY <1>1 DEF WriteInv, LogInv, RowsInv, EntriesInv, Indices, Of
<1>5. BatchInv'
    BY <1>1, <1>2, <1>3 DEF BatchInv
<1>6. CurrentInv' /\ PassesAudit'
    BY <1>1, <1>2, <1>3
    DEF WriteInv, CurrentInv, PassesAudit, RowsAreAudited, Listed, Indices
<1> QED
    BY <1>4, <1>5, <1>6 DEF WriteInv

\* An envelope moves into its row, which keeps its listed events if webhooks write nothing.
LEMMA PersistWrites ==
  ASSUME OnePass, TypeInv, WriteInv, NEW j \in Jobs,
         PersistOne(j), UNCHANGED <<upstreamVars, after>>
  PROVE  WriteInv' /\ (webhooks = "none" => KeepsListed)
<1>1. PICK env \in Queued(batch[j]) :
         /\ env[1] \in Keys /\ env[2] \in Nat /\ env = <<env[1], env[2]>>
         /\ table'[env[1]] = env[2]
         /\ \A k \in Keys : k # env[1] => table'[k] = table[k]
         /\ current'[j] = {env}
         /\ Queued(batch'[j]) \subseteq Queued(batch[j])
    BY PersistTypes, LogFacts
<1>2. /\ phase[j] = "persist" /\ phase'[j] = "audit"
      /\ UNCHANGED <<audit, seen, failures, clock, log, webhooks, after>>
    BY PersistTypes, LogFacts DEF upstreamVars
<1>3. /\ env[2] \in Of(env[1])
      /\ webhooks = "none" => Keeps(env[1], env[2])
      /\ after[j] = MaxEvents + 1 /\ current[j] = {}
    BY <1>2 DEF WriteInv, BatchInv, CurrentInv
<1>4. \A i \in Jobs : i = j
    BY DEF OnePass
<1>5. \A n \in Indices : n \in Of(log[n].obj) /\ log[n].obj \in Keys /\ n \in Nat
    BY LogFacts
<1>6. (\A p : Of(p)' = Of(p) /\ Born(p)' = Born(p)) /\ Listed' = Listed
    BY <1>2 DEF Of, Indices, Born, Listed
<1>7. ASSUME webhooks = "none", NEW n \in Listed, table[log[n].obj] >= n
      PROVE  table'[log[n].obj] >= n
  <2>1. n \in Of(log[n].obj) /\ log[n].obj \in Keys
      BY <1>5, LogFacts
  <2>2. CASE log[n].obj = env[1]
      BY <1>1, <1>3, <1>7, <2>1, <2>2 DEF Keeps
  <2>3. CASE log[n].obj # env[1]
      BY <1>1, <1>7, <2>1, <2>3
  <2> QED
      BY <2>2, <2>3
<1>8. LogInv'
    BY <1>2 DEF WriteInv, LogInv, Indices
<1>9. RowsInv' /\ EntriesInv'
    BY <1>1, <1>2, <1>3, <1>6 DEF WriteInv, RowsInv, EntriesInv
<1>10. BatchInv'
  <2>1. ASSUME NEW other \in Queued(batch'[j]), webhooks = "none"
        PROVE  Keeps(other[1], other[2])'
    <3>1. /\ other \in Queued(batch[j]) /\ other[1] \in Keys /\ other[2] \in Nat
          /\ Keeps(other[1], other[2])
        BY <1>1, <2>1, QueuedTypes, LogFacts DEF WriteInv, BatchInv
    <3>2. CASE other[1] = env[1]
      <4>1. other = env
          BY <3>1, <3>2 DEF WriteInv, BatchInv
      <4>2. table'[other[1]] = other[2]
          BY <1>1, <4>1
      <4> QED
          BY <4>2 DEF Keeps
    <3>3. CASE other[1] # env[1]
      <4>1. table'[other[1]] = table[other[1]]
          BY <1>1, <3>1, <3>3
      <4> QED
          BY <1>6, <3>1, <4>1 DEF Keeps
    <3> QED
        BY <3>2, <3>3
  <2>2. \A a, b \in Queued(batch'[j]) : a[1] = b[1] => a = b
      BY <1>1 DEF WriteInv, BatchInv
  <2>3. \A other \in Queued(batch'[j]) : other[2] \in Of(other[1])'
      BY <1>1, <1>6 DEF WriteInv, BatchInv
  <2> QED
      BY <1>2, <1>3, <1>4, <2>1, <2>2, <2>3 DEF BatchInv
<1>11. CurrentInv'
  <2>1. \A e \in current'[j] : table'[e[1]] >= e[2] /\ e[2] \in Of(e[1])'
      BY <1>1, <1>3, <1>6
  <2> QED
      BY <1>2, <1>4, <2>1 DEF CurrentInv
<1>12. PassesAudit'
  <2> SUFFICES ASSUME webhooks = "none"
               PROVE  /\ \A e \in audit : e[2] \in Listed => table'[e[1]] >= e[2]
                      /\ RowsAreAudited'
      BY <1>2, <1>6 DEF PassesAudit
  <2>1. /\ \A e \in audit : e[2] \in Listed => table[e[1]] >= e[2]
        /\ RowsAreAudited
      BY DEF WriteInv, PassesAudit
  <2>2. ASSUME NEW e \in audit, e[2] \in Listed PROVE table'[e[1]] >= e[2]
    <3>1. e[2] \in Of(e[1])
        BY DEF WriteInv, EntriesInv
    <3>2. log[e[2]].obj = e[1]
        BY <3>1 DEF Of
    <3> QED
        BY <1>7, <2>1, <2>2, <3>2
  <2>3. ASSUME failures = 0, NEW k \in Keys, table'[k] # 0
        PROVE  <<k, table'[k]>> \in audit \cup current'[j]
    <3>1. CASE k = env[1]
        BY <1>1, <3>1
    <3>2. CASE k # env[1]
      <4>1. <<k, table[k]>> \in audit \cup UNION {current[i] : i \in Jobs}
          BY <1>1, <2>1, <2>3, <3>2 DEF RowsAreAudited
      <4>2. UNION {current[i] : i \in Jobs} = {}
          BY <1>3, <1>4
      <4> QED
          BY <1>1, <3>2, <4>1, <4>2
    <3> QED
        BY <3>1, <3>2
  <2>4. current'[j] \subseteq UNION {current'[i] : i \in Jobs}
      OBVIOUS
  <2>5. RowsAreAudited'
      BY <1>2, <2>3, <2>4 DEF RowsAreAudited
  <2> QED
      BY <2>2, <2>5
<1>13. webhooks = "none" => KeepsListed
    BY <1>7 DEF KeepsListed
<1> QED
    BY <1>8, <1>9, <1>10, <1>11, <1>12, <1>13 DEF WriteInv

\* The entry of the record in flight brings the audit trail up to the table.
LEMMA AuditWrites ==
  ASSUME OnePass, TypeInv, WriteInv, NEW j \in Jobs,
         AuditOne(j), UNCHANGED <<upstreamVars, after>>
  PROVE  WriteInv'
<1>1. /\ phase[j] = "audit" /\ phase'[j] = "persist"
      /\ audit' = audit \cup current[j] /\ current'[j] = {}
      /\ UNCHANGED <<table, seen, batch, failures, clock, log, webhooks, after>>
    BY AuditTypes, LogFacts DEF upstreamVars
<1>2. \A i \in Jobs : i = j
    BY DEF OnePass
<1>3. LogInv' /\ RowsInv'
    BY <1>1 DEF WriteInv, LogInv, RowsInv, Indices, Of
<1>4. (\A p : Of(p)' = Of(p) /\ Born(p)' = Born(p)) /\ Listed' = Listed
    BY <1>1 DEF Of, Indices, Born, Listed
<1>5. BatchInv'
    BY <1>1, <1>2, <1>4 DEF WriteInv, BatchInv, Keeps
<1>6. CurrentInv' /\ EntriesInv'
    BY <1>1, <1>2, <1>4 DEF WriteInv, CurrentInv, EntriesInv
<1>7. PassesAudit'
  <2> SUFFICES ASSUME webhooks = "none"
               PROVE  /\ \A env \in audit' : env[2] \in Listed => table'[env[1]] >= env[2]
                      /\ RowsAreAudited'
      BY <1>1, <1>4 DEF PassesAudit
  <2>1. /\ \A env \in audit : env[2] \in Listed => table[env[1]] >= env[2]
        /\ RowsAreAudited
        /\ \A env \in current[j] : table[env[1]] >= env[2]
      BY DEF WriteInv, PassesAudit, CurrentInv
  <2>2. \A env \in audit' : env[2] \in Listed => table'[env[1]] >= env[2]
      BY <1>1, <2>1
  <2>3. UNION {current[i] : i \in Jobs} = current[j]
      BY <1>2
  <2>4. RowsAreAudited'
      BY <1>1, <2>1, <2>3 DEF RowsAreAudited
  <2> QED
      BY <2>2, <2>4
<1> QED
    BY <1>3, <1>5, <1>6, <1>7 DEF WriteInv

\* A cursor is saved when nothing is left to persist.
LEMMA SaveWrites ==
  ASSUME OnePass, TypeInv, WriteInv, NEW j \in Jobs,
         SaveCursor(j), UNCHANGED <<upstreamVars, after>>
  PROVE  WriteInv'
<1>1. /\ phase[j] = "persist" /\ phase'[j] = "idle" /\ batch[j] = <<>>
      /\ UNCHANGED <<table, audit, seen, batch, current, failures, clock, log, webhooks, after>>
    BY SaveTypes, LogFacts DEF upstreamVars
<1>2. \A i \in Jobs : i = j
    BY DEF OnePass
<1>3. LogInv' /\ RowsInv' /\ EntriesInv'
    BY <1>1 DEF WriteInv, LogInv, RowsInv, EntriesInv, Indices, Of
<1>4. (\A p : Of(p)' = Of(p) /\ Born(p)' = Born(p)) /\ Listed' = Listed
    BY <1>1 DEF Of, Indices, Born, Listed
<1>5. BatchInv' /\ CurrentInv' /\ PassesAudit'
    BY <1>1, <1>2, <1>4
    DEF WriteInv, BatchInv, Keeps, CurrentInv, PassesAudit, RowsAreAudited
<1> QED
    BY <1>3, <1>5 DEF WriteInv

\* A pass that falls back or fails drops its envelopes, and the failure is counted.
LEMMA DropWrites ==
  ASSUME OnePass, TypeInv, WriteInv, NEW j \in Jobs,
         \/ FallBack(j) /\ UNCHANGED after
         \/ Fail(j) /\ after' = [after EXCEPT ![j] = MaxEvents + 1],
         UNCHANGED upstreamVars
  PROVE  WriteInv'
<1>1. /\ batch'[j] = <<>> /\ Queued(batch'[j]) = {}
      /\ phase'[j] \in {"full", "idle"}
      /\ UNCHANGED <<table, audit, clock, log, webhooks>>
    BY DropTypes, LogFacts DEF upstreamVars
<1>2. \A i \in Jobs : i = j
    BY DEF OnePass
<1>3. LogInv' /\ RowsInv' /\ EntriesInv' /\ Listed' = Listed
    BY <1>1 DEF WriteInv, LogInv, RowsInv, EntriesInv, Indices, Of, Listed
<1>4. CASE FallBack(j) /\ UNCHANGED after
  <2>1. phase[j] = "incremental" /\ UNCHANGED <<current, failures>> /\ phase'[j] = "full"
      BY <1>4, LogFacts DEF FallBack, PassTypeOK
  <2>2. current[j] = {} /\ after'[j] = MaxEvents + 1
      BY <1>4, <2>1 DEF WriteInv, CurrentInv, BatchInv
  <2>3. BatchInv'
      BY <1>1, <1>2, <2>1, <2>2 DEF BatchInv
  <2>4. CurrentInv' /\ PassesAudit'
      BY <1>1, <1>2, <1>3, <2>1, <2>2 DEF WriteInv, CurrentInv, PassesAudit, RowsAreAudited
  <2> QED
      BY <1>3, <2>3, <2>4 DEF WriteInv
<1>5. CASE Fail(j) /\ after' = [after EXCEPT ![j] = MaxEvents + 1]
  <2>1. phase'[j] = "idle" /\ current'[j] = {} /\ failures' = failures + 1 /\ failures \in Nat
      BY <1>5, LogFacts DEF Fail, PassTypeOK
  <2>2. after'[j] = MaxEvents + 1
      BY <1>5 DEF TypeInv, TypeOK
  <2>3. BatchInv'
      BY <1>1, <1>2, <2>1, <2>2 DEF BatchInv
  <2>4. CurrentInv' /\ PassesAudit'
      BY <1>1, <1>2, <1>3, <2>1 DEF WriteInv, CurrentInv, PassesAudit, RowsAreAudited
  <2> QED
      BY <1>3, <2>3, <2>4 DEF WriteInv
<1> QED
    BY <1>4, <1>5

\* Every step keeps WriteInv, and without webhooks takes no row back behind a listed event.
LEMMA WriteStep ==
  ASSUME OnePass
  PROVE  TypeInv /\ WriteInv /\ [Next]_vars
           => WriteInv' /\ [webhooks = "none" => KeepsListed]_vars
<1> SUFFICES ASSUME TypeInv, WriteInv, [Next]_vars
             PROVE  WriteInv' /\ [webhooks = "none" => KeepsListed]_vars
    OBVIOUS
<1>1. ASSUME table' = table PROVE KeepsListed
    BY <1>1 DEF KeepsListed
<1>2. clock \in Nat
    BY LogFacts
<1>3. CASE Tick
    BY <1>1, <1>2, <1>3, RestWrites DEF Tick, passVars
<1>4. ASSUME NEW p \in Keys, Change(p) PROVE WriteInv' /\ KeepsListed
    BY <1>1, <1>4, ChangeWrites DEF Change, passVars
<1>5. CASE Expire
    BY <1>1, <1>2, <1>5, RestWrites DEF Expire, passVars
<1>6. ASSUME NEW n \in Indices, WebhookWrites(n) PROVE WriteInv' /\ webhooks # "none"
    BY <1>6, WebhookWritesKeeps DEF WebhookWrites
<1>7. ASSUME NEW j \in Jobs, PassStep(j)
      PROVE  WriteInv' /\ (webhooks = "none" => KeepsListed)
  <2>1. UNCHANGED <<upstreamVars, after>>
      BY <1>7 DEF PassStep
  <2>2. CASE Begin(j)
      BY <1>1, <2>1, <2>2, BeginWrites DEF Begin
  <2>3. CASE PersistOne(j)
      BY <2>1, <2>3, PersistWrites
  <2>4. CASE AuditOne(j)
      BY <1>1, <2>1, <2>4, AuditWrites DEF AuditOne
  <2>5. CASE SaveCursor(j)
      BY <1>1, <2>1, <2>5, SaveWrites DEF SaveCursor
  <2> QED
      BY <1>7, <2>2, <2>3, <2>4, <2>5 DEF PassStep, PersistBatch
<1>8. ASSUME NEW j \in Jobs, FetchStep(j) PROVE WriteInv' /\ KeepsListed
    BY <1>1, <1>8, FullWrites, IncrementalWrites, FullStep, IncrementalStep DEF FetchStep
<1>9. ASSUME NEW j \in Jobs, CursorRejected(j) \/ PassFails(j)
      PROVE  WriteInv' /\ KeepsListed
    BY <1>1, <1>9, DropWrites DEF CursorRejected, PassFails, FallBack, Fail
<1>10. CASE UNCHANGED vars
    BY <1>2, <1>10, RestWrites DEF vars, passVars, upstreamVars
<1> QED
    BY <1>3, <1>4, <1>5, <1>6, <1>7, <1>8, <1>9, <1>10 DEF Next

LEMMA WriteHolds == ASSUME OnePass PROVE Spec => []WriteInv
<1>1. Init => WriteInv
  <2> SUFFICES ASSUME Init PROVE WriteInv
      OBVIOUS
  <2>1. /\ Indices = {} /\ table = [k \in Keys |-> 0] /\ audit = {}
        /\ phase = [j \in Jobs |-> "idle"] /\ batch = [j \in Jobs |-> <<>>]
        /\ current = [j \in Jobs |-> {}] /\ after = [j \in Jobs |-> MaxEvents + 1]
      BY DEF Init, PassInit, Indices
  <2>2. LogInv /\ RowsInv
      BY <2>1 DEF LogInv, RowsInv
  <2>3. BatchInv /\ CurrentInv /\ EntriesInv
      BY <2>1, QueuedEmpty DEF BatchInv, CurrentInv, EntriesInv
  <2>4. PassesAudit
      BY <2>1 DEF PassesAudit, RowsAreAudited
  <2> QED
      BY <2>2, <2>3, <2>4 DEF WriteInv
<1> QED
    BY <1>1, WriteStep, TypeHolds, PTL DEF Spec

\* One pass at a time, without webhooks: a row version lacks its entry only after a failure
\* or in flight, and no entry about a listed event is ahead of its row, for shared seconds,
\* windows that are cut off and forgotten events as well.
THEOREM AuditFollows == ASSUME OnePass PROVE Spec => []PassesAudit
<1>1. WriteInv => PassesAudit
    BY DEF WriteInv
<1> QED
    BY <1>1, WriteHolds, PTL

\* One pass at a time, without webhooks: no row goes back behind a listed event it had,
\* although pages, windows and full lists overlap.  That it goes back behind no change at
\* all is false: a window never shows the states only a full list does.
THEOREM KeepsVersions == ASSUME OnePass PROVE Spec => PassesKeepVersions
BY WriteStep, WriteHolds, TypeHolds, PTL DEF Spec, PassesKeepVersions

----------------------------------------------------------------------------
\* What the cursor claims

\* What the claims of the cursor rest on: no event shares its second with another or with
\* a fetch, the Events API forgets only what the cursor is past, and a page holds every
\* event there is.
Sound ==
    /\ SharedSeconds = FALSE
    /\ EventsExpire = "passed"
    /\ EventLimit >= MaxEvents

\* A webhook will still bring the row of event n there.
Owed(n) == webhooks # "none" /\ \E m \in Of(log[n].obj) : m >= n /\ m \notin delivered

Covered(n) == table[log[n].obj] >= n \/ Owed(n)

\* Event n is covered, or will be at the end of pass j.
Seen(j, n) ==
    Covered(n) \/ \E env \in Queued(batch[j]) : env[1] = log[n].obj /\ env[2] >= n

\* A second up to c holds no event that is still to come.
Over(c) == c # NoCursor => c <= clock /\ (used \/ c < clock)

ClockInv ==
    /\ \A n \in Indices : Over(log[n].at)
    /\ \A m, n \in Indices : m < n => log[m].at < log[n].at
    /\ Over(cursor)
    /\ \A j \in Jobs : phase[j] # "idle" => Over(next[j])

\* The listed events the cursor has passed, or the Events API has forgotten, are covered.
ClaimInv ==
    /\ \A n \in Passed : Covered(n)
    /\ \A n \in Listed : n <= expired => Covered(n)

\* Deliveries come in the order of the events.
OrderedInv ==
    \A n \in delivered : \A m \in Of(log[n].obj) : m < n => m \in delivered

\* The listed events since a snapshot was read are for a later pass to claim.
SnapshotInv ==
    \A j \in Jobs : \A env \in Queued(batch[j]) : \A n \in Listed \cap Of(env[1]) : n > env[2] =>
        /\ n > expired
        /\ cursor # NoCursor => log[n].at > cursor
        /\ next[j] # NoCursor => log[n].at > next[j]

\* A pass has seen what its cursor will claim: up to its place in the full list ...
PlaceInv ==
    \A j \in Jobs :
        /\ phase[j] = "incremental" => seen[j] = cursor /\ cursor # NoCursor
        /\ phase[j] = "full" =>
             /\ next[j] = NoCursor => batch[j] = <<>> /\ after[j] = MaxEvents + 1
             /\ next[j] # NoCursor => \A n \in Listed :
                  log[n].at <= next[j] => Born(log[n].obj) < after[j] \/ Seen(j, n)

\* ... and all of it once it has fetched.
TokenInv ==
    \A j \in Jobs : phase[j] \in {"persist", "audit"} =>
        \A n \in Listed : next[j] # NoCursor /\ log[n].at <= next[j] => Seen(j, n)

CoverInv ==
    /\ ClockInv
    /\ ClaimInv
    /\ OrderedInv
    /\ SnapshotInv
    /\ PlaceInv
    /\ TokenInv

----------------------------------------------------------------------------
\* The steps, and what is covered

\* The types of what the invariant compares.
LEMMA CoverTypes ==
  ASSUME TypeInv, WriteInv
  PROVE  /\ clock \in Nat /\ expired \in Nat /\ NoCursor \notin Nat
         /\ cursor \in Nat \cup {NoCursor}
         /\ \A j \in Jobs : next[j] \in Nat \cup {NoCursor} /\ seen[j] \in Nat \cup {NoCursor}
         /\ \A n \in Indices : n \in Nat /\ log[n].at \in Nat /\ log[n].obj \in Keys
         /\ \A k \in Keys : table[k] \in Nat
         /\ \A j \in Jobs : \A env \in Queued(batch[j]) : env[1] \in Keys /\ env[2] \in Nat
BY LogFacts, QueuedTypes, Constants DEF PassTypeOK

\* What is read off the log changes with the log only.
LEMMA SameLog ==
  ASSUME log' = log
  PROVE  /\ Indices' = Indices /\ Listed' = Listed
         /\ \A p : Of(p)' = Of(p) /\ Born(p)' = Born(p)
BY DEF Of, Indices, Born, Listed

\* Steps that change no event, row, delivery or pass: time may go on, and nothing is
\* before its second.
LEMMA RestCovers ==
  ASSUME TypeInv, WriteInv, CoverInv,
         UNCHANGED <<table, cursor, phase, seen, batch, next, log, expired, webhooks,
                     delivered, after>>,
         \/ UNCHANGED <<clock, used>>
         \/ clock' = clock + 1
  PROVE  CoverInv'
<1>1. /\ Indices' = Indices /\ Listed' = Listed
      /\ \A p : Of(p)' = Of(p) /\ Born(p)' = Born(p)
    BY SameLog
<1>2. Passed' = Passed
    BY <1>1 DEF Passed
<1>3. \A n : Covered(n)' <=> Covered(n)
    BY <1>1 DEF Covered, Owed
<1>4. \A j \in Jobs : \A n : Seen(j, n)' <=> Seen(j, n)
    BY <1>3 DEF Seen
<1>5. ASSUME NEW c \in Nat \cup {NoCursor}, Over(c) PROVE Over(c)'
    BY <1>5, CoverTypes DEF Over
<1>6. ClockInv'
  <2>1. /\ \A n \in Indices : Over(log[n].at)'
        /\ Over(cursor)'
        /\ \A j \in Jobs : phase[j] # "idle" => Over(next[j])'
    <3>1. /\ \A n \in Indices : Over(log[n].at) /\ log[n].at \in Nat
          /\ Over(cursor) /\ cursor \in Nat \cup {NoCursor}
          /\ \A j \in Jobs : /\ phase[j] # "idle" => Over(next[j])
                             /\ next[j] \in Nat \cup {NoCursor}
        BY CoverTypes DEF CoverInv, ClockInv
    <3>2. \A c \in Nat \cup {NoCursor} :
            Over(c) => (c # NoCursor => c <= clock' /\ (used' \/ c < clock'))
        BY <1>5 DEF Over
    <3> QED
        BY <3>1, <3>2 DEF Over
  <2> QED
      BY <1>1, <2>1 DEF CoverInv, ClockInv
<1>7. ClaimInv' /\ OrderedInv'
    BY <1>1, <1>2, <1>3 DEF CoverInv, ClaimInv, OrderedInv
<1>8. SnapshotInv'
    BY <1>1 DEF CoverInv, SnapshotInv
<1>9. PlaceInv' /\ TokenInv'
    BY <1>1, <1>4 DEF CoverInv, PlaceInv, TokenInv
<1> QED
    BY <1>6, <1>7, <1>8, <1>9 DEF CoverInv

\* A new event is in a second that nothing has claimed.
LEMMA ChangeCovers ==
  ASSUME Sound, TypeInv, WriteInv, CoverInv, NEW p \in Keys, Change(p)
  PROVE  CoverInv'
<1> DEFINE new == Len(log) + 1
<1>1. /\ ~used /\ used' = TRUE
      /\ UNCHANGED <<passVars, clock, expired, webhooks, delivered, after>>
    BY DEF Change, Sound
<1>2. /\ new \in Nat /\ Indices' = Indices \cup {new} /\ new \notin Indices
      /\ \A n \in Indices : n < new /\ log'[n] = log[n]
      /\ log'[new].obj = p /\ log'[new].at = clock
      /\ Of(p)' = Of(p) \cup {new}
      /\ \A q : q # p => Of(q)' = Of(q)
      /\ Listed \subseteq Listed' /\ Listed' \subseteq Listed \cup {new}
      /\ Listed \subseteq Indices
    BY AppendFacts, LogFacts
<1>3. expired < new
  <2>1. expired \in 0..Len(log) /\ Len(log) \in Nat
      BY LogFacts DEF TypeInv, TypeOK
  <2> QED
      BY <2>1
<1> HIDE DEF new
<1>4. \A c \in Nat \cup {NoCursor} : Over(c) => Over(c)' /\ (c # NoCursor => c < clock)
    BY <1>1 DEF Over
<1>5. /\ \A n \in Indices : Over(log[n].at) /\ log[n].at < clock
      /\ Over(cursor) /\ (cursor # NoCursor => clock > cursor)
      /\ \A j \in Jobs : phase[j] # "idle" =>
           Over(next[j]) /\ (next[j] # NoCursor => clock > next[j])
  <2>1. /\ \A n \in Indices : Over(log[n].at) /\ log[n].at \in Nat /\ log[n].at # NoCursor
        /\ Over(cursor) /\ cursor \in Nat \cup {NoCursor}
        /\ \A j \in Jobs : /\ phase[j] # "idle" => Over(next[j])
                           /\ next[j] \in Nat \cup {NoCursor}
        /\ clock \in Nat
      BY CoverTypes DEF CoverInv, ClockInv
  <2> QED
      BY <1>4, <2>1
<1>6. ClockInv'
  <2>1. \A n \in Indices' : log'[n].at <= clock'
    <3>1. clock \in Nat /\ \A n \in Indices : log[n].at \in Nat /\ log[n].at < clock
        BY <1>5, CoverTypes
    <3>2. \A n \in Indices : log'[n].at <= clock
        BY <1>2, <3>1
    <3>3. log'[new].at <= clock
        BY <1>2, <3>1
    <3> QED
        BY <1>1, <1>2, <3>2, <3>3
  <2>2. cursor' # NoCursor => cursor' <= clock'
      BY <1>1, <1>5 DEF passVars, Over
  <2>3. \A j \in Jobs : phase'[j] # "idle" /\ next'[j] # NoCursor => next'[j] <= clock'
      BY <1>1, <1>5 DEF passVars, Over
  <2>4. \A m, n \in Indices' : m < n => log'[m].at < log'[n].at
    <3>1. \A m, n \in Indices : m < n => log[m].at < log[n].at
        BY DEF CoverInv, ClockInv
    <3>2. \A n \in Indices : n \in Nat /\ n < new
        BY <1>2, CoverTypes
    <3> QED
        BY <1>2, <1>5, <3>1, <3>2
  <2> QED
      BY <1>1, <2>1, <2>2, <2>3, <2>4 DEF ClockInv, Over
<1>7. \A q : Of(q) \subseteq Of(q)' /\ Of(q)' \subseteq Of(q) \cup {new}
    BY <1>2
<1>8. ASSUME NEW n \in Indices, Covered(n) PROVE Covered(n)'
    BY <1>1, <1>2, <1>7, <1>8 DEF Covered, Owed, passVars
<1>9. ASSUME NEW j \in Jobs, NEW n \in Indices, Seen(j, n) PROVE Seen(j, n)'
  <2>1. batch' = batch /\ log'[n] = log[n]
      BY <1>1, <1>2 DEF passVars
  <2> QED
      BY <1>8, <1>9, <2>1 DEF Seen
<1>10. ClaimInv'
  <2>1. \A n \in Passed' : n \in Passed
      BY <1>1, <1>2, <1>5, CoverTypes DEF Passed, passVars
  <2>2. Passed \subseteq Indices
      BY <1>2 DEF Passed
  <2>3. \A n \in Listed' : n <= expired' => n \in Listed /\ n <= expired
      BY <1>1, <1>2, <1>3, CoverTypes
  <2> QED
      BY <1>2, <1>8, <2>1, <2>2, <2>3 DEF CoverInv, ClaimInv
<1>11. OrderedInv'
  <2>1. delivered \subseteq Indices /\ delivered' = delivered
      BY <1>1 DEF TypeInv, TypeOK
  <2>2. ASSUME NEW n \in delivered, NEW m \in Of(log[n].obj)', m < n PROVE m \in delivered
    <3>1. log'[n] = log[n] /\ n < new /\ n \in Nat /\ n \in Indices
        BY <1>2, <2>1, CoverTypes
    <3>2. m \in Of(log[n].obj)
      <4>1. m \in Indices' /\ log'[m].obj = log[n].obj
          BY <2>2, <3>1 DEF Of
      <4>2. m \in Indices
          BY <1>2, <2>2, <3>1, <4>1
      <4> QED
          BY <1>2, <4>1, <4>2 DEF Of
    <3> QED
        BY <2>2, <3>2 DEF CoverInv, OrderedInv
  <2> QED
      BY <2>1, <2>2 DEF OrderedInv, Of
<1>12. SnapshotInv'
  <2>1. ASSUME NEW j \in Jobs, NEW env \in Queued(batch[j]),
               NEW n \in Listed' \cap Of(env[1])', n > env[2]
        PROVE  /\ n > expired
               /\ cursor # NoCursor => log'[n].at > cursor
               /\ next[j] # NoCursor => log'[n].at > next[j]
    <3>1. CASE n = new
      <4>1. phase[j] # "idle"
          BY QueuedEmpty DEF WriteInv, BatchInv
      <4> QED
          BY <1>2, <1>3, <1>5, <3>1, <4>1, CoverTypes
    <3>2. CASE n \in Listed \cap Of(env[1])
      <4>1. n \in Indices
          BY <1>2, <3>2
      <4> QED
          BY <1>2, <2>1, <3>2, <4>1 DEF CoverInv, SnapshotInv
    <3> QED
        BY <1>2, <1>7, <3>1, <3>2
  <2> QED
      BY <1>1, <2>1 DEF SnapshotInv, passVars
<1>13. PlaceInv'
  <2>1. ASSUME NEW j \in Jobs, phase[j] = "full", next[j] # NoCursor,
               NEW n \in Listed', log'[n].at <= next[j]
        PROVE  (Born(log[n].obj) < after[j])' \/ Seen(j, n)'
    <3>1. n \in Listed /\ n \in Indices
      <4>1. clock > next[j] /\ clock \in Nat /\ next[j] \in Nat
          BY <1>5, <2>1, CoverTypes
      <4> QED
          BY <1>2, <2>1, <4>1
    <3>2. log'[n] = log[n] /\ Of(log[n].obj) # {}
        BY <1>2, <3>1, LogFacts
    <3>3. Born(log[n].obj) < after[j] \/ Seen(j, n)
        BY <2>1, <3>1, <3>2 DEF CoverInv, PlaceInv
    <3>4. Born(log[n].obj)' = Born(log[n].obj)
      <4> DEFINE q == log[n].obj
      <4>1. Of(q) # {} /\ log'[n].obj = q
          BY <3>2
      <4> HIDE DEF q
      <4>2. Born(q)' = Born(q)
        <5>1. \A q0 : Of(q0) # {} => Born(q0)' = Born(q0)
            BY BornStays
        <5>2. q' = q
            BY <3>2 DEF q
        <5> QED
            BY <4>1, <5>1, <5>2
      <4> QED
          BY <4>2, <3>2 DEF q
    <3> QED
        BY <1>1, <1>9, <3>1, <3>3, <3>4
  <2> QED
      BY <1>1, <2>1 DEF CoverInv, PlaceInv, passVars
<1>14. TokenInv'
  <2>1. ASSUME NEW j \in Jobs, phase[j] \in {"persist", "audit"},
               NEW n \in Listed', next[j] # NoCursor, log'[n].at <= next[j]
        PROVE  Seen(j, n)'
    <3>1. clock > next[j] /\ clock \in Nat /\ next[j] \in Nat
        BY <1>5, <2>1, CoverTypes
    <3>2. n \in Listed /\ n \in Indices /\ log'[n] = log[n]
        BY <1>2, <2>1, <3>1
    <3> QED
        BY <1>9, <2>1, <3>2 DEF CoverInv, TokenInv
  <2> QED
      BY <1>1, <2>1 DEF TokenInv, passVars
<1> QED
    BY <1>6, <1>10, <1>11, <1>12, <1>13, <1>14 DEF CoverInv

\* What the Events API forgets the cursor has passed, so it is covered.
LEMMA ExpireCovers ==
  ASSUME Sound, TypeInv, WriteInv, CoverInv, Expire
  PROVE  CoverInv'
<1>1. /\ expired < Len(log) /\ cursor # NoCursor /\ log[expired + 1].at <= cursor
      /\ expired' = expired + 1
      /\ UNCHANGED <<table, cursor, phase, seen, batch, next, clock, used, log, webhooks,
                     delivered, after>>
    BY DEF Expire, Sound, passVars
<1>2. /\ Len(log) \in Nat /\ expired \in Nat
      /\ expired + 1 \in Listed => expired + 1 \in Passed
  <2>1. Len(log) \in Nat /\ expired \in Nat
      BY LogFacts
  <2> QED
      BY <1>1, <2>1 DEF Passed
<1>3. /\ Indices' = Indices /\ Listed' = Listed /\ Passed' = Passed
      /\ \A p : Of(p)' = Of(p) /\ Born(p)' = Born(p)
    BY <1>1, SameLog DEF Passed
<1>4. \A n : Covered(n)' <=> Covered(n)
    BY <1>1, <1>3 DEF Covered, Owed
<1>5. \A j \in Jobs : \A n : Seen(j, n)' <=> Seen(j, n)
    BY <1>1, <1>4 DEF Seen
<1>6. ClockInv' /\ OrderedInv' /\ PlaceInv' /\ TokenInv'
    BY <1>1, <1>3, <1>5 DEF CoverInv, ClockInv, Over, OrderedInv, PlaceInv, TokenInv
<1>7. ClaimInv'
  <2>1. \A n \in Listed : n <= expired + 1 => n <= expired \/ n = expired + 1
      BY <1>2, LogFacts, CoverTypes
  <2> QED
      BY <1>1, <1>2, <1>3, <1>4, <2>1 DEF CoverInv, ClaimInv
<1>8. SnapshotInv'
  <2>1. ASSUME NEW j \in Jobs, NEW env \in Queued(batch[j]),
               NEW n \in Listed \cap Of(env[1]), n > env[2]
        PROVE  n > expired + 1
    <3>1. n > expired /\ log[n].at > cursor /\ n \in Nat /\ log[n].at \in Nat /\ cursor \in Nat
      <4>1. n \in Indices
          BY DEF Of
      <4> QED
          BY <1>1, <2>1, <4>1, CoverTypes DEF CoverInv, SnapshotInv
    <3>2. n # expired + 1
        BY <1>1, <3>1
    <3> QED
        BY <1>2, <3>1, <3>2
  <2> QED
      BY <1>1, <1>3, <2>1 DEF CoverInv, SnapshotInv
<1> QED
    BY <1>6, <1>7, <1>8 DEF CoverInv

\* A delivery in order leaves a row ahead of it to what is still to be delivered.
LEMMA WebhookCovers ==
  ASSUME webhooks # "any", TypeInv, WriteInv, CoverInv, NEW n \in Indices, WebhookWrites(n)
  PROVE  CoverInv'
<1>1. /\ webhooks # "none" /\ n \notin delivered
      /\ \A m \in Of(log[n].obj) : m < n => m \in delivered
      /\ table' = [table EXCEPT ![log[n].obj] = n]
      /\ delivered' = delivered \cup {n}
      /\ UNCHANGED <<cursor, phase, seen, batch, next, clock, used, log, expired, webhooks,
                     after>>
  <2>1. webhooks = "ordered"
      BY UpstreamAssumption DEF WebhookWrites, TypeInv, TypeOK
  <2> QED
      BY <2>1 DEF WebhookWrites, upstreamVars
<1>2. /\ Indices' = Indices /\ Listed' = Listed /\ Passed' = Passed
      /\ \A p : Of(p)' = Of(p) /\ Born(p)' = Born(p)
    BY <1>1, SameLog DEF Passed
<1>3. ASSUME NEW m \in Indices, Covered(m) PROVE Covered(m)'
  <2>1. m \in Nat /\ n \in Nat /\ log[m].obj \in Keys /\ log[n].obj \in Keys
        /\ table \in [Keys -> Nat] /\ m \in Of(log[m].obj)
      BY CoverTypes, LogFacts DEF PassTypeOK
  <2>2. CASE log[m].obj # log[n].obj
    <3>1. table'[log[m].obj] = table[log[m].obj]
        BY <1>1, <2>1, <2>2
    <3>2. n \notin Of(log[m].obj)
        BY <2>2 DEF Of
    <3> QED
        BY <1>1, <1>2, <1>3, <3>1, <3>2 DEF Covered, Owed
  <2>3. CASE log[m].obj = log[n].obj /\ m <= n
    <3>1. table'[log[m].obj] >= m
        BY <1>1, <2>1, <2>3
    <3> QED
        BY <1>1, <3>1 DEF Covered
  <2>4. CASE log[m].obj = log[n].obj /\ m > n
    <3>1. m \notin delivered
      <4>1. n \in Of(log[m].obj) /\ n < m
          BY <2>1, <2>4 DEF Of
      <4> QED
          BY <1>1, <4>1 DEF CoverInv, OrderedInv
    <3>2. m \notin delivered' /\ m \in Of(log[m].obj)' /\ m >= m
        BY <1>1, <1>2, <2>1, <2>4, <3>1
    <3> QED
        BY <1>1, <3>2 DEF Covered, Owed
  <2> QED
      BY <2>1, <2>2, <2>3, <2>4
<1>4. ASSUME NEW j \in Jobs, NEW m \in Indices, Seen(j, m) PROVE Seen(j, m)'
    BY <1>1, <1>3, <1>4 DEF Seen
<1>5. ClockInv' /\ SnapshotInv'
    BY <1>1, <1>2 DEF CoverInv, ClockInv, Over, SnapshotInv
<1>6. ClaimInv'
    BY <1>1, <1>2, <1>3, LogFacts DEF CoverInv, ClaimInv, Passed
<1>7. PlaceInv' /\ TokenInv'
    BY <1>1, <1>2, <1>4, LogFacts DEF CoverInv, PlaceInv, TokenInv
<1>8. OrderedInv'
    BY <1>1, <1>2 DEF CoverInv, OrderedInv
<1> QED
    BY <1>5, <1>6, <1>7, <1>8 DEF CoverInv

\* A pass reads the cursor as it is.
LEMMA BeginCovers ==
  ASSUME OnePass, TypeInv, WriteInv, CoverInv, NEW j \in Jobs, Begin(j),
         UNCHANGED <<upstreamVars, delivered, after>>
  PROVE  CoverInv'
<1>1. /\ phase[j] = "idle" /\ batch' = batch
      /\ phase'[j] \in {"full", "incremental"}
      /\ phase'[j] = "incremental" => cursor # NoCursor
      /\ seen'[j] = cursor /\ next'[j] = NoCursor
      /\ UNCHANGED <<table, cursor, clock, used, log, expired, webhooks, delivered, after>>
    BY BeginTypes, LogFacts DEF upstreamVars
<1>2. batch[j] = <<>> /\ Queued(batch'[j]) = {} /\ after[j] = MaxEvents + 1
    BY <1>1, QueuedEmpty DEF WriteInv, BatchInv
<1>3. \A i \in Jobs : i = j
    BY DEF OnePass
<1>4. /\ Indices' = Indices /\ Listed' = Listed /\ Passed' = Passed
      /\ \A p : Of(p)' = Of(p) /\ Born(p)' = Born(p)
    BY <1>1, SameLog DEF Passed
<1>5. \A n : Covered(n)' <=> Covered(n)
    BY <1>1, <1>4 DEF Covered, Owed
<1>6. ClockInv'
    BY <1>1, <1>3, <1>4 DEF CoverInv, ClockInv, Over
<1>7. ClaimInv' /\ OrderedInv'
    BY <1>1, <1>4, <1>5 DEF CoverInv, ClaimInv, OrderedInv
<1>8. SnapshotInv' /\ PlaceInv' /\ TokenInv'
    BY <1>1, <1>2, <1>3, <1>4 DEF SnapshotInv, PlaceInv, TokenInv
<1> QED
    BY <1>6, <1>7, <1>8 DEF CoverInv

\* Another page of the full list: the first sets the cursor, the last one goes through to
\* the oldest PaymentIntent.
LEMMA FullCovers ==
  ASSUME OnePass, TypeInv, WriteInv, CoverInv, NEW j \in Jobs, FetchFullPage(j)
  PROVE  CoverInv'
<1>1. /\ phase[j] = "full" /\ used' = TRUE
      /\ UNCHANGED <<table, cursor, seen, clock, log, expired, webhooks, delivered>>
      /\ next[j] # NoCursor => next'[j] = next[j]
      /\ next[j] = NoCursor => next'[j] \in {clock} \cup {log[n].at : n \in Indices}
      /\ next'[j] # NoCursor
    BY FullStep
<1>2. PICK S \in SUBSET Indices, place \in 1..(MaxEvents + 1), last \in BOOLEAN :
              /\ Queued(batch'[j]) = Queued(batch[j]) \cup EnvelopesOf(S)
              /\ phase'[j] = IF last THEN "persist" ELSE "full"
              /\ after' = [after EXCEPT ![j] = place]
              /\ \A n \in S : n = Latest(log[n].obj)
              /\ \A p \in Existing : Born(p) < after[j] =>
                   Latest(p) \in S \/ (~last /\ Born(p) < place)
    BY FullStep
<1>3. after'[j] = place /\ phase'[j] \in {"full", "persist"}
    BY <1>2 DEF TypeInv, TypeOK
<1>4. \A i \in Jobs : i = j
    BY DEF OnePass
<1>5. /\ Indices' = Indices /\ Listed' = Listed /\ Passed' = Passed
      /\ \A p : Of(p)' = Of(p) /\ Born(p)' = Born(p)
    BY <1>1, SameLog DEF Passed
<1>6. \A n : Covered(n)' <=> Covered(n)
    BY <1>1, <1>5 DEF Covered, Owed
<1>7. ASSUME NEW n \in Indices, Seen(j, n) PROVE Seen(j, n)'
    BY <1>1, <1>2, <1>6, <1>7 DEF Seen
<1>8. ASSUME NEW n \in Indices, Latest(log[n].obj) \in S PROVE Seen(j, n)'
  <2>1. /\ <<log[n].obj, Latest(log[n].obj)>> \in EnvelopesOf(S)
        /\ n <= Latest(log[n].obj)
    <3>1. Of(log[n].obj) # {} /\ n \in Of(log[n].obj)
        BY LogFacts
    <3>2. n <= Latest(log[n].obj) /\ log[Latest(log[n].obj)].obj = log[n].obj
        BY <3>1, ObjectFacts
    <3> QED
        BY <1>8, <3>2, EnvelopeTypes
  <2>2. Latest(log[n].obj) \in Nat /\ n \in Nat
      BY <1>8, CoverTypes
  <2> QED
      BY <1>1, <1>2, <2>1, <2>2 DEF Seen
<1>9. ClockInv'
  <2>1. \A n \in Indices : log[n].at <= clock
      BY DEF CoverInv, ClockInv, WriteInv, LogInv
  <2>2. clock \in Nat /\ cursor \in Nat \cup {NoCursor}
      BY CoverTypes
  <2>3. next'[j] <= clock
    <3>1. CASE next[j] # NoCursor
        BY <1>1, <3>1 DEF CoverInv, ClockInv, Over
    <3>2. CASE next[j] = NoCursor
        BY <1>1, <2>1, <2>2, <3>2
    <3> QED
        BY <3>1, <3>2
  <2>4. cursor # NoCursor => cursor <= clock
      BY DEF CoverInv, ClockInv, Over
  <2> QED
      BY <1>1, <1>4, <1>5, <2>1, <2>3, <2>4 DEF CoverInv, ClockInv, Over
<1>10. ClaimInv' /\ OrderedInv'
    BY <1>1, <1>5, <1>6 DEF CoverInv, ClaimInv, OrderedInv
<1>11. next[j] = NoCursor => batch[j] = <<>> /\ Queued(batch[j]) = {} /\ after[j] = MaxEvents + 1
    BY <1>1, QueuedEmpty DEF CoverInv, PlaceInv
<1>12. SnapshotInv'
  <2>1. ASSUME NEW env \in Queued(batch'[j]), NEW n \in Listed \cap Of(env[1]), n > env[2]
        PROVE  /\ n > expired
               /\ cursor # NoCursor => log[n].at > cursor
               /\ next'[j] # NoCursor => log[n].at > next'[j]
    <3>1. env \notin EnvelopesOf(S)
      <4> SUFFICES ASSUME env \in EnvelopesOf(S) PROVE FALSE
          OBVIOUS
      <4>1. env[2] \in S /\ env[1] = log[env[2]].obj
          BY EnvelopeTypes
      <4>2. env[2] = Latest(env[1]) /\ Of(env[1]) # {}
          BY <1>2, <4>1
      <4>3. n <= Latest(env[1]) /\ n \in Nat /\ Latest(env[1]) \in Nat
          BY <4>2, ObjectFacts
      <4> QED
          BY <2>1, <4>2, <4>3
    <3>2. env \in Queued(batch[j])
        BY <1>2, <3>1
    <3>3. next'[j] = next[j]
        BY <1>1, <1>11, <3>2
    <3> QED
        BY <2>1, <3>2, <3>3 DEF CoverInv, SnapshotInv
  <2> QED
      BY <1>1, <1>4, <1>5, <2>1 DEF SnapshotInv
<1>13. ASSUME NEW n \in Listed, log[n].at <= next'[j]
       PROVE  Seen(j, n)' \/ (phase'[j] = "full" /\ Born(log[n].obj) < after'[j])
  <2>1. /\ log[n].obj \in Existing /\ Born(log[n].obj) \in Nat
        /\ Born(log[n].obj) \in 1..MaxEvents
    <3>1. Of(log[n].obj) # {} /\ n \in Indices
        BY LogFacts
    <3>2. Born(log[n].obj) \in Indices /\ log[n].obj \in Existing
        BY <3>1, ObjectFacts
    <3> QED
        BY <3>2, LogFacts
  <2>2. Born(log[n].obj) < after[j] \/ Seen(j, n)
    <3>1. CASE next[j] = NoCursor
        BY <1>11, <2>1, <3>1, Constants
    <3>2. CASE next[j] # NoCursor
        BY <1>1, <1>13, <3>2 DEF CoverInv, PlaceInv
    <3> QED
        BY <3>1, <3>2
  <2> QED
      BY <1>2, <1>3, <1>7, <1>8, <2>1, <2>2, LogFacts
<1>14. PlaceInv' /\ TokenInv'
    BY <1>1, <1>3, <1>4, <1>5, <1>13 DEF PlaceInv, TokenInv
<1> QED
    BY <1>9, <1>10, <1>12, <1>14 DEF CoverInv

\* One page of events reaches from the cursor to the newest one, so each event is expired,
\* passed by the cursor or seen.
LEMMA IncrementalCovers ==
  ASSUME Sound, OnePass, TypeInv, WriteInv, CoverInv, NEW j \in Jobs, FetchIncremental(j)
  PROVE  CoverInv'
<1>1. /\ phase[j] = "incremental" /\ phase'[j] = "persist" /\ used' = TRUE
      /\ next'[j] \in {seen[j]} \cup {log[n].at : n \in Indices}
      /\ UNCHANGED <<table, cursor, seen, clock, log, expired, webhooks, delivered, after>>
    BY IncrementalStep
<1>2. PICK S \in SUBSET Since(seen[j]) :
         /\ Queued(batch'[j]) = Queued(batch[j]) \cup EnvelopesOf(S)
         /\ \A m, n \in S : log[m].obj = log[n].obj => m = n
         /\ \A n \in S, m \in Since(seen[j]) : log[m].obj = log[n].obj => m <= n
         /\ EventLimit >= MaxEvents =>
              \A n \in Since(seen[j]) : \E m \in S : n <= m /\ log[m].obj = log[n].obj
    BY IncrementalStep
<1>3. /\ batch[j] = <<>> /\ Queued(batch[j]) = {}
      /\ seen[j] = cursor /\ cursor \in Nat /\ cursor # NoCursor
    BY <1>1, CoverTypes, QueuedEmpty DEF WriteInv, BatchInv, CoverInv, PlaceInv
<1>4. \A i \in Jobs : i = j
    BY DEF OnePass
<1>5. /\ Indices' = Indices /\ Listed' = Listed /\ Passed' = Passed
      /\ \A p : Of(p)' = Of(p) /\ Born(p)' = Born(p)
    BY <1>1, SameLog DEF Passed
<1>6. \A n : Covered(n)' <=> Covered(n)
    BY <1>1, <1>5 DEF Covered, Owed
<1>7. S \in SUBSET Indices
    BY LogFacts DEF Since
<1>8. ASSUME NEW n \in Listed PROVE Seen(j, n)'
  <2>1. n \in Indices /\ n \in Nat /\ expired \in Nat /\ log[n].at \in Nat
      BY LogFacts, CoverTypes
  <2>2. CASE n <= expired \/ log[n].at <= cursor
    <3>1. Covered(n)
        BY <1>3, <2>2 DEF CoverInv, ClaimInv, Passed
    <3> QED
        BY <1>6, <3>1 DEF Seen
  <2>3. CASE n > expired /\ log[n].at > cursor
    <3>1. n \in Since(seen[j])
        BY <1>3, <2>3 DEF Since
    <3>2. PICK m \in S : n <= m /\ log[m].obj = log[n].obj
        BY <1>2, <3>1 DEF Sound
    <3>3. <<log[n].obj, m>> \in Queued(batch'[j]) /\ m \in Nat
        BY <1>2, <1>7, <3>2, EnvelopeTypes, CoverTypes
    <3> QED
        BY <1>1, <2>1, <3>2, <3>3 DEF Seen
  <2> QED
      BY <1>3, <2>1, <2>2, <2>3
<1>9. ClockInv'
  <2>1. \A n \in Indices : log[n].at <= clock
      BY DEF WriteInv, LogInv
  <2>2. cursor <= clock
      BY <1>3 DEF CoverInv, ClockInv, Over
  <2>3. next'[j] <= clock
      BY <1>1, <1>3, <2>1, <2>2
  <2> QED
      BY <1>1, <1>4, <1>5, <2>1, <2>2, <2>3 DEF CoverInv, ClockInv, Over
<1>10. ClaimInv' /\ OrderedInv'
    BY <1>1, <1>5, <1>6 DEF CoverInv, ClaimInv, OrderedInv
<1>11. SnapshotInv'
  <2>1. ASSUME NEW env \in Queued(batch'[j]), NEW n \in Listed \cap Of(env[1]), n > env[2]
        PROVE  FALSE
    <3>1. env[2] \in S /\ env[1] = log[env[2]].obj
        BY <1>2, <1>3, <1>7, EnvelopeTypes
    <3>2. n <= env[2]
        BY <1>2, <1>3, <3>1, WindowIsLatest
    <3>3. n \in Indices /\ env[2] \in Indices
        BY <1>7, <3>1, LogFacts
    <3>4. n \in Nat /\ env[2] \in Nat
        BY <3>3, CoverTypes
    <3> QED
        BY <2>1, <3>2, <3>4
  <2> QED
      BY <1>4, <1>5, <2>1 DEF SnapshotInv
<1>12. PlaceInv' /\ TokenInv'
    BY <1>1, <1>4, <1>5, <1>8 DEF PlaceInv, TokenInv
<1> QED
    BY <1>9, <1>10, <1>11, <1>12 DEF CoverInv

\* What a snapshot replaces and lacks is not claimed yet.
LEMMA PersistCovers ==
  ASSUME OnePass, TypeInv, WriteInv, CoverInv, NEW j \in Jobs, PersistOne(j),
         UNCHANGED <<upstreamVars, delivered, after>>
  PROVE  CoverInv'
<1>1. PICK env \in Queued(batch[j]) :
         /\ env[1] \in Keys /\ env[2] \in Nat /\ env = <<env[1], env[2]>>
         /\ table'[env[1]] = env[2]
         /\ \A k \in Keys : k # env[1] => table'[k] = table[k]
         /\ Queued(batch'[j]) \subseteq Queued(batch[j])
         /\ Queued(batch[j]) \subseteq Queued(batch'[j]) \cup {env}
    BY PersistTypes, LogFacts
<1>2. /\ phase[j] = "persist" /\ phase'[j] = "audit"
      /\ UNCHANGED <<cursor, seen, next, clock, used, log, expired, webhooks, delivered, after>>
    BY PersistTypes, LogFacts DEF upstreamVars
<1>3. \A i \in Jobs : i = j
    BY DEF OnePass
<1>4. /\ Indices' = Indices /\ Listed' = Listed /\ Passed' = Passed
      /\ \A p : Of(p)' = Of(p) /\ Born(p)' = Born(p)
    BY <1>2, SameLog DEF Passed
<1>5. \A n \in Indices : n \in Nat /\ log[n].obj \in Keys /\ log[n].at \in Nat
    BY CoverTypes
<1>6. ASSUME NEW n \in Indices, Covered(n), log[n].obj # env[1] \/ n <= env[2]
      PROVE  Covered(n)'
  <2>1. Owed(n)' <=> Owed(n)
      BY <1>2, <1>4 DEF Owed
  <2>2. table[log[n].obj] >= n => table'[log[n].obj] >= n
      BY <1>1, <1>5, <1>6
  <2> QED
      BY <1>2, <1>6, <2>1, <2>2 DEF Covered
<1>7. ASSUME NEW n \in Indices, Seen(j, n), log[n].obj # env[1] \/ n <= env[2]
      PROVE  Seen(j, n)'
  <2>1. CASE Covered(n)
      BY <1>6, <1>7, <2>1 DEF Seen
  <2>2. CASE \E e \in Queued(batch[j]) : e[1] = log[n].obj /\ e[2] >= n
    <3>1. PICK e \in Queued(batch[j]) : e[1] = log[n].obj /\ e[2] >= n
        BY <2>2
    <3>2. CASE e = env
      <4>1. table'[log[n].obj] >= n
          BY <1>1, <3>1, <3>2
      <4> QED
          BY <1>2, <4>1 DEF Seen, Covered
    <3>3. CASE e \in Queued(batch'[j])
        BY <1>2, <3>1, <3>3 DEF Seen
    <3> QED
        BY <1>1, <3>2, <3>3
  <2> QED
      BY <1>7, <2>1, <2>2 DEF Seen
<1>8. ASSUME NEW n \in Listed, log[n].obj = env[1], ~(n <= env[2])
      PROVE  /\ n > expired
             /\ cursor # NoCursor => log[n].at > cursor
             /\ next[j] # NoCursor => log[n].at > next[j]
  <2>1. n \in Listed \cap Of(env[1]) /\ n > env[2]
      BY <1>1, <1>5, <1>8, LogFacts DEF Of
  <2> QED
      BY <2>1 DEF CoverInv, SnapshotInv
<1>9. ClockInv'
  <2>1. phase'[j] # "idle" /\ phase[j] # "idle"
      BY <1>2
  <2> QED
      BY <1>2, <1>3, <1>4, <2>1 DEF CoverInv, ClockInv, Over
<1>10. ClaimInv'
  <2>1. ASSUME NEW n \in Passed PROVE Covered(n)'
    <3>1. /\ n \in Listed /\ n \in Indices
          /\ cursor # NoCursor /\ log[n].at <= cursor /\ cursor \in Nat
        BY LogFacts, CoverTypes DEF Passed
    <3>2. log[n].obj # env[1] \/ n <= env[2]
        BY <1>5, <1>8, <3>1
    <3> QED
        BY <1>6, <3>1, <3>2 DEF CoverInv, ClaimInv
  <2>2. ASSUME NEW n \in Listed, n <= expired PROVE Covered(n)'
    <3>1. n \in Indices /\ (log[n].obj # env[1] \/ n <= env[2])
        BY <1>5, <1>8, <2>2, LogFacts, CoverTypes
    <3> QED
        BY <1>6, <2>2, <3>1 DEF CoverInv, ClaimInv
  <2> QED
      BY <1>2, <1>4, <2>1, <2>2 DEF ClaimInv
<1>11. OrderedInv' /\ SnapshotInv'
    BY <1>1, <1>2, <1>3, <1>4 DEF CoverInv, OrderedInv, SnapshotInv
<1>12. PlaceInv'
    BY <1>2, <1>3 DEF PlaceInv
<1>13. TokenInv'
  <2>1. ASSUME NEW n \in Listed, next[j] # NoCursor, log[n].at <= next[j] PROVE Seen(j, n)'
    <3>1. next[j] \in Nat /\ n \in Indices
        BY <2>1, LogFacts, CoverTypes
    <3>2. log[n].obj # env[1] \/ n <= env[2]
        BY <1>5, <1>8, <2>1, <3>1
    <3>3. Seen(j, n)
        BY <1>2, <2>1 DEF CoverInv, TokenInv
    <3> QED
        BY <1>7, <3>1, <3>2, <3>3
  <2> QED
      BY <1>2, <1>3, <1>4, <2>1 DEF TokenInv
<1> QED
    BY <1>9, <1>10, <1>11, <1>12, <1>13 DEF CoverInv

\* An audit entry leaves cursor, rows and envelopes alone.
LEMMA AuditCovers ==
  ASSUME OnePass, TypeInv, WriteInv, CoverInv, NEW j \in Jobs, AuditOne(j),
         UNCHANGED <<upstreamVars, delivered, after>>
  PROVE  CoverInv'
<1>1. /\ phase[j] = "audit" /\ phase'[j] = "persist"
      /\ UNCHANGED <<table, cursor, seen, batch, next, clock, used, log, expired, webhooks,
                     delivered, after>>
    BY AuditTypes, LogFacts DEF upstreamVars
<1>2. \A i \in Jobs : i = j
    BY DEF OnePass
<1>3. /\ Indices' = Indices /\ Listed' = Listed /\ Passed' = Passed
      /\ \A p : Of(p)' = Of(p) /\ Born(p)' = Born(p)
    BY <1>1, SameLog DEF Passed
<1>4. \A n : (Covered(n)' <=> Covered(n)) /\ (Seen(j, n)' <=> Seen(j, n))
    BY <1>1, <1>3 DEF Covered, Owed, Seen
<1>5. ClockInv' /\ ClaimInv' /\ OrderedInv' /\ SnapshotInv'
    BY <1>1, <1>2, <1>3, <1>4
    DEF CoverInv, ClockInv, Over, ClaimInv, OrderedInv, SnapshotInv
<1>6. PlaceInv' /\ TokenInv'
    BY <1>1, <1>2, <1>3, <1>4 DEF CoverInv, PlaceInv, TokenInv
<1> QED
    BY <1>5, <1>6 DEF CoverInv

\* The cursor claims what its pass has seen, and by now written.
LEMMA SaveCovers ==
  ASSUME OnePass, TypeInv, WriteInv, CoverInv, NEW j \in Jobs, SaveCursor(j),
         UNCHANGED <<upstreamVars, delivered, after>>
  PROVE  CoverInv'
<1>1. /\ phase[j] = "persist" /\ phase'[j] = "idle"
      /\ Queued(batch[j]) = {} /\ cursor' = next[j]
      /\ UNCHANGED <<table, seen, batch, next, clock, used, log, expired, webhooks,
                     delivered, after>>
    BY SaveTypes, LogFacts DEF upstreamVars
<1>2. \A i \in Jobs : i = j
    BY DEF OnePass
<1>3. Indices' = Indices /\ Listed' = Listed /\ \A p : Of(p)' = Of(p)
    BY <1>1, SameLog
<1>4. \A n : Covered(n)' <=> Covered(n)
    BY <1>1, <1>3 DEF Covered, Owed
<1>5. ClockInv'
  <2>1. Over(next[j])
      BY <1>1 DEF CoverInv, ClockInv
  <2> QED
      BY <1>1, <1>2, <1>3, <2>1 DEF CoverInv, ClockInv, Over
<1>6. ClaimInv'
  <2>1. ASSUME NEW n \in Passed' PROVE Covered(n)
    <3>1. n \in Listed /\ next[j] # NoCursor /\ log[n].at <= next[j]
        BY <1>1, <1>3 DEF Passed
    <3>2. Seen(j, n)
        BY <1>1, <3>1 DEF CoverInv, TokenInv
    <3> QED
        BY <1>1, <3>2 DEF Seen
  <2> QED
      BY <1>1, <1>3, <1>4, <2>1 DEF CoverInv, ClaimInv
<1>7. OrderedInv' /\ SnapshotInv' /\ PlaceInv' /\ TokenInv'
    BY <1>1, <1>2, <1>3 DEF CoverInv, OrderedInv, SnapshotInv, PlaceInv, TokenInv
<1> QED
    BY <1>5, <1>6, <1>7 DEF CoverInv

\* A pass that falls back or fails claims nothing.
LEMMA DropCovers ==
  ASSUME OnePass, TypeInv, WriteInv, CoverInv, NEW j \in Jobs,
         \/ FallBack(j) /\ UNCHANGED after
         \/ Fail(j) /\ after' = [after EXCEPT ![j] = MaxEvents + 1],
         UNCHANGED <<upstreamVars, delivered>>
  PROVE  CoverInv'
<1>1. /\ batch'[j] = <<>> /\ Queued(batch'[j]) = {}
      /\ phase'[j] \in {"full", "idle"}
      /\ phase'[j] = "full" => phase[j] = "incremental" /\ next'[j] = NoCursor
      /\ UNCHANGED <<table, cursor, seen, clock, used, log, expired, webhooks, delivered>>
    BY DropTypes, LogFacts DEF upstreamVars
<1>2. \A i \in Jobs : i = j
    BY DEF OnePass
<1>3. /\ Indices' = Indices /\ Listed' = Listed /\ Passed' = Passed
      /\ \A p : Of(p)' = Of(p) /\ Born(p)' = Born(p)
    BY <1>1, SameLog DEF Passed
<1>4. \A n : Covered(n)' <=> Covered(n)
    BY <1>1, <1>3 DEF Covered, Owed
<1>5. phase'[j] = "full" => after'[j] = MaxEvents + 1
  <2> SUFFICES ASSUME phase'[j] = "full" PROVE after'[j] = MaxEvents + 1
      OBVIOUS
  <2>1. phase[j] = "incremental"
      BY <1>1
  <2>2. after[j] = MaxEvents + 1
      BY <2>1 DEF WriteInv, BatchInv
  <2>3. after \in [Jobs -> 1..(MaxEvents + 1)]
      BY DEF TypeInv, TypeOK
  <2> QED
      BY <2>2, <2>3
<1>6. ClockInv' /\ ClaimInv' /\ OrderedInv'
    BY <1>1, <1>2, <1>3, <1>4 DEF CoverInv, ClockInv, Over, ClaimInv, OrderedInv
<1>7. SnapshotInv' /\ PlaceInv' /\ TokenInv'
    BY <1>1, <1>2, <1>3, <1>5 DEF SnapshotInv, PlaceInv, TokenInv
<1> QED
    BY <1>6, <1>7 DEF CoverInv

\* Deliveries that come in any order are the only thing CoverInv does not survive.
LEMMA CoverStep ==
  ASSUME OnePass, Sound
  PROVE  TypeInv /\ WriteInv /\ (webhooks # "any" => CoverInv) /\ [Next]_vars
           => (webhooks # "any" => CoverInv)'
<1> SUFFICES ASSUME TypeInv, WriteInv, webhooks # "any" => CoverInv, [Next]_vars,
                    webhooks' # "any"
             PROVE  CoverInv'
    OBVIOUS
<1>1. webhooks' = webhooks
    BY DEF Next, vars, upstreamVars, Tick, Change, Expire, WebhookWrites, PassStep,
           FetchStep, FetchFullPage, FetchIncremental, CursorRejected, PassFails
<1>2. webhooks # "any" /\ CoverInv
    BY <1>1
<1>3. CASE Tick
    BY <1>2, <1>3, RestCovers DEF Tick, passVars
<1>4. ASSUME NEW p \in Keys, Change(p) PROVE CoverInv'
    BY <1>2, <1>4, ChangeCovers
<1>5. CASE Expire
    BY <1>2, <1>5, ExpireCovers
<1>6. ASSUME NEW n \in Indices, WebhookWrites(n) PROVE CoverInv'
    BY <1>2, <1>6, WebhookCovers
<1>7. ASSUME NEW j \in Jobs, PassStep(j) PROVE CoverInv'
    BY <1>2, <1>7, BeginCovers, PersistCovers, AuditCovers, SaveCovers DEF PassStep, PersistBatch
<1>8. ASSUME NEW j \in Jobs, FetchStep(j) PROVE CoverInv'
    BY <1>2, <1>8, FullCovers, IncrementalCovers DEF FetchStep
<1>9. ASSUME NEW j \in Jobs, CursorRejected(j) \/ PassFails(j) PROVE CoverInv'
    BY <1>2, <1>9, DropCovers DEF CursorRejected, PassFails
<1>10. CASE UNCHANGED vars
    BY <1>2, <1>10, RestCovers DEF vars, passVars, upstreamVars
<1> QED
    BY <1>3, <1>4, <1>5, <1>6, <1>7, <1>8, <1>9, <1>10 DEF Next

LEMMA CoverHolds == ASSUME OnePass, Sound PROVE Spec => [](webhooks # "any" => CoverInv)
<1>1. Init => CoverInv
  <2> SUFFICES ASSUME Init PROVE CoverInv
      OBVIOUS
  <2>1. /\ Indices = {} /\ Listed = {} /\ Passed = {}
        /\ delivered = {} /\ cursor = NoCursor
        /\ phase = [j \in Jobs |-> "idle"] /\ batch = [j \in Jobs |-> <<>>]
      BY DEF Init, PassInit, Indices, Listed, Passed
  <2>2. ClockInv /\ ClaimInv /\ OrderedInv
      BY <2>1 DEF ClockInv, Over, ClaimInv, OrderedInv
  <2>3. SnapshotInv /\ PlaceInv /\ TokenInv
      BY <2>1, QueuedEmpty DEF SnapshotInv, PlaceInv, TokenInv
  <2> QED
      BY <2>2, <2>3 DEF CoverInv
<1>2. Init => (webhooks # "any" => CoverInv)
    BY <1>1
<1> QED
    BY <1>2, CoverStep, TypeHolds, WriteHolds, PTL DEF Spec

\* One pass at a time: without webhooks, no listed event the cursor has passed is missing
\* in the table, for pages, failures, rejected cursors and forgotten events in any order.
THEOREM CursorCovers == ASSUME OnePass, Sound PROVE Spec => []CursorCoversTable
<1>1. (webhooks # "any" => CoverInv) => CursorCoversTable
    BY DEF CoverInv, ClaimInv, Covered, Owed, CursorCoversTable
<1> QED
    BY <1>1, CoverHolds, PTL

\* One pass at a time: where webhooks come in the order of the events, or there are none, a
\* row is as recent as the listed events the cursor has passed, or has a delivery to come.
THEOREM CursorOrDeliveryHolds ==
  ASSUME OnePass, Sound, "any" \notin Deliveries
  PROVE  Spec => []CursorOrDelivery
<1>1. TypeInv /\ (webhooks # "any" => CoverInv) => CursorOrDelivery
    BY DEF TypeInv, TypeOK, CoverInv, ClaimInv, Covered, Owed, CursorOrDelivery
<1> QED
    BY <1>1, CoverHolds, TypeHolds, PTL
=============================================================================
