-------------------------- MODULE RunnerPassProofs --------------------------
(***************************************************************************)
(* What the proofs about the sources share: finite sets of versions, the   *)
(* envelopes of a batch, and what the steps of a pass do to its variables. *)
(***************************************************************************)
EXTENDS RunnerPass, FiniteSetTheorems, TLAPS

\* One pass at a time, which is what one process alive means (SyncRun!OneExecuting).
OnePass == \A i, j \in Jobs : i = j

----------------------------------------------------------------------------
\* Finite sets of numbers

\* A finite set of numbers has a least member.
LEMMA NatLeast ==
  ASSUME NEW S \in SUBSET Nat, IsFiniteSet(S), S # {}
  PROVE  \E x \in S : \A y \in S : x <= y
<1> DEFINE Lower(x) == {d \in S : d < x}
<1> DEFINE T == {Lower(x) : x \in S}
<1>1. IsWellFoundedOn(StrictSubsetOrdering(S), SUBSET S)
    BY FS_StrictSubsetOrderingWellFounded, FS_FiniteSubsetsOfFinite
<1>2. T \subseteq SUBSET S /\ T # {}
    OBVIOUS
<1>3. PICK L \in T : \A M \in T : <<M, L>> \notin StrictSubsetOrdering(S)
    BY <1>1, <1>2, WFMin
<1>4. PICK x \in S : L = Lower(x)
    BY <1>3
<1>5. ASSUME NEW d \in S, d < x PROVE FALSE
  <2>1. Lower(d) \subseteq Lower(x) /\ Lower(d) # Lower(x)
    <3>1. d \in Nat /\ x \in Nat /\ S \subseteq Nat
        OBVIOUS
    <3>2. \A y \in S : y < d => y < x
        BY <1>5, <3>1
    <3>3. d \in Lower(x) /\ d \notin Lower(d)
        BY <1>5, <3>1
    <3> QED
        BY <3>2, <3>3
  <2>2. <<Lower(d), Lower(x)>> \in StrictSubsetOrdering(S)
      BY <2>1 DEF StrictSubsetOrdering
  <2> QED
      BY <1>3, <1>4, <2>2
<1> QED
    BY <1>4, <1>5

\* And a greatest one.
LEMMA NatGreatest ==
  ASSUME NEW S \in SUBSET Nat, IsFiniteSet(S), S # {}
  PROVE  \E x \in S : \A y \in S : y <= x
<1> DEFINE Upper(x) == {d \in S : d > x}
<1> DEFINE T == {Upper(x) : x \in S}
<1>1. IsWellFoundedOn(StrictSubsetOrdering(S), SUBSET S)
    BY FS_StrictSubsetOrderingWellFounded, FS_FiniteSubsetsOfFinite
<1>2. T \subseteq SUBSET S /\ T # {}
    OBVIOUS
<1>3. PICK L \in T : \A M \in T : <<M, L>> \notin StrictSubsetOrdering(S)
    BY <1>1, <1>2, WFMin
<1>4. PICK x \in S : L = Upper(x)
    BY <1>3
<1>5. ASSUME NEW d \in S, d > x PROVE FALSE
  <2>1. Upper(d) \subseteq Upper(x) /\ Upper(d) # Upper(x)
    <3>1. d \in Nat /\ x \in Nat /\ S \subseteq Nat
        OBVIOUS
    <3>2. \A y \in S : y > d => y > x
        BY <1>5, <3>1
    <3>3. d \in Upper(x) /\ d \notin Upper(d)
        BY <1>5, <3>1
    <3> QED
        BY <3>2, <3>3
  <2>2. <<Upper(d), Upper(x)>> \in StrictSubsetOrdering(S)
      BY <2>1 DEF StrictSubsetOrdering
  <2> QED
      BY <1>3, <1>4, <2>2
<1> QED
    BY <1>4, <1>5

----------------------------------------------------------------------------
\* The envelopes of a batch

Queued(pages) == UNION {pages[i] : i \in 1..Len(pages)}

\* No pages hold no envelope.
LEMMA QueuedEmpty == Queued(<<>>) = {}
BY DEF Queued

\* A page more holds its envelopes more.
LEMMA QueuedAppend ==
  ASSUME NEW S, NEW pages \in Seq(SUBSET S), NEW page \in SUBSET S
  PROVE  /\ Append(pages, page) \in Seq(SUBSET S)
         /\ Queued(Append(pages, page)) = Queued(pages) \cup page
<1> DEFINE more == Append(pages, page)
<1>1. /\ more \in Seq(SUBSET S) /\ Len(more) = Len(pages) + 1 /\ Len(pages) \in Nat
      /\ more[Len(pages) + 1] = page
      /\ \A i \in 1..Len(pages) : more[i] = pages[i]
    OBVIOUS
<1> HIDE DEF more
<1>2. 1..Len(more) = 1..Len(pages) \cup {Len(pages) + 1}
    BY <1>1
<1>3. Queued(more) = Queued(pages) \cup page
    BY <1>1, <1>2 DEF Queued
<1> QED
    BY <1>1, <1>3 DEF more

\* What is left of a batch when one envelope is persisted.
LEMMA QueuedWithout ==
  ASSUME NEW S, NEW pages \in Seq(SUBSET S), pages # <<>>, NEW env \in Head(pages)
  PROVE  /\ Without(pages, env) \in Seq(SUBSET S)
         /\ env \in Queued(pages)
         /\ Queued(Without(pages, env)) \subseteq Queued(pages)
         /\ Queued(pages) \subseteq Queued(Without(pages, env)) \cup {env}
<1> DEFINE rest == Head(pages) \ {env}
<1>1. /\ Len(pages) \in Nat /\ Len(pages) # 0
      /\ Head(pages) = pages[1] /\ Head(pages) \in SUBSET S
      /\ Tail(pages) \in Seq(SUBSET S)
      /\ Len(Tail(pages)) = Len(pages) - 1
      /\ \A i \in 1..(Len(pages) - 1) : Tail(pages)[i] = pages[i + 1]
    OBVIOUS
<1>2. \A i \in 2..Len(pages) : pages[i] = Tail(pages)[i - 1]
    BY <1>1
<1>3. Queued(pages) = Head(pages) \cup Queued(Tail(pages))
  <2>1. Queued(pages) = pages[1] \cup UNION {pages[i] : i \in 2..Len(pages)}
      BY <1>1 DEF Queued
  <2>2. UNION {pages[i] : i \in 2..Len(pages)} = Queued(Tail(pages))
    <3>1. ASSUME NEW i \in 2..Len(pages) PROVE pages[i] \subseteq Queued(Tail(pages))
      <4>1. i - 1 \in 1..Len(Tail(pages)) /\ pages[i] = Tail(pages)[i - 1]
          BY <1>1, <1>2
      <4> QED
          BY <4>1 DEF Queued
    <3>2. ASSUME NEW i \in 1..Len(Tail(pages))
          PROVE  Tail(pages)[i] \subseteq UNION {pages[k] : k \in 2..Len(pages)}
      <4>1. i + 1 \in 2..Len(pages) /\ Tail(pages)[i] = pages[i + 1]
          BY <1>1
      <4> QED
          BY <4>1
    <3> QED
        BY <3>1, <3>2 DEF Queued
  <2> QED
      BY <1>1, <2>1, <2>2
<1>4. CASE rest = {}
  <2>1. Without(pages, env) = Tail(pages)
      BY <1>4 DEF Without
  <2> QED
      BY <1>1, <1>3, <1>4, <2>1
<1>5. CASE rest # {}
  <2> DEFINE left == <<rest>> \o Tail(pages)
  <2>1. Without(pages, env) = left
      BY <1>5 DEF Without
  <2>2. /\ left \in Seq(SUBSET S)
        /\ Len(left) = Len(pages)
        /\ left[1] = rest
        /\ \A i \in 2..Len(pages) : left[i] = pages[i]
      BY <1>1, <1>2
  <2>3. Queued(left) = rest \cup UNION {pages[i] : i \in 2..Len(pages)}
    <3>1. Queued(left) = left[1] \cup UNION {left[i] : i \in 2..Len(pages)}
      <4>1. 1..Len(left) = {1} \cup 2..Len(pages)
          BY <1>1, <2>2
      <4> HIDE DEF left
      <4> QED
          BY <4>1 DEF Queued
    <3>2. UNION {left[i] : i \in 2..Len(pages)} = UNION {pages[i] : i \in 2..Len(pages)}
      <4>1. \A i \in 2..Len(pages) : left[i] = pages[i]
          BY <2>2
      <4> HIDE DEF left
      <4> QED
          BY <4>1
    <3> QED
        BY <2>2, <3>1, <3>2
  <2>4. Queued(pages) = pages[1] \cup UNION {pages[i] : i \in 2..Len(pages)}
      BY <1>1 DEF Queued
  <2> QED
      BY <1>1, <2>1, <2>2, <2>3, <2>4
<1> QED
    BY <1>4, <1>5

\* What is queued is an envelope, and so a pair.
LEMMA QueuedTypes ==
  ASSUME PassTypeOK, NEW j \in Jobs
  PROVE  \A env \in Queued(batch[j]) :
            /\ env \in Envelopes
            /\ env[1] \in Keys /\ env[2] \in Nat /\ env = <<env[1], env[2]>>
<1>1. batch[j] \in Seq(SUBSET Envelopes)
    BY DEF PassTypeOK
<1>2. \A i \in 1..Len(batch[j]) : batch[j][i] \subseteq Envelopes
    BY <1>1
<1> QED
    BY <1>2 DEF Queued, Envelopes

----------------------------------------------------------------------------
\* The steps of a pass

\* What a pass is that has just begun, and that it is well typed.
LEMMA BeginTypes ==
  ASSUME PassTypeOK, NEW j \in Jobs, Begin(j)
  PROVE  /\ PassTypeOK'
         /\ phase[j] = "idle" /\ batch' = batch
         /\ phase'[j] \in {"full", "incremental"}
         /\ phase'[j] = "incremental" => cursor # NoCursor
         /\ seen'[j] = cursor /\ next'[j] = NoCursor
         /\ UNCHANGED <<table, audit, cursor, current, failures>>
BY DEF Begin, Mode, PassTypeOK, Phases

\* A pass that stops, or starts over, drops its batch.
LEMMA DropTypes ==
  ASSUME PassTypeOK, NEW j \in Jobs, FallBack(j) \/ Fail(j)
  PROVE  /\ PassTypeOK'
         /\ batch'[j] = <<>> /\ Queued(batch'[j]) = {}
         /\ phase'[j] \in {"full", "idle"}
         /\ phase'[j] = "full" => phase[j] = "incremental" /\ next'[j] = NoCursor
         /\ UNCHANGED <<table, audit, cursor, seen>>
<1>1. <<>> \in Seq(SUBSET Envelopes)
    OBVIOUS
<1>2. CASE FallBack(j)
  <2>1. /\ batch' = [batch EXCEPT ![j] = <<>>]
        /\ phase' = [phase EXCEPT ![j] = "full"]
        /\ next' = [next EXCEPT ![j] = NoCursor]
        /\ phase[j] = "incremental"
        /\ UNCHANGED <<table, audit, cursor, seen, current, failures>>
      BY <1>2 DEF FallBack
  <2> QED
      BY <1>1, <2>1, QueuedEmpty DEF PassTypeOK, Phases
<1>3. CASE Fail(j)
  <2>1. /\ batch' = [batch EXCEPT ![j] = <<>>]
        /\ phase' = [phase EXCEPT ![j] = "idle"]
        /\ current' = [current EXCEPT ![j] = {}]
        /\ failures < MaxFailures /\ failures' = failures + 1
        /\ UNCHANGED <<table, audit, cursor, seen, next>>
      BY <1>3 DEF Fail
  <2> QED
      BY <1>1, <2>1, QueuedEmpty, FailureAssumption DEF PassTypeOK, Phases
<1> QED
    BY <1>2, <1>3

\* What a page does to a pass.
LEMMA FetchedTypes ==
  ASSUME PassTypeOK, NEW j \in Jobs, NEW page \in SUBSET Envelopes,
         NEW c \in Nat \cup {NoCursor}, NEW last \in BOOLEAN, Fetched(j, page, c, last)
  PROVE  /\ PassTypeOK'
         /\ Queued(batch'[j]) = Queued(batch[j]) \cup page
         /\ phase'[j] = IF last THEN "persist" ELSE phase[j]
         /\ next'[j] = c
         /\ UNCHANGED <<table, audit, cursor, seen, current, failures>>
<1>1. batch[j] \in Seq(SUBSET Envelopes)
    BY DEF PassTypeOK
<1>2. /\ Append(batch[j], page) \in Seq(SUBSET Envelopes)
      /\ Queued(Append(batch[j], page)) = Queued(batch[j]) \cup page
    BY <1>1, QueuedAppend
<1>3. /\ batch' = [batch EXCEPT ![j] = IF page = {} THEN batch[j] ELSE Append(batch[j], page)]
      /\ next' = [next EXCEPT ![j] = c]
      /\ phase' = [phase EXCEPT ![j] = IF last THEN "persist" ELSE phase[j]]
      /\ UNCHANGED <<table, audit, cursor, seen, current, failures>>
    BY DEF Fetched
<1>4. batch' \in [Jobs -> Seq(SUBSET Envelopes)]
    BY <1>2, <1>3 DEF PassTypeOK
<1>5. Queued(batch'[j]) = Queued(batch[j]) \cup page
    BY <1>2, <1>3 DEF PassTypeOK
<1> QED
    BY <1>3, <1>4, <1>5 DEF PassTypeOK, Phases

\* An envelope leaves the batch for its row.
LEMMA PersistTypes ==
  ASSUME PassTypeOK, NEW j \in Jobs, PersistOne(j)
  PROVE  /\ PassTypeOK'
         /\ phase[j] = "persist" /\ phase'[j] = "audit"
         /\ UNCHANGED <<audit, cursor, seen, next, failures>>
         /\ \E env \in Queued(batch[j]) :
              /\ env[1] \in Keys /\ env[2] \in Nat /\ env = <<env[1], env[2]>>
              /\ table' = [table EXCEPT ![env[1]] = env[2]]
              /\ table'[env[1]] = env[2]
              /\ \A k \in Keys : k # env[1] => table'[k] = table[k]
              /\ current'[j] = {env}
              /\ Queued(batch'[j]) \subseteq Queued(batch[j])
              /\ Queued(batch[j]) \subseteq Queued(batch'[j]) \cup {env}
<1>1. PICK env \in Head(batch[j]) :
         /\ table' = [table EXCEPT ![env[1]] = env[2]]
         /\ batch' = [batch EXCEPT ![j] = Without(batch[j], env)]
         /\ current' = [current EXCEPT ![j] = {env}]
    BY DEF PersistOne
<1>2. /\ phase[j] = "persist" /\ batch[j] # <<>>
      /\ phase' = [phase EXCEPT ![j] = "audit"]
      /\ UNCHANGED <<audit, cursor, seen, next, failures>>
    BY DEF PersistOne
<1>3. batch[j] \in Seq(SUBSET Envelopes)
    BY DEF PassTypeOK
<1>4. /\ Without(batch[j], env) \in Seq(SUBSET Envelopes)
      /\ env \in Queued(batch[j])
      /\ Queued(Without(batch[j], env)) \subseteq Queued(batch[j])
      /\ Queued(batch[j]) \subseteq Queued(Without(batch[j], env)) \cup {env}
    BY <1>2, <1>3, QueuedWithout
<1>5. env \in Envelopes /\ env[1] \in Keys /\ env[2] \in Nat /\ env = <<env[1], env[2]>>
    BY <1>4, QueuedTypes
<1>6. /\ table'[env[1]] = env[2]
      /\ \A k \in Keys : k # env[1] => table'[k] = table[k]
      /\ batch'[j] = Without(batch[j], env)
      /\ current'[j] = {env}
    BY <1>1, <1>5 DEF PassTypeOK
<1>7. PassTypeOK'
    BY <1>1, <1>2, <1>4, <1>5 DEF PassTypeOK, Phases
<1> QED
    BY <1>1, <1>2, <1>4, <1>5, <1>6, <1>7 DEF PassTypeOK

\* What the audit entry of a record does.
LEMMA AuditTypes ==
  ASSUME PassTypeOK, NEW j \in Jobs, AuditOne(j)
  PROVE  /\ PassTypeOK'
         /\ phase[j] = "audit" /\ phase'[j] = "persist"
         /\ audit' = audit \cup current[j] /\ current'[j] = {}
         /\ UNCHANGED <<table, cursor, seen, batch, next, failures>>
BY DEF AuditOne, PassTypeOK, Phases

\* With nothing left to persist, the cursor of the fetch is saved.
LEMMA SaveTypes ==
  ASSUME PassTypeOK, NEW j \in Jobs, SaveCursor(j)
  PROVE  /\ PassTypeOK'
         /\ phase[j] = "persist" /\ phase'[j] = "idle"
         /\ Queued(batch[j]) = {} /\ batch[j] = <<>>
         /\ cursor' = next[j]
         /\ UNCHANGED <<table, audit, seen, batch, current, next, failures>>
BY QueuedEmpty DEF SaveCursor, PassTypeOK, Phases
=============================================================================
