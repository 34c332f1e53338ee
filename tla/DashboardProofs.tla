--------------------------- MODULE DashboardProofs ---------------------------
(***************************************************************************)
(* Proofs about the dashboard and what is under it: the passes of          *)
(* seed-finance and their rows, the allow-list, and the panels of the page *)
(* over any number of loads in flight.                                     *)
(***************************************************************************)
EXTENDS Dashboard, RevenueProofs

----------------------------------------------------------------------------
\* The passes of seed-finance

Instants == 1..MaxInstant

\* What a cursor or a pass that has read it claims: nothing later than every record, and
\* that the records up to it are in the table.
Kept(c) ==
    c \in Instants =>
        /\ \E k \in Listed : c <= fixture[k]
        /\ \A k \in Listed : fixture[k] <= c => table[k] = fixture[k]

\* No release comes while a pass runs, so its envelopes hold the records as they are; from
\* its fetch on, it has yet to persist all that the table lacks.
PassOK(j) ==
    /\ phase[j] \in {"idle", "full", "incremental"} => batch[j] = <<>>
    /\ phase[j] = "incremental" => seen[j] \in Instants \cup {Unparseable} /\ Kept(seen[j])
    /\ \A env \in Queued(batch[j]) : env[1] \in Listed /\ env[2] = fixture[env[1]]
    /\ phase[j] \in {"persist", "audit"} =>
         /\ next[j] \in Instants
         /\ \E k \in Listed : next[j] <= fixture[k]
         /\ \A k \in Listed : table[k] = fixture[k] \/ <<k, fixture[k]>> \in Queued(batch[j])

SourceInv ==
    /\ SeedFinanceTypeOK
    /\ Listed # {}
    /\ cursor \in Instants \cup {NoCursor, Unparseable}
    /\ Kept(cursor)
    /\ \A k \in Keys : table[k] <= fixture[k]
    /\ \A j \in Jobs : PassOK(j)

\* The types and bounds SourceInv comes with.
LEMMA SourceFacts ==
  ASSUME SourceInv
  PROVE  /\ MaxInstant \in Nat /\ NoCursor \notin Nat /\ Unparseable \in Nat
         /\ Unparseable \notin Instants /\ Instants \subseteq Nat
         /\ PassTypeOK /\ fixture \in [Keys -> 0..MaxInstant]
         /\ \A k \in Keys : fixture[k] \in Nat /\ fixture[k] <= MaxInstant /\ table[k] \in Nat
         /\ \A k \in Listed : k \in Keys /\ fixture[k] \in Instants
         /\ TableBound
<1>1. MaxInstant \in Nat /\ NoCursor \notin Nat
    BY FixtureAssumption, CursorAssumption
<1>2. PassTypeOK /\ fixture \in [Keys -> 0..MaxInstant] /\ table \in [Keys -> Nat]
    BY DEF SourceInv, SeedFinanceTypeOK, PassTypeOK
<1>3. \A k \in Keys : fixture[k] \in Nat /\ fixture[k] <= MaxInstant /\ table[k] \in Nat
    BY <1>1, <1>2
<1>4. TableBound
  <2>1. \A k \in Keys : table[k] <= fixture[k]
      BY DEF SourceInv
  <2>2. ASSUME NEW k \in Keys PROVE table[k] \in 0..MaxInstant
    <3>1. table[k] <= fixture[k] /\ fixture[k] <= MaxInstant
          /\ table[k] \in Nat /\ fixture[k] \in Nat
        BY <1>3, <2>1
    <3> QED
        BY <1>1, <3>1
  <2> QED
      BY <2>2 DEF TableBound
<1>5. \A k \in Listed : k \in Keys /\ fixture[k] \in Instants
  <2>1. ASSUME NEW k \in Keys, fixture[k] # 0 PROVE fixture[k] \in 1..MaxInstant
      BY <1>1, <1>3, <2>1
  <2> QED
      BY <2>1 DEF Listed, Instants
<1> QED
    BY <1>1, <1>2, <1>3, <1>4, <1>5 DEF Unparseable, Instants

\* The cursor of a fetch is the latest of its records.
LEMMA NextCursorFacts ==
  ASSUME SourceInv, NEW records \in SUBSET Listed, records # {}
  PROVE  /\ NextCursorFrom(records) \in Instants
         /\ \E k \in records : NextCursorFrom(records) = fixture[k]
<1> DEFINE S == {fixture[k] : k \in records}
<1>1. S \in SUBSET Instants /\ S # {} /\ Instants \subseteq Nat
    BY SourceFacts
<1>2. IsFiniteSet(Instants)
    BY SourceFacts, FS_Interval DEF Instants
<1> HIDE DEF S
<1>3. IsFiniteSet(S) /\ S \in SUBSET Nat
    BY <1>1, <1>2, FS_Subset
<1>4. PICK x \in S : \A y \in S : y <= x
    BY <1>1, <1>3, NatGreatest
<1>5. \A k \in records : x >= fixture[k]
    BY <1>3, <1>4 DEF S
<1>6. NextCursorFrom(records) \in S
    BY <1>4, <1>5 DEF NextCursorFrom, S
<1> QED
    BY <1>1, <1>6 DEF S

\* The envelopes of records hold each as the fixture has it.
LEMMA EnvelopeFacts ==
  ASSUME SourceInv, NEW records \in SUBSET Listed
  PROVE  /\ EnvelopesOf(records) \in SUBSET Envelopes
         /\ \A env \in EnvelopesOf(records) : env[1] \in Listed /\ env[2] = fixture[env[1]]
         /\ \A k \in records : <<k, fixture[k]>> \in EnvelopesOf(records)
BY SourceFacts DEF EnvelopesOf, Envelopes

\* A step within pass j alone.
LEMMA WithinPass ==
  ASSUME SourceInv, NEW j \in Jobs, PassTypeOK', PassOK(j)', UNCHANGED <<table, cursor, fixture>>,
         \A i \in Jobs \ {j} : /\ phase'[i] = phase[i] /\ seen'[i] = seen[i]
                               /\ batch'[i] = batch[i] /\ next'[i] = next[i]
  PROVE  SourceInv'
<1>1. Listed' = Listed /\ \A c : Kept(c)' = Kept(c)
    BY DEF Listed, Kept
<1>2. \A i \in Jobs \ {j} : PassOK(i)'
  <2> SUFFICES ASSUME NEW i \in Jobs \ {j} PROVE PassOK(i)'
      OBVIOUS
  <2>1. /\ phase'[i] = phase[i] /\ seen'[i] = seen[i] /\ batch'[i] = batch[i]
        /\ next'[i] = next[i] /\ PassOK(i)
      BY DEF SourceInv
  <2> QED
      BY <1>1, <2>1 DEF PassOK, Kept
<1> QED
    BY <1>1, <1>2 DEF SourceInv, SeedFinanceTypeOK, Kept

\* A release is later than all the cursor can claim, and no pass has read what it changes.
LEMMA ReleaseKeeps ==
  ASSUME SourceInv, NEW k \in Keys, Release(k)
  PROVE  SourceInv' /\ Promise!Change(k)
<1>1. PICK at \in 1..MaxInstant : /\ \A earlier \in UpdatedAt : at > earlier
                                  /\ fixture' = [fixture EXCEPT ![k] = at]
    BY DEF Release
<1>2. /\ UNCHANGED <<table, cursor, phase, seen, batch, next>> /\ PassTypeOK'
      /\ \A j \in Jobs : phase[j] = "idle" /\ batch[j] = <<>> /\ Queued(batch[j]) = {}
    BY QueuedEmpty, SourceFacts DEF Release, passVars, SourceInv, PassOK, PassTypeOK
<1>3. at \in Nat /\ at # 0 /\ at \in Instants /\ at <= MaxInstant
    BY <1>1, SourceFacts DEF Instants
<1>4. /\ fixture' \in [Keys -> 0..MaxInstant] /\ fixture'[k] = at
      /\ \A x \in Keys : x # k => fixture'[x] = fixture[x]
    BY <1>1, <1>3, SourceFacts
<1>5. \A x \in Listed : at > fixture[x]
    BY <1>1 DEF UpdatedAt
<1>6. fixture[k] < at
    BY <1>3, <1>5, SourceFacts DEF Listed
<1>7. Listed' = Listed \cup {k}
    BY <1>3, <1>4 DEF Listed
<1>8. cursor \in Instants => cursor < at
  <2> SUFFICES ASSUME cursor \in Instants PROVE cursor < at
      OBVIOUS
  <2>1. PICK x \in Listed : cursor <= fixture[x]
      BY DEF SourceInv, Kept
  <2>2. fixture[x] < at /\ fixture[x] \in Nat /\ cursor \in Nat
      BY <1>5, <2>1, SourceFacts
  <2> QED
      BY <1>3, <2>1, <2>2
<1>9. Kept(cursor)'
  <2> SUFFICES ASSUME cursor \in Instants
               PROVE  /\ \E x \in Listed' : cursor <= fixture'[x]
                      /\ \A x \in Listed' : fixture'[x] <= cursor => table[x] = fixture'[x]
      BY <1>2 DEF Kept, Instants
  <2>1. cursor <= fixture'[k] /\ k \in Listed'
      BY <1>3, <1>4, <1>7, <1>8, SourceFacts
  <2>2. ASSUME NEW x \in Listed', fixture'[x] <= cursor PROVE table[x] = fixture'[x]
    <3>1. x # k
        BY <1>3, <1>4, <1>8, <2>2, SourceFacts
    <3>2. x \in Listed /\ fixture'[x] = fixture[x]
        BY <1>4, <1>7, <3>1, SourceFacts
    <3> QED
        BY <2>2, <3>2 DEF SourceInv, Kept
  <2> QED
      BY <2>1, <2>2
<1>10. \A x \in Keys : table'[x] <= fixture'[x]
  <2> SUFFICES ASSUME NEW x \in Keys PROVE table[x] <= fixture'[x]
      BY <1>2
  <2>1. /\ table[x] <= fixture[x] /\ table[x] \in Nat /\ fixture[x] \in Nat
        /\ fixture'[x] \in {fixture[x], at} /\ (fixture'[x] = at => x = k \/ fixture[x] = at)
      BY <1>4, SourceFacts DEF SourceInv
  <2> QED
      BY <1>3, <1>6, <2>1
<1>11. \A j \in Jobs : PassOK(j)'
    BY <1>2 DEF PassOK
<1>12. SourceInv'
  <2>1. cursor' \in Instants' \cup {NoCursor, Unparseable'}
      BY <1>2 DEF SourceInv, Instants, Unparseable
  <2> QED
      BY <1>2, <1>4, <1>7, <1>9, <1>10, <1>11, <2>1 DEF SourceInv, SeedFinanceTypeOK
<1>13. {x \in Listed : cursor \in 1..MaxInstant /\ fixture[x] <= cursor}'
         = {x \in Listed : cursor \in 1..MaxInstant /\ fixture[x] <= cursor} \ {k}
  <2>1. ASSUME cursor \in 1..MaxInstant PROVE ~(at <= cursor)
      BY <1>3, <1>8, <2>1, SourceFacts DEF Instants
  <2> QED
      BY <1>2, <1>4, <1>7, <2>1, SourceFacts
<1> QED
    BY <1>1, <1>2, <1>4, <1>6, <1>12, <1>13 DEF Promise!Change

\* A damaged cursor claims nothing.
LEMMA DamageKeeps ==
  ASSUME SourceInv, CorruptCursor
  PROVE  SourceInv' /\ Promise!Claim
<1>1. /\ cursor' = Unparseable /\ failures' = failures + 1 /\ failures < MaxFailures
      /\ UNCHANGED <<table, audit, phase, seen, batch, current, next, fixture>>
    BY DEF CorruptCursor
<1>2. PassTypeOK'
    BY <1>1, SourceFacts, FailureAssumption DEF PassTypeOK
<1>3. Listed' = Listed /\ \A c : Kept(c)' = Kept(c)
    BY <1>1 DEF Listed, Kept
<1>4. Kept(cursor)'
    BY <1>1, SourceFacts DEF Kept
<1>5. \A j \in Jobs : PassOK(j)'
    BY <1>1, <1>3 DEF SourceInv, PassOK, Kept
<1>6. SourceInv'
    BY <1>1, <1>2, <1>3, <1>4, <1>5 DEF SourceInv, SeedFinanceTypeOK
<1>7. {x \in Listed : cursor \in 1..MaxInstant /\ fixture[x] <= cursor}' = {}
    BY <1>1, SourceFacts DEF Instants
<1> QED
    BY <1>1, <1>6, <1>7 DEF Promise!Claim

\* A pass begins with the cursor as it is.
LEMMA SourceBegins ==
  ASSUME SourceInv, NEW j \in Jobs, Begin(j), UNCHANGED fixture
  PROVE  SourceInv'
<1>1. /\ phase[j] = "idle" /\ batch' = batch /\ batch[j] = <<>>
      /\ phase'[j] \in {"full", "incremental"}
      /\ phase'[j] = "incremental" => cursor # NoCursor
      /\ seen'[j] = cursor /\ PassTypeOK'
      /\ UNCHANGED <<table, cursor>>
    BY BeginTypes, SourceFacts DEF SourceInv, PassOK
<1>2. \A i \in Jobs \ {j} : /\ phase'[i] = phase[i] /\ seen'[i] = seen[i]
                            /\ batch'[i] = batch[i] /\ next'[i] = next[i]
    BY SourceFacts DEF Begin, PassTypeOK
<1>3. PassOK(j)'
  <2>1. cursor \in Instants \cup {NoCursor, Unparseable} /\ Kept(cursor)
      BY DEF SourceInv
  <2> QED
      BY <1>1, <2>1, QueuedEmpty DEF PassOK, Kept, Listed
<1> QED
    BY <1>1, <1>2, <1>3, WithinPass

\* A fetch is of one pass.
LEMMA FetchedWithin ==
  ASSUME SourceInv, NEW j \in Jobs, NEW page, NEW c, NEW last, Fetched(j, page, c, last)
  PROVE  \A i \in Jobs \ {j} : /\ phase'[i] = phase[i] /\ seen'[i] = seen[i]
                               /\ batch'[i] = batch[i] /\ next'[i] = next[i]
BY SourceFacts DEF Fetched, PassTypeOK

\* A full fetch queues every record.
LEMMA SourceFetchesAll ==
  ASSUME SourceInv, NEW j \in Jobs, FetchFull(j)
  PROVE  SourceInv'
<1>1. /\ phase[j] = "full" /\ UNCHANGED fixture
      /\ Fetched(j, EnvelopesOf(Listed), NextCursorFrom(Listed), TRUE)
    BY DEF FetchFull
<1>2. /\ EnvelopesOf(Listed) \in SUBSET Envelopes
      /\ \A env \in EnvelopesOf(Listed) : env[1] \in Listed /\ env[2] = fixture[env[1]]
      /\ \A k \in Listed : <<k, fixture[k]>> \in EnvelopesOf(Listed)
    BY EnvelopeFacts
<1>3. /\ NextCursorFrom(Listed) \in Instants /\ NextCursorFrom(Listed) \in Nat
      /\ \E k \in Listed : NextCursorFrom(Listed) = fixture[k]
    BY NextCursorFacts, SourceFacts DEF SourceInv
<1> DEFINE page == EnvelopesOf(Listed)
           c == NextCursorFrom(Listed)
<1>4. page \in SUBSET Envelopes /\ c \in Nat \cup {NoCursor} /\ Fetched(j, page, c, TRUE)
    BY <1>1, <1>2, <1>3
<1> HIDE DEF page, c
<1>5. /\ PassTypeOK' /\ Queued(batch'[j]) = Queued(batch[j]) \cup page
      /\ phase'[j] = "persist" /\ next'[j] = c
      /\ UNCHANGED <<table, cursor>>
    BY <1>4, SourceFacts, FetchedTypes
<1>6. Queued(batch[j]) = {}
    BY <1>1, QueuedEmpty DEF SourceInv, PassOK
<1>7. PassOK(j)'
  <2>1. \E k \in Listed : c <= fixture[k]
      BY <1>3, SourceFacts DEF c
  <2>2. Listed' = Listed
      BY <1>1 DEF Listed
  <2> QED
      BY <1>1, <1>2, <1>3, <1>5, <1>6, <2>1, <2>2 DEF PassOK, page, c, Instants
<1> QED
    BY <1>1, <1>4, <1>5, <1>7, FetchedWithin, WithinPass

\* An incremental one queues what the cursor it read does not claim.
LEMMA SourceFetchesLater ==
  ASSUME SourceInv, NEW j \in Jobs, FetchIncremental(j)
  PROVE  SourceInv'
<1>1. phase[j] = "incremental" /\ UNCHANGED fixture /\ Listed' = Listed
    BY DEF FetchIncremental, Listed
<1>2. /\ batch[j] = <<>> /\ Queued(batch[j]) = {}
      /\ seen[j] \in Instants \cup {Unparseable} /\ Kept(seen[j])
    BY <1>1, QueuedEmpty DEF SourceInv, PassOK
<1>3. CASE seen[j] = Unparseable
  <2>1. FallBack(j)
      BY <1>3 DEF FetchIncremental
  <2>2. /\ PassTypeOK' /\ batch'[j] = <<>> /\ phase'[j] \in {"full", "idle"}
        /\ UNCHANGED <<table, cursor>>
      BY <2>1, SourceFacts, DropTypes
  <2>3. \A i \in Jobs \ {j} : /\ phase'[i] = phase[i] /\ seen'[i] = seen[i]
                              /\ batch'[i] = batch[i] /\ next'[i] = next[i]
      BY <2>1, SourceFacts DEF FallBack, PassTypeOK
  <2>4. PassOK(j)'
      BY <2>2, QueuedEmpty DEF PassOK
  <2> QED
      BY <1>1, <2>2, <2>3, <2>4, WithinPass
<1>4. CASE seen[j] # Unparseable
  <2> DEFINE changed == {k \in Listed : fixture[k] > seen[j]}
             page == EnvelopesOf(changed)
             c == IF changed = {} THEN seen[j] ELSE NextCursorFrom(changed)
  <2>1. seen[j] \in Instants /\ seen[j] \in Nat
      BY <1>2, <1>4, SourceFacts
  <2>2. Fetched(j, page, c, TRUE)
      BY <1>4 DEF FetchIncremental
  <2>3. changed \in SUBSET Listed
      OBVIOUS
  <2>4. ASSUME NEW k \in Listed, k \notin changed PROVE table[k] = fixture[k]
    <3>1. fixture[k] <= seen[j]
        BY <2>1, <2>4, SourceFacts
    <3> QED
        BY <1>2, <2>1, <3>1 DEF Kept
  <2> HIDE DEF changed
  <2>5. /\ page \in SUBSET Envelopes
        /\ \A env \in page : env[1] \in Listed /\ env[2] = fixture[env[1]]
        /\ \A k \in changed : <<k, fixture[k]>> \in page
      BY <2>3, EnvelopeFacts
  <2>6. c \in Instants /\ \E k \in Listed : c <= fixture[k]
    <3>1. CASE changed = {}
        BY <1>2, <2>1, <3>1 DEF Kept
    <3>2. CASE changed # {}
      <4>1. /\ NextCursorFrom(changed) \in Instants
            /\ \E k \in changed : NextCursorFrom(changed) = fixture[k]
          BY <2>3, <3>2, NextCursorFacts
      <4> QED
          BY <2>3, <3>2, <4>1, SourceFacts
    <3> QED
        BY <3>1, <3>2
  <2> HIDE DEF page, c
  <2>7. /\ PassTypeOK' /\ Queued(batch'[j]) = Queued(batch[j]) \cup page
        /\ phase'[j] = "persist" /\ next'[j] = c
        /\ UNCHANGED <<table, cursor>>
    <3>1. PassTypeOK /\ page \in SUBSET Envelopes /\ c \in Nat \cup {NoCursor}
        BY <2>5, <2>6, SourceFacts
    <3> QED
        BY <2>2, <3>1, FetchedTypes
  <2>8. PassOK(j)'
    <3>1. \A env \in Queued(batch'[j]) : env[1] \in Listed /\ env[2] = fixture[env[1]]
        BY <1>2, <2>5, <2>7
    <3>2. \A k \in Listed : table[k] = fixture[k] \/ <<k, fixture[k]>> \in Queued(batch'[j])
        BY <2>4, <2>5, <2>7
    <3> QED
        BY <1>1, <2>6, <2>7, <3>1, <3>2 DEF PassOK, Instants
  <2> QED
      BY <1>1, <2>2, <2>7, <2>8, FetchedWithin, WithinPass
<1> QED
    BY <1>3, <1>4

\* A row takes on its record, or keeps it.
LEMMA SourcePersists ==
  ASSUME SourceInv, NEW j \in Jobs, PersistOne(j), UNCHANGED fixture
  PROVE  /\ SourceInv' /\ UNCHANGED cursor
         /\ \E k \in Keys : /\ table[k] <= table'[k] /\ table'[k] <= fixture[k]
                            /\ table' = [table EXCEPT ![k] = table'[k]]
<1>1. /\ phase[j] = "persist" /\ phase'[j] = "audit"
      /\ UNCHANGED <<cursor, seen, next>> /\ PassTypeOK'
    BY PersistTypes, SourceFacts
<1>2. PICK env \in Queued(batch[j]) :
         /\ env[1] \in Keys /\ env[2] \in Nat /\ env = <<env[1], env[2]>>
         /\ table' = [table EXCEPT ![env[1]] = env[2]]
         /\ table'[env[1]] = env[2]
         /\ \A k \in Keys : k # env[1] => table'[k] = table[k]
         /\ Queued(batch'[j]) \subseteq Queued(batch[j])
         /\ Queued(batch[j]) \subseteq Queued(batch'[j]) \cup {env}
    BY PersistTypes, SourceFacts
<1>3. env[1] \in Listed /\ env[2] = fixture[env[1]]
    BY DEF SourceInv, PassOK
<1>4. \A k \in Keys : /\ table[k] <= fixture[k]
                      /\ table[k] = fixture[k] => table'[k] = fixture[k]
                      /\ table'[k] = table[k] \/ table'[k] = fixture[k]
    BY <1>2, <1>3 DEF SourceInv
<1>5. \A k \in Keys : table'[k] <= fixture[k]
    BY <1>4, SourceFacts
<1>6. Listed' = Listed /\ Instants' = Instants /\ \A k \in Listed : k \in Keys
    BY DEF Listed, Instants
<1>7. ASSUME NEW c, Kept(c)
      PROVE  c \in Instants => /\ \E k \in Listed : c <= fixture[k]
                               /\ \A k \in Listed : fixture[k] <= c => table'[k] = fixture[k]
    BY <1>4, <1>6, <1>7 DEF Kept
<1>8. Kept(cursor)'
    BY <1>1, <1>6, <1>7 DEF SourceInv, Kept
<1>9. PassOK(j)'
  <2>1. ASSUME NEW k \in Listed
        PROVE  table'[k] = fixture[k] \/ <<k, fixture[k]>> \in Queued(batch'[j])
    <3>1. table[k] = fixture[k] \/ <<k, fixture[k]>> \in Queued(batch[j])
        BY <1>1 DEF SourceInv, PassOK
    <3>2. CASE table[k] = fixture[k]
        BY <1>4, <1>6, <3>2
    <3>3. CASE <<k, fixture[k]>> \in Queued(batch[j])
      <4>1. <<k, fixture[k]>> \in Queued(batch'[j]) \/ <<k, fixture[k]>> = env
          BY <1>2, <3>3
      <4>2. <<k, fixture[k]>> = env => env[1] = k
          OBVIOUS
      <4> QED
          BY <1>2, <1>3, <4>1, <4>2
    <3> QED
        BY <3>1, <3>2, <3>3
  <2>2. \A e \in Queued(batch'[j]) : e[1] \in Listed /\ e[2] = fixture[e[1]]
      BY <1>2 DEF SourceInv, PassOK
  <2>3. next[j] \in Instants /\ \E k \in Listed : next[j] <= fixture[k]
      BY <1>1 DEF SourceInv, PassOK
  <2> QED
      BY <1>1, <1>6, <2>1, <2>2, <2>3 DEF PassOK
<1>10. ASSUME NEW i \in Jobs, i # j PROVE PassOK(i)'
  <2>1. /\ phase'[i] = phase[i] /\ seen'[i] = seen[i] /\ batch'[i] = batch[i]
        /\ next'[i] = next[i] /\ PassOK(i)
      BY <1>1, <1>10, SourceFacts DEF PersistOne, PassTypeOK, SourceInv
  <2>2. phase[i] \in {"persist", "audit"} =>
          \A k \in Listed : table'[k] = fixture[k] \/ <<k, fixture[k]>> \in Queued(batch'[i])
      BY <1>4, <1>6, <2>1 DEF PassOK
  <2>3. phase[i] = "incremental" => Kept(seen[i])'
      BY <1>1, <1>6, <1>7, <2>1 DEF PassOK, Kept
  <2> QED
      BY <1>6, <2>1, <2>2, <2>3 DEF PassOK, Kept
<1>11. SourceInv'
    BY <1>1, <1>5, <1>6, <1>8, <1>9, <1>10 DEF SourceInv, SeedFinanceTypeOK, Unparseable
<1>12. table[env[1]] <= table'[env[1]] /\ table'[env[1]] <= fixture[env[1]]
    BY <1>2, <1>3, <1>4, <1>5
<1> QED
    BY <1>1, <1>2, <1>11, <1>12

\* An audit entry changes neither rows nor envelopes.
LEMMA SourceAudits ==
  ASSUME SourceInv, NEW j \in Jobs, AuditOne(j), UNCHANGED fixture
  PROVE  SourceInv'
<1>1. /\ phase[j] = "audit" /\ phase'[j] = "persist" /\ PassTypeOK'
      /\ UNCHANGED <<table, cursor, seen, batch, next>>
    BY AuditTypes, SourceFacts
<1>2. \A i \in Jobs \ {j} : phase'[i] = phase[i]
    BY SourceFacts DEF AuditOne, PassTypeOK
<1>3. PassOK(j)'
    BY <1>1 DEF SourceInv, PassOK, Listed, Instants
<1> QED
    BY <1>1, <1>2, <1>3, WithinPass

\* The cursor claims what the pass has left in the table.
LEMMA SourceSaves ==
  ASSUME SourceInv, NEW j \in Jobs, SaveCursor(j), UNCHANGED fixture
  PROVE  SourceInv' /\ Promise!Claim
<1>1. /\ phase[j] = "persist" /\ phase'[j] = "idle" /\ PassTypeOK'
      /\ Queued(batch[j]) = {} /\ batch[j] = <<>> /\ cursor' = next[j]
      /\ UNCHANGED <<table, seen, batch, next>>
    BY SaveTypes, SourceFacts
<1>2. /\ next[j] \in Instants /\ \E k \in Listed : next[j] <= fixture[k]
      /\ \A k \in Listed : table[k] = fixture[k]
    BY <1>1 DEF SourceInv, PassOK
<1>3. Listed' = Listed /\ Instants' = Instants /\ \A c : Kept(c)' = Kept(c)
    BY <1>1 DEF Listed, Instants, Kept
<1>4. Kept(cursor)'
    BY <1>1, <1>2, <1>3 DEF Kept
<1>5. ASSUME NEW i \in Jobs PROVE PassOK(i)'
  <2>1. CASE i = j
      BY <1>1, <2>1, QueuedEmpty DEF PassOK
  <2>2. CASE i # j
    <3>1. phase'[i] = phase[i] /\ PassOK(i)
        BY <2>2, SourceFacts DEF SaveCursor, PassTypeOK, SourceInv
    <3> QED
        BY <1>1, <1>3, <3>1 DEF PassOK, Kept
  <2> QED
      BY <2>1, <2>2
<1>6. SourceInv'
    BY <1>1, <1>2, <1>3, <1>4, <1>5 DEF SourceInv, SeedFinanceTypeOK
<1>7. {x \in Listed : cursor \in 1..MaxInstant /\ fixture[x] <= cursor}' \subseteq Promise!InStep
    BY <1>2, <1>3, SourceFacts DEF Promise!InStep
<1> QED
    BY <1>1, <1>6, <1>7 DEF Promise!Claim

\* A pass that fails drops its envelopes.
LEMMA SourceFails ==
  ASSUME SourceInv, NEW j \in Jobs, Fail(j), UNCHANGED fixture
  PROVE  SourceInv'
<1>1. /\ batch'[j] = <<>> /\ Queued(batch'[j]) = {} /\ phase'[j] = "idle" /\ PassTypeOK'
      /\ UNCHANGED <<table, cursor, seen>>
    BY DropTypes, SourceFacts DEF Fail, PassTypeOK
<1>2. \A i \in Jobs \ {j} : phase'[i] = phase[i] /\ batch'[i] = batch[i] /\ next'[i] = next[i]
    BY SourceFacts DEF Fail, PassTypeOK
<1>3. PassOK(j)'
    BY <1>1 DEF PassOK
<1> QED
    BY <1>1, <1>2, <1>3, WithinPass

\* A failure elsewhere changes nothing here.
LEMMA SourceRests ==
  ASSUME SourceInv, failures' \in 0..MaxFailures,
         UNCHANGED <<table, audit, cursor, phase, seen, batch, current, next, fixture>>
  PROVE  SourceInv'
<1>1. PassTypeOK'
    BY SourceFacts DEF PassTypeOK
<1>2. Listed' = Listed /\ Instants' = Instants /\ \A c : Kept(c)' = Kept(c)
    BY DEF Listed, Instants, Kept
<1>3. \A j \in Jobs : PassOK(j)'
    BY <1>2 DEF SourceInv, PassOK, Kept
<1> QED
    BY <1>1, <1>2, <1>3 DEF SourceInv, SeedFinanceTypeOK, Kept

sourceVars == <<table, audit, cursor, phase, seen, batch, current, next, fixture>>

\* What a step of the dashboard is to the source.
SourceNext ==
    \/ \E k \in Keys : Release(k)
    \/ CorruptCursor
    \/ \E j \in Jobs : /\ UNCHANGED fixture
                       /\ \/ Begin(j) \/ PersistOne(j) \/ AuditOne(j) \/ SaveCursor(j) \/ Fail(j)
    \/ \E j \in Jobs : FetchFull(j) \/ FetchIncremental(j)
    \/ UNCHANGED sourceVars /\ failures' \in 0..MaxFailures

\* Every step of the dashboard is one of those.
LEMMA SourceSteps ==
  ASSUME SourceInv, [Next]_vars
  PROVE  SourceNext
<1>1. failures \in 0..MaxFailures /\ MaxFailures \in Nat
    BY SourceFacts, FailureAssumption DEF PassTypeOK
<1>2. failures < MaxFailures => failures + 1 \in 0..MaxFailures
    BY <1>1
<1>3. ASSUME UNCHANGED passVars, UNCHANGED fixture PROVE SourceNext
    BY <1>1, <1>3 DEF SourceNext, sourceVars, passVars
<1>4. CASE BackendStep
    BY <1>2, <1>3, <1>4
    DEF BackendStep, SeedOne, SeedAnew, AddByHand, SourceNext, sourceVars
<1>5. ASSUME NEW s \in Slots, LoadStep(s) PROVE SourceNext
    BY <1>3, <1>5 DEF LoadStep, AnswerFirst, AnswerSecond, Render, backendVars
<1>6. ASSUME NEW s \in Slots, LoadFails(s) PROVE SourceNext
    BY <1>1, <1>2, <1>6 DEF LoadFails, Lost, SourceNext, sourceVars
<1>7. ASSUME NEW j \in Jobs, OtherTrigger(j) \/ PassStep(j) \/ PassFails(j) PROVE SourceNext
    BY <1>7 DEF OtherTrigger, PassStep, PassFails, SeedFinanceStep, PersistBatch,
                SeedFinanceFails, SourceNext
<1>8. CASE TriggerStep
    BY <1>3, <1>8 DEF TriggerStep, TriggerReturns, TriggerArrives, SourceNext, backendVars
<1>9. CASE TriggerLost
    BY <1>2, <1>9 DEF TriggerLost, SourceNext, sourceVars
<1>10. CASE \/ \E section \in Sections : SetActiveSection(section)
            \/ AutoRefresh \/ SubmitRevenue \/ TriggerSubmit
    BY <1>3, <1>10 DEF SetActiveSection, AutoRefresh, SubmitRevenue, TriggerSubmit, backendVars
<1>11. CASE UNCHANGED vars
    BY <1>3, <1>11 DEF vars, backendVars
<1> QED
    BY <1>4, <1>5, <1>6, <1>7, <1>8, <1>9, <1>10, <1>11 DEF Next

\* Each of them keeps SourceInv and is a step of Mirror.
LEMMA SourceKeeps ==
  ASSUME SourceInv, SourceNext
  PROVE  SourceInv' /\ [Promise!Next]_(Promise!vars)
<1> DEFINE Claimed == {k \in Listed : cursor \in 1..MaxInstant /\ fixture[k] <= cursor}
           Mapped == Promise!Next \/ UNCHANGED <<fixture, table, Claimed>>
<1>1. SUFFICES SourceInv' /\ Mapped
    BY DEF Promise!vars
<1>2. ASSUME UNCHANGED <<fixture, table, cursor>> PROVE Mapped
    BY <1>2 DEF Listed
<1>3. ASSUME NEW k \in Keys, Release(k) PROVE SourceInv' /\ Mapped
    BY <1>3, ReleaseKeeps DEF Promise!Next
<1>4. CASE CorruptCursor
    BY <1>4, DamageKeeps DEF Promise!Next
<1>5. ASSUME NEW j \in Jobs, UNCHANGED fixture, PersistOne(j) PROVE Mapped
  <2>1. PICK k \in Keys : /\ table[k] <= table'[k] /\ table'[k] <= fixture[k]
                          /\ table' = [table EXCEPT ![k] = table'[k]]
      BY <1>5, SourcePersists
  <2>2. UNCHANGED cursor /\ UNCHANGED Claimed
      BY <1>5 DEF PersistOne, Listed
  <2>3. /\ table \in [Keys -> Nat] /\ table[k] \in Nat
        /\ table' \in [Keys -> Nat] /\ table'[k] \in Nat
      BY <1>5, PersistTypes, SourceFacts DEF PassTypeOK
  <2> HIDE DEF Claimed
  <2>4. CASE table[k] = table'[k]
    <3>1. table' = table
        BY <2>1, <2>3, <2>4
    <3> QED
        BY <1>5, <2>2, <3>1
  <2>5. CASE table[k] # table'[k]
    <3>1. table[k] < table'[k]
        BY <2>1, <2>3, <2>5
    <3>2. Promise!Write(k)
        BY <1>5, <2>1, <2>2, <3>1 DEF Promise!Write, Claimed
    <3> QED
        BY <3>2 DEF Promise!Next
  <2> QED
      BY <2>4, <2>5
<1>6. ASSUME NEW j \in Jobs, UNCHANGED fixture, Begin(j) \/ AuditOne(j) \/ Fail(j)
      PROVE  SourceInv' /\ Mapped
    BY <1>2, <1>6, SourceBegins, SourceAudits, SourceFails DEF Begin, AuditOne, Fail
<1>7. ASSUME NEW j \in Jobs, UNCHANGED fixture, SaveCursor(j) PROVE SourceInv' /\ Mapped
    BY <1>7, SourceSaves DEF Promise!Next
<1>8. ASSUME NEW j \in Jobs, FetchFull(j) \/ FetchIncremental(j) PROVE SourceInv' /\ Mapped
    BY <1>2, <1>8, SourceFetchesAll, SourceFetchesLater
    DEF FetchFull, FetchIncremental, Fetched, FallBack
<1>9. ASSUME UNCHANGED sourceVars, failures' \in 0..MaxFailures PROVE SourceInv' /\ Mapped
    BY <1>2, <1>9, SourceRests DEF sourceVars
<1> HIDE DEF Mapped
<1> QED
    BY <1>3, <1>4, <1>5, <1>6, <1>7, <1>8, <1>9, SourcePersists DEF SourceNext

\* The first state.
LEMMA SourceStart ==
  ASSUME SeedFinanceInit
  PROVE  SourceInv /\ Promise!Init
<1>1. /\ table = [k \in Keys |-> 0] /\ audit = {} /\ cursor = NoCursor
      /\ phase = [j \in Jobs |-> "idle"] /\ seen = [j \in Jobs |-> NoCursor]
      /\ batch = [j \in Jobs |-> <<>>] /\ current = [j \in Jobs |-> {}]
      /\ next = [j \in Jobs |-> NoCursor] /\ failures = 0 /\ fixture = FirstFixture
    BY DEF SeedFinanceInit, PassInit
<1>2. /\ MaxInstant \in Nat /\ NoCursor \notin Nat /\ MaxFailures \in Nat
      /\ fixture \in [Keys -> 0..MaxInstant] /\ \E k \in Keys : fixture[k] # 0
    BY <1>1, FixtureAssumption, CursorAssumption, FailureAssumption
<1>3. PassTypeOK
  <2>1. <<>> \in Seq(SUBSET Envelopes)
      OBVIOUS
  <2> QED
      BY <1>1, <1>2, <2>1 DEF PassTypeOK, Phases
<1>4. Kept(cursor)
    BY <1>1, <1>2 DEF Kept, Instants
<1>5. \A j \in Jobs : PassOK(j)
    BY <1>1, QueuedEmpty DEF PassOK
<1>6. ASSUME NEW k \in Keys PROVE table[k] <= fixture[k] /\ fixture[k] \in Nat
  <2>1. fixture[k] \in 0..MaxInstant /\ table[k] = 0
      BY <1>1, <1>2
  <2> QED
      BY <1>2, <2>1
<1>7. SourceInv
    BY <1>1, <1>2, <1>3, <1>4, <1>5, <1>6 DEF SourceInv, SeedFinanceTypeOK, Listed
<1>8. {k \in Listed : cursor \in 1..MaxInstant /\ fixture[k] <= cursor} = {}
    BY <1>1, <1>2
<1>9. fixture \in [Keys -> Nat]
    BY <1>2, <1>6
<1> QED
    BY <1>1, <1>7, <1>8, <1>9 DEF Promise!Init

LEMMA SourceHolds == Spec => []SourceInv
<1>1. Init => SourceInv
    BY SourceStart DEF Init, RevenueInit
<1>2. SourceInv /\ [Next]_vars => SourceInv'
    BY SourceSteps, SourceKeeps
<1> QED
    BY <1>1, <1>2, PTL DEF Spec

\* The passes of seed-finance implement Mirror, beside releases, damage to the cursor,
\* failures and whatever visitors do, and however many run at once.
THEOREM ImplementsMirror == Spec => MirrorSpec
<1>1. Init => Promise!Init
    BY SourceStart DEF Init, RevenueInit
<1>2. SourceInv /\ [Next]_vars => [Promise!Next]_(Promise!vars)
    BY SourceSteps, SourceKeeps
<1> QED
    BY <1>1, <1>2, SourceHolds, PTL DEF Spec, MirrorSpec, Promise!Spec

\* The summary and the breakdown agree in every state, over every range.
THEOREM ViewsAlwaysAgree == Spec => []ViewsAgree
<1>1. SourceInv => ViewsAgree
    BY SourceFacts, TablesAgree
<1> QED
    BY <1>1, SourceHolds, PTL

\* In every state the total of a range is that of the two it is cut into.
THEOREM RangesAlwaysCompose == Spec => []RangesCompose
<1>1. SourceInv => RangesCompose
    BY SourceFacts, TablesCompose
<1> QED
    BY <1>1, SourceHolds, PTL

----------------------------------------------------------------------------
\* The allow-list

ListInv ==
    /\ DOMAIN mapping \subseteq Pairs
    /\ \A p \in DOMAIN mapping : mapping[p] \in CanonicalStatus
    /\ seeding \in 0..Len(StatusMappings)
    /\ AllowInv

\* One entry more.
LEMMA UpsertKeeps ==
  ASSUME ListInv, NEW pair \in Pairs, NEW canonical \in CanonicalStatus,
         mapping' = Upserted(pair, canonical), seeding' \in 0..Len(StatusMappings),
         canonical = "collected" =>
           \/ pair \in ByHand
           \/ \E m \in ToSet(StatusMappings) :
                <<m.source, m.rawStatus>> = pair /\ m.canonicalStatus = "collected"
  PROVE  ListInv'
<1>1. AllowInv'
    BY SeedAllows DEF ListInv
<1>2. /\ DOMAIN mapping' = DOMAIN mapping \cup {pair}
      /\ \A p \in DOMAIN mapping' : mapping'[p] = IF p = pair THEN canonical ELSE mapping[p]
    BY DEF Upserted
<1>3. Pairs' = Pairs
    BY DEF Pairs
<1> QED
    BY <1>1, <1>2, <1>3 DEF ListInv, CanonicalStatus

\* The script upserts an entry it lists.
LEMMA SeedOneKeeps == ASSUME ListInv, SeedOne PROVE ListInv'
<1> DEFINE m == StatusMappings[seeding + 1]
           Entry == [source : STRING, rawStatus : STRING, canonicalStatus : CanonicalStatus]
<1>1. /\ seeding < Len(StatusMappings) /\ seeding' = seeding + 1
      /\ mapping' = Upserted(<<m.source, m.rawStatus>>, m.canonicalStatus)
    BY DEF SeedOne
<1>2. StatusMappings \in Seq(Entry) /\ Len(StatusMappings) \in Nat
    BY MappingAssumption
<1>3. seeding + 1 \in 1..Len(StatusMappings) /\ seeding' \in 0..Len(StatusMappings)
    BY <1>1, <1>2 DEF ListInv
<1>4. DOMAIN StatusMappings = 1..Len(StatusMappings)
    BY <1>2
<1>5. m \in ToSet(StatusMappings)
    BY <1>3, <1>4 DEF ToSet
<1>6. m.canonicalStatus \in CanonicalStatus
  <2>1. \A e \in Entry : e.canonicalStatus \in CanonicalStatus
      OBVIOUS
  <2> HIDE DEF Entry
  <2>2. m \in Entry
      BY <1>2, <1>3, <1>4
  <2> QED
      BY <2>1, <2>2
<1>7. <<m.source, m.rawStatus>> \in Pairs
    BY <1>5 DEF Pairs
<1> HIDE DEF m
<1> QED
    BY <1>1, <1>3, <1>5, <1>6, <1>7, UpsertKeeps

\* Every step keeps the allow-list allowed.
LEMMA ListStep ==
  ASSUME ListInv, [Next]_vars
  PROVE  ListInv'
<1>1. ASSUME UNCHANGED mapping, seeding' \in 0..Len(StatusMappings) PROVE ListInv'
    BY <1>1 DEF ListInv, AllowInv, Pairs
<1>2. ASSUME UNCHANGED revenueVars PROVE ListInv'
    BY <1>1, <1>2 DEF revenueVars, ListInv
<1>3. CASE BackendStep
  <2>1. CASE SeedAnew
    <3>1. 0 \in 0..Len(StatusMappings)
        BY MappingAssumption
    <3> QED
        BY <1>1, <2>1, <3>1 DEF SeedAnew
  <2>2. ASSUME NEW pair \in ByHand, AddByHand(pair) PROVE ListInv'
    <3>1. pair \in Pairs /\ "collected" \in CanonicalStatus
        BY DEF Pairs, CanonicalStatus
    <3> QED
        BY <2>2, <3>1, UpsertKeeps DEF AddByHand, ListInv
  <2> QED
      BY <1>2, <1>3, <2>1, <2>2, SeedOneKeeps DEF BackendStep
<1>4. ASSUME NEW s \in Slots, LoadStep(s) \/ LoadFails(s) PROVE ListInv'
    BY <1>2, <1>4 DEF LoadStep, AnswerFirst, AnswerSecond, Render, LoadFails, backendVars
<1>5. ASSUME NEW j \in Jobs, OtherTrigger(j) \/ PassStep(j) \/ PassFails(j) PROVE ListInv'
    BY <1>2, <1>5 DEF OtherTrigger, PassStep, PassFails
<1>6. CASE TriggerStep \/ TriggerLost
    BY <1>2, <1>6 DEF TriggerStep, TriggerReturns, TriggerArrives, TriggerLost, backendVars
<1>7. CASE \/ \E section \in Sections : SetActiveSection(section)
           \/ AutoRefresh \/ SubmitRevenue \/ TriggerSubmit
    BY <1>2, <1>7 DEF SetActiveSection, AutoRefresh, SubmitRevenue, TriggerSubmit, backendVars
<1>8. CASE UNCHANGED vars
    BY <1>2, <1>8 DEF vars, backendVars
<1> QED
    BY <1>3, <1>4, <1>5, <1>6, <1>7, <1>8 DEF Next

LEMMA ListHolds == Spec => []ListInv
<1>1. Init => ListInv
  <2> SUFFICES ASSUME RevenueInit PROVE ListInv
      BY DEF Init
  <2>1. Len(StatusMappings) \in Nat
      BY MappingAssumption
  <2>2. CASE mapping = <<>> /\ seeding = 0
      BY <2>1, <2>2 DEF ListInv, AllowInv
  <2>3. CASE mapping = Listing /\ seeding = Len(StatusMappings)
      BY <2>1, <2>3, ListingAllows DEF ListInv
  <2> QED
      BY <2>2, <2>3 DEF RevenueInit
<1>2. ListInv /\ [Next]_vars => ListInv'
    BY ListStep
<1> QED
    BY <1>1, <1>2, PTL DEF Spec

\* Nothing counts that the seed does not list as collected and nobody has added, wherever
\* the script was cut short.
THEOREM UnlistedNeverCountsHolds == Spec => []UnlistedNeverCounts
<1>1. ListInv => UnlistedNeverCounts
    BY AllowListSuffices DEF ListInv
<1> QED
    BY <1>1, ListHolds, PTL

----------------------------------------------------------------------------
\* The loads of the page

\* What a load is made of.
LoadShape ==
    /\ load = [s \in Slots |-> load[s]]
    /\ \A s \in Slots : load[s] = [kind |-> load[s].kind, arg |-> load[s].arg,
                                   first |-> load[s].first, second |-> load[s].second,
                                   moved |-> load[s].moved]

\* The rows an endpoint may ever serve.
Served == StripeRows \cup {Facts[k][v] : k \in Keys, v \in 1..MaxInstant}

LoadInv ==
    /\ LoadShape
    /\ \A s \in Slots :
         /\ load[s].kind \in Kinds /\ load[s].moved \in BOOLEAN
         /\ load[s].kind = "state" => load[s].first \in {Pending, "none", "success", "failed"}
         /\ load[s].kind = "transactions" =>
              load[s].first = Pending \/ load[s].first \subseteq Served

\* The two answers of a load add up, and one of them is of the present, unless what they
\* are read from has moved between.
FigureInv ==
    \A s \in Slots : load[s].kind = "revenue" /\ ~load[s].moved =>
        LET range == load[s].arg
            first == load[s].first
            second == load[s].second
        IN  /\ first \notin {Pending, Refused} /\ second \notin {Pending, Refused} =>
                 first = BucketTotal(second)
            /\ first \notin {Pending, Refused} /\ second = Pending =>
                 /\ Accepted(range[1], range[2])
                 /\ first = Summary(Transactions, mapping, range[1], range[2])
            /\ first = Pending /\ second \notin {Pending, Refused} =>
                 second = Breakdown(Transactions, mapping, range[1], range[2], range[3])

\* What is on screen is one answer's.
PanelInv ==
    /\ revenue # Blank /\ ~revenue.moved => revenue.total = BucketTotal(revenue.buckets)
    /\ rows \notin {Blank, Refused} =>
         rows = {[row |-> t, collected |-> Badge(t, statusCache)] : t \in cache}
    /\ cache \subseteq Served
    /\ state \in {Blank, "error", "none", "success", "failed"}
    /\ spinner \in BOOLEAN
    /\ spinner => \E s \in Slots : load[s].kind = "revenue"

ControlInv ==
    /\ visit \in Visits /\ activeSection \in visit.sections \cup {"none"}
    /\ trigger \in {"ready", "asked", "running", "answered", "rejected"}
    /\ lastStatus \in {"none", "success", "failed"}

\* What load becomes.
LEMMA SlotSet ==
  ASSUME LoadShape, NEW s \in Slots, NEW new, load' = [load EXCEPT ![s] = new]
  PROVE  /\ load' = [t \in Slots |-> load'[t]]
         /\ load'[s] = new
         /\ \A t \in Slots : t # s => load'[t] = load[t]
BY DEF LoadShape

\* The first answer changes nothing else of its load, nor another load.
LEMMA FirstSet ==
  ASSUME LoadShape, NEW s \in Slots, NEW new, load' = [load EXCEPT ![s].first = new]
  PROVE  /\ LoadShape'
         /\ load'[s] = [kind |-> load[s].kind, arg |-> load[s].arg, first |-> new,
                        second |-> load[s].second, moved |-> load[s].moved]
         /\ \A t \in Slots : t # s => load'[t] = load[t]
<1>1. load' = [load EXCEPT ![s] = [load[s] EXCEPT !.first = new]]
    BY DEF LoadShape
<1>2. /\ load' = [t \in Slots |-> load'[t]]
      /\ load'[s] = [load[s] EXCEPT !.first = new]
      /\ \A t \in Slots : t # s => load'[t] = load[t]
    BY <1>1, SlotSet
<1>3. load'[s] = [kind |-> load[s].kind, arg |-> load[s].arg, first |-> new,
                  second |-> load[s].second, moved |-> load[s].moved]
    BY <1>2 DEF LoadShape
<1> QED
    BY <1>2, <1>3 DEF LoadShape

\* Nor does the second.
LEMMA SecondSet ==
  ASSUME LoadShape, NEW s \in Slots, NEW new, load' = [load EXCEPT ![s].second = new]
  PROVE  /\ LoadShape'
         /\ load'[s] = [kind |-> load[s].kind, arg |-> load[s].arg, first |-> load[s].first,
                        second |-> new, moved |-> load[s].moved]
         /\ \A t \in Slots : t # s => load'[t] = load[t]
<1>1. load' = [load EXCEPT ![s] = [load[s] EXCEPT !.second = new]]
    BY DEF LoadShape
<1>2. /\ load' = [t \in Slots |-> load'[t]]
      /\ load'[s] = [load[s] EXCEPT !.second = new]
      /\ \A t \in Slots : t # s => load'[t] = load[t]
    BY <1>1, SlotSet
<1>3. load'[s] = [kind |-> load[s].kind, arg |-> load[s].arg, first |-> load[s].first,
                  second |-> new, moved |-> load[s].moved]
    BY <1>2 DEF LoadShape
<1> QED
    BY <1>2, <1>3 DEF LoadShape

\* A slot that is freed.
LEMMA Freed ==
  ASSUME LoadShape, NEW s \in Slots, Free(s)
  PROVE  /\ LoadShape'
         /\ load'[s] = NoLoad
         /\ \A t \in Slots : t # s => load'[t] = load[t]
<1>1. /\ load' = [t \in Slots |-> load'[t]]
      /\ load'[s] = NoLoad
      /\ \A t \in Slots : t # s => load'[t] = load[t]
    BY SlotSet DEF Free
<1> QED
    BY <1>1 DEF LoadShape, NoLoad, Loading

\* A slot that is taken was free.
LEMMA Asked ==
  ASSUME LoadShape, NEW s \in Slots, NEW kind, NEW arg, Ask(s, kind, arg)
  PROVE  /\ LoadShape'
         /\ load[s] = NoLoad
         /\ load'[s] = Loading(kind, arg)
         /\ \A t \in Slots : t # s => load'[t] = load[t]
<1>1. load[s] = NoLoad /\ load' = [load EXCEPT ![s] = Loading(kind, arg)]
    BY DEF Ask
<1>2. /\ load' = [t \in Slots |-> load'[t]]
      /\ load'[s] = Loading(kind, arg)
      /\ \A t \in Slots : t # s => load'[t] = load[t]
    BY <1>1, SlotSet
<1> QED
    BY <1>1, <1>2 DEF LoadShape, Loading

\* A load is the same after a write, but for being marked when it is half answered.
LEMMA MovesNoted ==
  ASSUME LoadShape, NoteMoves
  PROVE  /\ LoadShape'
         /\ \A s \in Slots :
              /\ load'[s].kind = load[s].kind /\ load'[s].arg = load[s].arg
              /\ load'[s].first = load[s].first /\ load'[s].second = load[s].second
              /\ \/ load'[s].moved = load[s].moved /\ UNCHANGED <<table, mapping>>
                 \/ load'[s].moved = (load[s].moved \/ HalfAnswered(s))
<1>1. CASE UNCHANGED <<table, mapping>>
  <2>1. load' = load
      BY <1>1 DEF NoteMoves
  <2> QED
      BY <1>1, <2>1 DEF LoadShape
<1>2. CASE ~UNCHANGED <<table, mapping>>
  <2>1. load' = [s \in Slots |-> [load[s] EXCEPT !.moved = @ \/ HalfAnswered(s)]]
      BY <1>2 DEF NoteMoves
  <2>2. ASSUME NEW s \in Slots
        PROVE  load'[s] = [kind |-> load[s].kind, arg |-> load[s].arg, first |-> load[s].first,
                           second |-> load[s].second, moved |-> load[s].moved \/ HalfAnswered(s)]
      BY <2>1 DEF LoadShape
  <2> QED
      BY <2>1, <2>2 DEF LoadShape
<1> QED
    BY <1>1, <1>2

\* What a step of the dashboard is to its page.
AskStep ==
    /\ \E s \in Slots, kind \in Kinds \ {"none"}, arg \in Ranges \cup {<<>>} :
         /\ Ask(s, kind, arg)
         /\ spinner' = spinner \/ (spinner' = TRUE /\ kind = "revenue")
    /\ UNCHANGED <<table, mapping, revenue, rows, cache, statusCache, state>>

MoveStep == NoteMoves /\ UNCHANGED panelVars

PageNext ==
    \/ MoveStep
    \/ AskStep
    \/ \E s \in Slots : AnswerFirst(s) \/ AnswerSecond(s) \/ Render(s) \/ LoadFails(s)

\* Every step of the dashboard is one of those.
LEMMA PageSteps ==
  ASSUME [Next]_vars
  PROVE  PageNext
<1>1. ASSUME UNCHANGED <<table, mapping, load>>, UNCHANGED panelVars PROVE PageNext
    BY <1>1 DEF PageNext, MoveStep, NoteMoves
<1>2. ASSUME NEW section \in Sections, LoadSection(section), UNCHANGED <<table, mapping>>,
             UNCHANGED panelVars
      PROVE  PageNext
  <2>1. ASSUME NEW s \in Slots, NEW kind \in Kinds \ {"none"}, Ask(s, kind, <<>>) PROVE PageNext
      BY <1>2, <2>1 DEF PageNext, AskStep, panelVars
  <2>2. "state" \in Kinds \ {"none"} /\ "transactions" \in Kinds \ {"none"}
      BY DEF Kinds, Double
  <2> QED
      BY <1>1, <1>2, <2>1, <2>2 DEF LoadSection, Sections
<1>3. CASE BackendStep
    BY <1>3 DEF BackendStep, browserVars, PageNext, MoveStep
<1>4. ASSUME NEW section \in Sections, SetActiveSection(section) PROVE PageNext
    BY <1>2, <1>4 DEF SetActiveSection, backendVars, passVars, revenueVars
<1>5. CASE AutoRefresh
  <2>1. "sync" \in Sections
      BY DEF Sections
  <2> QED
      BY <1>2, <1>5, <2>1 DEF AutoRefresh, backendVars, passVars, revenueVars, browserVars
<1>6. CASE SubmitRevenue
  <2>1. PICK s \in Slots, range \in Ranges : Ask(s, "revenue", range)
      BY <1>6 DEF SubmitRevenue
  <2>2. "revenue" \in Kinds \ {"none"} /\ range \in Ranges \cup {<<>>}
      BY DEF Kinds, Double
  <2>3. /\ UNCHANGED <<table, mapping, revenue, rows, cache, statusCache, state>>
        /\ spinner' = TRUE
      BY <1>6 DEF SubmitRevenue, backendVars, passVars, revenueVars
  <2> QED
      BY <2>1, <2>2, <2>3 DEF PageNext, AskStep
<1>7. CASE TriggerSubmit \/ TriggerLost
    BY <1>1, <1>7 DEF TriggerSubmit, TriggerLost, backendVars, passVars, revenueVars
<1>8. CASE TriggerReturns
  <2>1. "sync" \in Sections
      BY DEF Sections
  <2> QED
      BY <1>1, <1>2, <1>8, <2>1 DEF TriggerReturns, backendVars, passVars, revenueVars
<1>9. ASSUME NEW j \in Jobs, TriggerArrives(j) PROVE PageNext
    BY <1>1, <1>9 DEF TriggerArrives, Begin, passVars, revenueVars
<1>10. ASSUME NEW s \in Slots, LoadStep(s) \/ LoadFails(s) PROVE PageNext
    BY <1>10 DEF LoadStep, PageNext
<1>11. ASSUME NEW j \in Jobs, OtherTrigger(j) PROVE PageNext
    BY <1>1, <1>11 DEF OtherTrigger, Begin, revenueVars, browserVars
<1>12. ASSUME NEW j \in Jobs, PassStep(j) PROVE PageNext
    BY <1>12 DEF PassStep, PageNext, MoveStep
<1>13. ASSUME NEW j \in Jobs, PassFails(j) PROVE PageNext
    BY <1>1, <1>13 DEF PassFails, SeedFinanceFails, Fail, revenueVars
<1>14. CASE UNCHANGED vars
    BY <1>1, <1>14 DEF vars, backendVars, passVars, revenueVars, browserVars
<1> QED
    BY <1>3, <1>4, <1>5, <1>6, <1>7, <1>8, <1>9, <1>10, <1>11, <1>12, <1>13, <1>14
    DEF Next, TriggerStep

\* The rows an endpoint serves are among those it may ever serve.
LEMMA ServedFacts ==
  ASSUME SourceInv
  PROVE  Latest(Transactions) \subseteq Served
BY SourceFacts, TransactionsTypes DEF Latest, Served

\* What a load holds before and after a step at slot s.
LoadOK(l) ==
    /\ l.kind \in Kinds /\ l.moved \in BOOLEAN
    /\ l.kind = "state" => l.first \in {Pending, "none", "success", "failed"}
    /\ l.kind = "transactions" => l.first = Pending \/ l.first \subseteq Served

\* A step at one slot keeps the loads when it keeps that one.
LEMMA LoadsKept ==
  ASSUME LoadInv, LoadShape', NEW s \in Slots, LoadOK(load'[s]),
         \A t \in Slots : t # s => load'[t] = load[t]
  PROVE  LoadInv'
<1>1. ASSUME NEW t \in Slots PROVE LoadOK(load'[t])
    BY DEF LoadInv, LoadOK
<1>2. Served' = Served
    BY DEF Served
<1> QED
    BY <1>1, <1>2 DEF LoadInv, LoadOK

\* A load begins without answers.
LEMMA NewLoadOK == \A kind \in Kinds : \A arg : LoadOK(Loading(kind, arg))
BY DEF LoadOK, Loading

\* Every step keeps the loads well formed.
LEMMA LoadStepKeeps ==
  ASSUME LoadInv, SourceInv, ControlInv, PageNext
  PROVE  LoadInv'
<1>1. LoadShape
    BY DEF LoadInv
<1>2. "none" \in Kinds
    BY DEF Kinds
<1>3. CASE MoveStep
  <2>1. Served' = Served
      BY DEF Served
  <2> QED
      BY <1>1, <1>3, <2>1, MovesNoted DEF MoveStep, LoadInv, HalfAnswered
<1>4. ASSUME NEW s \in Slots, NEW kind \in Kinds \ {"none"}, NEW arg, Ask(s, kind, arg)
      PROVE  LoadInv'
    BY <1>1, <1>4, Asked, NewLoadOK, LoadsKept
<1>5. ASSUME NEW s \in Slots, AnswerFirst(s) PROVE LoadInv'
  <2>1. /\ load[s].kind # "none"
        /\ load' = [load EXCEPT ![s].first = First(load[s].kind, load[s].arg)]
      BY <1>5 DEF AnswerFirst
  <2>2. /\ LoadShape'
        /\ load'[s] = [kind |-> load[s].kind, arg |-> load[s].arg,
                       first |-> First(load[s].kind, load[s].arg),
                       second |-> load[s].second, moved |-> load[s].moved]
        /\ \A t \in Slots : t # s => load'[t] = load[t]
      BY <1>1, <2>1, FirstSet
  <2>3. load[s].kind = "state" => First(load[s].kind, load[s].arg) \in {"none", "success", "failed"}
      BY DEF First, ControlInv
  <2>4. load[s].kind = "transactions" => First(load[s].kind, load[s].arg) \subseteq Served
      BY ServedFacts DEF First
  <2>5. LoadOK(load'[s])
      BY <2>2, <2>3, <2>4 DEF LoadOK, LoadInv
  <2> QED
      BY <2>2, <2>5, LoadsKept
<1>6. ASSUME NEW s \in Slots, AnswerSecond(s) PROVE LoadInv'
  <2>1. load' = [load EXCEPT ![s].second = Second(load[s].kind, load[s].arg)]
      BY <1>6 DEF AnswerSecond
  <2>2. /\ LoadShape'
        /\ load'[s] = [kind |-> load[s].kind, arg |-> load[s].arg, first |-> load[s].first,
                       second |-> Second(load[s].kind, load[s].arg), moved |-> load[s].moved]
        /\ \A t \in Slots : t # s => load'[t] = load[t]
      BY <1>1, <2>1, SecondSet
  <2>3. LoadOK(load'[s])
      BY <2>2 DEF LoadOK, LoadInv
  <2> QED
      BY <2>2, <2>3, LoadsKept
<1>7. ASSUME NEW s \in Slots, Render(s) \/ LoadFails(s) PROVE LoadInv'
  <2>1. Free(s)
      BY <1>7 DEF Render, LoadFails
  <2>2. LoadShape' /\ load'[s] = NoLoad /\ \A t \in Slots : t # s => load'[t] = load[t]
      BY <1>1, <2>1, Freed
  <2> QED
      BY <1>2, <2>2, NewLoadOK, LoadsKept DEF NoLoad
<1> QED
    BY <1>3, <1>4, <1>5, <1>6, <1>7 DEF PageNext, AskStep

\* FigureInv of one load.
FigureOK(l) ==
    l.kind = "revenue" /\ ~l.moved =>
        /\ l.first \notin {Pending, Refused} /\ l.second \notin {Pending, Refused} =>
             l.first = BucketTotal(l.second)
        /\ l.first \notin {Pending, Refused} /\ l.second = Pending =>
             /\ Accepted(l.arg[1], l.arg[2])
             /\ l.first = Summary(Transactions, mapping, l.arg[1], l.arg[2])
        /\ l.first = Pending /\ l.second \notin {Pending, Refused} =>
             l.second = Breakdown(Transactions, mapping, l.arg[1], l.arg[2], l.arg[3])

\* The same by loads.
LEMMA FigureParts == FigureInv <=> \A s \in Slots : FigureOK(load[s])
BY DEF FigureInv, FigureOK

\* A step at one slot that writes no rows.
LEMMA FiguresKept ==
  ASSUME FigureInv, NEW s \in Slots, FigureOK(load'[s]), UNCHANGED <<table, mapping>>,
         \A t \in Slots : t # s => load'[t] = load[t]
  PROVE  FigureInv'
<1>1. ASSUME NEW t \in Slots PROVE FigureOK(load'[t])
    BY FigureParts
<1>2. Transactions' = Transactions
    BY DEF Transactions
<1> HIDE DEF FigureInv
<1> QED
    BY <1>1, <1>2 DEF FigureInv, FigureOK

\* A load without answers has nothing to agree.
LEMMA NewFigureOK == \A kind, arg : FigureOK(Loading(kind, arg))
BY DEF FigureOK, Loading

\* The second answer adds up to the first as long as nothing has moved since, and a write
\* that moves something marks every load it comes between.
LEMMA FigureStepKeeps ==
  ASSUME LoadInv, FigureInv, SourceInv, PageNext
  PROVE  FigureInv'
<1>1. LoadShape /\ TableBound
    BY SourceFacts DEF LoadInv
<1>2. ASSUME NEW range, Accepted(range[1], range[2])
      PROVE  Summary(Transactions, mapping, range[1], range[2]) =
               BucketTotal(Breakdown(Transactions, mapping, range[1], range[2], range[3]))
    BY <1>1, SummaryIsBreakdown
<1>3. CASE MoveStep
  <2>1. ASSUME NEW s \in Slots PROVE FigureOK(load[s])'
    <3>1. /\ load'[s].kind = load[s].kind /\ load'[s].arg = load[s].arg
          /\ load'[s].first = load[s].first /\ load'[s].second = load[s].second
          /\ \/ load'[s].moved = load[s].moved /\ UNCHANGED <<table, mapping>>
             \/ load'[s].moved = (load[s].moved \/ HalfAnswered(s))
        BY <1>1, <1>3, MovesNoted DEF MoveStep
    <3>2. FigureOK(load[s])
        BY FigureParts
    <3>3. CASE UNCHANGED <<table, mapping>> /\ load'[s].moved = load[s].moved
      <4>1. Transactions' = Transactions
          BY <3>3 DEF Transactions
      <4> QED
          BY <3>1, <3>2, <3>3, <4>1 DEF FigureOK
    <3>4. CASE load'[s].moved = (load[s].moved \/ HalfAnswered(s))
      <4>1. CASE load[s].moved \/ HalfAnswered(s) \/ load[s].kind # "revenue"
          BY <3>1, <3>4, <4>1 DEF FigureOK
      <4>2. CASE ~load[s].moved /\ ~HalfAnswered(s) /\ load[s].kind = "revenue"
          BY <3>1, <3>2, <4>2 DEF FigureOK, HalfAnswered
      <4> QED
          BY <4>1, <4>2
    <3> QED
        BY <3>1, <3>3, <3>4
  <2> QED
      BY <2>1, FigureParts DEF FigureInv, FigureOK
<1>4. ASSUME NEW s \in Slots, NEW kind \in Kinds \ {"none"}, NEW arg, Ask(s, kind, arg),
             UNCHANGED <<table, mapping>>
      PROVE  FigureInv'
    BY <1>1, <1>4, Asked, NewFigureOK, FiguresKept
<1>5. ASSUME NEW s \in Slots, AnswerFirst(s) PROVE FigureInv'
  <2> DEFINE range == load[s].arg
             answer == First(load[s].kind, range)
  <2>1. /\ load[s].first = Pending /\ UNCHANGED <<table, mapping>>
        /\ load' = [load EXCEPT ![s].first = answer]
      BY <1>5 DEF AnswerFirst, backendVars, passVars, revenueVars
  <2>2. load[s].kind = "revenue" =>
          \/ answer = Refused
          \/ /\ Accepted(range[1], range[2])
             /\ answer = Summary(Transactions, mapping, range[1], range[2])
      BY DEF First
  <2> HIDE DEF answer
  <2>3. /\ load'[s] = [kind |-> load[s].kind, arg |-> range, first |-> answer,
                       second |-> load[s].second, moved |-> load[s].moved]
        /\ \A t \in Slots : t # s => load'[t] = load[t]
      BY <1>1, <2>1, FirstSet
  <2>4. FigureOK(load[s])
      BY FigureParts
  <2>5. FigureOK(load'[s])
      BY <1>2, <2>1, <2>2, <2>3, <2>4 DEF FigureOK
  <2> QED
      BY <2>1, <2>3, <2>5, FiguresKept
<1>6. ASSUME NEW s \in Slots, AnswerSecond(s) PROVE FigureInv'
  <2> DEFINE range == load[s].arg
             answer == Second(load[s].kind, range)
  <2>1. /\ load[s].second = Pending /\ UNCHANGED <<table, mapping>>
        /\ load' = [load EXCEPT ![s].second = answer]
      BY <1>6 DEF AnswerSecond, backendVars, passVars, revenueVars
  <2>2. load[s].kind = "revenue" =>
          answer \in {Refused, Breakdown(Transactions, mapping, range[1], range[2], range[3])}
      BY DEF Second
  <2> HIDE DEF answer
  <2>3. /\ load'[s] = [kind |-> load[s].kind, arg |-> range, first |-> load[s].first,
                       second |-> answer, moved |-> load[s].moved]
        /\ \A t \in Slots : t # s => load'[t] = load[t]
      BY <1>1, <2>1, SecondSet
  <2>4. FigureOK(load[s])
      BY FigureParts
  <2>5. FigureOK(load'[s])
      BY <1>2, <2>1, <2>2, <2>3, <2>4 DEF FigureOK
  <2> QED
      BY <2>1, <2>3, <2>5, FiguresKept
<1>7. ASSUME NEW s \in Slots, Render(s) \/ LoadFails(s) PROVE FigureInv'
  <2>1. Free(s) /\ UNCHANGED <<table, mapping>>
      BY <1>7 DEF Render, LoadFails, backendVars, passVars, revenueVars
  <2>2. load'[s] = NoLoad /\ \A t \in Slots : t # s => load'[t] = load[t]
      BY <1>1, <2>1, Freed
  <2> QED
      BY <2>1, <2>2, NewFigureOK, FiguresKept DEF NoLoad
<1> QED
    BY <1>3, <1>4, <1>5, <1>6, <1>7 DEF PageNext, AskStep

\* The spinner's load stays when another slot is used.
LEMMA SpinnerStays ==
  ASSUME NEW s \in Slots, load[s].kind # "revenue", PanelInv, spinner' = spinner,
         \A t \in Slots : t # s => load'[t] = load[t]
  PROVE  spinner' \in BOOLEAN /\ (spinner' => \E t \in Slots : load'[t].kind = "revenue")
BY DEF PanelInv

\* A step that renders nothing.
LEMMA ScreenStays ==
  ASSUME PanelInv, UNCHANGED <<revenue, rows, cache, statusCache, state>>,
         spinner' \in BOOLEAN /\ (spinner' => \E t \in Slots : load'[t].kind = "revenue")
  PROVE  PanelInv'
<1>1. \A t : Badge(t, statusCache)' = Badge(t, statusCache)
    BY DEF Badge
<1>2. Served' = Served
    BY DEF Served
<1> QED
    BY <1>1, <1>2 DEF PanelInv, Badge

\* A rendering puts the answers of one load on screen, all of them together.
LEMMA RenderKeeps ==
  ASSUME LoadInv, FigureInv, PanelInv, NEW s \in Slots, Render(s)
  PROVE  PanelInv'
<1>1. Served' = Served /\ LoadShape /\ Free(s) /\ Answered(s)
    BY DEF Served, LoadInv, Render
<1>2. load'[s] = NoLoad /\ \A t \in Slots : t # s => load'[t] = load[t]
    BY <1>1, Freed
<1>3. CASE RenderState(s)
  <2>1. /\ load[s].kind = "state" /\ state' = load[s].first /\ load[s].first # Pending
        /\ UNCHANGED <<revenue, rows, cache, statusCache, spinner>>
      BY <1>1, <1>3 DEF RenderState, Answered
  <2>2. state' \in {"none", "success", "failed"}
      BY <2>1 DEF LoadInv
  <2>3. spinner' \in BOOLEAN /\ (spinner' => \E t \in Slots : load'[t].kind = "revenue")
      BY <1>2, <2>1, SpinnerStays
  <2> QED
      BY <1>1, <2>1, <2>2, <2>3 DEF PanelInv, Badge
<1>4. CASE RenderTransactions(s)
  <2>1. /\ load[s].kind = "transactions" /\ load[s].first # Pending
        /\ cache' = load[s].first /\ statusCache' = load[s].second
        /\ rows' = {[row |-> t, collected |-> Badge(t, load[s].second)] : t \in load[s].first}
        /\ UNCHANGED <<revenue, state, spinner>>
      BY <1>1, <1>4 DEF RenderTransactions, Answered
  <2>2. cache' \subseteq Served
      BY <2>1 DEF LoadInv
  <2>3. rows' = {[row |-> t, collected |-> Badge(t, statusCache')] : t \in cache'}
      BY <2>1
  <2>4. spinner' \in BOOLEAN /\ (spinner' => \E t \in Slots : load'[t].kind = "revenue")
      BY <1>2, <2>1, SpinnerStays
  <2> QED
      BY <1>1, <2>1, <2>2, <2>3, <2>4 DEF PanelInv, Badge
<1>5. CASE RenderRevenue(s)
  <2>1. /\ revenue' = [total |-> load[s].first, buckets |-> load[s].second,
                       moved |-> load[s].moved]
        /\ load[s].kind = "revenue" /\ spinner' = FALSE
        /\ UNCHANGED <<rows, cache, statusCache, state>>
      BY <1>5 DEF RenderRevenue
  <2>2. load[s].first \notin {Pending, Refused} /\ load[s].second \notin {Pending, Refused}
      BY <1>1, <2>1 DEF Answered, Double
  <2>3. ~load[s].moved => load[s].first = BucketTotal(load[s].second)
      BY <2>1, <2>2 DEF FigureInv
  <2>4. ~revenue'.moved => revenue'.total = BucketTotal(revenue'.buckets)
      BY <2>1, <2>3
  <2> QED
      BY <1>1, <2>1, <2>4 DEF PanelInv, Badge
<1> QED
    BY <1>3, <1>4, <1>5 DEF Render

\* A load that fails leaves rows and cache as they were, or no rows.
LEMMA FailureKeeps ==
  ASSUME LoadInv, PanelInv, NEW s \in Slots, LoadFails(s)
  PROVE  PanelInv'
<1>1. Served' = Served /\ LoadShape /\ Free(s)
    BY DEF Served, LoadInv, LoadFails
<1>2. \A t \in Slots : t # s => load'[t] = load[t]
    BY <1>1, Freed
<1>3. /\ UNCHANGED <<revenue, cache, statusCache>>
      /\ state' \in {"error", state} /\ rows' \in {Refused, rows}
      /\ spinner' = IF load[s].kind = "revenue" THEN FALSE ELSE spinner
    BY DEF LoadFails
<1>4. spinner' \in BOOLEAN /\ (spinner' => \E t \in Slots : load'[t].kind = "revenue")
    BY <1>2, <1>3, SpinnerStays
<1> QED
    BY <1>1, <1>3, <1>4 DEF PanelInv, Badge

\* Every step keeps the panels consistent.
LEMMA PanelStepKeeps ==
  ASSUME LoadInv, FigureInv, PanelInv, PageNext
  PROVE  PanelInv'
<1>1. LoadShape
    BY DEF LoadInv
<1>2. CASE MoveStep
  <2>1. \A s \in Slots : load'[s].kind = load[s].kind
      BY <1>1, <1>2, MovesNoted DEF MoveStep
  <2> QED
      BY <1>2, <2>1, ScreenStays DEF MoveStep, panelVars, PanelInv
<1>3. CASE AskStep
  <2>1. PICK s \in Slots, kind \in Kinds \ {"none"}, arg \in Ranges \cup {<<>>} :
               /\ Ask(s, kind, arg)
               /\ spinner' = spinner \/ (spinner' = TRUE /\ kind = "revenue")
      BY <1>3 DEF AskStep
  <2>2. /\ load[s].kind = "none" /\ load'[s].kind = kind
        /\ \A t \in Slots : t # s => load'[t] = load[t]
    <3>1. /\ load[s] = NoLoad /\ load'[s] = Loading(kind, arg)
          /\ \A t \in Slots : t # s => load'[t] = load[t]
        BY <1>1, <2>1, Asked
    <3> QED
        BY <3>1 DEF NoLoad, Loading
  <2>3. spinner' \in BOOLEAN /\ (spinner' => \E t \in Slots : load'[t].kind = "revenue")
    <3>1. CASE spinner' = spinner
        BY <2>2, <3>1, SpinnerStays
    <3>2. CASE spinner' = TRUE /\ kind = "revenue"
        BY <2>2, <3>2
    <3> QED
        BY <2>1, <3>1, <3>2
  <2> QED
      BY <1>3, <2>3, ScreenStays DEF AskStep
<1>4. ASSUME NEW s \in Slots, AnswerFirst(s) \/ AnswerSecond(s) PROVE PanelInv'
  <2>1. \A t \in Slots : load'[t].kind = load[t].kind
    <3>1. CASE AnswerFirst(s)
        BY <1>1, <3>1, FirstSet DEF AnswerFirst
    <3>2. CASE AnswerSecond(s)
        BY <1>1, <3>2, SecondSet DEF AnswerSecond
    <3> QED
        BY <1>4, <3>1, <3>2
  <2>2. UNCHANGED panelVars
      BY <1>4 DEF AnswerFirst, AnswerSecond, browserVars
  <2> QED
      BY <2>1, <2>2, ScreenStays DEF panelVars, PanelInv
<1> QED
    BY <1>2, <1>3, <1>4, RenderKeeps, FailureKeeps DEF PageNext

\* Every step keeps section, button and status within their values.
LEMMA ControlStepKeeps ==
  ASSUME ControlInv, [Next]_vars
  PROVE  ControlInv'
<1>1. ASSUME UNCHANGED <<visit, activeSection>>,
             trigger' \in {"ready", "asked", "running", "answered", "rejected", trigger},
             lastStatus' \in {"none", "success", "failed", lastStatus}
      PROVE  ControlInv'
    BY <1>1 DEF ControlInv
<1>2. ASSUME UNCHANGED <<browserVars, lastStatus>> PROVE ControlInv'
    BY <1>1, <1>2 DEF browserVars
<1>3. ASSUME NEW section \in Sections, SetActiveSection(section) PROVE ControlInv'
    BY <1>3 DEF SetActiveSection, ControlInv
<1>4. CASE BackendStep \/ AutoRefresh
    BY <1>2, <1>4 DEF BackendStep, AutoRefresh
<1>5. CASE SubmitRevenue \/ TriggerSubmit \/ TriggerLost
    BY <1>1, <1>5 DEF SubmitRevenue, TriggerSubmit, TriggerLost
<1>6. CASE TriggerStep
    BY <1>1, <1>6 DEF TriggerStep, TriggerReturns, TriggerArrives
<1>7. ASSUME NEW s \in Slots, LoadStep(s) \/ LoadFails(s) PROVE ControlInv'
    BY <1>1, <1>2, <1>7 DEF LoadStep, AnswerFirst, AnswerSecond, Render, LoadFails
<1>8. ASSUME NEW j \in Jobs, OtherTrigger(j) PROVE ControlInv'
    BY <1>2, <1>8 DEF OtherTrigger
<1>9. ASSUME NEW j \in Jobs, PassStep(j) PROVE ControlInv'
    BY <1>1, <1>9 DEF PassStep
<1>10. ASSUME NEW j \in Jobs, PassFails(j) PROVE ControlInv'
    BY <1>1, <1>10 DEF PassFails
<1>11. CASE UNCHANGED vars
    BY <1>2, <1>11 DEF vars
<1> QED
    BY <1>3, <1>4, <1>5, <1>6, <1>7, <1>8, <1>9, <1>10, <1>11 DEF Next

PageInv == SourceInv /\ ControlInv /\ LoadInv /\ FigureInv /\ PanelInv

\* The first state.
LEMMA PageStart == Init => ControlInv /\ LoadInv /\ FigureInv /\ PanelInv
<1> SUFFICES ASSUME Init PROVE ControlInv /\ LoadInv /\ FigureInv /\ PanelInv
    OBVIOUS
<1>1. /\ load = [s \in Slots |-> NoLoad] /\ visit \in Visits /\ activeSection = "none"
      /\ revenue = Blank /\ rows = Blank /\ cache = {} /\ state = Blank /\ spinner = FALSE
      /\ trigger = "ready" /\ lastStatus = "none"
    BY DEF Init
<1>2. \A s \in Slots : load[s] = NoLoad
    BY <1>1
<1>3. LoadShape
    BY <1>1, <1>2 DEF LoadShape, NoLoad, Loading
<1>4. LoadInv
  <2>1. LoadOK(NoLoad)
      BY NewLoadOK DEF NoLoad, Kinds
  <2> QED
      BY <1>2, <1>3, <2>1 DEF LoadInv, LoadOK
<1>5. FigureInv
    BY <1>2, NewFigureOK, FigureParts DEF NoLoad
<1> QED
    BY <1>1, <1>4, <1>5 DEF ControlInv, PanelInv

LEMMA PageHolds == Spec => []PageInv
<1>1. Init => PageInv
    BY PageStart, SourceStart DEF Init, RevenueInit, PageInv
<1>2. PageInv /\ [Next]_vars => PageInv'
  <2> SUFFICES ASSUME PageInv, [Next]_vars PROVE PageInv'
      OBVIOUS
  <2>1. SourceInv /\ ControlInv /\ LoadInv /\ FigureInv /\ PanelInv
      BY DEF PageInv
  <2>2. PageNext /\ SourceInv' /\ ControlInv'
      BY <2>1, PageSteps, SourceSteps, SourceKeeps, ControlStepKeeps
  <2> QED
      BY <2>1, <2>2, LoadStepKeeps, FigureStepKeeps, PanelStepKeeps DEF PageInv
<1> QED
    BY <1>1, <1>2, PTL DEF Spec

\* Every variable of the page and of what is under it keeps its type.
THEOREM TypeCorrect == Spec => []TypeOK
<1>1. ASSUME PageInv, ListInv PROVE TypeOK
  <2>1. RevenueTypeOK
      BY <1>1 DEF PageInv, SourceInv, ListInv, RevenueTypeOK
  <2>2. cache \subseteq Transactions \cup {Facts[k][v] : k \in Keys, v \in 1..MaxInstant}
      BY <1>1 DEF PageInv, PanelInv, Served, Transactions
  <2> QED
      BY <1>1, <2>1, <2>2 DEF TypeOK, PageInv, ControlInv, LoadInv, PanelInv
<1> QED
    BY <1>1, PageHolds, ListHolds, PTL

\* The figures on screen add up unless rows or the allow-list changed between the two
\* answers they are made of, however many loads overlap, fail or come back out of order.
THEOREM FiguresAlwaysAgree == Spec => []FiguresAgree
<1>1. PageInv => FiguresAgree
    BY DEF PageInv, PanelInv, FiguresAgree
<1> QED
    BY <1>1, PageHolds, PTL

\* The badge of a row, the metrics and the resolver agree on what is collected.
THEOREM BadgesAlwaysAgree == Spec => []BadgesAgreeWithMetrics
<1>1. ASSUME PageInv PROVE BadgesAgreeWithMetrics
  <2>1. SUFFICES ASSUME rows \notin {Blank, Refused}
                 PROVE  /\ {r.row : r \in {q \in rows : q.collected}}
                             = Collected(cache, statusCache)
                        /\ Collected(cache, statusCache)
                             = {t \in cache : Resolve(t, statusCache) = "collected"}
      BY DEF BadgesAgreeWithMetrics
  <2>2. rows = {[row |-> t, collected |-> Badge(t, statusCache)] : t \in cache}
      BY <1>1, <2>1 DEF PageInv, PanelInv
  <2>3. \A t : Badge(t, statusCache) \in BOOLEAN
      BY DEF Badge
  <2>4. {r.row : r \in {q \in rows : q.collected}} = {t \in cache : Badge(t, statusCache)}
    <3>1. ASSUME NEW t \in cache, Badge(t, statusCache)
          PROVE  t \in {r.row : r \in {q \in rows : q.collected}}
      <4> DEFINE q == [row |-> t, collected |-> Badge(t, statusCache)]
      <4>1. q \in rows
          BY <2>2
      <4>2. q.row = t /\ q.collected
          BY <3>1
      <4> QED
          BY <4>1, <4>2
    <3>2. ASSUME NEW r \in rows, r.collected PROVE r.row \in cache /\ Badge(r.row, statusCache)
      <4>1. PICK t \in cache : r = [row |-> t, collected |-> Badge(t, statusCache)]
          BY <2>2
      <4> QED
          BY <3>2, <4>1
    <3> QED
        BY <3>1, <3>2
  <2>5. {t \in cache : Badge(t, statusCache)} = Collected(cache, statusCache)
      BY DEF Badge, Collected
  <2>6. Collected(cache, statusCache) = {t \in cache : Resolve(t, statusCache) = "collected"}
      BY DEF Collected, Resolve
  <2> QED
      BY <2>4, <2>5, <2>6
<1> QED
    BY <1>1, PageHolds, PTL

\* The rows on screen are the records a click looks into.
THEOREM RowAlwaysOpens == Spec => []RowOpensItsRecord
<1>1. ASSUME PageInv, rows \notin {Blank, Refused} PROVE {r.row : r \in rows} = cache
  <2>1. rows = {[row |-> t, collected |-> Badge(t, statusCache)] : t \in cache}
      BY <1>1 DEF PageInv, PanelInv
  <2>2. ASSUME NEW t \in cache PROVE t \in {r.row : r \in rows}
    <3> DEFINE r == [row |-> t, collected |-> Badge(t, statusCache)]
    <3>1. r \in rows /\ r.row = t
        BY <2>1
    <3> QED
        BY <3>1
  <2>3. ASSUME NEW r \in rows PROVE r.row \in cache
      BY <2>1
  <2> QED
      BY <2>2, <2>3
<1> QED
    BY <1>1, PageHolds, PTL DEF RowOpensItsRecord

\* Whenever the spinner turns, a load of the figures is in flight.
THEOREM SpinnerAlwaysMeansLoading == Spec => []SpinnerMeansLoading
<1>1. PageInv => SpinnerMeansLoading
    BY DEF PageInv, PanelInv, SpinnerMeansLoading
<1> QED
    BY <1>1, PageHolds, PTL
=============================================================================
