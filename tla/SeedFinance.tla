---------------------------- MODULE SeedFinance ----------------------------
(***************************************************************************)
(* SeedFinanceAdapter over its fixture, with the passes of the runner      *)
(* (RunnerPass).                                                           *)
(*                                                                         *)
(* The fixture is part of the program: it changes with a release, which    *)
(* the database outlives.  A record is known by its updatedAt, which also  *)
(* identifies its version.                                                 *)
(***************************************************************************)
EXTENDS RunnerPass, FiniteSets

CONSTANTS MaxInstant,  \* bounds the releases: each edits a record at an instant of its own
          FirstFixture \* the updatedAt of the records of the first release, 0 for one not listed

\* Every release lists a record: the latest updatedAt of none is no date.
ASSUME FixtureAssumption ==
    /\ MaxInstant \in Nat
    /\ FirstFixture \in [Keys -> 0..MaxInstant]
    /\ \E k \in Keys : FirstFixture[k] # 0

VARIABLE fixture  \* fixture[k]: updatedAt of record k in SEED_FINANCE_RECORDS, 0 when not listed

\* A cursor that new Date makes nothing of.
Unparseable == MaxInstant + 1

SeedFinanceTypeOK ==
    /\ PassTypeOK
    /\ fixture \in [Keys -> 0..MaxInstant]

SeedFinanceInit ==
    /\ PassInit
    /\ fixture = FirstFixture

----------------------------------------------------------------------------
\* Outside the program

Listed == {k \in Keys : fixture[k] # 0}

UpdatedAt == {fixture[k] : k \in Listed}

\* A release edits or adds a record, later than what is there: an earlier
\* updatedAt, or the same, would be behind the cursor.  The process starts anew.
Release(k) ==
    /\ \A j \in Jobs : phase[j] = "idle"
    /\ \E at \in 1..MaxInstant :
         /\ \A earlier \in UpdatedAt : at > earlier
         /\ fixture' = [fixture EXCEPT ![k] = at]
    /\ UNCHANGED passVars

\* The row of sync_state is damaged.
CorruptCursor ==
    /\ failures < MaxFailures
    /\ cursor # NoCursor
    /\ cursor' = Unparseable
    /\ failures' = failures + 1
    /\ UNCHANGED <<table, audit, phase, seen, batch, current, next, fixture>>

----------------------------------------------------------------------------
\* The fetches of SeedFinanceAdapter

EnvelopesOf(records) == {<<k, fixture[k]>> : k \in records}

NextCursorFrom(records) ==
    CHOOSE at \in {fixture[k] : k \in records} : \A k \in records : at >= fixture[k]

FetchFull(j) ==
    /\ phase[j] = "full"
    /\ Fetched(j, EnvelopesOf(Listed), NextCursorFrom(Listed), TRUE)
    /\ UNCHANGED fixture

\* The records later than the cursor; a cursor that is no date is stale.
FetchIncremental(j) ==
    /\ phase[j] = "incremental"
    /\ IF seen[j] = Unparseable
       THEN FallBack(j)
       ELSE LET changed == {k \in Listed : fixture[k] > seen[j]}
            IN  Fetched(j, EnvelopesOf(changed),
                        IF changed = {} THEN seen[j] ELSE NextCursorFrom(changed), TRUE)
    /\ UNCHANGED fixture

----------------------------------------------------------------------------
SeedFinanceStep(j) ==
    \/ FetchFull(j)
    \/ FetchIncremental(j)
    \/ PersistBatch(j) /\ UNCHANGED fixture

SeedFinanceFails(j) == Fail(j) /\ UNCHANGED fixture

----------------------------------------------------------------------------
\* The passes implement Mirror, a release being a change upstream: what the cursor claims
\* is in the table, whatever was damaged or cut short before, "genuine (if synthetic)
\* stale-cursor path" (seed-finance.adapter.ts:26), and rows go forward only.
Promise == INSTANCE Mirror WITH
    latest  <- fixture,
    rows    <- table,
    claimed <- {k \in Listed : cursor \in 1..MaxInstant /\ fixture[k] <= cursor}

MirrorSpec == Promise!Spec

\* Every row reaches the record of the last release once nothing fails: a damaged
\* cursor "triggers a self-healing full fetch, not a failure"
\* (test/integration/sync-idempotency-and-stale-cursor.spec.ts:50).
TableConverges == \A k \in Keys : <>[](table[k] = fixture[k])
=============================================================================
