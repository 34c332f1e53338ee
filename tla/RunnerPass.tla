----------------------------- MODULE RunnerPass -----------------------------
(***************************************************************************)
(* The part of AdapterRunnerService.runForSource that every source shares, *)
(* for one source: read sync_state, choose a mode, let the adapter fetch,  *)
(* persist and audit the batch a record at a time, and save the cursor.    *)
(*                                                                         *)
(* A module per source EXTENDS this one with the upstream service and the  *)
(* adapter's fetches.  A job is a pass in progress: with one process alive *)
(* there is one (SyncRun!OneExecuting), and a second one stands for the    *)
(* pass of a run that another process freed the index under.               *)
(***************************************************************************)
EXTENDS Naturals, Sequences

CONSTANTS Keys,             \* the external ids of the records of this source
          Jobs,             \* the passes that may be in progress at once
          NoCursor,         \* sync_state.cursor is null, or has no row
          MaxFailures       \* bounds how often a fetch, a write or the process fails

ASSUME CursorAssumption == NoCursor \notin Nat
ASSUME FailureAssumption == MaxFailures \in Nat

VARIABLES table,    \* table[k]: the version of k the normalized row holds, 0 without a row
          audit,    \* the <<key, version>> pairs the audit log has an entry for
          cursor,   \* sync_state.cursor of the source
          phase,    \* phase[j]: what pass j is doing
          seen,     \* seen[j]: the cursor pass j read
          batch,    \* batch[j]: the envelopes still to persist, as <<key, version>>,
                    \* a page after another; a key occurs once in a page
          current,  \* current[j]: the envelopes persisted and not yet audited, at most one
          next,     \* next[j]: fetchResult.nextCursor, as far as it is known
          failures  \* how often a pass has failed

passVars == <<table, audit, cursor, phase, seen, batch, current, next, failures>>

Envelopes == Keys \X Nat

Phases == {"idle", "full", "incremental", "persist", "audit"}

PassTypeOK ==
    /\ table \in [Keys -> Nat]
    /\ audit \subseteq Envelopes
    /\ cursor \in Nat \cup {NoCursor}
    /\ phase \in [Jobs -> Phases]
    /\ seen \in [Jobs -> Nat \cup {NoCursor}]
    /\ batch \in [Jobs -> Seq(SUBSET Envelopes)]
    /\ current \in [Jobs -> SUBSET Envelopes]
    /\ next \in [Jobs -> Nat \cup {NoCursor}]
    /\ failures \in 0..MaxFailures

PassInit ==
    /\ table = [k \in Keys |-> 0]
    /\ audit = {}
    /\ cursor = NoCursor
    /\ phase = [j \in Jobs |-> "idle"]
    /\ seen = [j \in Jobs |-> NoCursor]
    /\ batch = [j \in Jobs |-> <<>>]
    /\ current = [j \in Jobs |-> {}]
    /\ next = [j \in Jobs |-> NoCursor]
    /\ failures = 0

----------------------------------------------------------------------------
\* Mutant: the request is taken at its word.
ModeAsRequested(requested, c) == requested

\* The mode of a pass: an incremental one needs a cursor, whoever asked.
Mode(requested, c) ==
    IF requested = "full" \/ c = NoCursor THEN "full" ELSE "incremental"

Begin(j) ==
    /\ phase[j] = "idle"
    /\ \E requested \in {"auto", "full", "incremental"} :
         phase' = [phase EXCEPT ![j] = Mode(requested, cursor)]
    /\ seen' = [seen EXCEPT ![j] = cursor]
    /\ next' = [next EXCEPT ![j] = NoCursor]
    /\ UNCHANGED <<table, audit, cursor, batch, current, failures>>

\* Mutant: the error is not told from any other and ends the pass.
FallBackGivesUp(j) ==
    /\ phase[j] = "incremental"
    /\ phase' = [phase EXCEPT ![j] = "idle"]
    /\ batch' = [batch EXCEPT ![j] = <<>>]
    /\ UNCHANGED <<table, audit, cursor, seen, current, next, failures>>

\* The adapter's StaleCursorError: the same pass turns to a full fetch.
FallBack(j) ==
    /\ phase[j] = "incremental"
    /\ phase' = [phase EXCEPT ![j] = "full"]
    /\ batch' = [batch EXCEPT ![j] = <<>>]
    /\ next' = [next EXCEPT ![j] = NoCursor]
    /\ UNCHANGED <<table, audit, cursor, seen, current, failures>>

\* A page arrives: its envelopes go behind those of the pages before it.
Fetched(j, envelopes, nextCursor, last) ==
    /\ batch' = [batch EXCEPT ![j] = IF envelopes = {} THEN @ ELSE Append(@, envelopes)]
    /\ next' = [next EXCEPT ![j] = nextCursor]
    /\ phase' = [phase EXCEPT ![j] = IF last THEN "persist" ELSE @]
    /\ UNCHANGED <<table, audit, cursor, seen, current, failures>>

\* The pages left when env of the first is persisted.
Without(pages, env) ==
    LET rest == Head(pages) \ {env}
    IN  IF rest = {} THEN Tail(pages) ELSE <<rest>> \o Tail(pages)

\* adapter.persist: an upsert that compares nothing with the row it replaces.
PersistOne(j) ==
    /\ phase[j] = "persist"
    /\ batch[j] # <<>>
    /\ \E env \in Head(batch[j]) :
         /\ table' = [table EXCEPT ![env[1]] = env[2]]
         /\ batch' = [batch EXCEPT ![j] = Without(@, env)]
         /\ current' = [current EXCEPT ![j] = {env}]
    /\ phase' = [phase EXCEPT ![j] = "audit"]
    /\ UNCHANGED <<audit, cursor, seen, next, failures>>

\* Mutant: only the first write of a record gets an entry.
AuditFirstOnly(j) ==
    /\ phase[j] = "audit"
    /\ audit' = audit \cup {env \in current[j] : \A old \in audit : old[1] # env[1]}
    /\ current' = [current EXCEPT ![j] = {}]
    /\ phase' = [phase EXCEPT ![j] = "persist"]
    /\ UNCHANGED <<table, cursor, seen, batch, next, failures>>

AuditOne(j) ==
    /\ phase[j] = "audit"
    /\ audit' = audit \cup current[j]
    /\ current' = [current EXCEPT ![j] = {}]
    /\ phase' = [phase EXCEPT ![j] = "persist"]
    /\ UNCHANGED <<table, cursor, seen, batch, next, failures>>

\* Mutant: the cursor is saved as soon as the fetch is done.
SaveCursorEarly(j) ==
    /\ phase[j] = "persist"
    /\ cursor' = next[j]
    /\ phase' = [phase EXCEPT ![j] = IF batch[j] = <<>> THEN "idle" ELSE @]
    /\ UNCHANGED <<table, audit, seen, batch, current, next, failures>>

\* upsertSyncState with the cursor of the fetch; a null one is stored too.
SaveCursor(j) ==
    /\ phase[j] = "persist"
    /\ batch[j] = <<>>
    /\ cursor' = next[j]
    /\ phase' = [phase EXCEPT ![j] = "idle"]
    /\ UNCHANGED <<table, audit, seen, batch, current, next, failures>>

\* A call that throws, or the end of the process: the catch block (when it
\* runs) leaves the cursor alone, and nothing that was written is undone.
Fail(j) ==
    /\ failures < MaxFailures
    /\ phase[j] # "idle"
    /\ failures' = failures + 1
    /\ phase' = [phase EXCEPT ![j] = "idle"]
    /\ batch' = [batch EXCEPT ![j] = <<>>]
    /\ current' = [current EXCEPT ![j] = {}]
    /\ UNCHANGED <<table, audit, cursor, seen, next>>

\* What a pass does after its fetch.
PersistBatch(j) == PersistOne(j) \/ AuditOne(j) \/ SaveCursor(j)

----------------------------------------------------------------------------
\* As long as nothing has failed a row version has its entry in the audit
\* trail, but for the one in flight: "Every upsert writes a corresponding
\* audit_log row" (docs/ROADMAP.md:211).  A failure between the two writes
\* loses the entry.
RowsAreAudited ==
    failures = 0 => \A k \in Keys : table[k] # 0 =>
        <<k, table[k]>> \in audit \cup UNION {current[j] : j \in Jobs}
=============================================================================
