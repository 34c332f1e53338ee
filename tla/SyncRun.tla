------------------------------ MODULE SyncRun ------------------------------
(***************************************************************************)
(* One sync_run from its INSERT to its verdict: SyncOrchestratorService    *)
(* .runAll and AdapterRunnerService.runStandalone, the runForSource passes *)
(* they start, and the reconciliation a booting process does, over one     *)
(* PostgreSQL database that several Node processes share.                  *)
(*                                                                         *)
(* Every awaited database write is an action of its own, since the process *)
(* can die, another pass of the same run can proceed, or the write itself  *)
(* can fail, at each await.  Fetching, mapping and persisting the records  *)
(* of a pass is one step here (Fetch); module RunnerPass opens it up.      *)
(***************************************************************************)
EXTENDS Naturals

CONSTANTS Servers,      \* processes that serve POST /sync/trigger (src/main.ts)
          Clis,         \* processes that run scripts/run-adapter.ts once and exit
          NoInstance,   \* the owner of a run nobody started
          Sources,      \* the registered adapters (SOURCE_ADAPTERS)
          Runs,         \* the identities sync_run rows may take: bounds the triggers
          WriteResults  \* what the database may answer to a write

Instances == Servers \cup Clis

\* "ok": applied and acknowledged; "failed": not applied, the call rejects;
\* "ackLost": applied, and the call rejects (the connection drops after COMMIT).
AllWriteResults == {"ok", "failed", "ackLost"}

ASSUME InstanceAssumption == NoInstance \notin Instances
ASSUME WriteAssumption == WriteResults \subseteq AllWriteResults

VARIABLES inst,        \* inst[i]: the life of process i
          runStatus,   \* runStatus[r]: sync_run.status, "absent" before the INSERT
          owner,       \* owner[r]: the process that executes r
          targets,     \* targets[r]: the adapters r loops over
          pc,          \* pc[r]: where the executor of r is
          pass,        \* pass[r][s]: where runForSource(s, r) is
          row,         \* row[r][s]: the sync_run_source row of r and s
          lastStatus   \* lastStatus[s]: sync_state.last_status

vars == <<inst, runStatus, owner, targets, pc, pass, row, lastStatus>>

----------------------------------------------------------------------------
Verdicts == {"success", "partial_failure", "failed"}

\* Outcomes a runForSource promise settles with; allSettled waits for them.
Settled == {"succeeded", "failed", "rejected"}

PassStates == {"idle", "open", "fetch", "save", "close", "catchRow",
               "catchState"} \cup Settled

TypeOK ==
    /\ inst \in [Instances -> {"down", "up", "closing"}]
    /\ runStatus \in [Runs -> {"absent", "running"} \cup Verdicts]
    /\ owner \in [Runs -> Instances \cup {NoInstance}]
    /\ targets \in [Runs -> SUBSET Sources]
    /\ pc \in [Runs -> {"idle", "executing", "closed", "abandoned", "lost"}]
    /\ pass \in [Runs -> [Sources -> PassStates]]
    /\ row \in [Runs -> [Sources -> {"none", "placeholder", "success", "failed"}]]
    /\ lastStatus \in [Sources -> {"none", "success", "failed"}]

Init ==
    /\ inst = [i \in Instances |-> "down"]
    /\ runStatus = [r \in Runs |-> "absent"]
    /\ owner = [r \in Runs |-> NoInstance]
    /\ targets = [r \in Runs |-> {}]
    /\ pc = [r \in Runs |-> "idle"]
    /\ pass = [r \in Runs |-> [s \in Sources |-> "idle"]]
    /\ row = [r \in Runs |-> [s \in Sources |-> "none"]]
    /\ lastStatus = [s \in Sources |-> "none"]

----------------------------------------------------------------------------
Applied(w) == w # "failed"
Threw(w) == w # "ok"

\* Mutant: the partial unique index is missing.
NoIndex == TRUE

NoneRunning == \A q \in Runs : runStatus[q] # "running"

\* resolveTargets: every adapter, or the one the request names.  An unknown
\* name is refused before any row is written, so it is no step.
Scopes == {Sources} \cup {{s} : s \in Sources}

\* What becomes of a process that asked for a run: a CLI asks only once and
\* closes its application context afterwards, whatever came of it.
AfterAsking(i) == IF i \in Clis THEN "closing" ELSE inst[i]

\* The INSERT of createRunOrRejectIfOneInFlight; the partial unique index
\* admits it only when no row is running.  When its acknowledgement is lost
\* the row is there and the request has failed: nobody executes it.
Trigger(i, r, T, w) ==
    /\ inst[i] = "up"
    /\ runStatus[r] = "absent"
    /\ NoneRunning
    /\ Applied(w)
    /\ inst' = [inst EXCEPT ![i] = AfterAsking(i)]
    /\ runStatus' = [runStatus EXCEPT ![r] = "running"]
    /\ owner' = [owner EXCEPT ![r] = i]
    /\ targets' = [targets EXCEPT ![r] = T]
    /\ pc' = [pc EXCEPT ![r] = IF Threw(w) THEN "abandoned" ELSE "executing"]
    /\ pass' = [pass EXCEPT ![r] = [s \in Sources |->
                  IF s \in T /\ ~Threw(w) THEN "open" ELSE "idle"]]
    /\ UNCHANGED <<row, lastStatus>>

\* A CLI whose source is unknown, whose INSERT fails, or that meets the 409
\* goes straight to app.close().
CliGivesUp(i) ==
    /\ inst[i] = "up"
    /\ inst' = [inst EXCEPT ![i] = "closing"]
    /\ UNCHANGED <<runStatus, owner, targets, pc, pass, row, lastStatus>>

----------------------------------------------------------------------------
\* One pass: runForSource, a step per await.  Only the end of the process
\* stops it: a run that is closed does not call back a pass that is not done.

InPass(r, s, here) == pc[r] # "lost" /\ pass[r][s] = here

MovePass(r, s, there) == pass' = [pass EXCEPT ![r][s] = there]

\* The placeholder row is created before the try: a failure rejects the pass.
OpenRow(r, s, w) ==
    /\ InPass(r, s, "open")
    /\ row' = [row EXCEPT ![r][s] = IF Applied(w) THEN "placeholder" ELSE @]
    /\ MovePass(r, s, IF Threw(w) THEN "rejected" ELSE "fetch")
    /\ UNCHANGED <<inst, runStatus, owner, targets, pc, lastStatus>>

\* Reading sync_state, fetching (with the stale-cursor fallback) and
\* persisting the batch either comes to its end or throws on the way.
Fetch(r, s) ==
    /\ InPass(r, s, "fetch")
    /\ \E there \in {"save", "catchRow"} : MovePass(r, s, there)
    /\ UNCHANGED <<inst, runStatus, owner, targets, pc, row, lastStatus>>

\* Mutant: the write of sync_state is not awaited, its failure goes unseen.
SaveStateNotAwaited(r, s, w) ==
    /\ InPass(r, s, "save")
    /\ lastStatus' = [lastStatus EXCEPT ![s] = IF Applied(w) THEN "success" ELSE @]
    /\ MovePass(r, s, "close")
    /\ UNCHANGED <<inst, runStatus, owner, targets, pc, row>>

SaveState(r, s, w) ==
    /\ InPass(r, s, "save")
    /\ lastStatus' = [lastStatus EXCEPT ![s] = IF Applied(w) THEN "success" ELSE @]
    /\ MovePass(r, s, IF Threw(w) THEN "catchRow" ELSE "close")
    /\ UNCHANGED <<inst, runStatus, owner, targets, pc, row>>

CloseRow(r, s, w) ==
    /\ InPass(r, s, "close")
    /\ row' = [row EXCEPT ![r][s] = IF Applied(w) THEN "success" ELSE @]
    /\ MovePass(r, s, IF Threw(w) THEN "catchRow" ELSE "succeeded")
    /\ UNCHANGED <<inst, runStatus, owner, targets, pc, lastStatus>>

\* The two writes of the catch block; a throw here rejects the pass.
CatchRow(r, s, w) ==
    /\ InPass(r, s, "catchRow")
    /\ row' = [row EXCEPT ![r][s] = IF Applied(w) THEN "failed" ELSE @]
    /\ MovePass(r, s, IF Threw(w) THEN "rejected" ELSE "catchState")
    /\ UNCHANGED <<inst, runStatus, owner, targets, pc, lastStatus>>

CatchState(r, s, w) ==
    /\ InPass(r, s, "catchState")
    /\ lastStatus' = [lastStatus EXCEPT ![s] = IF Applied(w) THEN "failed" ELSE @]
    /\ MovePass(r, s, IF Threw(w) THEN "rejected" ELSE "failed")
    /\ UNCHANGED <<inst, runStatus, owner, targets, pc, row>>

PassStep(r, s) ==
    \/ Fetch(r, s)
    \/ \E w \in WriteResults :
         \/ OpenRow(r, s, w)
         \/ SaveState(r, s, w)
         \/ CloseRow(r, s, w)
         \/ CatchRow(r, s, w)
         \/ CatchState(r, s, w)

----------------------------------------------------------------------------
Succeeded(r) == {s \in targets[r] : pass[r][s] = "succeeded"}

\* Mutants: some success is enough for a success; a verdict of no such enum.
OverallStatusOfAny(T, ok) ==
    IF T \cap ok # {} THEN "success" ELSE "failed"

OverallStatusUnknown(T, ok) ==
    IF T \subseteq ok THEN "success" ELSE "partial"

\* resolveOverallStatus on the outcomes of T, those in ok being successes.
\* For the single target of runStandalone it is success or failed.
OverallStatus(T, ok) ==
    IF T \subseteq ok THEN "success"
    ELSE IF T \cap ok # {} THEN "partial_failure" ELSE "failed"

\* Mutant: Promise.all, which settles with the first rejection.
AllOrOneRejected(r) ==
    \/ \A s \in targets[r] : pass[r][s] \in Settled
    \/ \E s \in targets[r] : pass[r][s] = "rejected"

AllSettled(r) == \A s \in targets[r] : pass[r][s] \in Settled

\* The update that closes the run, in neither caller inside a try: when it
\* throws, the request fails and the row stays as it was (or as it was
\* written, if only the acknowledgement was lost).  It names the row by id
\* alone, so it does not look at the status it overwrites.
CloseRun(r, w) ==
    /\ pc[r] = "executing"
    /\ AllSettled(r)
    /\ runStatus' = [runStatus EXCEPT
         ![r] = IF Applied(w) THEN OverallStatus(targets[r], Succeeded(r)) ELSE @]
    /\ pc' = [pc EXCEPT ![r] = IF Threw(w) THEN "abandoned" ELSE "closed"]
    /\ UNCHANGED <<inst, owner, targets, pass, row, lastStatus>>

----------------------------------------------------------------------------
\* Processes.  A crash takes every execution in the process with it.

Executing(i) == {r \in Runs : owner[r] = i /\ pc[r] = "executing"}

Crash(i) ==
    /\ inst[i] # "down"
    /\ inst' = [inst EXCEPT ![i] = "down"]
    /\ pc' = [r \in Runs |-> IF r \in Executing(i) THEN "lost" ELSE pc[r]]
    /\ UNCHANGED <<runStatus, owner, targets, pass, row, lastStatus>>

\* app.close() once the one run of a CLI has settled.
CliExit(i) ==
    /\ inst[i] = "closing"
    /\ Executing(i) = {}
    /\ inst' = [inst EXCEPT ![i] = "down"]
    /\ UNCHANGED <<runStatus, owner, targets, pc, pass, row, lastStatus>>

\* Mutants: no onModuleInit; an updateMany without its where clause.
NotReconciled == runStatus

ReconciledAll == [r \in Runs |->
                    IF runStatus[r] = "absent" THEN "absent" ELSE "failed"]

Reconciled == [r \in Runs |->
                 IF runStatus[r] = "running" THEN "failed" ELSE runStatus[r]]

\* onModuleInit fails every running row, whoever executes it; if that
\* update throws, the process does not come up.
Boot(i, w) ==
    /\ inst[i] = "down"
    /\ runStatus' = IF Applied(w) THEN Reconciled ELSE runStatus
    /\ inst' = [inst EXCEPT ![i] = IF Threw(w) THEN @ ELSE "up"]
    /\ UNCHANGED <<owner, targets, pc, pass, row, lastStatus>>

----------------------------------------------------------------------------
AnyTrigger == \E r \in Runs, w \in WriteResults :
                 \/ \E i \in Servers, T \in Scopes : Trigger(i, r, T, w)
                 \/ \E i \in Clis, s \in Sources : Trigger(i, r, {s}, w)

Next ==
    \/ AnyTrigger
    \/ \E r \in Runs, s \in Sources : PassStep(r, s)
    \/ \E r \in Runs, w \in WriteResults : CloseRun(r, w)
    \/ \E i \in Instances : Crash(i)
    \/ \E i \in Instances, w \in WriteResults : Boot(i, w)
    \/ \E i \in Clis : CliGivesUp(i) \/ CliExit(i)

Spec == Init /\ [][Next]_vars

\* Promises are driven by the event loop and every awaited call settles, so
\* a pass and the close of a run are not postponed for ever; a server that
\* is down is started again by its host.  Nobody has to trigger a run, to
\* crash, or to start the CLI.
Fairness ==
    /\ \A r \in Runs, s \in Sources : WF_vars(PassStep(r, s))
    /\ \A r \in Runs : WF_vars(\E w \in WriteResults : CloseRun(r, w))
    /\ \A i \in Servers : WF_vars(\E w \in WriteResults : Boot(i, w))
    /\ \A i \in Clis : WF_vars(CliExit(i))

FairSpec == Spec /\ Fairness
----------------------------------------------------------------------------
\* Safety

\* No two runs are executed at once: the comment "exactly correct while the
\* app is up" on the partial unique index and onModuleInit, and README.md:112.
\* It holds while one process is alive at a time, and only then: the process
\* that boots next to a live one frees the index under a run in progress.
OneExecuting ==
    \A p, q \in Runs : pc[p] = "executing" /\ pc[q] = "executing" => p = q

\* A running row that blocks further triggers is executed by somebody, or its
\* close was lost, or its process is down and will fail the row as it boots:
\* a crash alone leaves no row running past the next boot.
RunningHasExecutor ==
    \A r \in Runs : runStatus[r] = "running" =>
        pc[r] \in {"executing", "abandoned"} \/ inst[owner[r]] = "down"

\* The verdict of a run never claims more than its sync_run_source rows
\* show, whatever writes fail, are half acknowledged or are cut short, and
\* however many processes there are (runAll, resolveOverallStatus).
VerdictSound ==
    \A r \in Runs :
        /\ runStatus[r] = "success" =>
              \A s \in targets[r] : row[r][s] = "success"
        /\ runStatus[r] = "partial_failure" =>
              \E s \in targets[r] : row[r][s] = "success"

SuccessRows(r) == {s \in targets[r] : row[r][s] = "success"}

\* The verdict of a run its executor closed is the one a reader computes from
\* the sync_run_source rows, when a write that throws is not applied: no row
\* changes after the close and no rejected pass is taken for a success.
VerdictExact ==
    \A r \in Runs : pc[r] = "closed" =>
        runStatus[r] = OverallStatus(targets[r], SuccessRows(r))

\* While a run executes, a row of it that reads success has its cursor in
\* sync_state: runForSource saves the state before it closes the row, so no
\* source is reported pulled up to a point the next run would not start from.
SuccessRowHasSavedState ==
    \A r \in Runs, s \in Sources :
        pc[r] = "executing" /\ row[r][s] = "success" => lastStatus[s] = "success"

\* A run that has a verdict keeps it: neither a later run, nor a crash, nor
\* the reconciliation of a boot rewrites history.
TerminalIsFinal ==
    [][\A r \in Runs : runStatus[r] \in Verdicts => runStatus'[r] = runStatus[r]]_vars

\* The sync_run table as a reader sees it.
Ledger == INSTANCE RunLedger WITH status <- runStatus, scope <- targets

\* With one process alive, the runs behave as the ledger promises.
LedgerSpec == Ledger!Spec

----------------------------------------------------------------------------
\* Liveness

\* A run that started reaches a terminal status, through the failures of its
\* passes, crashes and boots that fail, unless the one write fails that would
\* record it: what allSettled, the try/catch of runStandalone and the
\* reconciliation of onModuleInit are there for.
EveryRunTerminates ==
    \A r \in Runs :
        runStatus[r] = "running" ~> runStatus[r] # "running" \/ pc[r] = "abandoned"

\* The comment of runStandalone (adapter-runner.service.ts:116-121): whatever
\* throws, "the SyncRun always reaches a terminal status", unless the process
\* is killed under it.
ClosesUnlessKilled ==
    \A r \in Runs :
        pc[r] = "executing" ~> runStatus[r] \in Verdicts \/ pc[r] = "lost"
=============================================================================
