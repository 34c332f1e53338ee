----------------------------- MODULE RunLedger -----------------------------
(***************************************************************************)
(* What the sync_run table promises a reader, with nothing of how the runs *)
(* are executed: a run is started only when no other is running, it is     *)
(* settled once with a verdict its scope allows, or it is expired by a     *)
(* restart, and from then on its status never changes.                     *)
(*                                                                         *)
(* SyncRun implements this module when a single process is alive.          *)
(***************************************************************************)
CONSTANTS Runs,     \* the identities sync_run rows may take
          Sources   \* the sources a run may cover

VARIABLES status,   \* status[r]: the status column of run r, "absent" before the INSERT
          scope     \* scope[r]: the sources run r was asked to pull

vars == <<status, scope>>

Verdicts == {"success", "partial_failure", "failed"}

Statuses == {"absent", "running"} \cup Verdicts

\* The verdict on a run over the sources T of which those in ok succeeded.
\* A run over no failed source is a success, even over no source at all.
Verdict(T, ok) ==
    IF T \subseteq ok THEN "success"
    ELSE IF T \cap ok # {} THEN "partial_failure" ELSE "failed"

Init == /\ status = [r \in Runs |-> "absent"]
        /\ scope = [r \in Runs |-> {}]

Start(r, T) ==
    /\ status[r] = "absent"
    /\ \A q \in Runs : status[q] # "running"
    /\ status' = [status EXCEPT ![r] = "running"]
    /\ scope' = [scope EXCEPT ![r] = T]

Settle(r) ==
    /\ status[r] = "running"
    /\ \E ok \in SUBSET scope[r] :
         status' = [status EXCEPT ![r] = Verdict(scope[r], ok)]
    /\ UNCHANGED scope

\* A restart declares every run it finds running failed.
Expire ==
    /\ status' = [r \in Runs |->
                    IF status[r] = "running" THEN "failed" ELSE status[r]]
    /\ UNCHANGED scope

Next == \/ \E r \in Runs, T \in SUBSET Sources : Start(r, T)
        \/ \E r \in Runs : Settle(r)
        \/ Expire

Spec == Init /\ [][Next]_vars

=============================================================================
