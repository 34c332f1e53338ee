--------------------------- MODULE SyncRunProofs ---------------------------
(***************************************************************************)
(* Proofs about SyncRun, for every set of processes, sources and runs.     *)
(***************************************************************************)
EXTENDS SyncRun, TLAPS

\* The steps of the system, sorted by the part of the code that takes them;
\* every invariance proof below has one case for each.
LEMMA StepCases ==
  ASSUME [Next]_vars
  PROVE  \/ \E i \in Instances, r \in Runs, T \in SUBSET Sources, w \in WriteResults :
               Trigger(i, r, T, w)
         \/ \E i \in Instances : CliGivesUp(i) \/ CliExit(i) \/ Crash(i)
         \/ \E i \in Instances, w \in WriteResults : Boot(i, w)
         \/ \E r \in Runs, s \in Sources : PassStep(r, s)
         \/ \E r \in Runs, w \in WriteResults : CloseRun(r, w)
         \/ UNCHANGED vars
<1>1. \A s \in Sources : {s} \in SUBSET Sources
    OBVIOUS
<1>2. \A T \in Scopes : T \in SUBSET Sources
    BY DEF Scopes
<1>3. /\ \A i \in Servers : i \in Instances
      /\ \A i \in Clis : i \in Instances
    BY DEF Instances
<1>4. CASE AnyTrigger
    BY <1>1, <1>2, <1>3, <1>4 DEF AnyTrigger
<1> QED
    BY <1>3, <1>4 DEF Next

\* Every state has its type: the start of every other proof.
LEMMA TypeStep == TypeOK /\ [Next]_vars => TypeOK'
<1> SUFFICES ASSUME TypeOK, [Next]_vars PROVE TypeOK'
    OBVIOUS
<1> USE DEF TypeOK, PassStates, Settled, Verdicts
<1>1. ASSUME NEW i \in Instances, NEW r \in Runs, NEW T \in SUBSET Sources,
             NEW w \in WriteResults, Trigger(i, r, T, w)
      PROVE TypeOK'
    BY <1>1 DEF Trigger, AfterAsking
<1>2. ASSUME NEW i \in Instances, CliGivesUp(i) \/ CliExit(i) PROVE TypeOK'
    BY <1>2 DEF CliGivesUp, CliExit
<1>3. ASSUME NEW r \in Runs, NEW s \in Sources, PassStep(r, s) PROVE TypeOK'
  <2>1. CASE Fetch(r, s)
      BY <2>1 DEF Fetch, MovePass
  <2>2. ASSUME NEW w \in WriteResults, OpenRow(r, s, w) PROVE TypeOK'
      BY <2>2 DEF OpenRow, MovePass
  <2>3. ASSUME NEW w \in WriteResults, SaveState(r, s, w) PROVE TypeOK'
      BY <2>3 DEF SaveState, MovePass
  <2>4. ASSUME NEW w \in WriteResults, CloseRow(r, s, w) PROVE TypeOK'
      BY <2>4 DEF CloseRow, MovePass
  <2>5. ASSUME NEW w \in WriteResults, CatchRow(r, s, w) PROVE TypeOK'
      BY <2>5 DEF CatchRow, MovePass
  <2>6. ASSUME NEW w \in WriteResults, CatchState(r, s, w) PROVE TypeOK'
      BY <2>6 DEF CatchState, MovePass
  <2> QED
      BY <1>3, <2>1, <2>2, <2>3, <2>4, <2>5, <2>6 DEF PassStep
<1>4. ASSUME NEW r \in Runs, NEW w \in WriteResults, CloseRun(r, w) PROVE TypeOK'
    BY <1>4 DEF CloseRun, OverallStatus
<1>5. ASSUME NEW i \in Instances, Crash(i) PROVE TypeOK'
    BY <1>5 DEF Crash
<1>6. ASSUME NEW i \in Instances, NEW w \in WriteResults, Boot(i, w) PROVE TypeOK'
    BY <1>6 DEF Boot, Reconciled
<1>7. CASE UNCHANGED vars
    BY <1>7 DEF vars
<1> HIDE DEF TypeOK
<1> QED
    BY <1>1, <1>2, <1>3, <1>4, <1>5, <1>6, <1>7, StepCases

\* Every reachable state is well typed, for every choice of the constants.
THEOREM TypeCorrect == Spec => []TypeOK
<1>1. Init => TypeOK
    BY DEF Init, TypeOK, PassStates
<1> QED
    BY <1>1, TypeStep, PTL DEF Spec

----------------------------------------------------------------------------
\* The states of a pass that has steps left.
Busy == {"open", "fetch", "save", "close", "catchRow", "catchState"}

\* A pass moves from a busy state, in a process that lives, and changes
\* nothing of the run it belongs to nor of the other passes.
LEMMA PassFrame ==
  ASSUME TypeOK, NEW r \in Runs, NEW s \in Sources, PassStep(r, s)
  PROVE  /\ pc[r] # "lost"
         /\ pass[r][s] \in Busy
         /\ UNCHANGED <<inst, runStatus, owner, targets, pc>>
         /\ \A q \in Runs, t \in Sources :
               q # r \/ t # s => pass'[q][t] = pass[q][t] /\ row'[q][t] = row[q][t]
<1> USE DEF TypeOK, InPass, MovePass, Busy
<1> DEFINE Others == \A q \in Runs, t \in Sources : q # r \/ t # s =>
                        pass'[q][t] = pass[q][t] /\ row'[q][t] = row[q][t]
<1>1. /\ pc[r] # "lost"
      /\ pass[r][s] \in Busy
      /\ UNCHANGED <<inst, runStatus, owner, targets, pc>>
    BY DEF PassStep, OpenRow, Fetch, SaveState, CloseRow, CatchRow, CatchState
<1>2. CASE Fetch(r, s)
  <2>1. Others
      BY <1>2 DEF Fetch
  <2> QED
      BY <1>1, <2>1
<1>3. ASSUME NEW w \in WriteResults, OpenRow(r, s, w) PROVE Others
    BY <1>3 DEF OpenRow
<1>4. ASSUME NEW w \in WriteResults, SaveState(r, s, w) PROVE Others
    BY <1>4 DEF SaveState
<1>5. ASSUME NEW w \in WriteResults, CloseRow(r, s, w) PROVE Others
    BY <1>5 DEF CloseRow
<1>6. ASSUME NEW w \in WriteResults, CatchRow(r, s, w) PROVE Others
    BY <1>6 DEF CatchRow
<1>7. ASSUME NEW w \in WriteResults, CatchState(r, s, w) PROVE Others
    BY <1>7 DEF CatchState
<1> HIDE DEF TypeOK, InPass, MovePass, Busy, Others
<1>8. Others
    BY <1>2, <1>3, <1>4, <1>5, <1>6, <1>7 DEF PassStep, Others
<1> QED
    BY <1>1, <1>8 DEF Others

\* Why no pass outlives its run: a busy pass belongs to a run that executes or
\* that died with its process, and a run nobody inserted has neither.
QuietInv ==
    /\ \A r \in Runs, s \in Sources :
          pass[r][s] \in Busy => pc[r] \in {"executing", "lost"} /\ s \in targets[r]
    /\ \A r \in Runs : runStatus[r] = "absent" =>
          pc[r] = "idle" /\ \A s \in Sources : row[r][s] # "success"

\* QuietInv is inductive, for any number of processes.
LEMMA QuietStep == TypeOK /\ QuietInv /\ [Next]_vars => QuietInv'
<1> SUFFICES ASSUME TypeOK, QuietInv, [Next]_vars PROVE QuietInv'
    OBVIOUS
<1> USE DEF TypeOK, QuietInv, Busy, Verdicts
<1>1. ASSUME NEW i \in Instances, NEW r \in Runs, NEW T \in SUBSET Sources,
             NEW w \in WriteResults, Trigger(i, r, T, w)
      PROVE QuietInv'
    BY <1>1 DEF Trigger
<1>2. ASSUME NEW i \in Instances, CliGivesUp(i) \/ CliExit(i) PROVE QuietInv'
    BY <1>2 DEF CliGivesUp, CliExit
<1>3. ASSUME NEW i \in Instances, Crash(i) PROVE QuietInv'
    BY <1>3 DEF Crash, Executing
<1>4. ASSUME NEW i \in Instances, NEW w \in WriteResults, Boot(i, w) PROVE QuietInv'
    BY <1>4 DEF Boot, Reconciled
<1>5. ASSUME NEW r \in Runs, NEW s \in Sources, PassStep(r, s) PROVE QuietInv'
  <2> HIDE DEF TypeOK, Busy
  <2>1. pass[r][s] \in Busy
      BY <1>5, PassFrame
  <2>2. UNCHANGED <<runStatus, targets, pc>>
      BY <1>5, PassFrame
  <2>3. \A q \in Runs, t \in Sources : q # r \/ t # s =>
           pass'[q][t] = pass[q][t] /\ row'[q][t] = row[q][t]
      BY <1>5, PassFrame
  <2> QED
      BY <2>1, <2>2, <2>3
<1>6. ASSUME NEW r \in Runs, NEW w \in WriteResults, CloseRun(r, w) PROVE QuietInv'
  <2> DEFINE verdict == OverallStatus(targets[r], Succeeded(r))
  <2>1. verdict # "absent"
      BY DEF OverallStatus
  <2> HIDE DEF verdict
  <2>2. /\ pc[r] = "executing" /\ AllSettled(r) /\ UNCHANGED <<targets, pass, row>>
        /\ runStatus' = [runStatus EXCEPT ![r] = IF Applied(w) THEN verdict ELSE @]
        /\ pc' = [pc EXCEPT ![r] = IF Threw(w) THEN "abandoned" ELSE "closed"]
      BY <1>6 DEF CloseRun, verdict
  <2>3. \A s \in Sources : pass[r][s] \notin Busy
      BY <2>2 DEF AllSettled, Settled
  <2>4. /\ \A q \in Runs : q # r => runStatus'[q] = runStatus[q] /\ pc'[q] = pc[q]
        /\ runStatus'[r] \in {verdict, runStatus[r]} /\ runStatus[r] # "absent"
      BY <2>2
  <2> QED
      BY <2>1, <2>2, <2>3, <2>4
<1>7. CASE UNCHANGED vars
    BY <1>7 DEF vars
<1> HIDE DEF QuietInv
<1> QED
    BY <1>1, <1>2, <1>3, <1>4, <1>5, <1>6, <1>7, StepCases

\* QuietInv holds in every reachable state.
LEMMA QuietHolds == Spec => []QuietInv
<1>1. Init => QuietInv
    BY DEF Init, QuietInv, Busy
<1> QED
    BY <1>1, QuietStep, TypeCorrect, PTL DEF Spec

\* RunningHasExecutor, with a process for the owner of every running row.
OwnedInv == /\ \A r \in Runs : runStatus[r] = "running" => owner[r] \in Instances
            /\ RunningHasExecutor

\* A running row has an executor, a lost close, or a dead owner that will
\* fail it as it boots, for any number of processes.
THEOREM RunningOwned == Spec => []RunningHasExecutor
<1>1. Init => OwnedInv
    BY DEF Init, OwnedInv, RunningHasExecutor
<1>2. TypeOK /\ OwnedInv /\ [Next]_vars => OwnedInv'
  <2> SUFFICES ASSUME TypeOK, OwnedInv, [Next]_vars
               PROVE  OwnedInv'
      OBVIOUS
  <2> USE DEF TypeOK, OwnedInv, RunningHasExecutor, Verdicts
  <2>1. ASSUME NEW i \in Instances, NEW r \in Runs, NEW T \in SUBSET Sources,
               NEW w \in WriteResults, Trigger(i, r, T, w)
        PROVE OwnedInv'
      BY <2>1 DEF Trigger, AfterAsking
  <2>2. ASSUME NEW i \in Instances, CliGivesUp(i) \/ CliExit(i)
        PROVE OwnedInv'
      BY <2>2 DEF CliGivesUp, CliExit
  <2>3. ASSUME NEW i \in Instances, Crash(i) PROVE OwnedInv'
      BY <2>3 DEF Crash, Executing
  <2>4. ASSUME NEW i \in Instances, NEW w \in WriteResults, Boot(i, w)
        PROVE OwnedInv'
      BY <2>4 DEF Boot, Reconciled, Applied, Threw
  <2>5. ASSUME NEW r \in Runs, NEW s \in Sources, PassStep(r, s)
        PROVE OwnedInv'
      BY <2>5, PassFrame
  <2>6. ASSUME NEW r \in Runs, NEW w \in WriteResults, CloseRun(r, w)
        PROVE OwnedInv'
      BY <2>6 DEF CloseRun, Applied, Threw, OverallStatus
  <2>7. CASE UNCHANGED vars
      BY <2>7 DEF vars
  <2> HIDE DEF OwnedInv
  <2> QED
      BY <2>1, <2>2, <2>3, <2>4, <2>5, <2>6, <2>7, StepCases
<1>3. OwnedInv => RunningHasExecutor
    BY DEF OwnedInv
<1> QED
    BY <1>1, <1>2, <1>3, TypeCorrect, PTL DEF Spec

----------------------------------------------------------------------------
\* What is behind VerdictSound: a pass that succeeded has closed its row, and
\* a run with a favourable verdict is no longer executed, so its rows stand.
VerdictInv ==
    /\ \A r \in Runs, s \in Sources :
          pass[r][s] = "succeeded" => row[r][s] = "success"
    /\ \A r \in Runs :
          runStatus[r] \in {"success", "partial_failure"} => pc[r] # "executing"
    /\ VerdictSound

\* A pass step keeps a succeeded pass and its row together.
LEMMA PassKeepsRow ==
  ASSUME TypeOK, NEW r \in Runs, NEW s \in Sources, PassStep(r, s),
         \A q \in Runs, t \in Sources : pass[q][t] = "succeeded" => row[q][t] = "success"
  PROVE  /\ \A q \in Runs, t \in Sources :
               pass'[q][t] = "succeeded" => row'[q][t] = "success"
         /\ \A q \in Runs : q # r => row'[q] = row[q]
<1> USE DEF TypeOK, InPass, MovePass, Applied, Threw
<1>1. CASE Fetch(r, s)
    BY <1>1 DEF Fetch
<1>2. ASSUME NEW w \in WriteResults, OpenRow(r, s, w)
      PROVE /\ \A q \in Runs, t \in Sources :
                  pass'[q][t] = "succeeded" => row'[q][t] = "success"
            /\ \A q \in Runs : q # r => row'[q] = row[q]
    BY <1>2 DEF OpenRow
<1>3. ASSUME NEW w \in WriteResults, SaveState(r, s, w)
      PROVE /\ \A q \in Runs, t \in Sources :
                  pass'[q][t] = "succeeded" => row'[q][t] = "success"
            /\ \A q \in Runs : q # r => row'[q] = row[q]
    BY <1>3 DEF SaveState
<1>4. ASSUME NEW w \in WriteResults, CloseRow(r, s, w)
      PROVE /\ \A q \in Runs, t \in Sources :
                  pass'[q][t] = "succeeded" => row'[q][t] = "success"
            /\ \A q \in Runs : q # r => row'[q] = row[q]
    BY <1>4 DEF CloseRow
<1>5. ASSUME NEW w \in WriteResults, CatchRow(r, s, w)
      PROVE /\ \A q \in Runs, t \in Sources :
                  pass'[q][t] = "succeeded" => row'[q][t] = "success"
            /\ \A q \in Runs : q # r => row'[q] = row[q]
    BY <1>5 DEF CatchRow
<1>6. ASSUME NEW w \in WriteResults, CatchState(r, s, w)
      PROVE /\ \A q \in Runs, t \in Sources :
                  pass'[q][t] = "succeeded" => row'[q][t] = "success"
            /\ \A q \in Runs : q # r => row'[q] = row[q]
    BY <1>6 DEF CatchState
<1> QED
    BY <1>1, <1>2, <1>3, <1>4, <1>5, <1>6 DEF PassStep

\* VerdictInv holds in every reachable state.
LEMMA VerdictHolds == Spec => []VerdictInv
<1>1. Init => VerdictInv
    BY DEF Init, VerdictInv, VerdictSound
<1>2. TypeOK /\ QuietInv /\ VerdictInv /\ [Next]_vars => VerdictInv'
  <2> SUFFICES ASSUME TypeOK, QuietInv, VerdictInv, [Next]_vars PROVE VerdictInv'
      OBVIOUS
  <2> USE DEF VerdictInv, VerdictSound
  <2>1. ASSUME NEW i \in Instances, NEW r \in Runs, NEW T \in SUBSET Sources,
               NEW w \in WriteResults, Trigger(i, r, T, w)
        PROVE VerdictInv'
      BY <2>1 DEF Trigger, TypeOK
  <2>2. ASSUME NEW i \in Instances, CliGivesUp(i) \/ CliExit(i) PROVE VerdictInv'
      BY <2>2 DEF CliGivesUp, CliExit
  <2>3. ASSUME NEW i \in Instances, Crash(i) PROVE VerdictInv'
      BY <2>3 DEF Crash, TypeOK
  <2>4. ASSUME NEW i \in Instances, NEW w \in WriteResults, Boot(i, w)
        PROVE VerdictInv'
      BY <2>4 DEF Boot, Reconciled, TypeOK
  <2>5. ASSUME NEW r \in Runs, NEW s \in Sources, PassStep(r, s) PROVE VerdictInv'
    <3>1. /\ \A q \in Runs, t \in Sources :
                pass'[q][t] = "succeeded" => row'[q][t] = "success"
          /\ \A q \in Runs : q # r => row'[q] = row[q]
        BY <2>5, PassKeepsRow
    <3>2. /\ pc[r] = "executing"
          /\ UNCHANGED <<runStatus, targets, pc>>
        BY <2>5, PassFrame DEF QuietInv
    <3> QED
        BY <3>1, <3>2 DEF TypeOK
  <2>6. ASSUME NEW r \in Runs, NEW w \in WriteResults, CloseRun(r, w)
        PROVE VerdictInv'
      BY <2>6 DEF CloseRun, OverallStatus, Succeeded, TypeOK
  <2>7. CASE UNCHANGED vars
      BY <2>7 DEF vars
  <2> HIDE DEF VerdictInv
  <2> QED
      BY <2>1, <2>2, <2>3, <2>4, <2>5, <2>6, <2>7, StepCases
<1> QED
    BY <1>1, <1>2, TypeCorrect, QuietHolds, PTL DEF Spec

\* No verdict overstates the rows, for any number of processes and whatever
\* the database answers.
THEOREM VerdictsAreSound == Spec => []VerdictSound
<1>1. VerdictInv => VerdictSound
    BY DEF VerdictInv
<1> QED
    BY <1>1, VerdictHolds, PTL

----------------------------------------------------------------------------
\* What is behind VerdictExact: a row that reads success belongs to a pass that
\* succeeded, and the verdict of a closed run is that of its passes.
ExactInv ==
    /\ \A r \in Runs, s \in Sources :
          row[r][s] = "success" => pass[r][s] = "succeeded"
    /\ \A r \in Runs : pc[r] = "closed" =>
          runStatus[r] = OverallStatus(targets[r], Succeeded(r))

\* Unless an acknowledgement is lost, a pass step keeps a successful row and
\* its pass together.
LEMMA RowKeepsPass ==
  ASSUME "ackLost" \notin WriteResults, TypeOK, ExactInv,
         NEW r \in Runs, NEW s \in Sources, PassStep(r, s)
  PROVE  row'[r][s] = "success" => pass'[r][s] = "succeeded"
<1> DEFINE Kept == row'[r][s] = "success" => pass'[r][s] = "succeeded"
<1> USE DEF TypeOK, ExactInv, InPass, MovePass
<1>1. WriteResults \subseteq {"ok", "failed"}
    BY WriteAssumption DEF AllWriteResults
<1>2. CASE Fetch(r, s)
  <2>1. Kept
      BY <1>2 DEF Fetch
  <2> QED
      BY <2>1
<1>3. ASSUME NEW w \in WriteResults, OpenRow(r, s, w) PROVE Kept
    BY <1>3 DEF OpenRow
<1>4. ASSUME NEW w \in WriteResults, SaveState(r, s, w) PROVE Kept
    BY <1>4 DEF SaveState
<1>5. ASSUME NEW w \in WriteResults, CloseRow(r, s, w) PROVE Kept
    BY <1>1, <1>5 DEF CloseRow, Applied, Threw
<1>6. ASSUME NEW w \in WriteResults, CatchRow(r, s, w) PROVE Kept
    BY <1>6 DEF CatchRow
<1>7. ASSUME NEW w \in WriteResults, CatchState(r, s, w) PROVE Kept
    BY <1>7 DEF CatchState
<1> HIDE DEF TypeOK, ExactInv, InPass, MovePass, Kept
<1>8. Kept
    BY <1>2, <1>3, <1>4, <1>5, <1>6, <1>7 DEF PassStep, Kept
<1> QED
    BY <1>8 DEF Kept

\* The verdict of a closed run is the one its rows show, for any number of
\* processes, as long as a write that throws was not applied.
THEOREM VerdictsAreExact ==
  ASSUME "ackLost" \notin WriteResults PROVE Spec => []VerdictExact
<1>1. Init => ExactInv
    BY DEF Init, ExactInv
<1>2. TypeOK /\ QuietInv /\ ExactInv /\ [Next]_vars => ExactInv'
  <2> SUFFICES ASSUME TypeOK, QuietInv, ExactInv, [Next]_vars PROVE ExactInv'
      OBVIOUS
  <2> USE DEF ExactInv, Succeeded
  <2>1. ASSUME NEW i \in Instances, NEW r \in Runs, NEW T \in SUBSET Sources,
               NEW w \in WriteResults, Trigger(i, r, T, w)
        PROVE ExactInv'
    <3>1. /\ pc' = [pc EXCEPT ![r] = IF Threw(w) THEN "abandoned" ELSE "executing"]
          /\ \A t \in Sources : row'[r][t] # "success"
          /\ \A q \in Runs : q # r =>
                /\ runStatus'[q] = runStatus[q]
                /\ targets'[q] = targets[q]
                /\ pass'[q] = pass[q]
                /\ row'[q] = row[q]
        BY <2>1 DEF Trigger, TypeOK, QuietInv
    <3>2. \A q \in Runs : pc'[q] = "closed" => q # r /\ pc[q] = "closed"
        BY <3>1 DEF TypeOK
    <3> QED
        BY <3>1, <3>2
  <2>2. ASSUME NEW i \in Instances, CliGivesUp(i) \/ CliExit(i) PROVE ExactInv'
      BY <2>2 DEF CliGivesUp, CliExit
  <2>3. ASSUME NEW i \in Instances, Crash(i) PROVE ExactInv'
      BY <2>3 DEF Crash, TypeOK
  <2>4. ASSUME NEW i \in Instances, NEW w \in WriteResults, Boot(i, w)
        PROVE ExactInv'
      BY <2>4 DEF Boot, Reconciled, OverallStatus, TypeOK
  <2>5. ASSUME NEW r \in Runs, NEW s \in Sources, PassStep(r, s) PROVE ExactInv'
    <3>1. row'[r][s] = "success" => pass'[r][s] = "succeeded"
        BY <2>5, RowKeepsPass
    <3>2. /\ pc[r] # "closed"
          /\ UNCHANGED <<runStatus, targets, pc>>
        BY <2>5, PassFrame DEF QuietInv
    <3>3. \A q \in Runs, t \in Sources : q # r \/ t # s =>
             pass'[q][t] = pass[q][t] /\ row'[q][t] = row[q][t]
        BY <2>5, PassFrame
    <3>4. \A q \in Runs, t \in Sources :
             row'[q][t] = "success" => pass'[q][t] = "succeeded"
        BY <3>1, <3>3
    <3>5. ASSUME NEW q \in Runs, pc[q] = "closed"
          PROVE  {t \in targets[q] : pass'[q][t] = "succeeded"} = Succeeded(q)
        BY <3>2, <3>3, <3>5 DEF TypeOK
    <3> QED
        BY <3>2, <3>4, <3>5
  <2>6. ASSUME NEW r \in Runs, NEW w \in WriteResults, CloseRun(r, w)
        PROVE ExactInv'
    <3>1. WriteResults \subseteq {"ok", "failed"}
        BY WriteAssumption DEF AllWriteResults
    <3>2. /\ UNCHANGED <<targets, pass, row>>
          /\ \A q \in Runs : q # r => runStatus'[q] = runStatus[q] /\ pc'[q] = pc[q]
          /\ pc'[r] = "closed" =>
                runStatus'[r] = OverallStatus(targets[r], Succeeded(r))
      <4> DEFINE verdict == OverallStatus(targets[r], Succeeded(r))
      <4>1. /\ UNCHANGED <<targets, pass, row>>
            /\ runStatus' = [runStatus EXCEPT ![r] = IF Applied(w) THEN verdict ELSE @]
            /\ pc' = [pc EXCEPT ![r] = IF Threw(w) THEN "abandoned" ELSE "closed"]
          BY <2>6 DEF CloseRun
      <4> HIDE DEF verdict
      <4>2. Threw(w) \/ Applied(w)
          BY <3>1 DEF Threw, Applied
      <4>3. pc'[r] = "closed" => runStatus'[r] = verdict
          BY <4>1, <4>2 DEF TypeOK
      <4>4. \A q \in Runs : q # r => runStatus'[q] = runStatus[q] /\ pc'[q] = pc[q]
          BY <4>1 DEF TypeOK
      <4> QED
          BY <4>1, <4>3, <4>4 DEF verdict
    <3>3. \A q \in Runs : {t \in targets'[q] : pass'[q][t] = "succeeded"} = Succeeded(q)
        BY <3>2
    <3>4. ASSUME NEW q \in Runs
          PROVE  /\ \A t \in Sources : row'[q][t] = "success" => pass'[q][t] = "succeeded"
                 /\ pc'[q] = "closed" => runStatus'[q] = OverallStatus(targets'[q], Succeeded(q))
        BY <3>2
    <3> QED
        BY <3>3, <3>4
  <2>7. CASE UNCHANGED vars
      BY <2>7 DEF vars
  <2> HIDE DEF ExactInv
  <2> QED
      BY <2>1, <2>2, <2>3, <2>4, <2>5, <2>6, <2>7, StepCases
<1>3. ExactInv /\ VerdictInv /\ TypeOK => VerdictExact
  <2> SUFFICES ASSUME ExactInv, VerdictInv, TypeOK, NEW r \in Runs, pc[r] = "closed"
               PROVE  runStatus[r] = OverallStatus(targets[r], SuccessRows(r))
      BY DEF VerdictExact
  <2>1. SuccessRows(r) = Succeeded(r)
      BY DEF SuccessRows, Succeeded, ExactInv, VerdictInv, TypeOK
  <2> QED
      BY <2>1 DEF ExactInv
<1> QED
    BY <1>1, <1>2, <1>3, TypeCorrect, QuietHolds, VerdictHolds, PTL DEF Spec

----------------------------------------------------------------------------
\* One process: what follows needs that no two processes share the database,
\* the "single-instance assumption" of the comment on AdapterRunnerService.
SingleProcess == \A i, j \in Instances : i = j

\* The strengthening of OneExecuting: what executes is running and its process
\* is alive, so a boot, which finds its process down, finds nothing executing.
ExclusionInv ==
    /\ \A r \in Runs : pc[r] = "executing" =>
          /\ runStatus[r] = "running"
          /\ owner[r] \in Instances
          /\ inst[owner[r]] # "down"
    /\ \A p, q \in Runs :
          runStatus[p] = "running" /\ runStatus[q] = "running" => p = q

\* ExclusionInv is inductive when there is one process.
LEMMA ExclusionStep ==
  ASSUME SingleProcess
  PROVE  TypeOK /\ ExclusionInv /\ [Next]_vars => ExclusionInv'
<1> SUFFICES ASSUME TypeOK, ExclusionInv, [Next]_vars PROVE ExclusionInv'
    OBVIOUS
<1> USE DEF TypeOK, ExclusionInv, Verdicts
<1>1. ASSUME NEW i \in Instances, NEW r \in Runs, NEW T \in SUBSET Sources,
             NEW w \in WriteResults, Trigger(i, r, T, w)
      PROVE ExclusionInv'
    BY <1>1 DEF Trigger, NoneRunning, AfterAsking
<1>2. ASSUME NEW i \in Instances, CliGivesUp(i) PROVE ExclusionInv'
    BY <1>2 DEF CliGivesUp
<1>3. ASSUME NEW i \in Instances, CliExit(i) PROVE ExclusionInv'
    BY <1>3 DEF CliExit, Executing
<1>4. ASSUME NEW i \in Instances, Crash(i) PROVE ExclusionInv'
    BY <1>4 DEF Crash, Executing
<1>5. ASSUME NEW i \in Instances, NEW w \in WriteResults, Boot(i, w)
      PROVE ExclusionInv'
  <2>1. \A r \in Runs : pc[r] # "executing"
      BY <1>5, SingleProcess DEF Boot, SingleProcess
  <2> QED
      BY <1>5, <2>1 DEF Boot, Reconciled
<1>6. ASSUME NEW r \in Runs, NEW s \in Sources, PassStep(r, s) PROVE ExclusionInv'
    BY <1>6, PassFrame
<1>7. ASSUME NEW r \in Runs, NEW w \in WriteResults, CloseRun(r, w)
      PROVE ExclusionInv'
    BY <1>7 DEF CloseRun, OverallStatus
<1>8. CASE UNCHANGED vars
    BY <1>8 DEF vars
<1> HIDE DEF ExclusionInv
<1> QED
    BY <1>1, <1>2, <1>3, <1>4, <1>5, <1>6, <1>7, <1>8, StepCases

\* ExclusionInv holds in every reachable state of a single process.
LEMMA ExclusionHolds == ASSUME SingleProcess PROVE Spec => []ExclusionInv
<1>1. Init => ExclusionInv
    BY DEF Init, ExclusionInv
<1> QED
    BY <1>1, ExclusionStep, TypeCorrect, PTL DEF Spec

\* One process never executes two runs at once, through any crashes, failed
\* writes and lost acknowledgements.
THEOREM Exclusion == ASSUME SingleProcess PROVE Spec => []OneExecuting
<1>1. ExclusionInv => OneExecuting
    BY DEF ExclusionInv, OneExecuting
<1> QED
    BY <1>1, ExclusionHolds, PTL

\* One process rewrites no verdict: only the executor and a boot write the
\* status of a run, and both find it running.
THEOREM VerdictsAreFinal == ASSUME SingleProcess PROVE Spec => TerminalIsFinal
<1> DEFINE Final == \A r \in Runs :
                       runStatus[r] \in Verdicts => runStatus'[r] = runStatus[r]
<1>1. TypeOK /\ ExclusionInv /\ [Next]_vars => [Final]_vars
  <2> SUFFICES ASSUME TypeOK, ExclusionInv, [Next]_vars PROVE Final
      OBVIOUS
  <2> USE DEF TypeOK, Verdicts
  <2>1. ASSUME NEW i \in Instances, NEW r \in Runs, NEW T \in SUBSET Sources,
               NEW w \in WriteResults, Trigger(i, r, T, w)
        PROVE Final
      BY <2>1 DEF Trigger
  <2>2. ASSUME NEW i \in Instances, CliGivesUp(i) \/ CliExit(i) \/ Crash(i)
        PROVE Final
      BY <2>2 DEF CliGivesUp, CliExit, Crash
  <2>3. ASSUME NEW i \in Instances, NEW w \in WriteResults, Boot(i, w) PROVE Final
      BY <2>3 DEF Boot, Reconciled
  <2>4. ASSUME NEW r \in Runs, NEW s \in Sources, PassStep(r, s) PROVE Final
      BY <2>4, PassFrame
  <2>5. ASSUME NEW r \in Runs, NEW w \in WriteResults, CloseRun(r, w) PROVE Final
      BY <2>5 DEF CloseRun, ExclusionInv
  <2>6. CASE UNCHANGED vars
      BY <2>6 DEF vars
  <2> HIDE DEF Final
  <2> QED
      BY <2>1, <2>2, <2>3, <2>4, <2>5, <2>6, StepCases
<1> QED
    BY <1>1, ExclusionHolds, TypeCorrect, PTL DEF Spec, TerminalIsFinal

\* What is behind SuccessRowHasSavedState: a pass of an executing run that has
\* saved its state finds it saved, and the catch block clears the row before
\* it writes the state.
SavedInv ==
    \A r \in Runs, s \in Sources : pc[r] = "executing" =>
        /\ pass[r][s] = "close" \/ row[r][s] = "success" => lastStatus[s] = "success"
        /\ pass[r][s] = "catchState" => row[r][s] # "success"

\* While one process executes a run, no row of it reads success before the
\* cursor of its source is saved, nor after it is not.
THEOREM SuccessIsSaved == ASSUME SingleProcess PROVE Spec => []SuccessRowHasSavedState
<1>1. Init => SavedInv
    BY DEF Init, SavedInv
<1>2. TypeOK /\ QuietInv /\ ExclusionInv /\ SavedInv /\ [Next]_vars => SavedInv'
  <2> SUFFICES ASSUME TypeOK, QuietInv, ExclusionInv, SavedInv, [Next]_vars
               PROVE  SavedInv'
      OBVIOUS
  <2> USE DEF SavedInv
  <2>1. ASSUME NEW i \in Instances, NEW r \in Runs, NEW T \in SUBSET Sources,
               NEW w \in WriteResults, Trigger(i, r, T, w)
        PROVE SavedInv'
      BY <2>1 DEF Trigger, TypeOK, QuietInv
  <2>2. ASSUME NEW i \in Instances, CliGivesUp(i) \/ CliExit(i) PROVE SavedInv'
      BY <2>2 DEF CliGivesUp, CliExit
  <2>3. ASSUME NEW i \in Instances, Crash(i) PROVE SavedInv'
      BY <2>3 DEF Crash, TypeOK
  <2>4. ASSUME NEW i \in Instances, NEW w \in WriteResults, Boot(i, w) PROVE SavedInv'
      BY <2>4 DEF Boot
  <2>5. ASSUME NEW r \in Runs, NEW s \in Sources, PassStep(r, s) PROVE SavedInv'
    <3>1. /\ pc[r] = "executing"
          /\ UNCHANGED pc
        BY <2>5, PassFrame DEF QuietInv
    <3>2. \A q \in Runs : pc[q] = "executing" => q = r
        BY <3>1 DEF ExclusionInv
    <3>3. \A t \in Sources : t # s =>
             /\ pass'[r][t] = pass[r][t]
             /\ row'[r][t] = row[r][t]
        BY <2>5, PassFrame
    <3>4. \A t \in Sources : t # s => lastStatus'[t] = lastStatus[t]
        BY <2>5 DEF PassStep, Fetch, OpenRow, SaveState, CloseRow, CatchRow,
                    CatchState, TypeOK
    <3> DEFINE Mine ==
          /\ pass'[r][s] = "close" \/ row'[r][s] = "success" => lastStatus'[s] = "success"
          /\ pass'[r][s] = "catchState" => row'[r][s] # "success"
    <3>5. Mine
      <4> USE <3>1 DEF TypeOK, InPass, MovePass, Applied, Threw
      <4>1. CASE Fetch(r, s)
          BY <4>1 DEF Fetch
      <4>2. ASSUME NEW w \in WriteResults, OpenRow(r, s, w) PROVE Mine
          BY <4>2 DEF OpenRow
      <4>3. ASSUME NEW w \in WriteResults, SaveState(r, s, w) PROVE Mine
          BY <4>3 DEF SaveState
      <4>4. ASSUME NEW w \in WriteResults, CloseRow(r, s, w) PROVE Mine
          BY <4>4 DEF CloseRow
      <4>5. ASSUME NEW w \in WriteResults, CatchRow(r, s, w) PROVE Mine
          BY <4>5, WriteAssumption DEF CatchRow, AllWriteResults
      <4>6. ASSUME NEW w \in WriteResults, CatchState(r, s, w) PROVE Mine
          BY <4>6 DEF CatchState
      <4> HIDE DEF Mine
      <4> QED
          BY <2>5, <4>1, <4>2, <4>3, <4>4, <4>5, <4>6 DEF PassStep
    <3> QED
        BY <3>1, <3>2, <3>3, <3>4, <3>5
  <2>6. ASSUME NEW r \in Runs, NEW w \in WriteResults, CloseRun(r, w) PROVE SavedInv'
      BY <2>6 DEF CloseRun, TypeOK
  <2>7. CASE UNCHANGED vars
      BY <2>7 DEF vars
  <2> HIDE DEF SavedInv
  <2> QED
      BY <2>1, <2>2, <2>3, <2>4, <2>5, <2>6, <2>7, StepCases
<1>3. SavedInv => SuccessRowHasSavedState
    BY DEF SavedInv, SuccessRowHasSavedState
<1> QED
    BY <1>1, <1>2, <1>3, TypeCorrect, QuietHolds, ExclusionHolds, PTL DEF Spec

\* One process implements the ledger: every step starts, settles or expires
\* runs as RunLedger allows, or leaves the sync_run table alone.
THEOREM ImplementsLedger == ASSUME SingleProcess PROVE Spec => LedgerSpec
<1> DEFINE Mapped == Ledger!Next \/ UNCHANGED <<runStatus, targets>>
<1>1. Init => Ledger!Init
    BY DEF Init, Ledger!Init
<1>2. TypeOK /\ ExclusionInv /\ [Next]_vars => [Ledger!Next]_(Ledger!vars)
  <2> SUFFICES ASSUME TypeOK, ExclusionInv, [Next]_vars PROVE Mapped
      BY DEF Ledger!vars
  <2>1. ASSUME NEW i \in Instances, NEW r \in Runs, NEW T \in SUBSET Sources,
               NEW w \in WriteResults, Trigger(i, r, T, w)
        PROVE Mapped
      BY <2>1 DEF Trigger, NoneRunning, Ledger!Next, Ledger!Start
  <2>2. ASSUME NEW i \in Instances, CliGivesUp(i) \/ CliExit(i) \/ Crash(i)
        PROVE Mapped
      BY <2>2 DEF CliGivesUp, CliExit, Crash
  <2>3. ASSUME NEW i \in Instances, NEW w \in WriteResults, Boot(i, w) PROVE Mapped
    <3>1. CASE Applied(w)
      <4>1. Ledger!Expire
          BY <2>3, <3>1 DEF Boot, Reconciled, Ledger!Expire
      <4> QED
          BY <4>1 DEF Ledger!Next
    <3>2. CASE ~Applied(w)
        BY <2>3, <3>2 DEF Boot
    <3> QED
        BY <3>1, <3>2
  <2>4. ASSUME NEW r \in Runs, NEW s \in Sources, PassStep(r, s) PROVE Mapped
      BY <2>4, PassFrame
  <2>5. ASSUME NEW r \in Runs, NEW w \in WriteResults, CloseRun(r, w) PROVE Mapped
    <3>1. CASE Applied(w)
      <4>1. runStatus[r] = "running"
          BY <2>5 DEF CloseRun, ExclusionInv
      <4>2. Succeeded(r) \in SUBSET targets[r]
          BY DEF Succeeded
      <4>3. OverallStatus(targets[r], Succeeded(r))
              = Ledger!Verdict(targets[r], Succeeded(r))
          BY DEF OverallStatus, Ledger!Verdict
      <4>4. Ledger!Settle(r)
          BY <2>5, <3>1, <4>1, <4>2, <4>3 DEF CloseRun, Ledger!Settle
      <4> QED
          BY <4>4 DEF Ledger!Next
    <3>2. CASE ~Applied(w)
        BY <2>5, <3>2 DEF CloseRun, TypeOK
    <3> QED
        BY <3>1, <3>2
  <2>6. CASE UNCHANGED vars
      BY <2>6 DEF vars
  <2> HIDE DEF Mapped
  <2> QED
      BY <2>1, <2>2, <2>3, <2>4, <2>5, <2>6, StepCases
<1> QED
    BY <1>1, <1>2, ExclusionHolds, TypeCorrect, PTL DEF Spec, LedgerSpec, Ledger!Spec

=============================================================================
