------------------------ MODULE StripeWebhookProofs ------------------------
(***************************************************************************)
(* What the webhook endpoint promises, proved for any number of events,    *)
(* requests and faults, and whatever the database answers.                 *)
(*                                                                         *)
(* The properties say nothing of the requests in progress, and so are not  *)
(* inductive: what keeps an event from being applied twice is that the one *)
(* request that inserted its webhook_event is the only one at work on it.  *)
(***************************************************************************)
EXTENDS StripeWebhook, TLAPS

----------------------------------------------------------------------------
\* A request that is not idle carries an event, so what it looks up exists.
CarriesInv == \A h \in Handlers : pc[h] # "idle" => event[h] \in Events

\* TypeOK is inductive once it knows of the events at work.
LEMMA TypeStep == TypeOK /\ CarriesInv /\ [Next]_vars => (TypeOK /\ CarriesInv)'
<1> SUFFICES ASSUME TypeOK, CarriesInv, [Next]_vars
             PROVE  (TypeOK /\ CarriesInv)'
    OBVIOUS
<1> USE EventAssumption, FaultAssumption DEF TypeOK, CarriesInv, Stages, AtWork
<1>1. ASSUME NEW e \in Events, Emit(e) PROVE (TypeOK /\ CarriesInv)'
    BY <1>1 DEF Emit
<1>2. ASSUME NEW h \in Handlers, NEW e \in Events, Deliver(h, e)
      PROVE  (TypeOK /\ CarriesInv)'
    BY <1>2 DEF Deliver
<1>3. ASSUME NEW h \in Handlers, HandlerStep(h) PROVE (TypeOK /\ CarriesInv)'
  <2>1. faults' \in 0..MaxFaults
      BY <1>3 DEF HandlerStep, Fault
  <2>2. CASE Lookup(h)
      BY <2>1, <2>2 DEF Lookup, Respond, Goto
  <2>3. CASE PersistFind(h)
      BY <2>1, <2>3 DEF PersistFind
  <2>4. CASE ReadFails(h)
      BY <2>1, <2>4 DEF ReadFails, Respond, Goto
  <2>5. ASSUME NEW w \in WriteResults, Insert(h, w) PROVE (TypeOK /\ CarriesInv)'
      BY <2>1, <2>5 DEF Insert, Respond, Goto
  <2>6. ASSUME NEW w \in WriteResults, SkipType(h, w) PROVE (TypeOK /\ CarriesInv)'
      BY <2>1, <2>6 DEF SkipType, Respond
  <2>7. ASSUME NEW w \in WriteResults, PersistUpsert(h, w) PROVE (TypeOK /\ CarriesInv)'
      BY <2>1, <2>7 DEF PersistUpsert, Goto
  <2>8. ASSUME NEW w \in WriteResults, WriteAudit(h, w) PROVE (TypeOK /\ CarriesInv)'
      BY <2>1, <2>8 DEF WriteAudit, Goto
  <2>9. ASSUME NEW w \in WriteResults, MarkProcessed(h, w) PROVE (TypeOK /\ CarriesInv)'
    <3>1. CASE Threw(w)
        BY <2>1, <2>9, <3>1 DEF MarkProcessed, Goto
    <3>2. CASE ~Threw(w)
      <4>1. /\ acked' \in SUBSET Events
            /\ hook' \in [Events -> {"none", "received", "processed", "failed"}]
          BY <2>9, <3>2 DEF MarkProcessed, Respond
      <4>2. /\ pc' = [pc EXCEPT ![h] = "idle"]
            /\ event' = [event EXCEPT ![h] = NoEvent]
            /\ found' = [found EXCEPT ![h] = FALSE]
          BY <2>9, <3>2 DEF MarkProcessed, Respond
      <4> QED
          BY <2>1, <2>9, <4>1, <4>2 DEF MarkProcessed
    <3> QED
        BY <3>1, <3>2
  <2>10. ASSUME NEW w \in WriteResults, MarkFailed(h, w) PROVE (TypeOK /\ CarriesInv)'
      BY <2>1, <2>10 DEF MarkFailed, Respond
  <2> HIDE DEF TypeOK, CarriesInv
  <2> QED
      BY <1>3, <2>2, <2>3, <2>4, <2>5, <2>6, <2>7, <2>8, <2>9, <2>10 DEF HandlerStep
<1>4. CASE Crash
    BY <1>4 DEF Crash, Fault
<1>5. CASE UNCHANGED vars
    BY <1>5 DEF vars
<1> HIDE DEF TypeOK, CarriesInv
<1> QED
    BY <1>1, <1>2, <1>3, <1>4, <1>5 DEF Next

\* Every variable keeps its type.
THEOREM TypeCorrect == Spec => []TypeOK
<1>1. Init => TypeOK /\ CarriesInv
    BY FaultAssumption DEF Init, TypeOK, CarriesInv, Stages
<1> QED
    BY <1>1, TypeStep, PTL DEF Spec

----------------------------------------------------------------------------
Audited(e) == \E action \in {"created", "updated"} : <<e, action>> \in audit

\* How far a request has come is what the tables show of its event.
ProgressInv ==
    \A h \in Handlers : pc[h] \in AtWork =>
        /\ hook[event[h]] # "none"
        /\ pc[h] = "skip" <=> ObjectOf[event[h]] = NotPayment
        /\ pc[h] \in {"find", "upsert"} => upserts[event[h]] = 0
        /\ pc[h] \in {"audit", "mark"} => upserts[event[h]] = 1
        /\ pc[h] = "mark" => Audited(event[h])

\* The INSERT that succeeds is the only one, and it is the way to work.
ExclusiveInv ==
    \A g, h \in Handlers : pc[g] \in AtWork /\ pc[h] \in AtWork /\ event[g] = event[h] => g = h

\* Nothing is written before the INSERT.
UntouchedInv == \A e \in Events : hook[e] = "none" => upserts[e] = 0

WorkInv == ProgressInv /\ ExclusiveInv /\ UntouchedInv

AppliedInv == DomainLogicOnce /\ ProcessedMeansApplied

\* The steps of the endpoint, one by one.
LEMMA StepCases ==
  ASSUME [Next]_vars
  PROVE  \/ \E e \in Events : Emit(e)
         \/ \E h \in Handlers, e \in Events : Deliver(h, e)
         \/ \E h \in Handlers : Lookup(h) \/ PersistFind(h) \/ ReadFails(h)
         \/ \E h \in Handlers, w \in WriteResults :
               \/ Insert(h, w)
               \/ SkipType(h, w)
               \/ PersistUpsert(h, w)
               \/ WriteAudit(h, w)
               \/ MarkProcessed(h, w)
               \/ MarkFailed(h, w)
         \/ Crash
         \/ UNCHANGED vars
BY DEF Next, HandlerStep

\* WorkInv is inductive.
LEMMA WorkStep ==
  TypeOK /\ CarriesInv /\ WorkInv /\ [Next]_vars => WorkInv'
<1> SUFFICES ASSUME TypeOK, CarriesInv, WorkInv, [Next]_vars PROVE WorkInv'
    OBVIOUS
<1> USE EventAssumption DEF TypeOK, CarriesInv, WorkInv, ProgressInv, ExclusiveInv,
    UntouchedInv, Audited, AtWork, Stages, Applied, Threw
<1>1. ASSUME NEW e \in Events, Emit(e) PROVE WorkInv'
    BY <1>1 DEF Emit
<1>2. ASSUME NEW h \in Handlers, NEW e \in Events, Deliver(h, e) PROVE WorkInv'
    BY <1>2 DEF Deliver
<1>3. ASSUME NEW h \in Handlers, Lookup(h) PROVE WorkInv'
    BY <1>3 DEF Lookup, Respond, Goto
<1>4. ASSUME NEW h \in Handlers, PersistFind(h) PROVE WorkInv'
    BY <1>4 DEF PersistFind
<1>5. ASSUME NEW h \in Handlers, ReadFails(h) PROVE WorkInv'
    BY <1>5 DEF ReadFails, Respond, Goto
<1>6. ASSUME NEW h \in Handlers, NEW w \in WriteResults, Insert(h, w) PROVE WorkInv'
  <2>1. UNCHANGED <<upserts, audit>>
      BY <1>6 DEF Insert
  <2>2. CASE hook[event[h]] = "none" /\ ~Threw(w)
    <3>1. /\ hook' = [hook EXCEPT ![event[h]] = "received"]
          /\ pc' = [pc EXCEPT ![h] = IF ObjectOf[event[h]] = NotPayment THEN "skip" ELSE "find"]
          /\ event' = event
          /\ upserts[event[h]] = 0
        BY <1>6, <2>2 DEF Insert, Goto
    <3>2. event[h] \in Events
        BY <1>6 DEF Insert
    <3>3. \A g \in Handlers : g # h /\ pc[g] \in AtWork => event[g] # event[h]
        BY <2>2
    <3>4. ProgressInv'
      <4> SUFFICES ASSUME NEW g \in Handlers, pc'[g] \in AtWork
                   PROVE  /\ hook'[event'[g]] # "none"
                          /\ pc'[g] = "skip" <=> ObjectOf[event'[g]] = NotPayment
                          /\ pc'[g] \in {"find", "upsert"} => upserts'[event'[g]] = 0
                          /\ pc'[g] \in {"audit", "mark"} => upserts'[event'[g]] = 1
                          /\ pc'[g] = "mark" => Audited(event[g])'
          BY DEF ProgressInv
      <4>1. CASE g = h
          BY <2>1, <3>1, <3>2, <4>1
      <4>2. CASE g # h
        <5>1. pc'[g] = pc[g] /\ event[g] \in Events /\ hook'[event[g]] = hook[event[g]]
            BY <3>1, <3>2, <3>3, <4>2
        <5> QED
            BY <2>1, <3>1, <5>1
      <4> QED
          BY <4>1, <4>2
    <3>5. ExclusiveInv'
        BY <3>1, <3>2, <3>3
    <3>6. UntouchedInv'
        BY <2>1, <3>1, <3>2
    <3> QED
        BY <3>4, <3>5, <3>6
  <2>3. CASE ~(hook[event[h]] = "none" /\ ~Threw(w))
    <3>1. /\ hook' \in {hook, [hook EXCEPT ![event[h]] = "received"]}
          /\ pc' = [pc EXCEPT ![h] = "idle"]
          /\ event' = [event EXCEPT ![h] = NoEvent]
        BY <1>6, <2>3 DEF Insert, Respond
    <3> QED
        BY <2>1, <3>1
  <2> QED
      BY <2>2, <2>3
<1>7. ASSUME NEW h \in Handlers, NEW w \in WriteResults, SkipType(h, w) PROVE WorkInv'
    BY <1>7 DEF SkipType, Respond
<1>8. ASSUME NEW h \in Handlers, NEW w \in WriteResults, PersistUpsert(h, w)
      PROVE WorkInv'
  <2>1. /\ pc[h] = "upsert" /\ event[h] \in Events /\ upserts[event[h]] = 0
        /\ hook[event[h]] # "none"
        /\ hook' = hook /\ audit' = audit /\ event' = event
      BY <1>8 DEF PersistUpsert, Goto
  <2>2. CASE Threw(w)
    <3>1. pc' = [pc EXCEPT ![h] = "catch"]
        BY <1>8, <2>2 DEF PersistUpsert, Goto
    <3>2. /\ \A e \in Events : e # event[h] => upserts'[e] = upserts[e]
          /\ \A g \in Handlers : g # h /\ pc[g] \in AtWork => event[g] # event[h]
        BY <1>8, <2>1 DEF PersistUpsert
    <3>3. ProgressInv'
        BY <2>1, <3>1, <3>2
    <3>4. ExclusiveInv' /\ UntouchedInv'
        BY <2>1, <3>1, <3>2
    <3> QED
        BY <3>3, <3>4
  <2>3. CASE ~Threw(w)
    <3>1. /\ pc' = [pc EXCEPT ![h] = "audit"]
          /\ upserts' = [upserts EXCEPT ![event[h]] = @ + 1]
        BY <1>8, <2>3 DEF PersistUpsert, Goto
    <3>2. upserts' = [upserts EXCEPT ![event[h]] = 1]
        BY <2>1, <3>1
    <3>3. \A g \in Handlers : g # h /\ pc[g] \in AtWork => event[g] # event[h]
        BY <2>1
    <3>4. ProgressInv'
        BY <2>1, <3>1, <3>2, <3>3
    <3>5. ExclusiveInv'
        BY <2>1, <3>1, <3>3
    <3>6. UntouchedInv'
        BY <2>1, <3>2
    <3> QED
        BY <3>4, <3>5, <3>6
  <2> QED
      BY <2>2, <2>3
<1>9. ASSUME NEW h \in Handlers, NEW w \in WriteResults, WriteAudit(h, w) PROVE WorkInv'
    BY <1>9 DEF WriteAudit, Goto
<1>10. ASSUME NEW h \in Handlers, NEW w \in WriteResults, MarkProcessed(h, w)
       PROVE WorkInv'
    BY <1>10 DEF MarkProcessed, Respond, Goto
<1>11. ASSUME NEW h \in Handlers, NEW w \in WriteResults, MarkFailed(h, w)
       PROVE WorkInv'
    BY <1>11 DEF MarkFailed, Respond
<1>12. CASE Crash
    BY <1>12 DEF Crash
<1>13. CASE UNCHANGED vars
    BY <1>13 DEF vars
<1> HIDE DEF TypeOK, CarriesInv, WorkInv, ProgressInv, ExclusiveInv, UntouchedInv,
    Audited, AtWork, Stages, Applied, Threw
<1> QED
    BY <1>1, <1>2, <1>3, <1>4, <1>5, <1>6, <1>7, <1>8, <1>9, <1>10, <1>11, <1>12,
        <1>13, StepCases

\* A request at work finds its event unwritten or written once, so AppliedInv is kept.
LEMMA AppliedStep ==
  TypeOK /\ CarriesInv /\ WorkInv /\ AppliedInv /\ [Next]_vars => AppliedInv'
<1> SUFFICES ASSUME TypeOK, CarriesInv, WorkInv, AppliedInv, [Next]_vars
             PROVE AppliedInv'
    OBVIOUS
<1> USE EventAssumption DEF TypeOK, CarriesInv, WorkInv, ProgressInv, UntouchedInv,
    Audited, AppliedInv, DomainLogicOnce, ProcessedMeansApplied, AtWork, Applied, Threw
<1>1. ASSUME NEW e \in Events, Emit(e) PROVE AppliedInv'
    BY <1>1 DEF Emit
<1>2. ASSUME NEW h \in Handlers, NEW e \in Events, Deliver(h, e) PROVE AppliedInv'
    BY <1>2 DEF Deliver
<1>3. ASSUME NEW h \in Handlers, Lookup(h) PROVE AppliedInv'
    BY <1>3 DEF Lookup, Respond, Goto
<1>4. ASSUME NEW h \in Handlers, PersistFind(h) PROVE AppliedInv'
    BY <1>4 DEF PersistFind
<1>5. ASSUME NEW h \in Handlers, ReadFails(h) PROVE AppliedInv'
    BY <1>5 DEF ReadFails, Respond, Goto
<1>6. ASSUME NEW h \in Handlers, NEW w \in WriteResults, Insert(h, w) PROVE AppliedInv'
    BY <1>6 DEF Insert, Respond, Goto
<1>7. ASSUME NEW h \in Handlers, NEW w \in WriteResults, SkipType(h, w)
      PROVE AppliedInv'
    BY <1>7 DEF SkipType, Respond
<1>8. ASSUME NEW h \in Handlers, NEW w \in WriteResults, PersistUpsert(h, w)
      PROVE AppliedInv'
  <2>1. /\ upserts[event[h]] = 0 /\ event[h] \in Events
        /\ hook' = hook /\ audit' = audit
      BY <1>8 DEF PersistUpsert
  <2>2. upserts' \in {upserts, [upserts EXCEPT ![event[h]] = 1]}
    <3>1. \/ upserts' = upserts
          \/ upserts' = [upserts EXCEPT ![event[h]] = upserts[event[h]] + 1]
        BY <1>8 DEF PersistUpsert
    <3> QED
        BY <2>1, <3>1
  <2>3. hook[event[h]] # "processed" \/ ObjectOf[event[h]] = NotPayment
    <3>1. upserts[event[h]] # 1
        BY <2>1
    <3> HIDE DEF TypeOK, CarriesInv, WorkInv, ProgressInv, UntouchedInv, Audited,
        DomainLogicOnce
    <3> QED
        BY <2>1, <3>1
  <2>4. DomainLogicOnce'
      BY <2>1, <2>2
  <2>5. ProcessedMeansApplied'
      BY <2>1, <2>2, <2>3
  <2> QED
      BY <2>4, <2>5
<1>9. ASSUME NEW h \in Handlers, NEW w \in WriteResults, WriteAudit(h, w)
      PROVE AppliedInv'
    BY <1>9 DEF WriteAudit, Goto
<1>10. ASSUME NEW h \in Handlers, NEW w \in WriteResults, MarkProcessed(h, w)
       PROVE AppliedInv'
    BY <1>10 DEF MarkProcessed, Respond, Goto
<1>11. ASSUME NEW h \in Handlers, NEW w \in WriteResults, MarkFailed(h, w)
       PROVE AppliedInv'
    BY <1>11 DEF MarkFailed, Respond
<1>12. CASE Crash
    BY <1>12 DEF Crash
<1>13. CASE UNCHANGED vars
    BY <1>13 DEF vars
<1> HIDE DEF TypeOK, CarriesInv, WorkInv, ProgressInv, UntouchedInv, Audited,
    AppliedInv, DomainLogicOnce, ProcessedMeansApplied, AtWork, Applied, Threw
<1> QED
    BY <1>1, <1>2, <1>3, <1>4, <1>5, <1>6, <1>7, <1>8, <1>9, <1>10, <1>11, <1>12,
        <1>13, StepCases

\* Only a request at work writes a row, that of the object of its event.
LEMMA RowsStep ==
  TypeOK /\ CarriesInv /\ WorkInv /\ RowsAreAccountedFor /\ [Next]_vars => RowsAreAccountedFor'
<1> SUFFICES ASSUME TypeOK, CarriesInv, WorkInv, RowsAreAccountedFor, [Next]_vars
             PROVE RowsAreAccountedFor'
    OBVIOUS
<1> USE EventAssumption DEF TypeOK, CarriesInv, WorkInv, ProgressInv,
    RowsAreAccountedFor, AtWork, Applied
<1>1. ASSUME NEW e \in Events, Emit(e) PROVE RowsAreAccountedFor'
    BY <1>1 DEF Emit
<1>2. ASSUME NEW h \in Handlers, NEW e \in Events, Deliver(h, e)
      PROVE RowsAreAccountedFor'
    BY <1>2 DEF Deliver
<1>3. ASSUME NEW h \in Handlers, Lookup(h) PROVE RowsAreAccountedFor'
    BY <1>3 DEF Lookup, Respond, Goto
<1>4. ASSUME NEW h \in Handlers, PersistFind(h) PROVE RowsAreAccountedFor'
    BY <1>4 DEF PersistFind
<1>5. ASSUME NEW h \in Handlers, ReadFails(h) PROVE RowsAreAccountedFor'
    BY <1>5 DEF ReadFails, Respond, Goto
<1>6. ASSUME NEW h \in Handlers, NEW w \in WriteResults, Insert(h, w)
      PROVE RowsAreAccountedFor'
    BY <1>6 DEF Insert, Respond, Goto
<1>7. ASSUME NEW h \in Handlers, NEW w \in WriteResults, SkipType(h, w)
      PROVE RowsAreAccountedFor'
    BY <1>7 DEF SkipType, Respond
<1>8. ASSUME NEW h \in Handlers, NEW w \in WriteResults, PersistUpsert(h, w)
      PROVE RowsAreAccountedFor'
    BY <1>8 DEF PersistUpsert, Goto
<1>9. ASSUME NEW h \in Handlers, NEW w \in WriteResults, WriteAudit(h, w)
      PROVE RowsAreAccountedFor'
    BY <1>9 DEF WriteAudit, Goto
<1>10. ASSUME NEW h \in Handlers, NEW w \in WriteResults, MarkProcessed(h, w)
       PROVE RowsAreAccountedFor'
    BY <1>10 DEF MarkProcessed, Respond, Goto
<1>11. ASSUME NEW h \in Handlers, NEW w \in WriteResults, MarkFailed(h, w)
       PROVE RowsAreAccountedFor'
    BY <1>11 DEF MarkFailed, Respond
<1>12. CASE Crash
    BY <1>12 DEF Crash
<1>13. CASE UNCHANGED vars
    BY <1>13 DEF vars
<1> HIDE DEF TypeOK, CarriesInv, WorkInv, ProgressInv, RowsAreAccountedFor, AtWork,
    Applied
<1> QED
    BY <1>1, <1>2, <1>3, <1>4, <1>5, <1>6, <1>7, <1>8, <1>9, <1>10, <1>11, <1>12,
        <1>13, StepCases

----------------------------------------------------------------------------
StepInv == TypeOK /\ CarriesInv /\ WorkInv /\ AppliedInv /\ RowsAreAccountedFor

\* The three invariants of the tables, with what the requests at work add.
LEMMA Inductive == Spec => []StepInv
<1>1. Init => StepInv
    BY FaultAssumption DEF Init, StepInv, TypeOK, CarriesInv, WorkInv, ProgressInv,
       ExclusiveInv, UntouchedInv, AppliedInv, DomainLogicOnce, ProcessedMeansApplied,
       RowsAreAccountedFor, Stages, AtWork
<1>2. StepInv /\ [Next]_vars => StepInv'
    BY TypeStep, WorkStep, AppliedStep, RowsStep DEF StepInv
<1> QED
    BY <1>1, <1>2, PTL DEF Spec

\* However often an event is delivered and to however many requests at once,
\* its snapshot is written at most once.
THEOREM AppliedOnce == Spec => []DomainLogicOnce
<1>1. StepInv => DomainLogicOnce
    BY DEF StepInv, AppliedInv
<1> QED
    BY <1>1, Inductive, PTL

\* An event marked processed was written and audited, wherever the database
\* failed and the process died on the way.
THEOREM ProcessedIsApplied == Spec => []ProcessedMeansApplied
<1>1. StepInv => ProcessedMeansApplied
    BY DEF StepInv, AppliedInv
<1> QED
    BY <1>1, Inductive, PTL

\* A row of transactions shows an event of its own PaymentIntent that
\* webhook_event knows.
THEOREM RowsAccounted == Spec => []RowsAreAccountedFor
<1>1. StepInv => RowsAreAccountedFor
    BY DEF StepInv
<1> QED
    BY <1>1, Inductive, PTL
=============================================================================
