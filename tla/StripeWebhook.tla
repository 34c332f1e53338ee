--------------------------- MODULE StripeWebhook ---------------------------
(***************************************************************************)
(* POST /webhooks/stripe: StripeWebhookController.handle run by any number *)
(* of concurrent requests, StripeAdapter.persist as it calls it, and the   *)
(* webhook_event, transactions and audit_log tables they write.            *)
(*                                                                         *)
(* Stripe is outside the repository: it delivers an event at least once,   *)
(* in no particular order, again after any response but a 2xx, and now and *)
(* then once more after one.  A request that carries no body or signature, *)
(* or a wrong one, is refused before anything is read and is no step here. *)
(***************************************************************************)
EXTENDS Naturals

CONSTANTS Events,          \* the Stripe events that may be emitted
          Payments,        \* the PaymentIntents they are about
          NotPayment,      \* the object of an event whose type is not payment_intent.*
          ObjectOf,        \* ObjectOf[e]: the object event e is a snapshot of
          Handlers,        \* the requests that may be in progress at once
          NoEvent,         \* the event of an idle handler, and of an absent row
          WriteResults,    \* what the database may answer to a write
          MaxFaults        \* bounds the failing calls and crashes

ASSUME EventAssumption ==
    /\ NoEvent \notin Events
    /\ NotPayment \notin Payments
    /\ ObjectOf \in [Events -> Payments \cup {NotPayment}]
ASSUME WriteAssumption == WriteResults \subseteq {"ok", "failed", "ackLost"}
ASSUME FaultAssumption == MaxFaults \in Nat

VARIABLES emitted,  \* the events Stripe has created
          acked,    \* the events some delivery of which got a 2xx
          pc,       \* pc[h]: the await request h is at
          event,    \* event[h]: the event request h carries
          found,    \* found[h]: whether persist's findUnique of h saw the row
          hook,     \* hook[e]: webhook_event.status of e, "none" before the INSERT
          table,    \* table[p]: the event whose snapshot the row of p holds
          upserts,  \* upserts[e]: how often the snapshot of e was written
          audit,    \* the <<event, action>> pairs in audit_log
          faults    \* the calls that failed and the crashes so far

vars == <<emitted, acked, pc, event, found, hook, table, upserts, audit, faults>>

----------------------------------------------------------------------------
\* A request between the INSERT of its webhook_event and its last update.
AtWork == {"skip", "find", "upsert", "audit", "mark", "catch"}

Stages == {"idle", "lookup", "insert"} \cup AtWork

TypeOK ==
    /\ emitted \in SUBSET Events
    /\ acked \in SUBSET Events
    /\ pc \in [Handlers -> Stages]
    /\ event \in [Handlers -> Events \cup {NoEvent}]
    /\ found \in [Handlers -> BOOLEAN]
    /\ hook \in [Events -> {"none", "received", "processed", "failed"}]
    /\ table \in [Payments -> Events \cup {NoEvent}]
    /\ upserts \in [Events -> Nat]
    /\ audit \in SUBSET (Events \X {"created", "updated"})
    /\ faults \in 0..MaxFaults

Init ==
    /\ emitted = {}
    /\ acked = {}
    /\ pc = [h \in Handlers |-> "idle"]
    /\ event = [h \in Handlers |-> NoEvent]
    /\ found = [h \in Handlers |-> FALSE]
    /\ hook = [e \in Events |-> "none"]
    /\ table = [p \in Payments |-> NoEvent]
    /\ upserts = [e \in Events |-> 0]
    /\ audit = {}
    /\ faults = 0

----------------------------------------------------------------------------
Applied(w) == w # "failed"
Threw(w) == w # "ok"

Fault == faults < MaxFaults /\ faults' = faults + 1

Goto(h, there) == pc' = [pc EXCEPT ![h] = there] /\ UNCHANGED <<event, found>>

\* The response: a 2xx tells Stripe the event is dealt with, anything else
\* asks for another delivery.
Respond(h, success) ==
    /\ pc' = [pc EXCEPT ![h] = "idle"]
    /\ event' = [event EXCEPT ![h] = NoEvent]
    /\ found' = [found EXCEPT ![h] = FALSE]
    /\ acked' = IF success THEN acked \cup {event[h]} ELSE acked

----------------------------------------------------------------------------
\* Stripe

Emit(e) ==
    /\ e \notin emitted
    /\ emitted' = emitted \cup {e}
    /\ UNCHANGED <<acked, pc, event, found, hook, table, upserts, audit, faults>>

Deliver(h, e) ==
    /\ pc[h] = "idle"
    /\ e \in emitted
    /\ pc' = [pc EXCEPT ![h] = "lookup"]
    /\ event' = [event EXCEPT ![h] = e]
    /\ UNCHANGED <<emitted, acked, found, hook, table, upserts, audit, faults>>

----------------------------------------------------------------------------
\* One request, a step per awaited database call

\* webhookEvent.findUnique: a row of any status makes the delivery a no-op.
Lookup(h) ==
    /\ pc[h] = "lookup"
    /\ \/ /\ hook[event[h]] # "none"
          /\ Respond(h, TRUE)
       \/ /\ hook[event[h]] = "none"
          /\ Goto(h, "insert")
          /\ UNCHANGED acked
    /\ UNCHANGED <<emitted, hook, table, upserts, audit>>

\* Mutants: no unique constraint; a failed INSERT goes unseen.
InsertTwice(h, w) ==
    /\ pc[h] = "insert"
    /\ hook' = IF Applied(w) THEN [hook EXCEPT ![event[h]] = "received"] ELSE hook
    /\ IF Threw(w)
       THEN Respond(h, FALSE)
       ELSE /\ Goto(h, IF ObjectOf[event[h]] = NotPayment THEN "skip" ELSE "find")
            /\ UNCHANGED acked
    /\ UNCHANGED <<emitted, table, upserts, audit>>

InsertUnchecked(h, w) ==
    /\ pc[h] = "insert"
    /\ hook' = IF hook[event[h]] = "none" /\ Applied(w)
               THEN [hook EXCEPT ![event[h]] = "received"] ELSE hook
    /\ Goto(h, IF ObjectOf[event[h]] = NotPayment THEN "skip" ELSE "find")
    /\ UNCHANGED <<emitted, acked, table, upserts, audit>>

\* webhookEvent.create, in no try: the unique constraint turns a second
\* INSERT into a 500, as a failure of the database does.
Insert(h, w) ==
    /\ pc[h] = "insert"
    /\ LET fresh == hook[event[h]] = "none"
       IN  /\ hook' = IF fresh /\ Applied(w)
                      THEN [hook EXCEPT ![event[h]] = "received"] ELSE hook
           /\ IF fresh /\ ~Threw(w)
              THEN /\ Goto(h, IF ObjectOf[event[h]] = NotPayment THEN "skip" ELSE "find")
                   /\ UNCHANGED acked
              ELSE Respond(h, FALSE)
    /\ UNCHANGED <<emitted, table, upserts, audit>>

\* markProcessed for an event of another type, in no try either.
SkipType(h, w) ==
    /\ pc[h] = "skip"
    /\ hook' = IF Applied(w) THEN [hook EXCEPT ![event[h]] = "processed"] ELSE hook
    /\ Respond(h, ~Threw(w))
    /\ UNCHANGED <<emitted, table, upserts, audit>>

\* persist: findUnique decides between created and updated ...
PersistFind(h) ==
    /\ pc[h] = "find"
    /\ pc' = [pc EXCEPT ![h] = "upsert"]
    /\ found' = [found EXCEPT ![h] = table[ObjectOf[event[h]]] # NoEvent]
    /\ UNCHANGED <<emitted, acked, event, hook, table, upserts, audit>>

\* ... and the upsert writes the snapshot, whatever the row held.
PersistUpsert(h, w) ==
    /\ pc[h] = "upsert"
    /\ IF Applied(w)
       THEN /\ table' = [table EXCEPT ![ObjectOf[event[h]]] = event[h]]
            /\ upserts' = [upserts EXCEPT ![event[h]] = @ + 1]
       ELSE UNCHANGED <<table, upserts>>
    /\ Goto(h, IF Threw(w) THEN "catch" ELSE "audit")
    /\ UNCHANGED <<emitted, acked, hook, audit>>

\* Mutant: the handler answers after persist, without markProcessed.
WriteAuditAndAnswer(h, w) ==
    /\ pc[h] = "audit"
    /\ audit' = IF Applied(w)
                THEN audit \cup {<<event[h], IF found[h] THEN "updated" ELSE "created">>}
                ELSE audit
    /\ IF Threw(w) THEN Goto(h, "catch") /\ UNCHANGED acked ELSE Respond(h, TRUE)
    /\ UNCHANGED <<emitted, hook, table, upserts>>

WriteAudit(h, w) ==
    /\ pc[h] = "audit"
    /\ audit' = IF Applied(w)
                THEN audit \cup {<<event[h], IF found[h] THEN "updated" ELSE "created">>}
                ELSE audit
    /\ Goto(h, IF Threw(w) THEN "catch" ELSE "mark")
    /\ UNCHANGED <<emitted, acked, hook, table, upserts>>

MarkProcessed(h, w) ==
    /\ pc[h] = "mark"
    /\ hook' = IF Applied(w) THEN [hook EXCEPT ![event[h]] = "processed"] ELSE hook
    /\ IF Threw(w)
       THEN Goto(h, "catch") /\ UNCHANGED acked
       ELSE Respond(h, TRUE)
    /\ UNCHANGED <<emitted, table, upserts, audit>>

\* Mutants: a status the enum does not have; processed whatever happened.
MarkErrored(h, w) ==
    /\ pc[h] = "catch"
    /\ hook' = IF Applied(w) THEN [hook EXCEPT ![event[h]] = "error"] ELSE hook
    /\ Respond(h, FALSE)
    /\ UNCHANGED <<emitted, table, upserts, audit>>

MarkProcessedAnyway(h, w) ==
    /\ pc[h] = "catch"
    /\ hook' = IF Applied(w) THEN [hook EXCEPT ![event[h]] = "processed"] ELSE hook
    /\ Respond(h, FALSE)
    /\ UNCHANGED <<emitted, table, upserts, audit>>

\* The catch block marks the event failed and rethrows: a 500 either way.
MarkFailed(h, w) ==
    /\ pc[h] = "catch"
    /\ hook' = IF Applied(w) THEN [hook EXCEPT ![event[h]] = "failed"] ELSE hook
    /\ Respond(h, FALSE)
    /\ UNCHANGED <<emitted, table, upserts, audit>>

\* A read fails as a write may: before the INSERT it ends in a 500, in the
\* try block it reaches the catch.
ReadFails(h) ==
    /\ \/ pc[h] = "lookup" /\ Respond(h, FALSE)
       \/ pc[h] = "find" /\ Goto(h, "catch") /\ UNCHANGED acked
    /\ UNCHANGED <<emitted, hook, table, upserts, audit>>

HandlerStep(h) ==
    \/ Lookup(h) /\ UNCHANGED faults
    \/ PersistFind(h) /\ UNCHANGED faults
    \/ ReadFails(h) /\ Fault
    \/ \E w \in WriteResults :
         /\ IF Threw(w) THEN Fault ELSE UNCHANGED faults
         /\ \/ Insert(h, w)
            \/ SkipType(h, w)
            \/ PersistUpsert(h, w)
            \/ WriteAudit(h, w)
            \/ MarkProcessed(h, w)
            \/ MarkFailed(h, w)

\* The process dies and comes up again: no request in it is ever answered.
Crash ==
    /\ Fault
    /\ pc' = [h \in Handlers |-> "idle"]
    /\ event' = [h \in Handlers |-> NoEvent]
    /\ found' = [h \in Handlers |-> FALSE]
    /\ UNCHANGED <<emitted, acked, hook, table, upserts, audit>>

----------------------------------------------------------------------------
Next ==
    \/ \E e \in Events : Emit(e)
    \/ \E h \in Handlers, e \in Events : Deliver(h, e)
    \/ \E h \in Handlers : HandlerStep(h)
    \/ Crash

Spec == Init /\ [][Next]_vars

\* Awaited calls settle, and Stripe goes on delivering what no response has
\* acknowledged; that a delivery finds an idle handler time and again is a
\* bound of the model, so its fairness is strong.
Fairness ==
    /\ \A h \in Handlers : WF_vars(HandlerStep(h))
    /\ \A e \in Events :
         SF_vars(e \notin acked /\ \E h \in Handlers : Deliver(h, e))

FairSpec == Spec /\ Fairness

----------------------------------------------------------------------------
\* Safety

\* However often and however concurrently an event is delivered, its snapshot
\* is written at most once: the unique constraint on (source, eventId), not
\* the lookup before it, is the guard of the class comment (22-31).
DomainLogicOnce == \A e \in Events : upserts[e] <= 1

\* An event marked processed was written and audited, whatever failed on the
\* way: webhook_event never claims work that was not done.
ProcessedMeansApplied ==
    \A e \in Events : hook[e] = "processed" /\ ObjectOf[e] # NotPayment =>
        /\ upserts[e] = 1
        /\ \E action \in {"created", "updated"} : <<e, action>> \in audit

\* A transactions row holds a snapshot of its own PaymentIntent, and one that
\* Stripe emitted and webhook_event knows: the tables never disagree.
RowsAreAccountedFor ==
    \A p \in Payments : table[p] # NoEvent =>
        /\ ObjectOf[table[p]] = p
        /\ hook[table[p]] # "none"

\* An event Stripe has no reason to deliver again is processed or at work:
\* only an event that was "already processed" is answered with a no-op
\* (docs/DESIGN.md:246).
NoEventIsDropped ==
    \A e \in acked :
        \/ hook[e] = "processed"
        \/ \E h \in Handlers : event[h] = e /\ pc[h] \in AtWork

----------------------------------------------------------------------------
\* Liveness

\* Every event Stripe emits ends up processed, however many of its deliveries
\* race each other, as long as no call fails: one fault may lose it for good
\* (NoEventIsDropped).
EveryEventIsProcessed ==
    \A e \in Events : e \in emitted ~> hook[e] = "processed" \/ faults > 0
=============================================================================
