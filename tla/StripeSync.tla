----------------------------- MODULE StripeSync -----------------------------
(***************************************************************************)
(* StripeAdapter and StripeClient over the Stripe API, with the passes of  *)
(* the runner (RunnerPass) and the writes of the webhook endpoint to the   *)
(* same transactions rows (StripeWebhook, reduced here to its upsert).     *)
(*                                                                         *)
(* Outside the repository: every change of a PaymentIntent appends an      *)
(* event that carries a snapshot of it and the second it happened in; the  *)
(* Events API lists the events of the types it is asked for after a        *)
(* second, newest first, a page at a time, and forgets the old ones; a     *)
(* full list pages the PaymentIntents newest first.  The version of a      *)
(* PaymentIntent is the index of its latest event in the log.              *)
(*                                                                         *)
(* The client asks for five of the types a PaymentIntent has, the webhook  *)
(* endpoint takes them all, and a full list shows the current state        *)
(* whatever its event was.  So an incremental fetch never sees a change of *)
(* another type, and may take a row back from the state it led to: what    *)
(* the cursor and the passes keep, they keep of listed events only.        *)
(***************************************************************************)
EXTENDS RunnerPass, FiniteSets, Sequences

CONSTANTS ListLimit,      \* the limit of a page of PaymentIntents (100 in stripe.client.ts)
          EventLimit,     \* the limit of a page of events (100 in stripe.client.ts)
          MaxEvents,      \* bounds the changes upstream
          MaxSecond,      \* bounds the clock
          SharedSeconds,  \* whether a change may share its second with another or a fetch
          EventsExpire,   \* which events the Events API forgets: "passed" by the cursor, or "any"
          Deliveries      \* how webhooks may reach the table: "none" (no endpoint is
                          \* registered), "ordered" or "any"

ASSUME LimitAssumption == ListLimit \in Nat \ {0} /\ EventLimit \in Nat \ {0}
ASSUME BoundAssumption == MaxEvents \in Nat /\ MaxSecond \in Nat \ {0}
ASSUME UpstreamAssumption ==
    /\ SharedSeconds \in BOOLEAN
    /\ EventsExpire \in {"passed", "any"}
    /\ Deliveries \subseteq {"none", "ordered", "any"}

VARIABLES clock,      \* the current second
          used,       \* whether an event or a fetch happened in it
          log,        \* the events so far, oldest first: the object, the second, and
                      \* whether the client asks for events of this type
          expired,    \* how many of them the Events API no longer lists
          webhooks,   \* which of the Deliveries this deployment has
          delivered,  \* the events a webhook has written to the table
          after       \* after[j]: starting_after of the full list of j, as the
                      \* index of the first event of the last PaymentIntent read

upstreamVars == <<clock, used, log, expired, webhooks>>
vars == <<passVars, upstreamVars, delivered, after>>

----------------------------------------------------------------------------
Event == [obj : Keys, at : 1..MaxSecond, listed : BOOLEAN]

Indices == 1..Len(log)
Of(p) == {n \in Indices : log[n].obj = p}

\* The events of the types in PAYMENT_INTENT_EVENT_TYPES: created, processing,
\* succeeded, payment_failed and canceled, but not requires_action,
\* amount_capturable_updated and partially_funded.
Listed == {n \in Indices : log[n].listed}

Least(S) == CHOOSE n \in S : \A m \in S : n <= m
Greatest(S) == CHOOSE n \in S : \A m \in S : n >= m

\* The up to limit greatest members of S: a page, newest first.
Page(S, limit) == {n \in S : Cardinality({m \in S : m > n}) < limit}

Existing == {p \in Keys : Of(p) # {}}
Latest(p) == Greatest(Of(p))  \* the version of p
Born(p) == Least(Of(p))       \* its position in the list of PaymentIntents

TypeOK ==
    /\ PassTypeOK
    /\ clock \in 1..MaxSecond
    /\ used \in BOOLEAN
    /\ log \in Seq(Event)
    /\ expired \in 0..Len(log)
    /\ webhooks \in Deliveries
    /\ delivered \subseteq Indices
    /\ after \in [Jobs -> 1..(MaxEvents + 1)]

Init ==
    /\ PassInit
    /\ clock = 1
    /\ used = FALSE
    /\ log = <<>>
    /\ expired = 0
    /\ webhooks \in Deliveries
    /\ delivered = {}
    /\ after = [j \in Jobs |-> MaxEvents + 1]

----------------------------------------------------------------------------
\* Upstream

Tick ==
    /\ clock < MaxSecond
    /\ clock' = clock + 1
    /\ used' = FALSE
    /\ UNCHANGED <<passVars, log, expired, webhooks, delivered, after>>

\* The first event of a PaymentIntent is created, which is listed.
Change(p) ==
    /\ Len(log) < MaxEvents
    /\ SharedSeconds \/ ~used
    /\ \E listed \in BOOLEAN :
         /\ Of(p) = {} => listed
         /\ log' = Append(log, [obj |-> p, at |-> clock, listed |-> listed])
    /\ used' = TRUE
    /\ UNCHANGED <<passVars, clock, expired, webhooks, delivered, after>>

\* The Events API keeps events for some 30 days: passes that come more often
\* than that find every event behind their cursor.
Expire ==
    /\ expired < Len(log)
    /\ EventsExpire = "passed" => cursor # NoCursor /\ log[expired + 1].at <= cursor
    /\ expired' = expired + 1
    /\ UNCHANGED <<passVars, clock, used, log, webhooks, delivered, after>>

\* The upsert and the audit entry of the webhook endpoint, once per event; it
\* takes every type that begins with payment_intent.
WebhookWrites(n) ==
    /\ webhooks # "none"
    /\ n \notin delivered
    /\ webhooks = "ordered" => \A m \in Of(log[n].obj) : m < n => m \in delivered
    /\ table' = [table EXCEPT ![log[n].obj] = n]
    /\ audit' = audit \cup {<<log[n].obj, n>>}
    /\ delivered' = delivered \cup {n}
    /\ UNCHANGED <<cursor, phase, seen, batch, current, next, failures, upstreamVars, after>>

----------------------------------------------------------------------------
\* The fetches of StripeAdapter

\* The snapshots a fetch maps, each known by its PaymentIntent and version.
EnvelopesOf(versions) == {<<log[n].obj, n>> : n \in versions}

\* A page of fetchFull holds the current state of its PaymentIntents; those
\* created since the first page are never reached.  Without any PaymentIntent
\* the cursor is the current second.
FetchFullPage(j) ==
    /\ phase[j] = "full"
    /\ LET left == {Born(p) : p \in {q \in Existing : Born(q) < after[j]}}
           page == Page(left, ListLimit)
           newest == IF next[j] = NoCursor /\ page # {} THEN log[Greatest(page)].at
                     ELSE next[j]
           last == page = left
       IN  /\ Fetched(j, EnvelopesOf({Latest(log[n].obj) : n \in page}),
                      IF last /\ newest = NoCursor THEN clock ELSE newest, last)
           /\ after' = [after EXCEPT ![j] =
                          IF last THEN MaxEvents + 1 ELSE Least(page)]
    /\ used' = TRUE
    /\ UNCHANGED <<clock, log, expired, webhooks, delivered>>

\* listPaymentIntentEventsSince: the listed events of later seconds.
Since(c) == {n \in Listed : n > expired /\ log[n].at > c}

\* Mutants: every event of the page is kept; the first one seen is.
EveryEvent(page) == page


\* The most recent event per PaymentIntent of a page.
LatestPerObject(page) == {n \in page : \A m \in page \cap Of(log[n].obj) : m <= n}

\* fetchIncremental reads one page, keeps the latest event per PaymentIntent
\* and takes the second of the latest one, or the cursor itself, as next.
FetchIncremental(j) ==
    /\ phase[j] = "incremental"
    /\ LET page == Page(Since(seen[j]), EventLimit)
       IN  Fetched(j, EnvelopesOf(LatestPerObject(page)),
                   IF page = {} THEN seen[j] ELSE log[Greatest(page)].at, TRUE)
    /\ used' = TRUE
    /\ UNCHANGED <<clock, log, expired, webhooks, delivered, after>>

----------------------------------------------------------------------------
\* The steps of RunnerPass, beside which nothing else changes; a pass that
\* ends forgets its place in the full list.
PassStep(j) ==
    /\ Begin(j) \/ PersistBatch(j)
    /\ UNCHANGED <<upstreamVars, delivered, after>>

CursorRejected(j) ==
    /\ FallBack(j)
    /\ UNCHANGED <<upstreamVars, delivered, after>>

PassFails(j) ==
    /\ Fail(j)
    /\ after' = [after EXCEPT ![j] = MaxEvents + 1]
    /\ UNCHANGED <<upstreamVars, delivered>>

FetchStep(j) == FetchFullPage(j) \/ FetchIncremental(j)

Next ==
    \/ Tick
    \/ \E p \in Keys : Change(p)
    \/ Expire
    \/ \E n \in Indices : WebhookWrites(n)
    \/ \E j \in Jobs : PassStep(j) \/ FetchStep(j) \/ CursorRejected(j) \/ PassFails(j)

Spec == Init /\ [][Next]_vars

\* Awaited calls settle, Stripe delivers every event in the end, and passes
\* are triggered again and again: the last is what the project asks of its
\* users, there being no scheduler.
Fairness ==
    /\ \A j \in Jobs : WF_vars(PassStep(j)) /\ WF_vars(FetchStep(j))
    /\ \A n \in 1..MaxEvents : WF_vars(n \in Indices /\ WebhookWrites(n))

FairSpec == Spec /\ Fairness

----------------------------------------------------------------------------
\* Safety

\* The listed events the cursor has passed: the next pass asks for later
\* seconds only, so what the table misses of them is never fetched.
Passed == {n \in Listed : cursor # NoCursor /\ log[n].at <= cursor}

\* Without webhooks, what the cursor claims is in the table: a row is at least
\* as recent as every listed event of its PaymentIntent up to the cursor,
\* "New/changed transactions picked up since last cursor"
\* (docs/ROADMAP.md:165).
CursorCoversTable ==
    webhooks = "none" => \A n \in Passed : table[log[n].obj] >= n

\* Beside webhooks, a row is as recent as the listed events the cursor has
\* passed, or an event of its PaymentIntent that would bring it there is still
\* to be delivered: neither the passes nor the deliveries "write stale data
\* last" (stripe.adapter.ts:56-58).  It takes deliveries in the order of the
\* events.
CursorOrDelivery ==
    webhooks # "none" => \A n \in Passed :
        \/ table[log[n].obj] >= n
        \/ \E m \in Of(log[n].obj) : m >= n /\ m \notin delivered

\* Without webhooks the audit trail follows the table, through failures at
\* every step of a pass (runForSource, the loop over the envelopes): an entry
\* about a listed event is never ahead of its row, and until something fails a
\* row version has its entry.
PassesAudit ==
    webhooks = "none" =>
        /\ \A env \in audit : env[2] \in Listed => table[env[1]] >= env[2]
        /\ RowsAreAudited

\* A step keeps every listed event that is in its row.
KeepsListed == \A n \in Listed : table[log[n].obj] >= n => table'[log[n].obj] >= n

\* Without webhooks no pass takes a row back behind a listed event it had: a
\* window may hold several events about a PaymentIntent, and a full list and
\* the events of a later window overlap (fetchFull, fetchIncremental).  A row
\* may go back from a state that only a full list shows, no further than to
\* the latest listed event before it.
PassesKeepVersions == [][webhooks = "none" => KeepsListed]_vars

\* Liveness

\* Once upstream rests and calls stop failing, every row reaches the last listed
\* event of its PaymentIntent, or a later state, and stays there.
TableConverges ==
    \A p \in Keys : <>[](\A n \in Listed \cap Of(p) : table[p] >= n)
=============================================================================
