----------------------------- MODULE Dashboard -----------------------------
(***************************************************************************)
(* The page public/script.js in a browser, over the endpoints it reads:    *)
(* the metrics (Revenue), the transactions the seed-finance passes write   *)
(* (SeedFinance) and the state of that source.                             *)
(*                                                                         *)
(* A load is what one async function of the page does: up to two requests  *)
(* at once, and when both are answered, or one has failed, the panel is    *)
(* rendered in one go.  Loads overlap, since nothing waits for the one     *)
(* before.  The panels not named here (health, state cards, history,       *)
(* calendar, contacts, audit log, run detail) are loads of one request     *)
(* like "state".                                                           *)
(***************************************************************************)
EXTENDS Revenue

CONSTANTS Slots,     \* bounds the loads in flight; the lowest free one is taken
          Visits,    \* what happens together: the sections a visitor goes to and fro
                     \* between, and what else the visit meets
          Ranges,    \* the <<from, to, granularity>> the visitor applies, empty dates aside
          RowLimit,  \* how many rows a table asks for (100 in script.js)
          Pending,   \* no answer yet
          Refused,   \* an answer that is no 2xx
          Blank      \* a panel before its first load

Sections == {"sync", "stripe", "revenue"}
Events == {"release", "damage", "seed", "byHand", "passFails", "requestFails"}

ASSUME SlotAssumption == Slots \subseteq Nat
ASSUME VisitAssumption == Visits \subseteq [sections : SUBSET Sections, meets : SUBSET Events]
ASSUME RangeAssumption == Ranges \subseteq Times \X Times \X {"day", "week"}

VARIABLES visit,          \* which of the Visits this behaviour is
          activeSection,  \* the section on screen, "none" for one without a model: the page
                          \* opens on health
          load,           \* load[s]: the load in slot s
          revenue,        \* the figures of the revenue section
          rows,           \* the rows of the table of transactions
          cache,          \* stripeTransactionsCache, which a click on a row looks into
          statusCache,    \* stripeStatusMappingCache
          state,          \* the status in the table of sources
          spinner,        \* whether the spinner of the revenue section is visible
          trigger,        \* the trigger button: "ready", or disabled with its request "asked",
                          \* "running", "answered" or "rejected"
          lastStatus      \* sync_state.last_status of the source, "none" without a row

panelVars == <<revenue, rows, cache, statusCache, state, spinner>>
browserVars == <<visit, activeSection, panelVars, trigger>>
vars == <<backendVars, browserVars, load, lastStatus>>

Double == {"transactions", "revenue"}  \* the loads of two requests
Kinds == {"none", "state"} \cup Double

Loading(kind, arg) ==
    [kind |-> kind, arg |-> arg, first |-> Pending, second |-> Pending, moved |-> FALSE]

NoLoad == Loading("none", <<>>)

TypeOK ==
    /\ RevenueTypeOK
    /\ visit \in Visits /\ activeSection \in visit.sections \cup {"none"}
    /\ \A s \in Slots : load[s].kind \in Kinds /\ load[s].moved \in BOOLEAN
    /\ cache \subseteq Transactions \cup {Facts[k][v] : k \in Keys, v \in 1..MaxInstant}
    /\ state \in {Blank, "error", "none", "success", "failed"}
    /\ spinner \in BOOLEAN
    /\ trigger \in {"ready", "asked", "running", "answered", "rejected"}
    /\ lastStatus \in {"none", "success", "failed"}

Init ==
    /\ RevenueInit
    /\ visit \in Visits
    /\ (seeding = 0) = ("seed" \in visit.meets)
    /\ activeSection = "none"
    /\ load = [s \in Slots |-> NoLoad]
    /\ revenue = Blank
    /\ rows = Blank
    /\ cache = {}
    /\ statusCache = <<>>
    /\ state = Blank
    /\ spinner = FALSE
    /\ trigger = "ready"
    /\ lastStatus = "none"

----------------------------------------------------------------------------
\* The endpoints

\* GET /transactions: the rows that occurred last.
Latest(transactions) ==
    {t \in transactions :
        Cardinality({u \in transactions : u.occurredAt > t.occurredAt}) < RowLimit}

First(kind, arg) ==
    CASE kind = "state" -> lastStatus
      [] kind = "transactions" -> Latest(Transactions)
      [] kind = "revenue" -> IF Accepted(arg[1], arg[2])
                             THEN Summary(Transactions, mapping, arg[1], arg[2]) ELSE Refused

\* Mutant: the breakdown is asked from the first date on.
SecondFromOn(kind, arg) ==
    CASE kind = "transactions" -> mapping
      [] kind = "revenue" -> IF Accepted(arg[1], arg[2])
                             THEN Buckets({t \in Collected(Transactions, mapping) :
                                             t.occurredAt >= arg[1]}, arg[3]) ELSE Refused

Second(kind, arg) ==
    CASE kind = "transactions" -> mapping
      [] kind = "revenue" -> IF Accepted(arg[1], arg[2])
                             THEN Breakdown(Transactions, mapping, arg[1], arg[2], arg[3])
                             ELSE Refused

\* Mutant: the rows go to the cache before the other request is answered.
AnswerFirstToCache(s) ==
    /\ load[s].kind # "none" /\ load[s].first = Pending
    /\ load' = [load EXCEPT ![s].first = First(load[s].kind, load[s].arg)]
    /\ cache' = IF load[s].kind = "transactions" THEN load'[s].first ELSE cache
    /\ UNCHANGED <<backendVars, visit, activeSection, revenue, rows, statusCache, state, spinner,
                   trigger, lastStatus>>

AnswerFirst(s) ==
    /\ load[s].kind # "none" /\ load[s].first = Pending
    /\ load' = [load EXCEPT ![s].first = First(load[s].kind, load[s].arg)]
    /\ UNCHANGED <<backendVars, browserVars, lastStatus>>

AnswerSecond(s) ==
    /\ load[s].kind \in Double /\ load[s].second = Pending
    /\ load' = [load EXCEPT ![s].second = Second(load[s].kind, load[s].arg)]
    /\ UNCHANGED <<backendVars, browserVars, lastStatus>>

\* The figures of a load with one answer of two when rows or the allow-list are
\* written are of two moments.
HalfAnswered(s) ==
    load[s].kind = "revenue" /\ (load[s].first = Pending) # (load[s].second = Pending)

NoteMoves ==
    load' = IF <<table, mapping>>' = <<table, mapping>> THEN load
            ELSE [s \in Slots |-> [load[s] EXCEPT !.moved = @ \/ HalfAnswered(s)]]

----------------------------------------------------------------------------
\* The page

Ask(s, kind, arg) ==
    /\ load[s] = NoLoad /\ \A lower \in Slots : lower < s => load[lower] # NoLoad
    /\ load' = [load EXCEPT ![s] = Loading(kind, arg)]

\* loadSection.  Revenue loads when a range is applied, not here.
LoadSection(section) ==
    CASE section = "sync" -> \E s \in Slots : Ask(s, "state", <<>>)
      [] section = "stripe" -> \E s \in Slots : Ask(s, "transactions", <<>>)
      [] section = "revenue" -> UNCHANGED load

\* A link of the sidebar, and the refresh button for the section on screen.
SetActiveSection(section) ==
    /\ section \in visit.sections
    /\ LoadSection(section)
    /\ activeSection' = section
    /\ UNCHANGED <<backendVars, visit, panelVars, trigger, lastStatus>>

\* Mutant: the timer looks at another section.
RefreshOther ==
    /\ activeSection = "stripe"
    /\ LoadSection("sync")
    /\ UNCHANGED <<backendVars, browserVars, lastStatus>>

\* The timer of the section, which loads whether or not an earlier load is done.
AutoRefresh ==
    /\ activeSection = "sync"
    /\ LoadSection("sync")
    /\ UNCHANGED <<backendVars, browserVars, lastStatus>>

\* handleRevenueSubmit up to its await.
SubmitRevenue ==
    /\ activeSection = "revenue"
    /\ \E s \in Slots, range \in Ranges : Ask(s, "revenue", range)
    /\ spinner' = TRUE
    /\ UNCHANGED <<backendVars, visit, activeSection, revenue, rows, cache, statusCache, state,
                   trigger, lastStatus>>

\* Mutant: a status without entry gets the badge.
BadgeUnlessExcluded(t, list) == t \in NotExcluded({t}, list)

\* The badge, resolved once more in the browser.
Badge(t, list) ==
    <<t.source, t.rawStatus>> \in DOMAIN list /\ list[<<t.source, t.rawStatus>>] = "collected"

Free(s) == load' = [load EXCEPT ![s] = NoLoad]

\* What a load that got its answers puts on screen, in one turn of the event loop.
RenderState(s) ==
    /\ load[s].kind = "state"
    /\ state' = load[s].first
    /\ UNCHANGED <<revenue, rows, cache, statusCache, spinner>>

RenderTransactions(s) ==
    /\ load[s].kind = "transactions"
    /\ cache' = load[s].first
    /\ statusCache' = load[s].second
    /\ rows' = {[row |-> t, collected |-> Badge(t, load[s].second)] : t \in load[s].first}
    /\ UNCHANGED <<revenue, state, spinner>>

RenderRevenue(s) ==
    /\ load[s].kind = "revenue"
    /\ revenue' = [total |-> load[s].first, buckets |-> load[s].second, moved |-> load[s].moved]
    /\ spinner' = FALSE
    /\ UNCHANGED <<rows, cache, statusCache, state>>

\* Mutant: the state is rendered without awaiting its request.
StateUnawaited(s) ==
    /\ load[s].kind = "state" \/ load[s].first \notin {Pending, Refused}
    /\ load[s].kind \in Double => load[s].second \notin {Pending, Refused}

Answered(s) ==
    /\ load[s].first \notin {Pending, Refused}
    /\ load[s].kind \in Double => load[s].second \notin {Pending, Refused}

Render(s) ==
    /\ Answered(s)
    /\ RenderState(s) \/ RenderTransactions(s) \/ RenderRevenue(s)
    /\ Free(s)
    /\ UNCHANGED <<backendVars, visit, activeSection, trigger, lastStatus>>

\* A request that is refused, or that is lost, drops the other one's answer.
Lost(s) ==
    /\ load[s].kind # "none"
    /\ IF Refused \in {load[s].first, load[s].second} THEN UNCHANGED failures
       ELSE "requestFails" \in visit.meets /\ failures < MaxFailures /\ failures' = failures + 1

\* Mutant: the spinner is hidden after the figures only.
LoadFailsSpinning(s) ==
    /\ Lost(s)
    /\ state' = IF load[s].kind = "state" THEN "error" ELSE state
    /\ rows' = IF load[s].kind = "transactions" THEN Refused ELSE rows
    /\ Free(s)
    /\ UNCHANGED <<table, audit, cursor, phase, seen, batch, current, next, fixture, revenueVars,
                   visit, activeSection, revenue, cache, statusCache, spinner, trigger, lastStatus>>

\* The catch and finally blocks: figures and cache stay as they are.
LoadFails(s) ==
    /\ Lost(s)
    /\ state' = IF load[s].kind = "state" THEN "error" ELSE state
    /\ rows' = IF load[s].kind = "transactions" THEN Refused ELSE rows
    /\ spinner' = IF load[s].kind = "revenue" THEN FALSE ELSE spinner
    /\ Free(s)
    /\ UNCHANGED <<table, audit, cursor, phase, seen, batch, current, next, fixture, revenueVars,
                   visit, activeSection, revenue, cache, statusCache, trigger, lastStatus>>

----------------------------------------------------------------------------
\* handleTriggerSubmit and the passes

\* The button is disabled for as long as its request is in flight.
TriggerSubmit ==
    /\ activeSection = "sync"
    /\ trigger = "ready"
    /\ trigger' = "asked"
    /\ UNCHANGED <<backendVars, visit, activeSection, panelVars, load, lastStatus>>

\* The request begins a pass, or is refused because one is in progress.
TriggerArrives(j) ==
    /\ trigger = "asked"
    /\ IF phase[j] = "idle"
       THEN trigger' = "running" /\ Begin(j)
       ELSE trigger' = "rejected" /\ UNCHANGED passVars
    /\ UNCHANGED <<fixture, revenueVars, visit, activeSection, panelVars, load, lastStatus>>

\* The answer does not come, while the pass, if any, goes on.
TriggerLost ==
    /\ trigger \in {"asked", "running"}
    /\ "requestFails" \in visit.meets
    /\ failures < MaxFailures
    /\ failures' = failures + 1
    /\ trigger' = "rejected"
    /\ UNCHANGED <<table, audit, cursor, phase, seen, batch, current, next, fixture, revenueVars,
                   visit, activeSection, panelVars, load, lastStatus>>

\* Mutant: the button is enabled at the end of the try block.
TriggerReturnsResult ==
    /\ trigger = "answered"
    /\ LoadSection("sync")
    /\ trigger' = "ready"
    /\ UNCHANGED <<backendVars, visit, activeSection, panelVars, lastStatus>>

\* A result reloads the section, an error does not.
TriggerReturns ==
    /\ trigger \in {"answered", "rejected"}
    /\ IF trigger = "answered" THEN LoadSection("sync") ELSE UNCHANGED load
    /\ trigger' = "ready"
    /\ UNCHANGED <<backendVars, visit, activeSection, panelVars, lastStatus>>

\* A pass begun from elsewhere: another page, curl.
OtherTrigger(j) ==
    /\ Begin(j)
    /\ UNCHANGED <<fixture, revenueVars, browserVars, load, lastStatus>>

Ends(j) == phase[j] # "idle" /\ phase'[j] = "idle"

\* sync_state is written as the pass ends, and its run then answers the request
\* that began it.
PassStep(j) ==
    /\ SeedFinanceStep(j)
    /\ lastStatus' = IF Ends(j) THEN "success" ELSE lastStatus
    /\ trigger' = IF Ends(j) /\ trigger = "running" THEN "answered" ELSE trigger
    /\ UNCHANGED <<revenueVars, visit, activeSection, panelVars>>
    /\ NoteMoves

\* The pass records its failure and the run answers with it, or the process
\* ends and the request with it.
PassFails(j) ==
    /\ "passFails" \in visit.meets
    /\ SeedFinanceFails(j)
    /\ \E caught \in BOOLEAN :
         /\ lastStatus' = IF caught THEN "failed" ELSE lastStatus
         /\ trigger' = IF trigger # "running" THEN trigger
                       ELSE IF caught THEN "answered" ELSE "rejected"
    /\ UNCHANGED <<revenueVars, visit, activeSection, panelVars, load>>

----------------------------------------------------------------------------
BackendStep ==
    /\ \/ "release" \in visit.meets /\ (\E k \in Keys : Release(k)) /\ UNCHANGED revenueVars
       \/ "damage" \in visit.meets /\ CorruptCursor /\ UNCHANGED revenueVars
       \/ "seed" \in visit.meets /\ (SeedOne \/ SeedAnew)
       \/ "byHand" \in visit.meets /\ \E pair \in ByHand : AddByHand(pair)
    /\ NoteMoves
    /\ UNCHANGED <<browserVars, lastStatus>>

LoadStep(s) == AnswerFirst(s) \/ AnswerSecond(s) \/ Render(s)

LoadRefused(s) == Refused \in {load[s].first, load[s].second} /\ LoadFails(s)

TriggerStep == TriggerReturns \/ \E j \in Jobs : TriggerArrives(j)

Next ==
    \/ BackendStep
    \/ \E section \in Sections : SetActiveSection(section)
    \/ AutoRefresh
    \/ SubmitRevenue
    \/ TriggerSubmit
    \/ TriggerStep
    \/ TriggerLost
    \/ \E s \in Slots : LoadStep(s) \/ LoadFails(s)
    \/ \E j \in Jobs : OtherTrigger(j) \/ PassStep(j) \/ PassFails(j)

Spec == Init /\ [][Next]_vars

\* Requests are answered or refused, timers fire, and passes are triggered again
\* and again, from wherever; a visitor does what he likes.  Strong fairness of
\* TriggerStep since the slots, a bound of the model, may all be taken.
Fairness ==
    /\ \A s \in Slots : WF_vars(LoadStep(s) \/ LoadRefused(s))
    /\ WF_vars(AutoRefresh)
    /\ SF_vars(TriggerStep)
    /\ \A j \in Jobs : WF_vars(OtherTrigger(j)) /\ WF_vars(PassStep(j))

FairSpec == Spec /\ Fairness

----------------------------------------------------------------------------
\* Safety

\* The total and the periods on screen add up unless rows or the allow-list changed
\* between the two queries, and only then may they not: "Summary and breakdown are
\* guaranteed to agree" (README.md:67), which handleRevenueSubmit reads by two requests.
FiguresAgree ==
    revenue # Blank /\ ~revenue.moved => revenue.total = BucketTotal(revenue.buckets)

\* The three places that decide what is collected agree: the rows on screen with the
\* badge (loadStripeTransactions), those the metrics count (COLLECTED_JOIN), and
\* those StatusMappingService resolves.
BadgesAgreeWithMetrics ==
    rows \notin {Blank, Refused} =>
        /\ {r.row : r \in {q \in rows : q.collected}} = Collected(cache, statusCache)
        /\ Collected(cache, statusCache) = {t \in cache : Resolve(t, statusCache) = "collected"}

\* A click on a row opens the record the row shows, though loads overlap and fail
\* (the cache of a section is a variable of the page, loadStripeTransactions).
RowOpensItsRecord ==
    rows \notin {Blank, Refused} => {r.row : r \in rows} = cache

\* A spinner turns for a load in flight: none is left turning by an answer that is
\* refused, lost or overtaken (handleRevenueSubmit).
SpinnerMeansLoading ==
    spinner => \E s \in Slots : load[s].kind = "revenue"

\* Liveness

\* As long as the section stays on screen, its table gets to the status of the last
\* pass, though answers come out of order and some get lost (startAutoRefresh).
TableOfSourcesCatchesUp ==
    <>[](activeSection = "sync") => <>[](state = lastStatus)

\* The button is enabled again, whatever becomes of the request (handleTriggerSubmit).
ButtonReturns == trigger = "asked" ~> trigger = "ready"
=============================================================================
