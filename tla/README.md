# A TLA+ verification project for backend-sync-assessment

The backend pulls contacts (HubSpot), calendar events (Google Calendar) and
transactions (Stripe, and a fixture called seed-finance) into PostgreSQL. A pull is
started by `POST /sync/trigger` or by `npm run sync:...`; Stripe also pushes single
PaymentIntents through a webhook. On top of the normalised rows it serves revenue
metrics and a dashboard.

This directory models the part that is hard to get right by testing: several
asynchronous writers over one database, failing at any await, and cursors that
decide what the next pull will *not* look at again. Paths below are relative to the
repository.

## 1. Inventory

| Component | State it keeps | Operations | Where it is modelled |
| --- | --- | --- | --- |
| Run lifecycle (`src/sync/sync-orchestrator.service.ts`, `adapter-runner.service.ts`, the migration `..._add_single_active_sync_run_guard`, `scripts/run-adapter.ts`) | `sync_run`, `sync_run_source`, `sync_state` | `runAll`, `runStandalone`, `runForSource`, `createRunOrRejectIfOneInFlight`, `onModuleInit`, the CLI | `SyncRun`, `RunLedger`, `SyncRunProofs` |
| Shared pass (`AdapterRunnerService.runForSource`, `source-adapter.interface.ts`) | `sync_state.cursor`, normalised rows, `audit_log` | choose the mode, fetch, fall back to a full fetch, persist and audit, save the cursor | `RunnerPass`, `RunnerPassProofs` |
| Stripe source (`src/sources/stripe`) | none of its own | `fetchFull`, `fetchIncremental`, `persist` | `StripeSync`, `StripeSyncProofs` |
| HubSpot source (`src/sources/hubspot`) | none of its own | `fetchFull`, `fetchIncremental`, `persist` | `HubspotSync`, `HubspotSyncProofs` |
| Stripe webhook (`src/sync/webhooks`) | `webhook_event`, `transactions`, `audit_log` | `handle` | `StripeWebhook`, `StripeWebhookProofs` |
| Google Calendar source (`src/sources/google-calendar`) | none of its own | `fetchFull`, `fetchIncremental` (sync tokens that expire), `persist` (tombstones) | `CalendarSync`, `CalendarSyncProofs` |
| seed-finance source (`src/sources/seed-finance`) | none of its own; the fixture is part of the program | as the others, over the fixture | `SeedFinance`, `DashboardProofs` |
| Retry helper (`src/common/utils/retry.util.ts`) | none | `withRetry` | `Retry`, in `CalendarSync` and `HubspotSync` |
| Revenue metrics (`src/metrics`) | reads `transactions` and `status_mapping` | `summary`, `breakdown`, `resolve`, range validation | `Revenue`, `RevenueProofs` |
| Allow-list seed (`prisma/seed.ts`) | `status_mapping` | one upsert per entry | `Revenue`, `RevenueProofs`, `DashboardProofs` |
| Sync and record endpoints (`src/sync/sync.controller.ts`, `src/records`) | none | trigger; reads | the trigger in `SyncRun`, `GET /transactions` in `Dashboard!Latest` |
| Errors and responses (`src/common/errors`, `src/common/filters`) | none | code and wording of an error | only "an error is no 2xx", in `StripeWebhook` |
| Bootstrap, configuration, health, wiring | none | a process that comes up | `SyncRun!Boot` |
| Dashboard (`public/`) | the section on screen, its panels, the caches a click looks into | navigation, timer, trigger form, loads of one or two requests | `Dashboard`, `DashboardProofs` |

How they interact:

- `POST /sync/trigger` inserts a `sync_run` row with status `running`. A partial unique
  index admits one such row. The request then awaits one `runForSource` per source, all
  at once, under `Promise.allSettled`, and closes the run with a verdict.
- `runForSource` writes a `sync_run_source` placeholder, reads `sync_state`, calls the
  adapter (and calls it again for a full fetch when it throws `StaleCursorError`),
  upserts and audits each record, saves the cursor, then closes its row. Its catch
  block writes the row and the state as failed.
- The webhook endpoint upserts the *same* `transactions` rows as the Stripe pass, by
  `StripeAdapter.persist`, outside any run and without touching the cursor.
- A process that boots calls `onModuleInit`, which fails every `running` row. The CLI
  boots the whole `AppModule`, so it does that too.
- Nothing calls back into a pass: passes, runs and webhooks share only the database.
- The metrics join `transactions` with `status_mapping` at query time. Passes and
  webhooks write the one, the seed script and people the other, while both are read.
- The page sends its requests without waiting for those before. Every panel is
  rendered by whichever load gets its answers; a load of the revenue section joins the
  answers of two requests, which the database need not have served at one moment.

What is hard, and so what the properties are about:

- *Partial failure.* Every await can throw, the writes that record a failure included.
  An acknowledgement can be lost after the write was applied.
- *Crash and restart* between any two writes; the reconciliation at boot; a second
  process that is alive.
- *Cursors.* A cursor that moves past a change that is not in the table loses it for
  good: a page that is not read to the end, results that shift while they are paged,
  a clock of seconds, a cursor saved before its records.
- *Ordering.* Deliveries of one event race each other; deliveries of several events
  about one PaymentIntent arrive in any order and beside passes; no write compares
  versions. In the browser, answers arrive in another order than they were asked for.
- *Retries.* A call that is repeated reads what is upstream by then, and one page of many
  is repeated, not the listing.
- *Two readings of one rule.* What is collected is decided in SQL, in
  `StatusMappingService.resolve`, and again in the browser, over lists of different moments.

What makes each component correct: at most one run executes; a verdict agrees with the
rows it summarises and never changes; a run ends (`SyncRun`). What a cursor claims is
in the table, a row never goes back, every row catches up in the end (sources).
An event is applied once, is not called processed when it was not, and is processed
in the end (webhook). The two views of revenue add up to the same, over any range and any
allow-list, and nothing counts that nobody listed (metrics). What is on screen belongs
together, and the page comes to rest whatever becomes of its requests (dashboard). `PROJECT.json` lists each hazard at its line with the properties
that watch it.

## 2. Modules

| Module | What it is | Correspondence to the code |
| --- | --- | --- |
| `RunLedger` | abstract: the `sync_run` table as a reader sees it | `Start` is the INSERT the index admits, `Settle` the update that closes a run, `Expire` the reconciliation at boot |
| `SyncRun` | the run lifecycle, one action per awaited write | `Trigger` = `createRunOrRejectIfOneInFlight` with what precedes it; `OpenRow`, `Fetch`, `SaveState`, `CloseRow`, `CatchRow`, `CatchState` = the awaits of `runForSource`; `CloseRun` = the last update of `runAll` / `runStandalone`; `Boot` = `onModuleInit`; `CliGivesUp`, `CliExit` = `scripts/run-adapter.ts` |
| `SyncRunProofs` | theorems about `SyncRun` | |
| `Mirror` | abstract: what a source promises of its rows to a single writer | `Change` is upstream, `Write` an upsert that moves a row forward, `Claim` a cursor that is saved, and may claim only what is in the table |
| `RunnerPass` | what `runForSource` does with records and the cursor, for one source | `Begin`, `FallBack`, `PersistOne`, `AuditOne`, `SaveCursor`, `Fail`; it opens up `SyncRun!Fetch` and `SyncRun!SaveState` |
| `RunnerPassProofs` | lemmas about pages, queued envelopes and the actions of a pass, for the proofs of every source | |
| `Retry` | `withRetry` around the calls of a fetch, on `RunnerPass` | `TransientError` = a caught error that `isRetryable` accepts, repeated or given up; `Settles` = the call returns or throws |
| `StripeSync` | `RunnerPass` with the Stripe API and webhooks beside it | `FetchFullPage`, `FetchIncremental` = the adapter with the client; `WebhookWrites` = what `StripeWebhook` does to the row; `Change`, `Tick`, `Expire` = Stripe |
| `StripeSyncProofs` | theorems about `StripeSync` | |
| `HubspotSync` | `Retry` with the HubSpot CRM | `FetchFullPage`, `FetchIncrementalPage`; `Change` = HubSpot |
| `HubspotSyncProofs` | theorems about `HubspotSync` | |
| `CalendarSync` | `Retry` with the Calendar API | `Paginate` behind `FetchFullPage` and `FetchIncrementalPage`; `TokenGone` = the 410 and the fallback; `Change`, `Forget`, `ExpireTokens` = Google |
| `CalendarSyncProofs` | theorems about `CalendarSync` | |
| `SeedFinance` | `RunnerPass` with the fixture | `FetchFull`, `FetchIncremental` = the adapter; `Release` = a deployment that edits the fixture; `CorruptCursor` = a cursor that is no date |
| `Revenue` | the metrics over the rows of `SeedFinance` and rows of Stripe, with the allow-list and its seed | `Summary`, `Breakdown`, `Resolve`, `Accepted` as operators; `SeedOne`, `SeedAnew` = `prisma/seed.ts`, cut short or run again; `AddByHand` = an entry somebody adds |
| `RevenueProofs` | lemmas about sums over rows, periods and ranges, and about the allow-list | |
| `Dashboard` | the page over `Revenue` | `SetActiveSection`, `AutoRefresh`, `SubmitRevenue`, `TriggerSubmit`, `TriggerReturns` = the handlers of `script.js` between their awaits; `AnswerFirst`, `AnswerSecond` = the endpoints; `Render`, `LoadFails` = what follows the awaits; `PassStep`, `PassFails` = the passes it watches |
| `DashboardProofs` | theorems about `Dashboard`, and so about `Revenue` and `SeedFinance` under it | |
| `StripeWebhook` | concurrent requests of the webhook endpoint | `Lookup`, `Insert`, `SkipType`, `PersistFind`, `PersistUpsert`, `WriteAudit`, `MarkProcessed`, `MarkFailed` = the awaits of `handle` and of the `persist` it calls; `Emit`, `Deliver` = Stripe |
| `StripeWebhookProofs` | theorems about `StripeWebhook` | |
| `MC...` | instances for TLC | symmetry sets, the objects of the events, the ids of the contacts, the rows, the allow-list and the visits of the dashboard |

`SyncRun` composes with `RunLedger` through `Ledger == INSTANCE RunLedger WITH status <-
runStatus, scope <- targets`. All four sources extend `RunnerPass`, two of them through
`Retry`: a source contributes its fetches and its upstream service, the pass is the same.
`CalendarSync`, `HubspotSync` and `SeedFinance` implement `Mirror` (`Promise == INSTANCE
Mirror WITH ...`, property `MirrorSpec`): `latest` is the version upstream, `rows` the table, `claimed`
the records whose version is not after the cursor. `StripeSync` does not: beside webhooks
a row may go back for a while, and a pass may undo a change of a type the client does not ask for
(below), so it has weaker properties of its own. `Revenue` extends
`SeedFinance` and `Dashboard` extends `Revenue`, so the instance of the page runs all
three together.

Abstractions, and why they lose nothing the properties tell apart:

- A write answers `ok`, `failed` (not applied, throws) or `ackLost` (applied, throws).
  Those are all the caller can meet.
- A version of a record is the index of the event (Stripe) or the instant (HubSpot,
  Calendar) it comes from. A row holds a version; names, amounts and payloads are left out, since
  an upsert replaces all of them together.
- Each event of `StripeSync` is of a type the client asks for (`Listed`: created, processing, succeeded,
  payment_failed, canceled) or of another (requires_action, amount_capturable_updated, partially_funded). The webhook
  endpoint takes both, a full list shows the state after either, and a window holds the first kind only.
  The properties of the passes are about listed events, with the others happening in between: a pass may undo what
  only a full list or a webhook brought, and no further than to the latest listed event before it. A change that sends no
  event at all is, without webhooks, like one of another type; beside webhooks it is left out.
- In `SyncRun` the records of a pass are one step, `Fetch`; in `RunnerPass` the run is
  left out. The two meet in the claim that one pass per source is in progress, which is
  `SyncRun!OneExecuting`.
- A page of an upstream list is one step: the client awaits one response. In `CalendarSync`
  and `HubspotSync` a transient error is a step of its own, and anything may happen before the next
  attempt; in `StripeSync` the retries are inside the step. Delays are left out.
- Which errors are transient is left out: `TransientError` is one that is repeated, `Fail`
  one that is not.
- A load of the page is up to two requests, answered one by one, and one rendering. Panels that are
  not modelled (health, state cards, history, calendar, contacts, audit log, run detail) are loads of
  one request as the table of sources is.
- Times in `Revenue` are counted from a Monday, a day has `DayLength` instants, and a week seven days:
  what `date_trunc` does in UTC. Amounts are numbers.
- Signature verification, wording, logging, timestamps and counts are left
  out; no property is about them.
- `RunnerPass!FallBack` may happen at any page of an incremental fetch: the clients turn
  every rejection of the request into `StaleCursorError`, whatever the cause.
- Each module has a few operators marked "Mutant". They are not used; each is a plausible
  bug in the definition below it, and `PROJECT.json` says which property finds it.

## 3. Runs

All bounds are in the `.cfg` files. Deadlock checking is on in every run, and the two longest, `StripeSync_sound` and `Dashboard_revenue`, take about two minutes each.

| Run | Instance | Question | Result |
| --- | --- | --- | --- |
| `SyncRun_single` | one server, two sources, two runs, all three answers of the database | Do runs exclude each other, are verdicts final, is a successful row backed by a saved cursor, does `sync_run` behave as `RunLedger`, does a run end unless the write that ends it fails? | holds (about a million states) |
| `SyncRun_shared` | a server and a CLI, two sources, two runs, `ok` and `failed` | With two processes that reconcile each other's runs: is a verdict still the one its rows show, and does a running row still have somebody who ends it? | holds |
| `SyncRun_stuck` | one CLI, one source | "the SyncRun always reaches a terminal status" (`adapter-runner.service.ts:116-117`) | violated: the closing update is outside the try |
| `StripeWebhook_faults` | two concurrent requests, two events about one PaymentIntent and one of another type, two faults | Is an event applied at most once, is `processed` never claimed for work that was not done, do the tables agree, is every event processed when nothing fails? | holds |
| `StripeWebhook_dropped` | one request, one event, one fault | "if already processed, return 200 no-op" (`docs/DESIGN.md:246`) | violated: any row, `received` and `failed` ones too, makes the no-op |
| `StripeSync_sound` | two PaymentIntents, three events, two failures, windows that fit a page; without webhooks, or with webhooks in the order of the events | Without webhooks: does the cursor ever pass a listed event that is not in the table, does a row go back behind one it had, does the audit trail follow the table? Beside webhooks: can the two leave a row behind its listed events for good? | never, it follows; no, every row catches up (979,000 states) |
| `StripeSync_page` | two PaymentIntents, three events, one per page, no failures, no webhooks | "New/changed transactions picked up since last cursor" (`docs/ROADMAP.md:165`) | violated: `has_more` is ignored, the rest is skipped |
| `StripeSync_late` | two PaymentIntents, two events, no failures, webhooks in any order | the care of `stripe.adapter.ts:56-58` not to "write stale data last" | violated: a late webhook takes a row back for good |
| `CalendarSync_tokens` | two events, three changes or cancellations at any time, one per page, one failure, two transient errors, calls repeated once | Does a token ever stand for a change, a cancellation included, that is not in the table; does a row go back; does a pass get past a rejected token, or one that is missing; is a pass lost to fewer errors than a call is repeated? (`MirrorSpec`, `TableConverges`, `PassesOutlastHiccups`) | never, never, every row catches up, no (464,000 states) |
| `HubspotSync_quiet` | three contacts, four changes between fetches, one per page, one failure, two transient errors | Does the cursor ever pass a change that is not in the table, do rows only go forward, does every row catch up? | never; they do; it does (208,000 states) |
| `HubspotSync_paging` | two contacts, one per page, changes within a fetch | "Always populated (even on a full fetch) so the very next sync can go incremental" (`source-adapter.interface.ts:12-13`, of the cursor) | violated: a contact changes after a full listing has read its page, a later page holds a later change, and the cursor passes both |
| `Dashboard_revenue` | two seed-finance records and a row of Stripe, a release that edits a record, a script of three entries and one added by hand, two loads at once, one failure; see below | Do summary and breakdown agree at every moment and over any range, on screen too unless something was written between the two answers? Does anything unlisted count? Does a damaged cursor heal, and do rows only go forward? Do rows, caches and badges belong together; do spinner, button and table of sources come to rest, with answers refused, lost and overtaken? | they agree; no; it heals; they do |

Why the bounds are enough. Two runs are enough for one to end and another to start, and
for two to meet; two sources give every verdict (`partial_failure` needs one of each) and
every interleaving of two passes. Three answers of the database at each write cover
every failure of every step, with no bound on how many fail in `SyncRun`; `MaxFaults` and
`MaxFailures` bound them elsewhere, at two where a failure can hit the repair of a
failure (webhooks, Stripe) and at one where the repair is a pass like any other. Two requests, two events and one PaymentIntent are what a race on an event and a
race on a row take. A page of one with two or three records makes every list take several
pages. Three events on two PaymentIntents leave room for a full fetch, two changes of a record
in one window, and a webhook before, within and after a pass. `MaxSecond` is one more than
`MaxEvents`, so the clock can run past the last change. Three changes of two events are one for
a cursor, one within a listing and one between it and the next. With calls that are repeated
once, two transient errors are what it takes to lose a pass, and to lose none when they hit
different calls.

`Dashboard_revenue` splits what may happen together into `Visits`, each with a section and the
events it meets: the writers by themselves (releases, a damaged cursor, the seed script, an entry by
hand, a pass that fails); the revenue section while entries are added; the transactions while
entries are added and requests fail; the sync section while passes and requests fail. Passes write in
all of them. Loads that overlap need two slots; the lowest free one is taken, as slots have no
identity. Of the two ranges one begins within a week and crosses into the next, so that a bucket
begins before the range, and one is refused. The four `Times` lie on both sides of a day's and of a week's
end, on a row and after it; `ViewsAgree` and `RangesCompose` are checked over all ranges they make, in every state.
A release takes a record that counted back to a status that does not.

`StripeSync_sound` says under which conditions the cursor is right about listed events, and each
condition is needed: no two changes share a second with each other or with a fetch
(`SharedSeconds = FALSE`; the cursor has the resolution of a second and the filter is
strict), the Events API forgets only what the cursor has passed (`EventsExpire = "passed"`:
passes come more often than the 30 days of retention), a window fits a page (`EventLimit` at
least `MaxEvents`), and webhooks, if any, come in order. The last two have a violation run;
with `SharedSeconds = TRUE` or `EventsExpire = "any"` TLC finds `CursorCoversTable` violated as well
(the module has the constants, no run sets them so). About changes of other types it is wrong under any
conditions: the properties without `Listed` are violated in this very instance (section 6). `HubspotSync` needs that
no contact changes while a fetch is paging (`ChangesDuringFetch = FALSE`). `CalendarSync` needs none of these, its token
standing for the state a listing begins in, but it needs cancelled events to be listed until the cursor has
passed them (`TombstonesExpire = "passed"`): when a token expires together with tombstones, the full fetch
does not show that the event is gone and its row stays live. `SeedFinance` needs that a release dates what it edits after
everything that is listed: an edit dated earlier is behind the cursor and is never fetched.

## 4. Fairness

- Weak fairness of every pass step, of the close of a run, and of a request's steps: the
  event loop resumes a promise whose awaited call has settled, and each awaited call does.
- Weak fairness of a server's boot: its host starts a process that is down (`render.yaml`
  has a health check). A boot whose update fails changes nothing and is a stutter, so the
  fairness says that one of the attempts gets through in the end. None for the CLI: a
  person starts it.
- No fairness on a trigger, a crash, an upstream change or a failure.
- `StripeWebhook`: Stripe delivers an event again until it gets a 2xx. That is strong fairness
  of `Deliver`, because the request slots are a bound of the model and must not starve an
  event. A run of faults is bounded, and the property is excused by a single one.
- `StripeSync`, `HubspotSync`, `CalendarSync`, `SeedFinance`: passes are triggered again and again. There is no scheduler
  (`README.md:107`, "Sync is request-driven", by hand or by an external scheduler), so this is what the project asks of its users;
  `TableConverges` says that is enough. Failures and transient errors are bounded by `MaxFailures` and
  `MaxTransient`: it holds once they stop.
- `Dashboard`: a request is answered or refused, and its handler goes on (weak fairness of each
  load); the timer fires while the section stays on screen; passes are triggered from anywhere.
  Strong fairness of `TriggerStep`, because the reload after a trigger waits for a slot in the model
  and for nothing in the browser. None of a visitor's clicks, of releases, of the
  seed script, of failures.

## 5. Proofs

Eight modules hold proofs, each checked to the last leaf; two of them, `RunnerPassProofs` and
`RevenueProofs`, hold lemmas the others rest on. TLC checked every strengthening below as an
invariant before it was proved. Every safety and action property a passing run checks is also a
theorem, for every value of the constants that its hypotheses admit, and so are the three refinements of
`Mirror` and the one of `RunLedger`.

The theorems assume the named ASSUMEs of their modules, which TLC evaluates in every run: the bounds
are numbers, a page holds at least one record, `NoCursor` is no number, keys are numbers where a
listing orders by them, contacts, calendar events and seed-finance records are finitely many, the rows and the entries of the seed
script have the fields of their tables, a day has an instant. What goes beyond that is a hypothesis of
the theorem and in the column "Assumes".

### The run lifecycle (`SyncRunProofs`)

For any processes, sources, runs and answers of the database:

| Theorem | Property | Assumes | Invariant it rests on |
| --- | --- | --- | --- |
| `TypeCorrect` | `TypeOK` | | itself |
| `RunningOwned` | `RunningHasExecutor` | | `OwnedInv` |
| `VerdictsAreSound` | `VerdictSound` | | `VerdictInv` |
| `VerdictsAreExact` | `VerdictExact` | no acknowledgement is lost | `ExactInv`, with `QuietInv` and `VerdictInv` |
| `Exclusion` | `OneExecuting` | `SingleProcess` | `ExclusionInv` |
| `VerdictsAreFinal` | `TerminalIsFinal` | `SingleProcess` | `ExclusionInv` |
| `SuccessIsSaved` | `SuccessRowHasSavedState` | `SingleProcess` | `SavedInv`, with `ExclusionInv` |
| `ImplementsLedger` | `LedgerSpec` | `SingleProcess` | `ExclusionInv` |

`SingleProcess` is the "Single-instance assumption" of the comment on
`AdapterRunnerService`, and `Exclusion` needs it: with a CLI beside the server, a boot frees the
index under a live run (TLC finds it at once in the instance of `SyncRun_shared`).

The argument, and why the properties are not inductive by themselves:

- `OwnedInv`. A crash turns an executing run into a lost one; `RunningHasExecutor` survives
  since its owner goes down with it. When the owner boots, the reconciliation leaves no
  row running. To speak of the owner at all, a running row must have one.
- `VerdictInv`. A verdict is written from the outcomes of the promises, so a pass that
  succeeded must have closed its row; and the rows must not change afterwards, so a run
  with a favourable verdict must not execute. The reconciliation only writes `failed`,
  which claims nothing, so no assumption on processes is needed.
- `QuietInv`. Nothing in `SyncRun` stops the passes of a closed run: that none is left is a
  consequence of `allSettled`. A busy pass belongs to a run that executes or died.
- `ExactInv`. The converse of the first part of `VerdictInv`: a successful row belongs to a
  pass that succeeded. A lost acknowledgement of `CloseRow` followed by a failing
  `CatchRow` breaks it: the row reads success and the pass is rejected.
- `ExclusionInv`. The index excludes running *rows*; what must exclude each other are
  *executions*. The link is that what executes is running and its process is alive, so that
  a boot, which finds the only process down, finds nothing executing.
- `SavedInv`. Between `SaveState` and `CloseRow` the state is saved and the row is not
  closed yet; when the close loses its acknowledgement, the catch block must
  clear the row before it overwrites the state. With two runs of one source in progress one of
  them could overwrite the state of the other.
- `ImplementsLedger`. Each step is a `Start`, `Settle` or `Expire` of the ledger or leaves it
  alone; `CloseRun` is a `Settle` because the run is still running (`ExclusionInv`), which is
  exactly what fails when another process has reconciled it.

### The webhook endpoint (`StripeWebhookProofs`)

For any number of events, PaymentIntents, concurrent requests and faults; no assumption but
those on the constants.

| Theorem | Property | Invariant it rests on |
| --- | --- | --- |
| `TypeCorrect` | `TypeOK` | `CarriesInv`: a request that is not idle carries an event |
| `AppliedOnce` | `DomainLogicOnce` | `WorkInv` |
| `ProcessedIsApplied` | `ProcessedMeansApplied` | `AppliedInv`, with `WorkInv` |
| `RowsAccounted` | `RowsAreAccountedFor` | itself, with `WorkInv` |

The properties speak of the tables and not of the requests, so they are not inductive.
`WorkInv` is what connects them. The only way to work on an event is to have inserted its row,
and the unique constraint lets one request do that: two requests are never at work on
one event (`ExclusiveInv`), an event without a row has not been touched (`UntouchedInv`), and how far
the one request is tells whether the upsert and the audit entry are done (`ProgressInv`). A crash or a fault
only ever takes the one request away, and a later delivery finds the row and does nothing.

### The calendar source (`CalendarSyncProofs`)

For any calendar, page size, number of changes, failures, retries and expired tokens.

| Theorem | Property | Assumes | Invariant it rests on |
| --- | --- | --- | --- |
| `TypeCorrect` | `TypeOK` | | `TypeInv`: no more passes were given up than failed |
| `ImplementsMirror` | `MirrorSpec` | `OnePass`, `TombstonesLast` | `PassInv` |
| `PassesOutlast` | `PassesOutlastHiccups` | `OnePass` | `RetriesInv` |

`OnePass` is what `SyncRun!OneExecuting` gives, proved for a single process. `TombstonesLast` is the condition
of section 3 on what the API forgets.

- `PassInv`. `MirrorSpec` says that a saved token claims only what is in the table (`CursorInv`) and
  that rows go forward (`RowsInv`, `BatchInv`: an envelope is not behind the row it will
  replace). Both depend on the pages in flight. A version is *seen* when it is in its row or
  in an envelope that is still to persist; `PlaceInv` says that a pass has seen every event up to its place in
  the listing that has not changed since the listing began, and `TokenInv` that at the last page the
  place is the end. An event that changes meanwhile is later than the token, so nothing is claimed of it.
  `ForgottenInv` covers the events that no listing shows.
- The step that needs work is the page: that the next `PageLimit` events in the order of the
  listing leave no gap behind the new place (`PageIsPrefix`), over finite sets (`Least`,
  `Greatest`). The envelopes still to persist are those of the pages left (`Queued`, with its lemmas in
  `RunnerPassProofs`).
- `RetriesInv`. The errors of the attempts in progress are errors that no pass was lost to yet.
  Without `OnePass` one transient error would still belong to one pass, but the invariant would have to sum
  over the passes.

### The HubSpot source (`HubspotSyncProofs`)

For any contacts, page size, number of changes, failures, retries and rejected cursors.

| Theorem | Property | Assumes | Invariant it rests on |
| --- | --- | --- | --- |
| `TypeCorrect` | `TypeOK` | | `TypeInv` |
| `CursorCovers` | `CursorCoversTable` | `OnePass`, `Quiet` | `PassInv` |
| `ImplementsMirror` | `MirrorSpec` | `OnePass`, `Quiet` | `PassInv` |

`Quiet` says that no contact changes while a fetch is paging; `HubspotSync_paging` shows that the
property is false without it. The two listings need two arguments, both in `PlaceInv`: a full fetch pages
by id, and has seen every contact up to the last id; a search pages by offset in the order of the change
dates, and has seen every contact whose *position* among the results is below the offset. That a page of an offset
listing holds just the positions from one offset to the next is counted with cardinalities
(`Position` and the lemmas on it). A contact that changes after the last page is later than the cursor of the pass, as
every change has an instant of its own, so `TokenInv` holds on to what the pass claims while it persists.

### The Stripe source (`StripeSyncProofs`)

For any PaymentIntents, limits, number of events and failures, with or without webhooks.

| Theorem | Property | Assumes | Invariant it rests on |
| --- | --- | --- | --- |
| `TypeCorrect` | `TypeOK` | | `TypeInv` |
| `AuditFollows` | `PassesAudit` | `OnePass` | `WriteInv` |
| `KeepsVersions` | `PassesKeepVersions` | `OnePass` | `WriteInv` |
| `CursorCovers` | `CursorCoversTable` | `OnePass`, `Sound` | `CoverInv`, with `WriteInv` |
| `CursorOrDeliveryHolds` | `CursorOrDelivery` | `OnePass`, `Sound`, webhooks in order or none | `CoverInv`, with `WriteInv` |

All four properties are about listed events, those of the types the client asks for; changes of other types happen in
between, and none of the theorems claims that they are kept or fetched (section 6).

- `WriteInv` is about what passes write, and holds for shared seconds, windows that are cut off and
  forgotten events: these lose changes, but take no row back behind a listed event. An envelope may be behind the row it will
  replace, when a full list has brought a state no window shows; but no listed event lies between the two (`Keeps`),
  nor between an audit entry and its row (`EntriesInv`). In a window this is since `WriteInv` keeps one envelope per PaymentIntent,
  and no listed event of it is later (`WindowIsLatest`); in a full list since the
  PaymentIntents still to come were created before the place in the list, and so have no envelope yet.
- `Sound` gathers the three conditions of section 3 on Stripe: no shared seconds, the Events API forgets
  only what the cursor has passed, a window fits a page. Each is needed: TLC finds a violation without it.
- `CoverInv`. A listed event is *covered* when the row is as recent, or a webhook is *owed* that will bring it; without
  webhooks the second cannot be. `ClockInv` says that the second of a cursor is over, so that what is still to happen is
  later than any claim; it is here that the strict filter and the cursor of a full fetch, the creation of the newest PaymentIntent on its first page, are
  used. `SnapshotInv` says of an envelope that is older than its PaymentIntent that the listed events since are claimed neither by the
  cursor nor by the pass: this is what makes it harmless that a pass writes an older state over a newer one that
  a webhook brought. `ClaimInv` covers the forgotten events too, as a window no longer shows them. `PlaceInv` and
  `TokenInv` do what they do for the calendar. `OrderedInv` closes the last gap: a webhook
  that writes an older state over a newer one has a later one owed behind it.

### The seed-finance passes, the metrics and the page (`RevenueProofs`, `DashboardProofs`)

About the specification of the page, `Dashboard!Spec`, in which passes, releases, the seed script, visitors and
their loads all interleave. For any records, releases, rows, allow-list, ranges, length of a day, visits, slots and
number of passes at once: `OnePass` is not needed.

| Theorem | Property | Invariant it rests on |
| --- | --- | --- |
| `TypeCorrect` | `TypeOK` | `PageInv`, `ListInv` |
| `ImplementsMirror` | `MirrorSpec` | `SourceInv` |
| `ViewsAlwaysAgree` | `ViewsAgree` | `SourceInv`, for the bounds of the table |
| `RangesAlwaysCompose` | `RangesCompose` | `SourceInv`, as above |
| `UnlistedNeverCountsHolds` | `UnlistedNeverCounts` | `ListInv` |
| `FiguresAlwaysAgree` | `FiguresAgree` | `PageInv` |
| `BadgesAlwaysAgree` | `BadgesAgreeWithMetrics` | `PageInv` |
| `RowAlwaysOpens` | `RowOpensItsRecord` | `PageInv` |
| `SpinnerAlwaysMeansLoading` | `SpinnerMeansLoading` | `PageInv` |

- `SourceInv`. A release waits until no pass is in progress (the process starts anew), so every envelope holds its record
  as it is, and passes that overlap write the same: this is why `OnePass` is not needed here and is for the
  sources whose upstream moves. A cursor, and each pass that has read it, claims only what is in the table; a damaged cursor claims
  nothing and is stale. The cursor is never later than every record (a release is later than it).
- The metrics. `ViewsAgree` and `RangesCompose` are about sums over finite sets, which the model takes with the fold of the
  community modules, in an order that `CHOOSE` settles. `RevenueProofs` shows that the order does not
  matter (`SumsRemove`) and that sums of disjoint sets add up (`SumsAdd`), each by looking at a smallest set for
  which it would not (`SmallestSubset`, from the library's theorem that strict inclusion of finite sets is well founded). That takes the place of an
  induction, which the prover cannot instantiate. Then a period's total is the sum over the rows that are
  truncated to it (`BucketsAddUp`), and the periods do not overlap because truncation to a multiple of
  `Length` is monotone (`TruncFacts`).
- `ListInv`. An entry of the allow-list that reads collected is listed so by the seed or was added by hand. It holds after every
  upsert of the script, so the script may be cut short anywhere.
- `PageInv`. What is on screen depends on loads that began, and were answered, earlier. `LoadInv` gives the loads their
  shape. `FigureInv` follows a load of two answers: when one is there and nothing has been written since, it is what the endpoint
  would answer *now* (so the second answer will agree with it, by `SummaryIsBreakdown`); when something was written, the load is
  marked; when both are there they agree for good. `PanelInv` says that rows, cache and list come from one load, since a rendering is one turn
  of the event loop, and that a spinner has a load. Every step is one of three to the page (`PageSteps`): it writes and
  marks loads, it asks, or it is a step of one load.

### Only model-checked

All liveness: `EveryRunTerminates`, `EveryEventIsProcessed`, `TableConverges` of the four sources,
`TableOfSourcesCatchesUp`, `ButtonReturns`. It rests on fairness and `ENABLED`, which are out of the reach of
the prover. What holds of two passes of one source at once, other than seed-finance, is not stated (section 7), and that
`OnePass` is what `SyncRun!Exclusion` gives is an argument between two modules, not a theorem.

## 6. Divergences seen

The five violation runs each quote the line they contradict (`PROJECT.json`, "findings").
Others were met while modelling and have no run of their own:

- `runForSource` can reject, by the writes before its try and in its catch, although
  `sync-orchestrator.service.ts:47-48` says it never does. `allSettled` takes care of it
  (`VerdictExact` holds), so it is a wrong comment only.
- A process that boots beside a live one (the CLI boots the whole `AppModule`) fails the live run and
  frees the index under it, against "at most one sync run in progress" (`README.md:112`). The
  comment on `AdapterRunnerService` assumes a single instance.
- A network error has no numeric status, so the Calendar and the HubSpot client do not repeat it,
  against `docs/DESIGN.md:261` ("timeouts") and `retry.util.ts:9-10`. Stripe's does. No upstream call has a timeout
  of the program's own.
- Two writers of a new record both report `created`: `findUnique` and `upsert` are two calls.
- The client asks the Events API for five types (`stripe.client.ts:12-18`), against "`payment_intent.*` types" of
  `docs/DESIGN.md:200`. A PaymentIntent is created in second 1, its payment fails in second 3 and is tried again in
  second 4 (requires_action). A full fetch stores the state of second 4 with cursor 1; the next pass lists the failure
  only and writes its older snapshot over the row. The change of second 4 is in no window, so the row stays behind
  until a listed event, a webhook or a full fetch. The events of other types are part of
  `StripeSync`; with them TLC finds `PassesKeepVersions` and `CursorCoversTable` violated, once they speak of all events
  and not of `Listed` only.
- A search of HubSpot is paged by position in the order of the change dates: a contact that changes while it is
  paging leaves its place, those behind it move up, and the one that crosses the page boundary is skipped. This is a second way, beside
  the one of `HubspotSync_paging`, in which the cursor passes a change when contacts change within a fetch.
- `README.md:96-102` describes a deployment on Vercel, where several instances may be alive and come up at any time, and
  `render.yaml` one web service. The "Single-instance assumption" of `adapter-runner.service.ts:51`, which
  `OneExecuting`, `TerminalIsFinal` and `LedgerSpec` rest on, fits the second only. `SyncRun_shared` is about what
  is left with two processes.
- A change in the second of the cursor that happens after the fetch is never fetched.
- A cursor older than the retention of the Events API is not rejected: the events that are
  gone are silently missing, against `docs/DESIGN.md:202`.
- A failure between an upsert and its audit entry leaves a row without entry until it is
  written again (`docs/ROADMAP.md:211`); `PassesAudit` says this takes a failure. The
  transaction per batch of `docs/DESIGN.md:240` is not in the code.
- The fallback to a full fetch does not clear the cursor (`docs/DESIGN.md:237`): when the
  full fetch fails too, the next pass starts from the rejected one, and gets past it in the
  same way (`TableConverges` of `CalendarSync`).
- One record that cannot be mapped fails every pass of its source until it changes upstream.
- An empty HubSpot account yields a null cursor, against `source-adapter.interface.ts:12-15`;
  the next pass is full again, which is harmless.
- A full Stripe fetch sets `sourceUpdatedAt` to the creation of the PaymentIntent, an incremental
  one to the time of the event.
- A release that edits a seed-finance record without a later `updatedAt` is never fetched, and
  an empty fixture makes `nextCursorFrom` throw (`seed-finance.adapter.ts:69`).
- A date that `Date` cannot parse passes `parseRange`, both comparisons being false of `NaN`; the
  DTO is what refuses it. `listRuns` does not check its `limit` (`sync.controller.ts:31`).
- In the page, an older answer may overwrite a newer one: figures of the range applied before the last, details
  of the run clicked before the last. The table of sources recovers with the timer
  (`TableOfSourcesCatchesUp`), these do not. The default range ends at today's midnight and so leaves today out.

## 7. What is not modelled, and the plan

Not modelled:

- Dependency injection, configuration, health, logging, formatting, the page's markup and charts,
  signature verification (a library does it). They keep no state that another part depends on.
- The reads of runs, state, contacts, events and the audit log: queries of one table. Their panels in the page
  are loads of one request.
- Two passes of one source at once. It takes a process that boots beside a live one; `RunnerPass`
  has `Jobs` for it, and `Mirror` then does not hold: the later upsert may carry the older snapshot.
- The window of a full fetch of the calendar: what the API lists for a token of a windowed
  listing is not in the repository.
- Indexes and cascades of the schema; its unique constraints are modelled.

Done: 1. `RunLedger`, `SyncRun` and its proofs; 2. `StripeWebhook` and its proofs; 3. `RunnerPass`, `StripeSync`,
`HubspotSync`, `CalendarSync`; 4. `Retry`, `SeedFinance`, `Revenue`, `Dashboard`; 5. `Mirror`, which
`CalendarSync`, `HubspotSync` and `SeedFinance` are proved to implement; 6. the cursor and the writes of `StripeSync`; 7. the
metrics, the allow-list and the page.

Next, in this order:

1. Two passes in one source, with what is still true of them: types, the audit trail, rows that hold
   versions their records have had.
2. A refinement of what `StripeSync` promises beside webhooks, weaker than `Mirror`, from `CoverInv`.
3. `Retry` under `StripeSync`.

## 8. Running it

    tlc -workers 2 -config SyncRun_shared.cfg MCSyncRun.tla
    tlc -workers 2 -config Dashboard_revenue.cfg MCDashboard.tla
    tlapm SyncRunProofs.tla
    tlapm StripeWebhookProofs.tla
    tlapm CalendarSyncProofs.tla
    tlapm HubspotSyncProofs.tla
    tlapm StripeSyncProofs.tla
    tlapm RevenueProofs.tla
    tlapm DashboardProofs.tla

`PROJECT.json` lists the module of each configuration, the lines every definition
models, and for each property a mutation of the model that violates it.
