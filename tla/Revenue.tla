------------------------------ MODULE Revenue ------------------------------
(***************************************************************************)
(* The metrics of src/metrics over the transactions rows, with the         *)
(* allow-list status_mapping they are joined to and the script that seeds  *)
(* it (prisma/seed.ts).                                                    *)
(*                                                                         *)
(* The rows are those the seed-finance passes write (SeedFinance) beside   *)
(* rows of Stripe that rest.  Time is counted from a Monday's midnight,    *)
(* UTC.                                                                    *)
(***************************************************************************)
EXTENDS SeedFinance, FiniteSetsExt, SequencesExt

CONSTANTS Facts,           \* Facts[k][v]: what version v of seed-finance record k says
          StripeRows,      \* the rows of Stripe
          StatusMappings,  \* the entries prisma/seed.ts lists, in its order
          ByHand,          \* the <<source, status>> pairs somebody may come to add
          Times,           \* the instants a range may begin or end at
          DayLength,       \* how many instants a day has
          MaxRange         \* the longest range (some three years in metrics.controller.ts)

Rows == [source : {"stripe", "seed_finance"}, externalId : Keys \cup Nat,
         amount : Nat, rawStatus : STRING, occurredAt : Nat]

CanonicalStatus == {"collected", "not_collected", "unknown"}

Pairs == {<<m.source, m.rawStatus>> : m \in ToSet(StatusMappings)} \cup ByHand

ASSUME RowAssumption ==
    /\ \A k \in Keys, v \in 1..MaxInstant : Facts[k][v] \in Rows
    /\ StripeRows \subseteq Rows /\ IsFiniteSet(StripeRows) /\ IsFiniteSet(Keys)
ASSUME MappingAssumption ==
    StatusMappings \in Seq([source : STRING, rawStatus : STRING, canonicalStatus : CanonicalStatus])
ASSUME TimeAssumption == Times \subseteq Nat /\ DayLength \in Nat \ {0} /\ MaxRange \in Nat

VARIABLES mapping,  \* status_mapping: the canonical status of the pairs it lists
          seeding   \* how many entries the running seed script has upserted; all when none runs

revenueVars == <<mapping, seeding>>
backendVars == <<passVars, fixture, revenueVars>>

RevenueTypeOK ==
    /\ SeedFinanceTypeOK
    /\ DOMAIN mapping \subseteq Pairs
    /\ \A p \in DOMAIN mapping : mapping[p] \in CanonicalStatus
    /\ seeding \in 0..Len(StatusMappings)

\* What the script leaves behind.
Listing == [p \in Pairs \ ByHand |->
              (CHOOSE m \in ToSet(StatusMappings) : <<m.source, m.rawStatus>> = p).canonicalStatus]

\* A migrated database before its first pass; the script has not run, or is done.
RevenueInit ==
    /\ SeedFinanceInit
    /\ \/ seeding = 0 /\ mapping = <<>>
       \/ seeding = Len(StatusMappings) /\ mapping = Listing

----------------------------------------------------------------------------
\* prisma/seed.ts

Upserted(pair, canonical) ==
    [p \in DOMAIN mapping \cup {pair} |-> IF p = pair THEN canonical ELSE mapping[p]]

\* One upsert of the loop of main.
SeedOne ==
    /\ seeding < Len(StatusMappings)
    /\ LET m == StatusMappings[seeding + 1]
       IN  mapping' = Upserted(<<m.source, m.rawStatus>>, m.canonicalStatus)
    /\ seeding' = seeding + 1
    /\ UNCHANGED <<passVars, fixture>>

\* The script is cut short, or run once more.
SeedAnew ==
    /\ failures < MaxFailures
    /\ seeding' = 0
    /\ failures' = failures + 1
    /\ UNCHANGED <<table, audit, cursor, phase, seen, batch, current, next, fixture, mapping>>

\* Somebody lists one more status as collected: "a data change, not a code
\* change" (docs/DESIGN.md:180).
AddByHand(pair) ==
    /\ pair \in ByHand \ DOMAIN mapping
    /\ mapping' = Upserted(pair, "collected")
    /\ UNCHANGED <<passVars, fixture, seeding>>

----------------------------------------------------------------------------
\* RevenueCalculatorService

\* The transactions table.
Transactions == {Facts[k][table[k]] : k \in {x \in Keys : table[x] # 0}} \cup StripeRows

Amount(row) == row.amount

Total(rows) == MapThenSumSet(Amount, rows)

\* Mutant: an outer join that keeps what is not excluded.
NotExcluded(rows, list) ==
    {t \in rows : <<t.source, t.rawStatus>> \in DOMAIN list =>
                     list[<<t.source, t.rawStatus>>] = "collected"}

\* COLLECTED_JOIN, the one place that decides what counts.
Collected(rows, list) ==
    {t \in rows : /\ <<t.source, t.rawStatus>> \in DOMAIN list
                  /\ list[<<t.source, t.rawStatus>>] = "collected"}

\* StatusMappingService.resolve, for a row at a time.
Resolve(t, list) ==
    IF <<t.source, t.rawStatus>> \in DOMAIN list THEN list[<<t.source, t.rawStatus>>]
    ELSE "not_collected"

\* Mutant: the end of a range belongs to it.
UpToEnd(rows, from, to) == {t \in rows : t.occurredAt >= from /\ t.occurredAt <= to}

Within(rows, from, to) == {t \in rows : t.occurredAt >= from /\ t.occurredAt < to}

Summary(rows, list, from, to) == Total(Within(Collected(rows, list), from, to))

Length(granularity) == IF granularity = "week" THEN 7 * DayLength ELSE DayLength

\* date_trunc
Trunc(granularity, at) == at - (at % Length(granularity))

Buckets(rows, granularity) ==
    {[periodStart |-> s, periodEnd |-> s + Length(granularity),
      totalCollected |-> Total({t \in rows : Trunc(granularity, t.occurredAt) = s})] :
        s \in {Trunc(granularity, t.occurredAt) : t \in rows}}

\* Mutant: a bucket that begins before the range is left out.
BreakdownOfWholePeriods(rows, list, from, to, granularity) ==
    {b \in Buckets(Within(Collected(rows, list), from, to), granularity) : b.periodStart >= from}

\* The first bucket may begin before from, and its total is of the range only.
Breakdown(rows, list, from, to, granularity) ==
    Buckets(Within(Collected(rows, list), from, to), granularity)

\* MetricsController.parseRange, for dates.
Accepted(from, to) == to > from /\ to - from <= MaxRange

----------------------------------------------------------------------------
BucketTotal(buckets) == MapThenSumSet(LAMBDA b : b.totalCollected, buckets)

\* The two queries agree on whatever the table and the allow-list hold: "both views
\* always agree" (revenue-calculator.service.ts:22), and a total is of its periods.
ViewsAgree ==
    \A from, to \in Times, granularity \in {"day", "week"} : Accepted(from, to) =>
        LET buckets == Breakdown(Transactions, mapping, from, to, granularity)
        IN  /\ BucketTotal(buckets) = Summary(Transactions, mapping, from, to)
            /\ \A b, c \in buckets :
                 b # c => b.periodEnd <= c.periodStart \/ c.periodEnd <= b.periodStart

\* Ranges that meet neither share a row nor lose one (getSummary, a half-open range).
RangesCompose ==
    \A from, mid, to \in Times : from < mid /\ mid < to =>
        Summary(Transactions, mapping, from, to) =
            Summary(Transactions, mapping, from, mid) + Summary(Transactions, mapping, mid, to)

\* A row counts only with a status that the seed lists as collected or somebody added,
\* however far the script has come: "an allow-list, never an exclusion list"
\* (status-mapping.service.ts:19).
UnlistedNeverCounts ==
    \A t \in Collected(Transactions, mapping) :
        \/ <<t.source, t.rawStatus>> \in ByHand \cap DOMAIN mapping
        \/ \E m \in ToSet(StatusMappings) : /\ m.source = t.source /\ m.rawStatus = t.rawStatus
                                            /\ m.canonicalStatus = "collected"
=============================================================================
