---------------------------- MODULE MCDashboard ----------------------------
(***************************************************************************)
(* Two records of seed-finance, of which a release may edit one, and a     *)
(* row of Stripe in the week before.  A day has two instants.              *)
(***************************************************************************)
EXTENDS Dashboard

Row(source, id, amount, status, at) ==
    [source |-> source, externalId |-> id, amount |-> amount,
     rawStatus |-> status, occurredAt |-> at]

\* A release takes record 1 back to waiting; record 2 has a status nobody has listed.
MCFacts == <<
    [v \in 1..3 |-> Row("seed_finance", 1, 1, IF v = 1 THEN "completed" ELSE "waiting", 16)],
    [v \in 1..3 |-> Row("seed_finance", 2, 2, "settled", 17)] >>

MCStripeRows == {Row("stripe", 3, 4, "succeeded", 13)}

Mapping(source, status, canonical) ==
    [source |-> source, rawStatus |-> status, canonicalStatus |-> canonical]

MCStatusMappings == <<
    Mapping("stripe", "succeeded", "collected"),
    Mapping("seed_finance", "completed", "collected"),
    Mapping("seed_finance", "waiting", "not_collected") >>

MCByHand == {<<"seed_finance", "settled">>}

MCFirstFixture == <<1, 2>>

\* A range over the end of a week, begun within it, and one that is refused.
MCRanges == {<<12, 17, "week">>, <<18, 13, "day">>}

Visit(sections, meets) == [sections |-> sections, meets |-> meets]

\* The writers by themselves, then a visit to each section.
MCVisits == {
    Visit({}, {"release", "damage", "seed", "byHand", "passFails"}),
    Visit({"revenue"}, {"byHand"}),
    Visit({"stripe"}, {"byHand", "requestFails"}),
    Visit({"sync"}, {"passFails", "requestFails"})}
=============================================================================
