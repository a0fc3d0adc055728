----------------------------- MODULE MCMatching -----------------------------
(***************************************************************************)
(* Small instances of Subscriptions for TLC, of rows that several purchases*)
(* compete for and of events that several rows compete for.  One event,    *)
(* and the clock stands.                                                   *)
(***************************************************************************)
EXTENDS Subscriptions, TLC

CONSTANTS s1, c1, k3

\* Checkouts but the last, and workers, are told apart by nothing.
Symmetry == Permutations(Worker) \cup Permutations(Checkout \ {k3})

Opened == {c \in Checkout : checkout[c] # Unopened}

Through(gs) ==
    /\ \A w \in Worker : job[w].op = "subscribe" => job[w].gateway \in gs
    /\ \A p \in Pair : row[p] # NoRow => row[p].gateway \in gs

\* The pairs something was done for.
Touched ==
    {p \in Pair : row[p] # NoRow \/ p \in blocked
                     \/ \E w \in Worker : job[w].op \in {"subscribe", "block"} /\ job[w].pair = p}

OneWorker == \A v, w \in Worker : v # w => Idle \in {job[v], job[w]}

\* One pair's purchases through two gateways, three of them, the last one after
\* the others.
Rivals ==
    /\ k3 \in Opened => Opened = Checkout
    /\ Touched \subseteq {<<s1, c1>>}
    /\ Through({"stripe", "mock"})

\* Any two pairs, and whose payment an event from Wompi is: one handler after
\* the other, and nobody cancels.  Nothing tells users apart, so <<s1, c1>> is
\* one of the two.
Payers ==
    /\ k3 \notin Opened /\ OneWorker
    /\ \A p \in Pair : ~row[p].flag
    /\ \A e \in EventId : sent[e] # None => sent[e].gateway = "wompi"
    /\ Touched # {} => <<s1, c1>> \in Touched /\ Cardinality(Touched) <= 2
    /\ Through({"wompi", "mock"})

Within == Rivals \/ Payers
=============================================================================
