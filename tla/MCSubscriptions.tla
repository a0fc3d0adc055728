-------------------------- MODULE MCSubscriptions --------------------------
(***************************************************************************)
(* Small instances of Subscriptions for TLC.  Nothing tells users of one   *)
(* role, workers, checkouts or event ids apart, so all are interchangeable.*)
(***************************************************************************)
EXTENDS Subscriptions, TLC

Symmetry ==
    Permutations(Worker) \cup Permutations(Checkout) \cup Permutations(EventId)
       \cup Permutations(Subscriber) \cup Permutations(Creator)
=============================================================================
