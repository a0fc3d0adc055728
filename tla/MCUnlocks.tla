----------------------------- MODULE MCUnlocks -----------------------------
(***************************************************************************)
(* A small instance of Unlocks for TLC.                                    *)
(***************************************************************************)
EXTENDS Unlocks, TLC

Symmetry == Permutations(Worker) \cup Permutations(Link) \cup Permutations(EventId)
=============================================================================
