-------------------------- MODULE MCSubscriptions --------------------------
(* Small instances of Subscriptions. *)
EXTENDS Subscriptions, TLC

\* Requests are interchangeable in the safety runs.
Symmetry == Permutations(Handlers)
=============================================================================
