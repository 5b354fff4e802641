----------------------------- MODULE MCDelivery -----------------------------
(* Small instances of Delivery. *)
EXTENDS Delivery, TLC

\* First retry after one tick, later ones after two: a growing delay list.
MCDelays == <<1, 2>>
=============================================================================
