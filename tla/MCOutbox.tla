------------------------------ MODULE MCOutbox ------------------------------
(* Small instances of Outbox, and the mistakes its properties must notice. *)
EXTENDS Outbox, TLC

CONSTANTS e1, e2, e3   \* model values for the events, oldest first

\* e1 is the oldest row.
MCRank == [e \in Events |-> IF e = e1 THEN 1 ELSE IF e = e2 THEN 2 ELSE 3]
=============================================================================
