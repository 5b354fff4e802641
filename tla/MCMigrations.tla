---------------------------- MODULE MCMigrations ----------------------------
(* Small instances of Migrations. *)
EXTENDS Migrations, TLC

CONSTANTS main, branch, edited, sa, sb, sx, so

Own(v, s) == [service |-> "own", version |-> v, sum |-> s]
Outbox == [service |-> "outbox", version |-> 1, sum |-> so]

\* A release, one that does not have its first file yet, and one that edited it.
MCFiles ==
  main :> {Own(1, sa), Own(2, sb), Outbox}
    @@ branch :> {Own(2, sb), Outbox}
    @@ edited :> {Own(1, sx), Own(2, sb), Outbox}
=============================================================================
