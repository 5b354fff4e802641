----------------------------- MODULE MCScanner -----------------------------
(* Small instances of Scanner. *)
EXTENDS Scanner, TLC

CONSTANTS r1, r2

\* One repository has releases, the other only competes with it for scans.
MCPublished == r1 :> Tags @@ r2 :> {}
=============================================================================
