-------------------------- MODULE MCReleaseFanout --------------------------
(* Small instances of ReleaseFanout. *)
EXTENDS ReleaseFanout, TLC

CONSTANTS ann, Ann, bob, t1, annHash, bobHash

\* Two of the addresses differ in case only.
MCEmailHash == ann :> annHash @@ Ann :> annHash @@ bob :> bobHash
MCKeys == {t1} \X {annHash, bobHash}
MCDelays == <<1>>
=============================================================================
