---------------------------- MODULE SagaContract ----------------------------
(***************************************************************************)
(* What the watch sagas promise, without channels, retries or clocks.  A   *)
(* saga is opened once.  While or after it is open the scanner may carry   *)
(* out what it wants, and nobody else touches the list.  It ends once: as  *)
(* completed only when it has been carried out, as failed at any time.     *)
(* Failure is no promise that nothing happened.                            *)
(***************************************************************************)
CONSTANTS
  Ids,
  Wants      \* saga |-> whether it wants the repository on the list

VARIABLES
  stage,     \* saga |-> "none", "open", "completed" or "failed"
  done,      \* sagas carried out at least once
  listed     \* whether the repository is on the watchlist

contractVars == <<stage, done, listed>>

ContractInit ==
  /\ stage = [s \in Ids |-> "none"]
  /\ done = {}
  /\ listed = FALSE

Open(s) ==
  /\ stage[s] = "none"
  /\ stage' = [stage EXCEPT ![s] = "open"]
  /\ UNCHANGED <<done, listed>>

\* Again, also, for a saga that is over.
CarryOut(s) ==
  /\ stage[s] # "none"
  /\ done' = done \union {s}
  /\ listed' = Wants[s]
  /\ UNCHANGED stage

Complete(s) ==
  /\ stage[s] = "open" /\ s \in done
  /\ stage' = [stage EXCEPT ![s] = "completed"]
  /\ UNCHANGED <<done, listed>>

\* One sweep may give up several.
GiveUp(S) ==
  /\ \A s \in S : stage[s] = "open"
  /\ stage' = [s \in Ids |-> IF s \in S THEN "failed" ELSE stage[s]]
  /\ UNCHANGED <<done, listed>>

ContractNext ==
  \/ \E s \in Ids : Open(s) \/ CarryOut(s) \/ Complete(s)
  \/ \E S \in SUBSET Ids : GiveUp(S)

ContractSafety == ContractInit /\ [][ContractNext]_contractVars
=============================================================================
