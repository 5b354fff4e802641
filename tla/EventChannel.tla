---------------------------- MODULE EventChannel ----------------------------
(***************************************************************************)
(* What a transactional outbox promises to the rest of the system: an      *)
(* event whose transaction has committed is appended to its Kafka topic at *)
(* least once, and nothing is appended that was not committed first.  It   *)
(* promises neither an order nor the absence of duplicates.                *)
(***************************************************************************)
EXTENDS Sequences, SequencesExt

CONSTANT Events

VARIABLES
  accepted,    \* events whose business transaction has committed
  delivered    \* the topic log, in broker order

chanVars == <<accepted, delivered>>

ChanInit ==
  /\ accepted = {}
  /\ delivered = <<>>

Accept(e) ==
  /\ e \notin accepted
  /\ accepted' = accepted \union {e}
  /\ UNCHANGED delivered

Deliver(e) ==
  /\ e \in accepted
  /\ delivered' = Append(delivered, e)
  /\ UNCHANGED accepted

ChanNext == \E e \in Events : Accept(e) \/ Deliver(e)

\* Safety part of the promise.
ChanSafety == ChanInit /\ [][ChanNext]_chanVars

\* With liveness: an accepted event does not stay out of the topic for ever.
ChanSpec ==
  /\ ChanSafety
  /\ \A e \in Events : <>[](e \in accepted) => <>(e \in ToSet(delivered))
=============================================================================
