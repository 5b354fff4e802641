---------------------------- MODULE OrderedQueue ----------------------------
(***************************************************************************)
(* What a consumer group promises to the producers of a partition, without *)
(* members, assignments or crashes.  Messages are settled one by one and   *)
(* in order, none before those ahead of it, and what is settled stays so;  *)
(* the place where the next consumer begins never has unsettled messages   *)
(* behind it, though it may go back.                                       *)
(***************************************************************************)
EXTENDS Integers

CONSTANT Count         \* number of messages the partition ever has

VARIABLES
  settled,     \* messages that are done with
  place        \* the last message that will not be delivered again

queueVars == <<settled, place>>

Ahead(o) == 1..(o - 1)

\* Some messages may need no work.
QueueInit ==
  /\ settled \in SUBSET (1..Count)
  /\ place = 0

Settle(o) ==
  /\ o \notin settled
  /\ Ahead(o) \subseteq settled
  /\ settled' = settled \union {o}
  /\ UNCHANGED place

MoveTo(o) ==
  /\ Ahead(o) \union {o} \subseteq settled
  /\ place' = o
  /\ UNCHANGED settled

QueueNext == \E o \in 1..Count : Settle(o) \/ MoveTo(o)

QueueSafety == QueueInit /\ [][QueueNext]_queueVars
=============================================================================
