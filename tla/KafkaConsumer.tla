--------------------------- MODULE KafkaConsumer ---------------------------
(***************************************************************************)
(* pkg/kafka: Consumer.Start, as every service runs it, on one partition   *)
(* of one topic: fetch, handle, commit, one message at a time.  An error   *)
(* that is not marked as non-retryable ends Start; the errgroup of main    *)
(* then ends the process, and the one started next begins behind the last  *)
(* committed message.                                                      *)
(*                                                                         *)
(* The consumer group is external: it gives the partition to one member,   *)
(* who goes on behind the committed offset, and it may take it away again. *)
(* The client library commits on behalf of the current generation, so the  *)
(* commit of a member that lost the partition may fail or go through, and  *)
(* then also set the offset back.                                          *)
(***************************************************************************)
EXTENDS Integers, FiniteSets, Sequences, SequencesExt

CONSTANTS
  Members,      \* consumers of the group
  Nobody,       \* nobody has the partition
  Messages,     \* the partition, in order: "good", or "bad" (malformed)
  Settings,     \* the consumers of the system: whether the handler marks
                \* bad messages as non-retryable, and whether WithDeadLetter
                \* was called
  MaxFaults     \* bound: failed calls, crashes, rebalances

Offsets == 1..Len(Messages)

ASSUME NobodyAssumption == Nobody \notin Members
ASSUME MessagesAssumption == Messages \in Seq({"good", "bad"})
ASSUME SettingsAssumption ==
  Settings \subseteq [classifies : BOOLEAN, deadLetters : BOOLEAN]
ASSUME FaultsAssumption == MaxFaults \in Nat

VARIABLES
  setting,     \* which of these consumers this is
  produced,    \* messages in the partition so far
  committed,   \* committed offset: the last message that is done with
  owner,       \* the member that has the partition
  next,        \* per member: the message its reader fetches next
  pc, msg,     \* per member: the step it is at, and its message
  handled,     \* history: messages whose handler returned nil, in order
  dlq,         \* history: messages in the dead letter topic
  faults

group == <<committed, owner>>
member == <<setting, next, pc, msg>>
hist == <<handled, dlq>>
vars == <<produced, group, member, hist, faults>>

Stages == {"fetch", "handle", "deadletter", "commit", "down"}

Init ==
  /\ setting \in Settings
  /\ produced = 0
  /\ committed = 0
  /\ owner = Nobody
  /\ next = [m \in Members |-> 1]
  /\ pc = [m \in Members |-> "fetch"]
  /\ msg = [m \in Members |-> 0]
  /\ handled = <<>>
  /\ dlq = {}
  /\ faults = 0

Fault == faults < MaxFaults /\ faults' = faults + 1
Goto(m, stage) == pc' = [pc EXCEPT ![m] = stage]

\* A producer appends the next message.
Produce ==
  /\ produced < Len(Messages)
  /\ produced' = produced + 1
  /\ UNCHANGED <<group, member, hist, faults>>

-----------------------------------------------------------------------------
\* The group, external.

\* A free partition goes to a running member.
Assign(m) ==
  /\ owner = Nobody
  /\ pc[m] # "down"
  /\ owner' = m
  /\ next' = [next EXCEPT ![m] = committed + 1]
  /\ UNCHANGED <<setting, produced, committed, pc, msg, hist, faults>>

\* The owner did not answer in time, or members come and go.
Revoke ==
  /\ owner # Nobody
  /\ Fault
  /\ owner' = Nobody
  /\ UNCHANGED <<produced, committed, member, hist>>

-----------------------------------------------------------------------------
\* Consumer.Start

\* Mistake: an empty message at the end of the partition is passed on.
FetchMessageUnbounded(m) ==
  /\ pc[m] = "fetch" /\ owner = m
  /\ msg' = [msg EXCEPT ![m] = next[m]]
  /\ next' = [next EXCEPT ![m] = @ + 1]
  /\ Goto(m, "handle")
  /\ UNCHANGED <<setting, produced, group, hist, faults>>

FetchMessage(m) ==
  /\ pc[m] = "fetch" /\ owner = m /\ next[m] <= produced
  /\ msg' = [msg EXCEPT ![m] = next[m]]
  /\ next' = [next EXCEPT ![m] = @ + 1]
  /\ Goto(m, "handle")
  /\ UNCHANGED <<setting, produced, group, hist, faults>>

\* The handler returns nil.
HandlerOk(m) ==
  /\ pc[m] = "handle" /\ Messages[msg[m]] = "good"
  /\ handled' = Append(handled, msg[m])
  /\ Goto(m, "commit")
  /\ UNCHANGED <<setting, produced, group, next, msg, dlq, faults>>

\* The handler returns a non-retryable error.
HandlerRejects(m) ==
  /\ pc[m] = "handle" /\ Messages[msg[m]] = "bad" /\ setting.classifies
  /\ Goto(m, IF setting.deadLetters THEN "deadletter" ELSE "commit")
  /\ UNCHANGED <<setting, produced, group, next, msg, hist, faults>>

\* The process ends; its partition is free for another member.
Leave(m) ==
  /\ Goto(m, "down")
  /\ owner' = IF owner = m THEN Nobody ELSE owner

\* Mistake: the error is logged and the loop goes on with the next message.
HandlerFailsGoesOn(m) ==
  /\ pc[m] = "handle"
  /\ IF Messages[msg[m]] = "bad" THEN ~setting.classifies /\ UNCHANGED faults ELSE Fault
  /\ Goto(m, "fetch")
  /\ UNCHANGED <<setting, produced, group, next, msg, hist>>

\* Any other error of the handler, be it the database or a message it cannot
\* take and does not classify.
HandlerFails(m) ==
  /\ pc[m] = "handle"
  /\ IF Messages[msg[m]] = "bad" THEN ~setting.classifies /\ UNCHANGED faults ELSE Fault
  /\ Leave(m)
  /\ UNCHANGED <<setting, produced, committed, next, msg, hist>>

\* Mistake: the result of the publish is not looked at.
PublishDeadLetterUnchecked(m) ==
  /\ pc[m] = "deadletter"
  /\ dlq' \in {dlq, dlq \union {msg[m]}}
  /\ Goto(m, "commit")
  /\ UNCHANGED <<setting, produced, group, next, msg, handled, faults>>

publishDeadLetter(m) ==
  /\ pc[m] = "deadletter"
  /\ dlq' = dlq \union {msg[m]}
  /\ Goto(m, "commit")
  /\ UNCHANGED <<setting, produced, group, next, msg, handled, faults>>

\* The commit goes through.
CommitMessages(m) ==
  /\ pc[m] = "commit"
  /\ committed' = msg[m]
  /\ Goto(m, "fetch")
  /\ UNCHANGED <<setting, produced, owner, next, msg, hist, faults>>

\* The dead letter or the commit fails, or the process is killed anywhere.  A
\* call that failed may have had its effect.
Die(m) ==
  /\ pc[m] # "down"
  /\ Fault
  /\ Leave(m)
  /\ dlq' \in {dlq, IF pc[m] = "deadletter" THEN dlq \union {msg[m]} ELSE dlq}
  /\ committed' \in {committed, IF pc[m] = "commit" THEN msg[m] ELSE committed}
  /\ UNCHANGED <<setting, produced, next, msg, handled>>

\* The commit of a member that lost the partition is refused.
CommitRefused(m) ==
  /\ pc[m] = "commit" /\ owner # m
  /\ Leave(m)
  /\ UNCHANGED <<setting, produced, committed, next, msg, hist, faults>>

\* The process is started again.
Restart(m) ==
  /\ pc[m] = "down"
  /\ Goto(m, "fetch")
  /\ UNCHANGED <<setting, produced, group, next, msg, hist, faults>>

Step(m) ==
  \/ FetchMessage(m)
  \/ HandlerOk(m) \/ HandlerRejects(m) \/ HandlerFails(m)
  \/ publishDeadLetter(m)
  \/ CommitMessages(m) \/ CommitRefused(m)

Next ==
  \/ Produce
  \/ Revoke
  \/ \E m \in Members : Assign(m) \/ Step(m) \/ Die(m) \/ Restart(m)

Spec == Init /\ [][Next]_vars

\* Members run, processes are restarted, and the group hands out partitions.
FairSpec ==
  /\ Spec
  /\ \A m \in Members : WF_vars(Step(m)) /\ WF_vars(Restart(m))
  /\ WF_vars(\E m \in Members : Assign(m))

-----------------------------------------------------------------------------
TypeOK ==
  /\ setting \in Settings
  /\ produced \in 0..Len(Messages)
  /\ committed \in 0..Len(Messages)
  /\ owner \in Members \union {Nobody}
  /\ next \in [Members -> 1..(Len(Messages) + 1)]
  /\ pc \in [Members -> Stages]
  /\ msg \in [Members -> 0..Len(Messages)]
  /\ handled \in Seq(Offsets)
  /\ dlq \subseteq Offsets
  /\ faults \in 0..MaxFaults

\* A bad message is settled by being skipped as one, never by being handled.
Settled(o) ==
  IF Messages[o] = "good"
    THEN o \in ToSet(handled)
    ELSE setting.classifies /\ (setting.deadLetters => o \in dlq)

\* At least once and in order: neither the committed offset nor the handling of
\* a later message passes a message whose handler did not return nil and that
\* is not in the dead letter topic, whoever commits, late, twice or after
\* losing the partition.  Where bad messages are not classified, nothing
\* passes one, and every restart meets it again.
PassedIsSettled ==
  \A o \in Offsets :
    o <= committed \/ (\E l \in ToSet(handled) : l > o) => Settled(o)

\* Where bad messages are classified, every message is settled in the end: no
\* bad one keeps the good ones behind it waiting.
EverythingSettles ==
  \A o \in Offsets :
    (setting.classifies /\ produced >= o) ~> Settled(o)

\* Members that crash, lose the partition and commit late keep the promise of
\* OrderedQueue.
Queue == INSTANCE OrderedQueue
  WITH Count <- Len(Messages), settled <- {o \in Offsets : Settled(o)}, place <- committed
QueueSafety == Queue!QueueSafety
=============================================================================
