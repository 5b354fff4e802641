------------------------- MODULE KafkaConsumerProofs -------------------------
(***************************************************************************)
(* Theorems about KafkaConsumer, for any group, any partition and any      *)
(* number of failed calls, crashes and rebalances.  PassedIsSettled is not *)
(* inductive by itself: what a commit or a handled message settles depends *)
(* on what the member had behind it when it fetched the message, which it  *)
(* may have done long before, as an owner it no longer is.                 *)
(***************************************************************************)
EXTENDS KafkaConsumer, TLAPS

Busy == {"handle", "deadletter", "commit"}

\* A member works on a message that is in the partition.
MsgOK == \A m \in Members : pc[m] \in Busy => msg[m] \in 1..produced

\* What the committed offset and the handled messages have passed is settled.
CommittedOK == \A o \in Offsets : o <= committed => Settled(o)
HandledOK ==
  \A o \in Offsets : \A l \in ToSet(handled) : l > o => Settled(o)

\* So is what a member at work has behind it, as owner or not; and its own
\* message before it commits.
BehindOK ==
  \A m \in Members : \A o \in Offsets :
    /\ pc[m] \in Busy /\ o < msg[m] => Settled(o)
    /\ pc[m] = "commit" /\ o = msg[m] => Settled(o)

\* The reader of the owner has passed nothing else but the message in work.
ReaderOK ==
  \A m \in Members : \A o \in Offsets :
    owner = m /\ o < next[m] =>
      Settled(o) \/ (pc[m] \in {"handle", "deadletter"} /\ o = msg[m])

\* Only a message the handler rejected goes to the dead letter topic.
RejectedOK ==
  \A m \in Members :
    pc[m] = "deadletter" => Messages[msg[m]] = "bad" /\ setting.classifies

Passed == CommittedOK /\ HandledOK /\ BehindOK /\ ReaderOK /\ RejectedOK

IInv == TypeOK /\ MsgOK /\ Passed

-----------------------------------------------------------------------------
\* What is in an appended sequence.
LEMMA AppendSet ==
  ASSUME NEW S, NEW s \in Seq(S), NEW x \in S
  PROVE  /\ Append(s, x) \in Seq(S)
         /\ ToSet(Append(s, x)) = ToSet(s) \union {x}
<1>1. /\ Append(s, x) \in Seq(S)
      /\ Len(Append(s, x)) = Len(s) + 1
      /\ \A i \in 1..Len(s) : Append(s, x)[i] = s[i]
      /\ Append(s, x)[Len(s) + 1] = x
      /\ Len(s) \in Nat
  OBVIOUS
<1>2. DOMAIN Append(s, x) = 1..(Len(s) + 1) /\ DOMAIN s = 1..Len(s)
  BY <1>1
<1> QED  BY <1>1, <1>2 DEF ToSet

\* Types, together with the place of the message in work.
LEMMA TypeStep == TypeOK /\ MsgOK /\ [Next]_vars => TypeOK' /\ MsgOK'
<1> SUFFICES ASSUME TypeOK, MsgOK, [Next]_vars PROVE TypeOK' /\ MsgOK'
  OBVIOUS
<1> USE MessagesAssumption, FaultsAssumption, NobodyAssumption
    DEF TypeOK, MsgOK, Busy, Stages, Goto, Leave, Fault, group, member, hist, Offsets
<1>0. Len(Messages) \in Nat
  OBVIOUS
<1>1. CASE Produce
  BY <1>0, <1>1 DEF Produce
<1>2. CASE Revoke
  BY <1>0, <1>2 DEF Revoke
<1>3. ASSUME NEW m \in Members, Assign(m) PROVE TypeOK' /\ MsgOK'
  BY <1>0, <1>3 DEF Assign
<1>4. ASSUME NEW m \in Members, FetchMessage(m) PROVE TypeOK' /\ MsgOK'
  BY <1>0, <1>4 DEF FetchMessage
<1>5. ASSUME NEW m \in Members, HandlerOk(m) PROVE TypeOK' /\ MsgOK'
  <2>1. handled' \in Seq(Offsets)
    BY <1>0, <1>5, AppendSet DEF HandlerOk
  <2> QED  BY <1>0, <1>5, <2>1 DEF HandlerOk
<1>6. ASSUME NEW m \in Members, HandlerRejects(m) PROVE TypeOK' /\ MsgOK'
  BY <1>0, <1>6 DEF HandlerRejects
<1>7. ASSUME NEW m \in Members, HandlerFails(m) PROVE TypeOK' /\ MsgOK'
  <2>1. faults' \in 0..MaxFaults
    BY <1>7 DEF HandlerFails
  <2> QED  BY <1>0, <1>7, <2>1 DEF HandlerFails
<1>8. ASSUME NEW m \in Members, publishDeadLetter(m) PROVE TypeOK' /\ MsgOK'
  <2>1. msg[m] \in Offsets
    BY <1>0, <1>8 DEF publishDeadLetter
  <2>2. dlq' = dlq \union {msg[m]}
    BY <1>8 DEF publishDeadLetter
  <2>3. dlq' \subseteq Offsets
    BY <2>1, <2>2
  <2> QED  BY <1>0, <1>8, <2>3 DEF publishDeadLetter
<1>9. ASSUME NEW m \in Members, CommitMessages(m) PROVE TypeOK' /\ MsgOK'
  BY <1>0, <1>9 DEF CommitMessages
<1>10. ASSUME NEW m \in Members, CommitRefused(m) PROVE TypeOK' /\ MsgOK'
  BY <1>0, <1>10 DEF CommitRefused
<1>11. ASSUME NEW m \in Members, Die(m) PROVE TypeOK' /\ MsgOK'
  BY <1>0, <1>11 DEF Die
<1>12. ASSUME NEW m \in Members, Restart(m) PROVE TypeOK' /\ MsgOK'
  BY <1>0, <1>12 DEF Restart
<1>13. CASE UNCHANGED vars
  BY <1>13 DEF vars
<1> QED
  BY <1>1, <1>2, <1>3, <1>4, <1>5, <1>6, <1>7, <1>8, <1>9, <1>10, <1>11, <1>12,
     <1>13 DEF Next, Step

LEMMA InitType == Init => TypeOK /\ MsgOK
  BY MessagesAssumption, FaultsAssumption
     DEF Init, TypeOK, MsgOK, Busy, Stages, Offsets

\* Offsets, readers, hands and topics keep their types: no member is handed a
\* message that is not there, and no commit leaves the partition.
THEOREM TypeCorrect == Spec => []TypeOK
  BY InitType, TypeStep, PTL DEF Spec

-----------------------------------------------------------------------------
\* What is settled stays so: nothing is taken out of the histories.
LEMMA SettledStays ==
  ASSUME UNCHANGED setting,
         ToSet(handled) \subseteq ToSet(handled'),
         dlq \subseteq dlq',
         NEW o \in Offsets, Settled(o)
  PROVE  Settled(o)'
  BY DEF Settled

LEMMA PassedStep ==
  TypeOK /\ MsgOK /\ TypeOK' /\ Passed /\ [Next]_vars => Passed'
<1> SUFFICES ASSUME TypeOK, MsgOK, TypeOK', Passed, [Next]_vars PROVE Passed'
  OBVIOUS
<1> USE NobodyAssumption
    DEF Passed, CommittedOK, HandledOK, BehindOK, ReaderOK, RejectedOK, Busy, Goto, Leave,
        group, member, hist
<1>0. /\ Len(Messages) \in Nat
      /\ Offsets = 1..Len(Messages)
      /\ committed \in Nat /\ produced \in 0..Len(Messages)
      /\ \A m \in Members : next[m] \in Nat /\ msg[m] \in Nat
      /\ \A m \in Members : pc[m] \in Busy => msg[m] \in Offsets
  <2>1. Len(Messages) \in Nat
    BY MessagesAssumption
  <2>2. Offsets = 1..Len(Messages)
    BY DEF Offsets
  <2>3. committed \in Nat /\ produced \in 0..Len(Messages)
    BY <2>1 DEF TypeOK
  <2>4. \A m \in Members : next[m] \in Nat /\ msg[m] \in Nat
    <3>1. \A m \in Members : next[m] \in 1..(Len(Messages) + 1) /\ msg[m] \in 0..Len(Messages)
      BY DEF TypeOK
    <3> QED  BY <2>1, <3>1
  <2>5. ASSUME NEW m \in Members, pc[m] \in Busy PROVE msg[m] \in Offsets
    <3>1. msg[m] \in 1..produced
      BY <2>5 DEF MsgOK
    <3> QED  BY <2>1, <2>2, <2>3, <3>1
  <2> QED  BY <2>1, <2>2, <2>3, <2>4, <2>5
<1> HIDE DEF Offsets
<1>s. ASSUME UNCHANGED <<setting, handled, dlq>>, NEW o \in Offsets
      PROVE  Settled(o)' <=> Settled(o)
  BY <1>s DEF Settled
<1>t. pc \in [Members -> Stages] /\ msg \in [Members -> Nat] /\ next \in [Members -> Nat]
  BY <1>0 DEF TypeOK
<1>1. CASE Produce
  BY <1>1, <1>s DEF Produce
<1>2. CASE Revoke
  BY <1>2, <1>s DEF Revoke, TypeOK
<1>3. ASSUME NEW m \in Members, Assign(m) PROVE Passed'
  <2>1. UNCHANGED <<setting, handled, dlq, committed, pc, msg>>
    BY <1>3 DEF Assign
  <2>2. CommittedOK' /\ HandledOK' /\ BehindOK'
    BY <2>1, <1>s
  <2>4. RejectedOK'
    BY <2>1
  <2>3. ASSUME NEW n \in Members, NEW o \in Offsets, owner' = n, o < next'[n]
        PROVE  Settled(o)'
    BY <1>3, <1>0, <1>t, <2>1, <2>3, <1>s DEF Assign
  <2> QED  BY <2>2, <2>3, <2>4
<1>4. ASSUME NEW m \in Members, FetchMessage(m) PROVE Passed'
  <2>1. UNCHANGED <<setting, handled, dlq, committed, owner>>
    BY <1>4 DEF FetchMessage
  <2>2. CommittedOK' /\ HandledOK'
    BY <2>1, <1>s
  <2>3. /\ pc' = [pc EXCEPT ![m] = "handle"]
        /\ msg' = [msg EXCEPT ![m] = next[m]]
        /\ next' = [next EXCEPT ![m] = next[m] + 1]
        /\ pc[m] = "fetch" /\ owner = m
    BY <1>4 DEF FetchMessage
  <2>4. \A o \in Offsets : o < next[m] => Settled(o)
    BY <2>3
  <2>5. BehindOK'
    BY <2>1, <2>3, <2>4, <1>s, <1>t
  <2>6. ReaderOK'
    BY <2>1, <2>3, <2>4, <1>s, <1>t, <1>0
  <2>7. RejectedOK'
    BY <2>1, <2>3, <1>t
  <2> QED  BY <2>2, <2>5, <2>6, <2>7
<1>5. ASSUME NEW m \in Members, HandlerOk(m) PROVE Passed'
  <2>1. /\ ToSet(handled') = ToSet(handled) \union {msg[m]}
        /\ msg[m] \in Offsets /\ Messages[msg[m]] = "good"
    BY <1>5, <1>0, AppendSet DEF HandlerOk, TypeOK
  <2>2. UNCHANGED <<setting, dlq, committed, owner, next, msg>>
    BY <1>5 DEF HandlerOk
  <2>3. \A o \in Offsets : Settled(o) \/ o = msg[m] => Settled(o)'
    BY <2>1, <2>2, SettledStays DEF Settled
  <2>4. pc[m] = "handle" /\ pc' = [pc EXCEPT ![m] = "commit"]
    BY <1>5 DEF HandlerOk
  <2>5. \A o \in Offsets : o < msg[m] => Settled(o)
    BY <2>4
  <2>6. CommittedOK' /\ HandledOK'
    BY <2>1, <2>2, <2>3, <2>5
  <2>7. BehindOK' /\ ReaderOK' /\ RejectedOK'
    BY <2>2, <2>3, <2>4, <1>t
  <2> QED  BY <2>6, <2>7
<1>6. ASSUME NEW m \in Members, HandlerRejects(m) PROVE Passed'
  <2>1. UNCHANGED <<setting, handled, dlq, committed, owner, next, msg>>
    BY <1>6 DEF HandlerRejects
  <2>2. /\ pc[m] = "handle"
        /\ pc' = [pc EXCEPT ![m] = IF setting.deadLetters THEN "deadletter" ELSE "commit"]
        /\ Messages[msg[m]] = "bad" /\ setting.classifies
        /\ ~setting.deadLetters => Settled(msg[m])
    BY <1>6 DEF HandlerRejects, Settled
  <2>3. CommittedOK' /\ HandledOK'
    BY <2>1, <1>s
  <2>4. BehindOK' /\ ReaderOK' /\ RejectedOK'
    BY <2>1, <2>2, <1>s, <1>t
  <2> QED  BY <2>3, <2>4
<1>7. ASSUME NEW m \in Members, HandlerFails(m) PROVE Passed'
  BY <1>7, <1>s, <1>t DEF HandlerFails, TypeOK
<1>8. ASSUME NEW m \in Members, publishDeadLetter(m) PROVE Passed'
  <2>1. UNCHANGED <<setting, handled, committed, owner, next, msg>>
    BY <1>8 DEF publishDeadLetter
  <2>2. /\ pc[m] = "deadletter" /\ pc' = [pc EXCEPT ![m] = "commit"]
        /\ dlq' = dlq \union {msg[m]}
    BY <1>8 DEF publishDeadLetter
  <2>3. \A o \in Offsets : Settled(o) => Settled(o)'
    BY <2>1, <2>2, SettledStays
  <2>4. Settled(msg[m])'
    BY <2>1, <2>2 DEF Settled
  <2>5. CommittedOK' /\ HandledOK'
    BY <2>1, <2>3
  <2>6. BehindOK' /\ ReaderOK' /\ RejectedOK'
    BY <2>1, <2>2, <2>3, <2>4, <1>t
  <2> QED  BY <2>5, <2>6
<1>9. ASSUME NEW m \in Members, CommitMessages(m) PROVE Passed'
  <2>1. UNCHANGED <<setting, handled, dlq, owner, next, msg>>
    BY <1>9 DEF CommitMessages
  <2>2. /\ pc[m] = "commit" /\ pc' = [pc EXCEPT ![m] = "fetch"]
        /\ committed' = msg[m] /\ msg[m] \in Offsets
    BY <1>9, <1>0 DEF CommitMessages
  <2>3. CommittedOK' /\ HandledOK'
    BY <2>1, <2>2, <1>s, <1>0
  <2>4. BehindOK' /\ ReaderOK' /\ RejectedOK'
    BY <2>1, <2>2, <1>s, <1>t
  <2> QED  BY <2>3, <2>4
<1>10. ASSUME NEW m \in Members, CommitRefused(m) PROVE Passed'
  BY <1>10, <1>s, <1>t DEF CommitRefused, TypeOK
<1>11. ASSUME NEW m \in Members, Die(m) PROVE Passed'
  <2>1. UNCHANGED <<setting, handled, next, msg>>
    BY <1>11 DEF Die
  <2>2. /\ pc' = [pc EXCEPT ![m] = "down"]
        /\ owner' = IF owner = m THEN Nobody ELSE owner
        /\ dlq \subseteq dlq'
        /\ committed' = committed \/ (pc[m] = "commit" /\ committed' = msg[m])
    BY <1>11 DEF Die
  <2>3. \A o \in Offsets : Settled(o) => Settled(o)'
    BY <2>1, <2>2, SettledStays
  <2>4. HandledOK'
    BY <2>1, <2>3
  <2>5. CommittedOK'
    BY <2>2, <2>3, <1>0
  <2>6. BehindOK' /\ ReaderOK' /\ RejectedOK'
    BY <2>1, <2>2, <2>3, <1>t
  <2> QED  BY <2>4, <2>5, <2>6
<1>12. ASSUME NEW m \in Members, Restart(m) PROVE Passed'
  BY <1>12, <1>s, <1>t DEF Restart
<1>13. CASE UNCHANGED vars
  BY <1>13, <1>s DEF vars
<1> QED
  BY <1>1, <1>2, <1>3, <1>4, <1>5, <1>6, <1>7, <1>8, <1>9, <1>10, <1>11, <1>12,
     <1>13 DEF Next, Step

\* The inductive invariant.
THEOREM Invariant == Spec => []IInv
<1>1. Init => IInv
  <2> SUFFICES ASSUME Init PROVE Passed
    BY InitType DEF IInv
  <2>1. committed = 0 /\ ToSet(handled) = {} /\ \A o \in Offsets : o >= 1
    BY MessagesAssumption DEF Init, ToSet, Offsets
  <2>2. \A m \in Members : pc[m] = "fetch" /\ next[m] = 1
    BY DEF Init
  <2> QED  BY <2>1, <2>2, MessagesAssumption DEF Passed, CommittedOK, HandledOK, BehindOK, ReaderOK, RejectedOK, Busy, Offsets
<1>2. IInv /\ [Next]_vars => IInv'
  BY TypeStep, PassedStep DEF IInv
<1> QED  BY <1>1, <1>2, PTL DEF Spec

\* At least once and in order, for every setting of the consumer: neither the
\* committed offset nor the handling of a later message passes one that is not
\* settled, whichever members commit, late, twice or after a rebalance.
THEOREM NothingPassedOver == Spec => []PassedIsSettled
<1>1. IInv => PassedIsSettled
  BY DEF IInv, Passed, CommittedOK, HandledOK, PassedIsSettled
<1> QED  BY <1>1, Invariant, PTL

-----------------------------------------------------------------------------
\* The messages that are done with.
Done == {o \in Offsets : Settled(o)}

LEMMA DoneIs == Done \subseteq Offsets /\ \A o \in Offsets : o \in Done <=> Settled(o)
  BY DEF Done

\* Consumer.Start, run by the members of a group that crash, are rebalanced and
\* commit late, does to the partition what OrderedQueue allows: a message is
\* settled after all those ahead of it, and no commit leaves one behind.
THEOREM ImplementsQueue == Spec => QueueSafety
<1>l. Len(Messages) \in Nat /\ Offsets = 1..Len(Messages)
  BY MessagesAssumption DEF Offsets
<1>1. Init => Queue!QueueInit
  BY <1>l DEF Init, Queue!QueueInit
<1>2. IInv /\ [Next]_vars => [Queue!QueueNext]_<<Done, committed>>
  <2> SUFFICES ASSUME IInv, [Next]_vars
               PROVE  [Queue!QueueNext]_<<Done, committed>>
    OBVIOUS
  <2>i. TypeOK /\ MsgOK /\ BehindOK
    BY DEF IInv, Passed
  <2>o. \A m \in Members : pc[m] \in Busy => msg[m] \in Offsets
    BY <1>l, <2>i DEF TypeOK, MsgOK
  <2>d. \A o \in Offsets : o \in Done <=> Settled(o)
    BY DoneIs
  <2>b. \A m \in Members : \A o \in Offsets :
          /\ pc[m] \in Busy /\ o < msg[m] => o \in Done
          /\ pc[m] = "commit" /\ o = msg[m] => o \in Done
    BY <2>i, <2>d DEF BehindOK
  <2>a. \A o \in Offsets : Queue!Ahead(o) = {p \in Offsets : p < o}
    BY <1>l DEF Queue!Ahead
  <2>s. ASSUME UNCHANGED <<setting, handled, dlq>> PROVE Done' = Done
    BY <2>s DEF Done, Settled
  \* A message that becomes settled is the one a member works on.
  <2>1. ASSUME NEW m \in Members, pc[m] \in Busy, committed' = committed, setting' = setting,
               \/ ToSet(handled') = ToSet(handled) \union {msg[m]} /\ dlq' = dlq
               \/ handled' = handled /\ dlq' = dlq \union {msg[m]}
        PROVE  Queue!QueueNext \/ UNCHANGED <<Done, committed>>
    <3>1. msg[m] \in Offsets
      BY <2>o, <2>1
    <3>2. Done \subseteq Done' /\ Done' \subseteq Done \union {msg[m]}
      BY <2>1 DEF Done, Settled
    <3>3. CASE Done' = Done
      BY <2>1, <3>3
    <3>4. CASE Done' = Done \union {msg[m]} /\ msg[m] \notin Done
      <4>1. Queue!Ahead(msg[m]) \subseteq Done
        BY <2>1, <2>a, <2>b, <3>1
      <4>2. Queue!Settle(msg[m])
        BY <2>1, <3>4, <4>1 DEF Queue!Settle, Done
      <4> QED  BY <1>l, <3>1, <4>2 DEF Queue!QueueNext
    <3> QED  BY <3>2, <3>3, <3>4
  \* A commit, on time or late, leaves nothing behind that is not settled.
  <2>2. ASSUME NEW m \in Members, pc[m] = "commit", committed' = msg[m],
               UNCHANGED <<setting, handled, dlq>>
        PROVE  Queue!QueueNext
    <3>1. msg[m] \in Offsets
      BY <2>o, <2>2 DEF Busy
    <3>2. Queue!Ahead(msg[m]) \union {msg[m]} \subseteq Done
      BY <2>2, <2>a, <2>b, <3>1 DEF Busy
    <3>3. Queue!MoveTo(msg[m])
      BY <2>2, <2>s, <3>2 DEF Queue!MoveTo, Done
    <3> QED  BY <1>l, <3>1, <3>3 DEF Queue!QueueNext
  <2>3. ASSUME NEW m \in Members, HandlerOk(m)
        PROVE  Queue!QueueNext \/ UNCHANGED <<Done, committed>>
    <3>1. ToSet(handled') = ToSet(handled) \union {msg[m]}
      BY <2>3, <2>i, <2>o, AppendSet DEF HandlerOk, TypeOK, Busy
    <3> QED  BY <2>1, <2>3, <3>1 DEF HandlerOk, Busy, group
  <2>4. ASSUME NEW m \in Members, publishDeadLetter(m)
        PROVE  Queue!QueueNext \/ UNCHANGED <<Done, committed>>
    BY <2>1, <2>4 DEF publishDeadLetter, Busy, group
  <2>5. ASSUME NEW m \in Members, CommitMessages(m) PROVE Queue!QueueNext
    BY <2>2, <2>5 DEF CommitMessages, hist
  \* A process that dies while it commits or publishes may have done it.
  <2>6. ASSUME NEW m \in Members, Die(m)
        PROVE  Queue!QueueNext \/ UNCHANGED <<Done, committed>>
    <3>1. UNCHANGED <<setting, handled>>
      BY <2>6 DEF Die
    <3>2. CASE UNCHANGED <<dlq, committed>>
      BY <2>s, <3>1, <3>2
    <3>3. CASE pc[m] = "deadletter" /\ dlq' = dlq \union {msg[m]} /\ committed' = committed
      BY <2>1, <3>1, <3>3 DEF Busy
    <3>4. CASE pc[m] = "commit" /\ committed' = msg[m] /\ dlq' = dlq
      BY <2>2, <3>1, <3>4
    <3> QED  BY <2>6, <3>2, <3>3, <3>4 DEF Die
  <2>7. CASE Produce \/ Revoke \/ UNCHANGED vars
    BY <2>s, <2>7 DEF Produce, Revoke, vars, group, member, hist
  <2>8. ASSUME NEW m \in Members,
               \/ Assign(m) \/ Restart(m) \/ FetchMessage(m) \/ HandlerRejects(m)
               \/ HandlerFails(m) \/ CommitRefused(m)
        PROVE  UNCHANGED <<Done, committed>>
    BY <2>s, <2>8 DEF Assign, Restart, FetchMessage, HandlerRejects, HandlerFails,
                      CommitRefused, group, hist
  <2> QED
    BY <2>3, <2>4, <2>5, <2>6, <2>7, <2>8 DEF Next, Step
<1>3. QueueSafety <=> Queue!QueueInit /\ [][Queue!QueueNext]_<<Done, committed>>
  BY DEF QueueSafety, Queue!QueueSafety, Queue!queueVars, Done
<1> QED  BY <1>1, <1>2, <1>3, Invariant, PTL DEF Spec
=============================================================================
