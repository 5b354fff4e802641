-------------------------- MODULE WatchSagaProofs --------------------------
(***************************************************************************)
(* Theorems about WatchSaga for any list of requests, any delays and any   *)
(* number of repeated and reordered messages.                              *)
(***************************************************************************)
EXTENDS WatchSaga, FiniteSetTheorems, TLAPS

\* A command in the channel belongs to a saga whose row exists.
CommandsAreKnown == \A i \in 1..Len(commands) : status[commands[i]] # "none"

\* A success ack was written together with the watchlist change.
AcksAreEarned ==
  \A i \in 1..Len(acks) :
    acks[i].type \in {"started", "stopped"} => acks[i].saga \in applied

IInv ==
  /\ TypeOK
  /\ CommandsAreKnown
  /\ NoPoisonAck
  /\ AcksAreEarned
  /\ CompletedIsApplied

-----------------------------------------------------------------------------
\* Every message of channel d is one of channel c.
From(d, c) == \A i \in 1..Len(d) : \E j \in 1..Len(c) : d[i] = c[j]

LEMMA TailFacts ==
  ASSUME NEW S, NEW c \in Seq(S), c # <<>>
  PROVE  Tail(c) \in Seq(S) /\ From(Tail(c), c) /\ Head(c) \in S
         /\ 1 \in 1..Len(c) /\ Head(c) = c[1]
<1>1. Tail(c) \in Seq(S) /\ Len(Tail(c)) = Len(c) - 1 /\ Len(c) \in Nat \ {0}
  OBVIOUS
<1>2. \A i \in 1..Len(Tail(c)) : Tail(c)[i] = c[i+1]
  OBVIOUS
<1>3. From(Tail(c), c)
  BY <1>1, <1>2 DEF From
<1> QED  BY <1>1, <1>3

LEMMA ConcatFacts ==
  ASSUME NEW S, NEW c \in Seq(S), NEW d \in Seq(S)
  PROVE  /\ c \o d \in Seq(S)
         /\ \A i \in 1..Len(c \o d) : \/ \E j \in 1..Len(c) : (c \o d)[i] = c[j]
                                      \/ \E j \in 1..Len(d) : (c \o d)[i] = d[j]
<1>1. c \o d \in Seq(S) /\ Len(c \o d) = Len(c) + Len(d)
  OBVIOUS
<1>2. ASSUME NEW i \in 1..Len(c \o d), i <= Len(c) PROVE (c \o d)[i] = c[i] /\ i \in 1..Len(c)
  BY <1>1, <1>2
<1>3. ASSUME NEW i \in 1..Len(c \o d), ~(i <= Len(c))
      PROVE  (c \o d)[i] = d[i - Len(c)] /\ i - Len(c) \in 1..Len(d)
  BY <1>1, <1>3
<1> QED  BY <1>1, <1>2, <1>3

LEMMA ConcatFrom ==
  ASSUME NEW S, NEW c \in Seq(S), NEW d \in Seq(S), NEW e, From(c, e), From(d, e)
  PROVE  c \o d \in Seq(S) /\ From(c \o d, e)
<1>1. c \o d \in Seq(S)
  BY ConcatFacts
<1>2. ASSUME NEW i \in 1..Len(c \o d) PROVE \E j \in 1..Len(e) : (c \o d)[i] = e[j]
  <2>1. CASE \E j \in 1..Len(c) : (c \o d)[i] = c[j]
    <3>1. PICK j \in 1..Len(c) : (c \o d)[i] = c[j]
      BY <2>1
    <3> QED  BY <3>1, Zenon DEF From
  <2>2. CASE \E j \in 1..Len(d) : (c \o d)[i] = d[j]
    <3>1. PICK j \in 1..Len(d) : (c \o d)[i] = d[j]
      BY <2>2
    <3> QED  BY <3>1, Zenon DEF From
  <2> QED  BY <2>1, <2>2, ConcatFacts
<1> QED  BY <1>1, <1>2 DEF From

LEMMA AppendFacts ==
  ASSUME NEW S, NEW c \in Seq(S), NEW x \in S
  PROVE  /\ Append(c, x) \in Seq(S)
         /\ \A i \in 1..Len(Append(c, x)) :
              Append(c, x)[i] = x \/ \E j \in 1..Len(c) : Append(c, x)[i] = c[j]
<1>1. Append(c, x) \in Seq(S) /\ Len(Append(c, x)) = Len(c) + 1
  OBVIOUS
<1>2. \A i \in 1..Len(c) : Append(c, x)[i] = c[i]
  OBVIOUS
<1>3. Append(c, x)[Len(c) + 1] = x
  OBVIOUS
<1> QED  BY <1>1, <1>2, <1>3

LEMMA SubSeqFacts ==
  ASSUME NEW S, NEW c \in Seq(S), NEW a \in 1..Len(c) + 1, NEW b \in 0..Len(c)
  PROVE  SubSeq(c, a, b) \in Seq(S) /\ From(SubSeq(c, a, b), c)
<1>1. Len(c) \in Nat
  OBVIOUS
<1>2. /\ SubSeq(c, a, b) \in Seq(S)
      /\ Len(SubSeq(c, a, b)) = IF a <= b THEN b - a + 1 ELSE 0
  BY <1>1
<1>3. \A i \in 1..Len(SubSeq(c, a, b)) : SubSeq(c, a, b)[i] = c[a + i - 1]
                                        /\ a + i - 1 \in 1..Len(c)
  BY <1>1, <1>2
<1> QED  BY <1>2, <1>3 DEF From

\* Repeating and overtaking invent no message.
LEMMA DisturbedFacts ==
  ASSUME NEW S, NEW c \in Seq(S), NEW d \in Disturbed(c)
  PROVE  d \in Seq(S) /\ From(d, c)
<1>1. Len(c) \in Nat
  OBVIOUS
<1>2. CASE d \in Again(c)
  <2>1. PICK i \in 1..Len(c) :
           \E j \in (i + 1)..(Len(c) + 1) : d = InsertAt(c, j, c[i])
    BY <1>2 DEF Again
  <2>0. PICK j \in (i + 1)..(Len(c) + 1) : d = InsertAt(c, j, c[i])
    BY <2>1
  <2>2. SubSeq(c, 1, j - 1) \in Seq(S) /\ From(SubSeq(c, 1, j - 1), c)
    BY <1>1, <2>0, SubSeqFacts
  <2>3. SubSeq(c, j, Len(c)) \in Seq(S) /\ From(SubSeq(c, j, Len(c)), c)
    BY <1>1, <2>0, SubSeqFacts
  <2>4. <<c[i]>> \in Seq(S) /\ From(<<c[i]>>, c)
    BY DEF From
  <2>5. SubSeq(c, 1, j - 1) \o <<c[i]>> \in Seq(S)
        /\ From(SubSeq(c, 1, j - 1) \o <<c[i]>>, c)
    BY <2>2, <2>4, ConcatFrom
  <2>6. (SubSeq(c, 1, j - 1) \o <<c[i]>>) \o SubSeq(c, j, Len(c)) \in Seq(S)
        /\ From((SubSeq(c, 1, j - 1) \o <<c[i]>>) \o SubSeq(c, j, Len(c)), c)
    BY <2>3, <2>5, ConcatFrom
  <2> QED  BY <2>0, <2>6 DEF InsertAt
<1>3. CASE d \in Overtaken(c)
  <2>1. PICK i \in 1..(Len(c) - 1) : d = [c EXCEPT ![i] = c[i+1], ![i+1] = c[i]]
    BY <1>3 DEF Overtaken
  <2>2. Len(d) = Len(c) /\ d \in Seq(S)
    BY <1>1, <2>1
  <2>3. \A k \in 1..Len(c) : d[k] \in {c[k], c[i], c[i+1]}
    BY <1>1, <2>1
  <2> QED  BY <1>1, <2>2, <2>3 DEF From
<1> QED  BY <1>2, <1>3 DEF Disturbed

\* The commands of one sweep are those of the sagas it retries.
LEMMA BatchFacts ==
  ASSUME ActionsAssumption, NEW D \in SUBSET Sagas, NEW batch \in SetToSeqs(D)
  PROVE  batch \in Seq(Sagas) /\ \A i \in 1..Len(batch) : batch[i] \in D
<1>1. Len(Actions) \in Nat
  BY ActionsAssumption
<1>2. Cardinality(D) \in Nat
  <2>1. IsFiniteSet(Sagas)
    BY <1>1, FS_Interval DEF Sagas
  <2>2. IsFiniteSet(D)
    BY <2>1, FS_Subset
  <2> QED  BY <2>2, FS_CardinalityType
<1>3. batch \in [1..Cardinality(D) -> D]
  BY DEF SetToSeqs
<1>4. batch \in Seq(D)
  BY <1>2, <1>3
<1> QED  BY <1>4

LEMMA DelayFacts ==
  ASSUME DelaysAssumption, NEW n \in Nat
  PROVE  retryDelay(n) \in Nat
<1>1. Len(RetryDelays) \in Nat \ {0} /\ \A i \in 1..Len(RetryDelays) : RetryDelays[i] \in Nat
  BY DelaysAssumption
<1> QED  BY <1>1 DEF retryDelay, Last

LEMMA AckFacts ==
  ASSUME NEW s \in Sagas
  PROVE  /\ AckType(Actions[s]) \in {"started", "stopped"}
         /\ [saga |-> s, type |-> AckType(Actions[s])] \in Acks
         /\ [saga |-> s, type |-> "failed"] \in Acks
BY DEF AckType, Acks

-----------------------------------------------------------------------------
\* Type correctness is inductive by itself.
LEMMA TypeStep == TypeOK /\ [Next]_vars => TypeOK'
<1> SUFFICES ASSUME TypeOK, [Next]_vars PROVE TypeOK'
  OBVIOUS
<1> USE BoundsAssumption DEF TypeOK
<1>0. Len(Actions) \in Nat
  BY ActionsAssumption
<1>1. CASE Request
  <2>1. asked + 1 \in Sagas /\ asked' \in 0..Len(Actions)
    BY <1>0, <1>1 DEF Request, Sagas
  <2>2. requests' \in Seq(Sagas)
    BY <1>1, <2>1, AppendFacts DEF Request
  <2> QED  BY <1>1, <2>1, <2>2 DEF Request, saga, scanner
<1>2. CASE HandleRequest
  <2>1. requests' \in Seq(Sagas) /\ Head(requests) \in Sagas
    BY <1>2, TailFacts DEF HandleRequest
  <2>2. CASE status[Head(requests)] # "none"
    BY <1>2, <2>1, <2>2 DEF HandleRequest, saga, scanner
  <2>3. CASE status[Head(requests)] = "none"
    <3>0. PICK s \in Sagas :
            /\ status' = [status EXCEPT ![s] = "command_sent"]
            /\ attempts' = [attempts EXCEPT ![s] = 1]
            /\ next_retry' = [next_retry EXCEPT ![s] = retryDelay(1)]
            /\ deadline' = [deadline EXCEPT ![s] = Deadline]
            /\ Emit(<<s>>)
      BY <1>2, <2>1, <2>3, Zenon DEF HandleRequest
    <3>1. commands' \in Seq(Sagas)
      <4>1. <<s>> \in Seq(Sagas)
        OBVIOUS
      <4> QED  BY <3>0, <4>1, ConcatFacts DEF Emit
    <3>3. retryDelay(1) \in Nat
      BY DelayFacts, DelaysAssumption
    <3>4. status' \in [Sagas -> Statuses] /\ attempts' \in [Sagas -> Nat]
      BY <3>0 DEF Statuses
    <3>5. next_retry' \in [Sagas -> Nat] /\ deadline' \in [Sagas -> 0..Deadline]
      BY <3>0, <3>3
    <3> QED  BY <1>2, <2>1, <3>1, <3>4, <3>5 DEF HandleRequest, scanner
  <2> QED  BY <2>2, <2>3
<1>3. CASE HandleAck
  <2>1. acks' \in Seq(Acks) /\ Head(acks).saga \in Sagas
    <3>1. Tail(acks) \in Seq(Acks) /\ Head(acks) \in Acks
      BY <1>3, TailFacts DEF HandleAck
    <3> QED  BY <1>3, <3>1 DEF HandleAck, Acks
  <2>2. retryDelay(1) \in Nat
    BY DelayFacts, DelaysAssumption
  <2>3. status' \in [Sagas -> Statuses] /\ next_retry' \in [Sagas -> Nat]
    <3>1. PICK s \in Sagas : SuccessAck(s) \/ FailedAck(s)
      BY <1>3, <2>1 DEF HandleAck
    <3>2. CASE SuccessAck(s)
      BY <3>2 DEF SuccessAck, Statuses, Terminal
    <3>3. CASE FailedAck(s)
      <4>1. CASE status[s] \in Terminal
        BY <3>3, <4>1 DEF FailedAck
      <4>2. CASE status[s] \notin Terminal
        <5>1. PICK v \in {"failed", "retrying"} :
                status' = [status EXCEPT ![s] = v]
          BY <3>3, <4>2 DEF FailedAck
        <5>2. v \in Statuses
          BY <5>1 DEF Statuses, Terminal
        <5>3. status' \in [Sagas -> Statuses]
          BY <5>1, <5>2
        <5>4. next_retry' \in [Sagas -> Nat]
          BY <2>2, <3>3, <4>2 DEF FailedAck
        <5> QED  BY <5>3, <5>4
      <4> QED  BY <4>1, <4>2
    <3> QED  BY <3>1, <3>2, <3>3
  <2> QED  BY <1>3, <2>1, <2>3 DEF HandleAck, scanner
<1>4. CASE RetryDue
  <2>1. PICK D \in SUBSET Due \ {{}} :
          LET retried == D \ Expired(D) IN
            /\ status' = [s \in Sagas |-> IF s \in Expired(D) THEN "failed"
                                          ELSE IF s \in retried THEN "retrying"
                                          ELSE status[s]]
            /\ attempts' = [s \in Sagas |-> IF s \in retried THEN attempts[s] + 1
                                                             ELSE attempts[s]]
            /\ next_retry' = [s \in Sagas |-> IF s \in retried THEN NextRetry(s)
                                                               ELSE next_retry[s]]
            /\ \E batch \in SetToSeqs(retried) : Emit(batch)
            /\ UNCHANGED <<asked, overlapped, requests, deadline, scanner, acks, faults>>
    BY <1>4 DEF RetryDue
  <2>2. commands' \in Seq(Sagas)
    <3>1. PICK batch \in SetToSeqs(D \ Expired(D)) : Emit(batch)
      BY <2>1
    <3>2. batch \in Seq(Sagas)
      BY ActionsAssumption, BatchFacts DEF Due
    <3> QED  BY <3>1, <3>2, ConcatFacts DEF Emit
  <2>3. next_retry' \in [Sagas -> Nat]
    <3>1. ASSUME NEW s \in Sagas PROVE NextRetry(s) \in Nat
      <4>1. attempts[s] + 1 \in Nat
        OBVIOUS
      <4> QED  BY <4>1, DelayFacts, DelaysAssumption DEF NextRetry
    <3> QED  BY <2>1, <3>1
  <2>4. status' \in [Sagas -> Statuses] /\ attempts' \in [Sagas -> Nat]
    BY <2>1 DEF Statuses, Terminal
  <2> QED  BY <2>1, <2>2, <2>3, <2>4 DEF scanner
<1>5. CASE ApplyWatchCommand
  <2>1. commands' \in Seq(Sagas) /\ Head(commands) \in Sagas
    BY <1>5, TailFacts DEF ApplyWatchCommand
  <2>2. acks' \in Seq(Acks)
    BY <1>5, <2>1, AckFacts, AppendFacts DEF ApplyWatchCommand, Ack
  <2> QED  BY <1>5, <2>1, <2>2 DEF ApplyWatchCommand, saga
<1>6. CASE RejectWatchCommand
  <2>1. Tail(commands) \in Seq(Sagas) /\ Head(commands) \in Sagas
    BY <1>6, TailFacts DEF RejectWatchCommand
  <2>2. acks' \in Seq(Acks) /\ commands' \in Seq(Sagas)
    <3>1. Append(acks, [saga |-> Head(commands), type |-> "failed"]) \in Seq(Acks)
      BY <2>1, AckFacts, AppendFacts
    <3> QED  BY <1>6, <2>1, <3>1 DEF RejectWatchCommand, Ack
  <2> QED  BY <1>6, <2>1, <2>2 DEF RejectWatchCommand, saga
<1>7. CASE Disturb
  <2>1. requests' \in Seq(Sagas) /\ commands' \in Seq(Sagas) /\ acks' \in Seq(Acks)
    BY <1>7, DisturbedFacts DEF Disturb
  <2> QED  BY <1>7, <2>1 DEF Disturb, saga, scanner
<1>8. CASE Tick
  <2>1. next_retry' \in [Sagas -> Nat] /\ deadline' \in [Sagas -> 0..Deadline]
    <3>1. /\ next_retry' = [s \in Sagas |-> IF next_retry[s] > 0 THEN next_retry[s] - 1 ELSE 0]
          /\ deadline' = [s \in Sagas |-> IF deadline[s] > 0 THEN deadline[s] - 1 ELSE 0]
      BY <1>8, Zenon DEF Tick
    <3>2. next_retry' \in [Sagas -> Nat]
      BY <3>1
    <3>3. deadline' \in [Sagas -> 0..Deadline]
      BY <3>1
    <3> QED  BY <3>2, <3>3
  <2>2. UNCHANGED <<asked, overlapped, requests, status, attempts, commands, scanner, acks,
                    faults>>
    BY <1>8 DEF Tick
  <2> QED  BY <2>1, <2>2 DEF scanner
<1>9. CASE UNCHANGED vars
  BY <1>9 DEF vars, saga, scanner
<1> QED  BY <1>1, <1>2, <1>3, <1>4, <1>5, <1>6, <1>7, <1>8, <1>9 DEF Next

-----------------------------------------------------------------------------
\* Rows are never deleted, and what the scanner did stays done.
LEMMA Monotone ==
  TypeOK /\ [Next]_vars =>
    /\ \A s \in Sagas : status[s] # "none" => status'[s] # "none"
    /\ applied \subseteq applied'
<1> SUFFICES ASSUME TypeOK, [Next]_vars
             PROVE  /\ \A s \in Sagas : status[s] # "none" => status'[s] # "none"
                    /\ applied \subseteq applied'
  OBVIOUS
<1> USE DEF TypeOK
<1>1. CASE HandleRequest
  BY <1>1 DEF HandleRequest, saga, scanner
<1>2. CASE HandleAck
  BY <1>2 DEF HandleAck, SuccessAck, FailedAck, scanner
<1>3. CASE RetryDue
  BY <1>3 DEF RetryDue, scanner
<1>4. CASE Request \/ ApplyWatchCommand \/ RejectWatchCommand \/ Disturb \/ Tick \/ UNCHANGED vars
  BY <1>4 DEF Request, ApplyWatchCommand, RejectWatchCommand, Disturb, Tick, vars, saga, scanner
<1> QED  BY <1>1, <1>2, <1>3, <1>4 DEF Next

\* A command is written in the transaction that creates its row or finds it.
LEMMA CommandsStep ==
  TypeOK /\ CommandsAreKnown /\ [Next]_vars => CommandsAreKnown'
<1> SUFFICES ASSUME TypeOK, CommandsAreKnown, [Next]_vars PROVE CommandsAreKnown'
  OBVIOUS
<1> DEFINE known(t) == status'[t] # "none"
<1>0. /\ \A i \in 1..Len(commands) : commands[i] \in Sagas /\ status[commands[i]] # "none"
      /\ \A i \in 1..Len(commands) : known(commands[i])
  <2>1. \A i \in 1..Len(commands) : commands[i] \in Sagas /\ status[commands[i]] # "none"
    <3>1. commands \in Seq(Sagas)
      BY DEF TypeOK
    <3> QED  BY <3>1 DEF CommandsAreKnown
  <2> QED  BY <2>1, Monotone
<1>1. SUFFICES \A i \in 1..Len(commands') : known(commands'[i])
  BY DEF CommandsAreKnown
<1>2. ASSUME From(commands', commands) PROVE \A i \in 1..Len(commands') : known(commands'[i])
  BY <1>0, <1>2 DEF From
<1>3. ASSUME NEW batch \in Seq(Sagas), commands' = commands \o batch,
             \A i \in 1..Len(batch) : known(batch[i])
      PROVE  \A i \in 1..Len(commands') : known(commands'[i])
  <2>1. commands \in Seq(Sagas)
    BY DEF TypeOK
  <2> QED  BY <1>0, <1>3, <2>1, ConcatFacts
<1>4. ASSUME commands' = commands PROVE From(commands', commands)
  BY <1>4 DEF From
<1>5. CASE HandleRequest
  <2>1. Head(requests) \in Sagas
    BY <1>5, TailFacts DEF HandleRequest, TypeOK
  <2>2. CASE status[Head(requests)] # "none"
    BY <1>2, <1>4, <1>5, <2>2 DEF HandleRequest
  <2>3. CASE status[Head(requests)] = "none"
    <3>1. PICK s \in Sagas :
            status' = [status EXCEPT ![s] = "command_sent"] /\ Emit(<<s>>)
      BY <1>5, <2>1, <2>3, Zenon DEF HandleRequest
    <3>2. known(s)
      BY <3>1 DEF TypeOK
    <3>3. <<s>> \in Seq(Sagas) /\ \A i \in 1..Len(<<s>>) : known(<<s>>[i])
      BY <3>2
    <3> QED  BY <1>3, <3>1, <3>3, Zenon DEF Emit
  <2> QED  BY <2>2, <2>3
<1>6. CASE RetryDue
  <2>1. PICK D \in SUBSET Due \ {{}} :
          \E batch \in SetToSeqs(D \ Expired(D)) : Emit(batch)
    BY <1>6 DEF RetryDue
  <2>2. PICK batch \in SetToSeqs(D \ Expired(D)) : Emit(batch)
    BY <2>1
  <2>3. batch \in Seq(Sagas) /\ \A i \in 1..Len(batch) : batch[i] \in Due
    BY ActionsAssumption, BatchFacts DEF Due
  <2>4. \A t \in Due : known(t)
    BY Monotone DEF Due
  <2> HIDE DEF known
  <2> QED  BY <1>3, <2>2, <2>3, <2>4 DEF Emit
<1>7. CASE ApplyWatchCommand \/ RejectWatchCommand
  <2>1. commands' = Tail(commands) \/ commands' = commands
    BY <1>7 DEF ApplyWatchCommand, RejectWatchCommand
  <2>2. commands # <<>>
    BY <1>7 DEF ApplyWatchCommand, RejectWatchCommand
  <2> QED  BY <1>2, <1>4, <2>1, <2>2, TailFacts DEF TypeOK
<1>8. CASE Disturb
  <2>1. commands' \in Disturbed(commands) \/ commands' = commands
    BY <1>8 DEF Disturb
  <2> QED  BY <1>2, <1>4, <2>1, DisturbedFacts DEF TypeOK
<1>9. CASE Request \/ HandleAck \/ Tick \/ UNCHANGED vars
  BY <1>2, <1>4, <1>9 DEF Request, HandleAck, Tick, vars
<1> QED  BY <1>5, <1>6, <1>7, <1>8, <1>9 DEF Next

\* An ack is written in the transaction that carries its command out, and the
\* command it answers came from a row.
LEMMA AcksStep ==
  TypeOK /\ CommandsAreKnown /\ NoPoisonAck /\ AcksAreEarned /\ [Next]_vars
    => NoPoisonAck' /\ AcksAreEarned'
<1> SUFFICES ASSUME TypeOK, CommandsAreKnown, NoPoisonAck, AcksAreEarned, [Next]_vars
             PROVE  NoPoisonAck' /\ AcksAreEarned'
  OBVIOUS
<1> DEFINE good(a) == /\ status'[a.saga] # "none"
                      /\ a.type \in {AckType(Actions[a.saga]), "failed"}
                      /\ a.type \in {"started", "stopped"} => a.saga \in applied'
<1>0. \A i \in 1..Len(acks) : good(acks[i])
  <2>1. \A i \in 1..Len(acks) :
          /\ acks[i].saga \in Sagas
          /\ status[acks[i].saga] # "none"
          /\ acks[i].type \in {AckType(Actions[acks[i].saga]), "failed"}
          /\ acks[i].type \in {"started", "stopped"} => acks[i].saga \in applied
    <3>1. \A i \in 1..Len(acks) : acks[i] \in Acks
      BY DEF TypeOK
    <3>2. \A i \in 1..Len(acks) : acks[i].saga \in Sagas
      BY <3>1 DEF Acks
    <3> QED  BY <3>2, Zenon DEF NoPoisonAck, AcksAreEarned
  <2> QED  BY <2>1, Monotone
<1>1. SUFFICES \A i \in 1..Len(acks') : good(acks'[i])
  BY DEF NoPoisonAck, AcksAreEarned
<1>2. ASSUME From(acks', acks) PROVE \A i \in 1..Len(acks') : good(acks'[i])
  BY <1>0, <1>2 DEF From
<1>3. ASSUME NEW a \in Acks, acks' = Append(acks, a), good(a)
      PROVE  \A i \in 1..Len(acks') : good(acks'[i])
  <2>1. acks \in Seq(Acks)
    BY DEF TypeOK
  <2> HIDE DEF good
  <2> QED  BY <1>0, <1>3, <2>1, AppendFacts
<1>4. ASSUME acks' = acks PROVE From(acks', acks)
  BY <1>4 DEF From
<1>5. ASSUME commands # <<>>
      PROVE  Head(commands) \in Sagas /\ status'[Head(commands)] # "none"
  <2>1. Head(commands) \in Sagas /\ status[Head(commands)] # "none"
    BY <1>5, TailFacts DEF TypeOK, CommandsAreKnown
  <2> QED  BY <2>1, Monotone
<1>6. CASE ApplyWatchCommand
  <2> DEFINE s == Head(commands)
  <2> DEFINE a == [saga |-> s, type |-> AckType(Actions[s])]
  <2>1. s \in Sagas /\ status'[s] # "none" /\ s \in applied' /\ acks' = Append(acks, a)
    BY <1>5, <1>6 DEF ApplyWatchCommand, Ack
  <2>2. a \in Acks /\ good(a)
    BY <2>1, AckFacts
  <2> QED  BY <1>3, <2>1, <2>2
<1>7. CASE RejectWatchCommand
  <2> DEFINE a == [saga |-> Head(commands), type |-> "failed"]
  <2>1. Head(commands) \in Sagas /\ status'[Head(commands)] # "none"
    BY <1>5, <1>7 DEF RejectWatchCommand
  <2>2. acks' = acks \/ acks' = Append(acks, a)
    BY <1>7 DEF RejectWatchCommand, Ack
  <2>3. a \in Acks /\ good(a)
    BY <2>1, AckFacts
  <2> QED  BY <1>2, <1>3, <1>4, <2>2, <2>3
<1>8. CASE HandleAck
  BY <1>2, <1>8, TailFacts DEF HandleAck, TypeOK
<1>9. CASE Disturb
  <2>1. acks' \in Disturbed(acks) \/ acks' = acks
    BY <1>9 DEF Disturb
  <2> QED  BY <1>2, <1>4, <2>1, DisturbedFacts DEF TypeOK
<1>10. CASE Request \/ HandleRequest \/ RetryDue \/ Tick \/ UNCHANGED vars
  BY <1>2, <1>4, <1>10 DEF Request, HandleRequest, RetryDue, Tick, vars
<1> QED  BY <1>6, <1>7, <1>8, <1>9, <1>10 DEF Next

\* Only a success ack completes a saga.
LEMMA CompletedStep ==
  IInv /\ [Next]_vars => CompletedIsApplied'
<1> SUFFICES ASSUME IInv, [Next]_vars PROVE CompletedIsApplied'
  OBVIOUS
<1>0. TypeOK /\ applied \subseteq applied'
  BY Monotone DEF IInv
<1>1. ASSUME \A s \in Sagas : status'[s] = "completed" => status[s] = "completed" \/ s \in applied
      PROVE  CompletedIsApplied'
  BY <1>0, <1>1 DEF CompletedIsApplied, IInv
<1>2. CASE HandleAck
  <2> DEFINE ack == Head(acks)
  <2>1. ack \in Acks /\ ack.saga \in Sagas /\ 1 \in 1..Len(acks) /\ ack = acks[1]
    <3>1. ack \in Acks /\ 1 \in 1..Len(acks) /\ ack = acks[1]
      BY <1>0, <1>2, TailFacts DEF HandleAck, TypeOK
    <3> QED  BY <3>1 DEF Acks
  <2>2. CASE ack.type = AckType(Actions[ack.saga]) /\ SuccessAck(ack.saga)
    <3>1. ack.saga \in applied
      BY <2>1, <2>2, AckFacts DEF IInv, AcksAreEarned
    <3> QED  BY <1>0, <1>1, <2>2, <3>1 DEF SuccessAck, TypeOK
  <2>3. CASE ack.type = "failed" /\ FailedAck(ack.saga)
    BY <1>0, <1>1, <2>3 DEF FailedAck, TypeOK
  <2> QED  BY <1>2, <2>2, <2>3 DEF HandleAck
<1>3. CASE HandleRequest
  BY <1>0, <1>1, <1>3 DEF HandleRequest, saga, TypeOK
<1>4. CASE RetryDue
  BY <1>0, <1>1, <1>4 DEF RetryDue, TypeOK
<1>5. CASE Request \/ ApplyWatchCommand \/ RejectWatchCommand \/ Disturb \/ Tick \/ UNCHANGED vars
  BY <1>1, <1>5
     DEF Request, ApplyWatchCommand, RejectWatchCommand, Disturb, Tick, vars, saga
<1> QED  BY <1>2, <1>3, <1>4, <1>5 DEF Next

LEMMA InitIInv == Init => IInv
<1> SUFFICES ASSUME Init PROVE IInv
  OBVIOUS
<1>1. Len(Actions) \in Nat
  BY ActionsAssumption
<1>2. TypeOK
  <2>1. status \in [Sagas -> Statuses] /\ asked \in 0..Len(Actions)
    BY <1>1 DEF Init, Statuses
  <2>2. requests \in Seq(Sagas) /\ commands \in Seq(Sagas) /\ acks \in Seq(Acks)
    BY DEF Init
  <2>3. /\ attempts \in [Sagas -> Nat]
        /\ next_retry \in [Sagas -> Nat] /\ deadline \in [Sagas -> 0..Deadline]
    BY BoundsAssumption DEF Init
  <2>4. applied \subseteq Sagas /\ rejected \subseteq Sagas /\ faults \in 0..MaxFaults
    BY BoundsAssumption DEF Init
  <2>5. watched \in BOOLEAN /\ overlapped \in BOOLEAN
    BY Zenon DEF Init
  <2> QED  BY <2>1, <2>2, <2>3, <2>4, <2>5 DEF TypeOK
<1>3. CommandsAreKnown /\ NoPoisonAck /\ AcksAreEarned
  BY DEF Init, CommandsAreKnown, NoPoisonAck, AcksAreEarned
<1>4. CompletedIsApplied
  BY DEF Init, CompletedIsApplied
<1> QED  BY <1>2, <1>3, <1>4 DEF IInv

-----------------------------------------------------------------------------
\* The rows, channels and histories of the saga keep their types.
THEOREM TypeCorrect == Spec => []TypeOK
<1>1. Init => TypeOK
  BY InitIInv DEF IInv
<1> QED  BY <1>1, TypeStep, PTL DEF Spec

\* The invariant is inductive.
THEOREM Invariant == Spec => []IInv
<1>1. IInv /\ [Next]_vars => IInv'
  BY TypeStep, CommandsStep, AcksStep, CompletedStep DEF IInv
<1> QED  BY <1>1, InitIInv, PTL DEF Spec

\* A saga that HandleAck marked completed has had its command carried out by
\* the scanner, for any number of duplicates, reorderings and retries.
THEOREM CompletedHasEffect == Spec => []CompletedIsApplied
<1>1. IInv => CompletedIsApplied
  BY DEF IInv
<1> QED  BY <1>1, Invariant, PTL

\* HandleAck returns no error for any ack that can reach it, so no ack stops
\* the orchestrator's consumer.
THEOREM AcksAreHandled == Spec => []NoPoisonAck
<1>1. IInv => NoPoisonAck
  BY DEF IInv
<1> QED  BY <1>1, Invariant, PTL

\* handleSuccessAck, handleFailedAck and RetryDue leave a settled row alone.
THEOREM SettledIsFinal == Spec => SettledForGood
<1>1. TypeOK /\ [Next]_vars =>
        [\A s \in Sagas : status[s] \in Terminal => status'[s] = status[s]]_vars
  <2> SUFFICES ASSUME TypeOK, [Next]_vars, NEW s \in Sagas, status[s] \in Terminal
               PROVE  status'[s] = status[s]
    OBVIOUS
  <2> USE DEF TypeOK, Terminal
  <2>1. CASE HandleRequest
    BY <2>1 DEF HandleRequest, saga
  <2>2. CASE HandleAck
    BY <2>2 DEF HandleAck, SuccessAck, FailedAck
  <2>3. CASE RetryDue
    <3>1. PICK D \in SUBSET Due :
            status' = [t \in Sagas |-> IF t \in Expired(D) THEN "failed"
                                       ELSE IF t \in D \ Expired(D) THEN "retrying"
                                       ELSE status[t]]
      BY <2>3 DEF RetryDue
    <3>2. s \notin D
      BY DEF Due
    <3>3. s \notin Expired(D)
      BY <3>2 DEF Expired
    <3> QED  BY <3>1, <3>2, <3>3
  <2>4. CASE Request \/ ApplyWatchCommand \/ RejectWatchCommand \/ Disturb \/ Tick \/ UNCHANGED vars
    BY <2>4 DEF Request, ApplyWatchCommand, RejectWatchCommand, Disturb, Tick, vars, saga
  <2> QED  BY <2>1, <2>2, <2>3, <2>4 DEF Next
<1> QED  BY <1>1, TypeCorrect, PTL DEF Spec, SettledForGood

-----------------------------------------------------------------------------
\* What SagaContract sees of the state, and a move of one saga in it.
stages == [s \in Sagas |-> Stage(s)]

LEMMA StageMoves ==
  ASSUME status \in [Sagas -> Statuses], NEW s \in Sagas, NEW to \in Statuses,
         status' = [status EXCEPT ![s] = to]
  PROVE  stages' = [stages EXCEPT ![s] =
                      IF to \in {"command_sent", "retrying"} THEN "open" ELSE to]
  BY DEF stages, Stage

LEMMA StagesStay ==
  ASSUME status' = status
  PROVE  stages' = stages
  BY DEF stages, Stage

\* The orchestrator (HandleRequest, HandleAck, RetryDue) and the scanner
\* (ApplyWatchCommand) together keep the promise of SagaContract: a saga is
\* opened once and settled once, as completed only if it was carried out, and
\* the watchlist changes only when an opened saga is carried out.
THEOREM ImplementsContract == Spec => ContractSafety
<1>1. Init => Contract!ContractInit
  BY DEF Init, Contract!ContractInit, Stage
<1>2. IInv /\ [Next]_vars => [Contract!ContractNext]_<<stages, applied, watched>>
  <2> SUFFICES ASSUME IInv, [Next]_vars
               PROVE  [Contract!ContractNext]_<<stages, applied, watched>>
    OBVIOUS
  <2>t. /\ status \in [Sagas -> Statuses] /\ requests \in Seq(Sagas)
        /\ commands \in Seq(Sagas) /\ acks \in Seq(Acks)
    BY DEF IInv, TypeOK
  <2>g. \A s \in Sagas : stages[s] = Stage(s)
    BY DEF stages
  <2>1. CASE HandleRequest
    <3>1. UNCHANGED <<applied, watched>> /\ requests # <<>>
      BY <2>1 DEF HandleRequest, scanner
    <3> DEFINE s == Head(requests)
    <3>2. s \in Sagas
      BY <2>t, <3>1, TailFacts
    <3>3. CASE status[s] # "none"
      BY <2>1, <3>1, <3>3, StagesStay DEF HandleRequest, saga
    <3>4. CASE status[s] = "none"
      <4>1. status' = [status EXCEPT ![s] = "command_sent"]
        BY <2>1, <3>4 DEF HandleRequest
      <4>2. stages' = [stages EXCEPT ![s] = "open"]
        BY <2>t, <3>2, <4>1, StageMoves DEF Statuses
      <4>3. stages[s] = "none"
        BY <2>g, <3>2, <3>4 DEF Stage
      <4>4. Contract!Open(s)
        BY <3>1, <4>2, <4>3 DEF Contract!Open, stages
      <4> QED  BY <3>2, <4>4 DEF Contract!ContractNext
    <3> QED  BY <3>3, <3>4
  <2>2. CASE HandleAck
    <3>1. UNCHANGED <<applied, watched>> /\ acks # <<>>
      BY <2>2 DEF HandleAck, scanner
    <3> DEFINE ack == Head(acks)
               s == ack.saga
    <3>2. /\ s \in Sagas /\ status[s] # "none"
          /\ ack.type \in {"started", "stopped"} => s \in applied
      <4>1. ack \in Acks /\ 1 \in 1..Len(acks) /\ ack = acks[1]
        BY <2>t, <3>1, TailFacts
      <4>2. ack.type \in {"started", "stopped"} => s \in applied
        BY <4>1 DEF IInv, AcksAreEarned
      <4>3. s \in Sagas
        BY <4>1 DEF Acks
      <4> QED  BY <2>2, <4>2, <4>3 DEF HandleAck
    <3>3. \/ ack.type = AckType(Actions[s]) /\ SuccessAck(s)
          \/ ack.type = "failed" /\ FailedAck(s)
      BY <2>2 DEF HandleAck
    <3> HIDE DEF ack
    <3>4. status[s] \in Statuses /\ status = [status EXCEPT ![s] = status[s]]
      BY <2>t, <3>2
    <3>5. CASE status[s] \in Terminal
      <4>1. status' = status
        BY <3>3, <3>4, <3>5 DEF SuccessAck, FailedAck
      <4> QED  BY <3>1, <4>1, StagesStay
    <3>6. CASE status[s] \notin Terminal
      <4>1. stages[s] = "open"
        BY <2>g, <3>2, <3>4, <3>6 DEF Stage, Statuses, Terminal
      <4>2. CASE ack.type = AckType(Actions[s]) /\ SuccessAck(s)
        <5>1. status' = [status EXCEPT ![s] = "completed"] /\ s \in applied
          BY <3>2, <3>6, <4>2 DEF SuccessAck, AckType
        <5>2. stages' = [stages EXCEPT ![s] = "completed"]
          BY <2>t, <3>2, <5>1, StageMoves DEF Statuses, Terminal
        <5>3. Contract!Complete(s)
          BY <3>1, <4>1, <5>1, <5>2 DEF Contract!Complete, stages
        <5> QED  BY <3>2, <5>3 DEF Contract!ContractNext
      <4>3. CASE FailedAck(s) /\ deadline[s] = 0
        <5>1. status' = [status EXCEPT ![s] = "failed"]
          BY <3>6, <4>3 DEF FailedAck
        <5>2. stages' = [stages EXCEPT ![s] = "failed"]
          BY <2>t, <3>2, <5>1, StageMoves DEF Statuses, Terminal
        <5>3. stages' = [r \in Sagas |-> IF r \in {s} THEN "failed" ELSE stages[r]]
          BY <5>2, <3>2 DEF stages
        <5>4. Contract!GiveUp({s})
          BY <3>1, <4>1, <5>3 DEF Contract!GiveUp, stages
        <5> QED  BY <3>2, <5>4 DEF Contract!ContractNext
      <4>4. CASE FailedAck(s) /\ deadline[s] # 0
        <5>1. status' = [status EXCEPT ![s] = "retrying"]
          BY <3>6, <4>4 DEF FailedAck
        <5>2. stages' = [stages EXCEPT ![s] = "open"]
          BY <2>t, <3>2, <5>1, StageMoves DEF Statuses
        <5>3. stages' = stages
          BY <3>2, <4>1, <5>2 DEF stages
        <5> QED  BY <3>1, <5>3
      <4> QED  BY <3>3, <4>2, <4>3, <4>4
    <3> QED  BY <3>5, <3>6
  <2>3. CASE RetryDue
    <3>1. PICK D \in SUBSET Due :
            status' = [s \in Sagas |-> IF s \in Expired(D) THEN "failed"
                                       ELSE IF s \in D \ Expired(D) THEN "retrying"
                                       ELSE status[s]]
      BY <2>3 DEF RetryDue
    <3>2. UNCHANGED <<applied, watched>>
      BY <2>3 DEF RetryDue, scanner
    <3>3. Expired(D) \subseteq D /\ \A s \in D : s \in Sagas /\ status[s] \in {"command_sent", "retrying"}
      BY <3>1 DEF Due, Expired
    <3> DEFINE E == Expired(D)
    <3>4. \A s \in D : stages[s] = "open"
      BY <2>g, <3>3 DEF Stage
    <3> HIDE DEF E
    <3>5. ASSUME NEW s \in Sagas
          PROVE  stages'[s] = IF s \in E THEN "failed" ELSE stages[s]
      <4>1. stages'[s] = Stage(s)'
        BY DEF stages
      <4>2. CASE s \in E
        BY <3>1, <4>1, <4>2 DEF Stage, E
      <4>3. CASE s \in D \ E
        BY <3>1, <3>4, <4>1, <4>3 DEF Stage, E
      <4>4. CASE s \notin D /\ s \notin E
        BY <3>1, <2>g, <4>1, <4>4 DEF Stage, E
      <4> QED  BY <4>2, <4>3, <4>4
    <3>6. stages' = [s \in Sagas |-> IF s \in E THEN "failed" ELSE stages[s]]
      BY <3>5 DEF stages
    <3>7. E \in SUBSET Sagas /\ \A s \in E : stages[s] = "open"
      BY <3>3, <3>4 DEF E
    <3>8. Contract!GiveUp(E)
      BY <3>2, <3>6, <3>7 DEF Contract!GiveUp, stages
    <3> QED  BY <3>7, <3>8 DEF Contract!ContractNext
  <2>4. CASE ApplyWatchCommand
    <3>1. commands # <<>> /\ status' = status
      BY <2>4 DEF ApplyWatchCommand, saga
    <3> DEFINE s == Head(commands)
    <3>2. s \in Sagas /\ status[s] # "none"
      BY <2>t, <3>1, TailFacts DEF IInv, CommandsAreKnown
    <3>3. stages[s] # "none" /\ stages' = stages
      BY <2>g, <3>1, <3>2, StagesStay DEF Stage
    <3>4. watched' = (Actions[s] = "start") /\ applied' = applied \union {s}
      BY <2>4 DEF ApplyWatchCommand
    <3> HIDE DEF s
    <3>5. Contract!CarryOut(s)
      BY <3>2, <3>3, <3>4 DEF Contract!CarryOut, stages
    <3> QED  BY <3>2, <3>5 DEF Contract!ContractNext
  <2>5. CASE Request \/ RejectWatchCommand \/ Disturb \/ Tick \/ UNCHANGED vars
    <3>1. UNCHANGED <<status, applied, watched>>
      BY <2>5 DEF Request, RejectWatchCommand, Disturb, Tick, vars, saga, scanner
    <3> QED  BY <3>1, StagesStay
  <2> QED  BY <2>1, <2>2, <2>3, <2>4, <2>5 DEF Next
<1>3. ContractSafety <=>
        Contract!ContractInit /\ [][Contract!ContractNext]_<<stages, applied, watched>>
  BY DEF ContractSafety, Contract!ContractSafety, Contract!contractVars, stages
<1> QED  BY <1>1, <1>2, <1>3, Invariant, PTL DEF Spec

-----------------------------------------------------------------------------
\* As long as every request came after the one before had settled: all that is
\* under way is about the last one, those before it are over, and once the
\* scanner has carried the last one out the watchlist is as it asks.
LastOnly ==
  ~overlapped =>
    /\ \A i \in 1..Len(requests) : requests[i] = asked
    /\ \A i \in 1..Len(commands) : commands[i] = asked
    /\ \A s \in Sagas : s < asked => status[s] \in Terminal
    /\ \A s \in Sagas : s > asked => status[s] = "none" /\ s \notin applied
    /\ asked \in applied => watched = (Actions[asked] = "start")

LEMMA LastOnlyStep ==
  ASSUME TypeOK, LastOnly, [Next]_vars
  PROVE  LastOnly'
<1> SUFFICES ASSUME ~overlapped'
             PROVE  /\ \A i \in 1..Len(requests') : requests'[i] = asked'
                    /\ \A i \in 1..Len(commands') : commands'[i] = asked'
                    /\ \A s \in Sagas : s < asked' => status'[s] \in Terminal
                    /\ \A s \in Sagas : s > asked' => status'[s] = "none" /\ s \notin applied'
                    /\ asked' \in applied' => watched' = (Actions[asked'] = "start")
  BY DEF LastOnly
<1>a. Len(Actions) \in Nat /\ asked \in Nat /\ \A s \in Sagas : s \in Nat \ {0}
  BY ActionsAssumption DEF TypeOK, Sagas
<1>t. /\ requests \in Seq(Sagas) /\ commands \in Seq(Sagas) /\ status \in [Sagas -> Statuses]
      /\ overlapped \in BOOLEAN
  BY DEF TypeOK
<1>o. ~overlapped
  <2>1. CASE Request
    BY <1>t, <2>1 DEF Request
  <2>2. CASE ~Request
    BY <2>2 DEF Next, HandleRequest, HandleAck, RetryDue, ApplyWatchCommand,
                RejectWatchCommand, Disturb, Tick, vars
  <2> QED  BY <2>1, <2>2
<1>r. \A i \in 1..Len(requests) : requests[i] = asked
  BY <1>o DEF LastOnly
<1>c. \A i \in 1..Len(commands) : commands[i] = asked
  BY <1>o DEF LastOnly
<1>b. \A s \in Sagas : s < asked => status[s] \in Terminal
  BY <1>o DEF LastOnly
<1>f. \A s \in Sagas : s > asked => status[s] = "none" /\ s \notin applied
  BY <1>o DEF LastOnly
<1>w. asked \in applied => watched = (Actions[asked] = "start")
  BY <1>o DEF LastOnly
<1>R. ASSUME From(requests', requests), asked' = asked
      PROVE  \A i \in 1..Len(requests') : requests'[i] = asked'
  BY <1>r, <1>R DEF From
<1>C. ASSUME From(commands', commands), asked' = asked
      PROVE  \A i \in 1..Len(commands') : commands'[i] = asked'
  BY <1>c, <1>C DEF From
<1>D. ASSUME NEW batch \in Seq(Sagas), commands' = commands \o batch, asked' = asked,
             \A i \in 1..Len(batch) : batch[i] = asked
      PROVE  \A i \in 1..Len(commands') : commands'[i] = asked'
  BY <1>t, <1>c, <1>D, ConcatFacts
<1>s. ASSUME NEW x PROVE From(x, x)
  BY DEF From
<1>1. CASE Request
  <2>1. /\ asked' = asked + 1 /\ requests' = Append(requests, asked + 1) /\ Settled
        /\ UNCHANGED <<status, commands, watched, applied>> /\ asked < Len(Actions)
    BY <1>1 DEF Request, saga, scanner
  <2>2. requests = <<>> /\ commands = <<>> /\ \A s \in 1..asked : status[s] \in Terminal
    BY <2>1 DEF Settled
  <2>3. asked + 1 \in Sagas
    BY <1>a, <2>1 DEF Sagas
  <2>4. requests' = <<asked + 1>> /\ commands' = <<>>
    BY <2>1, <2>2
  <2>5. \A i \in 1..Len(requests') : requests'[i] = asked'
    BY <2>1, <2>4
  <2>6. \A i \in 1..Len(commands') : commands'[i] = asked'
    BY <2>4
  <2>7. \A s \in Sagas : s < asked' => status'[s] \in Terminal
    BY <1>a, <2>1, <2>2
  <2>8. \A s \in Sagas : s > asked' => status'[s] = "none" /\ s \notin applied'
    BY <1>a, <1>f, <2>1
  <2>9. asked' \notin applied'
    BY <1>a, <1>f, <2>1, <2>3
  <2> QED  BY <2>5, <2>6, <2>7, <2>8, <2>9
<1>2. CASE HandleRequest
  <2>1. /\ requests # <<>> /\ requests' = Tail(requests)
        /\ UNCHANGED <<asked, watched, applied>>
    BY <1>2 DEF HandleRequest, scanner
  <2>2. From(requests', requests) /\ Head(requests) = asked /\ asked \in Sagas
    BY <1>t, <1>r, <2>1, TailFacts
  <2>3. CASE status[asked] # "none"
    <3>1. UNCHANGED <<status, commands>>
      BY <1>2, <2>2, <2>3 DEF HandleRequest, saga
    <3> QED  BY <1>R, <1>c, <1>b, <1>f, <1>w, <2>1, <2>2, <3>1
  <2>4. CASE status[asked] = "none"
    <3>1. status' = [status EXCEPT ![asked] = "command_sent"] /\ commands' = commands \o <<asked>>
      BY <1>2, <2>2, <2>4 DEF HandleRequest, Emit
    <3>2. \A s \in Sagas : s # asked => status'[s] = status[s]
      BY <1>t, <3>1
    <3>3. \A s \in Sagas : s < asked => status'[s] \in Terminal
      BY <1>a, <1>b, <3>2
    <3>4. \A s \in Sagas : s > asked => status'[s] = "none" /\ s \notin applied'
      BY <1>a, <1>f, <2>1, <3>2
    <3>5. <<asked>> \in Seq(Sagas) /\ \A i \in 1..Len(<<asked>>) : <<asked>>[i] = asked
      BY <2>2
    <3>6. \A i \in 1..Len(commands') : commands'[i] = asked'
      BY <1>D, <2>1, <3>1, <3>5
    <3> QED  BY <1>R, <1>w, <2>1, <2>2, <3>3, <3>4, <3>6
  <2> QED  BY <2>3, <2>4
<1>3. CASE HandleAck
  <2>1. UNCHANGED <<asked, requests, commands, watched, applied>>
    BY <1>3 DEF HandleAck, scanner
  <2>2. \A s \in Sagas : status[s] \in Terminal \union {"none"} => status'[s] = status[s]
    BY <1>3, <1>t DEF HandleAck, SuccessAck, FailedAck, Terminal
  <2>3. \A s \in Sagas : s < asked => status'[s] \in Terminal
    BY <1>b, <2>2
  <2>4. \A s \in Sagas : s > asked => status'[s] = "none" /\ s \notin applied'
    BY <1>f, <2>1, <2>2
  <2> QED  BY <1>r, <1>c, <1>w, <2>1, <2>3, <2>4
<1>4. CASE RetryDue
  <2>1. PICK D \in SUBSET Due \ {{}} :
          /\ status' = [s \in Sagas |-> IF s \in Expired(D) THEN "failed"
                                        ELSE IF s \in D \ Expired(D) THEN "retrying"
                                        ELSE status[s]]
          /\ \E batch \in SetToSeqs(D \ Expired(D)) : Emit(batch)
          /\ UNCHANGED <<asked, requests, watched, applied>>
    BY <1>4 DEF RetryDue, scanner
  <2>2. \A s \in Due : s \in Sagas /\ s = asked
    BY <1>a, <1>b, <1>f DEF Due, Terminal
  <2>3. \A s \in Sagas : s # asked => status'[s] = status[s]
    BY <2>1, <2>2 DEF Expired
  <2>4. PICK batch \in SetToSeqs(D \ Expired(D)) : Emit(batch)
    BY <2>1
  <2>5. batch \in Seq(Sagas) /\ \A i \in 1..Len(batch) : batch[i] \in D \ Expired(D)
    BY <2>2, ActionsAssumption, BatchFacts
  <2>6. \A i \in 1..Len(commands') : commands'[i] = asked'
    BY <1>D, <2>1, <2>2, <2>4, <2>5 DEF Emit
  <2>7. \A s \in Sagas : s < asked => status'[s] \in Terminal
    BY <1>a, <1>b, <2>3
  <2>8. \A s \in Sagas : s > asked => status'[s] = "none" /\ s \notin applied'
    BY <1>a, <1>f, <2>1, <2>3
  <2> QED  BY <1>r, <1>w, <2>1, <2>6, <2>7, <2>8
<1>5. CASE ApplyWatchCommand
  <2>1. /\ commands # <<>> /\ commands' = Tail(commands)
        /\ UNCHANGED <<asked, requests, status>>
    BY <1>5 DEF ApplyWatchCommand, saga
  <2>2. From(commands', commands) /\ Head(commands) = asked
    BY <1>t, <1>c, <2>1, TailFacts
  <2>3. watched' = (Actions[asked] = "start") /\ applied' = applied \union {asked}
    BY <1>5, <2>2 DEF ApplyWatchCommand
  <2>4. \A s \in Sagas : s > asked => s \notin applied'
    BY <1>a, <1>f, <2>3
  <2> QED  BY <1>r, <1>b, <1>f, <1>C, <2>1, <2>2, <2>3, <2>4
<1>6. CASE RejectWatchCommand
  <2>1. /\ commands # <<>> /\ commands' \in {Tail(commands), commands}
        /\ UNCHANGED <<asked, requests, status, watched, applied>>
    BY <1>6 DEF RejectWatchCommand, saga
  <2>2. From(commands', commands)
    BY <1>s, <1>t, <2>1, TailFacts
  <2> QED  BY <1>r, <1>b, <1>f, <1>w, <1>C, <2>1, <2>2
<1>7. CASE Disturb
  <2>1. UNCHANGED <<asked, status, watched, applied>>
    BY <1>7 DEF Disturb, saga, scanner
  <2>2. From(requests', requests) /\ From(commands', commands)
    BY <1>7, <1>s, <1>t, DisturbedFacts DEF Disturb
  <2> QED  BY <1>b, <1>f, <1>w, <1>R, <1>C, <2>1, <2>2
<1>8. CASE Tick \/ UNCHANGED vars
  <2>1. UNCHANGED <<asked, requests, commands, status, watched, applied>>
    BY <1>8 DEF Tick, vars, saga, scanner
  <2> QED  BY <1>r, <1>c, <1>b, <1>f, <1>w, <2>1
<1> QED  BY <1>1, <1>2, <1>3, <1>4, <1>5, <1>6, <1>7, <1>8 DEF Next

\* ADR-006 where requests keep their distance: HandleRequest, HandleAck,
\* RetryDue and ApplyWatchCommand leave the watchlist as the last request asked
\* for, for any number of requests, repeated or overtaken messages and retries.
THEOREM Synchronized == Spec => []SpacedIsSynchronized
<1>1. Init => LastOnly
  BY ActionsAssumption DEF Init, LastOnly, Sagas
<1>2. TypeOK /\ LastOnly /\ [Next]_vars => LastOnly'
  BY LastOnlyStep
<1>3. IInv /\ LastOnly => SpacedIsSynchronized
  <2> SUFFICES ASSUME IInv, LastOnly, ~overlapped, asked > 0, status[asked] = "completed"
               PROVE  watched = (Actions[asked] = "start")
    BY DEF SpacedIsSynchronized, WatchlistSynchronized, IInv, TypeOK
  <2>1. asked \in Sagas
    BY ActionsAssumption DEF IInv, TypeOK, Sagas
  <2>2. asked \in applied
    BY <2>1 DEF IInv, CompletedIsApplied
  <2> QED  BY <2>2 DEF LastOnly
<1> QED  BY <1>1, <1>2, <1>3, TypeCorrect, Invariant, PTL DEF Spec
=============================================================================
