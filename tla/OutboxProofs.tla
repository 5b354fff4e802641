---------------------------- MODULE OutboxProofs ----------------------------
(***************************************************************************)
(* Theorems about Outbox, for any set of events and relays, any batch size *)
(* and any lease.  IInv is the inductive invariant: the safety properties  *)
(* plus what ties a relay's hands to the row and to the topic.             *)
(***************************************************************************)
EXTENDS Outbox, TLAPS

\* A relay at "published" holds an event the broker has.
MarkedIsInTopic == \A r \in Relays : pc[r] = "published" => InTopic(cur[r])

\* Two relays at work on one row, or a relay without a live lease, or with a
\* row that is already published: the row was disturbed.
HoldingIsLeased ==
  \A r \in Relays : \A e \in Holding(r) \ disturbed :
    /\ lease[e] > 0
    /\ e \notin published

\* An event in the topic that was not disturbed is published or being marked.
InTopicIsSettled ==
  \A e \in Events \ disturbed :
    InTopic(e) => \/ e \in published
                  \/ \E r \in Relays : pc[r] = "published" /\ cur[r] = e

\* A relay stops publishing its batch while it marks a failure or is down.
StageOK ==
  \A r \in Relays : pc[r] \in {"failed", "down"} => batch[r] = {}

\* A failed event was disturbed, and a relay never holds one event twice.
CurOK ==
  \A r \in Relays : /\ pc[r] = "failed" => cur[r] \in disturbed
                    /\ pc[r] = "published" => cur[r] \notin batch[r]

\* The event a relay is about to mark was stored.
CurStored == \A r \in Relays : pc[r] \in {"published", "failed"} => cur[r] \in stored

IInv ==
  /\ TypeOK
  /\ CurStored
  /\ StageOK
  /\ CurOK
  /\ MarkedIsInTopic
  /\ PublishedIsInTopic
  /\ HoldingIsLeased
  /\ ExclusiveUnlessDisturbed
  /\ InTopicIsSettled
  /\ DuplicateHasCause

-----------------------------------------------------------------------------
\* Append extends the log by one place and keeps the others.
LEMMA AppendFacts ==
  ASSUME NEW S, NEW s \in Seq(S), NEW x \in S
  PROVE  /\ Append(s, x) \in Seq(S)
         /\ Len(Append(s, x)) = Len(s) + 1
         /\ \A i \in 1..Len(s) : Append(s, x)[i] = s[i]
         /\ Append(s, x)[Len(s) + 1] = x
  OBVIOUS

\* The elements of a sequence stay inside a larger set.
LEMMA SeqWiden ==
  ASSUME NEW S, NEW T, S \subseteq T, NEW s \in Seq(S)
  PROVE  s \in Seq(T)
  OBVIOUS

\* Type correctness is inductive by itself: rows, leases, hands and the topic
\* only ever hold events that some transaction committed.
LEMMA TypeStep == TypeOK /\ CurStored /\ [Next]_vars => TypeOK' /\ CurStored'
<1> SUFFICES ASSUME TypeOK, CurStored, [Next]_vars PROVE TypeOK' /\ CurStored'
  OBVIOUS
<1> USE RelaysAssumption, LeaseAssumption, FaultsAssumption DEF TypeOK, CurStored, rowVars, relayVars, Stages
<1>1. ASSUME NEW e \in Events, InsertTx(e) PROVE TypeOK' /\ CurStored'
  <2>1. log \in Seq(stored')
    BY <1>1, SeqWiden DEF InsertTx
  <2> QED  BY <1>1, <2>1 DEF InsertTx
<1>2. ASSUME NEW r \in Relays, FetchUnpublished(r) PROVE TypeOK' /\ CurStored'
  <2>1. PICK skipped \in SUBSET MaybeLocked(r) :
           batch' = [batch EXCEPT ![r] = FirstOf(Candidates \ skipped)]
    BY <1>2 DEF FetchUnpublished
  <2>2. FirstOf(Candidates \ skipped) \subseteq stored
    BY DEF FirstOf, Candidates
  <2>3. batch' \in [Relays -> SUBSET stored]
    BY <2>1, <2>2
  <2>4. lease' \in [Events -> 0..LeaseTicks]
    BY <1>2 DEF FetchUnpublished
  <2>5. UNCHANGED <<stored, published, attempts, pc, cur, log, faults, disturbed>>
    BY <1>2 DEF FetchUnpublished
  <2> QED  BY <2>3, <2>4, <2>5
<1>3. ASSUME NEW r \in Relays, NEW e \in Events, PublishOk(r, e)
      PROVE  TypeOK' /\ CurStored'
  <2>1. Append(log, e) \in Seq(stored)
    BY <1>3, AppendFacts DEF PublishOk
  <2> QED  BY <1>3, <2>1 DEF PublishOk
<1>4. ASSUME NEW r \in Relays, NEW e \in Events, PublishError(r, e)
      PROVE  TypeOK' /\ CurStored'
  <2>1. Append(log, e) \in Seq(stored)
    BY <1>4, AppendFacts DEF PublishError
  <2>2. log' \in Seq(stored') /\ e \in stored
    BY <1>4, <2>1 DEF PublishError
  <2>3. /\ pc' = [pc EXCEPT ![r] = "failed"]
        /\ cur' = [cur EXCEPT ![r] = e]
        /\ batch' = [batch EXCEPT ![r] = {}]
        /\ faults' \in 0..MaxFaults
        /\ disturbed' \subseteq Events
        /\ UNCHANGED rowVars
    BY <1>4 DEF PublishError
  <2> QED  BY <2>2, <2>3
<1>5. ASSUME NEW r \in Relays, MarkPublished(r) PROVE TypeOK' /\ CurStored'
  BY <1>5 DEF MarkPublished
<1>6. ASSUME NEW r \in Relays, MarkFailed(r) PROVE TypeOK' /\ CurStored'
  <2>1. attempts' \in [Events -> Nat]
    BY <1>6 DEF MarkFailed
  <2>2. lease' \in [Events -> 0..LeaseTicks]
    BY <1>6 DEF MarkFailed
  <2>3. pc' \in [Relays -> Stages]
    BY <1>6 DEF MarkFailed
  <2> QED  BY <1>6, <2>1, <2>2, <2>3 DEF MarkFailed
<1>7. ASSUME NEW r \in Relays, Crash(r) PROVE TypeOK' /\ CurStored'
  <2>1. disturbed' \subseteq Events
    BY <1>7 DEF Crash
  <2>2. faults' \in 0..MaxFaults
    BY <1>7 DEF Crash
  <2>3. pc' = [pc EXCEPT ![r] = "down"] /\ batch' = [batch EXCEPT ![r] = {}]
        /\ UNCHANGED <<rowVars, cur, log>>
    BY <1>7 DEF Crash
  <2> QED  BY <2>1, <2>2, <2>3
<1>8. ASSUME NEW r \in Relays, Restart(r) PROVE TypeOK' /\ CurStored'
  BY <1>8 DEF Restart
<1>9. ASSUME Tick PROVE TypeOK' /\ CurStored'
  BY <1>9 DEF Tick
<1>10. ASSUME UNCHANGED vars PROVE TypeOK' /\ CurStored'
  BY <1>10 DEF vars
<1> QED
  BY <1>1, <1>2, <1>3, <1>4, <1>5, <1>6, <1>7, <1>8, <1>9, <1>10
     DEF Next, RelayStep, Publish

\* Every reachable state is well typed: in particular only rows of committed
\* transactions are ever claimed, published or marked.
THEOREM TypeCorrect == Spec => []TypeOK
<1>1. Init => TypeOK /\ CurStored
  BY FaultsAssumption, LeaseAssumption DEF Init, TypeOK, CurStored, Stages
<1> QED  BY <1>1, TypeStep, PTL DEF Spec

-----------------------------------------------------------------------------
\* What is left of the invariant once the types are known.
Hands ==
  /\ StageOK
  /\ CurOK
  /\ MarkedIsInTopic
  /\ PublishedIsInTopic
  /\ HoldingIsLeased
  /\ ExclusiveUnlessDisturbed
  /\ InTopicIsSettled
  /\ DuplicateHasCause

\* Appending makes exactly the new event appear, and a pair of equal places is
\* an old pair or a second copy of the new event.
LEMMA TopicAppend ==
  ASSUME TypeOK, NEW e \in stored, log' = Append(log, e)
  PROVE  /\ \A f \in Events : InTopic(f)' <=> (InTopic(f) \/ f = e)
         /\ \A i, j \in 1..Len(log') : i < j /\ log'[i] = log'[j] =>
              \/ i \in 1..Len(log) /\ j \in 1..Len(log) /\ log[i] = log[j]
                   /\ log'[i] = log[i]
              \/ log'[i] = e /\ InTopic(e)
<1>1. log \in Seq(stored) /\ e \in stored
  BY DEF TypeOK
<1>2. /\ Len(log') = Len(log) + 1
      /\ \A i \in 1..Len(log) : log'[i] = log[i]
      /\ log'[Len(log) + 1] = e
  BY <1>1, AppendFacts
<1>3. Len(log) \in Nat
  BY <1>1
<1>4. ASSUME NEW f \in Events PROVE InTopic(f)' <=> (InTopic(f) \/ f = e)
  BY <1>2, <1>3 DEF InTopic
<1>5. ASSUME NEW i \in 1..Len(log'), NEW j \in 1..Len(log'), i < j, log'[i] = log'[j]
      PROVE  \/ i \in 1..Len(log) /\ j \in 1..Len(log) /\ log[i] = log[j]
                  /\ log'[i] = log[i]
             \/ log'[i] = e /\ InTopic(e)
  BY <1>2, <1>3, <1>5 DEF InTopic
<1> QED  BY <1>4, <1>5

LEMMA TopicSame ==
  ASSUME UNCHANGED log
  PROVE  /\ \A f : InTopic(f)' <=> InTopic(f)
         /\ disturbed \subseteq disturbed' /\ DuplicateHasCause => DuplicateHasCause'
  BY DEF InTopic, DuplicateHasCause

\* No action but Publish touches the topic; each case says which hands moved.
LEMMA HandsStep ==
  TypeOK /\ TypeOK' /\ CurStored /\ Hands /\ [Next]_vars => Hands'
<1> SUFFICES ASSUME TypeOK, TypeOK', CurStored, Hands, [Next]_vars PROVE Hands'
  OBVIOUS
<1> USE DEF Hands
<1>1. ASSUME NEW e \in Events, InsertTx(e) PROVE Hands'
  <2>1. StageOK'
    BY <1>1 DEF TypeOK, InsertTx, StageOK, relayVars
  <2>2. CurOK'
    BY <1>1 DEF TypeOK, InsertTx, CurOK, relayVars
  <2>3. MarkedIsInTopic'
    BY <1>1, TopicSame DEF TypeOK, InsertTx, MarkedIsInTopic, relayVars
  <2>4. PublishedIsInTopic'
    BY <1>1, TopicSame DEF TypeOK, InsertTx, PublishedIsInTopic, relayVars
  <2>5. HoldingIsLeased'
    BY <1>1 DEF TypeOK, InsertTx, HoldingIsLeased, Holding, relayVars
  <2>6. ExclusiveUnlessDisturbed'
    BY <1>1 DEF TypeOK, InsertTx, ExclusiveUnlessDisturbed, Holding, relayVars
  <2>7. InTopicIsSettled'
    BY <1>1, TopicSame DEF TypeOK, InsertTx, InTopicIsSettled, relayVars
  <2>8. DuplicateHasCause'
    BY <1>1, TopicSame DEF TypeOK, InsertTx, DuplicateHasCause, relayVars
  <2> QED  BY <2>1, <2>2, <2>3, <2>4, <2>5, <2>6, <2>7, <2>8
<1>2. ASSUME NEW r \in Relays, FetchUnpublished(r) PROVE Hands'
  <2>0. PICK B \in SUBSET Candidates :
          /\ batch' = [batch EXCEPT ![r] = B]
          /\ pc[r] = "ready" /\ batch[r] = {}
          /\ lease' = [e \in Events |-> IF e \in B THEN LeaseTicks ELSE lease[e]]
          /\ UNCHANGED <<stored, published, attempts, pc, cur, log, faults, disturbed>>
    <3>1. PICK skipped \in SUBSET MaybeLocked(r) :
             batch' = [batch EXCEPT ![r] = FirstOf(Candidates \ skipped)]
      BY <1>2 DEF FetchUnpublished
    <3>2. FirstOf(Candidates \ skipped) \subseteq Candidates
      BY DEF FirstOf
    <3>3. batch'[r] = FirstOf(Candidates \ skipped)
      BY <3>1 DEF TypeOK
    <3> QED  BY <1>2, <3>1, <3>2, <3>3 DEF FetchUnpublished, Idle
  <2>a. \A q \in Relays : Holding(q)' = IF q = r THEN B ELSE Holding(q)
    BY <2>0 DEF TypeOK, Holding
  <2>b. \A e \in Candidates : \A q \in Relays : e \in Holding(q) => e \in disturbed
    BY DEF Candidates, HoldingIsLeased
  <2>1. StageOK'
    BY <2>0 DEF TypeOK, StageOK
  <2>2. CurOK'
    BY <2>0 DEF TypeOK, CurOK
  <2>3. MarkedIsInTopic'
    BY <1>2, TopicSame DEF TypeOK, FetchUnpublished, MarkedIsInTopic
  <2>4. PublishedIsInTopic'
    BY <1>2, TopicSame DEF TypeOK, FetchUnpublished, PublishedIsInTopic
  <2>5. HoldingIsLeased'
    <3>1. \A e \in B : e \in Events /\ lease'[e] > 0 /\ e \notin published
      BY <2>0, LeaseAssumption DEF TypeOK, Candidates
    <3>2. \A e \in Events : lease[e] > 0 => lease'[e] > 0
      BY <2>0, LeaseAssumption DEF TypeOK
    <3>3. \A q \in Relays : Holding(q) \subseteq Events
      BY DEF TypeOK, Holding
    <3> QED  BY <2>0, <2>a, <3>1, <3>2, <3>3 DEF HoldingIsLeased
  <2>6. ExclusiveUnlessDisturbed'
    BY <2>0, <2>a, <2>b DEF ExclusiveUnlessDisturbed
  <2>7. InTopicIsSettled'
    BY <1>2, TopicSame DEF TypeOK, FetchUnpublished, InTopicIsSettled
  <2>8. DuplicateHasCause'
    BY <1>2, TopicSame DEF TypeOK, FetchUnpublished, DuplicateHasCause
  <2> QED  BY <2>1, <2>2, <2>3, <2>4, <2>5, <2>6, <2>7, <2>8
<1>3. ASSUME NEW r \in Relays, NEW e \in Events, PublishOk(r, e) PROVE Hands'
  <2>1. StageOK'
    BY <1>3 DEF TypeOK, PublishOk, StageOK, rowVars
  <2>2. CurOK'
    BY <1>3 DEF TypeOK, PublishOk, CurOK, rowVars
  <2>3. MarkedIsInTopic'
    BY <1>3, TopicAppend DEF TypeOK, PublishOk, MarkedIsInTopic, rowVars
  <2>4. PublishedIsInTopic'
    BY <1>3, TopicAppend DEF TypeOK, PublishOk, PublishedIsInTopic, rowVars
  <2>5. HoldingIsLeased'
    BY <1>3 DEF TypeOK, PublishOk, HoldingIsLeased, Holding, rowVars
  <2>6. ExclusiveUnlessDisturbed'
    BY <1>3 DEF TypeOK, PublishOk, ExclusiveUnlessDisturbed, Holding, rowVars
  <2>7. InTopicIsSettled'
    <3>1. /\ e \in stored /\ log' = Append(log, e)
          /\ pc'[r] = "published" /\ cur'[r] = e
          /\ \A q \in Relays \ {r} : pc'[q] = pc[q] /\ cur'[q] = cur[q]
          /\ pc[r] # "published"
          /\ UNCHANGED <<published, disturbed>>
      BY <1>3 DEF TypeOK, PublishOk, rowVars
    <3>2. \A f \in Events : InTopic(f)' => InTopic(f) \/ f = e
      BY <3>1, TopicAppend
    <3> QED  BY <3>1, <3>2 DEF InTopicIsSettled
  <2>8. DuplicateHasCause'
    <3>1. e \in stored /\ log' = Append(log, e) /\ disturbed' = disturbed
      BY <1>3 DEF TypeOK, PublishOk
    <3>2. InTopic(e) => e \in disturbed
      <4>1. e \in Events /\ e \in Holding(r) /\ pc[r] = "ready"
        BY <1>3, <3>1 DEF TypeOK, PublishOk, Holding
      <4>2. \A q \in Relays : pc[q] = "published" => q # r /\ cur[q] \in Holding(q)
        BY <4>1 DEF Holding
      <4> QED  BY <4>1, <4>2
               DEF HoldingIsLeased, ExclusiveUnlessDisturbed, InTopicIsSettled
    <3> QED  BY <3>1, <3>2, TopicAppend DEF DuplicateHasCause
  <2> QED  BY <2>1, <2>2, <2>3, <2>4, <2>5, <2>6, <2>7, <2>8
<1>4. ASSUME NEW r \in Relays, NEW e \in Events, PublishError(r, e) PROVE Hands'
  <2>0. /\ \A f \in Events : \/ InTopic(f)' <=> InTopic(f)
                             \/ InTopic(f)' /\ f = e
        /\ \A f \in Events : InTopic(f) => InTopic(f)'
        /\ e \in disturbed' /\ disturbed \subseteq disturbed'
        /\ DuplicateHasCause'
    <3>1. e \in stored /\ stored \subseteq Events
      BY <1>4 DEF TypeOK, PublishError
    <3>2. e \in disturbed' /\ disturbed \subseteq disturbed'
      BY <1>4 DEF PublishError
    <3>3. CASE log' = log
      BY <3>2, <3>3, TopicSame
    <3>4. CASE log' = Append(log, e)
      BY <3>1, <3>2, <3>4, TopicAppend DEF DuplicateHasCause
    <3> QED  BY <1>4, <3>2, <3>3, <3>4 DEF PublishError
  <2>1. StageOK'
    BY <1>4 DEF TypeOK, PublishError, StageOK, rowVars
  <2>2. CurOK'
    BY <1>4 DEF TypeOK, PublishError, CurOK, rowVars
  <2>3. MarkedIsInTopic'
    BY <1>4, <2>0 DEF TypeOK, PublishError, MarkedIsInTopic, rowVars
  <2>4. PublishedIsInTopic'
    BY <1>4, <2>0 DEF TypeOK, PublishError, PublishedIsInTopic, rowVars
  <2>5. HoldingIsLeased'
    BY <1>4 DEF TypeOK, PublishError, HoldingIsLeased, Holding, rowVars
  <2>6. ExclusiveUnlessDisturbed'
    BY <1>4 DEF TypeOK, PublishError, ExclusiveUnlessDisturbed, Holding, rowVars
  <2>7. InTopicIsSettled'
    BY <1>4, <2>0 DEF TypeOK, PublishError, InTopicIsSettled, rowVars
  <2>8. DuplicateHasCause'
    BY <2>0
  <2> QED  BY <2>1, <2>2, <2>3, <2>4, <2>5, <2>6, <2>7, <2>8
<1>5. ASSUME NEW r \in Relays, MarkPublished(r) PROVE Hands'
  <2>1. StageOK'
    BY <1>5 DEF TypeOK, MarkPublished, StageOK
  <2>2. CurOK'
    BY <1>5 DEF TypeOK, MarkPublished, CurOK
  <2>3. MarkedIsInTopic'
    BY <1>5, TopicSame DEF TypeOK, MarkPublished, MarkedIsInTopic
  <2>4. PublishedIsInTopic'
    BY <1>5, TopicSame
       DEF TypeOK, MarkPublished, PublishedIsInTopic, MarkedIsInTopic
  <2>5. HoldingIsLeased'
    <3>1. \A q \in Relays : Holding(q)' \subseteq Holding(q)
      BY <1>5 DEF TypeOK, MarkPublished, Holding
    <3>2. \A q \in Relays : cur[r] \in Holding(q)' => cur[r] \in disturbed
      <4>1. cur[r] \in Holding(r) /\ cur[r] \notin Holding(r)'
        BY <1>5 DEF TypeOK, MarkPublished, Holding, CurOK
      <4> QED  BY <3>1, <4>1 DEF ExclusiveUnlessDisturbed
    <3>3. \A e \in Events : e # cur[r] => lease'[e] = lease[e]
      BY <1>5 DEF TypeOK, MarkPublished
    <3>4. \A q \in Relays : Holding(q) \subseteq Events
      BY DEF TypeOK, Holding
    <3>5. disturbed' = disturbed /\ published' = published \union {cur[r]}
      BY <1>5 DEF MarkPublished
    <3> QED  BY <3>1, <3>2, <3>3, <3>4, <3>5 DEF HoldingIsLeased
  <2>6. ExclusiveUnlessDisturbed'
    BY <1>5 DEF TypeOK, MarkPublished, ExclusiveUnlessDisturbed, Holding
  <2>7. InTopicIsSettled'
    BY <1>5, TopicSame DEF TypeOK, MarkPublished, InTopicIsSettled
  <2>8. DuplicateHasCause'
    BY <1>5, TopicSame DEF TypeOK, MarkPublished, DuplicateHasCause
  <2> QED  BY <2>1, <2>2, <2>3, <2>4, <2>5, <2>6, <2>7, <2>8
<1>6. ASSUME NEW r \in Relays, MarkFailed(r) PROVE Hands'
  <2>1. StageOK'
    BY <1>6 DEF TypeOK, MarkFailed, StageOK
  <2>2. CurOK'
    BY <1>6 DEF TypeOK, MarkFailed, CurOK
  <2>3. MarkedIsInTopic'
    BY <1>6, TopicSame DEF TypeOK, MarkFailed, MarkedIsInTopic
  <2>4. PublishedIsInTopic'
    BY <1>6, TopicSame DEF TypeOK, MarkFailed, PublishedIsInTopic
  <2>5. HoldingIsLeased'
    <3>1. \A q \in Relays : Holding(q)' \subseteq Holding(q)
      BY <1>6 DEF TypeOK, MarkFailed, Holding
    <3>2. cur[r] \in disturbed
      BY <1>6 DEF MarkFailed, CurOK
    <3>3. \A e \in Events : e # cur[r] => lease'[e] = lease[e]
      BY <1>6 DEF TypeOK, MarkFailed
    <3>4. \A q \in Relays : Holding(q) \subseteq Events
      BY DEF TypeOK, Holding
    <3>5. disturbed' = disturbed /\ published' = published
      BY <1>6 DEF MarkFailed
    <3> QED  BY <3>1, <3>2, <3>3, <3>4, <3>5 DEF HoldingIsLeased
  <2>6. ExclusiveUnlessDisturbed'
    BY <1>6 DEF TypeOK, MarkFailed, ExclusiveUnlessDisturbed, Holding
  <2>7. InTopicIsSettled'
    BY <1>6, TopicSame DEF TypeOK, MarkFailed, InTopicIsSettled
  <2>8. DuplicateHasCause'
    BY <1>6, TopicSame DEF TypeOK, MarkFailed, DuplicateHasCause
  <2> QED  BY <2>1, <2>2, <2>3, <2>4, <2>5, <2>6, <2>7, <2>8
<1>7. ASSUME NEW r \in Relays, Crash(r) PROVE Hands'
  <2>1. StageOK'
    BY <1>7 DEF TypeOK, Crash, StageOK, rowVars
  <2>2. CurOK'
    BY <1>7 DEF TypeOK, Crash, CurOK, rowVars
  <2>3. MarkedIsInTopic'
    BY <1>7, TopicSame DEF TypeOK, Crash, MarkedIsInTopic, rowVars
  <2>4. PublishedIsInTopic'
    BY <1>7, TopicSame DEF TypeOK, Crash, PublishedIsInTopic, rowVars
  <2>5. HoldingIsLeased'
    BY <1>7 DEF TypeOK, Crash, HoldingIsLeased, Holding, rowVars
  <2>6. ExclusiveUnlessDisturbed'
    BY <1>7 DEF TypeOK, Crash, ExclusiveUnlessDisturbed, Holding, rowVars
  <2>7. InTopicIsSettled'
    BY <1>7, TopicSame DEF TypeOK, Crash, InTopicIsSettled, rowVars
  <2>8. DuplicateHasCause'
    BY <1>7, TopicSame DEF TypeOK, Crash, DuplicateHasCause, rowVars
  <2> QED  BY <2>1, <2>2, <2>3, <2>4, <2>5, <2>6, <2>7, <2>8
<1>8. ASSUME NEW r \in Relays, Restart(r) PROVE Hands'
  <2>1. StageOK'
    BY <1>8 DEF TypeOK, Restart, StageOK, rowVars
  <2>2. CurOK'
    BY <1>8 DEF TypeOK, Restart, CurOK, rowVars
  <2>3. MarkedIsInTopic'
    BY <1>8, TopicSame DEF TypeOK, Restart, MarkedIsInTopic, rowVars
  <2>4. PublishedIsInTopic'
    BY <1>8, TopicSame DEF TypeOK, Restart, PublishedIsInTopic, rowVars
  <2>5. HoldingIsLeased'
    BY <1>8 DEF TypeOK, Restart, HoldingIsLeased, Holding, rowVars
  <2>6. ExclusiveUnlessDisturbed'
    BY <1>8 DEF TypeOK, Restart, ExclusiveUnlessDisturbed, Holding, rowVars
  <2>7. InTopicIsSettled'
    BY <1>8, TopicSame DEF TypeOK, Restart, InTopicIsSettled, rowVars
  <2>8. DuplicateHasCause'
    BY <1>8, TopicSame DEF TypeOK, Restart, DuplicateHasCause, rowVars
  <2> QED  BY <2>1, <2>2, <2>3, <2>4, <2>5, <2>6, <2>7, <2>8
<1>9. ASSUME Tick PROVE Hands'
  <2>1. StageOK'
    BY <1>9 DEF TypeOK, Tick, StageOK, relayVars
  <2>2. CurOK'
    BY <1>9 DEF TypeOK, Tick, CurOK, relayVars
  <2>3. MarkedIsInTopic'
    BY <1>9, TopicSame DEF TypeOK, Tick, MarkedIsInTopic, relayVars
  <2>4. PublishedIsInTopic'
    BY <1>9, TopicSame DEF TypeOK, Tick, PublishedIsInTopic, relayVars
  <2>5. HoldingIsLeased'
    BY <1>9 DEF TypeOK, Tick, HoldingIsLeased, Holding, relayVars
  <2>6. ExclusiveUnlessDisturbed'
    BY <1>9 DEF TypeOK, Tick, ExclusiveUnlessDisturbed, Holding, relayVars
  <2>7. InTopicIsSettled'
    BY <1>9, TopicSame DEF TypeOK, Tick, InTopicIsSettled, relayVars
  <2>8. DuplicateHasCause'
    BY <1>9, TopicSame DEF TypeOK, Tick, DuplicateHasCause, relayVars
  <2> QED  BY <2>1, <2>2, <2>3, <2>4, <2>5, <2>6, <2>7, <2>8
<1>10. ASSUME UNCHANGED vars PROVE Hands'
  BY <1>10 DEF vars, rowVars, relayVars, StageOK, CurOK, MarkedIsInTopic, InTopic,
       PublishedIsInTopic, HoldingIsLeased, Holding, ExclusiveUnlessDisturbed,
       InTopicIsSettled, DuplicateHasCause
<1> QED
  BY <1>1, <1>2, <1>3, <1>4, <1>5, <1>6, <1>7, <1>8, <1>9, <1>10
     DEF Next, RelayStep, Publish

\* The inductive invariant holds in every reachable state.
THEOREM Invariant == Spec => []IInv
<1>1. Init => IInv
  BY FaultsAssumption, LeaseAssumption, RelaysAssumption
     DEF Init, IInv, TypeOK, CurStored, StageOK, CurOK, MarkedIsInTopic, InTopic,
         PublishedIsInTopic, HoldingIsLeased, Holding, ExclusiveUnlessDisturbed,
         InTopicIsSettled, DuplicateHasCause, Stages
<1>2. IInv /\ [Next]_vars => IInv'
  BY TypeStep, HandsStep DEF IInv, Hands
<1> QED  BY <1>1, <1>2, PTL DEF Spec

\* A row is marked published only after the broker has the event, for any
\* number of relays, crashes and producer errors: the outbox loses nothing.
THEOREM NothingLost == Spec => []PublishedIsInTopic
<1>1. IInv => PublishedIsInTopic
  BY DEF IInv
<1> QED  BY <1>1, Invariant, PTL

\* The lease keeps relays apart: a row in two hands had its lease run out
\* under one of them, or met an error.
THEOREM LeaseExcludes == Spec => []ExclusiveUnlessDisturbed
<1>1. IInv => ExclusiveUnlessDisturbed
  BY DEF IInv
<1> QED  BY <1>1, Invariant, PTL

\* Every duplicate in a topic is explained by an error, a crash or a lost lease.
THEOREM DuplicatesExplained == Spec => []DuplicateHasCause
<1>1. IInv => DuplicateHasCause
  BY DEF IInv
<1> QED  BY <1>1, Invariant, PTL

\* The outbox table and its relays implement the safety part of the channel:
\* each step of theirs accepts or delivers one event, or changes neither.
THEOREM ImplementsChannel == Spec => ChannelSafety
<1>1. Init => Channel!ChanInit
  BY DEF Init, Channel!ChanInit
<1>2. TypeOK /\ [Next]_vars => [Channel!ChanNext]_<<stored, log>>
  <2> SUFFICES ASSUME TypeOK, [Next]_vars
               PROVE  [Channel!ChanNext]_<<stored, log>>
    OBVIOUS
  <2> USE DEF Channel!ChanNext, Channel!Accept, Channel!Deliver, TypeOK
  <2>1. ASSUME NEW e \in Events, InsertTx(e) PROVE Channel!ChanNext
    BY <2>1 DEF InsertTx
  <2>2. ASSUME NEW r \in Relays, NEW e \in Events, PublishOk(r, e)
        PROVE  Channel!ChanNext
    BY <2>2 DEF PublishOk, rowVars
  <2>3. ASSUME NEW r \in Relays, NEW e \in Events, PublishError(r, e)
        PROVE  Channel!ChanNext \/ UNCHANGED <<stored, log>>
    BY <2>3 DEF PublishError, rowVars
  <2>4. ASSUME NEW r \in Relays,
               FetchUnpublished(r) \/ MarkPublished(r) \/ MarkFailed(r)
                 \/ Crash(r) \/ Restart(r)
        PROVE  UNCHANGED <<stored, log>>
    BY <2>4 DEF FetchUnpublished, MarkPublished, MarkFailed, Crash, Restart, rowVars
  <2>5. CASE Tick
    BY <2>5 DEF Tick
  <2>6. CASE UNCHANGED vars
    BY <2>6 DEF vars, rowVars
  <2> QED
    BY <2>1, <2>2, <2>3, <2>4, <2>5, <2>6 DEF Next, RelayStep, Publish
<1>3. ChannelSafety <=> Channel!ChanInit /\ [][Channel!ChanNext]_<<stored, log>>
  BY DEF ChannelSafety, Channel!ChanSafety, Channel!chanVars
<1> QED  BY <1>1, <1>2, <1>3, TypeCorrect, PTL DEF Spec
=============================================================================
