--------------------------- MODULE DeliveryProofs ---------------------------
(***************************************************************************)
(* Theorems about Delivery and about ReleaseFanout, which extends it: any  *)
(* number of notifications, workers, attempts and faults, any list of      *)
(* delays, either transport.                                               *)
(*                                                                         *)
(* StatusIsEarned and NotStranded speak of rows; what keeps them true is   *)
(* in the workers, which decide on what they have read and may have lost   *)
(* their partition or their caller since.  OneMail speaks of a number of   *)
(* mails; it is kept by an account of the calls nobody waits for any more. *)
(***************************************************************************)
EXTENDS ReleaseFanout, FiniteSetTheorems, TLAPS

Decided == {"send", "marksent", "markfailed", "markdead"}
Over == {"deadletter", "finish"}

\* A worker that has read the row knows it exists, and counts no more
\* attempts than there were.
SeenOK ==
  \A w \in Workers : pc[w] \notin {"idle", "upsert"} =>
    /\ status[job[w]] # "none"
    /\ seen[w] <= attempt[job[w]]

\* What a worker has behind it when it writes a status.
EarnedOK ==
  \A w \in Workers :
    /\ pc[w] = "marksent" => emails[job[w]] > 0
    /\ pc[w] = "markfailed" => seen[w] + 1 < MaxAttempts
    /\ pc[w] = "markdead" => seen[w] + 1 >= MaxAttempts
    /\ pc[w] = "deadletter" => attempt[job[w]] >= MaxAttempts

\* As long as the partition did not move nobody but its owner works, and the
\* count a worker has read is the one in the row.
AloneOK ==
  Alone => \A w \in Workers : pc[w] # "idle" =>
    /\ fresh[w]
    /\ pc[w] \in Decided => /\ seen[w] = attempt[job[w]]
                            /\ attempt[job[w]] < MaxAttempts

\* A worker whose partition was not taken away has the first command of it.
FreshOK ==
  \A w \in Workers : fresh[w] =>
    /\ transport = "kafka" /\ owner = w /\ pc[w] # "idle"
    /\ topic # <<>> /\ Head(topic) = job[w]

Earned == SeenOK /\ EarnedOK /\ AloneOK /\ FreshOK /\ StatusIsEarned

\* No row yet: the command that will write it is still there, and no caller
\* has got an answer.
NoRowOK ==
  /\ \A w \in Workers :
       transport = "kafka" /\ pc[w] # "idle" /\ status[job[w]] = "none"
         => job[w] \in ToSet(topic)
  /\ \A k \in Keys : status[k] = "none" => caller[k] # Answered

\* A command is over only when somebody else has a command for a pending row.
OverOK ==
  \A w \in Workers : pc[w] \in Over /\ status[job[w]] = "pending" =>
    \/ outbox[job[w]] > 0
    \/ fresh[w] /\ job[w] \in ToSet(Tail(topic))
    \/ transport = "grpc" /\ job[w] \in ToSet(topic)
    \/ transport = "kafka" /\ ~fresh[w]

Kept == NoRowOK /\ OverOK /\ NotStranded

IInv == TypeOK /\ Earned /\ Kept

-----------------------------------------------------------------------------
\* What is in a sequence after one is appended, and after the first is gone.
LEMMA AppendSet ==
  ASSUME NEW S, NEW s \in Seq(S), NEW x \in S
  PROVE  /\ Append(s, x) \in Seq(S) /\ Append(s, x) # <<>>
         /\ ToSet(Append(s, x)) = ToSet(s) \union {x}
         /\ s # <<>> => /\ Head(Append(s, x)) = Head(s)
                        /\ Tail(Append(s, x)) = Append(Tail(s), x)
<1>1. /\ Append(s, x) \in Seq(S)
      /\ Len(Append(s, x)) = Len(s) + 1
      /\ \A i \in 1..Len(s) : Append(s, x)[i] = s[i]
      /\ Append(s, x)[Len(s) + 1] = x
      /\ Len(s) \in Nat
  OBVIOUS
<1>2. DOMAIN Append(s, x) = 1..(Len(s) + 1) /\ DOMAIN s = 1..Len(s)
  BY <1>1
<1>3. ToSet(Append(s, x)) = ToSet(s) \union {x}
  BY <1>1, <1>2 DEF ToSet
<1>4. ASSUME s # <<>> PROVE /\ Head(Append(s, x)) = Head(s)
                            /\ Tail(Append(s, x)) = Append(Tail(s), x)
  BY <1>4
<1>5. Append(s, x) # <<>>
  BY <1>1
<1> QED  BY <1>1, <1>3, <1>4, <1>5

LEMMA TailSet ==
  ASSUME NEW S, NEW s \in Seq(S), s # <<>>
  PROVE  /\ Head(s) \in S /\ Tail(s) \in Seq(S)
         /\ ToSet(s) = {Head(s)} \union ToSet(Tail(s))
<1>1. /\ Len(s) \in Nat \ {0} /\ Head(s) = s[1] /\ Head(s) \in S
      /\ Tail(s) \in Seq(S) /\ Len(Tail(s)) = Len(s) - 1
      /\ \A i \in 1..Len(Tail(s)) : Tail(s)[i] = s[i + 1]
  OBVIOUS
<1>2. DOMAIN s = 1..Len(s) /\ DOMAIN Tail(s) = 1..(Len(s) - 1)
  BY <1>1
<1>3. ASSUME NEW i \in 2..Len(s) PROVE s[i] \in ToSet(Tail(s))
  <2>1. i - 1 \in DOMAIN Tail(s) /\ Tail(s)[i - 1] = s[i]
    BY <1>1, <1>2
  <2> QED  BY <2>1 DEF ToSet
<1>4. ToSet(Tail(s)) \subseteq ToSet(s) /\ Head(s) \in ToSet(s)
  BY <1>1, <1>2 DEF ToSet
<1>5. ToSet(s) \subseteq {Head(s)} \union ToSet(Tail(s))
  BY <1>1, <1>2, <1>3 DEF ToSet
<1> QED  BY <1>1, <1>4, <1>5

\* The delay before a retry is a number of ticks.
LEMMA RetryDelay == ASSUME NEW n \in Nat \ {0} PROVE retryDelay(n) \in Nat
<1> USE DelaysAssumption
<1>1. CASE RetryDelays = <<>>
  BY <1>1 DEF retryDelay
<1>2. CASE RetryDelays # <<>>
  <2>1. Len(RetryDelays) \in Nat \ {0} /\ \A i \in 1..Len(RetryDelays) : RetryDelays[i] \in Nat
    BY <1>2
  <2> QED  BY <1>2, <2>1 DEF retryDelay, Last
<1> QED  BY <1>1, <1>2

\* A counter stays a number.
LEMMA OneMore ==
  ASSUME NEW K, NEW f \in [K -> Nat], NEW k \in K
  PROVE  [f EXCEPT ![k] = @ + 1] \in [K -> Nat]
  OBVIOUS

LEMMA CountDown ==
  ASSUME NEW n \in Nat \union {Never}
  PROVE  (IF n > 0 THEN n - 1 ELSE n) \in Nat \union {Never}
  BY DEF Never

LEMMA FaultCounts == TypeOK /\ (Fault \/ UNCHANGED faults) => faults' \in 0..MaxFaults
  BY FaultsAssumption DEF TypeOK, Fault

\* Types.
LEMMA TypeStep == TypeOK /\ FreshOK /\ [Next]_vars => TypeOK'
<1> SUFFICES ASSUME TypeOK, FreshOK, [Next]_vars PROVE TypeOK'
  OBVIOUS
<1> USE FaultsAssumption, AttemptsAssumption
    DEF TypeOK, Stages, Statuses, Never, Fault, Goto, row, bus, client, hist
<1>k. (CHOOSE k \in Keys : TRUE) \in Keys
  BY SomeKeyAssumption
<1>1. ASSUME NEW k \in Keys, Request(k) PROVE TypeOK'
  BY <1>1, AppendSet DEF Request
<1>2. ASSUME NEW k \in Keys, DuplicateCommand(k) PROVE TypeOK'
  <2>1. topic' \in Seq(Keys)
    BY <1>2, AppendSet DEF DuplicateCommand
  <2>2. faults' \in 0..MaxFaults
    BY <1>2 DEF DuplicateCommand
  <2> QED  BY <1>2, <2>1, <2>2 DEF DuplicateCommand
<1>3. ASSUME NEW k \in Keys, CallTimeout(k) PROVE TypeOK'
  <2>1. caller' \in [Keys -> Workers \union {Unsent, Answered}] /\ faults' \in 0..MaxFaults
    BY <1>3 DEF CallTimeout
  <2> QED  BY <1>3, <2>1 DEF CallTimeout
<1>4. ASSUME NEW k \in Keys, RelayPublish(k) PROVE TypeOK'
  <2>1. topic' \in Seq(Keys)
    BY <1>4, AppendSet DEF RelayPublish
  <2>2. outbox' \in [Keys -> Nat]
    BY <1>4 DEF RelayPublish
  <2> QED  BY <1>4, <2>1, <2>2 DEF RelayPublish
<1>5. ASSUME NEW w \in Workers, FetchMessage(w) PROVE TypeOK'
  BY <1>5, TailSet DEF FetchMessage
<1>6. ASSUME NEW w \in Workers, Rebalance(w) PROVE TypeOK'
  <2>1. faults' \in 0..MaxFaults
    BY <1>6 DEF Rebalance
  <2>2. fresh' \in [Workers -> BOOLEAN]
    BY <1>6 DEF Rebalance
  <2> QED  BY <1>6, <2>1, <2>2 DEF Rebalance
<1>7. ASSUME NEW w \in Workers, UpsertPending(w) PROVE TypeOK'
  BY <1>7 DEF UpsertPending
<1>8. ASSUME NEW w \in Workers, SendOk(w) PROVE TypeOK'
  <2>a. job[w] \in Keys
    OBVIOUS
  <2>1. emails' \in [Keys -> Nat]
    BY <1>8, <2>a, OneMore DEF SendOk
  <2>2. pc' \in [Workers -> Stages]
    BY <1>8 DEF SendOk
  <2> QED  BY <1>8, <2>1, <2>2 DEF SendOk
<1>9. ASSUME NEW w \in Workers, SendFail(w) PROVE TypeOK'
  <2>a. job[w] \in Keys
    OBVIOUS
  <2>b. [emails EXCEPT ![job[w]] = @ + 1] \in [Keys -> Nat]
    BY <2>a, OneMore
  <2>0. emails' \in [Keys -> Nat]
    BY <1>9, <2>b DEF SendFail
  <2>c. Fault \/ UNCHANGED faults
    BY <1>9 DEF SendFail
  <2>1. faults' \in 0..MaxFaults
    BY <2>c, FaultCounts
  <2>2. pc' \in [Workers -> Stages]
    BY <1>9 DEF SendFail, AfterFailure
  <2> QED  BY <1>9, <2>0, <2>1, <2>2 DEF SendFail
<1>10. ASSUME NEW w \in Workers, MarkSent(w) PROVE TypeOK'
  BY <1>10 DEF MarkSent
<1>11. ASSUME NEW w \in Workers, MarkFailed(w) PROVE TypeOK'
  <2>a. job[w] \in Keys /\ seen[w] \in Nat
    OBVIOUS
  <2>1. retryDelay(seen[w] + 1) \in Nat
    <3>1. seen[w] + 1 \in Nat \ {0}
      BY <2>a
    <3> QED  BY <3>1, RetryDelay
  <2>2. attempt' \in [Keys -> Nat]
    BY <1>11, <2>a, OneMore DEF MarkFailed
  <2>3. next_at' \in [Keys -> Nat \union {Never}]
    BY <1>11, <2>1 DEF MarkFailed
  <2>4. pc' \in [Workers -> Stages]
    BY <1>11 DEF MarkFailed
  <2> QED  BY <1>11, <2>2, <2>3, <2>4 DEF MarkFailed
<1>12. ASSUME NEW w \in Workers, MarkDead(w) PROVE TypeOK'
  <2>a. job[w] \in Keys
    OBVIOUS
  <2>1. attempt' \in [Keys -> Nat]
    BY <1>12, <2>a, OneMore DEF MarkDead
  <2>2. pc' \in [Workers -> Stages]
    BY <1>12 DEF MarkDead
  <2> QED  BY <1>12, <2>1, <2>2 DEF MarkDead
<1>13. ASSUME NEW w \in Workers, DeadLetter(w) PROVE TypeOK'
  <2>a. job[w] \in Keys
    OBVIOUS
  <2>1. dlq' \in [Keys -> Nat]
    BY <1>13, <2>a, OneMore DEF DeadLetter
  <2>2. pc' \in [Workers -> Stages]
    BY <1>13 DEF DeadLetter
  <2> QED  BY <1>13, <2>1, <2>2 DEF DeadLetter
<1>14. ASSUME NEW w \in Workers, Finish(w) PROVE TypeOK'
  <2>1. topic' \in Seq(Keys)
    BY <1>14, TailSet DEF Finish, FreshOK
  <2> QED  BY <1>k, <1>14, <2>1 DEF Finish, Return
<1>15. ASSUME NEW w \in Workers, Cancelled(w) PROVE TypeOK'
  BY <1>k, <1>15 DEF Cancelled, Return
<1>16. ASSUME NEW w \in Workers, Abort(w) PROVE TypeOK'
  <2>1. caller' \in [Keys -> Workers \union {Unsent, Answered}] /\ faults' \in 0..MaxFaults
    BY <1>16 DEF Abort
  <2> QED  BY <1>k, <1>16, <2>1 DEF Abort, Return
<1>17. ASSUME NEW w \in Workers, NEW k \in Keys, SendNotification(w, k) PROVE TypeOK'
  BY <1>17 DEF SendNotification
<1>18. CASE EnqueueDueRetries
  <2>1. status' \in [Keys -> Statuses]
    BY <1>18 DEF EnqueueDueRetries
  <2>2. next_at' \in [Keys -> Nat \union {Never}]
    BY <1>18 DEF EnqueueDueRetries
  <2>3. outbox' \in [Keys -> Nat]
    BY <1>18 DEF EnqueueDueRetries
  <2> QED  BY <1>18, <2>1, <2>2, <2>3 DEF EnqueueDueRetries
<1>19. CASE Tick
  <2>1. next_at' \in [Keys -> Nat \union {Never}]
    <3>1. \A k \in Keys : next_at[k] \in Nat \union {Never}
      OBVIOUS
    <3>2. \A k \in Keys : (IF next_at[k] > 0 THEN next_at[k] - 1 ELSE next_at[k])
                            \in Nat \union {Never}
      BY <3>1, CountDown
    <3> QED  BY <1>19, <3>2 DEF Tick
  <2> QED  BY <1>19, <2>1 DEF Tick
<1>20. CASE UNCHANGED vars
  BY <1>20 DEF vars
<1> QED  BY <1>1, <1>2, <1>3, <1>4, <1>5, <1>6, <1>7, <1>8, <1>9, <1>10, <1>11,
            <1>12, <1>13, <1>14, <1>15, <1>16, <1>17, <1>18, <1>19, <1>20
         DEF Next, Process

\* A command more in the queue is nothing to the workers.
LEMMA QueueKeepsEarned ==
  ASSUME TypeOK, Earned, NEW k \in Keys, topic' \in {topic, Append(topic, k)},
         UNCHANGED <<row, client, pc, job, seen, hist>>
  PROVE  Earned'
<1> USE DEF Earned
<1>t. /\ job \in [Workers -> Keys] /\ seen \in [Workers -> Nat]
      /\ pc \in [Workers -> Stages] /\ fresh \in [Workers -> BOOLEAN]
      /\ status \in [Keys -> Statuses] /\ attempt \in [Keys -> Nat]
      /\ emails \in [Keys -> Nat] /\ dlq \in [Keys -> Nat]
  BY DEF TypeOK
<1>s. topic \in Seq(Keys)
  BY DEF TypeOK
<1>1. topic # <<>> => topic' # <<>> /\ Head(topic') = Head(topic)
  <2>1. \A s \in Seq(Keys) : s # <<>> => /\ Append(s, k) # <<>>
                                        /\ Head(Append(s, k)) = Head(s)
    BY AppendSet
  <2> QED  BY <1>s, <2>1
<1>2. SeenOK'
  BY <1>t, <1>1
  DEF SeenOK, row
<1>3. EarnedOK'
  BY <1>t, <1>1
  DEF EarnedOK, SeenOK, row, hist
<1>4. AloneOK'
  BY <1>t, <1>1
  DEF AloneOK, Alone, FreshOK, StatusIsEarned, EarnedOK, Decided, row, client
<1>5. FreshOK'
  BY <1>t, <1>1
  DEF FreshOK, bus, client
<1>6. StatusIsEarned'
  BY <1>t, <1>1
  DEF StatusIsEarned, SeenOK, Alone, AloneOK, EarnedOK, Decided, row, client, hist
<1> QED  BY <1>2, <1>3, <1>4, <1>5, <1>6 DEF Earned

\* Nor is what the caller is waiting for.
LEMMA CallerKeepsEarned ==
  ASSUME TypeOK, Earned,
         UNCHANGED <<row, topic, transport, owner, fresh, moved, pc, job, seen, hist>>
  PROVE  Earned'
<1> USE DEF Earned
<1>t. /\ job \in [Workers -> Keys] /\ seen \in [Workers -> Nat]
      /\ pc \in [Workers -> Stages] /\ fresh \in [Workers -> BOOLEAN]
      /\ status \in [Keys -> Statuses] /\ attempt \in [Keys -> Nat]
      /\ emails \in [Keys -> Nat] /\ dlq \in [Keys -> Nat]
  BY DEF TypeOK
<1> QED
  BY <1>t DEF SeenOK, EarnedOK, AloneOK, FreshOK, StatusIsEarned, Alone, Decided,
              row, hist

\* An idle worker takes a call.
LEMMA CallKeepsEarned ==
  ASSUME TypeOK, Earned, NEW v \in Workers, NEW k \in Keys,
         transport = "grpc", pc[v] = "idle",
         job' = [job EXCEPT ![v] = k], pc' = [pc EXCEPT ![v] = "upsert"],
         UNCHANGED <<row, topic, transport, owner, fresh, moved, seen, hist>>
  PROVE  Earned'
<1> USE DEF Earned
<1>t. /\ job \in [Workers -> Keys] /\ seen \in [Workers -> Nat]
      /\ pc \in [Workers -> Stages] /\ fresh \in [Workers -> BOOLEAN]
      /\ status \in [Keys -> Statuses] /\ attempt \in [Keys -> Nat]
      /\ emails \in [Keys -> Nat] /\ dlq \in [Keys -> Nat]
  BY DEF TypeOK
<1> QED
  BY <1>t DEF SeenOK, EarnedOK, AloneOK, FreshOK, StatusIsEarned, Alone, Decided,
              row, hist

\* A worker that returns, with or without its commit, leaves the others alone.
LEMMA ReturnKeepsEarned ==
  ASSUME TypeOK, Earned, NEW v \in Workers,
         \A w \in Workers \ {v} : UNCHANGED <<pc[w], job[w], seen[w], fresh[w]>>,
         pc'[v] = "idle", ~fresh'[v],
         UNCHANGED <<row, outbox, requested, transport, owner, moved, hist>>,
         ~fresh[v] => topic' = topic
  PROVE  Earned'
<1>t. /\ job \in [Workers -> Keys] /\ seen \in [Workers -> Nat]
      /\ pc \in [Workers -> Stages] /\ fresh \in [Workers -> BOOLEAN]
      /\ status \in [Keys -> Statuses] /\ attempt \in [Keys -> Nat]
  BY DEF TypeOK
<1>1. SeenOK'
  BY DEF Earned, SeenOK, row
<1>2. EarnedOK'
  BY DEF Earned, EarnedOK, row, hist
<1>3. \A w \in Workers : pc'[w] # "idle" =>
        w # v /\ UNCHANGED <<pc[w], job[w], seen[w], fresh[w]>>
  OBVIOUS
<1>4. AloneOK'
  BY <1>3 DEF Earned, AloneOK, Alone, row
<1>5. \A w \in Workers : fresh'[w] => w # v /\ fresh[w] /\ ~fresh[v]
  BY <1>t DEF Earned, FreshOK
<1>6. FreshOK'
  <2> SUFFICES ASSUME NEW w \in Workers, fresh'[w]
               PROVE  /\ transport' = "kafka" /\ owner' = w /\ pc'[w] # "idle"
                      /\ topic' # <<>> /\ Head(topic') = job'[w]
    BY DEF FreshOK
  <2>1. w # v /\ fresh[w] /\ topic' = topic
    BY <1>5
  <2> QED  BY <2>1 DEF Earned, FreshOK
<1>7. StatusIsEarned'
  BY DEF Earned, StatusIsEarned, Alone, row, hist
<1> QED  BY <1>1, <1>2, <1>4, <1>6, <1>7 DEF Earned

\* What the workers have read and what the rows say.
LEMMA EarnedStep == TypeOK /\ Earned /\ [Next]_vars => Earned'
<1> SUFFICES ASSUME TypeOK, Earned, SeenOK, EarnedOK, AloneOK, FreshOK, StatusIsEarned, [Next]_vars
             PROVE  Earned'
  BY DEF Earned
<1> USE AttemptsAssumption DEF Goto
<1>t. /\ job \in [Workers -> Keys] /\ seen \in [Workers -> Nat]
      /\ pc \in [Workers -> Stages] /\ fresh \in [Workers -> BOOLEAN]
      /\ status \in [Keys -> Statuses] /\ attempt \in [Keys -> Nat]
      /\ emails \in [Keys -> Nat] /\ dlq \in [Keys -> Nat]
  BY DEF TypeOK
<1>1. ASSUME NEW k \in Keys, Request(k) PROVE Earned'
  BY QueueKeepsEarned, <1>1 DEF Request
<1>2. ASSUME NEW k \in Keys, DuplicateCommand(k) PROVE Earned'
  BY QueueKeepsEarned, <1>2 DEF DuplicateCommand, Fault
<1>3. ASSUME NEW k \in Keys, CallTimeout(k) PROVE Earned'
  BY CallerKeepsEarned, <1>3 DEF CallTimeout, bus
<1>4. ASSUME NEW k \in Keys, RelayPublish(k) PROVE Earned'
  BY QueueKeepsEarned, <1>4 DEF RelayPublish
<1>5. ASSUME NEW v \in Workers, FetchMessage(v) PROVE Earned'
  <2>1. SeenOK'
    BY <1>t, <1>5
    DEF FetchMessage, SeenOK, row
  <2>2. EarnedOK'
    BY <1>t, <1>5
    DEF FetchMessage, EarnedOK, SeenOK, row, hist
  <2>3. AloneOK'
    BY <1>t, <1>5
    DEF FetchMessage, AloneOK, Alone, FreshOK, StatusIsEarned, EarnedOK, Decided, row, client
  <2>4. FreshOK'
    BY <1>t, <1>5
    DEF FetchMessage, FreshOK, bus, client
  <2>5. StatusIsEarned'
    BY <1>t, <1>5
    DEF FetchMessage, StatusIsEarned, SeenOK, Alone, AloneOK, EarnedOK, Decided, row, client, hist
  <2> QED  BY <2>1, <2>2, <2>3, <2>4, <2>5 DEF Earned
<1>6. ASSUME NEW v \in Workers, Rebalance(v) PROVE Earned'
  <2>1. SeenOK'
    BY <1>t, <1>6
    DEF Rebalance, SeenOK, row
  <2>2. EarnedOK'
    BY <1>t, <1>6
    DEF Rebalance, EarnedOK, SeenOK, row, hist
  <2>3. AloneOK'
    BY <1>t, <1>6
    DEF Rebalance, AloneOK, Alone, FreshOK, StatusIsEarned, EarnedOK, Decided, row, client
  <2>4. FreshOK'
    BY <1>t, <1>6
    DEF Rebalance, FreshOK, bus, client
  <2>5. StatusIsEarned'
    BY <1>t, <1>6
    DEF Rebalance, StatusIsEarned, SeenOK, Alone, AloneOK, EarnedOK, Decided, row, client, hist
  <2> QED  BY <2>1, <2>2, <2>3, <2>4, <2>5 DEF Earned
<1>7. ASSUME NEW v \in Workers, UpsertPending(v) PROVE Earned'
  <2>1. SeenOK'
    BY <1>t, <1>7
    DEF UpsertPending, SeenOK, row
  <2>2. EarnedOK'
    BY <1>t, <1>7
    DEF UpsertPending, EarnedOK, SeenOK, row, hist
  <2>3. AloneOK'
    BY <1>t, <1>7
    DEF UpsertPending, AloneOK, Alone, FreshOK, StatusIsEarned, EarnedOK, Decided, row, client
  <2>4. FreshOK'
    BY <1>t, <1>7
    DEF UpsertPending, FreshOK, bus, client
  <2>5. StatusIsEarned'
    BY <1>t, <1>7
    DEF UpsertPending, StatusIsEarned, SeenOK, Alone, AloneOK, EarnedOK, Decided, row, client, hist
  <2> QED  BY <2>1, <2>2, <2>3, <2>4, <2>5 DEF Earned
<1>8. ASSUME NEW v \in Workers, SendOk(v) PROVE Earned'
  <2>1. SeenOK'
    BY <1>t, <1>8
    DEF SendOk, SeenOK, row
  <2>2. EarnedOK'
    BY <1>t, <1>8
    DEF SendOk, EarnedOK, SeenOK, row, hist
  <2>3. AloneOK'
    BY <1>t, <1>8
    DEF SendOk, AloneOK, Alone, FreshOK, StatusIsEarned, EarnedOK, Decided, row, client
  <2>4. FreshOK'
    BY <1>t, <1>8
    DEF SendOk, FreshOK, bus, client
  <2>5. StatusIsEarned'
    BY <1>t, <1>8
    DEF SendOk, StatusIsEarned, SeenOK, Alone, AloneOK, EarnedOK, Decided, row, client, hist
  <2> QED  BY <2>1, <2>2, <2>3, <2>4, <2>5 DEF Earned
<1>9. ASSUME NEW v \in Workers, SendFail(v) PROVE Earned'
  <2>a. /\ pc \in [Workers -> Stages] /\ job \in [Workers -> Keys]
        /\ emails \in [Keys -> Nat] /\ seen[v] \in Nat /\ MaxAttempts \in Nat
    BY AttemptsAssumption DEF TypeOK
  <2>b. AfterFailure(seen[v] + 1) = IF seen[v] + 1 < MaxAttempts THEN "markfailed"
                                                                 ELSE "markdead"
    BY <2>a DEF AfterFailure
  <2>c. \A k \in Keys : emails'[k] \in {emails[k], emails[k] + 1}
    BY <1>9, <2>a DEF SendFail
  <2>1. /\ \A w \in Workers : w # v => pc'[w] = pc[w]
        /\ pc[v] = "send"
        /\ \/ pc'[v] = "markdead" /\ seen[v] + 1 >= MaxAttempts
           \/ pc'[v] = "markfailed" /\ seen[v] + 1 < MaxAttempts
        /\ UNCHANGED <<row, bus, client, job, seen, dlq>>
        /\ \A k \in Keys : emails'[k] \in {emails[k], emails[k] + 1}
    BY <1>9, <2>a, <2>b, <2>c DEF SendFail
  <2>2. SeenOK'
    BY <1>t, <2>1
    DEF SeenOK, row
  <2>3. EarnedOK'
    BY <1>t, <2>1
    DEF EarnedOK, SeenOK, row, hist
  <2>4. AloneOK'
    BY <1>t, <2>1
    DEF AloneOK, Alone, FreshOK, StatusIsEarned, EarnedOK, Decided, row, client
  <2>5. FreshOK'
    BY <1>t, <2>1
    DEF FreshOK, bus, client
  <2>6. StatusIsEarned'
    BY <1>t, <2>1
    DEF StatusIsEarned, SeenOK, Alone, AloneOK, EarnedOK, Decided, row, client, hist
  <2> QED  BY <2>2, <2>3, <2>4, <2>5, <2>6 DEF Earned
<1>10. ASSUME NEW v \in Workers, MarkSent(v) PROVE Earned'
  <2>1. SeenOK'
    BY <1>t, <1>10
    DEF MarkSent, SeenOK, row
  <2>2. EarnedOK'
    BY <1>t, <1>10
    DEF MarkSent, EarnedOK, SeenOK, row, hist
  <2>3. AloneOK'
    BY <1>t, <1>10
    DEF MarkSent, AloneOK, Alone, FreshOK, StatusIsEarned, EarnedOK, Decided, row, client
  <2>4. FreshOK'
    BY <1>t, <1>10
    DEF MarkSent, FreshOK, bus, client
  <2>5. StatusIsEarned'
    BY <1>t, <1>10
    DEF MarkSent, StatusIsEarned, SeenOK, Alone, AloneOK, EarnedOK, Decided, row, client, hist
  <2> QED  BY <2>1, <2>2, <2>3, <2>4, <2>5 DEF Earned
<1>11. ASSUME NEW v \in Workers, MarkFailed(v) PROVE Earned'
  <2>1. /\ \A k \in Keys :
             /\ status'[k] = IF k = job[v] THEN "failed" ELSE status[k]
             /\ attempt'[k] = IF k = job[v] THEN attempt[k] + 1 ELSE attempt[k]
        /\ \A w \in Workers : pc'[w] = IF w = v THEN "finish" ELSE pc[w]
        /\ UNCHANGED <<bus, client, job, seen, hist, faults>>
        /\ pc[v] = "markfailed"
    BY <1>t, <1>11 DEF MarkFailed
  <2>2. Alone => \A w \in Workers \ {v} : pc[w] = "idle"
    BY <2>1 DEF AloneOK, FreshOK
  <2>3. SeenOK'
    BY <1>t, <2>1
    DEF SeenOK, row
  <2>4. EarnedOK'
    BY <1>t, <2>1
    DEF EarnedOK, SeenOK, row, hist
  <2>5. AloneOK'
    BY <1>t, <2>1, <2>2
    DEF AloneOK, Alone, FreshOK, StatusIsEarned, EarnedOK, Decided, row, client
  <2>6. FreshOK'
    BY <1>t, <2>1
    DEF FreshOK, bus, client
  <2>7. StatusIsEarned'
    BY <1>t, <2>1, <2>2
    DEF StatusIsEarned, SeenOK, Alone, AloneOK, EarnedOK, Decided, row, client, hist
  <2> QED  BY <2>3, <2>4, <2>5, <2>6, <2>7 DEF Earned
<1>12. ASSUME NEW v \in Workers, MarkDead(v) PROVE Earned'
  <2>1. /\ \A k \in Keys :
             /\ status'[k] = IF k = job[v] THEN "dead" ELSE status[k]
             /\ attempt'[k] = IF k = job[v] THEN attempt[k] + 1 ELSE attempt[k]
        /\ \A w \in Workers : pc'[w] = IF w = v THEN "deadletter" ELSE pc[w]
        /\ UNCHANGED <<bus, client, job, seen, hist, faults>>
        /\ pc[v] = "markdead"
    BY <1>t, <1>12 DEF MarkDead
  <2>2. Alone => \A w \in Workers \ {v} : pc[w] = "idle"
    BY <2>1 DEF AloneOK, FreshOK
  <2>3. SeenOK'
    BY <1>t, <2>1
    DEF SeenOK, row
  <2>4. EarnedOK'
    BY <1>t, <2>1
    DEF EarnedOK, SeenOK, row, hist
  <2>5. AloneOK'
    BY <1>t, <2>1, <2>2
    DEF AloneOK, Alone, FreshOK, StatusIsEarned, EarnedOK, Decided, row, client
  <2>6. FreshOK'
    BY <1>t, <2>1
    DEF FreshOK, bus, client
  <2>7. StatusIsEarned'
    BY <1>t, <2>1, <2>2
    DEF StatusIsEarned, SeenOK, Alone, AloneOK, EarnedOK, Decided, row, client, hist
  <2> QED  BY <2>3, <2>4, <2>5, <2>6, <2>7 DEF Earned
<1>13. ASSUME NEW v \in Workers, DeadLetter(v) PROVE Earned'
  <2>1. SeenOK'
    BY <1>t, <1>13
    DEF DeadLetter, SeenOK, row
  <2>2. EarnedOK'
    BY <1>t, <1>13
    DEF DeadLetter, EarnedOK, SeenOK, row, hist
  <2>3. AloneOK'
    BY <1>t, <1>13
    DEF DeadLetter, AloneOK, Alone, FreshOK, StatusIsEarned, EarnedOK, Decided, row, client
  <2>4. FreshOK'
    BY <1>t, <1>13
    DEF DeadLetter, FreshOK, bus, client
  <2>5. StatusIsEarned'
    BY <1>t, <1>13
    DEF DeadLetter, StatusIsEarned, SeenOK, Alone, AloneOK, EarnedOK, Decided, row, client, hist
  <2> QED  BY <2>1, <2>2, <2>3, <2>4, <2>5 DEF Earned
<1>14. ASSUME NEW v \in Workers, Finish(v) PROVE Earned'
  <2>1. /\ \A w \in Workers \ {v} :
             UNCHANGED <<pc[w], job[w], seen[w], fresh[w]>>
        /\ pc'[v] = "idle" /\ ~fresh'[v]
        /\ UNCHANGED <<row, outbox, requested, transport, owner, moved, hist>>
        /\ ~fresh[v] => topic' = topic
    BY <1>14 DEF Finish, Return, bus, client, TypeOK
  <2> QED  BY <2>1, ReturnKeepsEarned
<1>15. ASSUME NEW v \in Workers, Cancelled(v) PROVE Earned'
  <2>1. /\ \A w \in Workers \ {v} :
             UNCHANGED <<pc[w], job[w], seen[w], fresh[w]>>
        /\ pc'[v] = "idle" /\ ~fresh'[v]
        /\ UNCHANGED <<row, outbox, requested, transport, owner, moved, hist>>
        /\ ~fresh[v] => topic' = topic
    BY <1>15 DEF Cancelled, Return, bus, client, TypeOK
  <2> QED  BY <2>1, ReturnKeepsEarned
<1>16. ASSUME NEW v \in Workers, Abort(v) PROVE Earned'
  <2>1. /\ \A w \in Workers \ {v} :
             UNCHANGED <<pc[w], job[w], seen[w], fresh[w]>>
        /\ pc'[v] = "idle" /\ ~fresh'[v]
        /\ UNCHANGED <<row, outbox, requested, transport, owner, moved, hist>>
        /\ ~fresh[v] => topic' = topic
    BY <1>16 DEF Abort, Return, bus, client, TypeOK
  <2> QED  BY <2>1, ReturnKeepsEarned
<1>17. ASSUME NEW v \in Workers, NEW k \in Keys, SendNotification(v, k) PROVE Earned'
  BY CallKeepsEarned, <1>17 DEF SendNotification, bus
<1>18. CASE EnqueueDueRetries
  <2>1. SeenOK'
    BY <1>t, <1>18
    DEF EnqueueDueRetries, Due, SeenOK, row
  <2>2. EarnedOK'
    BY <1>t, <1>18
    DEF EnqueueDueRetries, Due, EarnedOK, SeenOK, row, hist
  <2>3. AloneOK'
    BY <1>t, <1>18
    DEF EnqueueDueRetries, Due, AloneOK, Alone, FreshOK, StatusIsEarned, EarnedOK, Decided, row, client
  <2>4. FreshOK'
    BY <1>t, <1>18
    DEF EnqueueDueRetries, Due, FreshOK, bus, client
  <2>5. StatusIsEarned'
    BY <1>t, <1>18
    DEF EnqueueDueRetries, Due, StatusIsEarned, SeenOK, Alone, AloneOK, EarnedOK, Decided, row, client, hist
  <2> QED  BY <2>1, <2>2, <2>3, <2>4, <2>5 DEF Earned
<1>19. CASE Tick
  <2>1. SeenOK'
    BY <1>t, <1>19
    DEF Tick, SeenOK, row
  <2>2. EarnedOK'
    BY <1>t, <1>19
    DEF Tick, EarnedOK, SeenOK, row, hist
  <2>3. AloneOK'
    BY <1>t, <1>19
    DEF Tick, AloneOK, Alone, FreshOK, StatusIsEarned, EarnedOK, Decided, row, client
  <2>4. FreshOK'
    BY <1>t, <1>19
    DEF Tick, FreshOK, bus, client
  <2>5. StatusIsEarned'
    BY <1>t, <1>19
    DEF Tick, StatusIsEarned, SeenOK, Alone, AloneOK, EarnedOK, Decided, row, client, hist
  <2> QED  BY <2>1, <2>2, <2>3, <2>4, <2>5 DEF Earned
<1>20. CASE UNCHANGED vars
  <2>1. SeenOK'
    BY <1>t, <1>20
    DEF vars, SeenOK, row
  <2>2. EarnedOK'
    BY <1>t, <1>20
    DEF vars, EarnedOK, SeenOK, row, hist
  <2>3. AloneOK'
    BY <1>t, <1>20
    DEF vars, AloneOK, Alone, FreshOK, StatusIsEarned, EarnedOK, Decided, row, client
  <2>4. FreshOK'
    BY <1>t, <1>20
    DEF vars, FreshOK, bus, client
  <2>5. StatusIsEarned'
    BY <1>t, <1>20
    DEF vars, StatusIsEarned, SeenOK, Alone, AloneOK, EarnedOK, Decided, row, client, hist
  <2> QED  BY <2>1, <2>2, <2>3, <2>4, <2>5 DEF Earned
<1> QED
  BY <1>1, <1>2, <1>3, <1>4, <1>5, <1>6, <1>7, <1>8, <1>9, <1>10,
     <1>11, <1>12, <1>13, <1>14, <1>15, <1>16, <1>17, <1>18, <1>19, <1>20
  DEF Next, Process

\* Who still has a command, a call or a time for a notification.
LEMMA KeptStep == TypeOK /\ Earned /\ Kept /\ [Next]_vars => Kept'
<1> SUFFICES ASSUME TypeOK, SeenOK, FreshOK, NoRowOK, OverOK, NotStranded, [Next]_vars
             PROVE  Kept'
  BY DEF Earned, Kept
<1> USE DEF Goto, Never
<1>t. /\ job \in [Workers -> Keys] /\ caller \in [Keys -> Workers \union {Unsent, Answered}]
      /\ pc \in [Workers -> Stages] /\ fresh \in [Workers -> BOOLEAN]
      /\ status \in [Keys -> Statuses] /\ outbox \in [Keys -> Nat]
      /\ next_at \in [Keys -> Nat \union {-1}] /\ seen \in [Workers -> Nat]
      /\ transport \in {"kafka", "grpc"}
  BY TransportAssumption DEF TypeOK
<1>f. \A v, w \in Workers : fresh[v] /\ fresh[w] => v = w
  BY DEF FreshOK
<1>w. Unsent # Answered /\ \A w \in Workers : w # Answered
  BY WorkersAssumption DEF Unsent, Answered
<1>s. topic \in Seq(Keys)
  BY DEF TypeOK
<1>h. topic # <<>> => /\ Head(topic) \in Keys /\ Tail(topic) \in Seq(Keys)
                      /\ ToSet(topic) = {Head(topic)} \union ToSet(Tail(topic))
  BY <1>s, TailSet, Zenon
<1>a. ASSUME NEW k \in Keys
      PROVE  /\ ToSet(Append(topic, k)) = ToSet(topic) \union {k}
             /\ topic # <<>> =>
                  ToSet(Tail(Append(topic, k))) = ToSet(Tail(topic)) \union {k}
  <2>1. ToSet(Append(topic, k)) = ToSet(topic) \union {k}
    BY <1>s, AppendSet
  <2>2. ASSUME topic # <<>>
        PROVE  ToSet(Tail(Append(topic, k))) = ToSet(Tail(topic)) \union {k}
    <3>1. Tail(Append(topic, k)) = Append(Tail(topic), k)
      BY <1>s, <2>2, AppendSet, Zenon
    <3>2. \A s \in Seq(Keys) : ToSet(Append(s, k)) = ToSet(s) \union {k}
      BY AppendSet
    <3> QED  BY <1>h, <2>2, <3>1, <3>2
  <2> QED  BY <2>1, <2>2
<1>e. \A w \in Workers : fresh[w] => topic # <<>>
  BY DEF FreshOK
<1>1. ASSUME NEW k \in Keys, Request(k) PROVE Kept'
  <2>1. /\ ToSet(topic) \subseteq ToSet(topic')
        /\ topic # <<>> => ToSet(Tail(topic)) \subseteq ToSet(Tail(topic'))
    <3>1. topic' \in {topic, Append(topic, k)}
      BY <1>1 DEF Request
    <3> QED  BY <1>a, <3>1
  <2>2. UNCHANGED <<row, outbox, client, pc, job>>
    BY <1>1 DEF Request
  <2>3. NoRowOK'
    BY <1>t, <1>e, <2>1, <2>2 DEF NoRowOK, SeenOK, row, bus, client
  <2>4. OverOK'
    BY <1>t, <1>e, <2>1, <2>2 DEF OverOK, Over, SeenOK, row, bus, client
  <2>5. NotStranded'
    BY <1>t, <1>e, <2>1, <2>2 DEF NotStranded, NoRowOK, row, bus, client
  <2> QED  BY <2>3, <2>4, <2>5 DEF Kept
<1>2. ASSUME NEW k \in Keys, DuplicateCommand(k) PROVE Kept'
  <2>1. /\ ToSet(topic) \subseteq ToSet(topic')
        /\ topic # <<>> => ToSet(Tail(topic)) \subseteq ToSet(Tail(topic'))
    <3>1. topic' \in {topic, Append(topic, k)}
      BY <1>2 DEF DuplicateCommand, Fault
    <3> QED  BY <1>a, <3>1
  <2>2. UNCHANGED <<row, outbox, client, pc, job>>
    BY <1>2 DEF DuplicateCommand, Fault
  <2>3. NoRowOK'
    BY <1>t, <1>e, <2>1, <2>2 DEF NoRowOK, SeenOK, row, bus, client
  <2>4. OverOK'
    BY <1>t, <1>e, <2>1, <2>2 DEF OverOK, Over, SeenOK, row, bus, client
  <2>5. NotStranded'
    BY <1>t, <1>e, <2>1, <2>2 DEF NotStranded, NoRowOK, row, bus, client
  <2> QED  BY <2>3, <2>4, <2>5 DEF Kept
<1>3. ASSUME NEW k \in Keys, CallTimeout(k) PROVE Kept'
  <2>1. NoRowOK'
    BY <1>t, <1>w, <1>3 DEF CallTimeout, NoRowOK, SeenOK, row, bus, client
  <2>2. OverOK'
    BY <1>t, <1>w, <1>3 DEF CallTimeout, OverOK, Over, SeenOK, row, bus, client
  <2>3. NotStranded'
    BY <1>t, <1>w, <1>3 DEF CallTimeout, NotStranded, NoRowOK, row, bus, client
  <2> QED  BY <2>1, <2>2, <2>3 DEF Kept
<1>4. ASSUME NEW k \in Keys, RelayPublish(k) PROVE Kept'
  <2>1. /\ ToSet(topic') = ToSet(topic) \union {k}
        /\ topic # <<>> => ToSet(Tail(topic')) = ToSet(Tail(topic)) \union {k}
        /\ outbox' = [outbox EXCEPT ![k] = @ - 1] /\ outbox[k] > 0
        /\ UNCHANGED <<row, client, pc, job>>
    BY <1>a, <1>4 DEF RelayPublish
  <2>2. NoRowOK'
    BY <1>t, <1>e, <2>1 DEF NoRowOK, SeenOK, row, bus, client
  <2>3. OverOK'
    BY <1>t, <1>e, <2>1 DEF OverOK, Over, SeenOK, row, bus, client
  <2>4. NotStranded'
    BY <1>t, <1>e, <2>1 DEF NotStranded, NoRowOK, row, bus, client
  <2> QED  BY <2>2, <2>3, <2>4 DEF Kept
<1>5. ASSUME NEW v \in Workers, FetchMessage(v) PROVE Kept'
  <2>1. job'[v] \in ToSet(topic)
    BY <1>t, <1>h, <1>5 DEF FetchMessage
  <2>2. NoRowOK'
    BY <1>t, <1>5, <2>1 DEF FetchMessage, NoRowOK, SeenOK, row, bus, client
  <2>3. OverOK'
    BY <1>t, <1>5, <2>1 DEF FetchMessage, OverOK, Over, SeenOK, row, bus, client
  <2>4. NotStranded'
    BY <1>t, <1>5, <2>1 DEF FetchMessage, NotStranded, NoRowOK, row, bus, client
  <2> QED  BY <2>2, <2>3, <2>4 DEF Kept
<1>6. ASSUME NEW v \in Workers, Rebalance(v) PROVE Kept'
  <2>1. NoRowOK'
    BY <1>t, <1>6 DEF Rebalance, NoRowOK, SeenOK, row, bus, client
  <2>2. OverOK'
    BY <1>t, <1>6 DEF Rebalance, OverOK, Over, SeenOK, row, bus, client
  <2>3. NotStranded'
    BY <1>t, <1>6 DEF Rebalance, NotStranded, NoRowOK, row, bus, client
  <2> QED  BY <2>1, <2>2, <2>3 DEF Kept
<1>7. ASSUME NEW v \in Workers, UpsertPending(v) PROVE Kept'
  <2>1. NoRowOK'
    BY <1>t, <1>7 DEF UpsertPending, NoRowOK, SeenOK, row, bus, client
  <2>2. OverOK'
    BY <1>t, <1>7 DEF UpsertPending, OverOK, Over, SeenOK, row, bus, client
  <2>3. NotStranded'
    BY <1>t, <1>7 DEF UpsertPending, NotStranded, NoRowOK, row, bus, client
  <2> QED  BY <2>1, <2>2, <2>3 DEF Kept
<1>8. ASSUME NEW v \in Workers, SendOk(v) PROVE Kept'
  <2>1. NoRowOK'
    BY <1>t, <1>8 DEF SendOk, NoRowOK, SeenOK, row, bus, client
  <2>2. OverOK'
    BY <1>t, <1>8 DEF SendOk, OverOK, Over, SeenOK, row, bus, client
  <2>3. NotStranded'
    BY <1>t, <1>8 DEF SendOk, NotStranded, NoRowOK, row, bus, client
  <2> QED  BY <2>1, <2>2, <2>3 DEF Kept
<1>9. ASSUME NEW v \in Workers, SendFail(v) PROVE Kept'
  <2>1. NoRowOK'
    BY <1>t, <1>9 DEF SendFail, AfterFailure, NoRowOK, SeenOK, row, bus, client
  <2>2. OverOK'
    BY <1>t, <1>9 DEF SendFail, AfterFailure, OverOK, Over, SeenOK, row, bus, client
  <2>3. NotStranded'
    BY <1>t, <1>9 DEF SendFail, AfterFailure, NotStranded, NoRowOK, row, bus, client
  <2> QED  BY <2>1, <2>2, <2>3 DEF Kept
<1>10. ASSUME NEW v \in Workers, MarkSent(v) PROVE Kept'
  <2>1. NoRowOK'
    BY <1>t, <1>10 DEF MarkSent, NoRowOK, SeenOK, row, bus, client
  <2>2. OverOK'
    BY <1>t, <1>10 DEF MarkSent, OverOK, Over, SeenOK, row, bus, client
  <2>3. NotStranded'
    BY <1>t, <1>10 DEF MarkSent, NotStranded, NoRowOK, row, bus, client
  <2> QED  BY <2>1, <2>2, <2>3 DEF Kept
<1>11. ASSUME NEW v \in Workers, MarkFailed(v) PROVE Kept'
  <2>1. retryDelay(seen[v] + 1) \in Nat
    BY <1>t, RetryDelay
  <2>2. NoRowOK'
    BY <1>t, <2>1, <1>11 DEF MarkFailed, NoRowOK, SeenOK, row, bus, client
  <2>3. OverOK'
    BY <1>t, <2>1, <1>11 DEF MarkFailed, OverOK, Over, SeenOK, row, bus, client
  <2>4. NotStranded'
    BY <1>t, <2>1, <1>11 DEF MarkFailed, NotStranded, NoRowOK, row, bus, client
  <2> QED  BY <2>2, <2>3, <2>4 DEF Kept
<1>12. ASSUME NEW v \in Workers, MarkDead(v) PROVE Kept'
  <2>1. NoRowOK'
    BY <1>t, <1>12 DEF MarkDead, NoRowOK, SeenOK, row, bus, client
  <2>2. OverOK'
    BY <1>t, <1>12 DEF MarkDead, OverOK, Over, SeenOK, row, bus, client
  <2>3. NotStranded'
    BY <1>t, <1>12 DEF MarkDead, NotStranded, NoRowOK, row, bus, client
  <2> QED  BY <2>1, <2>2, <2>3 DEF Kept
<1>13. ASSUME NEW v \in Workers, DeadLetter(v) PROVE Kept'
  <2>1. NoRowOK'
    BY <1>t, <1>13 DEF DeadLetter, NoRowOK, SeenOK, row, bus, client
  <2>2. OverOK'
    BY <1>t, <1>13 DEF DeadLetter, OverOK, Over, SeenOK, row, bus, client
  <2>3. NotStranded'
    BY <1>t, <1>13 DEF DeadLetter, NotStranded, NoRowOK, row, bus, client
  <2> QED  BY <2>1, <2>2, <2>3 DEF Kept
<1>14. ASSUME NEW v \in Workers, Finish(v) PROVE Kept'
  <2>1. /\ \A w \in Workers \ {v} : UNCHANGED <<pc[w], job[w], fresh[w]>>
        /\ pc[v] = "finish" /\ pc'[v] = "idle"
        /\ topic' = IF fresh[v] THEN Tail(topic) ELSE topic
        /\ \A k \in Keys :
             caller'[k] = IF k = job[v] /\ caller[k] = v THEN Answered ELSE caller[k]
        /\ UNCHANGED <<row, outbox, transport>>
    BY <1>t, <1>14 DEF Finish, Return
  <2>2. status[job[v]] # "none"
    BY <2>1 DEF SeenOK
  <2>3. fresh[v] => /\ transport = "kafka" /\ ToSet(topic) = {job[v]} \union ToSet(topic')
                    /\ \A w \in Workers \ {v} : ~fresh[w]
    BY <1>f, <1>h, <2>1 DEF FreshOK
  <2>4. ~fresh[v] => ToSet(topic') = ToSet(topic)
    BY <2>1
  <2>5. NoRowOK'
    BY <1>t, <2>1, <2>2, <2>3, <2>4 DEF NoRowOK, SeenOK, row, bus, client
  <2>6. OverOK'
    BY <1>t, <2>1, <2>2, <2>3, <2>4 DEF OverOK, Over, SeenOK, row, bus, client
  <2>7. ASSUME NEW k \in Keys, status[k] = "pending"
        PROVE  \/ outbox[k] > 0 \/ k \in ToSet(topic')
               \/ (transport = "grpc" /\ caller'[k] # Answered)
    <3>1. CASE k = job[v]
      BY <2>1, <2>3, <2>4, <2>7, <3>1 DEF OverOK, Over, NotStranded
    <3>2. CASE k # job[v]
      BY <2>1, <2>3, <2>4, <2>7, <3>2 DEF NotStranded
    <3> QED  BY <3>1, <3>2
  <2>8. NotStranded'
    BY <2>1, <2>7 DEF NotStranded, row
  <2> QED  BY <2>5, <2>6, <2>8 DEF Kept
<1>15. ASSUME NEW v \in Workers, Cancelled(v) PROVE Kept'
  <2>1. NoRowOK'
    BY <1>t, <1>15 DEF Cancelled, Return, NoRowOK, SeenOK, row, bus, client
  <2>2. OverOK'
    BY <1>t, <1>15 DEF Cancelled, Return, OverOK, Over, SeenOK, row, bus, client
  <2>3. NotStranded'
    BY <1>t, <1>15 DEF Cancelled, Return, NotStranded, NoRowOK, row, bus, client
  <2> QED  BY <2>1, <2>2, <2>3 DEF Kept
<1>16. ASSUME NEW v \in Workers, Abort(v) PROVE Kept'
  <2>1. NoRowOK'
    BY <1>t, <1>w, <1>16 DEF Abort, Return, NoRowOK, SeenOK, row, bus, client
  <2>2. OverOK'
    BY <1>t, <1>w, <1>16 DEF Abort, Return, OverOK, Over, SeenOK, row, bus, client
  <2>3. NotStranded'
    BY <1>t, <1>w, <1>16 DEF Abort, Return, NotStranded, NoRowOK, row, bus, client
  <2> QED  BY <2>1, <2>2, <2>3 DEF Kept
<1>17. ASSUME NEW v \in Workers, NEW k \in Keys, SendNotification(v, k) PROVE Kept'
  <2>1. NoRowOK'
    BY <1>t, <1>w, <1>17 DEF SendNotification, NoRowOK, SeenOK, row, bus, client
  <2>2. OverOK'
    BY <1>t, <1>w, <1>17 DEF SendNotification, OverOK, Over, SeenOK, row, bus, client
  <2>3. NotStranded'
    BY <1>t, <1>w, <1>17 DEF SendNotification, NotStranded, NoRowOK, row, bus, client
  <2> QED  BY <2>1, <2>2, <2>3 DEF Kept
<1>18. CASE EnqueueDueRetries
  <2>1. NoRowOK'
    BY <1>t, <1>18 DEF EnqueueDueRetries, Due, NoRowOK, SeenOK, row, bus, client
  <2>2. OverOK'
    BY <1>t, <1>18 DEF EnqueueDueRetries, Due, OverOK, Over, SeenOK, row, bus, client
  <2>3. NotStranded'
    BY <1>t, <1>18 DEF EnqueueDueRetries, Due, NotStranded, NoRowOK, row, bus, client
  <2> QED  BY <2>1, <2>2, <2>3 DEF Kept
<1>19. CASE Tick
  <2>1. NoRowOK'
    BY <1>t, <1>19 DEF Tick, NoRowOK, SeenOK, row, bus, client
  <2>2. OverOK'
    BY <1>t, <1>19 DEF Tick, OverOK, Over, SeenOK, row, bus, client
  <2>3. NotStranded'
    BY <1>t, <1>19 DEF Tick, NotStranded, NoRowOK, row, bus, client
  <2> QED  BY <2>1, <2>2, <2>3 DEF Kept
<1>20. CASE UNCHANGED vars
  <2>1. NoRowOK'
    BY <1>t, <1>20 DEF vars, NoRowOK, SeenOK, row, bus, client
  <2>2. OverOK'
    BY <1>t, <1>20 DEF vars, OverOK, Over, SeenOK, row, bus, client
  <2>3. NotStranded'
    BY <1>t, <1>20 DEF vars, NotStranded, NoRowOK, row, bus, client
  <2> QED  BY <2>1, <2>2, <2>3 DEF Kept
<1> QED
  BY <1>1, <1>2, <1>3, <1>4, <1>5, <1>6, <1>7, <1>8, <1>9, <1>10,
     <1>11, <1>12, <1>13, <1>14, <1>15, <1>16, <1>17, <1>18, <1>19, <1>20
  DEF Next, Process

LEMMA InitIInv == Init => IInv
<1> SUFFICES ASSUME Init PROVE IInv
  OBVIOUS
<1>k. (CHOOSE k \in Keys : TRUE) \in Keys /\ (CHOOSE w \in Workers : TRUE) \in Workers
  BY SomeKeyAssumption, WorkersAssumption
<1>1. TypeOK
  <2>1. 0 \in 0..MaxFaults
    BY FaultsAssumption
  <2>2. /\ transport \in Transports /\ owner \in Workers /\ faults \in 0..MaxFaults
        /\ topic \in Seq(Keys) /\ requested \subseteq Keys /\ moved \in BOOLEAN
    <3>1. topic = <<>> /\ <<>> \in Seq(Keys)
      BY DEF Init
    <3>2. transport \in Transports /\ faults \in 0..MaxFaults
      BY <2>1 DEF Init
    <3>3. requested \subseteq Keys /\ moved \in BOOLEAN
      BY DEF Init
    <3> QED  BY <1>k, <3>1, <3>2, <3>3, Zenon DEF Init
  <2>3. /\ status \in [Keys -> Statuses] /\ attempt \in [Keys -> Nat]
        /\ next_at \in [Keys -> Nat \union {Never}] /\ outbox \in [Keys -> Nat]
        /\ caller \in [Keys -> Workers \union {Unsent, Answered}]
        /\ emails \in [Keys -> Nat] /\ dlq \in [Keys -> Nat]
    BY DEF Init, Statuses
  <2>4. /\ pc \in [Workers -> Stages] /\ seen \in [Workers -> Nat]
        /\ fresh \in [Workers -> BOOLEAN]
    BY DEF Init, Stages
  <2>5. job \in [Workers -> Keys]
    BY <1>k DEF Init
  <2> QED  BY <2>2, <2>3, <2>4, <2>5 DEF TypeOK
<1>2. Earned
  BY AttemptsAssumption
  DEF Init, Earned, SeenOK, EarnedOK, AloneOK, FreshOK, StatusIsEarned
<1>3. Kept
  BY DEF Init, Kept, NoRowOK, OverOK, Over, NotStranded, Unsent, Answered
<1> QED  BY <1>1, <1>2, <1>3 DEF IInv

\* The inductive invariant.
THEOREM Invariant == Spec => []IInv
<1>1. IInv /\ [Next]_vars => IInv'
  BY TypeStep, EarnedStep, KeptStep DEF IInv, Earned
<1> QED  BY InitIInv, <1>1, PTL DEF Spec

\* Every variable of the delivery service stays in its type.
THEOREM TypeCorrect == Spec => []TypeOK
<1>1. IInv => TypeOK
  BY DEF IInv
<1> QED  BY Invariant, <1>1, PTL

\* Service.Process writes sent only after the SMTP server took the message, and
\* dead only after MaxAttempts failures were counted; with one consumer the
\* count is exact.
THEOREM StatusEarned == Spec => []StatusIsEarned
<1>1. IInv => StatusIsEarned
  BY DEF IInv, Earned
<1> QED  BY Invariant, <1>1, PTL

\* No pending row is without a command or a caller, no failed row without the
\* time at which EnqueueDueRetries finds it.
THEOREM NobodyStranded == Spec => []NotStranded
<1>1. IInv => NotStranded
  BY DEF IInv, Kept
<1> QED  BY Invariant, <1>1, PTL

-----------------------------------------------------------------------------
\* ReleaseFanout: the workers of Delivery with the expander in front of them.

\* The expander has read its subscribers for an event it still has, and has at
\* most one call in flight, for one of them.
ExpanderOK ==
  /\ expanding => events # <<>>
  /\ todo # {} => expanding
  /\ call # Nobody => call \in todo /\ transport = "grpc"

\* Whoever waits is the expander, and a worker has what it waits for.
CallerOK ==
  \A k \in Keys : caller[k] \in Workers =>
    /\ call # Nobody /\ Asked(call) = k
    /\ pc[caller[k]] # "idle" /\ job[caller[k]] = k

\* The one consumer of the partition works on what is not settled yet.
UnsettledOK ==
  /\ ~moved
  /\ transport = "kafka" => \A w \in Workers :
       pc[w] \in Decided => status[job[w]] \notin {"sent", "dead"}

MayWrite == {"upsert", "send", "markfailed", "markdead"}

\* Somebody still wants to know how the command of this worker ends.
Waited(w) == transport = "kafka" \/ caller[job[w]] = w

\* A call nobody waits for that may still send a mail, or write that a mail which
\* was sent has failed.
Astray(w, k) == job[w] = k /\ pc[w] \in MayWrite /\ ~Waited(w)
Stale(k) == {w \in Workers : Astray(w, k)}

\* A worker will write that the mail was sent, or has read that it was not and
\* has not yet written what came of it.
Marks(w, k) == job[w] = k /\ pc[w] = "marksent" /\ Waited(w)
Decides(w, k) == job[w] = k /\ pc[w] \in MayWrite \ {"upsert"} /\ Waited(w)

\* One mail is due: the row says it was sent, or will.
Counted(k) == status[k] = "sent" \/ \E w \in Workers : Marks(w, k)
Deciding(k) == \E w \in Workers : Decides(w, k)

\* Every other mail, and every stale call, has a fault or a rerun of its own.
Excuses == faults + (IF transport = "grpc" THEN reruns ELSE 0)
Bill(k) == emails[k] + Cardinality(Stale(k))
Balanced(k) ==
  /\ Bill(k) <= Excuses + 1
  /\ Bill(k) <= Excuses \/ (Counted(k) /\ ~Deciding(k))

AccountOK == \A k \in Keys : Balanced(k)

Expansion == ExpanderOK /\ CallerOK /\ UnsettledOK
FInv == FanoutTypeOK /\ Earned /\ Expansion /\ AccountOK

\* What the expander asks for is a notification.
LEMMA AskedKey ==
  FanoutTypeOK /\ ExpanderOK =>
    /\ \A a \in todo : Asked(a) \in Keys /\ a # Nobody /\ events # <<>>
    /\ call # Nobody => Asked(call) \in Keys /\ call \in Addresses
<1> SUFFICES ASSUME FanoutTypeOK, ExpanderOK
             PROVE  /\ \A a \in todo : Asked(a) \in Keys /\ a # Nobody /\ events # <<>>
                    /\ call # Nobody => Asked(call) \in Keys /\ call \in Addresses
  OBVIOUS
<1>1. ASSUME NEW a \in todo PROVE Asked(a) \in Keys /\ a # Nobody /\ events # <<>>
  <2>1. events \in Seq(Tags) /\ events # <<>> /\ a \in Addresses
    BY DEF FanoutTypeOK, ExpanderOK
  <2>2. Head(events) \in Tags
    BY <2>1
  <2>3. Asked(a) \in Keys
    BY <2>1, <2>2, KeysAssumption DEF Asked, Key
  <2> QED  BY <2>1, <2>3, NobodyAssumption
<1>2. call # Nobody => call \in todo
  BY DEF ExpanderOK
<1>3. call # Nobody => call \in Addresses
  BY DEF FanoutTypeOK
<1> QED  BY <1>1, <1>2, <1>3

\* The steps of FanoutNext that are steps of Delivery.
LEMMA DeliverySteps ==
  ASSUME \/ \E w \in Workers : Deliver(w)
         \/ \E k \in Keys : CallTimeout(k)
  PROVE  Next
BY DEF Deliver, Next

\* What the steps of FanoutNext do to the variables of Delivery.
LEMMA ExpanderSteps ==
  ASSUME TypeOK, FanoutTypeOK, ExpanderOK, [FanoutNext]_allvars
  PROVE  \/ Next /\ UNCHANGED fanout
         \/ UNCHANGED vars
         \/ \E k \in Keys : /\ topic' = Append(topic, k)
                            /\ requested' \in {requested, requested \union {k}}
                            /\ UNCHANGED <<row, outbox, client, pc, job, seen, hist, faults>>
         \/ \E w \in Workers, a \in Addresses : CallSendNotification(w, a)
         \/ ExpandFails
<1>1. ASSUME NEW t \in Tags, ReleaseDetected(t) PROVE UNCHANGED vars
  BY <1>1 DEF ReleaseDetected
<1>2. ASSUME NEW a \in Addresses, SubscriberChanges(a) PROVE UNCHANGED vars
  BY <1>2 DEF SubscriberChanges
<1>3. ASSUME NEW k \in Keys, RelayRepeats(k)
      PROVE  /\ topic' = Append(topic, k)
             /\ requested' \in {requested, requested \union {k}}
             /\ UNCHANGED <<row, outbox, client, pc, job, seen, hist, faults>>
  BY <1>3 DEF RelayRepeats
<1>4. ASSUME NEW a \in Addresses, PublishReleaseNotification(a)
      PROVE  /\ Asked(a) \in Keys
             /\ topic' = Append(topic, Asked(a))
             /\ requested' \in {requested, requested \union {Asked(a)}}
             /\ UNCHANGED <<row, outbox, client, pc, job, seen, hist, faults>>
  BY <1>4, AskedKey DEF PublishReleaseNotification
<1>5. ASSUME GetSubscribers \/ CallReturns \/ CallFails \/ ExpandDone PROVE UNCHANGED vars
  BY <1>5 DEF GetSubscribers, CallReturns, CallFails, ExpandDone
<1>6. ASSUME UNCHANGED allvars PROVE UNCHANGED vars
  BY <1>6 DEF allvars
<1> QED
  BY <1>1, <1>2, <1>3, <1>4, <1>5, <1>6, DeliverySteps DEF FanoutNext, Expand

\* Types.
LEMMA FanoutTypeStep ==
  ASSUME FanoutTypeOK, FreshOK, ExpanderOK, [FanoutNext]_allvars
  PROVE  FanoutTypeOK'
<1> USE FanoutBoundsAssumption
<1>0. TypeOK
  BY DEF FanoutTypeOK
<1>1. TypeOK'
  <2>1. CASE Next \/ UNCHANGED vars
    BY <1>0, <2>1, TypeStep
  <2>2. ASSUME NEW k \in Keys, topic' = Append(topic, k),
               requested' \in {requested, requested \union {k}},
               UNCHANGED <<row, outbox, client, pc, job, seen, hist, faults>>
        PROVE  TypeOK'
    <3>1. topic' \in Seq(Keys)
      BY <1>0, <2>2, AppendSet DEF TypeOK
    <3> QED  BY <1>0, <2>2, <3>1 DEF TypeOK, row, client, hist
  <2>3. ASSUME NEW w \in Workers, NEW a \in Addresses, CallSendNotification(w, a)
        PROVE  TypeOK'
    <3>1. Asked(a) \in Keys
      BY <2>3, AskedKey DEF CallSendNotification
    <3>2. /\ job' \in [Workers -> Keys] /\ requested' \subseteq Keys
          /\ caller' \in [Keys -> Workers \union {Unsent, Answered}]
          /\ pc' \in [Workers -> Stages]
      BY <1>0, <2>3, <3>1 DEF CallSendNotification, TypeOK, Stages
    <3> QED  BY <1>0, <2>3, <3>2 DEF CallSendNotification, TypeOK, row, hist
  <2>4. CASE ExpandFails
    <3>1. caller' \in [Keys -> Workers \union {Unsent, Answered}]
      BY <1>0, <2>4 DEF ExpandFails, TypeOK
    <3> QED  BY <1>0, <2>4, <3>1 DEF ExpandFails, TypeOK, row, bus, hist
  <2> QED  BY <1>0, <2>1, <2>2, <2>3, <2>4, ExpanderSteps
<1>2. events' \in Seq(Tags)
  <2>0. events \in Seq(Tags)
    BY DEF FanoutTypeOK
  <2>1. CASE UNCHANGED events
    BY <2>0, <2>1
  <2>2. ASSUME NEW t \in Tags, ReleaseDetected(t) PROVE events' \in Seq(Tags)
    BY <2>0, <2>2, AppendSet DEF ReleaseDetected
  <2>3. CASE ExpandDone
    BY <2>0, <2>3, TailSet DEF ExpandDone, ExpanderOK
  <2> QED
    BY <2>1, <2>2, <2>3
    DEF FanoutNext, Expand, SubscriberChanges, RelayRepeats, GetSubscribers,
        PublishReleaseNotification, CallSendNotification, CallReturns, CallFails,
        ExpandFails, allvars, fanout, expander
<1>3. /\ confirmed' \subseteq Addresses /\ detected' \subseteq Tags
      /\ reruns' \in 0..MaxReruns /\ changes' \in 0..MaxChanges
  BY DEF FanoutTypeOK, FanoutNext, Expand, ReleaseDetected, SubscriberChanges,
         RelayRepeats, GetSubscribers, PublishReleaseNotification,
         CallSendNotification, CallReturns, CallFails, ExpandDone, ExpandFails,
         Rerun, allvars, fanout, world
<1>4. expanding' \in BOOLEAN /\ todo' \subseteq Addresses /\ call' \in Addresses \union {Nobody}
  BY DEF FanoutTypeOK, FanoutNext, Expand, ReleaseDetected, SubscriberChanges,
         RelayRepeats, GetSubscribers, PublishReleaseNotification,
         CallSendNotification, CallReturns, CallFails, ExpandDone, ExpandFails,
         GiveUp, allvars, fanout, expander
<1> QED  BY <1>1, <1>2, <1>3, <1>4 DEF FanoutTypeOK

\* The queue and the rows are what Delivery makes of them.
LEMMA FanoutEarnedStep ==
  ASSUME FanoutTypeOK, Earned, ExpanderOK, [FanoutNext]_allvars
  PROVE  Earned'
<1>0. TypeOK
  BY DEF FanoutTypeOK
<1>1. CASE Next \/ UNCHANGED vars
  BY <1>0, <1>1, EarnedStep
<1>2. ASSUME NEW k \in Keys, topic' = Append(topic, k),
             UNCHANGED <<row, outbox, client, pc, job, seen, hist, faults>>
      PROVE  Earned'
  BY <1>0, <1>2, QueueKeepsEarned
<1>3. ASSUME NEW w \in Workers, NEW a \in Addresses, CallSendNotification(w, a)
      PROVE  Earned'
  <2>1. Asked(a) \in Keys
    BY <1>3, AskedKey DEF CallSendNotification
  <2> QED  BY <1>0, <1>3, <2>1, CallKeepsEarned DEF CallSendNotification
<1>4. CASE ExpandFails
  BY <1>0, <1>4, CallerKeepsEarned DEF ExpandFails, bus
<1> QED  BY <1>0, <1>1, <1>2, <1>3, <1>4, ExpanderSteps

\* The expander and the worker it waits for.
LEMMA ExpanderStep ==
  ASSUME FanoutTypeOK, ExpanderOK, [FanoutNext]_allvars
  PROVE  ExpanderOK'
<1> USE NobodyAssumption DEF ExpanderOK
<1>s. events \in Seq(Tags)
  BY DEF FanoutTypeOK
<1>1. ASSUME NEW t \in Tags, ReleaseDetected(t) PROVE ExpanderOK'
  <2>1. events' # <<>>
    BY <1>s, <1>1, AppendSet DEF ReleaseDetected
  <2> QED  BY <1>1, <2>1 DEF ReleaseDetected, vars, client
<1>2. ASSUME NEW a \in Addresses, SubscriberChanges(a) PROVE ExpanderOK'
  BY <1>2 DEF SubscriberChanges, expander, vars, client
<1>3. ASSUME NEW k \in Keys, RelayRepeats(k) PROVE ExpanderOK'
  BY <1>3 DEF RelayRepeats, expander, client
<1>4. CASE GetSubscribers
  BY <1>4 DEF GetSubscribers, vars, client
<1>5. ASSUME NEW a \in Addresses, PublishReleaseNotification(a) PROVE ExpanderOK'
  BY <1>5 DEF PublishReleaseNotification, client
<1>6. ASSUME NEW w \in Workers, NEW a \in Addresses, CallSendNotification(w, a)
      PROVE  ExpanderOK'
  BY <1>6 DEF CallSendNotification
<1>7. CASE CallReturns
  BY <1>7 DEF CallReturns
<1>8. CASE CallFails \/ ExpandFails \/ ExpandDone
  BY <1>8 DEF CallFails, ExpandFails, ExpandDone, GiveUp
<1>9. ASSUME Next, UNCHANGED fanout PROVE ExpanderOK'
  <2>1. UNCHANGED transport
    BY <1>9
    DEF Next, Request, DuplicateCommand, CallTimeout, RelayPublish, FetchMessage,
        Rebalance, Process, UpsertPending, SendOk, SendFail, MarkSent, MarkFailed,
        MarkDead, DeadLetter, Finish, Cancelled, Abort, SendNotification,
        EnqueueDueRetries, Tick, client
  <2> QED  BY <1>9, <2>1 DEF fanout, expander
<1>10. CASE UNCHANGED allvars
  BY <1>10 DEF allvars, fanout, expander, vars, client
<1> QED
  BY <1>1, <1>2, <1>3, <1>4, <1>5, <1>6, <1>7, <1>8, <1>9, <1>10, DeliverySteps
  DEF FanoutNext, Expand

LEMMA CallerStep ==
  ASSUME FanoutTypeOK, ExpanderOK, CallerOK, [FanoutNext]_allvars
  PROVE  CallerOK'
<1> USE DEF CallerOK
<1>t. /\ caller \in [Keys -> Workers \union {Unsent, Answered}]
      /\ job \in [Workers -> Keys] /\ pc \in [Workers -> Stages]
  BY DEF FanoutTypeOK, TypeOK
<1>w. Unsent \notin Workers /\ Answered \notin Workers
  BY WorkersAssumption DEF Unsent, Answered
<1>s. events \in Seq(Tags)
  BY DEF FanoutTypeOK
<1>c. call # Nobody => call \in todo /\ expanding /\ events # <<>> /\ transport = "grpc"
  BY DEF ExpanderOK
<1>k. transport = "kafka" => \A k \in Keys : caller[k] \notin Workers
  BY <1>c
<1>1. ASSUME NEW t \in Tags, ReleaseDetected(t) PROVE CallerOK'
  <2>1. events # <<>> => Head(events') = Head(events)
    BY <1>s, <1>1, AppendSet DEF ReleaseDetected
  <2> QED  BY <1>c, <1>1, <2>1 DEF ReleaseDetected, vars, client, Asked
<1>2. ASSUME NEW a \in Addresses, SubscriberChanges(a) PROVE CallerOK'
  BY <1>2 DEF SubscriberChanges, expander, vars, client, Asked
<1>3. ASSUME NEW k \in Keys, RelayRepeats(k) PROVE CallerOK'
  BY <1>3 DEF RelayRepeats, expander, client, Asked
<1>4. CASE GetSubscribers
  BY <1>4 DEF GetSubscribers, vars, client, Asked
<1>5. ASSUME NEW a \in Addresses, PublishReleaseNotification(a) PROVE CallerOK'
  BY <1>5 DEF PublishReleaseNotification, client, Asked
<1>6. ASSUME NEW w \in Workers, NEW a \in Addresses, CallSendNotification(w, a)
      PROVE  CallerOK'
  <2>1. Asked(a) \in Keys /\ Asked(a)' = Asked(a) /\ a # Nobody
    BY <1>6, AskedKey DEF CallSendNotification, Asked, Key
  <2>2. \A k \in Keys : caller[k] \notin Workers
    BY <1>6 DEF CallSendNotification
  <2>3. call' = a /\ \A k \in Keys : caller'[k] = IF k = Asked(a) THEN w ELSE caller[k]
    BY <1>t, <1>6, <2>1 DEF CallSendNotification
  <2>4. pc'[w] = "upsert" /\ job'[w] = Asked(a)
    BY <1>t, <1>6, <2>1 DEF CallSendNotification
  <2>5. Asked(call)' = Asked(a)
    BY <1>6, <2>3 DEF CallSendNotification, Asked
  <2> QED  BY <2>1, <2>2, <2>3, <2>4, <2>5
<1>7. ASSUME CallReturns \/ CallFails PROVE CallerOK'
  <2>1. \A k \in Keys : caller[k] \notin Workers
    BY <1>w, <1>7 DEF CallReturns, CallFails
  <2> QED  BY <1>7, <2>1 DEF CallReturns, CallFails, vars, client
<1>8. CASE ExpandDone
  <2>1. \A k \in Keys : caller[k] \notin Workers
    BY <1>c, <1>8 DEF ExpandDone
  <2> QED  BY <1>8, <2>1 DEF ExpandDone, vars, client
<1>9. CASE ExpandFails
  <2>1. \A k \in Keys : caller'[k] \notin Workers
    BY <1>t, <1>w, <1>9 DEF ExpandFails
  <2> QED  BY <2>1
<1>10. ASSUME NEW w \in Workers, Deliver(w), UNCHANGED fanout PROVE CallerOK'
  <2>1. \A k \in Keys : caller'[k] \in Workers => caller'[k] = caller[k]
    BY <1>t, <1>w, <1>10
    DEF Deliver, Process, FetchMessage, UpsertPending, SendOk, SendFail, MarkSent,
        MarkFailed, MarkDead, DeadLetter, Finish, Cancelled, Abort, client
  <2>2. \A v \in Workers \ {w} : pc'[v] = pc[v] /\ job'[v] = job[v]
    BY <1>t, <1>10
    DEF Deliver, Process, FetchMessage, UpsertPending, SendOk, SendFail, MarkSent,
        MarkFailed, MarkDead, DeadLetter, Finish, Cancelled, Abort, Goto, Return
  <2>3. CASE FetchMessage(w)
    BY <1>k, <2>1, <2>3 DEF FetchMessage
  <2>4. CASE Finish(w) \/ Cancelled(w) \/ Abort(w)
    <3>1. \A k \in Keys : caller'[k] # w
      BY <1>t, <1>w, <2>4 DEF Finish, Cancelled, Abort, client
    <3> QED  BY <1>10, <2>1, <2>2, <3>1 DEF fanout, expander, Asked
  <2>5. CASE \/ UpsertPending(w) \/ SendOk(w) \/ SendFail(w)
             \/ MarkSent(w) \/ MarkFailed(w) \/ MarkDead(w) \/ DeadLetter(w)
    <3>1. pc'[w] # "idle" /\ job'[w] = job[w]
      BY <1>t, <2>5
      DEF UpsertPending, SendOk, SendFail, MarkSent, MarkFailed, MarkDead,
          DeadLetter, AfterFailure, Goto
    <3>2. pc[w] # "idle"
      BY <2>5
      DEF UpsertPending, SendOk, SendFail, MarkSent, MarkFailed, MarkDead, DeadLetter
    <3> QED  BY <1>10, <2>1, <2>2, <3>1, <3>2 DEF fanout, expander, Asked
  <2> QED  BY <1>10, <2>3, <2>4, <2>5 DEF Deliver, Process
<1>11. ASSUME NEW k \in Keys, CallTimeout(k), UNCHANGED fanout PROVE CallerOK'
  BY <1>t, <1>w, <1>11 DEF CallTimeout, fanout, expander, Asked
<1>12. CASE UNCHANGED allvars
  BY <1>12 DEF allvars, fanout, expander, vars, client, Asked
<1> QED
  BY <1>1, <1>2, <1>3, <1>4, <1>5, <1>6, <1>7, <1>8, <1>9, <1>10, <1>11, <1>12
  DEF FanoutNext, Expand

LEMMA UnsettledStep ==
  ASSUME FanoutTypeOK, Earned, ExpanderOK, UnsettledOK, [FanoutNext]_allvars
  PROVE  UnsettledOK'
<1> USE DEF UnsettledOK, Decided
<1>t. /\ job \in [Workers -> Keys] /\ pc \in [Workers -> Stages]
      /\ status \in [Keys -> Statuses]
  BY DEF FanoutTypeOK, TypeOK
<1>o. ASSUME transport = "kafka", NEW v \in Workers, NEW w \in Workers,
             pc[v] # "idle", pc[w] # "idle"
      PROVE  v = w
  BY <1>o DEF Earned, AloneOK, Alone, FreshOK
<1>1. ASSUME UNCHANGED <<row, pc, job, transport, moved>> PROVE UnsettledOK'
  BY <1>1 DEF row
<1>2. ASSUME NEW w \in Workers, NEW a \in Addresses, CallSendNotification(w, a)
      PROVE  UnsettledOK'
  BY <1>2 DEF CallSendNotification
<1>3. ASSUME NEW w \in Workers, Deliver(w) PROVE UnsettledOK'
  <2>1. /\ UNCHANGED <<transport, moved>>
        /\ \A v \in Workers \ {w} : pc'[v] = pc[v] /\ job'[v] = job[v]
    BY <1>t, <1>3
    DEF Deliver, Process, FetchMessage, UpsertPending, SendOk, SendFail, MarkSent,
        MarkFailed, MarkDead, DeadLetter, Finish, Cancelled, Abort, Goto, Return, client
  <2>2. CASE FetchMessage(w) \/ Finish(w) \/ Cancelled(w) \/ Abort(w)
    <3>1. UNCHANGED row /\ pc'[w] \in {"idle", "upsert"}
      BY <1>t, <2>2 DEF FetchMessage, Finish, Cancelled, Abort, Return
    <3> QED  BY <2>1, <3>1 DEF row
  <2>3. ASSUME pc[w] # "idle", transport = "kafka",
               pc'[w] \in Decided => status'[job'[w]] \notin {"sent", "dead"}
        PROVE  UnsettledOK'
    BY <1>o, <2>1, <2>3
  <2>4. CASE UpsertPending(w)
    <3>1. pc[w] = "upsert" /\ (pc'[w] \in Decided => status'[job'[w]] \notin {"sent", "dead"})
      BY <1>t, <2>4 DEF UpsertPending, Goto
    <3> QED  BY <2>1, <2>3, <3>1
  <2>5. CASE SendOk(w) \/ SendFail(w)
    <3>1. pc[w] = "send" /\ UNCHANGED <<status, job>>
      BY <2>5 DEF SendOk, SendFail, row
    <3> QED  BY <2>1, <2>3, <3>1
  <2>6. CASE MarkSent(w) \/ MarkFailed(w) \/ MarkDead(w) \/ DeadLetter(w)
    <3>1. pc[w] # "idle" /\ pc'[w] \in Over
      BY <1>t, <2>6 DEF MarkSent, MarkFailed, MarkDead, DeadLetter, Goto, Over
    <3> QED  BY <2>1, <2>3, <3>1 DEF Over
  <2> QED  BY <1>3, <2>2, <2>4, <2>5, <2>6 DEF Deliver, Process
<1>4. ASSUME NEW k \in Keys, CallTimeout(k) PROVE UnsettledOK'
  BY <1>1, <1>4 DEF CallTimeout
<1>5. ASSUME UNCHANGED vars PROVE UnsettledOK'
  BY <1>1, <1>5 DEF vars, client
<1>6. ASSUME NEW k \in Keys, RelayRepeats(k) PROVE UnsettledOK'
  BY <1>1, <1>6 DEF RelayRepeats, client
<1>7. ASSUME NEW a \in Addresses, PublishReleaseNotification(a) PROVE UnsettledOK'
  BY <1>1, <1>7 DEF PublishReleaseNotification, client
<1>8. CASE ExpandFails
  BY <1>1, <1>8 DEF ExpandFails
<1>9. ASSUME GetSubscribers \/ CallReturns \/ CallFails \/ ExpandDone \/ UNCHANGED allvars
      PROVE  UNCHANGED vars
  BY <1>9 DEF GetSubscribers, CallReturns, CallFails, ExpandDone, allvars
<1>10. ASSUME NEW t \in Tags, ReleaseDetected(t) PROVE UNCHANGED vars
  BY <1>10 DEF ReleaseDetected
<1>11. ASSUME NEW a \in Addresses, SubscriberChanges(a) PROVE UNCHANGED vars
  BY <1>11 DEF SubscriberChanges
<1> QED
  BY <1>2, <1>3, <1>4, <1>5, <1>6, <1>7, <1>8, <1>9, <1>10, <1>11
  DEF FanoutNext, Expand

\* Counting workers.
LEMMA CountWorkers ==
  ASSUME NEW S \in SUBSET Workers, NEW T \in SUBSET Workers
  PROVE  /\ Cardinality(S) \in Nat /\ Cardinality(T) \in Nat
         /\ T \subseteq S => Cardinality(T) <= Cardinality(S)
         /\ \A v \in Workers :
              /\ T \subseteq S \union {v} => Cardinality(T) <= Cardinality(S) + 1
              /\ v \in S /\ T \subseteq S \ {v} => Cardinality(T) + 1 <= Cardinality(S)
<1>1. IsFiniteSet(S) /\ IsFiniteSet(T)
  BY WorkersAssumption, FS_Subset
<1>2. Cardinality(S) \in Nat /\ Cardinality(T) \in Nat
  BY <1>1, FS_CardinalityType
<1>3. T \subseteq S => Cardinality(T) <= Cardinality(S)
  BY <1>1, FS_Subset
<1>4. ASSUME NEW v \in Workers, T \subseteq S \union {v}
      PROVE  Cardinality(T) <= Cardinality(S) + 1
  <2>1. /\ IsFiniteSet(S \union {v})
        /\ Cardinality(S \union {v}) \in {Cardinality(S), Cardinality(S) + 1}
    BY <1>1, FS_AddElement
  <2>2. Cardinality(T) <= Cardinality(S \union {v})
    BY <1>4, <2>1, FS_Subset
  <2> QED  BY <1>2, <2>1, <2>2
<1>5. ASSUME NEW v \in Workers, v \in S, T \subseteq S \ {v}
      PROVE  Cardinality(T) + 1 <= Cardinality(S)
  <2>1. IsFiniteSet(S \ {v}) /\ Cardinality(S \ {v}) = Cardinality(S) - 1
    BY <1>1, <1>5, FS_RemoveElement
  <2>2. Cardinality(T) <= Cardinality(S \ {v})
    BY <1>5, <2>1, FS_Subset
  <2> QED  BY <1>2, <2>1, <2>2
<1> QED  BY <1>2, <1>3, <1>4, <1>5

LEMMA AccountTypes ==
  ASSUME NEW k \in Keys
  PROVE  /\ FanoutTypeOK => Excuses \in Nat /\ Bill(k) \in Nat /\ emails[k] \in Nat
         /\ FanoutTypeOK' => Excuses' \in Nat /\ Bill(k)' \in Nat /\ emails'[k] \in Nat
<1>1. Cardinality(Stale(k)) \in Nat /\ Cardinality(Stale(k)') \in Nat
  <2>1. Stale(k) \in SUBSET Workers /\ Stale(k)' \in SUBSET Workers
    BY DEF Stale
  <2> QED  BY <2>1, CountWorkers
<1>2. FanoutTypeOK => emails[k] \in Nat /\ faults \in Nat /\ reruns \in Nat
  BY FaultsAssumption, FanoutBoundsAssumption DEF FanoutTypeOK, TypeOK
<1>3. FanoutTypeOK' => emails'[k] \in Nat /\ faults' \in Nat /\ reruns' \in Nat
  BY FaultsAssumption, FanoutBoundsAssumption DEF FanoutTypeOK, TypeOK
<1>4. FanoutTypeOK => Excuses \in Nat /\ Bill(k) \in Nat
  BY <1>1, <1>2 DEF Excuses, Bill
<1>5. FanoutTypeOK' => Excuses' \in Nat /\ Bill(k)' \in Nat
  <2> SUFFICES ASSUME FanoutTypeOK' PROVE Excuses' \in Nat /\ Bill(k)' \in Nat
    OBVIOUS
  <2>1. Excuses' \in Nat
    BY <1>3 DEF Excuses
  <2>2. Bill(k)' = emails'[k] + Cardinality(Stale(k)')
    BY DEF Bill
  <2> QED  BY <1>1, <1>3, <2>1, <2>2
<1> QED  BY <1>2, <1>3, <1>4, <1>5

\* Two workers whose commands somebody waits for do not have the same key.
LEMMA OneWaited ==
  ASSUME Earned, UnsettledOK, NEW v \in Workers, NEW w \in Workers,
         pc[v] # "idle", pc[w] # "idle", job[v] = job[w], Waited(v), Waited(w)
  PROVE  v = w
BY DEF Earned, AloneOK, Alone, FreshOK, UnsettledOK, Waited

\* The account stays balanced when no mail or stale call comes without an excuse
\* and nothing else gets worse.
LEMMA Frame ==
  ASSUME FanoutTypeOK, FanoutTypeOK', NEW k \in Keys, Balanced(k),
         Bill(k)' + Excuses <= Bill(k) + Excuses',
         \/ Bill(k) <= Excuses
         \/ (Counted(k) => Counted(k)') /\ (Deciding(k)' => Deciding(k))
  PROVE  Balanced(k)'
<1>1. /\ Excuses \in Nat /\ Bill(k) \in Nat
      /\ Excuses' \in Nat /\ Bill(k)' \in Nat
  BY AccountTypes
<1> QED  BY <1>1 DEF Balanced

\* A step of one worker or caller that leads no other call astray.
LEMMA Bills ==
  ASSUME FanoutTypeOK, FanoutTypeOK', NEW k \in Keys, NEW w \in Workers,
         \A v \in Workers \ {w} : Astray(v, k)' => Astray(v, k)
  PROVE  /\ Bill(k)' + emails[k] <= Bill(k) + emails'[k] + 1
         /\ (Astray(w, k)' => Astray(w, k)) => Bill(k)' + emails[k] <= Bill(k) + emails'[k]
         /\ Astray(w, k) /\ ~Astray(w, k)' => Bill(k)' + emails[k] + 1 <= Bill(k) + emails'[k]
<1>1. /\ emails[k] \in Nat /\ emails'[k] \in Nat
      /\ Bill(k) = emails[k] + Cardinality(Stale(k))
      /\ Bill(k)' = emails'[k] + Cardinality(Stale(k)')
  BY AccountTypes DEF Bill
<1>2. Stale(k) \in SUBSET Workers /\ Stale(k)' \in SUBSET Workers
  BY DEF Stale
<1>3. Stale(k)' \subseteq Stale(k) \union {w}
  BY DEF Stale
<1>4. (Astray(w, k)' => Astray(w, k)) => Stale(k)' \subseteq Stale(k)
  BY DEF Stale
<1>5. Astray(w, k) /\ ~Astray(w, k)' => w \in Stale(k) /\ Stale(k)' \subseteq Stale(k) \ {w}
  BY DEF Stale
<1> QED  BY <1>1, <1>2, <1>3, <1>4, <1>5, CountWorkers

LEMMA AccountStep ==
  ASSUME FanoutTypeOK, FanoutTypeOK', Earned, Expansion, AccountOK,
         [FanoutNext]_allvars
  PROVE  AccountOK'
<1>e. ExpanderOK /\ CallerOK /\ UnsettledOK
  BY DEF Expansion
<1>t. /\ caller \in [Keys -> Workers \union {Unsent, Answered}]
      /\ job \in [Workers -> Keys] /\ pc \in [Workers -> Stages]
      /\ status \in [Keys -> Statuses] /\ emails \in [Keys -> Nat]
  BY DEF FanoutTypeOK, TypeOK
<1>n. faults \in Nat /\ reruns \in Nat
  BY FaultsAssumption, FanoutBoundsAssumption DEF FanoutTypeOK, TypeOK
<1>w. Unsent \notin Workers /\ Answered \notin Workers
  BY WorkersAssumption DEF Unsent, Answered
<1>x. \A k \in Keys : /\ Excuses \in Nat /\ Excuses' \in Nat
                      /\ Bill(k) \in Nat /\ Bill(k)' \in Nat
                      /\ emails[k] \in Nat /\ emails'[k] \in Nat
  BY AccountTypes
<1>b. \A k \in Keys : Balanced(k)
  BY DEF AccountOK
<1>p. \E w \in Workers : TRUE
  BY WorkersAssumption

\* Steps of the expander that leave the workers alone.
<1>1. ASSUME UNCHANGED <<status, emails, pc, job, caller, transport>>, Excuses <= Excuses'
      PROVE  AccountOK'
  <2> SUFFICES ASSUME NEW k \in Keys PROVE Balanced(k)'
    BY DEF AccountOK
  <2>1. PICK w \in Workers : TRUE
    BY <1>p
  <2>2. \A v \in Workers : /\ Astray(v, k)' <=> Astray(v, k)
                           /\ Marks(v, k)' <=> Marks(v, k)
                           /\ Decides(v, k)' <=> Decides(v, k)
    BY <1>1 DEF Astray, Marks, Decides, Waited
  <2>3. Bill(k)' <= Bill(k)
    BY <1>1, <1>x, <2>2, Bills
  <2>4. (Counted(k)' <=> Counted(k)) /\ (Deciding(k)' <=> Deciding(k))
    BY <1>1, <2>2 DEF Counted, Deciding
  <2> QED  BY <1>1, <1>b, <1>x, <2>3, <2>4, Frame

\* The expander does not wait any longer, which has cost a fault or a rerun.
<1>2. ASSUME NEW k1 \in Keys, transport = "grpc",
             caller' = [caller EXCEPT ![k1] = Unsent],
             UNCHANGED <<status, emails, pc, job, transport>>,
             Excuses' = Excuses + 1
      PROVE  AccountOK'
  <2> SUFFICES ASSUME NEW k \in Keys PROVE Balanced(k)'
    BY DEF AccountOK
  <2>1. \A v \in Workers : Waited(v)' <=> Waited(v) /\ job[v] # k1
    BY <1>t, <1>w, <1>2 DEF Waited
  <2>2. CASE k # k1 \/ caller[k1] \notin Workers
    <3>1. PICK w \in Workers : TRUE
      BY <1>p
    <3>2. \A v \in Workers : job[v] = k => (Waited(v)' <=> Waited(v))
      BY <1>2, <2>1, <2>2 DEF Waited
    <3>3. \A v \in Workers : /\ Astray(v, k)' <=> Astray(v, k)
                             /\ Marks(v, k)' <=> Marks(v, k)
                             /\ Decides(v, k)' <=> Decides(v, k)
      BY <1>2, <3>2 DEF Astray, Marks, Decides
    <3>4. Bill(k)' <= Bill(k)
      BY <1>2, <1>x, <3>3, Bills
    <3>5. (Counted(k)' <=> Counted(k)) /\ (Deciding(k)' <=> Deciding(k))
      BY <1>2, <3>3 DEF Counted, Deciding
    <3> QED  BY <1>2, <1>b, <1>x, <3>4, <3>5, Frame
  <2>3. CASE k = k1 /\ caller[k1] \in Workers
    <3>0. PICK w \in Workers : caller[k1] = w
      BY <2>3
    <3>1. \A v \in Workers \ {w} : job[v] = k => ~Waited(v)
      BY <1>2, <2>3, <3>0 DEF Waited
    <3>2. \A v \in Workers \ {w} : Astray(v, k)' => Astray(v, k)
      BY <1>2, <3>1 DEF Astray
    <3>3. \A v \in Workers : ~Decides(v, k)' /\ ~Marks(v, k)'
      BY <1>2, <2>1, <2>3 DEF Decides, Marks
    <3>4. Bill(k)' <= Bill(k) + 1
      BY <1>2, <1>x, <3>1, <3>2, Bills
    <3>5. CASE Astray(w, k)'
      <4>0. pc[w] # "marksent"
        BY <1>2, <3>5 DEF Astray, MayWrite
      <4>1. \A v \in Workers : ~Marks(v, k)
        BY <3>1, <4>0 DEF Marks
      <4>2. Counted(k) => Counted(k)'
        BY <1>2, <4>1 DEF Counted
      <4>3. ~Deciding(k)'
        BY <3>3 DEF Deciding
      <4> QED  BY <1>2, <1>b, <1>x, <3>4, <4>2, <4>3 DEF Balanced
    <3>6. CASE ~Astray(w, k)'
      <4>0. Bill(k)' + emails[k] <= Bill(k) + emails'[k]
        BY <3>2, <3>6, Bills
      <4>1. Bill(k)' <= Bill(k)
        BY <1>2, <1>x, <4>0
      <4> QED  BY <1>2, <1>b, <1>x, <4>1 DEF Balanced
    <3> QED  BY <3>5, <3>6
  <2> QED  BY <2>2, <2>3
<1>3. ASSUME NEW w \in Workers, NEW a \in Addresses, CallSendNotification(w, a)
      PROVE  AccountOK'
  <2> SUFFICES ASSUME NEW k \in Keys PROVE Balanced(k)'
    BY DEF AccountOK
  <2>1. /\ Asked(a) \in Keys /\ transport = "grpc" /\ pc[w] = "idle"
        /\ UNCHANGED <<row, transport, emails, faults, reruns>>
        /\ \A v \in Workers \ {w} : pc'[v] = pc[v] /\ job'[v] = job[v]
        /\ pc'[w] = "upsert" /\ job'[w] = Asked(a)
        /\ \A j \in Keys : caller'[j] = IF j = Asked(a) THEN w ELSE caller[j]
    BY <1>t, <1>e, <1>3, AskedKey DEF CallSendNotification, hist, world
  <2>2. \A j \in Keys : caller[j] \notin Workers
    BY <1>e, <1>3 DEF CallSendNotification, CallerOK
  <2>3. \A v \in Workers : ~Waited(v)
    BY <1>t, <2>1, <2>2 DEF Waited
  <2>4. Waited(w)' /\ \A v \in Workers \ {w} : ~Waited(v)'
    BY <1>t, <2>1, <2>2 DEF Waited
  <2>5. \A v \in Workers : /\ Astray(v, k)' => Astray(v, k)
                           /\ ~Marks(v, k) /\ ~Decides(v, k)'
    BY <2>1, <2>3, <2>4 DEF Astray, Marks, Decides
  <2>6. Bill(k)' <= Bill(k) /\ Excuses' = Excuses
    <3>1. Bill(k)' + emails[k] <= Bill(k) + emails'[k]
      BY <2>5, Bills
    <3> QED  BY <1>x, <2>1, <3>1 DEF Excuses
  <2>7. (Counted(k) => Counted(k)') /\ (Deciding(k)' => Deciding(k))
    BY <2>1, <2>5 DEF Counted, Deciding, row
  <2> QED  BY <1>b, <1>x, <2>6, <2>7, Frame
<1>4. ASSUME NEW w \in Workers, Deliver(w), UNCHANGED fanout PROVE AccountOK'
  <2> SUFFICES ASSUME NEW k \in Keys PROVE Balanced(k)'
    BY DEF AccountOK
  <2>1. /\ UNCHANGED <<transport, reruns>>
        /\ \A v \in Workers \ {w} : pc'[v] = pc[v] /\ job'[v] = job[v]
        /\ faults' \in {faults, faults + 1}
    BY <1>t, <1>4
    DEF Deliver, Process, FetchMessage, UpsertPending, SendOk, SendFail, MarkSent,
        MarkFailed, MarkDead, DeadLetter, Finish, Cancelled, Abort, Goto, Return,
        client, fanout, world, Fault
  <2>2. Excuses' = Excuses + faults' - faults
    BY <1>n, <2>1 DEF Excuses
  <2>3. \A v \in Workers \ {w}, j \in Keys : caller'[j] = v <=> caller[j] = v
    BY <1>t, <1>w, <1>4
    DEF Deliver, Process, FetchMessage, UpsertPending, SendOk, SendFail, MarkSent,
        MarkFailed, MarkDead, DeadLetter, Finish, Cancelled, Abort, client
  <2>4. \A v \in Workers \ {w} : /\ Astray(v, k)' <=> Astray(v, k)
                                 /\ Marks(v, k)' <=> Marks(v, k)
                                 /\ Decides(v, k)' <=> Decides(v, k)
    BY <1>t, <2>1, <2>3 DEF Astray, Marks, Decides, Waited
  \* What is left to show, with w the only worker whose state may differ.
  <2>5. ASSUME Astray(w, k)' => Astray(w, k),
               emails'[k] = emails[k],
               Counted(k) => status'[k] = "sent" \/ (status[k] # "sent" /\ ~Marks(w, k)),
               Decides(w, k)' => Decides(w, k)
        PROVE  Balanced(k)'
    <3>1. Bill(k)' <= Bill(k)
      BY <1>x, <2>4, <2>5, Bills
    <3>2. Excuses <= Excuses'
      BY <1>n, <1>x, <2>1, <2>2
    <3>3. (Counted(k) => Counted(k)') /\ (Deciding(k)' => Deciding(k))
      BY <2>4, <2>5 DEF Counted, Deciding
    <3> QED  BY <1>b, <1>x, <3>1, <3>2, <3>3, Frame
  <2>6. CASE k # job[w] \/ pc[w] = "idle"
    <3>1. ~Astray(w, k) /\ ~Marks(w, k) /\ ~Decides(w, k)
      BY <2>6 DEF Astray, Marks, Decides, MayWrite
    <3>2. status'[k] = status[k] /\ emails'[k] = emails[k]
      BY <1>t, <1>4, <2>6
      DEF Deliver, Process, FetchMessage, UpsertPending, SendOk, SendFail, MarkSent,
          MarkFailed, MarkDead, DeadLetter, Finish, Cancelled, Abort, row, hist
    <3>3. \/ pc'[w] = "idle"
          \/ job'[w] = job[w] /\ pc[w] # "idle"
          \/ transport = "kafka" /\ pc'[w] = "upsert"
      BY <1>t, <1>4
      DEF Deliver, Process, FetchMessage, UpsertPending, SendOk, SendFail, MarkSent,
          MarkFailed, MarkDead, DeadLetter, Finish, Cancelled, Abort, Goto, Return
    <3>4. ~Astray(w, k)' /\ ~Decides(w, k)'
      BY <2>1, <2>6, <3>3 DEF Astray, Decides, Waited, MayWrite
    <3> QED  BY <2>5, <3>1, <3>2, <3>4 DEF Counted
  \* From here on w works for k.
  <2>7. ASSUME k = job[w], pc[w] # "idle" PROVE Balanced(k)'
    <3>1. Bill(k) <= Excuses + 1
      BY <1>b DEF Balanced
    <3>2. ASSUME Waited(w) PROVE \A v \in Workers \ {w} : ~Marks(v, k) /\ ~Decides(v, k)
      BY <1>e, <2>7, <3>2, OneWaited DEF Marks, Decides, MayWrite
    <3>3. CASE UpsertPending(w)
      <4>1. /\ pc[w] = "upsert" /\ job' = job /\ caller' = caller /\ faults' = faults
            /\ emails'[k] = emails[k]
            /\ pc'[w] = IF status[k] \in {"sent", "dead"} THEN "finish" ELSE "send"
            /\ status'[k] = IF status[k] = "none" THEN "pending" ELSE status[k]
        BY <1>t, <2>7, <3>3 DEF UpsertPending, Goto, client, hist
      <4>2. Waited(w)' <=> Waited(w)
        BY <2>1, <4>1 DEF Waited
      <4>3. ~Marks(w, k) /\ (Astray(w, k)' => Astray(w, k))
        BY <2>7, <4>1, <4>2 DEF Marks, Astray, MayWrite
      <4>4. CASE status[k] \in {"sent", "dead"} \/ ~Waited(w)
        <5>1. ~Decides(w, k)'
          BY <4>1, <4>2, <4>4 DEF Decides, MayWrite
        <5> QED  BY <2>5, <4>1, <4>3, <5>1
      <4>5. CASE status[k] \notin {"sent", "dead"} /\ Waited(w)
        <5>1. ~Counted(k)
          BY <3>2, <4>3, <4>5 DEF Counted
        <5>2. Bill(k) <= Excuses
          BY <1>b, <5>1 DEF Balanced
        <5>3. Bill(k)' <= Bill(k)
          BY <1>x, <2>4, <4>1, <4>3, Bills
        <5>4. Excuses' = Excuses
          BY <1>n, <1>x, <2>2, <4>1
        <5> QED  BY <1>b, <1>x, <5>2, <5>3, <5>4, Frame
      <4> QED  BY <4>4, <4>5
    <3>4. CASE SendOk(w)
      <4>1. /\ pc[w] = "send" /\ pc'[w] = "marksent" /\ job' = job /\ caller' = caller
            /\ faults' = faults /\ emails'[k] = emails[k] + 1 /\ status' = status
        BY <1>t, <2>7, <3>4 DEF SendOk, Goto, client, row
      <4>2. ~Astray(w, k)' /\ ~Decides(w, k)' /\ (Waited(w)' <=> Waited(w))
        BY <2>1, <4>1 DEF Astray, Decides, Waited, MayWrite
      <4>3. Excuses' = Excuses
        BY <1>n, <1>x, <2>2, <4>1
      <4>4. CASE Waited(w)
        <5>1. Deciding(k)
          BY <2>7, <4>1, <4>4 DEF Deciding, Decides, MayWrite
        <5>2. Bill(k) <= Excuses
          BY <1>b, <5>1 DEF Balanced
        <5>3. Bill(k)' <= Bill(k) + 1
          BY <1>x, <2>4, <4>1, <4>2, Bills
        <5>4. Counted(k)'
          BY <2>7, <4>1, <4>2, <4>4 DEF Counted, Marks
        <5>5. ~Deciding(k)'
          BY <2>4, <3>2, <4>2, <4>4 DEF Deciding
        <5> QED  BY <1>x, <4>3, <5>2, <5>3, <5>4, <5>5 DEF Balanced
      <4>5. CASE ~Waited(w)
        <5>1. Astray(w, k)
          BY <2>7, <4>1, <4>5 DEF Astray, MayWrite
        <5>2. Bill(k)' + emails[k] + 1 <= Bill(k) + emails'[k]
          BY <2>4, <4>2, <5>1, Bills
        <5>3. Bill(k)' <= Bill(k)
          BY <1>x, <4>1, <5>2
        <5>4. ~Marks(w, k)
          BY <4>1 DEF Marks
        <5>5. (Counted(k) => Counted(k)') /\ (Deciding(k)' => Deciding(k))
          BY <2>4, <4>1, <4>2, <5>4 DEF Counted, Deciding
        <5> QED  BY <1>b, <1>x, <4>3, <5>3, <5>5, Frame
      <4> QED  BY <4>4, <4>5
    <3>5. CASE SendFail(w)
      <4>1. /\ pc[w] = "send" /\ pc'[w] \in {"markfailed", "markdead"}
            /\ job' = job /\ caller' = caller /\ status' = status
            /\ \/ faults' = faults /\ emails'[k] = emails[k]
               \/ faults' = faults + 1 /\ emails'[k] = emails[k] + 1
        BY <1>t, <2>7, <3>5 DEF SendFail, AfterFailure, Goto, Fault, client, row
      <4>2. /\ ~Marks(w, k) /\ (Astray(w, k)' => Astray(w, k))
            /\ (Decides(w, k)' => Decides(w, k))
        BY <2>1, <4>1 DEF Marks, Astray, Decides, Waited, MayWrite
      <4>3. (Counted(k) => Counted(k)') /\ (Deciding(k)' => Deciding(k))
        BY <2>4, <4>1, <4>2 DEF Counted, Deciding
      <4>4. Bill(k)' + emails[k] <= Bill(k) + emails'[k]
        BY <2>4, <4>2, Bills
      <4>5. Bill(k)' + Excuses <= Bill(k) + Excuses'
        BY <1>n, <1>x, <2>2, <4>1, <4>4
      <4> QED  BY <1>b, <4>3, <4>5, Frame
    <3>6. CASE MarkSent(w)
      <4>1. pc'[w] = "finish" /\ emails'[k] = emails[k] /\ status'[k] = "sent"
        BY <1>t, <2>7, <3>6 DEF MarkSent, Goto, hist
      <4>2. ~Astray(w, k)' /\ ~Decides(w, k)'
        BY <4>1 DEF Astray, Decides, MayWrite
      <4> QED  BY <2>5, <4>1, <4>2
    <3>7. CASE MarkFailed(w) \/ MarkDead(w)
      <4>1. /\ pc[w] \in {"markfailed", "markdead"} /\ pc'[w] \in {"finish", "deadletter"}
            /\ emails'[k] = emails[k] /\ faults' = faults
        BY <1>t, <2>7, <3>7 DEF MarkFailed, MarkDead, Goto, hist
      <4>2. ~Astray(w, k)'
        BY <4>1 DEF Astray, MayWrite
      <4>3. Excuses' = Excuses
        BY <1>n, <1>x, <2>2, <4>1
      <4>4. CASE Waited(w)
        <5>1. Deciding(k)
          BY <2>7, <4>1, <4>4 DEF Deciding, Decides, MayWrite
        <5>2. Bill(k) <= Excuses
          BY <1>b, <5>1 DEF Balanced
        <5>3. Bill(k)' <= Bill(k)
          BY <1>x, <2>4, <4>1, <4>2, Bills
        <5> QED  BY <1>b, <1>x, <4>3, <5>2, <5>3, Frame
      <4>5. CASE ~Waited(w)
        <5>1. Astray(w, k)
          BY <2>7, <4>1, <4>5 DEF Astray, MayWrite
        <5>2. Bill(k)' + emails[k] + 1 <= Bill(k) + emails'[k]
          BY <2>4, <4>2, <5>1, Bills
        <5>3. Bill(k)' <= Excuses'
          BY <1>x, <3>1, <4>1, <4>3, <5>2
        <5> QED  BY <1>x, <5>3 DEF Balanced
      <4> QED  BY <4>4, <4>5
    <3>8. CASE DeadLetter(w) \/ Finish(w) \/ Cancelled(w)
      <4>1. /\ pc'[w] \in {"finish", "idle"} /\ emails'[k] = emails[k] /\ status' = status
            /\ pc[w] = "marksent" => ~Waited(w)
        BY <1>t, <2>7, <3>8 DEF DeadLetter, Finish, Cancelled, Return, Goto, row, hist, Waited
      <4>2. ~Astray(w, k)' /\ ~Decides(w, k)' /\ ~Marks(w, k)
        BY <4>1 DEF Astray, Decides, MayWrite, Marks
      <4> QED  BY <2>5, <4>1, <4>2
    <3>9. CASE Abort(w)
      <4>1. pc'[w] = "idle" /\ emails'[k] = emails[k] /\ faults' = faults + 1
        BY <1>t, <3>9 DEF Abort, Return, hist, Fault
      <4>2. ~Astray(w, k)'
        BY <4>1 DEF Astray, MayWrite
      <4>3. Bill(k)' <= Bill(k)
        BY <1>x, <2>4, <4>1, <4>2, Bills
      <4>4. Bill(k)' <= Excuses'
        BY <1>n, <1>x, <2>2, <3>1, <4>1, <4>3
      <4> QED  BY <1>x, <4>4 DEF Balanced
    <3>10. CASE FetchMessage(w)
      BY <2>7, <3>10 DEF FetchMessage
    <3> QED
      BY <1>4, <3>3, <3>4, <3>5, <3>6, <3>7, <3>8, <3>9, <3>10 DEF Deliver, Process
  <2> QED  BY <2>6, <2>7
<1>5. ASSUME NEW k \in Keys, CallTimeout(k), UNCHANGED fanout PROVE AccountOK'
  <2>1. transport = "grpc"
    BY <1>e, <1>5 DEF CallTimeout, CallerOK, ExpanderOK
  <2>2. /\ caller' = [caller EXCEPT ![k] = Unsent]
        /\ UNCHANGED <<status, emails, pc, job, transport, reruns>> /\ faults' = faults + 1
    BY <1>5 DEF CallTimeout, Fault, row, hist, fanout, world
  <2>3. Excuses' = Excuses + 1
    BY <1>n, <2>1, <2>2 DEF Excuses
  <2> QED  BY <1>2, <2>1, <2>2, <2>3
<1>6. CASE ExpandFails
  <2>1. /\ UNCHANGED <<status, emails, pc, job, transport, faults>> /\ reruns' = reruns + 1
        /\ caller' = IF call = Nobody THEN caller
                     ELSE [caller EXCEPT ![Asked(call)] = Unsent]
    BY <1>6 DEF ExpandFails, Rerun, row, hist
  <2>2. CASE call = Nobody
    <3>1. Excuses <= Excuses'
      BY <1>n, <2>1 DEF Excuses
    <3> QED  BY <1>1, <2>1, <2>2, <3>1
  <2>3. CASE call # Nobody
    <3>1. transport = "grpc" /\ Asked(call) \in Keys
      BY <1>e, <2>3, AskedKey DEF ExpanderOK
    <3>2. Excuses' = Excuses + 1
      BY <1>n, <2>1, <3>1 DEF Excuses
    <3> QED  BY <1>2, <2>1, <2>3, <3>1, <3>2
  <2> QED  BY <2>2, <2>3
<1>7. ASSUME UNCHANGED vars, reruns' \in {reruns, reruns + 1} PROVE AccountOK'
  <2>1. UNCHANGED <<status, emails, pc, job, caller, transport, faults>>
    BY <1>7 DEF vars, row, hist, client
  <2>2. Excuses <= Excuses'
    <3>1. faults' = faults /\ transport' = transport
      BY <2>1
    <3>2. reruns' = reruns \/ reruns' = reruns + 1
      BY <1>7
    <3> QED  BY <1>n, <3>1, <3>2 DEF Excuses
  <2> QED  BY <1>1, <2>1, <2>2
<1>8. ASSUME NEW t \in Tags, ReleaseDetected(t) PROVE AccountOK'
  BY <1>7, <1>8 DEF ReleaseDetected, Rerun
<1>9. ASSUME NEW a \in Addresses, SubscriberChanges(a) PROVE AccountOK'
  BY <1>7, <1>9 DEF SubscriberChanges
<1>10. ASSUME \/ GetSubscribers \/ CallReturns \/ CallFails \/ ExpandDone
              \/ UNCHANGED allvars
       PROVE  AccountOK'
  BY <1>7, <1>10
  DEF GetSubscribers, CallReturns, CallFails, ExpandDone, allvars, world, fanout
<1>11. ASSUME NEW k \in Keys, RelayRepeats(k) PROVE AccountOK'
  <2>1. UNCHANGED <<status, emails, pc, job, caller, transport, faults>> /\ transport = "kafka"
    BY <1>11 DEF RelayRepeats, row, hist, client
  <2>2. Excuses <= Excuses'
    BY <1>n, <2>1 DEF Excuses
  <2> QED  BY <1>1, <2>1, <2>2
<1>12. ASSUME NEW a \in Addresses, PublishReleaseNotification(a) PROVE AccountOK'
  <2>1. UNCHANGED <<status, emails, pc, job, caller, transport, faults, reruns>>
    BY <1>12 DEF PublishReleaseNotification, row, hist, client, world
  <2>2. Excuses <= Excuses'
    BY <1>n, <2>1 DEF Excuses
  <2> QED  BY <1>1, <2>1, <2>2
<1> QED
  BY <1>3, <1>4, <1>5, <1>6, <1>8, <1>9, <1>10, <1>11, <1>12 DEF FanoutNext, Expand

LEMMA FanoutInitInv == FanoutInit => FInv
<1> SUFFICES ASSUME FanoutInit PROVE FInv
  OBVIOUS
<1>1. IInv /\ Init
  BY InitIInv DEF FanoutInit
<1>2. FanoutTypeOK
  <2>1. <<>> \in Seq(Tags) /\ 0 \in 0..MaxReruns /\ 0 \in 0..MaxChanges
    BY FanoutBoundsAssumption
  <2> QED  BY <1>1, <2>1 DEF FanoutInit, FanoutTypeOK, IInv
<1>3. Expansion
  BY <1>1, WorkersAssumption
  DEF FanoutInit, Init, Expansion, ExpanderOK, CallerOK, UnsettledOK, Decided, Unsent, IInv
<1>4. ASSUME NEW k \in Keys PROVE Balanced(k)
  <2>1. Stale(k) = {}
    BY <1>1 DEF Stale, Astray, MayWrite, Init
  <2>2. emails[k] = 0 /\ faults = 0 /\ reruns = 0
    BY <1>1 DEF Init, FanoutInit
  <2>3. Bill(k) = 0 /\ Excuses = 0
    BY <2>1, <2>2, FS_EmptySet DEF Bill, Excuses
  <2> QED  BY <2>3 DEF Balanced
<1> QED  BY <1>1, <1>2, <1>3, <1>4 DEF FInv, IInv, AccountOK

\* The inductive invariant of the fan-out.
THEOREM FanoutInvariant == FanoutSafeSpec => []FInv
<1>1. FInv /\ [FanoutNext]_allvars => FInv'
  <2> SUFFICES ASSUME FInv, [FanoutNext]_allvars PROVE FInv'
    OBVIOUS
  <2>1. FanoutTypeOK /\ Earned /\ ExpanderOK /\ CallerOK /\ UnsettledOK /\ FreshOK
    BY DEF FInv, Expansion, Earned
  <2>2. FanoutTypeOK'
    BY <2>1, FanoutTypeStep
  <2>3. Earned'
    BY <2>1, FanoutEarnedStep
  <2>4. Expansion'
    BY <2>1, ExpanderStep, CallerStep, UnsettledStep DEF Expansion
  <2>5. AccountOK'
    BY <2>1, <2>2, AccountStep DEF FInv
  <2> QED  BY <2>2, <2>3, <2>4, <2>5 DEF FInv
<1> QED  BY FanoutInitInv, <1>1, PTL DEF FanoutSafeSpec

\* Every variable of the expander and the delivery service stays in its type.
THEOREM FanoutTypeCorrect == FanoutSpec => []FanoutTypeOK
<1>1. FInv => FanoutTypeOK
  BY DEF FInv
<1>2. FanoutSpec => FanoutSafeSpec
  BY PTL DEF FanoutSpec
<1> QED  BY FanoutInvariant, <1>1, <1>2, PTL

\* One release costs an address one mail, and one more for each fault in the
\* delivery or, over gRPC, each expansion that was cut off.
THEOREM OneMailEach == FanoutSpec => []OneMail
<1>1. FInv => OneMail
  <2> SUFFICES ASSUME FInv, NEW k \in Keys
               PROVE  emails[k] <= 1 + faults + (IF transport = "grpc" THEN reruns ELSE 0)
    BY DEF OneMail
  <2>1. FanoutTypeOK /\ Balanced(k)
    BY DEF FInv, AccountOK
  <2>2. Excuses \in Nat /\ Bill(k) \in Nat /\ emails[k] \in Nat
    BY <2>1, AccountTypes
  <2>3. Cardinality(Stale(k)) \in Nat
    <3>1. Stale(k) \in SUBSET Workers
      BY DEF Stale
    <3> QED  BY <3>1, CountWorkers
  <2>4. emails[k] <= Excuses + 1
    BY <2>1, <2>2, <2>3 DEF Balanced, Bill
  <2>5. faults \in Nat /\ reruns \in Nat
    BY <2>1, FaultsAssumption, FanoutBoundsAssumption DEF FanoutTypeOK, TypeOK
  <2> QED  BY <2>4, <2>5 DEF Excuses
<1>2. FanoutSpec => FanoutSafeSpec
  BY PTL DEF FanoutSpec
<1> QED  BY FanoutInvariant, <1>1, <1>2, PTL
=============================================================================
