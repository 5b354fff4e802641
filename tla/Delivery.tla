------------------------------ MODULE Delivery ------------------------------
(***************************************************************************)
(* notification-service/internal/delivery: the notification_deliveries     *)
(* table, Service.Process with each database call and the SMTP call as a   *)
(* step of its own, the retry scheduler, and the way commands arrive: from *)
(* one partition of subber.notification.commands (all commands for one     *)
(* address share a partition) or as gRPC calls of subscription-api.        *)
(*                                                                         *)
(* Any failed database call, a failed publish and a killed process abandon *)
(* the command in hand: Abort.  Kafka delivers it again because its offset *)
(* was not committed; a gRPC caller sends it again.                        *)
(*                                                                         *)
(* Time is what is left until next_attempt_at.  Texts, addresses and       *)
(* timestamps are left out.                                                *)
(***************************************************************************)
EXTENDS Integers, FiniteSets, Sequences, SequencesExt

CONSTANTS
  Keys,          \* idempotency keys: one notification for one subscriber
  Workers,       \* consumers of the group, or gRPC handlers in flight
  Transports,    \* values of NOTIFICATION_TRANSPORT: "kafka", "grpc"
  MaxAttempts,   \* NOTIFICATION_RETRY_ATTEMPTS
  RetryDelays,   \* NOTIFICATION_RETRY_DELAYS, in ticks
  RetryBatch,    \* limit of EnqueueDueRetries
  MaxFaults      \* bound: aborts, rebalances, timeouts, duplicates

ASSUME TransportAssumption == Transports \subseteq {"kafka", "grpc"}
ASSUME WorkersAssumption ==
  /\ IsFiniteSet(Workers) /\ Workers # {}
  /\ Workers \cap {"unsent", "answered"} = {}     \* see Unsent, Answered
ASSUME SomeKeyAssumption == Keys # {}
ASSUME AttemptsAssumption == MaxAttempts \in Nat \ {0} /\ RetryBatch \in Nat \ {0}
ASSUME DelaysAssumption == RetryDelays \in Seq(Nat)
ASSUME FaultsAssumption == MaxFaults \in Nat

VARIABLES
  transport,   \* which of them both services were started with
  status,      \* status of the row, "none" when there is no row
  attempt,     \* attempt_count
  next_at,     \* ticks until next_attempt_at, Never for NULL
  outbox,      \* retry commands in outbox_events that are not published yet
  topic,       \* commands of the partition whose offset is not committed
  owner,       \* the consumer the partition is assigned to
  requested,   \* notifications subscription-api asked for
  caller,      \* gRPC: the handler the caller waits for, or why it does not
  pc, job,     \* per worker: the step it is at, and the command it handles
  seen,        \* per worker: AttemptCount as UpsertPending returned it
  fresh,       \* per worker: its partition was not taken away since the fetch
  moved,       \* history: whether the partition ever changed hands
  emails,      \* history: messages the SMTP server accepted
  dlq,         \* history: messages in subber.notification.dlq
  faults

row == <<status, attempt, next_at>>
bus == <<outbox, topic, requested>>
client == <<transport, owner, caller, fresh, moved>>
hist == <<emails, dlq>>
vars == <<row, bus, client, pc, job, seen, hist, faults>>

Never == -1
Unsent == "unsent"       \* no call was made, or the last one was given up
Answered == "answered"   \* the call returned without an error
Statuses == {"none", "pending", "failed", "sent", "dead"}
Stages == {"idle", "upsert", "send", "marksent", "markfailed", "markdead",
           "deadletter", "finish"}

\* The delay before a retry: the last one of the list serves every later
\* attempt, and one minute (a tick) serves an empty list.
retryDelay(n) ==
  IF RetryDelays = <<>> THEN 1
  ELSE IF n > Len(RetryDelays) THEN Last(RetryDelays) ELSE RetryDelays[n]

Init ==
  /\ transport \in Transports
  /\ status = [k \in Keys |-> "none"]
  /\ attempt = [k \in Keys |-> 0]
  /\ next_at = [k \in Keys |-> Never]
  /\ outbox = [k \in Keys |-> 0]
  /\ topic = <<>>
  /\ owner = (CHOOSE w \in Workers : TRUE)
  /\ requested = {}
  /\ caller = [k \in Keys |-> Unsent]
  /\ pc = [w \in Workers |-> "idle"]
  /\ job = [w \in Workers |-> CHOOSE k \in Keys : TRUE]
  /\ seen = [w \in Workers |-> 0]
  /\ fresh = [w \in Workers |-> FALSE]
  /\ moved = FALSE
  /\ emails = [k \in Keys |-> 0]
  /\ dlq = [k \in Keys |-> 0]
  /\ faults = 0

Fault == faults < MaxFaults /\ faults' = faults + 1

-----------------------------------------------------------------------------
\* How commands arrive.

\* subscription-api's outbox puts a command on the topic; at least once, so
\* a second copy may follow.  With gRPC the caller just wants it sent.
Request(k) ==
  /\ k \notin requested
  /\ requested' = requested \union {k}
  /\ topic' = IF transport = "kafka" THEN Append(topic, k) ELSE topic
  /\ UNCHANGED <<row, outbox, client, pc, job, seen, hist, faults>>

DuplicateCommand(k) ==
  /\ transport = "kafka"
  /\ k \in requested
  /\ Fault
  /\ topic' = Append(topic, k)
  /\ UNCHANGED <<row, outbox, requested, client, pc, job, seen, hist>>

\* Consumer.Start: the owner of the partition fetches the first message that
\* is not committed, which after an abort is the same one again.
FetchMessage(w) ==
  /\ transport = "kafka"
  /\ pc[w] = "idle" /\ owner = w /\ topic # <<>>
  /\ job' = [job EXCEPT ![w] = Head(topic)]
  /\ fresh' = [fresh EXCEPT ![w] = TRUE]
  /\ pc' = [pc EXCEPT ![w] = "upsert"]
  /\ UNCHANGED <<row, bus, transport, owner, caller, moved, seen, hist, faults>>

\* The group hands the partition to another consumer; the old owner goes on
\* with the message it has, but its commit counts for nothing.  (One that goes
\* through can only make old commands come again: DuplicateCommand.)
Rebalance(w) ==
  /\ transport = "kafka"
  /\ owner # w
  /\ Fault
  /\ owner' = w
  /\ fresh' = [v \in Workers |-> FALSE]
  /\ moved' = TRUE
  /\ UNCHANGED <<row, bus, transport, caller, pc, job, seen, hist>>

\* SendNotification: a call for a notification that has no answer yet.
SendNotification(w, k) ==
  /\ transport = "grpc"
  /\ pc[w] = "idle"
  /\ k \in requested /\ caller[k] = Unsent
  /\ caller' = [caller EXCEPT ![k] = w]
  /\ job' = [job EXCEPT ![w] = k]
  /\ pc' = [pc EXCEPT ![w] = "upsert"]
  /\ UNCHANGED <<row, bus, transport, owner, fresh, moved, seen, hist, faults>>

\* The caller's five seconds are over.
CallTimeout(k) ==
  /\ caller[k] \in Workers
  /\ Fault
  /\ caller' = [caller EXCEPT ![k] = Unsent]
  /\ UNCHANGED <<row, bus, transport, owner, fresh, moved, pc, job, seen, hist>>

-----------------------------------------------------------------------------
\* Service.Process, one database or SMTP call at a time.

Goto(w, stage) == pc' = [pc EXCEPT ![w] = stage]

\* Mistake: a row that is already sent is sent again.
UpsertAlwaysSends(w) ==
  /\ pc[w] = "upsert"
  /\ status' = [status EXCEPT ![job[w]] = IF @ = "none" THEN "pending" ELSE @]
  /\ seen' = [seen EXCEPT ![w] = attempt[job[w]]]
  /\ Goto(w, IF status[job[w]] = "dead" THEN "finish" ELSE "send")
  /\ UNCHANGED <<attempt, next_at, bus, client, job, hist, faults>>

\* Mistake: a row that exists is taken to be somebody else's work.
UpsertSkipsExisting(w) ==
  /\ pc[w] = "upsert"
  /\ status' = [status EXCEPT ![job[w]] = IF @ = "none" THEN "pending" ELSE @]
  /\ seen' = [seen EXCEPT ![w] = attempt[job[w]]]
  /\ Goto(w, IF status[job[w]] = "none" THEN "send" ELSE "finish")
  /\ UNCHANGED <<attempt, next_at, bus, client, job, hist, faults>>

\* Inserts the row or reads the one there is; sent and dead end the command.
UpsertPending(w) ==
  /\ pc[w] = "upsert"
  /\ status' = [status EXCEPT ![job[w]] = IF @ = "none" THEN "pending" ELSE @]
  /\ seen' = [seen EXCEPT ![w] = attempt[job[w]]]
  /\ Goto(w, IF status[job[w]] \in {"sent", "dead"} THEN "finish" ELSE "send")
  /\ UNCHANGED <<attempt, next_at, bus, client, job, hist, faults>>

\* Mistake: off by one in the limit of handleFailure.
AfterFailureOneLess(n) == IF n >= MaxAttempts - 1 THEN "markdead" ELSE "markfailed"

\* handleFailure decides on the attempt count that UpsertPending read.
AfterFailure(n) == IF n >= MaxAttempts THEN "markdead" ELSE "markfailed"

SendOk(w) ==
  /\ pc[w] = "send"
  /\ emails' = [emails EXCEPT ![job[w]] = @ + 1]
  /\ Goto(w, "marksent")
  /\ UNCHANGED <<row, bus, client, job, seen, dlq, faults>>

\* SMTP reports an error.  The message may have been accepted all the same
\* (the connection broke after the data), which counts as a fault.
SendFail(w) ==
  /\ pc[w] = "send"
  /\ \/ UNCHANGED <<emails, faults>>
     \/ Fault /\ emails' = [emails EXCEPT ![job[w]] = @ + 1]
  /\ Goto(w, AfterFailure(seen[w] + 1))
  /\ UNCHANGED <<row, bus, client, job, seen, dlq>>

MarkSent(w) ==
  /\ pc[w] = "marksent"
  /\ status' = [status EXCEPT ![job[w]] = "sent"]
  /\ next_at' = [next_at EXCEPT ![job[w]] = Never]
  /\ Goto(w, "finish")
  /\ UNCHANGED <<attempt, bus, client, job, seen, hist, faults>>

\* Mistake: the time of the next attempt is not stored.
MarkFailedForgetsTime(w) ==
  /\ pc[w] = "markfailed"
  /\ status' = [status EXCEPT ![job[w]] = "failed"]
  /\ attempt' = [attempt EXCEPT ![job[w]] = @ + 1]
  /\ UNCHANGED next_at
  /\ Goto(w, "finish")
  /\ UNCHANGED <<bus, client, job, seen, hist, faults>>

MarkFailed(w) ==
  /\ pc[w] = "markfailed"
  /\ status' = [status EXCEPT ![job[w]] = "failed"]
  /\ attempt' = [attempt EXCEPT ![job[w]] = @ + 1]
  /\ next_at' = [next_at EXCEPT ![job[w]] = retryDelay(seen[w] + 1)]
  /\ Goto(w, "finish")
  /\ UNCHANGED <<bus, client, job, seen, hist, faults>>

MarkDead(w) ==
  /\ pc[w] = "markdead"
  /\ status' = [status EXCEPT ![job[w]] = "dead"]
  /\ attempt' = [attempt EXCEPT ![job[w]] = @ + 1]
  /\ next_at' = [next_at EXCEPT ![job[w]] = Never]
  /\ Goto(w, "deadletter")
  /\ UNCHANGED <<bus, client, job, seen, hist, faults>>

\* Published straight to Kafka, not through the outbox.
DeadLetter(w) ==
  /\ pc[w] = "deadletter"
  /\ dlq' = [dlq EXCEPT ![job[w]] = @ + 1]
  /\ Goto(w, "finish")
  /\ UNCHANGED <<row, bus, client, job, seen, emails, faults>>

\* The local variables of the call are gone.
Return(w) ==
  /\ pc' = [pc EXCEPT ![w] = "idle"]
  /\ job' = [job EXCEPT ![w] = CHOOSE k \in Keys : TRUE]
  /\ seen' = [seen EXCEPT ![w] = 0]
  /\ fresh' = [fresh EXCEPT ![w] = FALSE]

\* Process returned nil: the consumer commits the offset if the partition is
\* still its own, the gRPC handler answers if the caller still waits.
Finish(w) ==
  /\ pc[w] = "finish"
  /\ topic' = IF fresh[w] THEN Tail(topic) ELSE topic
  /\ caller' = IF caller[job[w]] = w
                 THEN [caller EXCEPT ![job[w]] = Answered] ELSE caller
  /\ Return(w)
  /\ UNCHANGED <<row, outbox, requested, transport, owner, moved, hist, faults>>

\* An error, a crash or a lost answer anywhere: nothing is committed.
Abort(w) ==
  /\ pc[w] # "idle"
  /\ Fault
  /\ caller' = IF caller[job[w]] = w
                 THEN [caller EXCEPT ![job[w]] = Unsent] ELSE caller
  /\ Return(w)
  /\ UNCHANGED <<row, bus, transport, owner, moved, hist>>

\* gRPC: the context of a call nobody waits for is done, so the next statement
\* of its handler fails; SMTP does not look at it.
Cancelled(w) ==
  /\ transport = "grpc"
  /\ pc[w] \notin {"idle", "send"} /\ caller[job[w]] # w
  /\ Return(w)
  /\ UNCHANGED <<row, bus, transport, owner, caller, moved, hist, faults>>

Process(w) ==
  \/ UpsertPending(w)
  \/ SendOk(w) \/ SendFail(w)
  \/ MarkSent(w) \/ MarkFailed(w) \/ MarkDead(w)
  \/ DeadLetter(w)
  \/ Finish(w) \/ Cancelled(w)

-----------------------------------------------------------------------------
\* The retry scheduler and the relay of the notification outbox.

Due == {k \in Keys : status[k] = "failed" /\ next_at[k] = 0}

\* One transaction: the commands go to the outbox and the rows to pending.
\* LIMIT and SKIP LOCKED leave some due rows for the next round.
EnqueueDueRetries ==
  \E D \in SUBSET Due \ {{}} :
    /\ Cardinality(D) <= RetryBatch
    /\ status' = [k \in Keys |-> IF k \in D THEN "pending" ELSE status[k]]
    /\ next_at' = [k \in Keys |-> IF k \in D THEN Never ELSE next_at[k]]
    /\ outbox' = [k \in Keys |-> IF k \in D THEN outbox[k] + 1 ELSE outbox[k]]
    /\ UNCHANGED <<attempt, topic, requested, client, pc, job, seen, hist, faults>>

\* Mistake: published_at is not looked at.
RelayPublishUnchecked(k) ==
  /\ topic' = Append(topic, k)
  /\ outbox' = [outbox EXCEPT ![k] = @ - 1]
  /\ UNCHANGED <<row, requested, client, pc, job, seen, hist, faults>>

\* The relay publishes to subber.notification.commands whatever the transport.
RelayPublish(k) ==
  /\ outbox[k] > 0
  /\ topic' = Append(topic, k)
  /\ outbox' = [outbox EXCEPT ![k] = @ - 1]
  /\ UNCHANGED <<row, requested, client, pc, job, seen, hist, faults>>

Tick ==
  /\ \E k \in Keys : next_at[k] > 0
  /\ next_at' = [k \in Keys |-> IF next_at[k] > 0 THEN next_at[k] - 1 ELSE next_at[k]]
  /\ UNCHANGED <<status, attempt, bus, client, pc, job, seen, hist, faults>>

Next ==
  \/ \E k \in Keys : Request(k) \/ DuplicateCommand(k)
                       \/ CallTimeout(k) \/ RelayPublish(k)
  \/ \E w \in Workers : FetchMessage(w) \/ Rebalance(w) \/ Process(w) \/ Abort(w)
  \/ \E w \in Workers, k \in Keys : SendNotification(w, k)
  \/ EnqueueDueRetries
  \/ Tick

Spec == Init /\ [][Next]_vars

\* Every process keeps running (after an abort it is started again), the
\* caller repeats a call that failed, the relay publishes, the clock runs.
Fairness ==
  /\ \A w \in Workers : WF_vars(FetchMessage(w)) /\ WF_vars(Process(w))
  /\ \A k \in Keys : /\ WF_vars(\E w \in Workers : SendNotification(w, k))
                     /\ WF_vars(RelayPublish(k))
  /\ WF_vars(EnqueueDueRetries)
  /\ WF_vars(Tick)

FairSpec == Spec /\ Fairness

-----------------------------------------------------------------------------
TypeOK ==
  /\ transport \in Transports
  /\ status \in [Keys -> Statuses]
  /\ attempt \in [Keys -> Nat]
  /\ next_at \in [Keys -> Nat \union {Never}]
  /\ outbox \in [Keys -> Nat]
  /\ topic \in Seq(Keys)
  /\ owner \in Workers
  /\ requested \subseteq Keys
  /\ caller \in [Keys -> Workers \union {Unsent, Answered}]
  /\ pc \in [Workers -> Stages]
  /\ job \in [Workers -> Keys]
  /\ seen \in [Workers -> Nat]
  /\ fresh \in [Workers -> BOOLEAN]
  /\ moved \in BOOLEAN
  /\ emails \in [Keys -> Nat]
  /\ dlq \in [Keys -> Nat]
  /\ faults \in 0..MaxFaults

Alone == transport = "kafka" /\ ~moved

\* A status is earned: sent is only written after the SMTP server took the
\* message, dead and the dead letter only after the configured number of
\* attempts was counted: with stale workers, timeouts and aborts as well.  As
\* long as one consumer has the partition the count is exact: no more than
\* MaxAttempts, and the row is dead when and only when they are used up.
StatusIsEarned ==
  \A k \in Keys :
    /\ status[k] = "sent" => emails[k] > 0
    /\ status[k] = "dead" \/ dlq[k] > 0 => attempt[k] >= MaxAttempts
    /\ Alone => /\ attempt[k] <= MaxAttempts
                /\ attempt[k] = MaxAttempts => status[k] = "dead"

\* No notification is stranded: a pending row has a command on its way or in
\* work (gRPC: or its caller is still owed an answer), and a failed row has a
\* time at which the scheduler finds it.
NotStranded ==
  \A k \in Keys :
    /\ status[k] = "pending" => \/ outbox[k] > 0 \/ k \in ToSet(topic)
                               \/ (transport = "grpc" /\ caller[k] # Answered)
    /\ status[k] = "failed" => next_at[k] # Never

\* kafka: every requested notification ends up sent or dead, for good, and a
\* dead one in the dead letter topic.  (After a fault it may be missing there:
\* the dead letter is published after the row was committed as dead, and the
\* command that comes again stops at the dead row.)
Settles ==
  \A k \in Keys :
    (transport = "kafka" /\ k \in requested)
      ~> [](\/ status[k] = "sent"
            \/ status[k] = "dead" /\ (dlq[k] > 0 \/ faults > 0))

\* docs/grpc-notification-transport.md: retries stay enabled in both modes.
FailedIsRetried ==
  \A k \in Keys : (status[k] = "failed") ~> (status[k] \in {"sent", "dead"})
=============================================================================
