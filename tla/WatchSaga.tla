----------------------------- MODULE WatchSaga -----------------------------
(***************************************************************************)
(* The saga that keeps the scanner's watchlist in step with the            *)
(* subscribers of ONE repository: the orchestrator of subscription-api     *)
(* (HandleRequest, HandleAck, RetryDue on saga_instances) and the command  *)
(* handler of scanner-service (ApplyWatchCommand on scanner_watchlist).    *)
(* Each of these is one database transaction, so each is one action.       *)
(*                                                                         *)
(* A channel stands for an outbox, its relay, a topic and the consumer's   *)
(* offset together.  It keeps the order; reordering and duplication, which *)
(* Outbox shows to happen, cost a fault each.  A transaction that rolls    *)
(* back leaves its message where it was.                                   *)
(*                                                                         *)
(* Time is what is left until next_retry_at and deadline_at.               *)
(***************************************************************************)
EXTENDS Integers, FiniteSets, Sequences, SequencesExt

CONSTANTS
  Actions,          \* what the requests of the repository ask for, in order
  RetryDelays,      \* retryDelays: 1m, 5m, 15m, 1h, in ticks
  Deadline,         \* DefaultDeadline in ticks
  RetryLimit,       \* DefaultRetryLimit
  ScannerFails,     \* whether statements of the scanner "never" fail,
                    \* "sometimes" or "always" do
  FailuresReported, \* whether a transaction with a failed statement can
                    \* still commit an ack; PostgreSQL aborts it, so FALSE
  MaxFaults         \* bound: reorderings and duplicates

Sagas == 1..Len(Actions)

ASSUME ActionsAssumption == Actions \in Seq({"start", "stop"})
ASSUME DelaysAssumption == RetryDelays \in Seq(Nat \ {0}) /\ RetryDelays # <<>>
ASSUME BoundsAssumption ==
  Deadline \in Nat /\ RetryLimit \in Nat \ {0} /\ MaxFaults \in Nat
ASSUME ModesAssumption ==
  /\ ScannerFails \in {"never", "sometimes", "always"}
  /\ FailuresReported \in BOOLEAN

VARIABLES
  asked,       \* number of requests subscription-api has committed
  overlapped,  \* history: one of them came before the last had settled
  requests,    \* channel subber.watchlist.saga.requests
  status,      \* saga_instances.status, "none" without a row
  attempts,    \* saga_instances.attempts
  next_retry,  \* ticks until next_retry_at
  deadline,    \* ticks until deadline_at
  commands,    \* channel subber.watchlist.saga.commands
  watched,     \* whether scanner_watchlist has the repository
  acks,        \* channel subber.watchlist.saga.events
  applied,     \* history: sagas whose command the scanner carried out
  rejected,    \* history: sagas whose command failed in the scanner
  faults

saga == <<status, attempts, next_retry, deadline>>
scanner == <<watched, applied, rejected>>
vars == <<asked, overlapped, requests, saga, commands, scanner, acks, faults>>

Terminal == {"completed", "failed"}
Statuses == {"none", "command_sent", "retrying"} \union Terminal
AckType(action) == IF action = "start" THEN "started" ELSE "stopped"
Acks == [saga : Sagas, type : {"started", "stopped", "failed"}]

Init ==
  /\ asked = 0
  /\ overlapped = FALSE
  /\ requests = <<>>
  /\ status = [s \in Sagas |-> "none"]
  /\ attempts = [s \in Sagas |-> 0]
  /\ next_retry = [s \in Sagas |-> 0]
  /\ deadline = [s \in Sagas |-> 0]
  /\ commands = <<>>
  /\ watched = FALSE
  /\ acks = <<>>
  /\ applied = {}
  /\ rejected = {}
  /\ faults = 0

\* The list is short; every attempt past its end takes the last delay.
retryDelay(n) ==
  IF n <= 1 THEN RetryDelays[1]
  ELSE IF n >= Len(RetryDelays) THEN Last(RetryDelays) ELSE RetryDelays[n]

\* Nothing is under way any more that could touch the watchlist.
Settled ==
  /\ requests = <<>> /\ commands = <<>>
  /\ \A s \in 1..asked : status[s] \in Terminal

-----------------------------------------------------------------------------
\* subscription-api commits the next request of the repository.
Request ==
  /\ asked < Len(Actions)
  /\ asked' = asked + 1
  /\ overlapped' = (overlapped \/ ~Settled)
  /\ requests' = Append(requests, asked + 1)
  /\ UNCHANGED <<saga, commands, scanner, acks, faults>>

\* prepareWatchCommand for the sagas of a sequence, in the same transaction.
Emit(batch) == commands' = commands \o batch

\* A saga that exists already is a duplicate request and changes nothing.
HandleRequest ==
  /\ requests # <<>>
  /\ requests' = Tail(requests)
  /\ LET s == Head(requests) IN
       IF status[s] # "none" THEN UNCHANGED <<saga, commands>>
       ELSE /\ status' = [status EXCEPT ![s] = "command_sent"]
            /\ attempts' = [attempts EXCEPT ![s] = 1]
            /\ next_retry' = [next_retry EXCEPT ![s] = retryDelay(1)]
            /\ deadline' = [deadline EXCEPT ![s] = Deadline]
            /\ Emit(<<s>>)
  /\ UNCHANGED <<asked, overlapped, scanner, acks, faults>>

\* Mistake: a late failure is taken even if the saga is over.
FailedAckAlways(s) ==
  /\ status' = [status EXCEPT ![s] = IF deadline[s] = 0 THEN "failed" ELSE "retrying"]
  /\ next_retry' = [next_retry EXCEPT ![s] = retryDelay(1)]

\* handleFailedAck
FailedAck(s) ==
  IF status[s] \in Terminal THEN UNCHANGED <<status, next_retry>>
  ELSE /\ status' = [status EXCEPT ![s] = IF deadline[s] = 0 THEN "failed"
                                                            ELSE "retrying"]
       /\ next_retry' = [next_retry EXCEPT ![s] = retryDelay(1)]

\* handleSuccessAck
SuccessAck(s) ==
  /\ status' = [status EXCEPT ![s] = IF @ \in Terminal THEN @ ELSE "completed"]
  /\ UNCHANGED next_retry

\* HandleAck.  An ack without a row, or of the wrong type, is an error that
\* stops the consumer at this message for good: the action is not enabled.
HandleAck ==
  /\ acks # <<>>
  /\ LET ack == Head(acks) IN
       /\ status[ack.saga] # "none"
       /\ \/ ack.type = AckType(Actions[ack.saga]) /\ SuccessAck(ack.saga)
          \/ ack.type = "failed" /\ FailedAck(ack.saga)
  /\ acks' = Tail(acks)
  /\ UNCHANGED <<asked, overlapped, requests, attempts, deadline, commands, scanner, faults>>

\* Mistake: a saga is retried once and then forgotten.
DueOnlySent == {s \in Sagas : status[s] = "command_sent" /\ next_retry[s] = 0}

Due == {s \in Sagas : status[s] \in {"command_sent", "retrying"} /\ next_retry[s] = 0}

Expired(D) == {s \in D : deadline[s] = 0}

NextRetry(s) == retryDelay(attempts[s] + 1)

\* RetryDue: one sweep.  SKIP LOCKED and LIMIT may leave due sagas out.
RetryDue ==
  \E D \in SUBSET Due \ {{}} :
    /\ Cardinality(D) <= RetryLimit
    /\ LET retried == D \ Expired(D) IN
         /\ status' = [s \in Sagas |-> IF s \in Expired(D) THEN "failed"
                                       ELSE IF s \in retried THEN "retrying"
                                       ELSE status[s]]
         /\ attempts' = [s \in Sagas |-> IF s \in retried THEN attempts[s] + 1
                                                          ELSE attempts[s]]
         /\ next_retry' = [s \in Sagas |-> IF s \in retried THEN NextRetry(s)
                                                            ELSE next_retry[s]]
         /\ \E batch \in SetToSeqs(retried) : Emit(batch)
    /\ UNCHANGED <<asked, overlapped, requests, deadline, scanner, acks, faults>>

-----------------------------------------------------------------------------
\* The scanner: the watchlist row and the ack in one transaction.

Ack(s, type) == acks' = Append(acks, [saga |-> s, type |-> type])

\* Mistake: every success is acknowledged as a start.
ApplyAcksStarted ==
  /\ ScannerFails # "always"
  /\ commands # <<>>
  /\ LET s == Head(commands) IN
       /\ watched' = (Actions[s] = "start")
       /\ applied' = applied \union {s}
       /\ Ack(s, "started")
  /\ commands' = Tail(commands)
  /\ UNCHANGED <<asked, overlapped, requests, saga, rejected, faults>>

\* Mistake: the row stays on stop.
ApplyNeverDeletes ==
  /\ ScannerFails # "always"
  /\ commands # <<>>
  /\ LET s == Head(commands) IN
       /\ watched' = (watched \/ Actions[s] = "start")
       /\ applied' = applied \union {s}
       /\ Ack(s, AckType(Actions[s]))
  /\ commands' = Tail(commands)
  /\ UNCHANGED <<asked, overlapped, requests, saga, rejected, faults>>

\* startWatchingTx or stopWatchingTx, both idempotent.
ApplyWatchCommand ==
  /\ ScannerFails # "always"
  /\ commands # <<>>
  /\ LET s == Head(commands) IN
       /\ watched' = (Actions[s] = "start")
       /\ applied' = applied \union {s}
       /\ Ack(s, AckType(Actions[s]))
  /\ commands' = Tail(commands)
  /\ UNCHANGED <<asked, overlapped, requests, saga, rejected, faults>>

\* Mistake: the error of the statement is dropped, the ack says success.
RejectAcksSuccess ==
  /\ ScannerFails # "never"
  /\ commands # <<>>
  /\ LET s == Head(commands) IN
       /\ rejected' = rejected \union {s}
       /\ Ack(s, AckType(Actions[s]))
  /\ commands' = Tail(commands)
  /\ UNCHANGED <<asked, overlapped, requests, saga, watched, applied, faults>>

\* A statement fails.  repository.go:118 then writes a failure ack in the same
\* transaction; where that is aborted, nothing is committed, the handler
\* returns the error, and the message is delivered again.
RejectWatchCommand ==
  /\ ScannerFails # "never"
  /\ commands # <<>>
  /\ LET s == Head(commands) IN
       /\ rejected' = rejected \union {s}
       /\ \/ FailuresReported /\ Ack(s, "failed") /\ commands' = Tail(commands)
          \/ UNCHANGED <<acks, commands>>
  /\ UNCHANGED <<asked, overlapped, requests, saga, watched, applied, faults>>

-----------------------------------------------------------------------------
\* A message is delivered a second time, at once or after later ones.
Again(channel) ==
  UNION {{InsertAt(channel, j, channel[i]) : j \in (i + 1)..(Len(channel) + 1)} :
           i \in 1..Len(channel)}

\* A message overtakes the one before it.
Overtaken(channel) ==
  {[channel EXCEPT ![i] = channel[i+1], ![i+1] = channel[i]] :
     i \in 1..(Len(channel) - 1)}

Disturbed(channel) == Again(channel) \union Overtaken(channel)

Disturb ==
  /\ faults < MaxFaults
  /\ faults' = faults + 1
  /\ \/ requests' \in Disturbed(requests) /\ UNCHANGED <<commands, acks>>
     \/ commands' \in Disturbed(commands) /\ UNCHANGED <<requests, acks>>
     \/ acks' \in Disturbed(acks) /\ UNCHANGED <<requests, commands>>
  /\ UNCHANGED <<asked, overlapped, saga, scanner>>

\* Mistake: the time left runs below zero.
TickUnfloored ==
  /\ \E s \in Sagas : next_retry[s] > 0 \/ deadline[s] > 0
  /\ next_retry' = [s \in Sagas |-> next_retry[s] - 1]
  /\ deadline' = [s \in Sagas |-> IF deadline[s] > 0 THEN deadline[s] - 1 ELSE 0]
  /\ UNCHANGED <<asked, overlapped, requests, status, attempts, commands, scanner, acks, faults>>

Tick ==
  /\ \E s \in Sagas : next_retry[s] > 0 \/ deadline[s] > 0
  /\ next_retry' = [s \in Sagas |-> IF next_retry[s] > 0 THEN next_retry[s] - 1 ELSE 0]
  /\ deadline' = [s \in Sagas |-> IF deadline[s] > 0 THEN deadline[s] - 1 ELSE 0]
  /\ UNCHANGED <<asked, overlapped, requests, status, attempts, commands, scanner, acks, faults>>

Next ==
  \/ Request
  \/ HandleRequest \/ HandleAck \/ RetryDue
  \/ ApplyWatchCommand \/ RejectWatchCommand
  \/ Disturb
  \/ Tick

Spec == Init /\ [][Next]_vars

\* Consumers, the ten-second sweep and the clock go on.  Nothing is assumed of
\* the scanner: its statements may fail for ever.
FairSpec ==
  /\ Spec
  /\ WF_vars(HandleRequest) /\ WF_vars(HandleAck) /\ WF_vars(RetryDue)
  /\ WF_vars(Tick)

\* The scanner does get its commands.
FairScannerSpec == FairSpec /\ WF_vars(ApplyWatchCommand \/ RejectWatchCommand)

-----------------------------------------------------------------------------
TypeOK ==
  /\ asked \in 0..Len(Actions)
  /\ overlapped \in BOOLEAN
  /\ requests \in Seq(Sagas)
  /\ status \in [Sagas -> Statuses]
  /\ attempts \in [Sagas -> Nat]
  /\ next_retry \in [Sagas -> Nat]
  /\ deadline \in [Sagas -> 0..Deadline]
  /\ commands \in Seq(Sagas)
  /\ watched \in BOOLEAN
  /\ acks \in Seq(Acks)
  /\ applied \subseteq Sagas
  /\ rejected \subseteq Sagas
  /\ faults \in 0..MaxFaults

\* A saga is completed only after the scanner carried its command out, however
\* requests, commands and acks are repeated, reordered and retried.
CompletedIsApplied == \A s \in Sagas : status[s] = "completed" => s \in applied

\* No ack can block the ack consumer: the row an ack refers to was committed
\* with the command it answers, and its type fits the action.
NoPoisonAck ==
  \A i \in 1..Len(acks) :
    /\ status[acks[i].saga] # "none"
    /\ acks[i].type \in {AckType(Actions[acks[i].saga]), "failed"}

\* A settled saga is settled for good: late acks and sweeps leave it alone.
SettledForGood ==
  [][\A s \in Sagas : status[s] \in Terminal => status'[s] = status[s]]_vars

\* Every saga settles, also when the scanner never answers: the sweep retries
\* it until the deadline and then gives it up.
SagaSettles == \A s \in Sagas : (status[s] # "none") ~> (status[s] \in Terminal)

\* ADR-006: "watchlist synchronization must survive service restarts".  With
\* every saga completed and nothing under way, the watchlist has what the last
\* request asked for.
WatchlistSynchronized ==
  asked > 0 /\ Settled /\ (\A s \in 1..asked : status[s] = "completed")
    => watched = (Actions[asked] = "start")

\* That is so if every request came after the one before had settled, in spite
\* of repeated and overtaken messages, failed statements and retries.
SpacedIsSynchronized == ~overlapped => WatchlistSynchronized

\* command_sent and retrying are one thing to those who wait for the saga.
Stage(s) == IF status[s] \in {"command_sent", "retrying"} THEN "open" ELSE status[s]

\* The sagas keep the promise of SagaContract, in spite of repeated, overtaken
\* and retried messages between the orchestrator and the scanner.
Contract == INSTANCE SagaContract
  WITH Ids <- Sagas, Wants <- [s \in Sagas |-> Actions[s] = "start"],
       stage <- [s \in Sagas |-> Stage(s)], done <- applied, listed <- watched
ContractSafety == Contract!ContractSafety

\* SDD-changelog: the scanner reports success or failure of a command.
FailureIsReported ==
  \A s \in Sagas : (s \in rejected) ~> (s \in applied \/ \E i \in 1..Len(acks) :
                                        acks[i] = [saga |-> s, type |-> "failed"])
=============================================================================
