--------------------------- MODULE ReleaseFanout ---------------------------
(***************************************************************************)
(* From a release event to the mails: ReleaseExpander of subscription-api  *)
(* reads the confirmed subscribers of the repository once and asks for one *)
(* notification each, through the outbox or by a gRPC call, and Delivery   *)
(* handles what it asks for.  The module adds the expander to Delivery and *)
(* replaces the requests that Delivery takes from nowhere.                 *)
(*                                                                         *)
(* Everything is about one repository.  An expansion that fails anywhere   *)
(* is started again from the first subscriber, with the subscribers of     *)
(* then and with other notification ids; only the idempotency key stays.   *)
(* The commands partition stays with one consumer, and a failed attempt is *)
(* left to the retry scheduler: Delivery has both.                         *)
(***************************************************************************)
EXTENDS Delivery

CONSTANTS
  Tags,          \* releases of the repository
  Addresses,     \* email addresses as their owners wrote them
  EmailHash,     \* the hash of an address in lower case
  Nobody,        \* model value: no call in flight
  MaxReruns,     \* bound: failed expansions, repeated events and commands
  MaxChanges     \* bound: confirmations and unsubscribes

ASSUME HashAssumption == DOMAIN EmailHash = Addresses
ASSUME KeysAssumption == Keys = {<<t, EmailHash[a]>> : t \in Tags, a \in Addresses}
ASSUME NobodyAssumption == Nobody \notin Addresses
ASSUME FanoutBoundsAssumption == MaxReruns \in Nat /\ MaxChanges \in Nat

VARIABLES
  confirmed,    \* addresses with a confirmed subscription
  detected,     \* releases the scanner has announced
  events,       \* release events whose offset is not committed
  expanding,    \* Expand works on the first of them
  todo,         \* addresses it has read and not notified yet
  call,         \* gRPC: the address its call in flight is for
  reruns, changes

expander == <<events, expanding, todo, call>>
world == <<confirmed, detected, reruns, changes>>
fanout == <<expander, world>>

FanoutInit ==
  /\ Init
  /\ confirmed \in SUBSET Addresses
  /\ detected = {}
  /\ events = <<>>
  /\ expanding = FALSE
  /\ todo = {}
  /\ call = Nobody
  /\ reruns = 0
  /\ changes = 0

\* Mistake: the key is built from the address as it was written.
KeyOfAddress(t, a) == <<t, a>>

\* The idempotency key, repo:tag:emailHash.
Key(t, a) == <<t, EmailHash[a]>>

Rerun == reruns < MaxReruns /\ reruns' = reruns + 1
Asked(a) == Key(Head(events), a)

-----------------------------------------------------------------------------
\* The world around the expander.

\* The scanner's relay publishes an event at least once.
ReleaseDetected(t) ==
  /\ \/ t \notin detected /\ UNCHANGED reruns
     \/ t \in detected /\ Rerun
  /\ detected' = detected \union {t}
  /\ events' = Append(events, t)
  /\ UNCHANGED <<vars, expanding, todo, call, confirmed, changes>>

SubscriberChanges(a) ==
  /\ changes < MaxChanges
  /\ changes' = changes + 1
  /\ confirmed' = IF a \in confirmed THEN confirmed \ {a} ELSE confirmed \union {a}
  /\ UNCHANGED <<vars, expander, detected, reruns>>

\* The outbox of subscription-api publishes a command it has published.
RelayRepeats(k) ==
  /\ transport = "kafka" /\ k \in requested
  /\ Rerun
  /\ topic' = Append(topic, k)
  /\ UNCHANGED <<row, outbox, requested, client, pc, job, seen, hist, faults,
                 expander, confirmed, detected, changes>>

-----------------------------------------------------------------------------
\* ReleaseExpander.Expand for the first event that is not committed.

GetSubscribers ==
  /\ events # <<>> /\ ~expanding
  /\ expanding' = TRUE
  /\ todo' = confirmed
  /\ UNCHANGED <<vars, events, call, world>>

\* kafka: a transaction of its own per subscriber; the relay publishes what it
\* committed.
PublishReleaseNotification(a) ==
  /\ transport = "kafka"
  /\ a \in todo
  /\ todo' = todo \ {a}
  /\ requested' = requested \union {Asked(a)}
  /\ topic' = Append(topic, Asked(a))
  /\ UNCHANGED <<row, outbox, client, pc, job, seen, hist, faults,
                 events, expanding, call, world>>

\* grpc: the call is made and the expander waits for it.
CallSendNotification(w, a) ==
  /\ transport = "grpc"
  /\ a \in todo /\ call = Nobody /\ pc[w] = "idle"
  /\ call' = a
  /\ requested' = requested \union {Asked(a)}
  /\ caller' = [caller EXCEPT ![Asked(a)] = w]
  /\ job' = [job EXCEPT ![w] = Asked(a)]
  /\ pc' = [pc EXCEPT ![w] = "upsert"]
  /\ UNCHANGED <<row, outbox, topic, transport, owner, fresh, moved, seen, hist,
                 faults, events, expanding, todo, world>>

CallReturns ==
  /\ call # Nobody /\ caller[Asked(call)] = Answered
  /\ todo' = todo \ {call}
  /\ call' = Nobody
  /\ UNCHANGED <<vars, events, expanding, world>>

GiveUp == expanding' = FALSE /\ todo' = {} /\ call' = Nobody

\* Mistake: an error of one subscriber is passed over.
CallFailsGoesOn ==
  /\ call # Nobody /\ caller[Asked(call)] = Unsent
  /\ todo' = todo \ {call}
  /\ call' = Nobody
  /\ UNCHANGED <<vars, events, expanding, world>>

\* The call failed or took too long: the error ends the expansion and the
\* process, and the event comes again.
CallFails ==
  /\ call # Nobody /\ caller[Asked(call)] = Unsent
  /\ GiveUp
  /\ UNCHANGED <<vars, events, world>>

\* A statement fails or the process dies.  Nobody waits for the call any more.
ExpandFails ==
  /\ expanding
  /\ Rerun
  /\ GiveUp
  /\ caller' = IF call = Nobody THEN caller
               ELSE [caller EXCEPT ![Asked(call)] = Unsent]
  /\ UNCHANGED <<row, bus, transport, owner, fresh, moved, pc, job, seen, hist,
                 faults, events, confirmed, detected, changes>>

\* Expand returned nil: the offset is committed.
ExpandDone ==
  /\ expanding /\ todo = {}
  /\ events' = Tail(events)
  /\ GiveUp
  /\ UNCHANGED <<vars, world>>

Expand ==
  \/ GetSubscribers
  \/ \E a \in Addresses : PublishReleaseNotification(a)
  \/ \E w \in Workers, a \in Addresses : CallSendNotification(w, a)
  \/ CallReturns \/ CallFails
  \/ ExpandDone

-----------------------------------------------------------------------------
\* What notification-service does with the requests.
Deliver(w) == FetchMessage(w) \/ Process(w) \/ Abort(w)

FanoutNext ==
  \/ \E t \in Tags : ReleaseDetected(t)
  \/ \E a \in Addresses : SubscriberChanges(a)
  \/ \E k \in Keys : RelayRepeats(k)
  \/ Expand
  \/ ExpandFails
  \/ /\ \/ \E w \in Workers : Deliver(w)
        \/ \E k \in Keys : CallTimeout(k)
     /\ UNCHANGED fanout

allvars == <<vars, fanout>>

FanoutSafeSpec == FanoutInit /\ [][FanoutNext]_allvars

\* The consumer of release events is started again when it ends; the rest is
\* Delivery's fairness.
FanoutSpec ==
  /\ FanoutSafeSpec
  /\ WF_allvars(Expand)
  /\ \A w \in Workers : /\ WF_allvars(FetchMessage(w) /\ UNCHANGED fanout)
                        /\ WF_allvars(Process(w) /\ UNCHANGED fanout)

-----------------------------------------------------------------------------
FanoutTypeOK ==
  /\ TypeOK
  /\ confirmed \subseteq Addresses
  /\ detected \subseteq Tags
  /\ events \in Seq(Tags)
  /\ expanding \in BOOLEAN
  /\ todo \subseteq Addresses
  /\ call \in Addresses \union {Nobody}
  /\ reruns \in 0..MaxReruns
  /\ changes \in 0..MaxChanges

\* One release is one mail for one mailbox, though the event is expanded again
\* from the start, events and commands come twice and an address has two
\* subscriptions that differ in case.  Over Kafka only an attempt that was cut
\* off after the send, or whose error was wrong, costs another mail; over gRPC
\* also an expander that went away while its call was served.
OneMail ==
  \A k \in Keys :
    emails[k] <= 1 + faults + (IF transport = "grpc" THEN reruns ELSE 0)

\* The notification has been sent, or tried and left to the retry scheduler.
Told(k) == status[k] \in {"sent", "dead", "failed"} \/ attempt[k] > 0

\* Whoever is subscribed when an expansion of a release begins, and stays so, is
\* told of it in the end, whatever goes wrong with this one or with the others.
EverySubscriberIsTold ==
  \A t \in Tags, a \in Addresses :
    (t \in ToSet(events) /\ ~expanding /\ a \in confirmed)
      ~> (Told(Key(t, a)) \/ a \notin confirmed)
=============================================================================
