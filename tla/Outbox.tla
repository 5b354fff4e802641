------------------------------- MODULE Outbox -------------------------------
(***************************************************************************)
(* pkg/outbox: the outbox_events table of one service and the relay        *)
(* processes that copy its rows to Kafka.  A row is claimed for            *)
(* LeaseTicks by FetchUnpublished, published synchronously and marked.     *)
(*                                                                         *)
(* A relay that gets an error from the database leaves Start and its       *)
(* process ends, so a crash, a cancelled context and a database error are  *)
(* one action, Crash, possible between any two calls.                      *)
(*                                                                         *)
(* Time is the time that is left of each lease: locked_until < now() is    *)
(* lease = 0, and NULL is 0 as well, the code treats them alike.           *)
(* last_error is written and never read, so it is left out.                *)
(***************************************************************************)
EXTENDS Integers, FiniteSets, Sequences, SequencesExt

CONSTANTS
  Events,        \* event_id values the services insert
  Relays,        \* relay processes on this database
  Rank,          \* place of an event in ORDER BY occurred_at, event_id
  BatchSize,     \* LIMIT of a fetch
  LeaseTicks,    \* the 30 seconds of locked_until
  MaxFaults      \* bound: publish errors and crashes in one behaviour

ASSUME RelaysAssumption == Relays # {}
ASSUME RankAssumption ==
  /\ Rank \in [Events -> Nat]
  /\ \A e, f \in Events : Rank[e] = Rank[f] => e = f
ASSUME BatchSizeAssumption == BatchSize \in Nat \ {0}
ASSUME LeaseAssumption == LeaseTicks \in Nat \ {0}
ASSUME FaultsAssumption == MaxFaults \in Nat

VARIABLES
  stored,      \* rows of outbox_events
  published,   \* rows with published_at set
  lease,       \* ticks until locked_until has passed
  attempts,    \* publish_attempts
  pc,          \* where each relay is
  batch,       \* events a relay fetched and has not tried yet
  cur,         \* the event a relay is about to mark
  log,         \* the topic, in broker order
  faults,      \* faults so far
  disturbed    \* history: events whose publication met a fault or a lost lease

rowVars == <<stored, published, lease, attempts>>
relayVars == <<pc, batch, cur>>
vars == <<rowVars, relayVars, log, faults, disturbed>>

Stages == {"ready", "published", "failed", "down"}

Idle(r) == pc[r] = "ready" /\ batch[r] = {}

\* Events relay r has in hand and not yet marked.
Holding(r) == batch[r] \union
                (IF pc[r] \in {"published", "failed"} THEN {cur[r]} ELSE {})

Init ==
  /\ stored = {}
  /\ published = {}
  /\ lease = [e \in Events |-> 0]
  /\ attempts = [e \in Events |-> 0]
  /\ pc = [r \in Relays |-> "ready"]
  /\ batch = [r \in Relays |-> {}]
  /\ cur \in [Relays -> Events]
  /\ log = <<>>
  /\ faults = 0
  /\ disturbed = {}

\* InsertTx: the row appears when the business transaction commits.  A second
\* insert of an event_id does nothing (ON CONFLICT DO NOTHING).
InsertTx(e) ==
  /\ e \notin stored
  /\ stored' = stored \union {e}
  /\ UNCHANGED <<published, lease, attempts, relayVars, log, faults, disturbed>>

\* Mistake: published rows are not filtered out.
CandidatesWithPublished == {e \in stored : lease[e] = 0}

\* Mistake: the lease is not looked at.
CandidatesIgnoringLease == stored \ published

\* Mistake: rows that failed once are given up.
CandidatesNeverTried ==
  {e \in stored : e \notin published /\ lease[e] = 0 /\ attempts[e] = 0}

Candidates == {e \in stored : e \notin published /\ lease[e] = 0}

\* Rows a concurrent UPDATE of another relay may have locked: SKIP LOCKED.
MaybeLocked(r) ==
  {cur[q] : q \in {p \in Relays \ {r} : pc[p] \in {"published", "failed"}}}

\* The first BatchSize rows of S in the order of the query.
FirstOf(S) ==
  {e \in S : Cardinality({f \in S : Rank[f] < Rank[e]}) < BatchSize}

\* RETURNING gives the claimed rows in no order, so the batch is a set.
FetchUnpublished(r) ==
  /\ Idle(r)
  /\ \E skipped \in SUBSET MaybeLocked(r) :
       /\ batch' = [batch EXCEPT ![r] = FirstOf(Candidates \ skipped)]
       /\ batch'[r] # {}
  /\ lease' = [e \in Events |-> IF e \in batch'[r] THEN LeaseTicks ELSE lease[e]]
  /\ UNCHANGED <<stored, published, attempts, pc, cur, log, faults, disturbed>>

PublishOk(r, e) ==
  /\ pc[r] = "ready"
  /\ e \in batch[r]
  /\ batch' = [batch EXCEPT ![r] = @ \ {e}]
  /\ cur' = [cur EXCEPT ![r] = e]
  /\ pc' = [pc EXCEPT ![r] = "published"]
  /\ log' = Append(log, e)
  /\ UNCHANGED <<rowVars, faults, disturbed>>

\* Mistake: the error is not looked at and the row gets marked published.
PublishErrorIgnored(r, e) ==
  /\ pc[r] = "ready"
  /\ e \in batch[r]
  /\ faults < MaxFaults
  /\ faults' = faults + 1
  /\ batch' = [batch EXCEPT ![r] = {}]
  /\ cur' = [cur EXCEPT ![r] = e]
  /\ pc' = [pc EXCEPT ![r] = "published"]
  /\ log' \in {log, Append(log, e)}
  /\ disturbed' = disturbed \union {e}
  /\ UNCHANGED rowVars

\* The producer reports an error; the broker may have the message anyway.
\* The loop breaks: the rest of the batch stays leased and is forgotten.
PublishError(r, e) ==
  /\ pc[r] = "ready"
  /\ e \in batch[r]
  /\ faults < MaxFaults
  /\ faults' = faults + 1
  /\ batch' = [batch EXCEPT ![r] = {}]
  /\ cur' = [cur EXCEPT ![r] = e]
  /\ pc' = [pc EXCEPT ![r] = "failed"]
  /\ log' \in {log, Append(log, e)}
  /\ disturbed' = disturbed \union {e}
  /\ UNCHANGED rowVars

MarkPublished(r) ==
  /\ pc[r] = "published"
  /\ published' = published \union {cur[r]}
  /\ lease' = [lease EXCEPT ![cur[r]] = 0]
  /\ pc' = [pc EXCEPT ![r] = "ready"]
  /\ UNCHANGED <<stored, attempts, batch, cur, log, faults, disturbed>>

\* Mistake: the lease is shortened on every failure instead of cleared.
MarkFailedShortensLease(r) ==
  /\ pc[r] = "failed"
  /\ attempts' = [attempts EXCEPT ![cur[r]] = @ + 1]
  /\ lease' = [lease EXCEPT ![cur[r]] = @ - LeaseTicks]
  /\ pc' = [pc EXCEPT ![r] = "ready"]
  /\ UNCHANGED <<stored, published, batch, cur, log, faults, disturbed>>

\* Unconditional: it also frees a lease another relay took in the meantime.
MarkFailed(r) ==
  /\ pc[r] = "failed"
  /\ attempts' = [attempts EXCEPT ![cur[r]] = @ + 1]
  /\ lease' = [lease EXCEPT ![cur[r]] = 0]
  /\ pc' = [pc EXCEPT ![r] = "ready"]
  /\ UNCHANGED <<stored, published, batch, cur, log, faults, disturbed>>

Crash(r) ==
  /\ pc[r] # "down"
  /\ faults < MaxFaults
  /\ faults' = faults + 1
  /\ disturbed' = IF pc[r] = "published" THEN disturbed \union {cur[r]}
                                         ELSE disturbed
  /\ pc' = [pc EXCEPT ![r] = "down"]
  /\ batch' = [batch EXCEPT ![r] = {}]
  /\ UNCHANGED <<rowVars, cur, log>>

\* The operator or the container platform starts the process again.
Restart(r) ==
  /\ pc[r] = "down"
  /\ pc' = [pc EXCEPT ![r] = "ready"]
  /\ UNCHANGED <<rowVars, batch, cur, log, faults, disturbed>>

\* Time passes; a lease that runs out under a relay's hands is a disturbance.
Tick ==
  /\ \E e \in Events : lease[e] > 0
  /\ lease' = [e \in Events |-> IF lease[e] > 0 THEN lease[e] - 1 ELSE 0]
  /\ disturbed' = disturbed \union
       {e \in Events : lease[e] = 1 /\ \E r \in Relays : e \in Holding(r)}
  /\ UNCHANGED <<stored, published, attempts, relayVars, log, faults>>

Publish(r) == \E e \in Events : PublishOk(r, e) \/ PublishError(r, e)

\* One iteration of the relay's own code.
RelayStep(r) ==
  \/ FetchUnpublished(r)
  \/ Publish(r)
  \/ MarkPublished(r)
  \/ MarkFailed(r)

Next ==
  \/ \E e \in Events : InsertTx(e)
  \/ \E r \in Relays : RelayStep(r) \/ Crash(r) \/ Restart(r)
  \/ Tick

Spec == Init /\ [][Next]_vars

\* The ticker fires for ever, the Go scheduler runs every process, a stopped
\* process is started again and the clock runs.  Business code need not insert.
Fairness ==
  /\ \A r \in Relays : WF_vars(RelayStep(r)) /\ WF_vars(Restart(r))
  /\ WF_vars(Tick)

FairSpec == Spec /\ Fairness

-----------------------------------------------------------------------------
TypeOK ==
  /\ stored \subseteq Events
  /\ published \subseteq stored
  /\ lease \in [Events -> 0..LeaseTicks]
  /\ attempts \in [Events -> Nat]
  /\ pc \in [Relays -> Stages]
  /\ batch \in [Relays -> SUBSET stored]
  /\ cur \in [Relays -> Events]
  /\ log \in Seq(stored)
  /\ faults \in 0..MaxFaults
  /\ disturbed \subseteq Events

InTopic(e) == \E i \in 1..Len(log) : log[i] = e

\* No loss across the mark: a row is marked published only when the broker
\* holds the event, whatever errors, crashes and second relays there were
\* (PublishOnce marks after a successful Publish and a failed one breaks).
PublishedIsInTopic == \A e \in published : InTopic(e)

\* Two relays work on the same row only if it was disturbed: SKIP LOCKED and
\* the lease keep FetchUnpublished from handing out a row that is in hand.
ExclusiveUnlessDisturbed ==
  \A r, q \in Relays :
    r # q => Holding(r) \intersect Holding(q) \subseteq disturbed

\* A duplicate in the topic has one of three causes: the producer reported an
\* error, the relay died before MarkPublished, or its lease ran out while it
\* was still working.
DuplicateHasCause ==
  \A i, j \in 1..Len(log) : i < j /\ log[i] = log[j] => log[i] \in disturbed

\* What the rest of the system relies on.  Every committed event reaches the
\* topic in the end: a row left leased by a broken batch or a dead relay comes
\* back when the lease runs out.
Channel == INSTANCE EventChannel WITH accepted <- stored, delivered <- log
ChannelSafety == Channel!ChanSafety
ChannelSpec == Channel!ChanSpec
=============================================================================
