# A formal model of the release-notification system

The repository is a set of Go services that let people subscribe, by email, to
the releases of GitHub repositories. This directory holds TLA+ modules of its
core logic, the TLC configurations that check them on small instances, and
proofs checked by TLAPS. `PROJECT.json` is the index: it maps every definition
to source lines, lists the runs, the properties with a seeded mistake that
breaks each, the hazards of the code and the theorems.

Paths below are relative to `src/`.

## 1. The system

```
            HTTP                     outbox + Kafka                 outbox + Kafka
 user ---> subscription-api ------> saga-orchestrator <---------> scanner-service ---> GitHub
             |    ^                                                   |   (Redis cache)
             |    |                  subber.release.events            |
             |    +---------------------------------------------------+
             |  HTTP (confirmations), Kafka or gRPC (releases)
             +-----------------> notification-service ---> SMTP
```

Each service has its own PostgreSQL database. Whatever one service tells another
about a change of its data it writes to its own `outbox_events` table first; a
relay process copies the table to Kafka.

| Part | State | Operations | Interacts through |
|---|---|---|---|
| Outbox and relay (`pkg/outbox`) | `outbox_events`: `published_at`, `locked_until`, `publish_attempts` | `InsertTx`, `FetchUnpublished`, `MarkPublished`, `MarkFailed`, `PublishOnce` | business transactions, Kafka producer |
| Kafka consumer (`pkg/kafka`) | offset in hand; committed offset at the broker | fetch, handle, dead letter, commit | consumer group, handlers |
| Subscriptions (`services/subscription-api/internal/subscription`, `httpapi`) | `subscriptions`: token, confirmed | subscribe with compensation, confirm, unsubscribe, saga requests | HTTP, mail request, outbox |
| Watch saga (`internal/watchsaga`, `cmd/saga-orchestrator`) | `saga_instances`: status, attempts, `next_retry_at`, `deadline_at` | `HandleRequest`, `HandleAck`, `RetryDue` | outbox and Kafka both ways with the scanner |
| Scanner commands (`scanner-service/internal/scanner`) | `scanner_watchlist` | `ApplyWatchCommand` | outbox and Kafka |
| Scan loop | `next_scan_at`, `last_seen_tag`, `scanner_releases` | `ClaimDue`, `ScanOnce`, `scanRepo`, `MarkReleaseDetected` | GitHub, Redis, outbox |
| Release cache (`internal/github`, `internal/cache`) | Redis entry with expiry | `GetLatestTag` | Redis, GitHub |
| Release expander (`subscription/release_expander.go`) | none | one notification per confirmed subscriber | Kafka, notification publisher |
| Delivery (`notification-service/internal/delivery`) | `notification_deliveries`: status, `attempt_count`, `next_attempt_at` | `Process`, `EnqueueDueRetries` | Kafka, gRPC, SMTP, outbox |
| Migrations (`pkg/migrations`, `cmd/migrate`) | `schema_migrations` | `Load`, `Run`, `apply` | PostgreSQL |
| Service processes (`main.go`, `cmd/*/main.go`, `pkg/metrics/server.go`) | errgroup, servers, loops, open resources | start, signal, shutdown, closing | signals, everything above |
| Log hook (`pkg/logger/setup.go`) | channel of entries, `closed`, RWMutex | `Fire`, `publishLoop`, `CloseWithContext` | whoever logs, Vector sidecar |
| Configuration, counters, request ids | none that decides anything | | |

What is hard in it:

* **Outbox**: a lease that is a time and not a lock; marks that name the row and
  not the lease; a batch that breaks in the middle; a crash between publish and
  mark. Correct if nothing committed is lost and a repeat has a cause.
* **Consumer**: rebalances under a running handler, late commits, errors that end
  the process. Correct if the committed offset never passes unfinished work, and
  a message that can never be handled does not block the others.
* **Delivery**: every database call of `Process` is its own statement, so two
  workers on one notification interleave. Correct if a recorded status was
  earned, every notification settles, and a lost answer costs at most one mail.
* **Subscriptions**: READ COMMITTED counts decide who starts or stops the watch;
  compensation races the click on the link. Correct if confirmation is a double
  opt-in, nobody else can remove a confirmed row, and the watch follows the
  subscribers.
* **Watch saga**: requests, commands and acks are repeated and reordered, retried
  and given up. Correct if completed means carried out, settled means settled,
  every saga settles, and the watchlist ends as the last request says.
* **Scanner**: claims, a cache that may be stale, commands during a scan. Correct
  if each release is announced exactly once, none is passed over silently, and
  every watched repository gets its turn.
* **Fan-out**: an event is expanded again from the start after any failure, and
  only the idempotency key ties the repeats together. Correct if a release is one
  mail for one mailbox and no subscriber is left out.
* **Migrations**: several processes, of different releases, look before they
  apply. Correct if every migration is applied once and recorded as what it was.
* **Processes**: goroutines end in any order, handlers may hang, everybody logs
  through one lock and one bounded channel while the cleanup closes it. Correct if
  nothing is closed under work that is waited for, and the process ends.

## 2. The modules

A module `...Proofs` holds the theorems about the module it is named after.

| Module | Models | State |
|---|---|---|
| `EventChannel` | what an outbox promises: at-least-once, only what was committed | abstract |
| `OrderedQueue` | what a consumer group promises: messages settled in order, none passed over | abstract |
| `DoubleOptIn` | what the owners of addresses are promised: only their link confirms or removes | abstract |
| `SagaContract` | what a saga promises its requester: it ends once, completed only if carried out | abstract |
| `ReleaseFeed` | what the readers of release events are promised: each release of a repository once | abstract |
| `SchemaLedger` | what a database is promised: files installed one at a time, each on the lower versions | abstract |
| `Outbox`, `OutboxProofs` | `outbox.go`, `relay.go` | rows, leases, relays, topic |
| `KafkaConsumer`, `KafkaConsumerProofs` | `consumer.go`, `errors.go` and their use in each `main.go` | members, offsets |
| `Delivery`, `DeliveryProofs` | `delivery/service.go`, `repository.go`, `retry_scheduler.go`, `retry_publisher.go`, `grpcapi/server.go` | rows, commands, workers |
| `Subscriptions`, `SubscriptionsProofs` | `subscription/service.go`, `repository.go`, publishers, handlers of `httpapi/router.go` | rows, requests |
| `WatchSaga`, `WatchSagaProofs` | `watchsaga/orchestrator.go`, `ApplyWatchCommand` | saga rows, three channels, watchlist |
| `Scanner`, `ScannerProofs` | `scanner/service.go`, `repository.go`, `github/provider.go`, `cache/redis.go` | watchlist, cache, scan loops |
| `ReleaseFanout` | `release_expander.go`, the release half of both publishers, `hash.go`; extends `Delivery` (theorems in `DeliveryProofs`) | subscribers, events, the expander's list and call |
| `Migrations`, `MigrationsProofs` | `pkg/migrations`, the `dbmigrations` packages, `cmd/migrate` | `schema_migrations`, the schema, one position per process |
| `VectorHook` | `logger/setup.go` (theorems in `LifecycleProofs`) | channel, lock, goroutine, cleanup |
| `Lifecycle`, `LifecycleProofs` | `run()` of every `main.go`, `metrics/server.go`; extends `VectorHook` | signal, error, loops, servers, handlers, `run()` |
| `MC*` | values for constants that a `.cfg` cannot write | |

Conventions used in all of them:

* A database transaction is one action, unless a statement of it reads what a
  concurrent transaction may change under READ COMMITTED (`Subscriptions`); then
  each such statement is an action and `lock` holds the row locks.
* Calls to Kafka, SMTP, HTTP, Redis and GitHub are actions of their own. A call
  that reports an error may have had its effect.
* `now()` comparisons are counters of ticks that are left (`lease`, `next_at`,
  `next_retry`, `deadline`, `left`, `ttl`); `Tick` counts all of them down.
* A crash, a cancelled context and a database error that ends `Start` are one
  action (`Crash`, `Abort`, `Die`), counted as a fault and bounded by
  `MaxFaults`.
* History variables (`log`, `emails`, `dlq`, `handled`, `applied`, `schema`,
  `accepted`, `disturbed`, `moved`, `overlapped`, ...) are written and never read
  by a guard. The comment at the declaration says so.
* An operator whose comment starts with "Mistake:" is not part of the model. It
  is a plausible bug, named in `PROJECT.json`; put in the place of the definition
  it follows it violates the property listed there.

### Outbox

`FetchUnpublished(r)` is the `UPDATE ... FOR UPDATE SKIP LOCKED ... RETURNING`:
candidates without `published_at` and without a live lease, the first
`BatchSize` in the order of the query, minus rows another relay's mark may have
locked. `PublishOk`/`PublishError`, `MarkPublished` and `MarkFailed` are the
steps of `PublishOnce`. The batch is a set because `RETURNING` promises no
order. `ChannelSpec` says that the module implements `EventChannel` with
`accepted <- stored, delivered <- log`.

### KafkaConsumer

One partition. `Settings` are the consumers the system has: notification and
watch commands (errors classified, dead letter topic), the two saga topics
(classified, no dead letter topic), and releases in `subscription-api/main.go`
(decode errors returned as they are). `setting` is chosen in `Init`, so one run
covers all three. The consumer group is external: `Assign`, `Revoke`, and a
commit of a member that lost the partition may be refused or go through.

### Delivery

`Process` with `UpsertPending`, the SMTP call, and the three marks as steps.
Commands come from a partition (`FetchMessage`, `Rebalance`) or as gRPC calls
(`SendNotification`, `CallTimeout`; a handler nobody waits for any more fails at
its next statement, `Cancelled`); `transport` is chosen in `Init`.
`subscription-api` repeats a gRPC call that failed, because the release event it
belongs to is delivered again. `DeadLetter` is published directly to Kafka, as
the code does.

### ReleaseFanout

One repository. `GetSubscribers` reads the confirmed addresses once; then each is
a transaction with a command (`PublishReleaseNotification`) or a call that the
expander waits for (`CallSendNotification`, `CallReturns`, `CallFails`). Whatever
fails, the offset of the event is not committed and the expansion starts anew.
`Key` is `repo:tag:hash of the lower-case address`; two addresses of the instance
differ in case only. The requests replace `Delivery`'s own `Request`; the
partition stays with one consumer and failed attempts are left to the retry
scheduler, which `Delivery` has.

### Subscriptions

All requests about one repository: statements about different repositories do
not meet. A handler's token is the handler itself. `transport` is chosen in
`Init`: over HTTP a mail that SMTP refuses is an error of the request, over gRPC
it is stored as failed and answered as a success. The bodies of transactions
that count confirmed rows are split at the count.

### WatchSaga

One repository, its requests in the order of `Actions`. A channel stands for an
outbox, its relay, a topic and the consumer's offset. It keeps the order;
`Disturb` repeats a message or lets one overtake another, which is what `Outbox`
and `KafkaConsumer` show to be possible. `HandleAck` is not enabled for an ack
it answers with an error; `NoPoisonAck` says there is none.
`FailuresReported` tells whether the failure ack of `ApplyWatchCommand` can be
committed (see finding 3); the passing run allows both outcomes.

### Scanner

The watchlist is a sequence in the order of `next_scan_at`, which is all that
`ORDER BY next_scan_at` and `LIMIT` look at. `ClaimDue` takes the first due rows
and moves them behind the others; a command makes a repository due and puts it
behind those that already are. A scan is cache lookup, GitHub call, cache store,
`MarkReleaseDetected`. Redis errors are the second way through `CacheMiss` and
`CacheSet`. GitHub may show any tag of `Published` at any time, old ones again as
well.

### Migrations

A process (`cmd/migrate`, or `subscription-api` when it starts) runs its build's
files in the order of `Load`, then those of the outbox. `CREATE TABLE IF NOT
EXISTS`, the check, the statements with the new row, and the commit are steps;
whoever is second to create something waits for the first (`Blocked`) and fails
when it commits. `Releases` are builds whose files may differ.

### VectorHook and Lifecycle

`Fire` is three steps: called, lock taken and `closed` read, entry sent or
dropped. A writer that waits in `Lock` keeps new readers out, as Go's `RWMutex`
does. `Lifecycle` has one service process: loops on the group's context
(`Tickers` are the scanner and the saga sweep, which log an error and go on; the
others end the group), an HTTP server whose `Shutdown` has five seconds, a gRPC
server whose `GracefulStop` has no limit, and `run()`, which waits for the group
and then closes producer, pool and, last, the log hook. Work that is under way
logs at any moment. A process without a gRPC server or without loops is the part
of it with fewer constants.

## 3. The runs

| Run | Properties | Instance |
|---|---|---|
| `outbox` | `PublishedIsInTopic`, `ExclusiveUnlessDisturbed`, `DuplicateHasCause`, `ChannelSpec` | 2 relays, 2 events, batches of 2, lease of 2 ticks, 2 faults |
| `consumers` | `PassedIsSettled`, `EverythingSettles` | 2 members, 4 messages with a bad one in second place, 3 faults, 3 settings |
| `deliveries` | `StatusIsEarned`, `NotStranded`, `Settles` | 2 notifications, 2 workers, 2 attempts, 2 faults, both transports |
| `fanout` | `OneMail`, `EverySubscriberIsTold` | 1 release, 3 addresses of 2 mailboxes, 1 worker, 1 fault, 1 rerun, 1 change of subscribers, both transports |
| `subscriptions` | `ConfirmedByOwnLink`, `AnswersMatchRows`, `SerialFollowsSubscribers`, `OnlyUnsubscribeRemoves` | 2 users, 5 requests, 3 at a time, 1 fault, both transports |
| `sagas` | `CompletedIsApplied`, `NoPoisonAck`, `SpacedIsSynchronized`, `ContractSafety`, `SagaSettles` | start and stop, deadline of 3 ticks, 1 disturbance |
| `scans` | `AnnouncedOnce`, `SkippedIsAnnounced`, `ClaimsAreExclusive`, `LatestIsAnnounced`, `NobodyStarves` | 2 instances, 2 repositories, batches of 1, one of them with releases |
| `migrations` | `RecordedIsApplied`, `BuildsOnItsRelease`, `MigrationsEnd` | 3 processes, each of any of 3 releases (one lacks a file, one edited it), 1 crash |
| `shutdown` | `LogsAreKept`, `QuietBeforeClose`, `ServiceEnds` | 2 loops (one of each kind), 2 HTTP requests, 1 gRPC call, a channel of 1 entry, 3 entries |
| `delivery_grpcretry`, `subscriptions_watchrace`, `saga_unreported` | one property each, violated: section 4 | the smallest instance that shows it |

Every run but the violations also checks the type invariant of its module.
Deadlock is not checked: every one of these systems may come to rest, when all
there is to do is done and the faults are used up, or the process has ended. That
none of them stops before is what the liveness properties say.

Why the bounds are enough for what they are there for:

* Two relays, workers, members, instances: every hazard here is about one actor
  and another. Two events or notifications are what it takes for a batch to
  break in the middle and for one to wait behind another.
* Two or three faults allow a crash after an error, and a fault during the
  recovery from one. In the `sagas` run one disturbance is enough for an ack or
  a command of the old saga to come after one of the new.
* Leases and back-offs of two ticks leave a state in which the time is neither
  full nor over. In `scans` the back-off is the shortest possible
  because a short back-off is what makes repositories compete.
* Two attempts make the first failure a retry and the second the last, so that
  both off-by-one mistakes of `AfterFailure` show. The list of delays has two
  entries; `retryDelay` past its end is covered by `WatchSaga`.
* Five requests are two subscribe and two confirm requests of two users with one
  more to disturb them.
* In `fanout` one failure of each kind is enough to expand an event again; the
  third address is what shares a key with another one.
* In `migrations` the third process lets two race while the row of one is read by
  another. Two files of the service and one of the outbox with the same version
  let a process be in front of, between and behind them.
* In `shutdown` a channel of one entry is full after one, three entries fill it,
  are dropped and are sent after the close; the code has 1000.

`overlapped`, `moved`, `setting` and `transport` allow one run to say what holds
always and what holds only under a condition: `SerialFollowsSubscribers` if
requests come one at a time and no handler dies, `SpacedIsSynchronized` if a
saga is requested after the last has settled, the exact count of attempts in
`StatusIsEarned` as long as the partition stays with one consumer. Without these
conditions they are false, by the design of the code: a stale consumer may write
`failed` over `sent`, for example, and the notification is sent again. `OneMail`
allows one more mail per fault (an attempt cut off between SMTP and `MarkSent`),
and over gRPC one per expansion that was abandoned during its call.

### Fairness

| Assumed | Because |
|---|---|
| `WF(RelayStep)`, `WF(Step)`, `WF(Process)`, `WF(FetchMessage)`, `WF(scanRepo)`, `WF(HandleRequest)`, `WF(HandleAck)`, `WF(Expand)`, the steps of `VectorHook` | a running goroutine is scheduled, and its calls return. The HTTP, gRPC, Redis and Vector clients have timeouts; `smtp.SendMail` has none, and that it returns is an assumption |
| `WF(Restart)`, `WF(Assign)`, `WF(Again)`, and that an aborted worker goes on | somebody starts an ended process again: the compose files set no restart policy, so this is an assumption about the operator; the group hands out partitions |
| `WF(RetryDue)`, `WF(ClaimDue)` | tickers that go on after an error (`cmd/saga-orchestrator/main.go`, `scanner/service.go`) |
| `WF(EnqueueDueRetries)` | `retry_scheduler.go` ends its process with the error; it runs again when the process does |
| `WF(Tick)` | the clock runs |
| `WF(SendNotification)`, `WF(RelayPublish)` | the release event is redelivered until every call has succeeded, and a committed outbox row is published (the `outbox` run) |
| `SF(LoopStops)` | Go's `select` picks one of the ready cases at random: a loop is not for ever given a tick while its context is done |
| `WF` of the shutdown steps of `Lifecycle` | timers fire; loops and gRPC handlers return |

Nothing is assumed about users, GitHub, insertions, faults (they are bounded, so
they stop), the scanner in `SagaSettles`, or the HTTP handlers in `ServiceEnds`:
they may hang.

## 4. What the code does not do although it is said to

Three runs are expected to end in a violation; `PROJECT.json` quotes the
sentences.

1. `delivery_grpcretry`: the consumer of `subber.notification.commands` runs in
   Kafka mode only, but the retry scheduler writes its commands there in both. A
   notification that fails once in gRPC mode stays pending.
2. `subscriptions_watchrace`: the confirmation and the start request are two
   transactions. An unsubscribe in between writes `stop` before `start`, and the
   repository is watched for nobody. The same sentence fails in two more ways,
   which are reachable in the model as well: the last two subscribers leave at
   the same time and each counts the other (no stop), and a crash between
   confirmation and request (no start, and confirming again does not help).
3. `saga_unreported`: the failure ack is written in the transaction whose
   statement failed. PostgreSQL has aborted it, so the ack is never committed.

Others are exceptions in a property that holds:

* `handleFailure` marks the row dead and publishes the dead letter afterwards.
  After a failure in between the redelivered command stops at the dead row, and
  the dead letter is missing, though `docs/adr/005-...:59` says that final
  failures go to the DLQ (the last disjunct of `Settles`).
* `RetryDue` sends the command of an older saga again after a newer one of the
  same repository was carried out: a retried stop deletes the row of a later
  start and both sagas complete (`SpacedIsSynchronized` needs `~overlapped`).
* Two subscribe requests of one address share the first one's row, so that the
  compensation of one can delete the row the other reported as created
  (`SuccessKeepsSubscription`).
* Over gRPC a confirmation that SMTP refused is answered as a success and the row
  stays, so the address cannot subscribe again (`NoOrphanRow`);
  `docs/grpc-notification-transport.md:69` speaks of transport failures only.
* A malformed release event ends `subscription-api` again and again
  (`PassedIsSettled`, `EverythingSettles`), and malformed saga messages are
  skipped without a dead letter, though `docs/SDD-changelog.md:68` says otherwise
  for both.
* A claim of the scanner is a time and not a lock, so that a slow batch is claimed
  a second time, though `docs/adr/005-...:53` says instances do not process the
  same rows (`ClaimsAreExclusive` states what does hold).
* A gRPC listener that does not open makes `run()` return without waiting for the
  HTTP server it has started, and after a `Shutdown` that took too long the pool
  is closed under the handler (`QuietBeforeClose`; `run()` then returns an error).

And one without a property: `subscription-api/main.go:71` runs the migrations at
startup, though `docs/SDD-changelog.md:84` says that services no longer do. This
is why `Migrations` has processes that race.

## 5. What is proved

Every invariant and every action property that a passing run checks is also a
theorem, for every value of the constants: any number of actors, messages, faults
and ticks. TLAPS checks the proofs with Z3, Zenon and LS4.

| Theorem | States |
|---|---|
| `OutboxProofs`: `TypeCorrect`, `NothingLost`, `LeaseExcludes`, `DuplicatesExplained` | `[]TypeOK`, `[]PublishedIsInTopic`, `[]ExclusiveUnlessDisturbed`, `[]DuplicateHasCause` |
| `OutboxProofs!ImplementsChannel` | `Spec => ChannelSafety`: the refinement of `EventChannel` without its fairness |
| `KafkaConsumerProofs`: `TypeCorrect`, `NothingPassedOver` | `[]TypeOK`, `[]PassedIsSettled` |
| `KafkaConsumerProofs!ImplementsQueue` | `Spec => QueueSafety`: the refinement of `OrderedQueue` |
| `DeliveryProofs`: `TypeCorrect`, `StatusEarned`, `NobodyStranded` | `[]TypeOK`, `[]StatusIsEarned`, `[]NotStranded` of `Delivery` |
| `DeliveryProofs`: `FanoutTypeCorrect`, `OneMailEach` | `[]FanoutTypeOK`, `[]OneMail` of `ReleaseFanout` |
| `SubscriptionsProofs`: `TypeCorrect`, `OptInTwice`, `RemovalsAreAsked`, `AnswersHold`, `SerialRequestsFollow` | `[]TypeOK`, `[]ConfirmedByOwnLink`, `OnlyUnsubscribeRemoves`, `[]AnswersMatchRows`, `[]SerialFollowsSubscribers` |
| `SubscriptionsProofs!ImplementsOptIn` | `Spec => OptInSafety`: the refinement of `DoubleOptIn` |
| `WatchSagaProofs`: `TypeCorrect`, `CompletedHasEffect`, `AcksAreHandled`, `SettledIsFinal`, `Synchronized` | `[]TypeOK`, `[]CompletedIsApplied`, `[]NoPoisonAck`, `SettledForGood`, `[]SpacedIsSynchronized` |
| `WatchSagaProofs!ImplementsContract` | `Spec => ContractSafety`: the refinement of `SagaContract` |
| `ScannerProofs`: `TypeCorrect`, `Announced`, `NothingSkipped`, `ClaimedByOne` | `[]TypeOK`, `[]AnnouncedOnce`, `[]SkippedIsAnnounced`, `[]ClaimsAreExclusive` |
| `ScannerProofs!ImplementsFeed` | `Spec => FeedSafety`: the refinement of `ReleaseFeed` |
| `MigrationsProofs`: `TypeCorrect`, `RecordedApplied`, `BuildsOnRelease` | `[]TypeOK`, `[]RecordedIsApplied`, `[]BuildsOnItsRelease` |
| `MigrationsProofs!ImplementsLedger` | `Spec => LedgerSafety`: the refinement of `SchemaLedger` |
| `LifecycleProofs`: `TypeCorrect`, `HookKeepsLogs`, `ClosesWhenQuiet` | `[]LifecycleTypeOK`, `[]LogsAreKept`, `[]QuietBeforeClose` |

`Invariant` in each of these modules (`FanoutInvariant` for `ReleaseFanout`) is
the inductive invariant the others follow from. TLC has checked each of them
on the instance of the run before it was proved.

**Assumptions.** Those named in the modules, which TLC evaluates in the runs:
markers such as `Nobody`, `NoRow`, `Absent` are no values of their type; limits,
delays and leases are numbers of the right sign; `RankAssumption` (events have
distinct places in the order of the query); `WorkersAssumption`,
`UsersAssumption` and `LoggersAssumption` (finitely many workers, users and
goroutines, because the code counts what they do); `SomeKeyAssumption`;
`FilesAssumption` and `UniqueAssumption` (a build embeds finitely many files, one
for each version, which `Load` enforces). `FanoutSafeSpec` is `FanoutSpec`
without its fairness.

**Outbox.** The inductive invariant `IInv` adds to the three properties what
ties a relay's hands to the row. `MarkedIsInTopic` (a relay about to mark an
event has published it) carries `PublishedIsInTopic` through `MarkPublished`.
`HoldingIsLeased` (an undisturbed event in hand has a live lease and is not
published) is what keeps `FetchUnpublished` from giving it out again, hence
`ExclusiveUnlessDisturbed`. `InTopicIsSettled` (an undisturbed event in the topic
is published or about to be marked) means that an undisturbed event in a batch is
not in the topic yet, hence `DuplicateHasCause`. `StageOK`, `CurOK` and
`CurStored` are facts about the local variables these need.

**KafkaConsumer.** `PassedIsSettled` speaks of the committed offset and of
handled messages, but what makes it true was decided when a message was fetched,
by a member that may no longer own the partition. `BehindOK` keeps it: all that a
member at work has behind it is settled, owner or not. `ReaderOK` says of the
owner's reader that it has passed nothing else but the message in work, which is
what the next `FetchMessage` turns into `BehindOK`; `RejectedOK` is needed for the
message that goes to the dead letter topic.

**Delivery.** `SeenOK` and `EarnedOK` say what a worker has read and has behind
it when it writes a status, so that the write is earned whoever wrote in between;
`AloneOK` and `FreshOK` are the stronger facts as long as the partition has not
moved. `NotStranded` needs `OverOK` (a command that is finished on a pending row
leaves another one behind) and `NoRowOK` (a row that does not exist yet still has
its command).

**ReleaseFanout.** No invariant about one step bounds the mails: a call nobody
waits for any more may send one at any later time. The proof keeps an account.
`Bill(k)` is the mails of a notification plus the stale calls that can still cost
one; `Excuses` is the faults plus, over gRPC, the reruns. `Balanced` says that the
bill exceeds the excuses by at most one, and by one only if that mail is on
record (`Counted`) and nobody is deciding anew (`Deciding`). `AccountStep` shows
once that steps with a few plain effects keep the balance; every action is then
shown to have these effects. `CallerOK` (a worker has what the expander waits
for) and `UnsettledOK` (the one consumer works on what is not settled) exclude
two deciding workers.

**Subscriptions.** `LockOK` and `TokenOK` (a transaction between its statements
has its row; a row has the token of a `Subscribe` of its own address, and if
confirmed that token was mailed) give the double opt-in and the action property.
`SavedOK` and `KeptOK` follow a row from the save to the answer and after it.
`SerialOK` is the argument for requests one at a time: nobody else is at work
(`AloneOK`), so the counts a transaction has read still hold when it commits
(`ReadOK`), and the last saga request follows the subscribers but for a
confirmation whose request is still to come (`WatchOK`).

**WatchSaga.** `CompletedIsApplied` is not inductive: an ack completes a saga,
so acks must be earned (`AcksAreEarned`), and a handled ack must have a row
(`NoPoisonAck`), which it has because the command it answers had one
(`CommandsAreKnown`). Repetition and overtaking invent no message
(`DisturbedFacts`). `SettledForGood` is an action property and follows from type
correctness, one action at a time. For `SpacedIsSynchronized`, `LastOnly` says
that without overlap all requests and commands under way are of the last saga,
so that what the scanner carries out, however often, is what was asked last.

**Scanner.** `AnnouncedOnce` is inductive with the types. `SkippedIsAnnounced`
needs that tags in a table row and in a batch are recorded (`SeenOK`), since one
is written from the other. `ClaimsAreExclusive` is `Apart`, which needs
`ReservedOK`: while a reservation holds the repository is not due, and `ClaimDue`
takes only what is due (`BatchOf`). Filtering the queue is `Only`, a recursive
function; `OnlyOf`, `OnlyShorter` and `Requeued` say what it returns. They are
proved by induction on the set of lengths for which they hold
(`InductionOnSets`, from the least element of a set of numbers), because the
library's induction rule cannot be used by the installed provers.

**Migrations.** `CommitOK` (a transaction about to commit is the only one for
its migration, and there is no row) comes from `Blocked` and the check in `Apply`;
it makes `RecordedIsApplied` inductive, and rows permanent (`RowsStay`). Hence
`PassedOK`: what a process has passed is recorded as its release says, although
others have written since. `BuildsOnItsRelease` is then a fact about the list:
`PlanOf` shows that `Load` has every file and puts the lower versions first.

**VectorHook and Lifecycle.** `EntriesAdd` counts: every accepted entry is in the
channel, in the goroutine's hands or dealt with. `CloseOrder` orders lock, flag
and end of the goroutine. The hook is proved once; `HookStepsOnly` shows that the
process moves it only by its own steps. `ServersOK` and `OrderOK` say what is over
when `run()` gets to its deferred calls.

**Refinements.** Six modules also implement an abstract specification that has
none of their actors; each proof shows that `Init` maps to its initial states and
every action to one of its steps or to a stutter. In `ImplementsChannel` the rows
are the accepted and the log is the delivered events; the others are:

* `ImplementsQueue`: the settled messages (`Done`) and the committed offset.
  `CommitMessages` is `MoveTo`, also when it moves back, and what is settled is
  settled behind all before it because of `BehindOK`.
* `ImplementsOptIn`: the table, and pairs of address and token for the mails sent
  (`Links`). That a confirmation or an unsubscribe has the link of its own row is
  `TokenOK`; that a saved token is in no link yet is `MailedOK`, an invariant of
  its own.
* `ImplementsContract`: the stage of a saga (`Stage` has one for `command_sent` and
  `retrying`), the sagas carried out, and the watchlist. `HandleAck` is `Complete`
  because acks are earned; `RetryDue` gives up all sagas that are over time at
  once. `SettledForGood` is part of it.
* `ImplementsFeed`: the release rows, the events and `last_seen_tag`. That what is
  announced is a tag of that repository is `OfferedOK`: the tag went from GitHub
  through the cache into the hands of the scan, and it is still the same
  repository when a reservation has lapsed meanwhile (`LapseKeepsHead`).
* `ImplementsLedger`: the table and the list of executed files. The statements and
  the row are executed long before the commit, and processes of other releases
  write in between; that the commit can be taken for the whole installation, on
  top of the lower versions, is `CommitOK` with `Builds`.

Of these `ChannelSpec` and `ContractSafety` are also checked by the runs
`outbox` and `sagas`. `OptInSafety`, `QueueSafety`, `FeedSafety` and
`LedgerSafety` hold for every value of the constants, and no run repeats them.

Only model-checked: the liveness properties (`EverythingSettles`, `Settles`,
`EverySubscriberIsTold`, `SagaSettles`, `LatestIsAnnounced`, `NobodyStarves`,
`MigrationsEnd`, `ServiceEnds`) and the fairness part of `ChannelSpec`; liveness
and `ENABLED` are outside the proof system's reach. The three violations are
counterexamples found by TLC.

## 6. What is not modelled

* Texts, addresses, JSON, HTTP status codes, templates, validation of input:
  they decide only whether a request is taken (`RejectRepo`, the "bad" messages
  of `KafkaConsumer`).
* `GetSubscriptions`, the counters of metrics, log levels and files,
  configuration, request ids, the lag gauge: they change no state the system
  reads.
* `last_seen_tag` of subscription-api (display only), `last_error` columns.
* The watch repository's `StartWatching`/`StopWatching` and the retry publisher's
  `Retry`: nothing calls them.
* Startup before the errgroup (connections, construction of objects): a failure
  ends the process before it has done anything.
* What the SQL of a migration does; Docker health checks and images; the
  generated protobuf code.
* Kafka, PostgreSQL, Redis, SMTP and GitHub beyond what the code relies on; they
  are marked external.

## 7. What could come next

`WatchFlow`: `Subscriptions` and `WatchSaga` composed, for what a repository with
overlapping requests ends as. Today the first shows which requests are written in
which order, and the second what becomes of requests in a given order. The
liveness properties and what recursive definitions compute for every input need
provers that are not used here.
