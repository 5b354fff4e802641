------------------------------ MODULE Scanner ------------------------------
(***************************************************************************)
(* scanner-service: the scanner_watchlist and scanner_releases tables, the *)
(* scan loops of all instances, the Redis cache in front of GitHub, and    *)
(* the release events written to the outbox.  A transaction is one action; *)
(* between them a scan does a cache call and an HTTP call, each a step.    *)
(*                                                                         *)
(* The table is kept in the order of next_scan_at.  Every claim writes now *)
(* plus the same back-off, so a claimed repository goes to the end, and    *)
(* one that becomes due by command goes behind those that already are.     *)
(* Repositories claimed together get the same time, in no order.           *)
(*                                                                         *)
(* GitHub is external: its latest release may be any tag at any time, an   *)
(* older one again as well (a release is deleted, or marked as latest).    *)
(***************************************************************************)
EXTENDS Integers, FiniteSets, Sequences, SequencesExt

CONSTANTS
  Repos, Tags,
  Published,     \* the tags GitHub may ever have for each repository
  NoTag,         \* the empty string
  Scanners,      \* instances of scanner-service
  BatchSize,     \* SCANNER_BATCH_SIZE
  Backoff,       \* SCANNER_INTERVAL, in ticks
  CacheTTL,      \* 45 seconds, in ticks
  MaxFaults      \* bound: failed calls and crashes

ASSUME NoTagAssumption == NoTag \notin Tags
ASSUME PublishedAssumption == Published \in [Repos -> SUBSET Tags]
ASSUME BoundsAssumption ==
  /\ BatchSize \in Nat \ {0} /\ Backoff \in Nat \ {0}
  /\ CacheTTL \in Nat \ {0} /\ MaxFaults \in Nat

VARIABLES
  queue,       \* the watched repositories, in the order of next_scan_at
  left,        \* ticks until next_scan_at
  last_seen,   \* last_seen_tag
  releases,    \* rows of scanner_releases
  events,      \* history: ReleaseDetected events written to the outbox
  cached,      \* the tag Redis has for a repository
  ttl,         \* ticks until that entry expires
  latest,      \* GitHub: tag of the latest release
  hand,        \* per instance: what is left of the batch it claimed
  pc,          \* the step it is at, for the first of these
  got,         \* the tag GetLatestTag returned for it
  faults

table == <<queue, left, last_seen>>
found == <<releases, events>>
redis == <<cached, ttl>>
loop == <<hand, pc, got>>
vars == <<table, found, redis, latest, loop, faults>>

Watched == ToSet(queue)

\* held is history: no other instance may have claimed the repository since.
Claims == [repo : Repos, seen : Tags \union {NoTag}, held : BOOLEAN]

Init ==
  /\ queue = <<>>
  /\ left = [r \in Repos |-> 0]
  /\ last_seen = [r \in Repos |-> NoTag]
  /\ releases = {}
  /\ events = [rt \in Repos \X Tags |-> 0]
  /\ cached = [r \in Repos |-> NoTag]
  /\ ttl = [r \in Repos |-> 0]
  /\ latest \in {f \in [Repos -> Tags \union {NoTag}] :
                   \A r \in Repos : f[r] \in Published[r] \union {NoTag}}
  /\ hand = [s \in Scanners |-> <<>>]
  /\ pc = [s \in Scanners |-> "lookup"]
  /\ got = [s \in Scanners |-> NoTag]
  /\ faults = 0

Fault == faults < MaxFaults /\ faults' = faults + 1

-----------------------------------------------------------------------------
\* Watch commands.

\* The members of a sequence that are in S, in their order.
Only(S, seq) ==
  LET upto[i \in 0..Len(seq)] ==
        IF i = 0 THEN <<>>
        ELSE upto[i - 1] \o (IF seq[i] \in S THEN <<seq[i]>> ELSE <<>>)
  IN upto[Len(seq)]

Due == {r \in Repos : left[r] = 0}
DueRepos == Only(Due, queue)
Without(R) == Only(Repos \ R, queue)

\* The reservation of r is over: whoever has it in hand may meet another.
Lapse(R) ==
  hand' = [s \in Scanners |-> [i \in 1..Len(hand[s]) |->
             IF hand[s][i].repo \in R THEN [hand[s][i] EXCEPT !.held = FALSE]
                                      ELSE hand[s][i]]]

\* Mistake: what the cache has is taken to be old news.
StartWatchingFromCache(r) ==
  /\ queue' = IF r \in ToSet(DueRepos) THEN queue
              ELSE InsertAt(Without({r}), Len(DueRepos) + 1, r)
  /\ left' = [left EXCEPT ![r] = 0]
  /\ last_seen' = [last_seen EXCEPT ![r] = IF r \in Watched THEN @ ELSE cached[r]]
  /\ Lapse({r})
  /\ UNCHANGED <<found, redis, latest, pc, got, faults>>

\* A new row has no tag; a row that exists becomes due at once.
StartWatching(r) ==
  /\ queue' = IF r \in ToSet(DueRepos) THEN queue
              ELSE InsertAt(Without({r}), Len(DueRepos) + 1, r)
  /\ left' = [left EXCEPT ![r] = 0]
  /\ last_seen' = [last_seen EXCEPT ![r] = IF r \in Watched THEN @ ELSE NoTag]
  /\ Lapse({r})
  /\ UNCHANGED <<found, redis, latest, pc, got, faults>>

StopWatching(r) ==
  /\ r \in Watched
  /\ queue' = Without({r})
  /\ left' = [left EXCEPT ![r] = 0]
  /\ last_seen' = [last_seen EXCEPT ![r] = NoTag]
  /\ UNCHANGED <<found, redis, latest, loop, faults>>

-----------------------------------------------------------------------------
\* The scan loop.

\* Rows another instance may be updating: SKIP LOCKED passes over them.
MaybeLocked(s) ==
  {hand[q][1].repo : q \in {p \in Scanners \ {s} : pc[p] = "detect"}}

\* Mistake: the rows come in the order of the primary key.
FirstByName(candidates) ==
  LET S == ToSet(candidates) IN
    IF S = {} THEN <<>> ELSE <<CHOOSE r \in S : TRUE>>

FirstOf(candidates) ==
  SubSeq(candidates, 1, IF Len(candidates) < BatchSize THEN Len(candidates)
                                                      ELSE BatchSize)

Claim(s, batch) ==
  hand' = [hand EXCEPT ![s] = [i \in 1..Len(batch) |->
             [repo |-> batch[i], seen |-> last_seen[batch[i]], held |-> TRUE]]]

\* Mistake: the next scan is reserved when the scan is done, not here.
ClaimDueUnreserved(s) ==
  /\ hand[s] = <<>>
  /\ \E skipped \in SUBSET MaybeLocked(s) :
       LET batch == FirstOf(Only(Due \ skipped, queue)) IN
         /\ batch # <<>>
         /\ Claim(s, batch)
  /\ UNCHANGED <<table, found, redis, latest, pc, got, faults>>

\* Reads the due rows with their tags and reserves them for the back-off.
ClaimDue(s) ==
  /\ hand[s] = <<>>
  /\ \E skipped \in SUBSET MaybeLocked(s) :
       LET batch == FirstOf(Only(Due \ skipped, queue)) IN
         /\ batch # <<>>
         /\ Claim(s, batch)
         /\ \E order \in SetToSeqs(ToSet(batch)) :
              queue' = Without(ToSet(batch)) \o order
         /\ left' = [r \in Repos |-> IF r \in ToSet(batch) THEN Backoff ELSE left[r]]
  /\ UNCHANGED <<last_seen, found, redis, latest, pc, got, faults>>

Repo(s) == Head(hand[s]).repo

\* scanRepo returns, with or without an error: on to the next of the batch.
Done(s) ==
  /\ hand' = [hand EXCEPT ![s] = Tail(@)]
  /\ pc' = [pc EXCEPT ![s] = "lookup"]
  /\ got' = [got EXCEPT ![s] = NoTag]

Proceed(s, step, tag) ==
  /\ pc' = [pc EXCEPT ![s] = step]
  /\ got' = [got EXCEPT ![s] = tag]
  /\ UNCHANGED hand

\* scanRepo compares the tag with the one the row had when it was claimed.
Compare(s, tag) ==
  IF tag \in {NoTag, Head(hand[s]).seen} THEN Done(s) ELSE Proceed(s, "detect", tag)

CacheHit(s) ==
  /\ pc[s] = "lookup" /\ hand[s] # <<>>
  /\ cached[Repo(s)] # NoTag
  /\ Compare(s, cached[Repo(s)])
  /\ UNCHANGED <<table, found, redis, latest, faults>>

\* No entry, or Redis does not answer: GitHub is asked.
CacheMiss(s) ==
  /\ pc[s] = "lookup" /\ hand[s] # <<>>
  /\ Proceed(s, "fetch", NoTag)
  /\ UNCHANGED <<table, found, redis, latest, faults>>

\* The answer of GitHub.  No release (404) is not cached.
FetchTag(s) ==
  /\ pc[s] = "fetch"
  /\ IF latest[Repo(s)] = NoTag THEN Done(s)
                                ELSE Proceed(s, "store", latest[Repo(s)])
  /\ UNCHANGED <<table, found, redis, latest, faults>>

\* Mistake: the entry has no expiry.
CacheSetForever(s) ==
  /\ pc[s] = "store"
  /\ cached' = [cached EXCEPT ![Repo(s)] = got[s]]
  /\ UNCHANGED ttl
  /\ Compare(s, got[s])
  /\ UNCHANGED <<table, found, latest, faults>>

\* The tag is cached, unless Redis does not answer.
CacheSet(s) ==
  /\ pc[s] = "store"
  /\ \/ /\ cached' = [cached EXCEPT ![Repo(s)] = got[s]]
        /\ ttl' = [ttl EXCEPT ![Repo(s)] = CacheTTL]
     \/ UNCHANGED redis
  /\ Compare(s, got[s])
  /\ UNCHANGED <<table, found, latest, faults>>

\* Mistake: the row count of the insert is not looked at.
MarkReleaseDetectedAgain(s) ==
  /\ pc[s] = "detect"
  /\ LET r == Repo(s) t == got[s] IN
       /\ releases' = releases \union {<<r, t>>}
       /\ events' = [events EXCEPT ![<<r, t>>] = @ + 1]
       /\ last_seen' = [last_seen EXCEPT ![r] = IF r \in Watched THEN t ELSE @]
  /\ Done(s)
  /\ UNCHANGED <<queue, left, redis, latest, faults>>

\* The release row, the tag of the watchlist row if it is still there, and the
\* event.  A release that is known already changes nothing.
MarkReleaseDetected(s) ==
  /\ pc[s] = "detect"
  /\ LET r == Repo(s) t == got[s] IN
       IF <<r, t>> \in releases THEN UNCHANGED <<found, last_seen>>
       ELSE /\ releases' = releases \union {<<r, t>>}
            /\ events' = [events EXCEPT ![<<r, t>>] = @ + 1]
            /\ last_seen' = [last_seen EXCEPT ![r] = IF r \in Watched THEN t ELSE @]
  /\ Done(s)
  /\ UNCHANGED <<queue, left, redis, latest, faults>>

\* GitHub or the database reports an error: logged, on to the next.
ScanFails(s) ==
  /\ pc[s] \in {"fetch", "detect"}
  /\ Fault
  /\ Done(s)
  /\ UNCHANGED <<table, found, redis, latest>>

\* The process dies; the one that replaces it knows nothing of the batch.
Crash(s) ==
  /\ hand[s] # <<>>
  /\ Fault
  /\ hand' = [hand EXCEPT ![s] = <<>>]
  /\ pc' = [pc EXCEPT ![s] = "lookup"]
  /\ got' = [got EXCEPT ![s] = NoTag]
  /\ UNCHANGED <<table, found, redis, latest>>

scanRepo(s) ==
  \/ CacheHit(s) \/ CacheMiss(s) \/ FetchTag(s) \/ CacheSet(s)
  \/ MarkReleaseDetected(s)

-----------------------------------------------------------------------------
\* External: a release is published, deleted or marked as latest.
GitHubChanges(r) ==
  /\ \E t \in (Published[r] \union {NoTag}) \ {latest[r]} :
       latest' = [latest EXCEPT ![r] = t]
  /\ UNCHANGED <<table, found, redis, loop, faults>>

\* Mistake: the time left has no floor.
TickUnfloored ==
  /\ \E r \in Repos : left[r] > 0 \/ ttl[r] > 0
  /\ left' = [r \in Repos |-> left[r] - 1]
  /\ ttl' = [r \in Repos |-> IF ttl[r] > 0 THEN ttl[r] - 1 ELSE 0]
  /\ cached' = [r \in Repos |-> IF ttl[r] = 1 THEN NoTag ELSE cached[r]]
  /\ Lapse({r \in Repos : left[r] = 1})
  /\ UNCHANGED <<queue, last_seen, found, latest, pc, got, faults>>

Tick ==
  /\ \E r \in Repos : left[r] > 0 \/ ttl[r] > 0
  /\ left' = [r \in Repos |-> IF left[r] > 0 THEN left[r] - 1 ELSE 0]
  /\ ttl' = [r \in Repos |-> IF ttl[r] > 0 THEN ttl[r] - 1 ELSE 0]
  /\ cached' = [r \in Repos |-> IF ttl[r] = 1 THEN NoTag ELSE cached[r]]
  /\ Lapse({r \in Repos : left[r] = 1})
  /\ UNCHANGED <<queue, last_seen, found, latest, pc, got, faults>>

Next ==
  \/ \E r \in Repos : StartWatching(r) \/ StopWatching(r) \/ GitHubChanges(r)
  \/ \E s \in Scanners : ClaimDue(s) \/ scanRepo(s) \/ ScanFails(s) \/ Crash(s)
  \/ Tick

Spec == Init /\ [][Next]_vars

\* The loops and the clock go on; commands and releases come as they like.
FairSpec ==
  /\ Spec
  /\ \A s \in Scanners : WF_vars(ClaimDue(s)) /\ WF_vars(scanRepo(s))
  /\ WF_vars(Tick)

-----------------------------------------------------------------------------
InHand == UNION {ToSet(hand[s]) : s \in Scanners}

TypeOK ==
  /\ queue \in Seq(Repos)
  /\ left \in [Repos -> 0..Backoff]
  /\ last_seen \in [Repos -> Tags \union {NoTag}]
  /\ releases \subseteq Repos \X Tags
  /\ events \in [Repos \X Tags -> Nat]
  /\ cached \in [Repos -> Tags \union {NoTag}]
  /\ ttl \in [Repos -> 0..CacheTTL]
  /\ latest \in [Repos -> Tags \union {NoTag}]
  /\ hand \in [Scanners -> Seq(Claims)]
  /\ pc \in [Scanners -> {"lookup", "fetch", "store", "detect"}]
  /\ got \in [Scanners -> Tags \union {NoTag}]
  /\ faults \in 0..MaxFaults

\* A release is announced exactly once, though instances scan the same
\* repository at the same time, commands take it off the list and put it back,
\* tags come back at GitHub and calls fail half way.
AnnouncedOnce ==
  \A r \in Repos, t \in Tags :
    events[<<r, t>>] = IF <<r, t>> \in releases THEN 1 ELSE 0

\* A tag that scanRepo passes over as seen has been announced, also when it
\* compares with what the row said when the batch was claimed.
SkippedIsAnnounced ==
  LET seen(r) == {last_seen[r]} \union
                 {c.seen : c \in {d \in InHand : d.repo = r}}
  IN \A r \in Repos : \A t \in seen(r) \ {NoTag} : <<r, t>> \in releases

Shared(s, q) ==
  {p \in (1..Len(hand[s])) \X (1..Len(hand[q])) : hand[s][p[1]].repo = hand[q][p[2]].repo}

\* Two instances have the same repository in hand only if the reservation of
\* one of them is over: its back-off has passed, or a command came.
ClaimsAreExclusive ==
  \A s, q \in Scanners : s # q =>
    \A p \in Shared(s, q) : ~(hand[s][p[1]].held /\ hand[q][p[2]].held)

\* Every watched repository gets its turn again and again, however many are
\* due and however often commands make others due.
NobodyStarves ==
  \A r \in Repos : []<>(r \notin Watched \/ \E c \in InHand : c.repo = r)

\* No watched repository keeps a latest release that is not announced, also if
\* the latest changes for ever: neither the cache nor a batch that died hides
\* it for good.
LatestIsAnnounced ==
  \A r \in Repos :
    []<>(r \notin Watched \/ latest[r] = NoTag \/ <<r, latest[r]>> \in releases)

\* The scan loops of all instances together keep the promise of ReleaseFeed.
Feed == INSTANCE ReleaseFeed
  WITH Offers <- Published, announced <- releases, copies <- events, mark <- last_seen
FeedSafety == Feed!FeedSafety
=============================================================================
