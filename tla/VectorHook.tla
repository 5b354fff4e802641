----------------------------- MODULE VectorHook -----------------------------
(***************************************************************************)
(* pkg/logger/setup.go: the hook that hands each log entry to the Vector   *)
(* sidecar.  Whoever logs calls Fire, which puts the entry into a bounded  *)
(* channel under the read lock, or drops it.  One goroutine publishes.     *)
(* The cleanup of Configure closes the channel under the write lock and    *)
(* waits, at most five seconds, until the goroutine has drained it.        *)
(*                                                                         *)
(* The lock is Go's sync.RWMutex: a writer that waits for Lock keeps new   *)
(* readers out, so a reader that blocks while it holds the lock blocks     *)
(* everyone.  Entries are counted, the channel keeps their order.          *)
(*                                                                         *)
(* Left out: the fatal level, which no caller uses; a second Close, which  *)
(* no caller makes; the answer of the sidecar, which publish only prints   *)
(* (an unreachable sidecar costs at most the two seconds of the client).   *)
(***************************************************************************)
EXTENDS Integers, FiniteSets

CONSTANTS
  Loggers,       \* goroutines that log
  BufferSize,    \* capacity of the channel (1000 in the code)
  MaxLogs        \* bound: entries logged in one behaviour

ASSUME LoggersAssumption == IsFiniteSet(Loggers)
ASSUME BufferAssumption == BufferSize \in Nat \ {0}
ASSUME LogsAssumption == MaxLogs \in Nat

VARIABLES
  fire,        \* where each goroutine is in Fire
  logged,      \* entries logged so far
  entries,     \* entries in the channel
  closed,      \* the channel is closed (and the flag of that name set)
  loop,        \* where publishLoop is
  closer,      \* where the cleanup is
  accepted,    \* history: entries that went into the channel
  handed       \* history: entries that publish has dealt with

hookVars == <<fire, logged, entries, closed, loop, closer, accepted, handed>>

HookInit ==
  /\ fire = [g \in Loggers |-> "none"]
  /\ logged = 0
  /\ entries = 0
  /\ closed = FALSE
  /\ loop = "receiving"
  /\ closer = "idle"
  /\ accepted = 0
  /\ handed = 0

\* A writer waits in Lock: RLock waits behind it.
WriterWaits == closer = "locking"

Log(g) ==
  /\ fire[g] = "none"
  /\ logged < MaxLogs
  /\ fire' = [fire EXCEPT ![g] = "locks"]
  /\ logged' = logged + 1
  /\ UNCHANGED <<entries, closed, loop, closer, accepted, handed>>

\* RLock and the test of closed.  An entry logged after the close is lost.
FireLocks(g) ==
  /\ fire[g] = "locks"
  /\ ~WriterWaits
  /\ fire' = [fire EXCEPT ![g] = IF closed THEN "none" ELSE "sends"]
  /\ UNCHANGED <<logged, entries, closed, loop, closer, accepted, handed>>

\* Mistake: no default in the select, Fire waits for room in the channel.
FireWaits(g) ==
  /\ fire[g] = "sends"
  /\ entries < BufferSize
  /\ fire' = [fire EXCEPT ![g] = "none"]
  /\ entries' = entries + 1
  /\ accepted' = accepted + 1
  /\ UNCHANGED <<logged, closed, loop, closer, handed>>

\* Mistake: a list without a bound instead of the channel.
FireAppends(g) ==
  /\ fire[g] = "sends"
  /\ fire' = [fire EXCEPT ![g] = "none"]
  /\ entries' = entries + 1
  /\ accepted' = accepted + 1
  /\ UNCHANGED <<logged, closed, loop, closer, handed>>

\* The select, which drops the entry when the channel is full, and RUnlock.
FireSends(g) ==
  /\ fire[g] = "sends"
  /\ fire' = [fire EXCEPT ![g] = "none"]
  /\ IF entries < BufferSize
       THEN entries' = entries + 1 /\ accepted' = accepted + 1
       ELSE UNCHANGED <<entries, accepted>>
  /\ UNCHANGED <<logged, closed, loop, closer, handed>>

LoopReceives ==
  /\ loop = "receiving"
  /\ entries > 0
  /\ entries' = entries - 1
  /\ loop' = "received"
  /\ UNCHANGED <<fire, logged, closed, closer, accepted, handed>>

\* publishContext takes the read lock to read one field.
LoopReadsContext ==
  /\ loop = "received"
  /\ ~WriterWaits
  /\ loop' = "publishing"
  /\ UNCHANGED <<fire, logged, entries, closed, closer, accepted, handed>>

LoopPublishes ==
  /\ loop = "publishing"
  /\ handed' = handed + 1
  /\ loop' = "receiving"
  /\ UNCHANGED <<fire, logged, entries, closed, closer, accepted>>

LoopEnds ==
  /\ loop = "receiving"
  /\ closed /\ entries = 0
  /\ loop' = "over"
  /\ UNCHANGED <<fire, logged, entries, closed, closer, accepted, handed>>

CloseLocks ==
  /\ closer = "idle"
  /\ closer' = "locking"
  /\ UNCHANGED <<fire, logged, entries, closed, loop, accepted, handed>>

\* Mistake: the channel is closed under the read lock only.
CloseBesideReaders ==
  /\ closer = "locking"
  /\ closed' = TRUE
  /\ closer' = "waiting"
  /\ UNCHANGED <<fire, logged, entries, loop, accepted, handed>>

\* Lock returns when no reader is left; no other step can see the lock held.
CloseEntries ==
  /\ closer = "locking"
  /\ \A g \in Loggers : fire[g] # "sends"
  /\ closed' = TRUE
  /\ closer' = "waiting"
  /\ UNCHANGED <<fire, logged, entries, loop, accepted, handed>>

CloseSucceeds ==
  /\ closer = "waiting"
  /\ loop = "over"
  /\ closer' = "clean"
  /\ UNCHANGED <<fire, logged, entries, closed, loop, accepted, handed>>

\* The five seconds are over; what is left in the channel is lost.
CloseTimesOut ==
  /\ closer = "waiting"
  /\ closer' = "late"
  /\ UNCHANGED <<fire, logged, entries, closed, loop, accepted, handed>>

Fire == \E g \in Loggers : FireLocks(g) \/ FireSends(g)

PublishLoop == LoopReceives \/ LoopReadsContext \/ LoopPublishes \/ LoopEnds

CloseWithContext == CloseEntries \/ CloseSucceeds \/ CloseTimesOut

HookTypeOK ==
  /\ fire \in [Loggers -> {"none", "locks", "sends"}]
  /\ logged \in 0..MaxLogs
  /\ entries \in 0..BufferSize
  /\ closed \in BOOLEAN
  /\ loop \in {"receiving", "received", "publishing", "over"}
  /\ closer \in {"idle", "locking", "waiting", "clean", "late"}
  /\ accepted \in 0..logged
  /\ handed \in 0..accepted

-----------------------------------------------------------------------------
(* Nobody is about to send to a channel that is closed, which panics; and  *)
(* a cleanup that ends within its five seconds has lost nothing that was   *)
(* accepted.  Fire, publishLoop and CloseWithContext run concurrently.     *)
LogsAreKept ==
  /\ closed => \A g \in Loggers : fire[g] # "sends"
  /\ closer = "clean" => handed = accepted
=============================================================================
