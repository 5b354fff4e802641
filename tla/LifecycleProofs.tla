--------------------------- MODULE LifecycleProofs ---------------------------
(***************************************************************************)
(* Theorems about VectorHook and Lifecycle, for any number of loops,       *)
(* handlers, calls and entries and any capacity of the channel.            *)
(*                                                                         *)
(* The log hook is proved first: every step of the process either is one   *)
(* of the hook (HookStep) or leaves it alone.                              *)
(***************************************************************************)
EXTENDS Lifecycle, FiniteSetTheorems, TLAPS

\* Goroutines inside Fire: each of them has an entry that is counted as logged.
Firing == {g \in Loggers : fire[g] # "none"}

InPublish == IF loop \in {"received", "publishing"} THEN 1 ELSE 0

\* Every accepted entry is in the channel, in the hands of the goroutine, or
\* dealt with; and no entry is accepted that nobody logged.
EntriesAdd ==
  /\ accepted = handed + InPublish + entries
  /\ accepted + Cardinality(Firing) <= logged

\* The order of the close: the lock, the flag, the end of the goroutine.
CloseOrder ==
  /\ closed <=> closer \in {"waiting", "clean", "late"}
  /\ closed => \A g \in Loggers : fire[g] # "sends"
  /\ loop = "over" => closed /\ entries = 0
  /\ closer = "clean" => loop = "over"

HookInv == HookTypeOK /\ EntriesAdd /\ CloseOrder

\* A step of the log hook.
HookStep ==
  \/ \E g \in Loggers : Log(g)
  \/ Fire \/ PublishLoop \/ CloseLocks \/ CloseWithContext

-----------------------------------------------------------------------------
LEMMA FiringFinite == IsFiniteSet(Firing) /\ Cardinality(Firing) \in Nat
<1>1. Firing \subseteq Loggers
  BY DEF Firing
<1> QED  BY <1>1, LoggersAssumption, FS_Subset, FS_CardinalityType

\* Entering and leaving Fire, and staying in it.
LEMMA FiringMoves ==
  ASSUME HookTypeOK, NEW g \in Loggers, NEW p \in {"none", "locks", "sends"},
         fire' = [fire EXCEPT ![g] = p]
  PROVE  /\ fire[g] = "none" /\ p # "none" =>
              Cardinality(Firing') = Cardinality(Firing) + 1
         /\ fire[g] # "none" /\ p = "none" =>
              Cardinality(Firing') = Cardinality(Firing) - 1
         /\ fire[g] # "none" /\ p # "none" => Firing' = Firing
<1>1. IsFiniteSet(Firing) /\ Cardinality(Firing) \in Nat
  BY FiringFinite
<1>2. \A h \in Loggers : fire'[h] = IF h = g THEN p ELSE fire[h]
  BY DEF HookTypeOK
<1>3. ASSUME fire[g] = "none", p # "none"
      PROVE  Cardinality(Firing') = Cardinality(Firing) + 1
  <2>1. Firing' = Firing \union {g} /\ g \notin Firing
    BY <1>2, <1>3 DEF Firing
  <2> QED  BY <1>1, <2>1, FS_AddElement
<1>4. ASSUME fire[g] # "none", p = "none"
      PROVE  Cardinality(Firing') = Cardinality(Firing) - 1
  <2>1. Firing' = Firing \ {g} /\ g \in Firing
    BY <1>2, <1>4 DEF Firing
  <2> QED  BY <1>1, <2>1, FS_RemoveElement
<1>5. ASSUME fire[g] # "none", p # "none" PROVE Firing' = Firing
  BY <1>2, <1>5 DEF Firing
<1> QED  BY <1>3, <1>4, <1>5

\* One case per step of the hook.
LEMMA HookStepInv == HookInv /\ HookStep => HookInv'
<1> SUFFICES ASSUME HookInv, HookStep PROVE HookInv'
  OBVIOUS
<1> USE BufferAssumption, LogsAssumption
    DEF HookInv, HookTypeOK, EntriesAdd, CloseOrder, InPublish
<1>0. Cardinality(Firing) \in Nat
  BY FiringFinite
<1>s. ASSUME UNCHANGED fire PROVE Cardinality(Firing') = Cardinality(Firing)
  BY <1>s DEF Firing
<1>1. ASSUME NEW g \in Loggers, Log(g) PROVE HookInv'
  <2>1. Cardinality(Firing') = Cardinality(Firing) + 1
    BY <1>1, FiringMoves DEF Log
  <2> QED  BY <1>0, <1>1, <2>1 DEF Log
<1>2. ASSUME NEW g \in Loggers, FireLocks(g) PROVE HookInv'
  <2>1. Cardinality(Firing') <= Cardinality(Firing) /\ Cardinality(Firing') \in Int
    <3> DEFINE p == IF closed THEN "none" ELSE "sends"
    <3>1. p \in {"none", "locks", "sends"} /\ fire' = [fire EXCEPT ![g] = p]
      BY <1>2 DEF FireLocks
    <3>2. fire[g] # "none"
      BY <1>2 DEF FireLocks
    <3> HIDE DEF p
    <3>3. \/ Cardinality(Firing') = Cardinality(Firing) - 1
          \/ Firing' = Firing
      BY <3>1, <3>2, FiringMoves
    <3> QED  BY <1>0, <3>3
  <2> QED  BY <1>0, <1>2, <2>1 DEF FireLocks, WriterWaits
<1>3. ASSUME NEW g \in Loggers, FireSends(g) PROVE HookInv'
  <2>1. Cardinality(Firing') = Cardinality(Firing) - 1 
    BY <1>3, FiringMoves DEF FireSends
  <2>2. Cardinality(Firing') \in Nat
    <3>1. Firing' \subseteq Loggers
      BY DEF Firing
    <3> QED  BY <3>1, LoggersAssumption, FS_Subset, FS_CardinalityType
  <2> QED  BY <1>0, <1>3, <2>1, <2>2 DEF FireSends
<1>4. CASE LoopReceives
  BY <1>0, <1>4, <1>s DEF LoopReceives
<1>5. CASE LoopReadsContext
  BY <1>0, <1>5, <1>s DEF LoopReadsContext
<1>6. CASE LoopPublishes
  BY <1>0, <1>6, <1>s DEF LoopPublishes
<1>7. CASE LoopEnds
  BY <1>0, <1>7, <1>s DEF LoopEnds
<1>8. CASE CloseLocks
  BY <1>0, <1>8, <1>s DEF CloseLocks
<1>9. CASE CloseEntries
  BY <1>0, <1>9, <1>s DEF CloseEntries
<1>10. CASE CloseSucceeds
  BY <1>0, <1>10, <1>s DEF CloseSucceeds
<1>11. CASE CloseTimesOut
  BY <1>0, <1>11, <1>s DEF CloseTimesOut
<1> QED
  BY <1>1, <1>2, <1>3, <1>4, <1>5, <1>6, <1>7, <1>8, <1>9, <1>10, <1>11
     DEF HookStep, Fire, PublishLoop, CloseWithContext

LEMMA HookStutter == HookInv /\ UNCHANGED hookVars => HookInv'
  BY DEF HookInv, HookTypeOK, EntriesAdd, CloseOrder, InPublish, Firing, hookVars

LEMMA HookInitInv == HookInit => HookInv
<1> SUFFICES ASSUME HookInit PROVE HookInv
  OBVIOUS
<1>1. Firing = {}
  BY DEF HookInit, Firing
<1>2. Cardinality(Firing) = 0
  BY <1>1, FS_EmptySet
<1>3. HookTypeOK
  <2>1. /\ 0 \in 0..MaxLogs /\ 0 \in 0..BufferSize /\ 0 \in 0..0
        /\ fire \in [Loggers -> {"none", "locks", "sends"}]
    BY LogsAssumption, BufferAssumption DEF HookInit
  <2> QED  BY <2>1 DEF HookInit, HookTypeOK
<1>4. EntriesAdd /\ CloseOrder
  BY <1>2 DEF HookInit, EntriesAdd, CloseOrder, InPublish
<1> QED  BY <1>3, <1>4 DEF HookInv

-----------------------------------------------------------------------------
(* The process around the hook.                                            *)

WorkTypeOK ==
  /\ signal \in BOOLEAN
  /\ err \in BOOLEAN
  /\ work \in [Loggers -> {"absent", "idle", "busy", "over"}]
  /\ \A g \in Loggers \ Loops : work[g] \in {"idle", "busy"}
  /\ http \in {"serving", "draining", "over", "late"}
  /\ grpc \in {"absent", "serving", "draining", "over"}
  /\ main \in {"starting", "running", "closing", "closed", "exited"}

\* A server that is over has nobody at work, unless the five seconds of
\* Shutdown were not enough, which is an error.
ServersOK ==
  /\ grpc \in {"absent", "over"} => \A c \in Calls : work[c] # "busy"
  /\ http = "over" => \A h \in Handlers : work[h] # "busy"
  /\ http = "late" => err

\* run() gets to its deferred calls when the group is done, or at once when the
\* gRPC listener did not open: then the loops were never started.
OrderOK ==
  /\ main = "starting" => grpc = "absent" /\ \A g \in Loops : work[g] = "absent"
  /\ main \in {"closing", "closed", "exited"} =>
       /\ \A g \in Loops : work[g] \in {"absent", "over"}
       /\ grpc \in {"absent", "over"}
       /\ http \in {"over", "late"} \/ err

ProcInv == WorkTypeOK /\ ServersOK /\ OrderOK

IInv == HookInv /\ ProcInv

\* Only Logger and ResourcesClose touch the hook, and only by its own steps.
LEMMA HookStepsOnly == Next => HookStep \/ UNCHANGED hookVars
<1> SUFFICES ASSUME Next PROVE HookStep \/ UNCHANGED hookVars
  OBVIOUS
<1>1. CASE Sigterm
  BY <1>1 DEF Sigterm
<1>2. CASE Run
  BY <1>2 DEF Run, Started, ListenFails, GroupWaits, ResourcesClose, Exits, HookStep
<1>3. CASE HttpServer
  BY <1>3 DEF HttpServer, ServeFails, ShutdownBegins, ShutdownEnds, ShutdownTimesOut,
              RequestArrives, RequestEnds
<1>4. CASE GrpcServer
  BY <1>4 DEF GrpcServer, GrpcServeFails, GracefulStop, GracefulStopReturns,
              CallArrives, CallEnds
<1>5. CASE Logger
  BY <1>5 DEF Logger, BusyAmong, HookStep
<1>6. CASE \E g \in Loops : Loop(g)
  BY <1>6 DEF Loop, LoopBegins, LoopContinues, LoopFails, LoopStops
<1> QED  BY <1>1, <1>2, <1>3, <1>4, <1>5, <1>6 DEF Next

LEMMA ProcStep == ProcInv /\ [Next]_vars => ProcInv'
<1> SUFFICES ASSUME ProcInv, [Next]_vars PROVE ProcInv'
  OBVIOUS
<1> USE WorkAssumption DEF ProcInv, WorkTypeOK, ServersOK, OrderOK, Busy, BusyAmong
<1>1. CASE Sigterm
  BY <1>1 DEF Sigterm
<1>2. CASE Started
  BY <1>2 DEF Started
<1>3. CASE ListenFails
  BY <1>3 DEF ListenFails
<1>4. CASE GroupWaits
  BY <1>4 DEF GroupWaits
<1>5. CASE ResourcesClose
  BY <1>5 DEF ResourcesClose
<1>6. CASE Exits
  BY <1>6 DEF Exits
<1>7. ASSUME NEW g \in Loops, Loop(g) PROVE ProcInv'
  <2>1. CASE LoopBegins(g)
    BY <2>1 DEF LoopBegins
  <2>2. CASE LoopContinues(g)
    BY <2>2 DEF LoopContinues
  <2>3. CASE LoopFails(g)
    BY <2>3 DEF LoopFails
  <2>4. CASE LoopStops(g)
    BY <2>4 DEF LoopStops
  <2> QED  BY <1>7, <2>1, <2>2, <2>3, <2>4 DEF Loop
<1>8. CASE ServeFails \/ ShutdownBegins \/ ShutdownEnds \/ ShutdownTimesOut
  BY <1>8 DEF ServeFails, ShutdownBegins, ShutdownEnds, ShutdownTimesOut
<1>9. ASSUME NEW h \in Handlers, RequestArrives(h) \/ RequestEnds(h) PROVE ProcInv'
  BY <1>9 DEF RequestArrives, RequestEnds
<1>10. CASE GrpcServeFails \/ GracefulStop \/ GracefulStopReturns
  BY <1>10 DEF GrpcServeFails, GracefulStop, GracefulStopReturns
<1>11. ASSUME NEW c \in Calls, CallArrives(c) \/ CallEnds(c) PROVE ProcInv'
  BY <1>11 DEF CallArrives, CallEnds
<1>12. CASE UNCHANGED procVars
  BY <1>12 DEF procVars
<1>13. Logger \/ UNCHANGED vars => UNCHANGED procVars
  BY DEF Logger, vars
<1> QED
  BY <1>1, <1>2, <1>3, <1>4, <1>5, <1>6, <1>7, <1>8, <1>9, <1>10, <1>11, <1>12,
     <1>13 DEF Next, Run, HttpServer, GrpcServer

THEOREM Invariant == Spec => []IInv
<1>1. Init => IInv
  <2> SUFFICES ASSUME Init PROVE ProcInv
    BY HookInitInv DEF Init, IInv
  <2> QED  BY WorkAssumption DEF Init, ProcInv, WorkTypeOK, ServersOK, OrderOK
<1>2. IInv /\ [Next]_vars => IInv'
  BY HookStepsOnly, HookStepInv, HookStutter, ProcStep DEF IInv, vars
<1> QED  BY <1>1, <1>2, PTL DEF Spec

\* The states of the process keep their types; the channel never holds more
\* than its capacity, and nothing is published that was not accepted.
THEOREM TypeCorrect == Spec => []LifecycleTypeOK
<1>1. IInv => LifecycleTypeOK
  BY DEF IInv, HookInv, ProcInv, WorkTypeOK, LifecycleTypeOK
<1> QED  BY <1>1, Invariant, PTL

\* No goroutine sends to the closed channel, and a cleanup that ends within its
\* five seconds has handed over every accepted entry, whenever the close meets
\* the goroutines that log.
THEOREM HookKeepsLogs == Spec => []LogsAreKept
<1>1. IInv => LogsAreKept
  BY BufferAssumption
     DEF IInv, HookInv, HookTypeOK, EntriesAdd, CloseOrder, InPublish, LogsAreKept
<1> QED  BY <1>1, Invariant, PTL

\* Producer and pool are closed when no loop and no gRPC call is under way; a
\* process that reports success did not cut an HTTP handler short either.
THEOREM ClosesWhenQuiet == Spec => []QuietBeforeClose
<1>1. IInv => QuietBeforeClose
  BY WorkAssumption
     DEF IInv, ProcInv, WorkTypeOK, ServersOK, OrderOK, QuietBeforeClose, BusyAmong
<1> QED  BY <1>1, Invariant, PTL
=============================================================================
