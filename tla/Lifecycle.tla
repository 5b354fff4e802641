----------------------------- MODULE Lifecycle ------------------------------
(***************************************************************************)
(* The life of one service process, as the main.go files and               *)
(* pkg/metrics/server.go wire it: loops (Kafka consumers, relays, retry    *)
(* scheduler, scanner and saga tickers), HTTP servers and a gRPC server    *)
(* run in one errgroup whose context SIGTERM or the first error cancels;   *)
(* run() waits for the group, then its deferred calls close the producer   *)
(* and the pool and, last, the log hook.                                   *)
(*                                                                         *)
(* Work that is under way may log at any moment (VectorHook), and cannot   *)
(* end while it is inside Fire.  An HTTP handler may take for ever (the    *)
(* SMTP client has no timeout); Shutdown waits five seconds for it.        *)
(* GracefulStop and the loops have no such bound.                          *)
(***************************************************************************)
EXTENDS VectorHook

CONSTANTS
  Loops,         \* loops on the group's context
  Tickers,       \* those that log an error and go on
  Handlers,      \* HTTP requests that can be in progress at a time
  Calls          \* gRPC calls that can be in progress at a time

ASSUME TickersAssumption == Tickers \subseteq Loops
ASSUME WorkAssumption ==
  /\ Loggers = Loops \union Handlers \union Calls
  /\ Loops \intersect Handlers = {}
  /\ Loops \intersect Calls = {}
  /\ Handlers \intersect Calls = {}

VARIABLES
  signal,      \* SIGTERM was received
  err,         \* run() is going to return an error
  work,        \* what each loop, handler and call does
  http,        \* the HTTP server and its shutdown goroutine
  grpc,        \* the gRPC server
  main         \* where run() is

procVars == <<signal, err, work, http, grpc, main>>
vars == <<hookVars, procVars>>

\* The group's context: cancelled by the signal or by the first error.
Done == signal \/ err

Busy(g) == work[g] = "busy" /\ fire[g] = "none"
BusyAmong(S) == {g \in S : work[g] = "busy"}

Init ==
  /\ HookInit
  /\ signal = FALSE
  /\ err = FALSE
  /\ work = [g \in Loggers |-> IF g \in Loops THEN "absent" ELSE "idle"]
  /\ http = "serving"
  /\ grpc = "absent"
  /\ main = "starting"

Sigterm ==
  /\ ~signal
  /\ signal' = TRUE
  /\ UNCHANGED <<hookVars, err, work, http, grpc, main>>

-----------------------------------------------------------------------------
(* run(): the HTTP servers are started first, then the gRPC listener is    *)
(* opened, then the loops are started.                                     *)

Started ==
  /\ main = "starting"
  /\ main' = "running"
  /\ grpc' = "serving"
  /\ work' = [g \in Loggers |-> IF g \in Loops THEN "idle" ELSE work[g]]
  /\ UNCHANGED <<hookVars, signal, err, http>>

\* net.Listen fails: run() returns at once, without waiting for the group.
ListenFails ==
  /\ main = "starting"
  /\ main' = "closing"
  /\ err' = TRUE
  /\ UNCHANGED <<hookVars, signal, work, http, grpc>>

\* Mistake: Shutdown is called outside the group, which then waits for
\* ListenAndServe alone.
GroupWaitsForListeners ==
  /\ main = "running"
  /\ \A g \in Loops : work[g] = "over"
  /\ http # "serving"
  /\ grpc = "over"
  /\ main' = "closing"
  /\ UNCHANGED <<hookVars, signal, err, work, http, grpc>>

GroupWaits ==
  /\ main = "running"
  /\ \A g \in Loops : work[g] = "over"
  /\ http \in {"over", "late"}
  /\ grpc = "over"
  /\ main' = "closing"
  /\ UNCHANGED <<hookVars, signal, err, work, http, grpc>>

\* producer.Close and pool.Close, then the cleanup of the logger.  pool.Close
\* waits for the connections in use; the statements on them are assumed to end.
ResourcesClose ==
  /\ main = "closing"
  /\ CloseLocks
  /\ main' = "closed"
  /\ UNCHANGED <<signal, err, work, http, grpc>>

Exits ==
  /\ main = "closed"
  /\ closer \in {"clean", "late"}
  /\ main' = "exited"
  /\ UNCHANGED <<hookVars, signal, err, work, http, grpc>>

-----------------------------------------------------------------------------
(* The loops.  select takes any ready case: a tick, or a message that is   *)
(* there already, can win against a context that is done.                  *)

LoopBegins(g) ==
  /\ work[g] = "idle"
  /\ work' = [work EXCEPT ![g] = "busy"]
  /\ UNCHANGED <<hookVars, signal, err, http, grpc, main>>

LoopContinues(g) ==
  /\ Busy(g)
  /\ work' = [work EXCEPT ![g] = "idle"]
  /\ UNCHANGED <<hookVars, signal, err, http, grpc, main>>

\* A statement, a publication or a commit failed.
LoopFails(g) ==
  /\ Busy(g)
  /\ g \notin Tickers
  /\ work' = [work EXCEPT ![g] = "over"]
  /\ err' = TRUE
  /\ UNCHANGED <<hookVars, signal, http, grpc, main>>

LoopStops(g) ==
  /\ Done
  /\ \/ work[g] = "idle"
     \/ Busy(g) /\ g \notin Tickers   \* Start: the handler failed, ctx.Err() # nil
  /\ work' = [work EXCEPT ![g] = "over"]
  /\ UNCHANGED <<hookVars, signal, err, http, grpc, main>>

-----------------------------------------------------------------------------
(* The HTTP server.                                                        *)

RequestArrives(h) ==
  /\ http = "serving"
  /\ work[h] = "idle"
  /\ work' = [work EXCEPT ![h] = "busy"]
  /\ UNCHANGED <<hookVars, signal, err, http, grpc, main>>

RequestEnds(h) ==
  /\ Busy(h)
  /\ work' = [work EXCEPT ![h] = "idle"]
  /\ UNCHANGED <<hookVars, signal, err, http, grpc, main>>

\* ListenAndServe fails, which cancels the context and so calls Shutdown.
ServeFails ==
  /\ http = "serving"
  /\ http' = "draining"
  /\ err' = TRUE
  /\ UNCHANGED <<hookVars, signal, work, grpc, main>>

ShutdownBegins ==
  /\ http = "serving"
  /\ Done
  /\ http' = "draining"
  /\ UNCHANGED <<hookVars, signal, err, work, grpc, main>>

ShutdownEnds ==
  /\ http = "draining"
  /\ BusyAmong(Handlers) = {}
  /\ http' = "over"
  /\ UNCHANGED <<hookVars, signal, err, work, grpc, main>>

\* The five seconds are over: Shutdown returns the error of its context.
ShutdownTimesOut ==
  /\ http = "draining"
  /\ BusyAmong(Handlers) # {}
  /\ http' = "late"
  /\ err' = TRUE
  /\ UNCHANGED <<hookVars, signal, work, grpc, main>>

-----------------------------------------------------------------------------
(* The gRPC server.                                                        *)

CallArrives(c) ==
  /\ grpc = "serving"
  /\ work[c] = "idle"
  /\ work' = [work EXCEPT ![c] = "busy"]
  /\ UNCHANGED <<hookVars, signal, err, http, grpc, main>>

CallEnds(c) ==
  /\ Busy(c)
  /\ work' = [work EXCEPT ![c] = "idle"]
  /\ UNCHANGED <<hookVars, signal, err, http, grpc, main>>

GrpcServeFails ==
  /\ grpc = "serving"
  /\ grpc' = "draining"
  /\ err' = TRUE
  /\ UNCHANGED <<hookVars, signal, work, http, main>>

GracefulStop ==
  /\ grpc = "serving"
  /\ Done
  /\ grpc' = "draining"
  /\ UNCHANGED <<hookVars, signal, err, work, http, main>>

GracefulStopReturns ==
  /\ grpc = "draining"
  /\ BusyAmong(Calls) = {}
  /\ grpc' = "over"
  /\ UNCHANGED <<hookVars, signal, err, work, http, main>>

-----------------------------------------------------------------------------
Run == Started \/ ListenFails \/ GroupWaits \/ ResourcesClose \/ Exits

Loop(g) == LoopBegins(g) \/ LoopContinues(g) \/ LoopFails(g) \/ LoopStops(g)

HttpServer ==
  \/ ServeFails \/ ShutdownBegins \/ ShutdownEnds \/ ShutdownTimesOut
  \/ \E h \in Handlers : RequestArrives(h) \/ RequestEnds(h)

GrpcServer ==
  \/ GrpcServeFails \/ GracefulStop \/ GracefulStopReturns
  \/ \E c \in Calls : CallArrives(c) \/ CallEnds(c)

Logger ==
  /\ \/ \E g \in BusyAmong(Loggers) : Log(g)
     \/ Fire \/ PublishLoop \/ CloseWithContext
  /\ UNCHANGED procVars

Next ==
  /\ main # "exited"
  /\ \/ Sigterm \/ Run \/ HttpServer \/ GrpcServer \/ Logger
     \/ \E g \in Loops : Loop(g)

Spec == Init /\ [][Next]_vars

\* What a step needs to be a step of a process that still runs.
Alive(A) == main # "exited" /\ A

\* Goroutines run; the handlers of loops and of gRPC calls return, those of
\* HTTP requests need not; the timeouts fire; select is not for ever unlucky.
Fairness ==
  /\ WF_vars(Alive(Run))
  /\ WF_vars(Alive(ShutdownBegins \/ ShutdownEnds \/ ShutdownTimesOut))
  /\ WF_vars(Alive(GracefulStop \/ GracefulStopReturns))
  /\ \A c \in Calls : WF_vars(Alive(CallEnds(c)))
  /\ \A g \in Loops : /\ WF_vars(Alive(LoopContinues(g)))
                      /\ SF_vars(Alive(LoopStops(g)))
  /\ \A g \in Loggers :
       WF_vars(Alive((FireLocks(g) \/ FireSends(g)) /\ UNCHANGED procVars))
  /\ WF_vars(Alive(PublishLoop /\ UNCHANGED procVars))
  /\ WF_vars(Alive(CloseWithContext /\ UNCHANGED procVars))

FairSpec == Spec /\ Fairness

-----------------------------------------------------------------------------
LifecycleTypeOK ==
  /\ HookTypeOK
  /\ signal \in BOOLEAN
  /\ err \in BOOLEAN
  /\ work \in [Loggers -> {"absent", "idle", "busy", "over"}]
  /\ \A g \in Loggers \ Loops : work[g] \in {"idle", "busy"}
  /\ http \in {"serving", "draining", "over", "late"}
  /\ grpc \in {"absent", "serving", "draining", "over"}
  /\ main \in {"starting", "running", "closing", "closed", "exited"}

(* The producer and the pool are closed only when no loop and no gRPC call *)
(* is under way.  HTTP handlers may be, when the five seconds of Shutdown  *)
(* were not enough or the gRPC listener did not open, and then run()       *)
(* returns an error: a process that reports success cut nothing short.     *)
QuietBeforeClose ==
  main \in {"closed", "exited"} =>
    /\ BusyAmong(Loops \union Calls) = {}
    /\ ~err => BusyAmong(Handlers) = {}

(* A process that was told to stop, or in which one goroutine of the group *)
(* failed, ends: no HTTP handler that hangs and no goroutine in the log    *)
(* hook keeps it.                                                          *)
ServiceEnds == Done ~> main = "exited"
=============================================================================
