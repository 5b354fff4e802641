---------------------------- MODULE MCLifecycle -----------------------------
(* One service with a loop of each kind, one HTTP and one gRPC request.    *)
EXTENDS Lifecycle, TLC

CONSTANTS consumer, ticker, request, request2, call   \* model values

MCLoggers == {consumer, ticker, request, request2, call}
=============================================================================
