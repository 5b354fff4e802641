---------------------------- MODULE MCWatchSaga ----------------------------
(* Small instances of WatchSaga. *)
EXTENDS WatchSaga, TLC

MCStart == <<"start">>
MCStartStop == <<"start", "stop">>
MCRetryDelays == <<1, 2>>
=============================================================================
