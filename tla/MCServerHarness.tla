--------------------------- MODULE MCServerHarness ---------------------------
EXTENDS ServerHarness

(* A run that a second shell stops; then the steps of how-to-run.md: a     *)
(* server, a run beside it and a stop.                                     *)
StoppedThenDocumented == <<"run", "stop", "server", "run", "stop">>
SecondOverlaps == {2}

(* The documented steps alone (3.2, 3.3 and 3.5).                          *)
Documented == <<"server", "run", "stop">>

(* Ctrl-C in the long waits of `run` and `server`, and while `run` stops.  *)
Waits == {"run", "server"} \X {"health", "client"}
RunStops == {"run"} \X {"stop_check", "stop_read", "stop_wait", "stop_rm"}
WaitsAndStops == Waits \cup RunStops

(* The theorems of ServerHarnessProofs are about such instances.           *)
ASSUME InstanceIsDisciplined == Disciplined
=============================================================================
