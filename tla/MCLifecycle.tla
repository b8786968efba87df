---------------------------- MODULE MCLifecycle ----------------------------
(* Small instances of Lifecycle for TLC. *)
EXTENDS Lifecycle

(* Everything that may go wrong; a start() that fails halfway. *)
AllFaults == Elements \X (FaultKinds \ {"quit"}) \cup Producers \X {"quit"}
StartFaults == Elements \X {"startFalse", "startThrow"}
=============================================================================
