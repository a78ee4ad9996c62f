---------------------------- MODULE MCTelemetry ----------------------------
(***************************************************************************)
(* Telemetry as TLC checks it: the goroutines are model values.            *)
(***************************************************************************)
EXTENDS Telemetry

CONSTANTS w1, w2, reader
=============================================================================
