----------------------------- MODULE MCTelemetry -----------------------------
(* TLC instances of Telemetry.                                             *)
EXTENDS Telemetry

CONSTANTS e1, e2, p1, p2, d1, w1, w2

TwoEvents == {e1, e2}
TwoProducers == {p1, p2}
OneDrainer == {d1}
TwoWorkers == {w1, w2}
FlushOnly == {"flush"}
==============================================================================
