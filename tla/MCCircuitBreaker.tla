--------------------------- MODULE MCCircuitBreaker ---------------------------
(* TLC instances of CircuitBreaker.                                        *)
EXTENDS CircuitBreaker

CONSTANTS t1, t2

MCCallers == {t1, t2}
MCCounters == {"violations", "toolCalls"}
MCThreshold == [k \in MCCounters |-> 2]
MCWindow == [k \in MCCounters |-> IF k = "violations" THEN 2 ELSE 1]
MCModes == {"block", "monitor"}
MCCooldowns == {Never, 2}
===============================================================================
