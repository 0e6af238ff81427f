------------------------------- MODULE Boundary -------------------------------
(***************************************************************************)
(* What a boundary of the sensor promises its host, whatever happens       *)
(* inside: the answer is the one the operator's posture asks for when part *)
(* of the sensor faulted.  Stated from the guarantees of README.md and     *)
(* xaidr/failclosed.py; Sensor implements it.                              *)
(***************************************************************************)
CONSTANTS Groups        \* the fault groups an operator can close

VARIABLES
    stage,      \* "idle", "asked" or "answered"
    enforces,   \* the enforcement mode, fixed
    closed,     \* the groups closed by the operator, fixed
    hit,        \* the groups a fault of this call belongs to
    told,       \* what the host was told: "pass", "halt" or "raise"
    asked       \* an operator's own rule (gate, list, policy) stopped the call

vars == <<stage, enforces, closed, hit, told, asked>>

Init ==
    /\ stage = "idle" /\ told = "pass" /\ hit = {} /\ asked = FALSE
    /\ enforces \in BOOLEAN
    /\ closed \subseteq Groups

Ask ==
    /\ stage = "idle"
    /\ stage' = "asked"
    /\ UNCHANGED <<enforces, closed, hit, told, asked>>

Fault ==
    /\ stage = "asked"
    /\ \E g \in Groups : hit' = hit \cup {g}
    /\ UNCHANGED <<stage, enforces, closed, told, asked>>

\* A call hit by a fault of a closed group does not pass in an enforcing
\* mode; a monitoring sensor halts a call only by an explicit rule.
Answer ==
    /\ stage = "asked"
    /\ stage' = "answered"
    /\ \E g \in SUBSET Groups : hit' = hit \cup g
    /\ told' \in {"pass", "halt", "raise"}
    /\ asked' \in BOOLEAN
    /\ (enforces /\ hit' \cap closed # {}) => told' # "pass"
    /\ (~enforces /\ told' = "halt") => asked'
    /\ UNCHANGED <<enforces, closed>>

Rest ==
    /\ stage = "answered" /\ stage' = "idle"
    /\ hit' = {} /\ told' = "pass" /\ asked' = FALSE
    /\ UNCHANGED <<enforces, closed>>

Next == Ask \/ Fault \/ Answer \/ Rest

Spec == Init /\ [][Next]_vars
===============================================================================
