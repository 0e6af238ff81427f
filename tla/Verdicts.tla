------------------------------- MODULE Verdicts -------------------------------
(***************************************************************************)
(* The verdicts of xaidr and the rules that combine them: what a mode does *)
(* to a halting action (xaidr/enforcement.py), how detection and policy    *)
(* compose (xaidr/local_policy.py), what a fail_closed posture is          *)
(* (xaidr/failclosed.py) and what the fault paths of xaidr/sensor.py       *)
(* answer.  A score is kept as its band: 0 below flag_threshold, 1 below   *)
(* block_threshold, 2 above.                                               *)
(***************************************************************************)
EXTENDS Integers, FiniteSets

Actions == {"allowed", "flagged", "approval_required", "blocked"}
Halting == {"approval_required", "blocked"}
Bands == 0..2
Statuses == {"ok", "not_scannable", "scan_error", "fail_closed"}
Escalations == {"none", "applied", "skipped"}

(* bound: a rule of _BOUND_SIGNAL_RULES, or a bound fault of the arguments.*)
Verdict == [action: Actions, band: Bands, bound: BOOLEAN,
            escalation: Escalations, status: Statuses]

Plain(a, b, bound) == [action |-> a, band |-> b, bound |-> bound,
                       escalation |-> "none", status |-> "ok"]

MustHalt(v) == v.action \in Halting

-----------------------------------------------------------------------------
(* Severities: one order for detection, policy and extensions. "monitor"   *)
(* and "flag" are decisions only a policy gives.                           *)

Severity(a) ==
    CASE a \in {"allow", "allowed"} -> 0
      [] a \in {"monitor", "flag", "flagged"} -> 1
      [] a \in {"require_approval", "approval_required"} -> 2
      [] a \in {"block", "blocked"} -> 3

AtSeverity(n) ==
    CASE n = 0 -> "allowed" [] n = 1 -> "flagged"
      [] n = 2 -> "approval_required" [] OTHER -> "blocked"

\* local_policy.compose: the stricter of the two wins.
Compose(action, decision) ==
    AtSeverity(IF Severity(action) >= Severity(decision)
               THEN Severity(action) ELSE Severity(decision))

\* EnforcementPolicy.downgrade: monitor mode turns a halt into a flag.
Downgrade(enforces, a) == IF enforces \/ a \notin Halting THEN a ELSE "flagged"

-----------------------------------------------------------------------------
(* fail_closed: each group is open or names the verdict of a refusal.      *)

Groups == {"controls", "bounds", "internal"}

\* failclosed.resolve: the groups a configuration closes, each with the
\* verdict it asks for. "artifact" refuses construction and takes no verdict.
Requests == UNION {[closing -> Halting] : closing \in SUBSET Groups}
Resolved(request) ==
    [g \in Groups |-> IF g \in DOMAIN request THEN request[g] ELSE "open"]
Postures == {Resolved(request) : request \in Requests}

IsClosed(posture, g) == posture[g] # "open"

\* _emit_fail_closed: the event's verdict, before the mode is applied.
Refusal(posture, g) ==
    [action |-> posture[g], band |-> 2, bound |-> FALSE,
     escalation |-> "none", status |-> "fail_closed"]

\* _emit_scan_error and _emit_not_scannable: fail open, with a signal.
ScanError == [Plain("allowed", 0, FALSE) EXCEPT !.status = "scan_error"]
NotScannable == [Plain("allowed", 0, FALSE) EXCEPT !.status = "not_scannable"]

\* _breaker_observe: which true verdicts count as a violation.
IsViolation(v) == v.action = "blocked" \/ (v.action = "flagged" /\ v.band = 2)
===============================================================================
