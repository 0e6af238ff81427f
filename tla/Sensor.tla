-------------------------------- MODULE Sensor --------------------------------
(***************************************************************************)
(* One boundary call of DelphiSensor (xaidr/sensor.py) from gate to answer *)
(* and what the host does with the answer, with the operator's threads     *)
(* changing the policy and the blocklists meanwhile and escalator threads  *)
(* (xaidr/escalation.py) answering in time or not: a thread abandoned by   *)
(* its timeout keeps a box of its own that nobody reads, and is left out.  *)
(*                                                                         *)
(* The host uses the sensor directly, through a tool wrapped by            *)
(* protect_tools, or through ProtectedHttpClient.  Extensions, escalators, *)
(* the detectors and the breaker answer anything they can answer.          *)
(***************************************************************************)
EXTENDS ToolScan

CONSTANTS
    Ext,            \* number of attached extensions
    Links,          \* number of links in the escalation chain
    Configs,        \* the postures of an instance (see Init)
    Decisions       \* what a policy can decide of this call

ASSUME ConstAssumption ==
    /\ Ext \in Nat
    /\ Links \in Nat
    /\ Configs \subseteq [enforces: BOOLEAN, closed: Postures,
                          structural: {"flag", "block"}, breaker: BOOLEAN]
    /\ Decisions \subseteq {"allowed", "monitor", "approval_required", "blocked"}

NoPolicy == "none"
Kinds == {"scan", "a2a", "a2a_inbound", "tool_call"}
Uses == {"direct", "wrapper", "http"}

VARIABLES
    conf,           \* enforcement, fail_closed, a2a_structural_enforcement, breaker
    policy,         \* _policy: what it decides of this call, or NoPolicy
    listed,         \* what the call names is blocklisted: its tool's name is in
                    \* _blocked_tools, or its URL matches _blocked_urls
    call,           \* the boundary call in flight
    box,            \* the answer box of the link being consulted
    inForce         \* history: the policies in force from the start of
                    \* a tool call to its verdict

vars == <<conf, policy, listed, call, box, inForce>>
shared == <<policy, listed, inForce>>

-----------------------------------------------------------------------------
(* The call: at is its place in the code, i the extension or link whose    *)
(* turn it is, v the verdict so far, recorded the severity of the strictest *)
(* verdict enqueued as telemetry (-1: none), unsent that the event of the  *)
(* answer itself failed to be enqueued, told the answer.  skipped is the   *)
(* skipped_reason of run_escalators, bounded that a bound was reported by  *)
(* the scan, and lost which of the two signals the code dropped after.     *)

Places == {"idle", "destination", "blocklist", "destPolicy", "gate", "extGate",
           "tick", "detect", "escalate", "joining", "structure",
           "policyTest", "policyEval", "emit", "observe", "mode", "transform",
           "post", "answered", "acted", "response"}
Tellings == Actions \cup {"none", "refused", "contract"}

NoVerdict == Plain("allowed", 0, FALSE)
Idle == [at |-> "idle", kind |-> "scan", use |-> "direct", i |-> 1,
         v |-> NoVerdict, args |-> FALSE, base |-> "allowed",
         hit |-> {}, recorded |-> -1, unsent |-> FALSE, told |-> "none",
         rule |-> FALSE, skipped |-> FALSE, bounded |-> FALSE, lost |-> {},
         throughout |-> FALSE, ran |-> FALSE]

NoBox == [status |-> "none", alive |-> FALSE, value |-> NoVerdict]
FreshBox == [status |-> "running", alive |-> TRUE, value |-> NoVerdict]

Init ==
    /\ conf \in Configs
    /\ policy \in Decisions \cup {NoPolicy}
    /\ listed = FALSE /\ call = Idle
    /\ box = NoBox /\ inForce = {}

At(place) == call.at = place
Closed(g) == IsClosed(conf.closed, g)
Step(c) == call' = c /\ UNCHANGED <<conf, box>>
Quiet == UNCHANGED shared
To(place) == [call EXCEPT !.at = place]
Recorded(c, v) == 
    [c EXCEPT !.recorded = IF Severity(v.action) > @ THEN Severity(v.action) ELSE @]

\* Every answer but a scanned verdict's sends its own event, under a guard
\* that swallows a failing enqueue: the answer is told all the same.
Unsent(c) == [c EXCEPT !.recorded = call.recorded,
                       !.unsent = @ \/ c.recorded # call.recorded]
Answer(c) == Step(c) \/ (c.at = "answered" /\ Step(Unsent(c)))

\* _fail_closed_result: send the refusal's event as it is, answer it as the mode
\* allows, and send it through no extension. At the destination check of the
\* HTTP client the refusal is raised instead.
Refused(c, g) ==
    LET v == Refusal(conf.closed, g)
        raised == c.use = "http" /\ c.at \in {"destination", "blocklist", "destPolicy"}
    IN  [Recorded(c, v) EXCEPT
            !.at = "answered", !.v = v, !.hit = @ \cup {g},
            !.told = IF raised THEN "refused" ELSE Downgrade(conf.enforces, v.action)]

\* _extension_failed, _breaker_counter_failed (their once-only logs apart): a
\* closed "controls" group refuses the call, an open one carries on.
ControlFault(onward) ==
    /\ Answer(IF Closed("controls") THEN Refused(call, "controls")
              ELSE [onward EXCEPT !.hit = @ \cup {"controls"}])
    /\ UNCHANGED shared

\* The except clause of every boundary: refuse, or fail open with a signal.
\* Failing open forgets what the scan had noticed before.
Signals == {"controls", "bounds"}
FaultedOpen(c) ==
    [Recorded(c, ScanError) EXCEPT !.at = "answered", !.v = ScanError,
                                   !.told = ScanError.action, !.lost = Signals]
InternalFault ==
    /\ call.at \in {"gate", "extGate", "detect", "structure", "policyTest",
                   "policyEval", "emit", "mode", "transform"}
    /\ Answer(LET c == [call EXCEPT !.hit = @ \cup {"internal"}]
              IN  IF Closed("internal") THEN Refused(c, "internal") ELSE FaultedOpen(c))
    /\ Quiet

\* The next extension's turn, or the step after the last one.
AfterExt(c, turn, done) ==
    IF c.i < Ext THEN [c EXCEPT !.at = turn, !.i = @ + 1]
    ELSE [c EXCEPT !.at = done, !.i = 1]

-----------------------------------------------------------------------------
(* A call begins.                                                          *)

Begin(kind, use) ==
    /\ At("idle")
    /\ use = "wrapper" => kind = "tool_call"
    /\ use = "http" => kind = "a2a"
    /\ call' = [Idle EXCEPT
            !.kind = kind, !.use = use,
            !.at = IF use # "http" THEN "gate"
                   ELSE IF Ext > 0 THEN "destination" ELSE "blocklist",
            !.throughout = listed /\ use # "direct"]
    /\ inForce' = IF kind = "tool_call" THEN {policy} ELSE {}
    /\ UNCHANGED <<conf, policy, listed, box>>

\* ProtectedHttpClient._check_destination, one extension: None, a block, an
\* answer that is not a block (a contract error), or a fault.
DestinationExtension ==
    /\ At("destination")
    /\ \/ Step(AfterExt(call, "destination", "blocklist")) /\ Quiet
       \/ \E a \in Halting :
              Answer([Recorded(call, Plain(a, 2, FALSE)) EXCEPT
                          !.at = "answered", !.told = "refused", !.rule = TRUE])
          /\ Quiet
       \/ Step([To("answered") EXCEPT !.told = "contract"]) /\ Quiet
       \/ ControlFault(AfterExt(call, "destination", "blocklist"))

\* The operator's list and each extension's, computed when it is read.
Listed(byExt) == listed \/ byExt
ListVerdict(hit) ==
    IF hit
    THEN [Recorded(call, Plain("blocked", 2, FALSE)) EXCEPT
              !.at = "answered", !.told = "refused", !.rule = TRUE]
    ELSE To("destPolicy")
DestinationBlocklist ==
    /\ At("blocklist")
    /\ \/ \E byExt \in (IF Ext > 0 THEN BOOLEAN ELSE {FALSE}) :
              Answer(ListVerdict(Listed(byExt)))
          /\ Quiet
       \/ Ext > 0 /\ ControlFault(ListVerdict(Listed(FALSE)))

\* The deny-destination policy: read once, evaluated for each spelling of
\* the host. Any decision but allow and monitor blocks. A request that
\* carries no text is sent without a scan.
PolicyDenial(text) ==
    IF policy \in Halting
    THEN [Recorded(call, Plain("blocked", 2, FALSE)) EXCEPT
              !.at = "answered", !.told = "refused", !.rule = TRUE]
    ELSE To(IF text THEN "gate" ELSE "answered")
DestinationPolicy ==
    /\ At("destPolicy")
    /\ \E text \in BOOLEAN :
          \/ Answer(PolicyDenial(text)) /\ Quiet
          \/ /\ Ext > 0 /\ policy # NoPolicy
             /\ ControlFault(PolicyDenial(text))

\* The except clause of the destination check: refuse, or go on unchecked.
DestinationFault ==
    /\ call.at \in {"destination", "blocklist", "destPolicy"}
    /\ Answer(LET c == [call EXCEPT !.hit = @ \cup {"internal"}]
              IN  IF Closed("internal") THEN Refused(c, "internal")
                  ELSE [c EXCEPT !.at = "gate", !.i = 1])
    /\ Quiet

-----------------------------------------------------------------------------
(* _run_gates: the breaker, then every extension in order.                 *)

Ungated(c) ==
    IF c.kind = "tool_call" \/ c.kind = "a2a" THEN [c EXCEPT !.at = "tick"]
    ELSE [c EXCEPT !.at = "detect"]

PastBreaker == IF Ext > 0 THEN To("extGate") ELSE Ungated(call)

CircuitGate ==
    /\ At("gate")
    /\ \/ Step(PastBreaker) /\ Quiet
       \/ /\ conf.breaker /\ conf.enforces
          /\ Answer([Recorded(call, Plain("blocked", 2, FALSE)) EXCEPT
                         !.at = "answered", !.told = "blocked", !.rule = TRUE])
          /\ Quiet
       \/ /\ conf.breaker /\ conf.enforces
          /\ ControlFault(PastBreaker)

ExtensionGate ==
    /\ At("extGate")
    /\ LET onward == IF call.i < Ext THEN [call EXCEPT !.i = @ + 1]
                     ELSE Ungated([call EXCEPT !.i = 1])
       IN  \/ Step(onward) /\ Quiet
           \/ \E a \in Actions :
                  Answer([Recorded(call, Plain(a, 2, FALSE)) EXCEPT
                              !.at = "answered", !.told = a, !.rule = TRUE])
              /\ Quiet
           \/ ControlFault(onward)

\* _breaker_tool_tick, _breaker_delegation_tick: outbound calls only.
Tick ==
    /\ At("tick")
    /\ \/ Step(To("detect")) /\ Quiet
       \/ conf.breaker /\ ControlFault(To("detect"))

-----------------------------------------------------------------------------
(* Detection.                                                              *)

\* A wrong-typed prompt, message or tool name: recorded, and not scanned.
Unscannable ==
    /\ At("detect")
    /\ \E args \in (IF call.kind = "tool_call" THEN BOOLEAN ELSE {FALSE}) :
          Step([Recorded(call, NotScannable) EXCEPT
                    !.at = "post", !.v = NotScannable, !.args = args, !.bounded = args])
    /\ Quiet

\* LocalScanner.scan: the action follows the band and the mode; a verdict
\* that a mention frame held in the flag band is not escalated.
Scanned(band, bound) ==
    Plain(IF band = 2 /\ conf.enforces THEN "blocked"
          ELSE IF band > 0 THEN "flagged" ELSE "allowed", band, bound)
DetectText ==
    /\ At("detect") /\ call.kind # "tool_call"
    /\ \/ \E band \in Bands, bound, capped \in BOOLEAN :
              /\ bound => band > 0
              /\ Step([call EXCEPT !.v = Scanned(band, bound), !.i = 1, !.bounded = bound,
                         !.at = IF band = 1 /\ ~capped /\ Links > 0 THEN "escalate"
                                ELSE "structure"])
          /\ Quiet
       \/ ControlFault([call EXCEPT !.v = Scanned(0, FALSE), !.at = "structure"])

\* The tool boundary: the blocklist decides first, then the arguments, as
\* the passes over them (ToolScan) found them.
Matches == {<<>>} \cup {<<[rule |-> t, tier |-> t, band |-> b]>> :
                            t \in Tiers, b \in {1, 2}}
Scans == {[danger |-> Danger(first, later),
           mention |-> ProseMention(shellKey, documentary, residueHard),
           secret |-> secret, oversized |-> oversized] :
              first, later \in Matches, secret \in Secrets,
              shellKey, documentary, residueHard, oversized \in BOOLEAN}
DetectedIn == [toolBlocked \in BOOLEAN |-> [enforces \in BOOLEAN |->
                   {ToolVerdict(toolBlocked, s, enforces) : s \in Scans}]]
DetectTool ==
    /\ At("detect") /\ call.kind = "tool_call"
    /\ \E v \in DetectedIn[listed][conf.enforces], args \in BOOLEAN :
          Step([call EXCEPT !.at = "policyTest", !.args = args, !.rule = listed,
                            !.v = v, !.bounded = args])
    /\ Quiet

-----------------------------------------------------------------------------
(* run_escalators: each link runs in a thread of its own and is given a    *)
(* budget; the first answer wins.                                          *)

ConsultLink ==
    /\ At("escalate")
    /\ call' = To("joining") /\ box' = FreshBox
    /\ UNCHANGED <<conf, shared>>

\* The thread stores its answer; it ends a moment later.
Answers == {[Plain(a, b, FALSE) EXCEPT !.escalation = "applied"] :
                a \in Actions, b \in {0, 2}}
Unanswered == NoVerdict
LinkStores ==
    /\ box.status = "running"
    /\ \/ \E v \in Answers \cup {Unanswered} :
              box' = [box EXCEPT !.status = "ok", !.value = v]
       \/ box' = [box EXCEPT !.status = "error"]
       \/ box' = [box EXCEPT !.status = "garbage"]
    /\ UNCHANGED <<conf, shared, call>>

LinkEnds ==
    /\ box.alive /\ box.status # "running"
    /\ box' = [box EXCEPT !.alive = FALSE]
    /\ UNCHANGED <<conf, shared, call>>

\* Behind the last link the local verdict stands, marked if any link of the
\* chain was skipped.
MarkedByLast(c) ==
    [c EXCEPT !.at = "structure", !.i = 1,
              !.v.escalation = IF box.alive \/ box.status = "error" THEN "skipped" ELSE @]
ChainEnds(c) ==
    [c EXCEPT !.at = "structure", !.i = 1,
              !.v.escalation = IF c.skipped THEN "skipped" ELSE @]
NextLink(c) ==
    IF c.i < Links THEN [c EXCEPT !.at = "escalate", !.i = @ + 1] ELSE ChainEnds(c)

\* An answer takes the place of the local verdict, of the bound signals among
\* its rules and of the reason a link before it was skipped.
Applied(c, v) == [c EXCEPT !.at = "structure", !.i = 1, !.v = v, !.lost = Signals]
Skipped(c) == [c EXCEPT !.skipped = TRUE]

LinkJoined ==
    /\ At("joining") /\ ~box.alive
    /\ box' = NoBox
    /\ \/ box.status = "ok" /\ box.value = Unanswered /\ call' = NextLink(call)
       \/ box.status = "ok" /\ box.value # Unanswered /\ call' = Applied(call, box.value)
       \/ box.status = "error" /\ call' = NextLink(Skipped(call))
       \/ /\ box.status = "garbage"
          /\ LET c == [call EXCEPT !.hit = @ \cup {"internal"}]
                 d == IF Closed("internal") THEN Refused(c, "internal") ELSE FaultedOpen(c)
             IN  call' \in {d, Unsent(d)}
    /\ UNCHANGED <<conf, shared>>

\* join() returns with the thread still alive, even if it has just stored.
WaitsForever == FALSE
LinkTimesOut ==
    /\ At("joining") /\ box.alive
    /\ box' = NoBox
    /\ call' = NextLink(Skipped(call))
    /\ UNCHANGED <<conf, shared>>

-----------------------------------------------------------------------------
(* After the local verdict.                                                *)

\* _scan_a2a_impl adds the structural signals and builds the result anew:
\* the escalation of the local scan is not carried over.
Rebuilt(v) == [v EXCEPT !.escalation = "none"]
Structured(v, signal, strong, bound) ==
    IF ~signal THEN Rebuilt(v)
    ELSE [Rebuilt(v) EXCEPT
            !.bound = @ \/ bound,
            !.band = IF strong /\ @ = 0 THEN 1 ELSE @,
            !.action = IF conf.structural = "block" THEN "blocked"
                       ELSE IF @ = "allowed" /\ (strong \/ v.band > 0) THEN "flagged"
                       ELSE @]
Structure ==
    /\ At("structure")
    /\ IF call.kind = "scan" THEN Step(To("emit"))
       ELSE \E signal, strong, bound \in BOOLEAN :
                /\ bound => signal
                /\ Step([To("emit") EXCEPT
                        !.v = Structured(call.v, signal, strong, bound),
                        !.bounded = @ \/ bound,
                        !.lost = (IF bound THEN {} ELSE @) \cup {"controls"}])
    /\ Quiet

\* The tool boundary reads _policy twice: is there one, and which.
PolicyTest ==
    /\ At("policyTest")
    /\ Step(IF policy = NoPolicy THEN [To("emit") EXCEPT !.base = call.v.action]
            ELSE [To("policyEval") EXCEPT !.base = call.v.action])
    /\ Quiet

\* evaluate(None) decides "monitor".
Decision(p) == IF p = NoPolicy THEN "monitor" ELSE p
PolicyAlone(c, p) ==
    [c EXCEPT !.at = "emit", !.v.action = AtSeverity(Severity(Decision(p)))]
UnderPolicy(c, p) ==
    LET d == Decision(p)
        least == CASE d \in Halting -> 2 [] d = "monitor" -> 1 [] OTHER -> 0
    IN  [c EXCEPT !.at = "emit", !.v.action = Compose(@, d),
                  !.v.band = IF least > @ THEN least ELSE @,
                  !.rule = @ \/ d \in Halting]
PolicyEvaluate ==
    /\ At("policyEval")
    /\ \/ Step(UnderPolicy(call, policy)) /\ Quiet
       \/ Ext > 0 /\ ControlFault(UnderPolicy(call, policy))

\* The event carries the true verdict, before mode and extensions.
Emit ==
    /\ At("emit")
    /\ Step([Recorded(call, call.v) EXCEPT !.at = "observe"])
    /\ Quiet

Observe ==
    /\ At("observe")
    /\ \/ Step(To("mode"))
          /\ Quiet
       \/ /\ conf.breaker /\ IsViolation(call.v)
          /\ ControlFault(To("mode"))

ApplyMode ==
    /\ At("mode")
    /\ Step([call EXCEPT !.v.action = Downgrade(conf.enforces, @), !.i = 1,
                        !.base = "allowed",
                        !.at = IF Ext > 0 THEN "transform" ELSE "post"])
    /\ inForce' = {} /\ UNCHANGED <<policy, listed>>

\* transform_verdict returns nothing, a copy of the verdict or a verdict of
\* its own with another action, an unknown action (a fault), or a stricter
\* one (the call raises). The signals are rules and marks of the verdict: one
\* of the extension's own does not have them.
Anything(a) == Actions
Weaker(a) == {b \in Actions : Severity(b) <= Severity(a)}
Copied(c, a) == [c EXCEPT !.v.action = a]
Replaced(c, a) ==
    [c EXCEPT !.v = Plain(a, c.v.band, FALSE),
              !.lost = @ \cup (IF c.args THEN {"controls"} ELSE Signals)]
Transform ==
    /\ At("transform")
    /\ LET onward == AfterExt(call, "transform", "post")
       IN  \/ \E a \in Weaker(call.v.action) :
                  (Step(Copied(onward, a)) \/ Step(Replaced(onward, a))) /\ Quiet
           \/ /\ call.v.action # "blocked"
              /\ Step([To("answered") EXCEPT !.told = "contract"]) /\ Quiet
           \/ ControlFault(onward)

\* _post_scan_gate: the two groups decided from the verdict.
BoundsOnly(c) ==
    IF Closed("bounds") /\ ~MustHalt(c.v) /\ (c.v.bound \/ c.args)
    THEN Refused(c, "bounds")
    ELSE [c EXCEPT !.at = "answered", !.told = c.v.action]
GateAfter(c) ==
    IF Closed("controls") /\ c.v.escalation = "skipped" THEN Refused(c, "controls")
    ELSE IF Closed("bounds") /\ ~MustHalt(c.v) /\ (c.v.bound \/ c.args)
         THEN Refused(c, "bounds")
         ELSE [c EXCEPT !.at = "answered", !.told = c.v.action]
PostGate ==
    /\ At("post")
    /\ Answer(GateAfter(call))
    /\ Quiet

-----------------------------------------------------------------------------
(* What the host does with the answer.                                     *)

\* tool_verdict in protect_tools: the blocklist is read again, then both
\* halting actions refuse; a contract error propagates.
RunsUnlessTold(c) == c.told \notin Halting \cup {"contract", "refused"}
RunsTool(c) == ~listed /\ c.told \notin Halting \cup {"contract", "refused"}

\* _scan_request: only "blocked" stops the request.
SendsRequest(c) == c.told \notin {"blocked", "contract", "refused"}

HostActs ==
    /\ At("answered")
    /\ Step([To("acted") EXCEPT !.ran =
            \/ call.use = "wrapper" /\ RunsTool(call)
            \/ call.use = "http" /\ SendsRequest(call)])
    /\ Quiet

\* A response with text is scanned as output.
HostRests ==
    /\ At("acted")
    /\ Step(IF call.use = "http" /\ call.ran THEN [Idle EXCEPT !.at = "response"] ELSE Idle)
    /\ UNCHANGED <<policy, listed>> /\ inForce' = {}

ScanResponse ==
    /\ At("response")
    /\ \/ Step([Idle EXCEPT !.at = "gate", !.use = "response"])
       \/ Step(Idle)
    /\ Quiet

-----------------------------------------------------------------------------
(* The operator's threads.                                                 *)

\* adopt_policy parses before it swaps: a refused policy changes nothing.
SetPolicy ==
    /\ policy' \in Decisions \cup {NoPolicy}
    /\ inForce' = IF inForce = {} THEN {} ELSE inForce \cup {policy'}
    /\ UNCHANGED <<conf, listed, call, box>>

\* block_tools and block_urls, unblock_tools and unblock_urls.
Block ==
    /\ listed' = TRUE
    /\ UNCHANGED <<conf, policy, inForce, call, box>>
Unblock ==
    /\ listed' = FALSE
    /\ call' = [call EXCEPT !.throughout = FALSE]
    /\ UNCHANGED <<conf, policy, inForce, box>>

Operator == SetPolicy \/ Block \/ Unblock

-----------------------------------------------------------------------------
CallStep ==
    \/ DestinationExtension \/ DestinationBlocklist \/ DestinationPolicy
    \/ DestinationFault \/ CircuitGate \/ ExtensionGate \/ Tick \/ Unscannable
    \/ DetectText \/ DetectTool \/ ConsultLink \/ LinkJoined \/ LinkTimesOut
    \/ Structure \/ PolicyTest \/ PolicyEvaluate \/ Emit \/ Observe \/ ApplyMode
    \/ Transform \/ PostGate \/ InternalFault \/ HostActs \/ HostRests

Next ==
    \/ \E kind \in Kinds, use \in Uses : Begin(kind, use)
    \/ ScanResponse \/ CallStep
    \/ LinkStores \/ LinkEnds
    \/ Operator

\* The calling thread is scheduled; escalators and operators owe nothing.
Spec == Init /\ [][Next]_vars /\ WF_vars(CallStep)

-----------------------------------------------------------------------------
TypeOK ==
    /\ conf \in Configs
    /\ policy \in Decisions \cup {NoPolicy}
    /\ inForce \subseteq Decisions \cup {NoPolicy}
    /\ listed \in BOOLEAN
    /\ call.at \in Places /\ call.v \in Verdict /\ call.told \in Tellings
    /\ call.recorded \in -1..3 /\ call.i \in 1..Ext \cup 1..Links \cup {1}
    /\ call.hit \subseteq Groups
    /\ box.status \in {"none", "running", "ok", "error", "garbage"}

\* Telemetry recorded a verdict at least as strict as the one the host was
\* told: no mode and no extension makes a verdict stricter behind the record's
\* back. Only an answer that sends its own event can go unrecorded, when that
\* event could not be enqueued: a refusal, a scan that failed open, and the
\* rule of a gate, list or policy. A verdict of a scan never does.
Owed(told) == IF told = "refused" THEN 2 ELSE Severity(told)
AnswersAreRecorded ==
    /\ (At("answered") /\ call.told \in Actions \cup {"refused"}) =>
           call.recorded >= Owed(call.told) \/ call.unsent
    /\ call.unsent => call.rule \/ call.v.status \in {"fail_closed", "scan_error"}

\* A tool or a URL that the operator kept blocked during the whole call is
\* never run or requested, in either mode, unless the destination check
\* itself faulted and the posture leaves internal faults open.
BlockedNeverRuns ==
    (call.ran /\ call.throughout) => call.use = "http" /\ "internal" \in call.hit

\* A tool verdict is at least as strict as detection under one of the
\* policies in force during the call, however set_policy interleaves.
DecidedUnderAPolicy ==
    (At("observe") /\ call.kind = "tool_call") =>
        \E p \in inForce :
            Severity(call.v.action) >=
                Severity(Compose(call.base, IF p = NoPolicy THEN "allowed" ELSE p))

\* "Failure is visible, never silent" (escalation.py): when a link could not
\* answer, the answer of the scan says so, as a skipped escalation or as a
\* refusal, whatever the rest of the chain, the mode and the extensions do.
\* The mark is lost in four ways only: a later link answers, an A2A scan
\* rebuilds its result, an extension answers in transform_verdict with a
\* verdict of its own, and a later internal fault fails open.
SkippedIsTold ==
    (At("answered") /\ call.skipped /\ "controls" \notin call.lost) =>
        call.v.escalation = "skipped" \/ call.v.status = "fail_closed"

\* Whatever escalators do, the host gets an answer.
EveryCallAnswered == (call.at \notin {"idle", "response"}) ~> At("acted")

\* The boundary's promise (Boundary) covers every fault of the call, and every
\* signal of the scan that the code has not lost on the way. A lost signal
\* (README, Divergences) is one of: a skipped link in an A2A scan; a bound of
\* the local verdict or a link skipped before, when another link answered;
\* either, when an extension's transform answered with a verdict of its own;
\* and either, when an open internal fault came after it and the scan failed
\* open.
Noticed == {g \in Signals : IF g = "controls" THEN call.skipped ELSE call.bounded}
Heard == call.hit \cup (Noticed \ call.lost)
Stage == CASE call.at \in {"idle", "response"} -> "idle"
           [] call.at \in {"answered", "acted"} -> "answered"
           [] OTHER -> "asked"
Told == IF Stage # "answered" THEN "pass"
        ELSE IF call.told \in Halting THEN "halt"
        ELSE IF call.told \in {"refused", "contract"} THEN "raise" ELSE "pass"
Promise == INSTANCE Boundary WITH
    stage <- Stage, enforces <- conf.enforces,
    closed <- {g \in Groups : Closed(g)},
    hit <- IF Stage = "answered" THEN Heard ELSE call.hit,
    told <- Told, asked <- Stage = "answered" /\ call.rule
KeepsPromise == Promise!Spec
===============================================================================
