----------------------------- MODULE Sensor_proofs -----------------------------
(***************************************************************************)
(* Proofs about Sensor: its four safety invariants, and that it keeps the  *)
(* promise of Boundary, for any number of extensions and links, any set of *)
(* postures and any set of policy decisions.                               *)
(*                                                                         *)
(* The inductive invariant says what is owed at each place of the code:    *)
(*   Recording   what the record already covers,                           *)
(*   Blocking    how a call to something kept blocked got where it is,     *)
(*   Deciding    which policies the verdict answers for,                   *)
(*   Promising   which faults are still open, what a skipped link and a    *)
(*               bound left on the verdict, and which answers may be told  *)
(*               without their event,                                      *)
(* about the call, and Context and Waiting about the operator's state and  *)
(* the box.  None of the invariants is inductive without it: at "post" the *)
(* record must cover a verdict not yet told, and between the two reads of  *)
(* _policy the verdict must still be the one detection gave.               *)
(*                                                                         *)
(* Each action has a lemma that the call it leaves is good (Good), and one *)
(* that it carries on, faults once or answers (Moves), which the mapping   *)
(* to Boundary needs.                                                      *)
(***************************************************************************)
EXTENDS Sensor, TLAPS

-----------------------------------------------------------------------------
(* The types.  The band a tool scan reaches is left as the scan computes   *)
(* it: it is a fold over sequences, and no property depends on its value.  *)

AllBands == Bands \cup {ToolBand(s) : s \in Scans}
VerdictType == [action: Actions, band: AllBands, bound: BOOLEAN,
                escalation: Escalations, status: Statuses]
CallType == [at: Places, kind: Kinds, use: Uses \cup {"response"}, i: Int,
             v: VerdictType, args: BOOLEAN, base: Actions, hit: SUBSET Groups,
             recorded: Int, unsent: BOOLEAN, told: Tellings, rule: BOOLEAN,
             skipped: BOOLEAN, bounded: BOOLEAN, lost: SUBSET Signals,
             throughout: BOOLEAN, ran: BOOLEAN]
BoxType == [status: {"none", "running", "ok", "error", "garbage"}, alive: BOOLEAN,
            value: VerdictType]

(* Where a call is: at rest, in a check or gate before detection, with the *)
(* escalators, between the two reads of _policy, after its event, or told. *)

Resting == {"idle", "response"}
Sending == {"destination", "blocklist", "destPolicy"}
Gating == {"gate", "extGate", "tick", "detect"}
Escalating == {"escalate", "joining", "structure"}
Evaluating == {"policyTest", "policyEval"}
Finishing == {"observe", "mode", "transform", "post"}
Done == {"answered", "acted"}
Asking == Places \ (Resting \cup Done)

-----------------------------------------------------------------------------
(* The inductive invariant.                                                *)

\* From its event on, the record covers the verdict and then the answer,
\* unless the answer's own event failed.
Recording(c) ==
    /\ c.at \in Finishing => c.recorded >= Severity(c.v.action)
    /\ c.at = "answered" /\ c.told \in Actions \cup {"refused"} =>
          c.recorded >= Owed(c.told) \/ c.unsent

\* A URL kept listed leaves the destination check refused, or by its fault.
Turned(c) == c.told \in {"refused", "contract"}
Blocking(c) ==
    /\ c.at \in Sending => c.use = "http"
    /\ c.throughout => listed /\ c.use \in {"wrapper", "http"}
    /\ c.throughout /\ c.use = "http" /\ c.at \notin {"destination", "blocklist"} =>
          "internal" \in c.hit \/ (c.at \in Done /\ Turned(c))
    /\ c.ran => c.at = "acted"
    /\ c.ran /\ c.throughout => c.use = "http" /\ "internal" \in c.hit

\* A tool call has a policy in force from its start to its mode, and its
\* verdict is that of detection until a policy raised it.
AtLeast(c, p) ==
    Severity(c.v.action) >= Severity(Compose(c.base, IF p = NoPolicy THEN "allowed" ELSE p))
Deciding(c) ==
    /\ c.kind = "tool_call" /\ c.at \in Asking \ {"transform", "post"} => inForce # {}
    /\ c.at \in Evaluating => c.kind = "tool_call"
    /\ c.at \in Escalating => c.kind # "tool_call"
    /\ c.at = "policyEval" => c.base = c.v.action
    /\ c.at \in {"emit", "observe"} /\ c.kind = "tool_call" => \E p \in inForce : AtLeast(c, p)

\* An open call was hit only by faults of open groups; a skipped link (once
\* the chain has ended) and a bound mark the verdict, unless the mark was
\* lost, until the gate after the scan reads it.
Unsendable == {"fail_closed", "scan_error"}
HeardOf(c) == c.hit \cup ({g \in Signals : IF g = "controls" THEN c.skipped ELSE c.bounded}
                          \ c.lost)
Promised(c) ==
    /\ conf.enforces /\ (\E g \in HeardOf(c) : Closed(g)) => c.told \in Halting \/ Turned(c)
    /\ ~conf.enforces /\ c.told \in Halting => c.rule
    /\ c.unsent => c.rule \/ c.v.status \in Unsendable
    /\ c.skipped /\ "controls" \notin c.lost =>
          c.v.escalation = "skipped" \/ c.v.status = "fail_closed"
Promising(c) ==
    /\ c.at \in Resting => c.hit = {}
    /\ c.at \in Resting \cup Asking => c.told = "none" /\ ~c.unsent
    /\ c.at \in Asking => \A g \in c.hit : ~Closed(g)
    /\ c.at \in Resting \cup Sending \cup Gating => ~c.skipped /\ ~c.bounded
    /\ c.skipped /\ "controls" \notin c.lost /\ c.at \in Asking \ {"escalate", "joining"} =>
          c.v.escalation = "skipped"
    /\ c.bounded /\ "bounds" \notin c.lost /\ c.at \in Asking => c.v.bound \/ c.args
    /\ c.at \in {"transform", "post"} /\ ~conf.enforces => c.v.action \notin Halting
    /\ c.at \in Done => Promised(c)

Good(c) == c \in CallType /\ Recording(c) /\ Blocking(c) /\ Deciding(c) /\ Promising(c)

\* The current policy is one of those in force for a call that has any.
Context ==
    /\ conf \in Configs
    /\ policy \in Decisions \cup {NoPolicy}
    /\ listed \in BOOLEAN
    /\ inForce \subseteq Decisions \cup {NoPolicy}
    /\ inForce # {} => policy \in inForce
    /\ box \in BoxType

Inv == Context /\ Good(call)

\* The caller waits on a box in use, and a thread that has not stored its
\* answer is alive.
Waiting ==
    /\ call.at = "joining" => box.status # "none"
    /\ box.status = "running" => box.alive

-----------------------------------------------------------------------------
(* Verdicts and severities.                                                *)

\* The severities of the five actions the sensor answers with.
LEMMA SeverityOf ==
    /\ Severity("allowed") = 0 /\ Severity("flagged") = 1 /\ Severity("monitor") = 1
    /\ Severity("approval_required") = 2 /\ Severity("blocked") = 3
BY DEF Severity

\* A posture names a halting verdict for every group it closes.
LEMMA ConfType ==
    ASSUME conf \in Configs
    PROVE  /\ conf.enforces \in BOOLEAN
           /\ conf.structural \in {"flag", "block"}
           /\ \A g \in Groups : conf.closed[g] \in Halting \cup {"open"}
<1>1. conf.enforces \in BOOLEAN /\ conf.closed \in Postures /\ conf.structural \in {"flag", "block"}
  BY ConstAssumption
<1>2. PICK request \in Requests : conf.closed = Resolved(request)
  BY <1>1 DEF Postures
<1>3. PICK closing \in SUBSET Groups : request \in [closing -> Halting]
  BY <1>2 DEF Requests
<1>4. QED BY <1>1, <1>2, <1>3 DEF Resolved

\* The three bands of a scan are bands of a verdict.
LEMMA BandOK == 0 \in AllBands /\ 1 \in AllBands /\ 2 \in AllBands
BY DEF AllBands, Bands

\* A plain verdict has the parts it is built from.
LEMMA PlainType ==
    ASSUME NEW a \in Actions, NEW b \in AllBands, NEW bound \in BOOLEAN
    PROVE  /\ Plain(a, b, bound) \in VerdictType
           /\ Plain(a, b, bound).action = a
           /\ Plain(a, b, bound).escalation = "none"
           /\ Plain(a, b, bound).status = "ok"
           /\ Plain(a, b, bound).bound = bound
BY DEF Plain, VerdictType, Escalations, Statuses

\* The verdicts of a fault and of an unscannable call pass, with a status.
LEMMA SignalType ==
    /\ NoVerdict \in VerdictType /\ NoVerdict.action = "allowed"
    /\ ScanError \in VerdictType /\ ScanError.action = "allowed" /\ ScanError.status = "scan_error"
    /\ NotScannable \in VerdictType /\ NotScannable.action = "allowed"
<1> DEFINE p == Plain("allowed", 0, FALSE)
<1>1. p \in VerdictType /\ p.action = "allowed"
  BY PlainType, BandOK DEF Actions
<1> HIDE DEF p
<1>2. NoVerdict = p /\ ScanError = [p EXCEPT !.status = "scan_error"]
      /\ NotScannable = [p EXCEPT !.status = "not_scannable"]
  BY DEF p, NoVerdict, ScanError, NotScannable
<1>3. QED BY <1>1, <1>2 DEF VerdictType, Statuses

\* Enqueuing a verdict only raises the strictest verdict on record.
LEMMA RecordedType ==
    ASSUME NEW c \in CallType, NEW v \in VerdictType
    PROVE  /\ Recorded(c, v) \in CallType
           /\ Recorded(c, v) = [c EXCEPT !.recorded = Recorded(c, v).recorded]
           /\ Recorded(c, v).recorded >= Severity(v.action)
           /\ Recorded(c, v).recorded >= c.recorded
<1>1. v.action \in Actions
  BY DEF VerdictType
<1>2. Severity(v.action) \in Int
  BY <1>1, SeverityOf DEF Actions
<1>3. PICK n \in Int : Recorded(c, v) = [c EXCEPT !.recorded = n]
                       /\ n >= Severity(v.action) /\ n >= c.recorded
  BY <1>2 DEF Recorded, CallType
<1>4. QED BY <1>3 DEF CallType

-----------------------------------------------------------------------------
(* Faults, in any step.                                                    *)

\* An answer that may be told without its event: it sends none, or sends it
\* under the guard that swallows a failing enqueue.
Excused(c) ==
    c.at = "answered" => \/ c.recorded = call.recorded
                         \/ c.rule
                         \/ c.v.status \in Unsendable

\* Such an answer is good without it,
LEMMA UnsentGood ==
    ASSUME call \in CallType, NEW c, Good(c), c.at = "answered", Excused(c)
    PROVE  Good(Unsent(c))
<1>1. c \in CallType /\ Recording(c) /\ Blocking(c) /\ Deciding(c) /\ Promising(c)
  BY DEF Good
<1> DEFINE n == call.recorded
           u == c.unsent \/ c.recorded # n
           d == [c EXCEPT !.recorded = n, !.unsent = u]
<1>2. Unsent(c) = d
  BY <1>1 DEF Unsent, CallType
<1>3. n \in Int /\ u \in BOOLEAN
  BY DEF CallType
<1>4. u => c.unsent \/ c.rule \/ c.v.status \in Unsendable
  BY DEF Excused
<1>5. c.recorded # n => u
  OBVIOUS
<1>6. c.unsent => u
  OBVIOUS
<1> HIDE DEF n, u
<1>7. /\ d \in CallType /\ d.at = "answered" /\ d.recorded = n /\ d.unsent = u
      /\ d.told = c.told /\ d.v = c.v /\ d.rule = c.rule /\ d.use = c.use /\ d.kind = c.kind
      /\ d.throughout = c.throughout /\ d.hit = c.hit /\ d.ran = c.ran /\ d.args = c.args
      /\ d.skipped = c.skipped /\ d.bounded = c.bounded /\ d.lost = c.lost /\ d.base = c.base
  BY <1>1, <1>3 DEF CallType
<1> HIDE DEF d
<1>8. Recording(d)
  BY <1>1, <1>5, <1>6, <1>7 DEF Recording, Finishing
<1>9. Blocking(d)
  BY <1>1, <1>7 DEF Blocking, Turned
<1>10. Deciding(d)
  BY <1>7 DEF Deciding, Asking, Done, Evaluating, Escalating
<1>11. Promising(d)
  <2>1. Promised(c)
    BY <1>1 DEF Promising, Done
  <2>2. HeardOf(d) = HeardOf(c)
    BY <1>7 DEF HeardOf
  <2>3. Promised(d)
    BY <1>4, <1>7, <2>1, <2>2 DEF Promised, Turned
  <2>4. QED BY <1>7, <2>3 DEF Promising, Resting, Asking, Done, Sending, Gating
<1>12. QED BY <1>2, <1>7, <1>8, <1>9, <1>10, <1>11 DEF Good

\* so a step that answers is good either way.
LEMMA AnswerGood ==
    ASSUME call \in CallType, NEW c, Good(c), Excused(c), Answer(c)
    PROVE  Good(call')
<1>1. CASE Step(c)
  BY <1>1 DEF Step
<1>2. CASE c.at = "answered" /\ Step(Unsent(c))
  <2>1. Good(Unsent(c))
    BY <1>2, UnsentGood
  <2>2. QED BY <1>2, <2>1 DEF Step
<1>3. QED BY <1>1, <1>2 DEF Answer

\* _fail_closed_result answers with what it recorded, in either mode.
LEMMA RefusedGood ==
    ASSUME Context, NEW c \in CallType, NEW g \in Groups, Closed(g),
           c.at \in Asking, Blocking(c)
    PROVE  Good(Refused(c, g)) /\ Excused(Refused(c, g))
<1> USE SeverityOf, ConfType
<1>1. conf.closed[g] \in Halting
  BY DEF Closed, IsClosed, Context
<1> DEFINE d == Refused(c, g)
<1>2. d \in CallType
  <2> DEFINE v == Refusal(conf.closed, g)
  <2>1. v \in VerdictType /\ v.action \in Halting
    BY <1>1 DEF Refusal, VerdictType, Actions, Halting, AllBands, Bands, Escalations, Statuses
  <2>3. Downgrade(conf.enforces, v.action) \in Tellings
    BY <2>1 DEF Downgrade, Tellings, Actions, Halting
  <2> HIDE DEF v
  <2>4. Recorded(c, v) \in CallType
    BY <2>1, RecordedType
  <2> DEFINE told == IF c.use = "http" /\ c.at \in {"destination", "blocklist", "destPolicy"}
                     THEN "refused" ELSE Downgrade(conf.enforces, v.action)
  <2>5. told \in Tellings
    BY <2>3 DEF Tellings
  <2>6. d = [Recorded(c, v) EXCEPT !.at = "answered", !.v = v, !.hit = @ \cup {g}, !.told = told]
    BY DEF Refused, v
  <2> HIDE DEF told, d
  <2>7. QED BY <2>1, <2>4, <2>5, <2>6 DEF CallType, Places
<1>3. Recording(d)
  BY <1>1 DEF Refused, Recorded, Refusal, CallType, VerdictType, Downgrade, Context, Actions,
     Halting, Recording, Finishing, Owed
<1>4. Blocking(d)
  BY <1>1 DEF Refused, Recorded, Refusal, CallType, VerdictType, Downgrade, Context, Actions,
     Halting, Blocking, Turned, Asking, Done, Sending
<1>5. Deciding(d)
  BY <1>1 DEF Refused, Recorded, Refusal, CallType, VerdictType, Downgrade, Context, Actions,
     Halting, Deciding, Asking, Done, Evaluating, Escalating
<1>6. Promising(d)
  BY <1>1 DEF Refused, Recorded, Refusal, CallType, VerdictType, Downgrade, Context, Actions,
     Halting, Promising, Asking, Done, Evaluating, Escalating, Resting, Sending, Gating, Promised, HeardOf, Turned,
     Unsendable
<1>7. Excused(d)
  BY DEF Refused, Recorded, Refusal, CallType, Excused, Unsendable
<1>8. QED BY <1>2, <1>3, <1>4, <1>5, <1>6, <1>7 DEF Good

\* Failing open answers "allowed": good when no closed group was hit.
LEMMA FaultedOpenGood ==
    ASSUME Context, NEW c \in CallType, c.at \in Asking \ Sending, Blocking(c),
           \A g \in c.hit : ~Closed(g)
    PROVE  Good(FaultedOpen(c)) /\ Excused(FaultedOpen(c))
<1> USE SeverityOf, ConfType
<1> DEFINE d == FaultedOpen(c)
<1>1. ScanError \in VerdictType /\ ScanError.action = "allowed" /\ ScanError.status = "scan_error"
  BY SignalType
<1>2. Recorded(c, ScanError) \in CallType
  BY <1>1, RecordedType
<1>3. d \in CallType
  <2>1. d = [Recorded(c, ScanError) EXCEPT !.at = "answered", !.v = ScanError, !.told = "allowed",
                                           !.lost = Signals]
    BY <1>1 DEF FaultedOpen
  <2> HIDE DEF d
  <2>2. "answered" \in Places /\ "allowed" \in Tellings
    BY DEF Places, Tellings, Actions
  <2>3. PICK r \in CallType, v \in VerdictType :
            d = [r EXCEPT !.at = "answered", !.v = v, !.told = "allowed", !.lost = Signals]
    BY <1>1, <1>2, <2>1
  <2>4. QED BY <2>2, <2>3 DEF CallType
<1>4. Recording(d)
  BY <1>1 DEF FaultedOpen, Recorded, CallType, Recording, Finishing, Owed
<1>5. Blocking(d)
  BY <1>1 DEF FaultedOpen, Recorded, CallType, Blocking, Turned, Asking, Resting, Done, Sending
<1>6. Deciding(d)
  BY <1>1 DEF FaultedOpen, Recorded, CallType, Deciding, Asking, Done, Evaluating, Escalating
<1>7. Promising(d)
  BY <1>1 DEF FaultedOpen, Recorded, CallType, Promising, Asking, Done, Resting, Sending, Gating,
              Promised, HeardOf, Turned, Halting, Unsendable, Signals
<1>8. Excused(d)
  BY <1>1 DEF FaultedOpen, Recorded, CallType, Excused, Unsendable
<1>9. QED BY <1>3, <1>4, <1>5, <1>6, <1>7, <1>8 DEF Good

\* A fault of an open group changes nothing else of the call.
LEMMA HitGood ==
    ASSUME Context, NEW c, Good(c), NEW g \in Groups, ~Closed(g), c.at \notin Resting
    PROVE  /\ Good([c EXCEPT !.hit = @ \cup {g}])
           /\ Excused(c) => Excused([c EXCEPT !.hit = @ \cup {g}])
<1> DEFINE d == [c EXCEPT !.hit = @ \cup {g}]
<1>1. c \in CallType
  BY DEF Good
<1>2. d \in CallType
  BY <1>1 DEF CallType
<1>3. Recording(d)
  BY <1>1 DEF Good, CallType, Recording
<1>4. Blocking(d)
  BY <1>1 DEF Good, CallType, Blocking, Turned
<1>5. Deciding(d)
  BY <1>1 DEF Good, CallType, Deciding, AtLeast
<1>6. Promising(d)
  BY <1>1 DEF Good, CallType, Promising, Promised, HeardOf, Turned
<1>7. Excused(c) => Excused(d)
  BY <1>1 DEF CallType, Excused
<1>8. QED BY <1>2, <1>3, <1>4, <1>5, <1>6, <1>7 DEF Good

\* A fault of an extension or of the breaker refuses, or carries on as the
\* step would have without it.
LEMMA ControlFaultGood ==
    ASSUME Inv, call.at \in Asking, NEW c, Good(c), Excused(c), c.at \notin Resting, ControlFault(c)
    PROVE  Good(call')
<1>1. "controls" \in Groups /\ call \in CallType
  BY DEF Groups, Inv, Good
<1>2. CASE Closed("controls")
  <2>1. Good(Refused(call, "controls")) /\ Excused(Refused(call, "controls"))
    BY <1>1, <1>2, RefusedGood DEF Inv, Good
  <2>2. Answer(Refused(call, "controls"))
    BY <1>2 DEF ControlFault
  <2>3. QED BY <1>1, <2>1, <2>2, AnswerGood
<1>3. CASE ~Closed("controls")
  <2> DEFINE d == [c EXCEPT !.hit = @ \cup {"controls"}]
  <2>1. Good(d) /\ Excused(d)
    BY <1>1, <1>3, HitGood DEF Inv
  <2>2. Answer(d)
    BY <1>3 DEF ControlFault
  <2> HIDE DEF d
  <2>3. QED BY <1>1, <2>1, <2>2, AnswerGood
<1>4. QED BY <1>2, <1>3

\* The except clause of every boundary.
LEMMA InternalFaultGood ==
    ASSUME Inv, InternalFault
    PROVE  Good(call')
<1> DEFINE c == [call EXCEPT !.hit = @ \cup {"internal"}]
<1>1. "internal" \in Groups /\ call \in CallType
  BY DEF Groups, Inv, Good
<1>2. c \in CallType /\ c.at \in Asking \ Sending
  BY <1>1 DEF InternalFault, CallType, Asking, Places, Resting, Done, Sending
<1>3. Blocking(c)
  BY <1>1 DEF Inv, Good, Blocking, Turned, CallType
<1> DEFINE d == IF Closed("internal") THEN Refused(c, "internal") ELSE FaultedOpen(c)
<1>4. Closed("internal") => Good(d) /\ Excused(d)
  BY <1>1, <1>2, <1>3, RefusedGood DEF Inv
<1>5. ASSUME ~Closed("internal") PROVE Good(d) /\ Excused(d)
  <2>1. \A g \in c.hit : ~Closed(g)
    BY <1>1, <1>2, <1>5 DEF Inv, Good, Promising, CallType
  <2>2. QED BY <1>2, <1>3, <1>5, <2>1, FaultedOpenGood DEF Inv
<1>6. Good(d) /\ Excused(d)
  BY <1>4, <1>5
<1>7. Answer(d)
  BY DEF InternalFault
<1> HIDE DEF d
<1>8. QED BY <1>1, <1>6, <1>7, AnswerGood

-----------------------------------------------------------------------------
(* The checks and gates before detection.                                  *)

\* What every onward step has to show.
LEMMA BeginGood ==
    ASSUME Inv, NEW kind \in Kinds, NEW use \in Uses, Begin(kind, use)
    PROVE  Inv'
<1> USE SeverityOf, ConfType
<1>1. Idle \in CallType
  BY SignalType DEF Idle, CallType, Places, Uses, Kinds, Actions, Tellings
<1>2. call' \in CallType
  <2> DEFINE at == IF use # "http" THEN "gate" ELSE IF Ext > 0 THEN "destination" ELSE "blocklist"
  <2>1. at \in Places
    BY DEF Places
  <2>2. (listed /\ use # "direct") \in BOOLEAN
    OBVIOUS
  <2>3. call' = [Idle EXCEPT !.kind = kind, !.use = use, !.at = at,
                            !.throughout = listed /\ use # "direct"]
    BY Zenon DEF Begin
  <2> HIDE DEF at
  <2>4. QED BY <1>1, <2>1, <2>2, <2>3 DEF CallType
<1>3. Context'
  BY DEF Inv, Begin, Context
<1>4. Recording(call)'
  BY DEF Begin, Idle, Recording, Finishing, Actions
<1>5. Blocking(call)'
  BY DEF Begin, Idle, Blocking, Sending, Uses, Inv, Context, Done, Turned
<1>6. Deciding(call)'
  BY DEF Begin, Idle, Deciding, Evaluating, Escalating
<1>7. Promising(call)'
  BY DEF Begin, Idle, Promising, Asking, Resting, Done, Sending, Gating
<1>8. QED BY <1>2, <1>3, <1>4, <1>5, <1>6, <1>7 DEF Inv, Good

Moved(c, p, n) == [c EXCEPT !.at = p, !.i = n]

\* Moving a call keeps its type.
LEMMA MovedType ==
    ASSUME NEW c \in CallType, NEW p \in Places, NEW n \in Int
    PROVE  Moved(c, p, n) \in CallType
BY DEF Moved, CallType

\* A step through the checks and gates before detection.
LEMMA OnwardGood ==
    ASSUME Inv, call.at \in Sending \cup Gating,
           NEW p \in Sending \cup Gating, NEW n \in Int,
           p \in Sending => call.at \in Sending,
           \/ p \in {"destination", "blocklist"}
           \/ call.at \notin {"destination", "blocklist"}
           \/ ~call.throughout
    PROVE  Good(Moved(call, p, n)) /\ Excused(Moved(call, p, n))
<1> USE DEF Moved, Sending, Gating
<1>1. call \in CallType /\ Blocking(call) /\ Deciding(call) /\ Promising(call)
  BY DEF Inv, Good
<1> DEFINE d == Moved(call, p, n)
<1>2. d \in CallType
  BY <1>1 DEF CallType, Places
<1>3. Recording(d)
  BY <1>1 DEF CallType, Recording, Finishing
<1>4. Blocking(d)
  BY <1>1 DEF CallType, Blocking, Done, Turned
<1>5. Deciding(d)
  BY <1>1 DEF CallType, Deciding, Asking, Places, Resting, Done, Evaluating, Escalating
<1>6. Promising(d)
  BY <1>1 DEF CallType, Promising, Asking, Places, Resting, Done
<1>7. Excused(d)
  BY <1>1 DEF CallType, Excused
<1>8. QED BY <1>2, <1>3, <1>4, <1>5, <1>6, <1>7 DEF Good

Ruled(c, v, told) == [Recorded(c, v) EXCEPT !.at = "answered", !.told = told, !.rule = TRUE]

\* An operator's own rule answers the call before detection.
LEMMA RuledGood ==
    ASSUME Inv, call.at \in Sending \cup Gating,
           NEW v \in VerdictType, NEW told \in Tellings,
           told \in Actions \cup {"refused"} => Owed(told) <= Severity(v.action),
           told = "refused" \/ call.at \notin Sending
    PROVE  Good(Ruled(call, v, told)) /\ Excused(Ruled(call, v, told))
<1> USE DEF Ruled, Sending, Gating
<1>1. call \in CallType /\ Blocking(call) /\ Deciding(call) /\ Promising(call)
  BY DEF Inv, Good
<1> DEFINE r == Recorded(call, v)
           d == [r EXCEPT !.at = "answered", !.told = told, !.rule = TRUE]
<1>2. r \in CallType /\ r = [call EXCEPT !.recorded = r.recorded]
      /\ r.recorded >= Severity(v.action)
  BY <1>1, RecordedType
<1> HIDE DEF r
<1>3. d \in CallType
  BY <1>2 DEF CallType, Places
<1>4. Recording(d)
  <2>1. d.recorded = r.recorded /\ d.at = "answered" /\ d.told = told
    BY <1>2 DEF CallType
  <2>2. Severity(v.action) \in Int /\ (told \in Actions \cup {"refused"} => Owed(told) \in Int)
    BY SeverityOf DEF VerdictType, Actions, Owed
  <2>3. QED BY <2>1, <2>2, <1>2 DEF CallType, Recording, Finishing
<1>5. Blocking(d)
  BY <1>1, <1>2 DEF CallType, Blocking, Done, Turned
<1>6. Deciding(d)
  BY <1>1, <1>2 DEF CallType, Deciding, Asking, Places, Resting, Done, Evaluating, Escalating
<1>7. Promising(d)
  BY <1>1, <1>2 DEF CallType, Promising, Asking, Places, Resting, Done, Promised, HeardOf
<1>8. Excused(d)
  BY <1>2 DEF CallType, Excused
<1>9. QED BY <1>3, <1>4, <1>5, <1>6, <1>7, <1>8 DEF Good, r

\* Past an extension the call waits for the next one or leaves the loop.
LEMMA AfterExtShape ==
    ASSUME NEW c \in CallType, NEW turn, NEW done
    PROVE  \E n \in Int : \/ AfterExt(c, turn, done) = Moved(c, turn, n)
                         \/ AfterExt(c, turn, done) = Moved(c, done, n)
<1>1. c.i + 1 \in Int /\ 1 \in Int
  BY DEF CallType
<1>2. CASE c.i < Ext
  BY <1>1, <1>2 DEF AfterExt, CallType, Moved
<1>3. CASE ~(c.i < Ext)
  BY <1>1, <1>3 DEF AfterExt, CallType, Moved
<1>4. QED BY <1>2, <1>3

\* The destination check asks an extension.
LEMMA DestinationExtensionGood ==
    ASSUME Inv, DestinationExtension
    PROVE  Good(call')
<1>1. call \in CallType /\ call.at = "destination" /\ call.at \in Sending
  BY DEF Inv, Good, DestinationExtension, At, Sending
<1> DEFINE onward == AfterExt(call, "destination", "blocklist")
<1>2. /\ Good(onward)
      /\ Excused(onward)
      /\ onward.at \notin Resting
  <2>1. PICK n \in Int : \/ onward = Moved(call, "destination", n)
                         \/ onward = Moved(call, "blocklist", n)
    BY <1>1, AfterExtShape
  <2> HIDE DEF onward
  <2>2. onward.at \in {"destination", "blocklist"}
    BY <2>1, <1>1 DEF CallType, Moved
  <2>3. Good(onward) /\ Excused(onward)
    BY <1>1, <2>1, OnwardGood DEF Sending
  <2>4. QED BY <2>2, <2>3 DEF Resting
<1>3. CASE Step(onward)
  BY <1>2, <1>3 DEF Step
<1>4. CASE ControlFault(onward)
  BY <1>1, <1>2, <1>4, ControlFaultGood DEF Places, Asking, Resting, Done
<1>5. CASE Step([To("answered") EXCEPT !.told = "contract"])
  <2> DEFINE d == [To("answered") EXCEPT !.told = "contract"]
  <2>1. d \in CallType
    BY <1>1 DEF To, CallType, Places, Tellings
  <2>2. Good(d)
    BY <1>1, <2>1 DEF To, CallType, Recording, Blocking, Deciding, Promising, Turned, Promised,
       HeardOf,
       Actions, Halting, Asking, Resting, Done, Sending, Gating, Escalating, Evaluating, Finishing, Inv, Good
  <2>3. QED BY <2>2, <1>5 DEF Step
<1>6. ASSUME NEW a \in Halting,
              Answer([Recorded(call, Plain(a, 2, FALSE)) EXCEPT
                          !.at = "answered", !.told = "refused", !.rule = TRUE])
      PROVE  Good(call')
  <2>1. Plain(a, 2, FALSE) \in VerdictType /\ Plain(a, 2, FALSE).action = a
    <3>1. a \in Actions /\ 2 \in AllBands /\ FALSE \in BOOLEAN
      BY BandOK DEF Halting, Actions
    <3>2. QED BY <3>1, PlainType
  <2>2. "refused" \in Tellings /\ Owed("refused") <= Severity(a)
    BY SeverityOf DEF Tellings, Owed, Halting
  <2>3. /\ Good(Ruled(call, Plain(a, 2, FALSE), "refused"))
        /\ Excused(Ruled(call, Plain(a, 2, FALSE), "refused"))
    BY <1>1, <2>1, <2>2, RuledGood
  <2>4. QED BY <1>1, <1>6, <2>3, AnswerGood DEF Ruled
<1>7. QED BY <1>3, <1>4, <1>5, <1>6 DEF DestinationExtension

\* The verdict of an operator's rule.
LEMMA BlockedType ==
    /\ Plain("blocked", 2, FALSE) \in VerdictType
    /\ Plain("blocked", 2, FALSE).action = "blocked"
    /\ "refused" \in Tellings /\ Owed("refused") <= Severity("blocked")
<1>1. "blocked" \in Actions /\ 2 \in AllBands /\ FALSE \in BOOLEAN
  BY BandOK DEF Actions
<1>2. "refused" \in Tellings /\ Owed("refused") <= Severity("blocked")
  BY SeverityOf DEF Tellings, Owed
<1>3. QED BY <1>1, <1>2, PlainType

\* The blocklist refuses a listed URL: a URL kept listed gets no further.
LEMMA ListVerdictGood ==
    ASSUME Inv, At("blocklist"), NEW hit \in BOOLEAN, listed => hit
    PROVE  /\ Good(ListVerdict(hit)) /\ Excused(ListVerdict(hit))
           /\ ListVerdict(hit).at \notin Resting
<1>1. call \in CallType /\ call.at = "blocklist" /\ call.at \in Sending /\ Blocking(call)
  BY DEF Inv, Good, At, Sending
<1>2. CASE hit
  <2>1. ListVerdict(hit) = Ruled(call, Plain("blocked", 2, FALSE), "refused")
    BY <1>2 DEF ListVerdict, Ruled
  <2>3. /\ Good(Ruled(call, Plain("blocked", 2, FALSE), "refused"))
        /\ Excused(Ruled(call, Plain("blocked", 2, FALSE), "refused"))
    BY <1>1, BlockedType, RuledGood
  <2>4. Ruled(call, Plain("blocked", 2, FALSE), "refused").at = "answered"
    BY <1>1, BlockedType, RecordedType DEF Ruled, CallType
  <2>5. QED BY <2>1, <2>3, <2>4 DEF Resting
<1>3. CASE ~hit
  <2>1. ListVerdict(hit) = Moved(call, "destPolicy", call.i)
    BY <1>1, <1>3 DEF ListVerdict, To, Moved, CallType
  <2>2. ~call.throughout
    BY <1>1, <1>3 DEF Blocking
  <2>3. call.i \in Int /\ Moved(call, "destPolicy", call.i).at = "destPolicy"
    BY <1>1 DEF CallType, Moved
  <2>4. Good(Moved(call, "destPolicy", call.i)) /\ Excused(Moved(call, "destPolicy", call.i))
    BY <1>1, <2>2, <2>3, OnwardGood DEF Sending
  <2>5. QED BY <2>1, <2>3, <2>4 DEF Resting
<1>4. QED BY <1>2, <1>3

\* The destination check reads the blocklist.
LEMMA DestinationBlocklistGood ==
    ASSUME Inv, DestinationBlocklist
    PROVE  Good(call')
<1>1. At("blocklist") /\ call.at \in Asking /\ listed \in BOOLEAN
  BY DEF DestinationBlocklist, At, Inv, Context, Asking, Places, Resting, Done
<1>2. ASSUME NEW byExt \in BOOLEAN, Answer(ListVerdict(Listed(byExt)))
      PROVE  Good(call')
  <2>1. Good(ListVerdict(Listed(byExt))) /\ Excused(ListVerdict(Listed(byExt)))
    BY <1>1, ListVerdictGood DEF Listed
  <2>2. call \in CallType
    BY DEF Inv, Good
  <2>3. QED BY <1>2, <2>1, <2>2, AnswerGood
<1>3. CASE ControlFault(ListVerdict(Listed(FALSE)))
  BY <1>1, <1>3, ListVerdictGood, ControlFaultGood DEF Listed
<1>4. QED BY <1>2, <1>3 DEF DestinationBlocklist

\* The destination policy refuses, or the request goes on to be scanned or sent.
LEMMA PolicyDenialGood ==
    ASSUME Inv, At("destPolicy"), NEW text \in BOOLEAN
    PROVE  /\ Good(PolicyDenial(text)) /\ Excused(PolicyDenial(text))
           /\ PolicyDenial(text).at \notin Resting
<1>1. call \in CallType /\ call.at = "destPolicy" /\ call.at \in Sending
      /\ Blocking(call) /\ Promising(call)
  BY DEF Inv, Good, At, Sending
<1>2. CASE policy \in Halting
  <2>1. PolicyDenial(text) = Ruled(call, Plain("blocked", 2, FALSE), "refused")
    BY <1>2 DEF PolicyDenial, Ruled
  <2>3. /\ Good(Ruled(call, Plain("blocked", 2, FALSE), "refused"))
        /\ Excused(Ruled(call, Plain("blocked", 2, FALSE), "refused"))
    BY <1>1, BlockedType, RuledGood
  <2>4. Ruled(call, Plain("blocked", 2, FALSE), "refused").at = "answered"
    BY <1>1, BlockedType, RecordedType DEF Ruled, CallType
  <2>5. QED BY <2>1, <2>3, <2>4 DEF Resting
<1>3. CASE policy \notin Halting /\ text
  <2>1. PolicyDenial(text) = Moved(call, "gate", call.i)
    BY <1>1, <1>3 DEF PolicyDenial, To, Moved, CallType
  <2>2. call.i \in Int /\ Moved(call, "gate", call.i).at = "gate"
    BY <1>1 DEF CallType, Moved
  <2>3. Good(Moved(call, "gate", call.i)) /\ Excused(Moved(call, "gate", call.i))
    BY <1>1, <2>2, OnwardGood DEF Gating, Sending
  <2>4. QED BY <2>1, <2>2, <2>3 DEF Resting
<1>4. CASE policy \notin Halting /\ ~text
  <2> DEFINE d == To("answered")
  <2>1. d \in CallType
    BY <1>1 DEF To, CallType, Places
  <2>2. Recording(d) /\ Blocking(d) /\ Deciding(d)
    BY <1>1 DEF To, CallType, Recording, Finishing, Blocking, Done, Turned, Deciding, Asking,
                Evaluating, Escalating, Promising, Resting, Sending, Places, Actions
  <2>3. Promising(d)
    BY <1>1 DEF To, CallType, Promising, Asking, Places, Resting, Done, Sending, Gating, Promised,
                HeardOf, Halting
  <2>4. d.at = "answered" /\ Excused(d)
    BY <1>1 DEF To, CallType, Excused
  <2>5. PolicyDenial(text) = d
    BY <1>4 DEF PolicyDenial
  <2>6. QED BY <2>1, <2>2, <2>3, <2>4, <2>5 DEF Good, Resting
<1>5. QED BY <1>2, <1>3, <1>4

\* The destination check reads the policy.
LEMMA DestinationPolicyGood ==
    ASSUME Inv, DestinationPolicy
    PROVE  Good(call')
<1>1. At("destPolicy") /\ call.at \in Asking
  BY DEF DestinationPolicy, At, Asking, Places, Resting, Done
<1>2. ASSUME NEW text \in BOOLEAN, Answer(PolicyDenial(text)) \/ ControlFault(PolicyDenial(text))
      PROVE  Good(call')
  <2>1. call \in CallType
    BY DEF Inv, Good
  <2>2. QED BY <1>1, <1>2, <2>1, PolicyDenialGood, ControlFaultGood, AnswerGood
<1>3. QED BY <1>2 DEF DestinationPolicy

\* The destination check faults: this is how a blocked URL can be requested.
LEMMA DestinationFaultGood ==
    ASSUME Inv, DestinationFault
    PROVE  Good(call')
<1> DEFINE c == [call EXCEPT !.hit = @ \cup {"internal"}]
           d == [c EXCEPT !.at = "gate", !.i = 1]
<1>1. "internal" \in Groups /\ call \in CallType /\ call.at \in Sending
  BY DEF Groups, Inv, Good, DestinationFault, Sending
<1>2. c \in CallType /\ c.at \in Asking
  BY <1>1 DEF CallType, Asking, Sending, Places, Resting, Done
<1>3. Blocking(c)
  BY <1>1 DEF Inv, Good, Blocking, Turned, CallType
<1>4. CASE Closed("internal")
  <2>1. Good(Refused(c, "internal")) /\ Excused(Refused(c, "internal"))
    BY <1>1, <1>2, <1>3, <1>4, RefusedGood DEF Inv
  <2>2. Answer(Refused(c, "internal"))
    BY <1>4 DEF DestinationFault
  <2>3. QED BY <1>1, <2>1, <2>2, AnswerGood
<1>5. CASE ~Closed("internal")
  <2>1. d \in CallType
    <3>1. d = Moved(c, "gate", 1)
      BY DEF Moved
    <3> HIDE DEF c, d
    <3>2. QED BY <1>2, <3>1, MovedType DEF Places
  <2>2. Recording(d)
    BY <1>1 DEF CallType, Recording, Finishing
  <2>3. Blocking(d)
    BY <1>1 DEF CallType, Blocking, Sending, Turned, Inv, Good
  <2>4. Deciding(d)
    BY <1>1 DEF CallType, Deciding, Asking, Places, Resting, Done, Evaluating, Escalating, Inv,
       Good,
                Sending
  <2>5. Promising(d)
    BY <1>1, <1>5 DEF CallType, Promising, Asking, Places, Resting, Done, Inv, Good, Sending, Gating
  <2>6. Excused(d)
    BY <1>1 DEF CallType, Excused
  <2>7. Answer(d)
    BY <1>5 DEF DestinationFault
  <2> HIDE DEF d
  <2>8. QED BY <1>1, <2>1, <2>2, <2>3, <2>4, <2>5, <2>6, <2>7, AnswerGood DEF Good
<1>6. QED BY <1>4, <1>5

\* Past the gates a call is ticked or detected.
LEMMA PastGood ==
    ASSUME Inv, call.at \in {"gate", "extGate"}, NEW n \in Int
    PROVE  /\ Ungated(Moved(call, call.at, n)) \in {Moved(call, "tick", n), Moved(call, "detect", n)}
           /\ Good(Moved(call, "tick", n)) /\ Good(Moved(call, "detect", n))
           /\ Excused(Moved(call, "tick", n)) /\ Excused(Moved(call, "detect", n))
           /\ Moved(call, "tick", n).at = "tick" /\ Moved(call, "detect", n).at = "detect"
<1>1. call \in CallType /\ call.at \in Gating
  BY DEF Inv, Good, Gating
<1>2. Ungated(Moved(call, call.at, n)) \in {Moved(call, "tick", n), Moved(call, "detect", n)}
  BY <1>1 DEF Ungated, Moved, CallType
<1>3. /\ Good(Moved(call, "tick", n)) /\ Good(Moved(call, "detect", n))
      /\ Excused(Moved(call, "tick", n)) /\ Excused(Moved(call, "detect", n))
  BY <1>1, OnwardGood DEF Gating, Sending
<1>4. QED BY <1>1, <1>2, <1>3 DEF Moved, CallType

\* The breaker gates the call.
LEMMA CircuitGateGood ==
    ASSUME Inv, CircuitGate
    PROVE  Good(call')
<1>1. call \in CallType /\ call.at = "gate" /\ call.at \in Gating /\ call.i \in Int
  BY DEF Inv, Good, CircuitGate, At, Gating, CallType
<1>2. call.at \in Asking
  BY <1>1 DEF Asking, Places, Resting, Done
<1>3. Good(PastBreaker) /\ Excused(PastBreaker) /\ PastBreaker.at \notin Resting
  <2>1. CASE Ext > 0
    <3>1. PastBreaker = Moved(call, "extGate", call.i)
      BY <1>1, <2>1 DEF PastBreaker, To, Moved, CallType
    <3>2. /\ Good(Moved(call, "extGate", call.i)) /\ Moved(call, "extGate", call.i).at = "extGate"
          /\ Excused(Moved(call, "extGate", call.i))
      BY <1>1, OnwardGood DEF Gating, Sending, Moved, CallType
    <3>3. QED BY <3>1, <3>2 DEF Resting
  <2>2. CASE ~(Ext > 0)
    <3>1. call = Moved(call, call.at, call.i)
      BY <1>1 DEF Moved, CallType
    <3>2. PastBreaker = Ungated(Moved(call, call.at, call.i))
      BY <2>2, <3>1 DEF PastBreaker
    <3>3. QED BY <1>1, <3>2, PastGood DEF Resting
  <2>3. QED BY <2>1, <2>2
<1>4. CASE Step(PastBreaker)
  BY <1>3, <1>4 DEF Step
<1>5. CASE ControlFault(PastBreaker)
  BY <1>2, <1>3, <1>5, ControlFaultGood
<1>6. CASE Answer([Recorded(call, Plain("blocked", 2, FALSE)) EXCEPT
                       !.at = "answered", !.told = "blocked", !.rule = TRUE])
  <2>1. "blocked" \in Tellings /\ Owed("blocked") <= Severity("blocked")
    BY SeverityOf DEF Tellings, Actions, Owed
  <2>2. /\ Good(Ruled(call, Plain("blocked", 2, FALSE), "blocked"))
        /\ Excused(Ruled(call, Plain("blocked", 2, FALSE), "blocked"))
    BY <1>1, <2>1, BlockedType, RuledGood DEF Gating, Sending
  <2>3. QED BY <1>1, <1>6, <2>2, AnswerGood DEF Ruled
<1>7. QED BY <1>4, <1>5, <1>6 DEF CircuitGate

\* An extension gates the call.
LEMMA ExtensionGateGood ==
    ASSUME Inv, ExtensionGate
    PROVE  Good(call')
<1>1. call \in CallType /\ call.at = "extGate" /\ call.at \in Gating /\ call.i + 1 \in Int
  <2>1. call.at = "extGate"
    BY DEF ExtensionGate, At
  <2>2. call \in CallType
    BY DEF Inv, Good
  <2>3. call.i \in Int
    BY <2>2 DEF CallType
  <2>4. QED BY <2>1, <2>2, <2>3 DEF Gating
<1>2. call.at \in Asking
  BY <1>1 DEF Asking, Places, Resting, Done
<1> DEFINE onward == IF call.i < Ext THEN [call EXCEPT !.i = @ + 1]
                     ELSE Ungated([call EXCEPT !.i = 1])
<1>3. Good(onward) /\ Excused(onward) /\ onward.at \notin Resting
  <2>1. CASE call.i < Ext
    <3>1. onward = Moved(call, "extGate", call.i + 1)
      BY <1>1, <2>1 DEF Moved, CallType
    <3>2. /\ Good(Moved(call, "extGate", call.i + 1)) /\ Excused(Moved(call, "extGate", call.i + 1))
          /\ Moved(call, "extGate", call.i + 1).at = "extGate"
      BY <1>1, OnwardGood DEF Gating, Sending, Moved, CallType
    <3>3. QED BY <3>1, <3>2 DEF Resting
  <2>2. CASE ~(call.i < Ext)
    <3>1. [call EXCEPT !.i = 1] = Moved(call, call.at, 1)
      BY <1>1 DEF Moved, CallType
    <3>2. onward = Ungated(Moved(call, call.at, 1))
      BY <2>2, <3>1
    <3> HIDE DEF onward
    <3>3. QED BY <1>1, <3>2, PastGood DEF Resting
  <2>3. QED BY <2>1, <2>2
<1>4. CASE Step(onward)
  BY <1>3, <1>4 DEF Step
<1>5. CASE ControlFault(onward)
  BY <1>2, <1>3, <1>5, ControlFaultGood
<1>6. ASSUME NEW a \in Actions,
             Answer([Recorded(call, Plain(a, 2, FALSE)) EXCEPT
                         !.at = "answered", !.told = a, !.rule = TRUE])
      PROVE  Good(call')
  <2>1. a \in Tellings /\ Owed(a) <= Severity(a)
    BY SeverityOf DEF Tellings, Actions, Owed
  <2>2. Plain(a, 2, FALSE) \in VerdictType /\ Plain(a, 2, FALSE).action = a
    BY PlainType, BandOK
  <2>3. Good(Ruled(call, Plain(a, 2, FALSE), a)) /\ Excused(Ruled(call, Plain(a, 2, FALSE), a))
    BY <1>1, <2>1, <2>2, RuledGood DEF Gating, Sending
  <2>4. QED BY <1>1, <1>6, <2>3, AnswerGood DEF Ruled
<1>7. QED BY <1>4, <1>5, <1>6 DEF ExtensionGate

\* The breaker counts the call.
LEMMA TickGood ==
    ASSUME Inv, Tick
    PROVE  Good(call')
<1>1. call \in CallType /\ call.at = "tick" /\ call.at \in Gating /\ call.i \in Int
  BY DEF Inv, Good, Tick, At, Gating, CallType
<1>2. To("detect") = Moved(call, "detect", call.i) /\ To("detect").at = "detect"
  BY <1>1 DEF To, Moved, CallType
<1>3. Good(To("detect")) /\ Excused(To("detect"))
  BY <1>1, <1>2, OnwardGood DEF Gating, Sending
<1>4. CASE Step(To("detect"))
  BY <1>3, <1>4 DEF Step
<1>5. CASE ControlFault(To("detect"))
  BY <1>1, <1>2, <1>3, <1>5, ControlFaultGood DEF Asking, Places, Resting, Done
<1>6. QED BY <1>4, <1>5 DEF Tick

-----------------------------------------------------------------------------
(* Detection.                                                              *)

\* The classes of places are apart.
LEMMA PlacesApart ==
    /\ \A p \in Gating \cup Escalating \cup Evaluating \cup Finishing \cup {"emit"} :
          p \in Asking /\ p \in Asking \ Sending /\ p \notin Resting /\ p \notin Done /\ p \notin Sending
    /\ \A p \in Sending : p \in Asking /\ p \notin Resting /\ p \notin Done
BY DEF Gating, Escalating, Evaluating, Finishing, Asking, Places, Resting, Done, Sending

Judged(c, v, p, n, b) == [c EXCEPT !.v = v, !.at = p, !.i = n, !.bounded = b]

\* The local scanner judged a text: the verdict is not recorded yet.
LEMMA JudgedGood ==
    ASSUME Inv, At("detect"), call.kind # "tool_call",
           NEW v \in VerdictType, NEW p \in {"escalate", "structure"}, NEW n \in Int,
           NEW b \in BOOLEAN, b => v.bound
    PROVE  /\ Good(Judged(call, v, p, n, b)) /\ Excused(Judged(call, v, p, n, b))
           /\ Judged(call, v, p, n, b).at \notin Resting
<1>1. /\ call \in CallType /\ call.at = "detect" /\ call.at \in Gating
      /\ Blocking(call) /\ Promising(call)
  BY DEF Inv, Good, At, Gating
<1> DEFINE d == Judged(call, v, p, n, b)
<1>2. d = [call EXCEPT !.v = v, !.at = p, !.i = n, !.bounded = b]
  BY DEF Judged
<1> HIDE DEF d
<1>3. d \in CallType
  BY <1>1, <1>2 DEF CallType, Places
<1>4. d.at \in Escalating /\ d.at \notin {"policyTest", "policyEval"}
  BY <1>1, <1>2 DEF CallType, Escalating
<1>5. Recording(d)
  BY <1>4 DEF Recording, Finishing, Escalating
<1>6. Blocking(d)
  BY <1>1, <1>2, <1>4, PlacesApart DEF CallType, Blocking, Turned, Gating, Sending, Done
<1>7. Deciding(d)
  BY <1>1, <1>2, <1>4 DEF CallType, Deciding, Evaluating, Escalating
<1>8. Promising(d)
  BY <1>1, <1>2, <1>4, PlacesApart DEF CallType, Promising, Escalating, Asking, Sending, Gating,
     Resting, Done
<1>9. Excused(d)
  BY <1>4 DEF Excused, Escalating
<1>10. QED BY <1>3, <1>4, <1>5, <1>6, <1>7, <1>8, <1>9, PlacesApart DEF Good, d

\* What the local scanner answers is a verdict.
LEMMA ScannedType ==
    ASSUME Inv, NEW band \in Bands, NEW bound \in BOOLEAN
    PROVE  Scanned(band, bound) \in VerdictType /\ Scanned(band, bound).bound = bound
BY PlainType DEF Scanned, AllBands, Actions

\* The local scanner judges a text.
LEMMA DetectTextGood ==
    ASSUME Inv, DetectText
    PROVE  Good(call')
<1>1. At("detect") /\ call.kind # "tool_call" /\ call.at \in Asking /\ call \in CallType /\ call.i \in Int
  BY PlacesApart DEF DetectText, At, Gating, Inv, Good, CallType
<1>2. ASSUME NEW band \in Bands, NEW bound \in BOOLEAN, NEW capped \in BOOLEAN,
             Step([call EXCEPT !.v = Scanned(band, bound), !.i = 1, !.bounded = bound,
                     !.at = IF band = 1 /\ ~capped /\ Links > 0 THEN "escalate"
                            ELSE "structure"])
      PROVE  Good(call')
  <2> DEFINE p == IF band = 1 /\ ~capped /\ Links > 0 THEN "escalate" ELSE "structure"
  <2>1. call' = Judged(call, Scanned(band, bound), p, 1, bound)
    BY <1>1, <1>2 DEF Step, Judged, CallType
  <2>2. p \in {"escalate", "structure"}
    OBVIOUS
  <2> HIDE DEF p
  <2>3. QED BY <1>1, <2>1, <2>2, ScannedType, JudgedGood
<1>3. CASE ControlFault([call EXCEPT !.v = Scanned(0, FALSE), !.at = "structure"])
  <2>1. [call EXCEPT !.v = Scanned(0, FALSE), !.at = "structure"]
           = Judged(call, Scanned(0, FALSE), "structure", call.i, FALSE)
    <3>1. call.bounded = FALSE
      BY <1>1 DEF At, Inv, Good, Promising, Gating, CallType
    <3>2. QED BY <1>1, <3>1 DEF Judged, CallType
  <2>2. 0 \in Bands
    BY DEF Bands
  <2>3. /\ Good(Judged(call, Scanned(0, FALSE), "structure", call.i, FALSE))
        /\ Excused(Judged(call, Scanned(0, FALSE), "structure", call.i, FALSE))
        /\ Judged(call, Scanned(0, FALSE), "structure", call.i, FALSE).at \notin Resting
    BY <1>1, <2>2, ScannedType, JudgedGood
  <2>4. QED BY <1>1, <1>3, <2>1, <2>3, ControlFaultGood
<1>4. QED BY <1>2, <1>3 DEF DetectText

\* A call of the wrong type is recorded and goes to the gate unscanned.
LEMMA UnscannableGood ==
    ASSUME Inv, Unscannable
    PROVE  Good(call')
<1>1. /\ call \in CallType /\ call.at = "detect" /\ call.at \in Gating
      /\ Blocking(call) /\ Promising(call)
  <2>1. call.at = "detect"
    BY DEF Unscannable, At
  <2>2. QED BY <2>1 DEF Inv, Good, Gating
<1>2. PICK args \in BOOLEAN :
         call' = [Recorded(call, NotScannable) EXCEPT
                      !.at = "post", !.v = NotScannable, !.args = args, !.bounded = args]
  BY DEF Unscannable, Step
<1> DEFINE r == Recorded(call, NotScannable)
           v == NotScannable
           d == [r EXCEPT !.at = "post", !.v = v, !.args = args, !.bounded = args]
<1>3. r \in CallType /\ r = [call EXCEPT !.recorded = r.recorded] /\ r.recorded >= Severity(v.action)
  BY <1>1, SignalType, RecordedType
<1>4. v \in VerdictType /\ v.action = "allowed"
  BY SignalType
<1> HIDE DEF r, v
<1>5. d \in CallType /\ d.v = v /\ d.recorded = r.recorded /\ d.at = "post"
  BY <1>3, <1>4 DEF CallType, Places
<1>6. Recording(d)
  BY <1>3, <1>5 DEF Recording
<1>7. Blocking(d)
  BY <1>1, <1>3 DEF CallType, Blocking, Turned, Sending, Done
<1>8. Deciding(d)
  BY <1>5 DEF Deciding, Evaluating, Escalating
<1>9. Promising(d)
  BY <1>1, <1>3, <1>4, PlacesApart DEF CallType, Promising, Finishing, Asking, Sending, Gating,
     Resting, Done, Halting
<1>10. QED BY <1>2, <1>5, <1>6, <1>7, <1>8, <1>9 DEF Good, r, v

\* What the tool boundary detects is a verdict no escalator touched.
LEMMA ToolVerdictType ==
    ASSUME NEW l \in BOOLEAN, NEW e \in BOOLEAN, NEW v \in DetectedIn[l][e]
    PROVE  v \in VerdictType /\ v.escalation = "none"
<1>1. DetectedIn[l][e] = {ToolVerdict(l, s, e) : s \in Scans}
  BY DEF DetectedIn
<1>2. PICK s \in Scans : v = ToolVerdict(l, s, e)
  BY <1>1
<1>3. ToolAction(s, e) \in Actions
  BY DEF ToolAction, FromSecrets, FromDanger, Raised, Actions
<1>4. ToolBand(s) \in AllBands
  BY DEF AllBands
<1>5. "blocked" \in Actions
  BY DEF Actions
<1>6. CASE l
  <2>1. v = Plain("blocked", 2, FALSE)
    BY <1>2, <1>6 DEF ToolVerdict
  <2>2. QED BY <1>5, <2>1, PlainType, BandOK
<1>7. CASE ~l
  <2>1. v = Plain(ToolAction(s, e), ToolBand(s), FALSE)
    BY <1>2, <1>7 DEF ToolVerdict
  <2>2. QED BY <1>3, <1>4, <2>1, PlainType
<1>8. QED BY <1>6, <1>7

\* The tool boundary judges a call.
LEMMA DetectToolGood ==
    ASSUME Inv, DetectTool
    PROVE  Good(call')
<1>1. /\ call \in CallType /\ call.at = "detect" /\ call.at \in Gating /\ call.kind = "tool_call"
      /\ Blocking(call) /\ Promising(call) /\ Deciding(call)
  <2>1. call.at = "detect" /\ call.kind = "tool_call"
    BY DEF DetectTool, At
  <2>2. QED BY <2>1 DEF Inv, Good, Gating
<1>2. listed \in BOOLEAN /\ conf.enforces \in BOOLEAN
  BY ConfType DEF Inv, Context
<1>3. PICK v \in VerdictType, args \in BOOLEAN :
         call' = [call EXCEPT !.at = "policyTest", !.args = args, !.rule = listed, !.v = v,
                              !.bounded = args]
  BY <1>2, ToolVerdictType DEF DetectTool, Step
<1> DEFINE d == [call EXCEPT !.at = "policyTest", !.args = args, !.rule = listed, !.v = v,
                             !.bounded = args]
<1>4. d \in CallType
  BY <1>1, <1>2 DEF CallType, Places
<1>5. Recording(d)
  BY <1>1 DEF CallType, Recording, Finishing
<1>6. Blocking(d)
  BY <1>1 DEF CallType, Blocking, Turned, Sending, Done
<1>7. Deciding(d)
  BY <1>1, PlacesApart DEF CallType, Deciding, Gating, Evaluating, Escalating
<1>8. Promising(d)
  BY <1>1, PlacesApart DEF CallType, Promising, Evaluating, Asking, Sending, Gating, Resting, Done
<1>9. QED BY <1>3, <1>4, <1>5, <1>6, <1>7, <1>8 DEF Good

-----------------------------------------------------------------------------
(* The chain of escalators.                                                *)

\* A link that gave no opinion is remembered: no mark is due before the
\* chain ends.
LEMMA SkippedGood ==
    ASSUME Inv, call.at = "joining"
    PROVE  Good(Skipped(call)) /\ Skipped(call).at = "joining"
<1>1. call \in CallType /\ Promising(call)
  BY DEF Inv, Good
<1> DEFINE d == [call EXCEPT !.skipped = TRUE]
<1>2. Skipped(call) = d
  BY DEF Skipped
<1>3. d \in CallType
  BY <1>1 DEF CallType
<1>4. Recording(d) /\ Deciding(d)
  BY <1>1 DEF CallType, Recording, Finishing, Deciding, Evaluating, Escalating, AtLeast, Inv, Good
<1>5. Blocking(d)
  BY <1>1 DEF CallType, Blocking, Turned, Inv, Good
<1>6. Promising(d)
  BY <1>1 DEF CallType, Promising, Resting, Sending, Gating, Done
<1> HIDE DEF d
<1>7. d.at = "joining"
  BY <1>1 DEF CallType, d
<1>8. QED BY <1>2, <1>3, <1>4, <1>5, <1>6, <1>7 DEF Good

\* The next link is consulted, or the chain ends.
LEMMA NextLinkGood ==
    ASSUME NEW c, Context, Good(c), c.at = "joining"
    PROVE  Good(NextLink(c))
<1>1. /\ c \in CallType /\ Recording(c) /\ Blocking(c) /\ Deciding(c) /\ Promising(c)
      /\ c.i + 1 \in Int /\ 1 \in Int
  <2>1. c \in CallType
    BY DEF Good
  <2>2. c.i \in Int
    BY <2>1 DEF CallType
  <2>3. QED BY <2>1, <2>2 DEF Good
<1>2. CASE c.i < Links
  <2> DEFINE d == Moved(c, "escalate", c.i + 1)
  <2>1. NextLink(c) = d
    BY <1>1, <1>2 DEF NextLink, Moved, CallType
  <2>2. d \in CallType
    BY <1>1, MovedType DEF Places
  <2>3. Recording(d) /\ Deciding(d)
    BY <1>1 DEF CallType, Recording, Finishing, Deciding, Evaluating, Escalating, Asking, Places,
                Resting, Done, Moved
  <2>4. Blocking(d)
    BY <1>1 DEF CallType, Blocking, Turned, Sending, Done, Moved
  <2>5. Promising(d)
    BY <1>1 DEF CallType, Promising, Asking, Places, Resting, Sending, Gating, Done, Moved
  <2>6. QED BY <2>1, <2>2, <2>3, <2>4, <2>5 DEF Good
<1>3. CASE ~(c.i < Links)
  <2> DEFINE mark == IF c.skipped THEN "skipped" ELSE c.v.escalation
             v == [c.v EXCEPT !.escalation = mark]
             d == [c EXCEPT !.at = "structure", !.i = 1, !.v = v]
  <2>1. c.v \in VerdictType
    BY <1>1 DEF CallType
  <2>2. NextLink(c) = d
    BY <1>1, <1>3, <2>1 DEF NextLink, ChainEnds, CallType, VerdictType
  <2>3. mark \in Escalations /\ (c.skipped => mark = "skipped")
    BY <2>1 DEF VerdictType, Escalations
  <2> HIDE DEF mark
  <2>4. v \in VerdictType /\ v.escalation = mark /\ v.bound = c.v.bound
    BY <2>1, <2>3 DEF VerdictType
  <2> HIDE DEF v
  <2>5. d \in CallType
    BY <1>1, <2>4 DEF CallType, Places
  <2>6. Recording(d) /\ Deciding(d)
    BY <1>1 DEF CallType, Recording, Finishing, Deciding, Evaluating, Escalating, Asking, Places,
                Resting, Done
  <2>7. Blocking(d)
    BY <1>1 DEF CallType, Blocking, Turned, Sending, Done
  <2>8. Promising(d)
    BY <1>1, <2>3, <2>4 DEF CallType, Promising, Asking, Places, Resting, Sending, Gating, Done
  <2>9. QED BY <2>2, <2>5, <2>6, <2>7, <2>8 DEF Good
<1>4. QED BY <1>2, <1>3

\* An escalator's verdict replaces the local one.
LEMMA AppliedType ==
    ASSUME NEW c \in CallType, NEW v \in VerdictType
    PROVE  Applied(c, v) \in CallType
<1>1. "structure" \in Places /\ 1 \in Int /\ Signals \in SUBSET Signals
  BY DEF Places
<1>2. QED BY <1>1 DEF Applied, CallType

\* An escalator's verdict, given in time, carries neither signal.
LEMMA AppliedGood ==
    ASSUME Inv, call.at = "joining", NEW v \in VerdictType
    PROVE  Good(Applied(call, v))
<1> USE DEF Applied
<1>1. call \in CallType /\ Blocking(call) /\ Deciding(call) /\ Promising(call)
  BY DEF Inv, Good
<1> DEFINE d == Applied(call, v)
<1>2. d \in CallType
  <2> HIDE DEF Applied
  <2>1. QED BY <1>1, AppliedType
<1>3. Recording(d)
  BY <1>1 DEF CallType, Recording, Finishing
<1>4. Blocking(d)
  BY <1>1 DEF CallType, Blocking, Turned, Sending, Done
<1>5. Deciding(d)
  BY <1>1 DEF CallType, Deciding, Evaluating, Escalating, Asking, Places, Resting, Done
<1>6. Promising(d)
  BY <1>1 DEF CallType, Promising, Asking, Places, Resting, Sending, Gating, Done, Signals
<1>7. QED BY <1>2, <1>3, <1>4, <1>5, <1>6 DEF Good

\* The link ended within its budget.
LEMMA LinkJoinedGood ==
    ASSUME Inv, Waiting, LinkJoined
    PROVE  Good(call')
<1>1. /\ call.at = "joining" /\ call \in CallType /\ call.at \in Asking \ Sending
      /\ Blocking(call) /\ Promising(call) /\ Context /\ Good(call)
      /\ box.value \in VerdictType
      /\ box.status \in {"ok", "error", "garbage"}
  <2>1. call.at = "joining" /\ ~box.alive
    BY DEF LinkJoined, At
  <2>2. call \in CallType /\ box \in BoxType /\ Context /\ Good(call) /\ Blocking(call) /\ Promising(call)
    BY DEF Inv, Good, Context
  <2>3. box.status \in {"ok", "error", "garbage"}
    BY <2>1, <2>2 DEF Waiting, BoxType
  <2>4. QED BY <2>1, <2>2, <2>3, PlacesApart DEF BoxType, Escalating
<1>2. CASE box.status = "ok" /\ box.value = Unanswered
  <2>1. call' = NextLink(call)
    BY <1>2 DEF LinkJoined
  <2>2. QED BY <1>1, <2>1, NextLinkGood
<1>3. CASE box.status = "ok" /\ box.value # Unanswered
  <2>1. call' = Applied(call, box.value)
    BY <1>1, <1>3 DEF LinkJoined
  <2>2. QED BY <1>1, <2>1, AppliedGood
<1>4. CASE box.status = "error"
  <2>1. call' = NextLink(Skipped(call))
    BY <1>4 DEF LinkJoined
  <2>2. QED BY <1>1, <2>1, SkippedGood, NextLinkGood
<1>5. CASE box.status = "garbage"
  <2> DEFINE c == [call EXCEPT !.hit = @ \cup {"internal"}]
  <2> DEFINE d == IF Closed("internal") THEN Refused(c, "internal") ELSE FaultedOpen(c)
  <2>1. call' \in {d, Unsent(d)}
    BY <1>5 DEF LinkJoined
  <2>2. c \in CallType /\ c.at \in Asking \ Sending /\ "internal" \in Groups
    BY <1>1 DEF CallType, Groups
  <2>3. Blocking(c)
    BY <1>1 DEF Blocking, Turned, CallType
  <2>4. Closed("internal") => Good(d) /\ Excused(d)
    BY <1>1, <2>2, <2>3, RefusedGood
  <2>5. ASSUME ~Closed("internal") PROVE Good(d) /\ Excused(d)
    <3>1. \A g \in c.hit : ~Closed(g)
      BY <1>1, <2>5 DEF Promising, CallType
    <3>2. QED BY <1>1, <2>2, <2>3, <2>5, <3>1, FaultedOpenGood
  <2>6. Good(d) /\ Excused(d)
    BY <2>4, <2>5
  <2>7. d.at = "answered"
    <3> DEFINE r == Refused(c, "internal")
               f == FaultedOpen(c)
    <3>1. r.at = "answered"
      BY <2>2 DEF Refused, Recorded, CallType
    <3>2. f.at = "answered"
      BY <2>2 DEF FaultedOpen, Recorded, CallType
    <3>3. QED BY <3>1, <3>2
  <2> HIDE DEF d
  <2>8. Good(Unsent(d))
    BY <1>1, <2>6, <2>7, UnsentGood
  <2>9. QED BY <2>1, <2>6, <2>8
<1>6. QED BY <1>1, <1>2, <1>3, <1>4, <1>5

\* The link did not end within its budget.
LEMMA LinkTimesOutGood ==
    ASSUME Inv, LinkTimesOut
    PROVE  Good(call')
BY SkippedGood, NextLinkGood DEF LinkTimesOut, At, Inv

\* A link is consulted.
LEMMA ConsultLinkGood ==
    ASSUME Inv, ConsultLink
    PROVE  Good(call')
<1>1. call.at = "escalate" /\ call \in CallType /\ call' = To("joining") /\ Blocking(call)
      /\ Deciding(call) /\ Promising(call)
  BY DEF ConsultLink, At, Inv, Good
<1> DEFINE d == To("joining")
<1>2. d \in CallType
  BY <1>1 DEF To, CallType, Places
<1>3. Recording(d) /\ Deciding(d)
  BY <1>1 DEF To, CallType, Recording, Finishing, Deciding, Evaluating, Escalating, Asking, Places,
              Resting, Done
<1>4. Blocking(d)
  BY <1>1 DEF To, CallType, Blocking, Turned, Sending, Done
<1>5. Promising(d)
  BY <1>1 DEF To, CallType, Promising, Asking, Places, Resting, Sending, Gating, Done
<1>6. QED BY <1>1, <1>2, <1>3, <1>4, <1>5 DEF Good

-----------------------------------------------------------------------------
(* From the local verdict to the answer.                                   *)

\* The structural signals leave a verdict a verdict.
LEMMA StructuredType ==
    ASSUME Inv, NEW v \in VerdictType, NEW signal \in BOOLEAN, NEW strong \in BOOLEAN,
           NEW bound \in BOOLEAN
    PROVE  /\ Structured(v, signal, strong, bound) \in VerdictType
           /\ v.bound \/ (signal /\ bound) => Structured(v, signal, strong, bound).bound
<1>1. /\ Rebuilt(v) \in VerdictType /\ Rebuilt(v).action \in Actions
      /\ Rebuilt(v).band \in AllBands /\ Rebuilt(v).bound \in BOOLEAN
      /\ Rebuilt(v).bound = v.bound
  BY DEF Rebuilt, VerdictType, Escalations
<1> DEFINE r == Rebuilt(v)
           b == r.bound \/ bound
           band == IF strong /\ r.band = 0 THEN 1 ELSE r.band
           a == IF conf.structural = "block" THEN "blocked"
                ELSE IF r.action = "allowed" /\ (strong \/ v.band > 0) THEN "flagged"
                ELSE r.action
<1>2. /\ b \in BOOLEAN /\ band \in AllBands /\ a \in Actions
      /\ (v.bound \/ bound => b) /\ (v.bound => r.bound)
  BY <1>1, BandOK DEF Actions
<1>3. Structured(v, signal, strong, bound)
         = IF ~signal THEN r ELSE [r EXCEPT !.bound = b, !.band = band, !.action = a]
  BY <1>1 DEF Structured, VerdictType
<1>4. r \in VerdictType
  BY <1>1
<1> HIDE DEF r, b, band, a
<1>5. /\ [r EXCEPT !.bound = b, !.band = band, !.action = a] \in VerdictType
      /\ [r EXCEPT !.bound = b, !.band = band, !.action = a].bound = b
  BY <1>2, <1>4 DEF VerdictType
<1>6. QED BY <1>2, <1>3, <1>4, <1>5

\* A scan that is not of a tool call reaches its record.
LEMMA StructureGood ==
    ASSUME Inv, Structure
    PROVE  Good(call')
<1>1. /\ call.at = "structure" /\ call \in CallType /\ call.v \in VerdictType
      /\ Blocking(call) /\ Deciding(call) /\ Promising(call) /\ call.kind # "tool_call"
  <2>1. call.at = "structure" /\ call \in CallType /\ Blocking(call) /\ Deciding(call) /\ Promising(call)
    BY DEF Structure, At, Inv, Good
  <2>2. QED BY <2>1 DEF Deciding, Escalating, CallType
<1>2. PICK v \in VerdictType, b \in BOOLEAN, l \in SUBSET Signals :
         /\ call' = [call EXCEPT !.v = v, !.at = "emit", !.bounded = b, !.lost = l]
         /\ call.skipped /\ "controls" \notin l => v.escalation = "skipped"
         /\ b /\ "bounds" \notin l => v.bound \/ call.args
  <2>1. CASE call.kind = "scan"
    <3>1. call' = [call EXCEPT !.v = call.v, !.at = "emit", !.bounded = call.bounded,
                              !.lost = call.lost]
      BY <1>1, <2>1 DEF Structure, Step, To, CallType
    <3>2. call.bounded \in BOOLEAN /\ call.lost \in SUBSET Signals
      BY <1>1 DEF CallType
    <3>3. /\ call.skipped /\ "controls" \notin call.lost => call.v.escalation = "skipped"
          /\ call.bounded /\ "bounds" \notin call.lost => call.v.bound \/ call.args
      BY <1>1, PlacesApart DEF Promising, Escalating
    <3>4. QED BY <1>1, <3>1, <3>2, <3>3
  <2>2. CASE call.kind # "scan"
    <3>1. PICK signal, strong, bound \in BOOLEAN :
             /\ bound => signal
             /\ call' = [To("emit") EXCEPT
                           !.v = Structured(call.v, signal, strong, bound),
                           !.bounded = @ \/ bound,
                           !.lost = (IF bound THEN {} ELSE @) \cup {"controls"}]
      BY <2>2 DEF Structure, Step
    <3> DEFINE w == Structured(call.v, signal, strong, bound)
               b == call.bounded \/ bound
               l == (IF bound THEN {} ELSE call.lost) \cup {"controls"}
    <3>2. w \in VerdictType /\ (call.v.bound \/ (signal /\ bound) => w.bound)
      BY <1>1, StructuredType
    <3>3. b \in BOOLEAN /\ l \in SUBSET Signals /\ "controls" \in l
      BY <1>1 DEF CallType, Signals
    <3>4. b /\ "bounds" \notin l => w.bound \/ call.args
      <4>1. call.bounded /\ "bounds" \notin call.lost => call.v.bound \/ call.args
        BY <1>1, PlacesApart DEF Promising, Escalating
      <4>2. QED BY <3>1, <3>2, <4>1
    <3>5. call' = [call EXCEPT !.v = w, !.at = "emit", !.bounded = b, !.lost = l]
      BY <1>1, <3>1 DEF To, CallType
    <3> HIDE DEF w, b, l
    <3>6. QED BY <3>2, <3>3, <3>4, <3>5
  <2>3. QED BY <2>1, <2>2
<1> DEFINE d == [call EXCEPT !.v = v, !.at = "emit", !.bounded = b, !.lost = l]
<1>3. d \in CallType
  BY <1>1 DEF CallType, Places
<1>4. Recording(d) /\ Deciding(d)
  BY <1>1 DEF CallType, Recording, Finishing, Deciding, Evaluating, Escalating
<1>5. Blocking(d)
  BY <1>1 DEF CallType, Blocking, Turned, Sending, Done
<1>6. Promising(d)
  BY <1>1, <1>2, PlacesApart DEF CallType, Promising, Resting, Sending, Gating, Done, Escalating
<1>7. QED BY <1>2, <1>3, <1>4, <1>5, <1>6 DEF Good

\* An action is determined by its severity, up to the names of policies.
LEMMA AtSeverityOf ==
    \A n \in 0..3 : AtSeverity(n) \in Actions /\ Severity(AtSeverity(n)) = n
<1>1. AtSeverity(0) = "allowed" /\ AtSeverity(1) = "flagged"
      /\ AtSeverity(2) = "approval_required" /\ AtSeverity(3) = "blocked"
  BY DEF AtSeverity
<1>2. \A n \in 0..3 : n = 0 \/ n = 1 \/ n = 2 \/ n = 3
  OBVIOUS
<1>3. QED BY <1>1, <1>2, SeverityOf DEF Actions

\* Composition is the stricter of the two.
Decided == Decisions \cup {"allowed", "monitor"}
\* Composing takes the stricter of the two.
LEMMA ComposeOf ==
    ASSUME NEW a \in Actions, NEW d \in Decided
    PROVE  /\ Compose(a, d) \in Actions
           /\ Severity(a) \in 0..3 /\ Severity(d) \in 0..3
           /\ Severity(Compose(a, d)) =
                 IF Severity(a) >= Severity(d) THEN Severity(a) ELSE Severity(d)
<1>1. Severity(a) \in 0..3
  BY SeverityOf DEF Actions
<1>2. Severity(d) \in 0..3
  BY SeverityOf, ConstAssumption DEF Decided
<1>3. QED BY <1>1, <1>2, AtSeverityOf DEF Compose

\* With no policy at the first read, detection alone decides: that policy
\* was in force.
LEMMA PolicyTestGood ==
    ASSUME Inv, PolicyTest
    PROVE  Good(call')
<1>1. /\ call.at = "policyTest" /\ call \in CallType /\ call.v \in VerdictType
      /\ Blocking(call) /\ Deciding(call) /\ Promising(call) /\ call.kind = "tool_call"
      /\ inForce # {} /\ policy \in inForce /\ call.v.action \in Actions
  <2>1. call.at = "policyTest" /\ call \in CallType /\ Blocking(call) /\ Deciding(call) /\ Promising(call)
    BY DEF PolicyTest, At, Inv, Good
  <2>2. call.v \in VerdictType /\ call.v.action \in Actions
    BY <2>1 DEF CallType, VerdictType
  <2>3. call.kind = "tool_call" /\ inForce # {}
    BY <2>1 DEF Deciding, Evaluating, Asking, Places, Resting, Done
  <2>4. QED BY <2>1, <2>2, <2>3 DEF Inv, Context
<1>2. PICK p \in {"emit", "policyEval"} :
         /\ call' = [call EXCEPT !.at = p, !.base = call.v.action]
         /\ p = "emit" => policy = NoPolicy
  BY <1>1 DEF PolicyTest, Step, To, CallType
<1> DEFINE d == [call EXCEPT !.at = p, !.base = call.v.action]
<1>3. d \in CallType
  BY <1>1, <1>2 DEF CallType, Places
<1>4. Recording(d)
  BY <1>1, <1>2 DEF CallType, Recording, Finishing
<1>5. Deciding(d)
  <2>1. d.v = call.v /\ d.base = call.v.action /\ d.at = p /\ d.kind = "tool_call"
    BY <1>1, <1>2 DEF CallType
  <2> HIDE DEF d
  <2>2. p = "emit" => AtLeast(d, policy)
    BY <1>1, <1>2, <2>1, ComposeOf, SeverityOf DEF AtLeast, Decided
  <2>3. QED BY <1>1, <1>2, <2>1, <2>2 DEF Deciding, Evaluating, Escalating
<1>6. Blocking(d)
  BY <1>1, <1>2 DEF CallType, Blocking, Turned, Sending, Done
<1>7. Promising(d)
  BY <1>1, <1>2, PlacesApart DEF CallType, Promising, Resting, Sending, Gating, Done, Evaluating
<1>8. QED BY <1>2, <1>3, <1>4, <1>5, <1>6, <1>7 DEF Good

\* The policy of the second read decides: it was in force as well.
LEMMA UnderPolicyGood ==
    ASSUME Inv, At("policyEval")
    PROVE  /\ Good(UnderPolicy(call, policy)) /\ Excused(UnderPolicy(call, policy))
           /\ UnderPolicy(call, policy).at \notin Resting
<1>1. /\ call.at = "policyEval" /\ call \in CallType /\ call.v \in VerdictType
      /\ Blocking(call) /\ Deciding(call) /\ Promising(call) /\ call.kind = "tool_call"
      /\ inForce # {} /\ policy \in inForce /\ call.v.action \in Actions
      /\ call.base = call.v.action
  <2>1. call.at = "policyEval" /\ call \in CallType /\ Blocking(call) /\ Deciding(call) /\ Promising(call)
    BY DEF At, Inv, Good
  <2>2. call.v \in VerdictType /\ call.v.action \in Actions
    BY <2>1 DEF CallType, VerdictType
  <2>3. call.kind = "tool_call" /\ inForce # {} /\ call.base = call.v.action
    BY <2>1 DEF Deciding, Evaluating, Asking, Places, Resting, Done
  <2>4. QED BY <2>1, <2>2, <2>3 DEF Inv, Context
<1> DEFINE decision == Decision(policy)
           least == CASE decision \in Halting -> 2 [] decision = "monitor" -> 1 [] OTHER -> 0
           a == Compose(call.v.action, decision)
           band == IF least > call.v.band THEN least ELSE call.v.band
           rule == call.rule \/ decision \in Halting
           v == [call.v EXCEPT !.action = a, !.band = band]
           d == [call EXCEPT !.at = "emit", !.v = v, !.rule = rule]
<1>2. decision \in Decided /\ Severity(decision) \in 0..3
      /\ Severity(decision) >= Severity(IF policy = NoPolicy THEN "allowed" ELSE policy)
      /\ (IF policy = NoPolicy THEN "allowed" ELSE policy) \in Decided
  BY SeverityOf, ConstAssumption DEF Inv, Context, Decision, Decided, NoPolicy
<1>3. a \in Actions /\ Severity(a) >= Severity(Compose(call.base, IF policy = NoPolicy THEN "allowed" ELSE policy))
  <2> HIDE DEF decision
  <2>1. QED BY <1>1, <1>2, ComposeOf
<1>4. least \in {0, 1, 2}
  OBVIOUS
<1> HIDE DEF least
<1>5. band \in AllBands
  BY <1>1, <1>4, BandOK DEF VerdictType
<1>6. rule \in BOOLEAN
  OBVIOUS
<1>7. UnderPolicy(call, policy) = d
  <2>1. UnderPolicy(call, policy) =
          [call EXCEPT !.at = "emit", !.v.action = Compose(@, decision),
                       !.v.band = IF least > @ THEN least ELSE @,
                       !.rule = @ \/ decision \in Halting]
    BY DEF UnderPolicy, least
  <2> HIDE DEF decision
  <2>2. QED BY <1>1, <2>1 DEF CallType, VerdictType
<1> HIDE DEF a, band, rule, decision
<1>8. /\ v \in VerdictType /\ v.action = a
      /\ v.escalation = call.v.escalation /\ v.bound = call.v.bound
  BY <1>1, <1>3, <1>5 DEF VerdictType
<1> HIDE DEF v
<1>9. d \in CallType /\ d.at = "emit" /\ d.v = v /\ d.base = call.base
  BY <1>1, <1>6, <1>8 DEF CallType, Places
<1>10. Recording(d) /\ Deciding(d)
  <2> HIDE DEF d
  <2>1. AtLeast(d, policy)
    BY <1>3, <1>8, <1>9 DEF AtLeast
  <2>2. QED BY <1>1, <1>9, <2>1 DEF Recording, Finishing, Deciding, Evaluating, Escalating
<1>11. Blocking(d)
  BY <1>1 DEF CallType, Blocking, Turned, Sending, Done
<1>12. Promising(d)
  BY <1>1, <1>8, PlacesApart DEF CallType, Promising, Resting, Sending, Gating, Done, Evaluating
<1>13. d.at \notin Resting /\ Excused(d)
  BY <1>9 DEF Resting, Excused
<1>14. QED BY <1>7, <1>9, <1>10, <1>11, <1>12, <1>13 DEF Good

\* The tool boundary evaluates the policy.
LEMMA PolicyEvaluateGood ==
    ASSUME Inv, PolicyEvaluate
    PROVE  Good(call')
<1>1. At("policyEval") /\ call.at \in Asking
  BY PlacesApart DEF PolicyEvaluate, At, Evaluating
<1>2. CASE Step(UnderPolicy(call, policy))
  BY <1>1, <1>2, UnderPolicyGood DEF Step
<1>3. CASE ControlFault(UnderPolicy(call, policy))
  BY <1>1, <1>3, UnderPolicyGood, ControlFaultGood
<1>4. QED BY <1>2, <1>3 DEF PolicyEvaluate

\* The event is enqueued: the record is at least as strict as the verdict.
LEMMA EmitGood ==
    ASSUME Inv, Emit
    PROVE  Good(call')
<1>1. /\ call.at = "emit" /\ call \in CallType /\ call.v \in VerdictType
      /\ Blocking(call) /\ Deciding(call) /\ Promising(call)
  <2>1. call.at = "emit" /\ call \in CallType /\ Blocking(call) /\ Deciding(call) /\ Promising(call)
    BY DEF Emit, At, Inv, Good
  <2>2. QED BY <2>1 DEF CallType
<1> DEFINE r == Recorded(call, call.v)
           d == [r EXCEPT !.at = "observe"]
<1>2. call' = d
  BY DEF Emit, Step
<1>3. r \in CallType /\ r = [call EXCEPT !.recorded = r.recorded] /\ r.recorded >= Severity(call.v.action)
  BY <1>1, RecordedType
<1> HIDE DEF r
<1>4. d \in CallType /\ d.v = call.v /\ d.recorded = r.recorded /\ d.at = "observe"
      /\ d.base = call.base /\ d.kind = call.kind
  BY <1>3 DEF CallType, Places
<1>5. Recording(d)
  BY <1>3, <1>4 DEF Recording
<1>6. Blocking(d)
  BY <1>1, <1>3 DEF CallType, Blocking, Turned, Sending, Done
<1>7. Promising(d)
  BY <1>1, <1>3, PlacesApart DEF CallType, Promising, Resting, Sending, Gating, Done, Finishing
<1>8. Deciding(d)
  <2> HIDE DEF d
  <2>1. QED BY <1>1, <1>4, PlacesApart DEF Deciding, Evaluating, Escalating, AtLeast, Finishing
<1>9. QED BY <1>2, <1>4, <1>5, <1>6, <1>7, <1>8 DEF Good

\* The breaker observes the verdict.
LEMMA ObserveGood ==
    ASSUME Inv, Observe
    PROVE  Good(call')
<1>1. /\ call.at = "observe" /\ call \in CallType /\ Recording(call)
      /\ Blocking(call) /\ Deciding(call) /\ Promising(call) /\ call.at \in Asking
  <2>1. call.at = "observe"
    BY DEF Observe, At
  <2>2. QED BY <2>1, PlacesApart DEF Inv, Good, Finishing
<1> DEFINE d == To("mode")
<1>2. d \in CallType /\ d.at = "mode"
  BY <1>1 DEF To, CallType, Places
<1>3. Recording(d)
  BY <1>1 DEF To, CallType, Recording, Finishing
<1>4. Blocking(d)
  BY <1>1 DEF To, CallType, Blocking, Turned, Sending, Done
<1>5. Deciding(d)
  BY <1>1, PlacesApart DEF To, CallType, Deciding, Evaluating, Escalating, Finishing
<1>6. Promising(d)
  BY <1>1, PlacesApart DEF To, CallType, Promising, Resting, Sending, Gating, Done, Finishing
<1>7. Good(d) /\ Excused(d) /\ d.at \notin Resting
  BY <1>2, <1>3, <1>4, <1>5, <1>6 DEF Good, Resting, Excused
<1> HIDE DEF d
<1>8. CASE Step(d)
  BY <1>7, <1>8 DEF Step
<1>9. CASE ControlFault(d)
  BY <1>1, <1>7, <1>9, ControlFaultGood
<1>10. QED BY <1>8, <1>9 DEF Observe, d

\* A mode only relaxes, and monitor mode never halts.
LEMMA DowngradeOf ==
    ASSUME NEW e \in BOOLEAN, NEW a \in Actions
    PROVE  /\ Downgrade(e, a) \in Actions
           /\ Severity(Downgrade(e, a)) <= Severity(a)
           /\ ~e => Downgrade(e, a) \notin Halting
BY SeverityOf DEF Downgrade, Actions, Halting

Moded(c, v, p) == [c EXCEPT !.v = v, !.i = 1, !.base = "allowed", !.at = p]

\* The mode changes the verdict and the place only.
LEMMA ModedType ==
    ASSUME NEW c \in CallType, NEW v \in VerdictType, NEW p \in {"transform", "post"}
    PROVE  /\ Moded(c, v, p) \in CallType
           /\ Moded(c, v, p).at = p /\ Moded(c, v, p).v = v
           /\ Moded(c, v, p).kind = c.kind /\ Moded(c, v, p).use = c.use
           /\ Moded(c, v, p).hit = c.hit /\ Moded(c, v, p).recorded = c.recorded
           /\ Moded(c, v, p).told = c.told /\ Moded(c, v, p).skipped = c.skipped
           /\ Moded(c, v, p).bounded = c.bounded /\ Moded(c, v, p).lost = c.lost
           /\ Moded(c, v, p).args = c.args /\ Moded(c, v, p).unsent = c.unsent
           /\ Moded(c, v, p).throughout = c.throughout /\ Moded(c, v, p).ran = c.ran
<1>1. "allowed" \in Actions /\ p \in Places /\ 1 \in Int
  BY DEF Actions, Places
<1>2. Moded(c, v, p) \in CallType
  BY <1>1 DEF Moded, CallType
<1>3. QED BY <1>2 DEF Moded, CallType

\* The mode is applied: no policy is in force for the call any more.
LEMMA ApplyModeGood ==
    ASSUME Inv, ApplyMode
    PROVE  Good(call)'
<1>1. /\ call.at = "mode" /\ call \in CallType /\ Recording(call) /\ call.v \in VerdictType
      /\ Blocking(call) /\ Promising(call) /\ conf.enforces \in BOOLEAN /\ call.v.action \in Actions
  <2>1. call.at = "mode" /\ call \in CallType /\ Recording(call) /\ Blocking(call)
        /\ Promising(call) /\ conf.enforces \in BOOLEAN
    BY ConfType DEF ApplyMode, At, Inv, Good, Context
  <2>2. QED BY <2>1 DEF CallType, VerdictType
<1> DEFINE a == Downgrade(conf.enforces, call.v.action)
           v == [call.v EXCEPT !.action = a]
           p == IF Ext > 0 THEN "transform" ELSE "post"
           d == Moded(call, v, p)
<1>2. a \in Actions /\ Severity(a) <= Severity(call.v.action) /\ (~conf.enforces => a \notin Halting)
  BY <1>1, DowngradeOf
<1>3. call' = d
  BY <1>1 DEF ApplyMode, Step, CallType, VerdictType, Moded
<1> HIDE DEF a
<1>4. v \in VerdictType /\ v.action = a
  BY <1>1, <1>2 DEF VerdictType
<1>5. p \in {"transform", "post"}
  OBVIOUS
<1> HIDE DEF v, p
<1>6. /\ d \in CallType /\ d.at = p /\ d.v = v /\ d.recorded = call.recorded
      /\ d.use = call.use /\ d.throughout = call.throughout /\ d.hit = call.hit
      /\ d.told = call.told /\ d.ran = call.ran /\ d.skipped = call.skipped /\ d.kind = call.kind
      /\ d.bounded = call.bounded /\ d.lost = call.lost /\ d.args = call.args
      /\ d.unsent = call.unsent
  <2>1. call \in CallType /\ v \in VerdictType /\ p \in {"transform", "post"}
    BY <1>1, <1>4, <1>5
  <2>2. QED BY <2>1, ModedType
<1> HIDE DEF d
<1>7. conf' = conf /\ listed' = listed
  BY DEF ApplyMode, Step
<1>8. Recording(call)'
  <2>1. call.recorded \in Int /\ Severity(a) \in Int /\ Severity(call.v.action) \in Int
        /\ call.recorded >= Severity(call.v.action)
    BY <1>1, <1>2, SeverityOf DEF CallType, Recording, Finishing, Actions
  <2>2. QED BY <1>2, <1>3, <1>4, <1>5, <1>6, <2>1 DEF Recording, Finishing
<1>9. Blocking(call)'
  BY <1>1, <1>3, <1>5, <1>6, <1>7 DEF Blocking, Turned, Sending, Done
<1>10. Deciding(call)'
  BY <1>3, <1>5, <1>6 DEF Deciding, Evaluating, Escalating
<1>11. Promising(call)'
  <2>1. /\ \A g \in call.hit : ~Closed(g)
        /\ call.told = "none" /\ ~call.unsent
        /\ call.skipped /\ "controls" \notin call.lost => call.v.escalation = "skipped"
        /\ call.bounded /\ "bounds" \notin call.lost => call.v.bound \/ call.args
    BY <1>1, PlacesApart DEF Promising, Finishing
  <2>2. v.escalation = call.v.escalation /\ v.bound = call.v.bound
    BY <1>1 DEF VerdictType, v
  <2>3. \A g \in call'.hit : ~Closed(g)'
    BY <1>3, <1>6, <1>7, <2>1 DEF Closed
  <2>4. p \notin Resting /\ p \notin Sending /\ p \notin Gating /\ p \notin Done
    BY <1>5 DEF Resting, Sending, Gating, Done
  <2>5. QED BY <1>2, <1>3, <1>4, <1>6, <1>7, <2>1, <2>2, <2>3, <2>4 DEF Promising
<1>12. CallType' = CallType
  BY DEF CallType
<1>13. QED BY <1>3, <1>6, <1>8, <1>9, <1>10, <1>11, <1>12 DEF Good

\* An extension's answer: the verdict w, at the next extension or the gate,
\* with the signals l lost by now.
Transformed(c, w, p, n, l) == [c EXCEPT !.v = w, !.at = p, !.i = n, !.lost = l]

\* An extension relaxed the verdict, or left it, or lost what marked it.
LEMMA TransformedGood ==
    ASSUME Inv, At("transform"), NEW w \in VerdictType, NEW p \in {"transform", "post"}, NEW n \in Int,
           NEW l \in SUBSET Signals,
           Severity(w.action) <= Severity(call.v.action),
           call.lost \subseteq l,
           w.escalation = call.v.escalation \/ "controls" \in l,
           w.bound = call.v.bound \/ call.args \/ "bounds" \in l
    PROVE  /\ Good(Transformed(call, w, p, n, l)) /\ Excused(Transformed(call, w, p, n, l))
           /\ Transformed(call, w, p, n, l).at \notin Resting
<1>1. /\ call.at = "transform" /\ call \in CallType /\ Recording(call) /\ call.v \in VerdictType
      /\ Blocking(call) /\ Promising(call) /\ call.v.action \in Actions /\ w.action \in Actions
  <2>1. call.at = "transform" /\ call \in CallType /\ Recording(call) /\ Blocking(call) /\ Promising(call)
    BY DEF At, Inv, Good
  <2>2. QED BY <2>1 DEF CallType, VerdictType
<1> DEFINE d == [call EXCEPT !.v = w, !.at = p, !.i = n, !.lost = l]
<1>2. Transformed(call, w, p, n, l) = d
  BY DEF Transformed
<1>4. p \in Places
  BY DEF Places
<1>5. d \in CallType
  <2>1. call \in CallType
    BY <1>1
  <2>2. QED BY <2>1, <1>4 DEF CallType
<1>6. d.at = p /\ d.v = w /\ d.recorded = call.recorded
  BY <1>1 DEF CallType
<1>7. Recording(d)
  <2>1. call.recorded \in Int /\ Severity(w.action) \in Int /\ Severity(call.v.action) \in Int
        /\ call.recorded >= Severity(call.v.action)
    BY <1>1, SeverityOf DEF CallType, Recording, Finishing, Actions
  <2> HIDE DEF d
  <2>2. QED BY <1>6, <2>1 DEF Recording, Finishing
<1>8. Blocking(d)
  BY <1>1 DEF CallType, Blocking, Turned, Sending, Done
<1>9. Deciding(d)
  <2> HIDE DEF d
  <2>1. QED BY <1>6 DEF Deciding, Evaluating, Escalating
<1>10. Promising(d)
  <2>1. ~conf.enforces => w.action \notin Halting
    BY <1>1, SeverityOf DEF Promising, Halting, Actions
  <2>2. QED BY <1>1, <2>1, PlacesApart DEF CallType, Promising, Resting, Sending, Gating, Done, Finishing
<1>11. d.at \notin Resting /\ Excused(d)
  BY <1>6 DEF Resting, Excused
<1>12. QED BY <1>2, <1>5, <1>7, <1>8, <1>9, <1>10, <1>11 DEF Good

\* An extension transforms the verdict.
LEMMA TransformGood ==
    ASSUME Inv, Transform
    PROVE  Good(call')
<1>1. At("transform") /\ call \in CallType /\ call.at \in Asking /\ call.at = "transform"
  <2>1. At("transform") /\ call.at = "transform"
    BY DEF Transform, At
  <2>2. QED BY <2>1, PlacesApart DEF Inv, Good, Finishing
<1>2. /\ call.v \in VerdictType /\ call.v.action \in Actions /\ call.v.band \in AllBands
      /\ call.lost \in SUBSET Signals
  BY <1>1 DEF CallType, VerdictType
<1> DEFINE onward == AfterExt(call, "transform", "post")
<1>3. PICK p \in {"transform", "post"}, n \in Int : onward = Moved(call, p, n)
  BY <1>1, AfterExtShape
<1> HIDE DEF onward
<1>4. ASSUME NEW a \in Weaker(call.v.action), Step(Copied(onward, a))
      PROVE  Good(call')
  <2> DEFINE w == [call.v EXCEPT !.action = a]
  <2>1. a \in Actions /\ Severity(a) <= Severity(call.v.action)
    BY DEF Weaker
  <2>2. Copied(onward, a) = Transformed(call, w, p, n, call.lost)
    BY <1>1, <1>2, <1>3 DEF Copied, Moved, Transformed, CallType, VerdictType
  <2>3. w \in VerdictType /\ w.action = a /\ w.escalation = call.v.escalation /\ w.bound = call.v.bound
    BY <1>2, <2>1 DEF VerdictType
  <2> HIDE DEF w
  <2>4. Good(Transformed(call, w, p, n, call.lost))
    BY <1>1, <1>2, <2>1, <2>3, TransformedGood
  <2>5. QED BY <1>4, <2>2, <2>4 DEF Step
<1>5. ASSUME NEW a \in Weaker(call.v.action), Step(Replaced(onward, a))
      PROVE  Good(call')
  <2> DEFINE w == Plain(a, call.v.band, FALSE)
             l == call.lost \cup (IF call.args THEN {"controls"} ELSE Signals)
  <2>1. a \in Actions /\ Severity(a) <= Severity(call.v.action)
    BY DEF Weaker
  <2>2. Replaced(onward, a) = Transformed(call, w, p, n, l)
    BY <1>1, <1>2, <1>3 DEF Replaced, Moved, Transformed, CallType
  <2>3. w \in VerdictType /\ w.action = a
    BY <1>2, <2>1, PlainType
  <2>4. /\ l \in SUBSET Signals /\ call.lost \subseteq l /\ "controls" \in l
        /\ call.args \/ "bounds" \in l
    BY <1>2 DEF Signals
  <2> HIDE DEF w, l
  <2>5. Good(Transformed(call, w, p, n, l))
    BY <1>1, <2>1, <2>3, <2>4, TransformedGood
  <2>6. QED BY <1>5, <2>2, <2>5 DEF Step
<1>7. CASE ControlFault(onward)
  <2>1. Severity(call.v.action) <= Severity(call.v.action)
    BY <1>2, SeverityOf DEF Actions
  <2>2. onward = Transformed(call, call.v, p, n, call.lost)
    BY <1>1, <1>3 DEF Moved, Transformed, CallType
  <2>3. /\ Good(Transformed(call, call.v, p, n, call.lost))
        /\ Excused(Transformed(call, call.v, p, n, call.lost))
        /\ Transformed(call, call.v, p, n, call.lost).at \notin Resting
    BY <1>1, <1>2, <2>1, TransformedGood
  <2>4. QED BY <1>1, <1>7, <2>2, <2>3, ControlFaultGood
<1>8. CASE Step([To("answered") EXCEPT !.told = "contract"])
  <2> DEFINE d == [To("answered") EXCEPT !.told = "contract"]
  <2>1. d \in CallType
    BY <1>1 DEF To, CallType, Places, Tellings
  <2>2. Blocking(call) /\ Promising(call)
    BY DEF Inv, Good
  <2>3. Recording(d) /\ Deciding(d)
    BY <1>1 DEF To, CallType, Recording, Finishing, Actions, Deciding, Asking, Done, Evaluating,
       Escalating
  <2>4. Blocking(d)
    BY <1>1, <2>2 DEF To, CallType, Blocking, Turned, Sending, Done
  <2>5. Promising(d)
    BY <1>1, <2>2 DEF To, CallType, Promising, Resting, Asking, Sending, Gating, Done, Promised,
       HeardOf,
                      Turned, Halting
  <2>6. QED BY <1>8, <2>1, <2>3, <2>4, <2>5 DEF Good, Step
<1>9. QED BY <1>4, <1>5, <1>7, <1>8 DEF Transform, onward

\* The gate after the scan refuses what a closed group demands.
LEMMA PostGateGood ==
    ASSUME Inv, PostGate
    PROVE  Good(call')
<1>1. /\ call.at = "post" /\ call \in CallType /\ Recording(call) /\ call.v \in VerdictType
      /\ Blocking(call) /\ Promising(call) /\ call.v.action \in Actions
      /\ call.at \in Asking /\ Context
  <2>1. call.at = "post" /\ call \in CallType /\ Recording(call) /\ Blocking(call) /\ Promising(call)
        /\ Context
    BY DEF PostGate, At, Inv, Good
  <2>2. QED BY <2>1, PlacesApart DEF CallType, VerdictType, Finishing
<1>2. Answer(GateAfter(call))
  BY DEF PostGate
<1>3. "controls" \in Groups /\ "bounds" \in Groups
  BY DEF Groups
<1>4. CASE Closed("controls") /\ call.v.escalation = "skipped"
  <2>1. Answer(Refused(call, "controls"))
    BY <1>2, <1>4 DEF GateAfter
  <2>2. QED BY <1>1, <1>3, <1>4, <2>1, RefusedGood, AnswerGood
<1>5. CASE /\ ~(Closed("controls") /\ call.v.escalation = "skipped")
           /\ Closed("bounds") /\ ~MustHalt(call.v) /\ (call.v.bound \/ call.args)
  <2>1. Answer(Refused(call, "bounds"))
    BY <1>2, <1>5 DEF GateAfter
  <2>2. QED BY <1>1, <1>3, <1>5, <2>1, RefusedGood, AnswerGood
<1>6. CASE /\ ~(Closed("controls") /\ call.v.escalation = "skipped")
           /\ ~(Closed("bounds") /\ ~MustHalt(call.v) /\ (call.v.bound \/ call.args))
  <2> DEFINE told == call.v.action
             d == [call EXCEPT !.at = "answered", !.told = told]
  <2>1. Answer(d)
    BY <1>2, <1>6 DEF GateAfter
  <2>2. told \in Tellings /\ told \in Actions
    BY <1>1 DEF Tellings
  <2>3. Closed("bounds") /\ (call.v.bound \/ call.args) => told \in Halting
    BY <1>6 DEF MustHalt
  <2>4. ~conf.enforces => told \notin Halting
    BY <1>1 DEF Promising
  <2>5. call.recorded >= Severity(told) /\ told # "refused"
    BY <1>1, <2>2 DEF Recording, Finishing, Actions
  <2> HIDE DEF told
  <2>6. d \in CallType
    BY <1>1, <2>2 DEF CallType, Places
  <2>7. /\ d.at = "answered" /\ d.told = told /\ d.hit = call.hit /\ d.skipped = call.skipped
        /\ d.bounded = call.bounded /\ d.lost = call.lost /\ d.v = call.v /\ d.rule = call.rule
        /\ d.recorded = call.recorded /\ d.unsent = call.unsent
    BY <1>1 DEF CallType
  <2>8. Recording(d)
    <3> HIDE DEF d
    <3>1. QED BY <2>5, <2>7 DEF Recording, Finishing, Owed
  <2>9. Deciding(d)
    BY <1>1 DEF CallType, Deciding, Asking, Done, Evaluating, Escalating
  <2>10. Blocking(d)
    BY <1>1 DEF CallType, Blocking, Turned, Sending, Done
  <2>11. Promised(d)
    <3>1. /\ \A g \in call.hit : ~Closed(g)
          /\ call.skipped /\ "controls" \notin call.lost => call.v.escalation = "skipped"
          /\ call.bounded /\ "bounds" \notin call.lost => call.v.bound \/ call.args
          /\ ~call.unsent
      BY <1>1 DEF Promising
    <3> HIDE DEF d
    <3>2. ASSUME NEW g \in HeardOf(d), Closed(g)
          PROVE  told \in Halting
      <4>1. g \notin call.hit
        BY <3>1, <3>2
      <4>2. /\ g \in Signals /\ g \notin call.lost
            /\ IF g = "controls" THEN call.skipped ELSE call.bounded
        BY <2>7, <3>2, <4>1 DEF HeardOf
      <4>3. g = "bounds"
        BY <1>6, <3>1, <3>2, <4>2 DEF Signals
      <4>4. QED BY <2>3, <3>1, <3>2, <4>2, <4>3
    <3>3. QED BY <2>4, <2>7, <3>1, <3>2 DEF Promised
  <2>12. Promising(d)
    <3> HIDE DEF d
    <3>1. QED BY <2>7, <2>11 DEF Promising, Resting, Asking, Sending, Gating, Done
  <2>13. Excused(d)
    BY <2>7 DEF Excused
  <2>14. QED BY <1>1, <2>1, <2>6, <2>8, <2>9, <2>10, <2>12, <2>13, AnswerGood DEF Good
<1>7. QED BY <1>4, <1>5, <1>6

-----------------------------------------------------------------------------
(* The host and the operator.                                              *)

\* The host acts: what is kept blocked is not run.
LEMMA HostActsGood ==
    ASSUME Inv, HostActs
    PROVE  Good(call')
<1>1. /\ call.at = "answered" /\ call \in CallType /\ Blocking(call) /\ Promising(call)
  BY DEF HostActs, At, Inv, Good
<1> DEFINE ran == \/ call.use = "wrapper" /\ RunsTool(call)
                  \/ call.use = "http" /\ SendsRequest(call)
           d == [call EXCEPT !.at = "acted", !.ran = ran]
<1>2. call' = d
  BY <1>1 DEF HostActs, Step, To, CallType
<1>3. ran \in BOOLEAN
  OBVIOUS
<1>4. ran /\ call.throughout => call.use = "http" /\ "internal" \in call.hit
  BY <1>1 DEF Blocking, RunsTool, SendsRequest, Turned, Done
<1> HIDE DEF ran
<1>5. d \in CallType
  BY <1>1, <1>3 DEF CallType, Places
<1>6. Recording(d) /\ Deciding(d)
  BY <1>1 DEF CallType, Recording, Finishing, Deciding, Asking, Done, Evaluating, Escalating
<1>7. Blocking(d)
  BY <1>1, <1>4 DEF CallType, Blocking, Turned, Sending, Done
<1>8. Promising(d)
  BY <1>1 DEF CallType, Promising, Resting, Asking, Sending, Gating, Done, Promised, HeardOf, Turned
<1>9. QED BY <1>2, <1>5, <1>6, <1>7, <1>8 DEF Good

\* A fresh call, at rest, before a response or at its first gate.
Fresh(p, use) == [Idle EXCEPT !.at = p, !.use = use]

\* A fresh call is good.
LEMMA FreshGood ==
    ASSUME NEW p \in {"idle", "response", "gate"}, NEW use \in {"direct", "response"}
    PROVE  Good(Fresh(p, use)) /\ Fresh(p, use).hit = {}
<1> DEFINE d == Fresh(p, use)
<1>1. Idle \in CallType
  BY SignalType DEF Idle, CallType, Places, Uses, Kinds, Actions, Tellings
<1>2. d \in CallType
  BY <1>1 DEF Fresh, CallType, Places, Uses
<1>3. Recording(d)
  BY DEF Fresh, Idle, Recording, Finishing
<1>4. Blocking(d)
  BY DEF Fresh, Idle, Blocking, Sending
<1>5. Deciding(d)
  BY DEF Fresh, Idle, Deciding, Evaluating, Escalating
<1>6. Promising(d)
  BY DEF Fresh, Idle, Promising, Asking, Resting, Done, Sending, Gating
<1>7. d.hit = {}
  BY DEF Fresh, Idle
<1>8. QED BY <1>2, <1>3, <1>4, <1>5, <1>6, <1>7 DEF Good

\* What a call is good for does not depend on the policies once none is in force.
LEMMA FreshGoodNext ==
    ASSUME NEW p \in {"idle", "response"}, call' = Fresh(p, "direct")
    PROVE  Good(call)'
<1>1. call' = [Idle EXCEPT !.at = p, !.use = "direct"]
  BY DEF Fresh
<1>2. Good(Fresh(p, "direct"))
  BY FreshGood
<1>3. CallType' = CallType
  BY DEF CallType
<1>4. call' \in CallType
  BY <1>2 DEF Good
<1>5. Recording(call)'
  BY <1>1 DEF Idle, Recording, Finishing
<1>6. Blocking(call)'
  BY <1>1 DEF Idle, Blocking, Sending
<1>7. Deciding(call)'
  BY <1>1 DEF Idle, Deciding, Evaluating, Escalating, Asking, Resting
<1>8. Promising(call)'
  BY <1>1 DEF Idle, Promising, Asking, Resting, Done, Sending, Gating
<1>9. QED BY <1>3, <1>4, <1>5, <1>6, <1>7, <1>8 DEF Good

\* The calls a host rests with are fresh.
LEMMA FreshCalls ==
    /\ Idle = Fresh("idle", "direct")
    /\ [Idle EXCEPT !.at = "response"] = Fresh("response", "direct")
    /\ [Idle EXCEPT !.at = "gate", !.use = "response"] = Fresh("gate", "response")
<1>1. Idle \in CallType
  BY SignalType DEF Idle, CallType, Places, Uses, Kinds, Actions, Tellings
<1>2. Idle.at = "idle" /\ Idle.use = "direct"
  BY DEF Idle
<1>3. QED BY <1>1, <1>2 DEF Fresh, CallType

\* The host rests.
LEMMA HostRestsGood ==
    ASSUME Inv, HostRests
    PROVE  Good(call)'
<1>1. call' = Fresh("idle", "direct") \/ call' = Fresh("response", "direct")
  BY FreshCalls DEF HostRests, Step
<1>2. QED BY <1>1, FreshGoodNext

\* A response is scanned, or carries no text.
LEMMA ScanResponseGood ==
    ASSUME Inv, ScanResponse
    PROVE  Good(call')
<1>1. call' = Fresh("idle", "direct") \/ call' = Fresh("gate", "response")
  BY FreshCalls DEF ScanResponse, Step
<1>2. QED BY <1>1, FreshGood

\* A call stays good when the policies in force grow and the list is longer.
LEMMA OperatorGood ==
    ASSUME Inv, Operator
    PROVE  Good(call)'
<1>1. /\ call \in CallType /\ Recording(call) /\ Blocking(call) /\ Deciding(call) /\ Promising(call)
      /\ CallType' = CallType
  BY DEF Inv, Good, CallType
<1>2. CASE SetPolicy
  <2>1. call' = call /\ conf' = conf /\ listed' = listed /\ inForce \subseteq inForce'
    BY <1>2 DEF SetPolicy
  <2>2. Recording(call)' /\ Blocking(call)'
    BY <1>1, <2>1 DEF Recording, Blocking, Turned
  <2>3. Deciding(call)'
    BY <1>1, <2>1 DEF Deciding, AtLeast
  <2>4. Promising(call)'
    BY <1>1, <2>1 DEF Promising, Promised, HeardOf, Turned, Closed
  <2>5. QED BY <1>1, <2>1, <2>2, <2>3, <2>4 DEF Good
<1>3. CASE Block
  <2>1. call' = call /\ conf' = conf /\ listed' = TRUE /\ inForce' = inForce
    BY <1>3 DEF Block
  <2>2. Recording(call)' /\ Blocking(call)'
    BY <1>1, <2>1 DEF Recording, Blocking, Turned
  <2>3. Deciding(call)'
    BY <1>1, <2>1 DEF Deciding, AtLeast
  <2>4. Promising(call)'
    BY <1>1, <2>1 DEF Promising, Promised, HeardOf, Turned, Closed
  <2>5. QED BY <1>1, <2>1, <2>2, <2>3, <2>4 DEF Good
<1>4. CASE Unblock
  <2>1. call' = [call EXCEPT !.throughout = FALSE] /\ conf' = conf /\ inForce' = inForce
    BY <1>4 DEF Unblock
  <2>2. Recording(call)' /\ Blocking(call)' /\ call' \in CallType
    BY <1>1, <2>1 DEF Recording, Blocking, Turned, CallType
  <2>3. Deciding(call)'
    BY <1>1, <2>1 DEF Deciding, AtLeast, CallType
  <2>4. Promising(call)'
    BY <1>1, <2>1 DEF Promising, Promised, HeardOf, Turned, CallType, Closed
  <2>5. QED BY <1>1, <2>1, <2>2, <2>3, <2>4 DEF Good
<1>5. QED BY <1>2, <1>3, <1>4 DEF Operator

AnAnswer(a, b) == [Plain(a, b, FALSE) EXCEPT !.escalation = "applied"]

\* What an escalator answers is a verdict.
LEMMA AnswersType == ASSUME NEW v \in Answers \cup {Unanswered} PROVE v \in VerdictType
<1>1. CASE v = Unanswered
  BY <1>1, SignalType DEF Unanswered
<1>2. ASSUME NEW a \in Actions, NEW b \in {0, 2}
      PROVE  AnAnswer(a, b) \in VerdictType
  <2> DEFINE r == Plain(a, b, FALSE)
  <2>1. r \in VerdictType
    BY PlainType, BandOK
  <2> HIDE DEF r
  <2>2. AnAnswer(a, b) = [r EXCEPT !.escalation = "applied"]
    BY DEF r, AnAnswer
  <2>3. QED BY <2>1, <2>2 DEF VerdictType, Escalations
<1>3. Answers = {AnAnswer(a, b) : a \in Actions, b \in {0, 2}}
  BY DEF Answers, AnAnswer
<1>4. QED BY <1>1, <1>2, <1>3

\* The empty box and the fresh box have the type of boxes.
LEMMA BoxesType == NoBox \in BoxType /\ FreshBox \in BoxType
BY SignalType DEF NoBox, FreshBox, BoxType

\* A thread stores a verdict, an error or garbage.
LEMMA LinkStoresBox ==
    ASSUME box \in BoxType, LinkStores
    PROVE  box' \in BoxType /\ box'.status \in {"ok", "error", "garbage"}
<1>1. ASSUME NEW v \in Answers \cup {Unanswered}, box' = [box EXCEPT !.status = "ok", !.value = v]
      PROVE  box' \in BoxType /\ box'.status = "ok"
  <2>1. v \in VerdictType
    BY AnswersType
  <2>2. QED BY <1>1, <2>1 DEF BoxType
<1>2. CASE box' = [box EXCEPT !.status = "error"]
  BY <1>2 DEF BoxType
<1>3. CASE box' = [box EXCEPT !.status = "garbage"]
  BY <1>3 DEF BoxType
<1>4. QED BY <1>1, <1>2, <1>3 DEF LinkStores

-----------------------------------------------------------------------------
(* Every step.                                                             *)

\* The invariant holds when the instance is made.
THEOREM InitInv == Init => Inv /\ Waiting
<1>1. SUFFICES ASSUME Init PROVE Inv /\ Waiting
  OBVIOUS
<1>5. /\ call = Idle /\ box = NoBox /\ inForce = {} /\ conf \in Configs
       /\ policy \in Decisions \cup {NoPolicy} /\ listed = FALSE
  BY <1>1 DEF Init
<1>2. Good(call)
  <2>1. call = Fresh("idle", "direct")
    BY <1>5, FreshCalls
  <2>2. QED BY <2>1, FreshGood
<1>3. Context
  BY <1>5, BoxesType DEF Context
<1>4. Waiting
  BY <1>5 DEF Waiting, Idle, NoBox
<1>6. QED BY <1>2, <1>3, <1>4 DEF Inv

\* What a step that leaves the operator's state alone has to show.
LEMMA KeptContext ==
    ASSUME Inv, UNCHANGED <<conf, policy, listed, inForce>>, box' \in BoxType, Good(call')
    PROVE  Inv'
<1>1. Context'
  BY DEF Inv, Context, BoxType, VerdictType, AllBands
<1>2. Good(call)'
  <2>1. Deciding(call')  = Deciding(call)'
    BY DEF Deciding, AtLeast
  <2>2. Blocking(call') = Blocking(call)'
    BY DEF Blocking, Turned
  <2>3. Promising(call') = Promising(call)'
    BY DEF Promising, Promised, HeardOf, Turned, Closed
  <2>4. Recording(call') = Recording(call)'
    BY DEF Recording
  <2>5. CallType' = CallType
    BY DEF CallType
  <2>6. QED BY <2>1, <2>2, <2>3, <2>4, <2>5 DEF Good
<1>3. QED BY <1>1, <1>2 DEF Inv

CallActions ==
    DestinationExtension \/ DestinationBlocklist \/ DestinationPolicy \/ DestinationFault
    \/ CircuitGate \/ ExtensionGate \/ Tick \/ Unscannable \/ DetectText \/ DetectTool
    \/ Structure \/ PolicyTest \/ PolicyEvaluate \/ Emit \/ Observe \/ Transform \/ PostGate
    \/ InternalFault \/ HostActs \/ ScanResponse

\* The steps of the calling thread that leave the operator's state and the
\* box alone.
LEMMA CallActionsQuiet ==
    ASSUME CallActions
    PROVE  UNCHANGED <<conf, policy, listed, inForce, box>>
<1> USE DEF Step, Answer, Quiet, shared, ControlFault
<1>1. CASE DestinationExtension
  BY <1>1 DEF DestinationExtension
<1>2. CASE DestinationBlocklist
  BY <1>2 DEF DestinationBlocklist
<1>3. CASE DestinationPolicy
  BY <1>3 DEF DestinationPolicy
<1>4. CASE DestinationFault
  BY <1>4 DEF DestinationFault
<1>5. CASE CircuitGate
  BY <1>5 DEF CircuitGate
<1>6. CASE ExtensionGate
  BY <1>6 DEF ExtensionGate
<1>7. CASE Tick
  BY <1>7 DEF Tick
<1>8. CASE Unscannable
  BY <1>8 DEF Unscannable
<1>9. CASE DetectText
  BY <1>9 DEF DetectText
<1>10. CASE DetectTool
  BY <1>10 DEF DetectTool
<1>11. CASE Structure
  BY <1>11 DEF Structure
<1>12. CASE PolicyTest
  BY <1>12 DEF PolicyTest
<1>13. CASE PolicyEvaluate
  BY <1>13 DEF PolicyEvaluate
<1>14. CASE Emit
  BY <1>14 DEF Emit
<1>15. CASE Observe
  BY <1>15 DEF Observe
<1>16. CASE Transform
  BY <1>16 DEF Transform
<1>17. CASE PostGate
  BY <1>17 DEF PostGate
<1>18. CASE InternalFault
  BY <1>18 DEF InternalFault
<1>19. CASE HostActs
  BY <1>19 DEF HostActs
<1>20. CASE ScanResponse
  BY <1>20 DEF ScanResponse
<1>21. QED
  BY <1>1, <1>2, <1>3, <1>4, <1>5, <1>6, <1>7, <1>8, <1>9, <1>10, <1>11, <1>12, <1>13, <1>14,
     <1>15, <1>16, <1>17, <1>18, <1>19, <1>20 DEF CallActions

\* The calling thread keeps the invariant,
LEMMA CallActionsGood ==
    ASSUME Inv, CallActions
    PROVE  Inv'
<1>1. Good(call')
  BY DestinationExtensionGood, DestinationBlocklistGood, DestinationPolicyGood,
     DestinationFaultGood,
     CircuitGateGood, ExtensionGateGood, TickGood, UnscannableGood, DetectTextGood, DetectToolGood,
     StructureGood, PolicyTestGood, PolicyEvaluateGood, EmitGood, ObserveGood, TransformGood,
     PostGateGood, InternalFaultGood, HostActsGood, ScanResponseGood DEF CallActions
<1>2. box' \in BoxType
  BY CallActionsQuiet DEF Inv, Context
<1>3. QED BY <1>1, <1>2, CallActionsQuiet, KeptContext

\* nothing at all keeps it,
LEMMA StutterGood ==
    ASSUME Inv, UNCHANGED vars
    PROVE  Inv'
<1>1. Good(call') /\ box' \in BoxType
  BY DEF vars, Inv, Context
<1>2. QED BY <1>1, KeptContext DEF vars

\* the chain of escalators keeps it,
LEMMA LinkStepsGood ==
    ASSUME Inv, Waiting, ConsultLink \/ LinkStores \/ LinkEnds \/ LinkJoined \/ LinkTimesOut
    PROVE  Inv'
<1>1. Good(call) /\ box \in BoxType
  BY DEF Inv, Context
<1>2. CASE ConsultLink
  BY <1>2, ConsultLinkGood, BoxesType, KeptContext DEF ConsultLink, shared
<1>3. CASE LinkStores
  <2>1. Good(call') /\ UNCHANGED <<conf, policy, listed, inForce>>
    BY <1>1, <1>3 DEF LinkStores, shared
  <2>2. QED BY <1>1, <1>3, <2>1, LinkStoresBox, KeptContext
<1>4. CASE LinkEnds
  BY <1>1, <1>4, KeptContext DEF LinkEnds, shared, BoxType
<1>5. CASE LinkJoined
  BY <1>5, LinkJoinedGood, BoxesType, KeptContext DEF LinkJoined, shared
<1>6. CASE LinkTimesOut
  BY <1>6, LinkTimesOutGood, BoxesType, KeptContext DEF LinkTimesOut, shared
<1>7. QED BY <1>2, <1>3, <1>4, <1>5, <1>6

\* and so do the steps that end a call's policies and the operator's.
LEMMA OtherStepsGood ==
    ASSUME Inv, ApplyMode \/ HostRests \/ Operator
    PROVE  Inv'
<1>1. Good(call)'
  BY ApplyModeGood, HostRestsGood, OperatorGood
<1>2. BoxType' = BoxType
  BY DEF BoxType, VerdictType, AllBands
<1>3. Context'
  <2>1. CASE ApplyMode
    BY <1>2, <2>1 DEF ApplyMode, Step, Inv, Context
  <2>2. CASE HostRests
    BY <1>2, <2>2 DEF HostRests, Step, Inv, Context
  <2>3. CASE SetPolicy
    BY <1>2, <2>3 DEF SetPolicy, Inv, Context
  <2>4. CASE Block
    BY <1>2, <2>4 DEF Block, Inv, Context
  <2>5. CASE Unblock
    BY <1>2, <2>5 DEF Unblock, Inv, Context
  <2>6. QED BY <2>1, <2>2, <2>3, <2>4, <2>5 DEF Operator
<1>4. QED BY <1>1, <1>3 DEF Inv

-----------------------------------------------------------------------------
(* Where a step within a call leads: it carries on, hit by at most one     *)
(* fault more, or it answers.                                              *)

Moves(c) ==
    \/ c.at \in Asking \ {"joining"} /\ \E g \in Groups : c.hit \in {call.hit, call.hit \cup {g}}
    \/ c.at = "answered" /\ call.hit \subseteq c.hit

\* A step that ends or carries on the call without a fault.
LEMMA PlainMoves ==
    ASSUME NEW c, c.at \in (Asking \ {"joining"}) \cup {"answered"}, c.hit = call.hit
    PROVE  Moves(c)
BY DEF Moves, Groups

\* The answer moves the call the same with and without its event.
LEMMA SentMoves ==
    ASSUME NEW c \in CallType, Moves(c), Answer(c)
    PROVE  Moves(call')
<1>1. CASE Step(c)
  BY <1>1 DEF Step
<1>2. CASE c.at = "answered" /\ Step(Unsent(c))
  <2>1. Unsent(c).at = c.at /\ Unsent(c).hit = c.hit
    BY DEF Unsent, CallType
  <2>2. QED BY <1>2, <2>1 DEF Step, Moves
<1>3. QED BY <1>1, <1>2 DEF Answer

\* A refusal is an answer.
LEMMA RefusedMoves ==
    ASSUME NEW c \in CallType, NEW g \in Groups, call.hit \subseteq c.hit
    PROVE  Moves(Refused(c, g)) /\ Moves(Unsent(Refused(c, g)))
<1> DEFINE v == Refusal(conf.closed, g)
           told == IF c.use = "http" /\ c.at \in {"destination", "blocklist", "destPolicy"}
                   THEN "refused" ELSE Downgrade(conf.enforces, v.action)
           n == IF Severity(v.action) > c.recorded THEN Severity(v.action) ELSE c.recorded
           d == [c EXCEPT !.recorded = n, !.at = "answered", !.v = v, !.hit = c.hit \cup {g}, !.told = told]
<1>1. Refused(c, g) = d
  <2>1. Recorded(c, v) = [c EXCEPT !.recorded = n] /\ Recorded(c, v).hit = c.hit
    BY DEF Recorded, CallType
  <2>2. QED BY <2>1 DEF Refused
<1> HIDE DEF v, told, n
<1>2. d.at = "answered" /\ d.hit = c.hit \cup {g}
  BY DEF CallType
<1>3. Unsent(d).at = d.at /\ Unsent(d).hit = d.hit
  BY DEF Unsent, CallType
<1>4. QED BY <1>1, <1>2, <1>3 DEF Moves

\* Failing open is an answer.
LEMMA FaultedOpenMoves ==
    ASSUME NEW c \in CallType, call.hit \subseteq c.hit
    PROVE  Moves(FaultedOpen(c)) /\ Moves(Unsent(FaultedOpen(c)))
<1>1. /\ FaultedOpen(c).at = "answered" /\ FaultedOpen(c).hit = c.hit
      /\ Unsent(FaultedOpen(c)).at = "answered" /\ Unsent(FaultedOpen(c)).hit = c.hit
  BY DEF FaultedOpen, Recorded, Unsent, CallType
<1>2. QED BY <1>1 DEF Moves

\* A fault of the controls is an answer, or one fault more.
LEMMA ControlFaultMoves ==
    ASSUME call \in CallType, NEW c \in CallType, ControlFault(c), c.hit = call.hit,
           c.at \in (Asking \ {"joining"}) \cup {"answered"}
    PROVE  Moves(call')
<1>1. "controls" \in Groups
  BY DEF Groups
<1>2. CASE Closed("controls")
  BY <1>1, <1>2, RefusedMoves DEF ControlFault, Answer, Step
<1>3. CASE ~Closed("controls")
  <2> DEFINE d == [c EXCEPT !.hit = @ \cup {"controls"}]
  <2>1. Answer(d)
    BY <1>3 DEF ControlFault
  <2>2. d \in CallType /\ d.at = c.at /\ d.hit = call.hit \cup {"controls"}
    BY <1>1 DEF CallType
  <2>3. Moves(d)
    BY <1>1, <2>2 DEF Moves
  <2> HIDE DEF d
  <2>4. QED BY <2>1, <2>2, <2>3, SentMoves
<1>4. QED BY <1>2, <1>3

\* An operator's rule is an answer.
LEMMA RuledMoves ==
    ASSUME call \in CallType, NEW v, NEW told
    PROVE  /\ Moves(Ruled(call, v, told)) /\ Ruled(call, v, told).at = "answered"
           /\ Ruled(call, v, told).hit = call.hit
           /\ Answer(Ruled(call, v, told)) => Moves(call')
<1> DEFINE d == Ruled(call, v, told)
<1>1. d.at = "answered" /\ d.hit = call.hit
  BY DEF Ruled, Recorded, CallType
<1>2. Unsent(d).at = "answered" /\ Unsent(d).hit = call.hit
  BY DEF Ruled, Recorded, Unsent, CallType
<1> HIDE DEF d
<1>3. Moves(d) /\ Moves(Unsent(d))
  BY <1>1, <1>2, PlainMoves
<1>4. Answer(d) => Moves(call')
  BY <1>3 DEF Answer, Step
<1>5. QED BY <1>1, <1>3, <1>4 DEF d

\* A call that only moves was not hit by a fault,
LEMMA MovedMoves ==
    ASSUME call \in CallType, NEW p \in Asking \ {"joining"}, NEW n \in Int
    PROVE  /\ Moves(Moved(call, p, n))
           /\ Moved(call, p, n) \in CallType /\ Moved(call, p, n).hit = call.hit
           /\ Moved(call, p, n).at = p
<1>1. Moved(call, p, n) \in CallType
  BY MovedType DEF Asking
<1>2. Moved(call, p, n).hit = call.hit /\ Moved(call, p, n).at = p
  BY DEF Moved, CallType
<1>3. QED BY <1>1, <1>2, PlainMoves

\* whichever way it moves.
LEMMA ToMoves ==
    ASSUME call \in CallType, NEW p \in (Asking \ {"joining"}) \cup {"answered"}
    PROVE  /\ Moves(To(p)) /\ To(p) \in CallType
           /\ To(p).hit = call.hit /\ To(p).at = p
<1>1. To(p) \in CallType
  <2>1. p \in Places
    BY DEF Asking, Places
  <2>2. QED BY <2>1 DEF To, CallType
<1>2. To(p).hit = call.hit /\ To(p).at = p
  BY DEF To, CallType
<1>3. QED BY <1>1, <1>2, PlainMoves

\* The places of an open call that no thread is waited for at.
LEMMA AskingPlaces ==
    {"destination", "blocklist", "destPolicy", "gate", "extGate", "tick", "detect",
     "escalate", "structure", "policyTest", "policyEval", "emit", "observe", "mode",
     "transform", "post"} \subseteq Asking \ {"joining"}
BY DEF Asking, Places, Resting, Done

\* The destination check carries on, faults once or answers;
LEMMA DestinationMoves ==
    ASSUME Inv, DestinationExtension \/ DestinationBlocklist \/ DestinationPolicy \/ DestinationFault
    PROVE  Moves(call')
<1> USE DEF Step
<1>1. call \in CallType
  BY DEF Inv, Good
<1>2. CASE DestinationExtension
  <2>1. PICK n \in Int, p \in {"destination", "blocklist"} :
           AfterExt(call, "destination", "blocklist") = Moved(call, p, n)
    BY <1>1, AfterExtShape
  <2>2. p \in Asking \ {"joining"}
    BY AskingPlaces
  <2>3. CASE Step(AfterExt(call, "destination", "blocklist"))
    BY <1>1, <2>1, <2>2, <2>3, MovedMoves
  <2>4. CASE ControlFault(AfterExt(call, "destination", "blocklist"))
    BY <1>1, <2>1, <2>2, <2>4, MovedMoves, ControlFaultMoves
  <2>5. CASE Step([To("answered") EXCEPT !.told = "contract"])
    <3>1. call'.at = "answered" /\ call'.hit = call.hit
      BY <1>1, <2>5 DEF To, CallType
    <3>2. QED BY <3>1, PlainMoves
  <2>6. CASE \E a \in Halting : Answer(Ruled(call, Plain(a, 2, FALSE), "refused"))
    BY <1>1, <2>6, RuledMoves
  <2>7. QED BY <1>2, <2>3, <2>4, <2>5, <2>6 DEF DestinationExtension, Ruled
<1>3. CASE DestinationBlocklist
  <2>1. \A hit \in BOOLEAN : /\ Moves(ListVerdict(hit)) /\ ListVerdict(hit).hit = call.hit
                             /\ ListVerdict(hit).at \in (Asking \ {"joining"}) \cup {"answered"}
    <3>1. ASSUME NEW hit \in BOOLEAN
          PROVE  ListVerdict(hit) \in {Ruled(call, Plain("blocked", 2, FALSE), "refused"), To("destPolicy")}
      BY DEF ListVerdict, Ruled
    <3>2. /\ Moves(To("destPolicy")) /\ To("destPolicy").hit = call.hit
          /\ To("destPolicy").at \in (Asking \ {"joining"}) \cup {"answered"}
      BY <1>1, ToMoves, AskingPlaces
    <3>3. QED BY <1>1, <3>1, <3>2, RuledMoves
  <2>2. listed \in BOOLEAN /\ At("blocklist")
    BY <1>3 DEF Inv, Context, DestinationBlocklist
  <2>3. ASSUME NEW byExt \in BOOLEAN, Answer(ListVerdict(Listed(byExt)))
        PROVE  Moves(call')
    <3>1. Listed(byExt) \in BOOLEAN /\ (listed => Listed(byExt))
      BY <2>2 DEF Listed
    <3>2. ListVerdict(Listed(byExt)) \in CallType
      BY <2>2, <3>1, ListVerdictGood DEF Good
    <3>3. QED BY <2>1, <2>3, <3>1, <3>2, SentMoves
  <2>4. CASE ControlFault(ListVerdict(Listed(FALSE)))
    <3>1. Listed(FALSE) \in BOOLEAN /\ (listed => Listed(FALSE))
      BY <2>2 DEF Listed
    <3>2. ListVerdict(Listed(FALSE)) \in CallType
      BY <2>2, <3>1, ListVerdictGood DEF Good
    <3>3. QED BY <1>1, <2>1, <2>4, <3>1, <3>2, ControlFaultMoves
  <2>5. QED BY <1>3, <2>3, <2>4 DEF DestinationBlocklist
<1>4. CASE DestinationPolicy
  <2>1. ASSUME NEW text \in BOOLEAN
        PROVE  /\ PolicyDenial(text).hit = call.hit /\ Moves(PolicyDenial(text))
               /\ PolicyDenial(text).at \in (Asking \ {"joining"}) \cup {"answered"}
    <3>1. PolicyDenial(text) \in {Ruled(call, Plain("blocked", 2, FALSE), "refused"),
                                  To("gate"), To("answered")}
      BY DEF PolicyDenial, Ruled
    <3>2. \A p \in {"gate", "answered"} : /\ Moves(To(p)) /\ To(p).hit = call.hit
                                          /\ To(p).at \in (Asking \ {"joining"}) \cup {"answered"}
      BY <1>1, ToMoves, AskingPlaces
    <3>3. QED BY <1>1, <3>1, <3>2, RuledMoves
  <2>2. \A text \in BOOLEAN : PolicyDenial(text) \in CallType
    BY <1>4, PolicyDenialGood DEF DestinationPolicy, Good
  <2>3. ASSUME NEW text \in BOOLEAN, Answer(PolicyDenial(text)) \/ ControlFault(PolicyDenial(text))
        PROVE  Moves(call')
    BY <1>1, <2>1, <2>2, <2>3, ControlFaultMoves, SentMoves
  <2>4. QED BY <1>4, <2>3 DEF DestinationPolicy
<1>5. CASE DestinationFault
  <2> DEFINE c == [call EXCEPT !.hit = @ \cup {"internal"}]
  <2>1. "internal" \in Groups
    BY DEF Groups
  <2>2. c \in CallType /\ call.hit \subseteq c.hit /\ c.hit = call.hit \cup {"internal"}
    BY <1>1, <2>1 DEF CallType
  <2> HIDE DEF c
  <2>3. CASE Answer(Refused(c, "internal"))
    BY <2>1, <2>2, <2>3, RefusedMoves DEF Answer
  <2>4. CASE Answer([c EXCEPT !.at = "gate", !.i = 1])
    <3> DEFINE d == [c EXCEPT !.at = "gate", !.i = 1]
    <3>1. d \in CallType /\ d.at = "gate" /\ d.hit = call.hit \cup {"internal"}
      <4>1. d = Moved(c, "gate", 1) /\ "gate" \in Places /\ 1 \in Int
        BY DEF Moved, Places
      <4>2. d \in CallType
        BY <2>2, <4>1, MovedType
      <4>3. d.at = "gate" /\ d.hit = c.hit
        BY <2>2 DEF CallType
      <4>4. QED BY <2>2, <4>2, <4>3
    <3> HIDE DEF d
    <3>2. Moves(d)
      BY <2>1, <3>1, AskingPlaces DEF Moves
    <3>3. QED BY <2>4, <3>1, <3>2, SentMoves DEF d
  <2>5. QED BY <1>5, <2>3, <2>4 DEF DestinationFault, c
<1>6. QED BY <1>2, <1>3, <1>4, <1>5

\* so do the gates,
LEMMA GateMoves ==
    ASSUME Inv, CircuitGate \/ ExtensionGate \/ Tick
    PROVE  Moves(call')
<1> USE DEF Step
<1>1. call \in CallType /\ call.i \in Int
  BY DEF Inv, Good, CallType
<1>2. ASSUME NEW n \in Int
      PROVE  \A p \in {"extGate", "tick", "detect"} :
                /\ Moves(Moved(call, p, n)) /\ Moved(call, p, n) \in CallType
                /\ Moved(call, p, n).hit = call.hit /\ Moved(call, p, n).at = p
                /\ p \in (Asking \ {"joining"}) \cup {"answered"}
  BY <1>1, <1>2, MovedMoves, AskingPlaces
<1>3. CASE CircuitGate
  <2>1. \E p \in {"extGate", "tick", "detect"} : PastBreaker = Moved(call, p, call.i)
    <3>1. CASE Ext > 0
      BY <1>1, <3>1 DEF PastBreaker, To, Moved, CallType
    <3>2. CASE ~(Ext > 0)
      BY <1>1, <3>2 DEF PastBreaker, Ungated, Moved, CallType
    <3>3. QED BY <3>1, <3>2
  <2>2. CASE Step(PastBreaker)
    BY <1>1, <1>2, <2>1, <2>2
  <2>3. CASE ControlFault(PastBreaker)
    BY <1>1, <1>2, <2>1, <2>3, ControlFaultMoves
  <2>4. CASE Answer(Ruled(call, Plain("blocked", 2, FALSE), "blocked"))
    BY <1>1, <2>4, RuledMoves
  <2>5. QED BY <1>3, <2>2, <2>3, <2>4 DEF CircuitGate, Ruled
<1>4. CASE ExtensionGate
  <2> DEFINE onward == IF call.i < Ext THEN [call EXCEPT !.i = @ + 1]
                       ELSE Ungated([call EXCEPT !.i = 1])
  <2>1. call.at = "extGate"
    BY <1>4 DEF ExtensionGate, At
  <2>2. \E p \in {"extGate", "tick", "detect"}, n \in Int : onward = Moved(call, p, n)
    <3>1. CASE call.i < Ext
      <4>1. onward = Moved(call, "extGate", call.i + 1)
        BY <1>1, <2>1, <3>1 DEF Moved, CallType
      <4>2. call.i + 1 \in Int
        BY <1>1
      <4>3. QED BY <4>1, <4>2
    <3>2. CASE ~(call.i < Ext)
      <4>1. onward \in {Moved(call, "tick", 1), Moved(call, "detect", 1)}
        BY <1>1, <3>2 DEF Ungated, Moved, CallType
      <4>2. QED BY <4>1
    <3>3. QED BY <3>1, <3>2
  <2> HIDE DEF onward
  <2>3. CASE Step(onward)
    BY <1>2, <2>2, <2>3
  <2>4. CASE ControlFault(onward)
    BY <1>1, <1>2, <2>2, <2>4, ControlFaultMoves
  <2>5. CASE \E a \in Actions : Answer(Ruled(call, Plain(a, 2, FALSE), a))
    BY <1>1, <2>5, RuledMoves
  <2>6. QED BY <1>4, <2>3, <2>4, <2>5 DEF ExtensionGate, Ruled, onward
<1>5. CASE Tick
  <2>1. /\ Moves(To("detect")) /\ To("detect") \in CallType /\ To("detect").hit = call.hit
        /\ To("detect").at \in (Asking \ {"joining"}) \cup {"answered"}
    BY <1>1, ToMoves, AskingPlaces
  <2>2. QED BY <1>1, <1>5, <2>1, ControlFaultMoves DEF Tick
<1>6. QED BY <1>3, <1>4, <1>5

\* detection,
LEMMA DetectMoves ==
    ASSUME Inv, DetectText \/ DetectTool \/ Unscannable
    PROVE  Moves(call')
<1> USE DEF Step
<1>1. call \in CallType /\ call.i \in Int
  BY DEF Inv, Good, CallType
<1>2. CASE DetectText
  <2>1. ASSUME NEW v \in VerdictType, NEW p \in {"escalate", "structure"}, NEW n \in Int
        PROVE  Judged(call, v, p, n, FALSE).at = p /\ Judged(call, v, p, n, FALSE).hit = call.hit
    BY <1>1 DEF Judged, CallType
  <2>2. ASSUME NEW band \in Bands, NEW bound \in BOOLEAN, NEW capped \in BOOLEAN,
               call' = [call EXCEPT !.v = Scanned(band, bound), !.i = 1, !.bounded = bound,
                           !.at = IF band = 1 /\ ~capped /\ Links > 0 THEN "escalate"
                                  ELSE "structure"]
        PROVE  Moves(call')
    <3>1. call'.at \in {"escalate", "structure"} /\ call'.hit = call.hit
      BY <1>1, <2>2 DEF CallType
    <3>2. QED BY <3>1, AskingPlaces, PlainMoves
  <2>3. CASE ControlFault([call EXCEPT !.v = Scanned(0, FALSE), !.at = "structure"])
    <3> DEFINE d == [call EXCEPT !.v = Scanned(0, FALSE), !.at = "structure"]
    <3>1. d = Judged(call, Scanned(0, FALSE), "structure", call.i, FALSE)
      <4>1. At("detect")
        BY <1>2, Zenon DEF DetectText
      <4>2. call.bounded = FALSE
        BY <1>1, <4>1 DEF At, Inv, Good, Promising, Gating, CallType
      <4>3. QED BY <1>1, <4>2 DEF Judged, CallType
    <3>2. 0 \in Bands /\ At("detect") /\ call.kind # "tool_call"
      <4>1. 0 \in Bands
        BY DEF Bands
      <4>2. At("detect") /\ call.kind # "tool_call"
        BY <1>2, Zenon DEF DetectText
      <4>3. QED BY <4>1, <4>2
    <3>3. Scanned(0, FALSE) \in VerdictType
      BY <3>2, ScannedType
    <3>4. Good(Judged(call, Scanned(0, FALSE), "structure", call.i, FALSE))
      BY <1>1, <3>2, <3>3, JudgedGood
    <3> HIDE DEF d
    <3>5. d \in CallType
      BY <3>1, <3>4 DEF Good
    <3>6. d.at = "structure" /\ d.hit = call.hit
      BY <1>1, <2>1, <3>1, <3>3
    <3>7. QED BY <1>1, <2>3, <3>5, <3>6, AskingPlaces, ControlFaultMoves DEF d
  <2>4. QED BY <1>2, <2>2, <2>3 DEF DetectText
<1>3. CASE DetectTool
  <2>1. call'.at = "policyTest" /\ call'.hit = call.hit
    BY <1>1, <1>3 DEF DetectTool, CallType
  <2>2. QED BY <2>1, AskingPlaces, PlainMoves
<1>4. CASE Unscannable
  <2>1. call'.at = "post" /\ call'.hit = call.hit
    BY <1>1, <1>4 DEF Unscannable, Recorded, CallType
  <2>2. QED BY <2>1, AskingPlaces, PlainMoves
<1>5. QED BY <1>2, <1>3, <1>4

\* a link that had no opinion,
LEMMA NextLinkMoves ==
    ASSUME NEW c \in CallType, c.hit = call.hit
    PROVE  Moves(NextLink(c))
<1>1. NextLink(c).at \in {"escalate", "structure"} /\ NextLink(c).hit = call.hit
  BY DEF NextLink, ChainEnds, CallType
<1>2. QED BY <1>1, AskingPlaces, PlainMoves

\* the links,
LEMMA LinkMoves ==
    ASSUME Inv, Waiting, LinkJoined \/ LinkTimesOut
    PROVE  Moves(call')
<1>1. call \in CallType /\ call.at = "joining" /\ box \in BoxType
  BY DEF Inv, Good, Context, LinkJoined, LinkTimesOut, At
<1>2. Skipped(call) \in CallType /\ Skipped(call).hit = call.hit
  <2>1. Skipped(call) \in CallType
    BY <1>1, SkippedGood DEF Good
  <2>2. QED BY <1>1, <2>1 DEF Skipped, CallType
<1>3. CASE LinkTimesOut
  BY <1>2, <1>3, NextLinkMoves DEF LinkTimesOut
<1>4. CASE LinkJoined
  <2>1. box.status \in {"ok", "error", "garbage"}
    BY <1>1, <1>4 DEF Waiting, BoxType, LinkJoined
  <2>2. CASE box.status = "ok" /\ box.value = Unanswered
    BY <1>1, <1>4, <2>2, NextLinkMoves DEF LinkJoined
  <2>3. CASE box.status = "ok" /\ box.value # Unanswered
    <3>1. call'.at = "structure" /\ call'.hit = call.hit
      BY <1>1, <1>4, <2>3 DEF LinkJoined, Applied, CallType
    <3>2. QED BY <3>1, AskingPlaces, PlainMoves
  <2>4. CASE box.status = "error"
    BY <1>2, <1>4, <2>4, NextLinkMoves DEF LinkJoined
  <2>5. CASE box.status = "garbage"
    <3> DEFINE c == [call EXCEPT !.hit = @ \cup {"internal"}]
    <3>1. "internal" \in Groups
      BY DEF Groups
    <3>2. c \in CallType /\ call.hit \subseteq c.hit
      BY <1>1, <3>1 DEF CallType
    <3>3. call' \in {Refused(c, "internal"), Unsent(Refused(c, "internal")),
                     FaultedOpen(c), Unsent(FaultedOpen(c))}
      BY <1>4, <2>5 DEF LinkJoined
    <3>4. QED BY <3>1, <3>2, <3>3, RefusedMoves, FaultedOpenMoves
  <2>6. QED BY <2>1, <2>2, <2>3, <2>4, <2>5
<1>5. QED BY <1>3, <1>4

\* the steps to the event,
LEMMA VerdictMoves ==
    ASSUME Inv, Structure \/ PolicyTest \/ PolicyEvaluate \/ Emit \/ Observe
    PROVE  Moves(call')
<1> USE DEF Step
<1>1. call \in CallType
  BY DEF Inv, Good
<1>2. CASE Structure
  <2>1. call'.at = "emit" /\ call'.hit = call.hit
    BY <1>1, <1>2 DEF Structure, To, CallType
  <2>2. QED BY <2>1, AskingPlaces, PlainMoves
<1>3. CASE PolicyTest
  <2>1. call'.at \in {"emit", "policyEval"} /\ call'.hit = call.hit
    BY <1>1, <1>3 DEF PolicyTest, To, CallType
  <2>2. QED BY <2>1, AskingPlaces, PlainMoves
<1>4. CASE PolicyEvaluate
  <2> DEFINE d == UnderPolicy(call, policy)
  <2>1. d.at = "emit" /\ d.hit = call.hit
    BY <1>1 DEF UnderPolicy, CallType
  <2>2. d \in CallType
    BY <1>4, UnderPolicyGood DEF PolicyEvaluate, Good
  <2> HIDE DEF d
  <2>3. Step(d) \/ ControlFault(d)
    BY <1>4 DEF PolicyEvaluate, d
  <2>4. QED BY <1>1, <2>1, <2>2, <2>3, AskingPlaces, PlainMoves, ControlFaultMoves
<1>5. CASE Emit
  <2>1. call'.at = "observe" /\ call'.hit = call.hit
    BY <1>1, <1>5 DEF Emit, Recorded, CallType
  <2>2. QED BY <2>1, AskingPlaces, PlainMoves
<1>6. CASE Observe
  <2>1. /\ Moves(To("mode")) /\ To("mode") \in CallType /\ To("mode").hit = call.hit
        /\ To("mode").at \in (Asking \ {"joining"}) \cup {"answered"}
    BY <1>1, ToMoves, AskingPlaces
  <2>2. QED BY <1>1, <1>6, <2>1, ControlFaultMoves DEF Observe
<1>7. QED BY <1>2, <1>3, <1>4, <1>5, <1>6

\* and the steps from the event to the answer.
LEMMA AnswerMoves ==
    ASSUME Inv, ApplyMode \/ Transform \/ PostGate \/ InternalFault
    PROVE  Moves(call')
<1> USE DEF Step
<1>1. call \in CallType
  BY DEF Inv, Good
<1>2. CASE ApplyMode
  <2>1. call'.at \in {"transform", "post"} /\ call'.hit = call.hit
    BY <1>1, <1>2 DEF ApplyMode, CallType
  <2>2. QED BY <2>1, AskingPlaces, PlainMoves
<1>3. CASE Transform
  <2>1. PICK n \in Int, p \in {"transform", "post"} :
           AfterExt(call, "transform", "post") = Moved(call, p, n)
    BY <1>1, AfterExtShape
  <2> DEFINE onward == Moved(call, p, n)
  <2>2. /\ onward \in CallType /\ onward.hit = call.hit
        /\ onward.at \in (Asking \ {"joining"}) \cup {"answered"}
    BY <1>1, AskingPlaces, MovedMoves
  <2> HIDE DEF onward
  <2>3. ASSUME NEW a \in Actions, call' = Copied(onward, a) \/ call' = Replaced(onward, a)
        PROVE  Moves(call')
    <3>1. call'.at = onward.at /\ call'.hit = call.hit
      BY <2>2, <2>3 DEF CallType, Copied, Replaced
    <3>2. QED BY <2>2, <3>1, PlainMoves
  <2>4. CASE ControlFault(onward)
    BY <1>1, <2>2, <2>4, ControlFaultMoves
  <2>5. CASE call' = [To("answered") EXCEPT !.told = "contract"]
    <3>1. call'.at = "answered" /\ call'.hit = call.hit
      BY <1>1, <2>5 DEF To, CallType
    <3>2. QED BY <3>1, PlainMoves
  <2>6. QED BY <1>3, <2>1, <2>3, <2>4, <2>5 DEF Transform, Weaker, onward
<1>4. CASE PostGate
  <2>1. CASE Answer(Refused(call, "controls")) \/ Answer(Refused(call, "bounds"))
    BY <1>1, <2>1, RefusedMoves DEF Groups, Answer
  <2>2. CASE Answer([call EXCEPT !.at = "answered", !.told = call.v.action])
    <3>1. call'.at = "answered" /\ call'.hit = call.hit
      BY <1>1, <2>2 DEF Answer, Unsent, CallType
    <3>2. QED BY <3>1 DEF Moves
  <2>3. QED BY <1>4, <2>1, <2>2 DEF PostGate, GateAfter
<1>5. CASE InternalFault
  <2> DEFINE c == [call EXCEPT !.hit = @ \cup {"internal"}]
  <2>1. "internal" \in Groups
    BY DEF Groups
  <2>2. c \in CallType /\ call.hit \subseteq c.hit
    BY <1>1, <2>1 DEF CallType
  <2>3. call' \in {Refused(c, "internal"), Unsent(Refused(c, "internal")),
                   FaultedOpen(c), Unsent(FaultedOpen(c))}
    BY <1>5 DEF InternalFault, Answer
  <2>4. QED BY <2>1, <2>2, <2>3, RefusedMoves, FaultedOpenMoves
<1>6. QED BY <1>2, <1>3, <1>4, <1>5

\* The steps of the calling thread within a call, with one outcome each.
WithinCall ==
    DestinationExtension \/ DestinationBlocklist \/ DestinationPolicy \/ DestinationFault
    \/ CircuitGate \/ ExtensionGate \/ Tick \/ Unscannable \/ DetectText \/ DetectTool
    \/ LinkJoined \/ LinkTimesOut
    \/ Structure \/ PolicyTest \/ PolicyEvaluate \/ Emit \/ Observe \/ ApplyMode
    \/ Transform \/ PostGate \/ InternalFault

\* Every step within a call carries on, faults once or answers.
LEMMA WithinCallMoves ==
    ASSUME Inv, Waiting, WithinCall
    PROVE  Moves(call') /\ call.at \in Asking
<1>1. Moves(call')
  BY DestinationMoves, GateMoves, DetectMoves, LinkMoves, VerdictMoves, AnswerMoves DEF WithinCall
<1>2. call.at \in Asking
  <2> USE DEF At
  <2>1. CASE DestinationExtension \/ DestinationBlocklist \/ DestinationPolicy \/ DestinationFault
    BY <2>1, AskingPlaces DEF DestinationExtension, DestinationBlocklist, DestinationPolicy,
       DestinationFault
  <2>2. CASE CircuitGate \/ ExtensionGate \/ Tick
    BY <2>2, AskingPlaces DEF CircuitGate, ExtensionGate, Tick
  <2>3. CASE Unscannable \/ DetectText \/ DetectTool
    BY <2>3, AskingPlaces DEF Unscannable, DetectText, DetectTool
  <2>4. CASE LinkJoined \/ LinkTimesOut
    BY <2>4, PlacesApart DEF LinkJoined, LinkTimesOut, Escalating
  <2>5. CASE Structure \/ PolicyTest \/ PolicyEvaluate \/ Emit \/ Observe
    BY <2>5, AskingPlaces DEF Structure, PolicyTest, PolicyEvaluate, Emit, Observe
  <2>6. CASE ApplyMode \/ Transform \/ PostGate
    BY <2>6, AskingPlaces DEF ApplyMode, Transform, PostGate
  <2>7. CASE InternalFault
    BY <2>7, AskingPlaces DEF InternalFault
  <2>8. QED BY <2>1, <2>2, <2>3, <2>4, <2>5, <2>6, <2>7 DEF WithinCall
<1>3. QED BY <1>1, <1>2

\* The steps of the specification, as the proofs group them.
LEMMA NextSplit ==
    ASSUME Next
    PROVE  \/ \E kind \in Kinds, use \in Uses : Begin(kind, use)
           \/ WithinCall \/ ConsultLink \/ HostActs \/ HostRests \/ ScanResponse
           \/ LinkStores \/ LinkEnds \/ Operator
BY DEF Next, CallStep, WithinCall

\* Every step keeps the invariant.
THEOREM StepInv == Inv /\ Waiting /\ [Next]_vars => Inv'
<1>1. SUFFICES ASSUME Inv, Waiting, [Next]_vars PROVE Inv'
  OBVIOUS
<1>2. CASE UNCHANGED vars
  BY <1>1, <1>2, StutterGood
<1>3. ASSUME NEW kind \in Kinds, NEW use \in Uses, Begin(kind, use) PROVE Inv'
  BY <1>1, <1>3, BeginGood
<1>4. CASE CallActions
  BY <1>1, <1>4, CallActionsGood
<1>5. CASE ConsultLink \/ LinkStores \/ LinkEnds \/ LinkJoined \/ LinkTimesOut
  BY <1>1, <1>5, LinkStepsGood
<1>6. CASE ApplyMode \/ HostRests \/ Operator
  BY <1>1, <1>6, OtherStepsGood
<1>7. QED
  BY <1>1, <1>2, <1>3, <1>4, <1>5, <1>6, NextSplit DEF WithinCall, CallActions

\* What a new call looks like from outside.
LEMMA BeginShape ==
    ASSUME NEW kind \in Kinds, NEW use \in Uses, Begin(kind, use)
    PROVE  /\ call.at = "idle" /\ call'.at \in {"gate", "destination", "blocklist"}
           /\ call'.hit = {} /\ UNCHANGED <<conf, box>>
BY DEF Begin, At, Idle

\* What the host's steps look like from outside.
LEMMA HostShapes ==
    ASSUME Inv
    PROVE  /\ HostActs => /\ call.at = "answered" /\ call'.at = "acted" /\ UNCHANGED <<conf, box>>
                          /\ call'.hit = call.hit /\ call'.told = call.told /\ call'.rule = call.rule
                          /\ call'.skipped = call.skipped /\ call'.bounded = call.bounded /\ call'.lost = call.lost
           /\ HostRests => /\ call.at = "acted" /\ call'.at \in Resting /\ call'.hit = {}
                           /\ UNCHANGED <<conf, box>>
           /\ ScanResponse => /\ call.at = "response" /\ call'.at \in {"idle", "gate"} /\ call'.hit = {}
                              /\ UNCHANGED <<conf, box>>
<1>1. call \in CallType
  BY DEF Inv, Good
<1>2. ASSUME HostActs
      PROVE  /\ call.at = "answered" /\ call'.at = "acted" /\ UNCHANGED <<conf, box>>
             /\ call'.hit = call.hit /\ call'.told = call.told /\ call'.rule = call.rule
             /\ call'.skipped = call.skipped /\ call'.bounded = call.bounded /\ call'.lost = call.lost
  <2>1. PICK ran : call' = [call EXCEPT !.at = "acted", !.ran = ran]
    BY <1>1, <1>2 DEF HostActs, Step, To, CallType
  <2>2. call.at = "answered" /\ UNCHANGED <<conf, box>>
    BY <1>2 DEF HostActs, At, Step
  <2>3. QED BY <1>1, <2>1, <2>2 DEF CallType
<1>3. ASSUME HostRests
      PROVE  call.at = "acted" /\ call'.at \in Resting /\ call'.hit = {} /\ UNCHANGED <<conf, box>>
  BY <1>3 DEF HostRests, At, Step, Idle, Resting
<1>4. ASSUME ScanResponse
      PROVE  call.at = "response" /\ call'.at \in {"idle", "gate"} /\ call'.hit = {} /\ UNCHANGED <<conf, box>>
  <2>1. call' \in {Idle, [Idle EXCEPT !.at = "gate", !.use = "response"]}
    BY <1>4 DEF ScanResponse, Step
  <2>2. call'.at \in {"idle", "gate"} /\ call'.hit = {}
    <3>1. CASE call' = Idle
      BY <3>1 DEF Idle
    <3>2. CASE call' = [Idle EXCEPT !.at = "gate", !.use = "response"]
      BY <3>2 DEF Idle
    <3>3. QED BY <2>1, <3>1, <3>2
  <2>3. QED BY <1>4, <2>2 DEF ScanResponse, At, Step
<1>5. QED BY <1>2, <1>3, <1>4

\* An operator does not touch what a call tells its host.
LEMMA OperatorShape ==
    ASSUME Inv, Operator
    PROVE  /\ UNCHANGED <<conf, box>> /\ call'.at = call.at
           /\ call'.hit = call.hit /\ call'.told = call.told /\ call'.rule = call.rule
           /\ call'.skipped = call.skipped /\ call'.bounded = call.bounded /\ call'.lost = call.lost
<1>1. call \in CallType
  BY DEF Inv, Good
<1>2. QED BY <1>1 DEF Operator, SetPolicy, Block, Unblock, CallType

\* Every step keeps the caller waiting on a box in use.
THEOREM StepWaiting == Inv /\ Waiting /\ [Next]_vars => Waiting'
<1>1. SUFFICES ASSUME Inv, Waiting, [Next]_vars PROVE Waiting'
  OBVIOUS
<1>2. CASE UNCHANGED vars
  BY <1>1, <1>2 DEF vars, Waiting
<1>3. CASE WithinCall
  <2>1. call'.at # "joining"
    BY <1>1, <1>3, WithinCallMoves DEF Moves
  <2>2. box' \in {box, NoBox}
    <3>1. CASE LinkJoined \/ LinkTimesOut
      BY <3>1 DEF LinkJoined, LinkTimesOut
    <3>2. CASE ApplyMode
      BY <3>2 DEF ApplyMode, Step
    <3>3. CASE CallActions
      BY <3>3, CallActionsQuiet
    <3>4. QED BY <1>3, <3>1, <3>2, <3>3 DEF WithinCall, CallActions
  <2>3. QED BY <1>1, <2>1, <2>2 DEF Waiting, NoBox
<1>4. ASSUME NEW kind \in Kinds, NEW use \in Uses, Begin(kind, use) PROVE Waiting'
  BY <1>1, <1>4, BeginShape DEF Waiting
<1>5. CASE HostActs \/ HostRests \/ ScanResponse
  BY <1>1, <1>5, HostShapes DEF Waiting, Resting
<1>6. CASE Operator
  BY <1>1, <1>6, OperatorShape DEF Waiting
<1>7. CASE ConsultLink
  BY <1>7 DEF ConsultLink, Waiting, FreshBox
<1>8. CASE LinkStores
  <2>1. call' = call /\ box'.status \in {"ok", "error", "garbage"}
    BY <1>1, <1>8, LinkStoresBox DEF LinkStores, Inv, Context
  <2>2. QED BY <2>1 DEF Waiting
<1>9. CASE LinkEnds
  BY <1>1, <1>9 DEF LinkEnds, Waiting, Inv, Context, BoxType
<1>10. QED
  BY <1>1, <1>2, <1>3, <1>4, <1>5, <1>6, <1>7, <1>8, <1>9, NextSplit

\* The invariant holds throughout, for any number of extensions and links,
\* any set of postures and any policies: the type of every part of the
\* state, and what a call owes at each place of the code (sensor.py, from
\* the gates to _post_scan_gate).
THEOREM AlwaysInv == Spec => [](Inv /\ Waiting)
<1>1. Inv /\ Waiting /\ [Next]_vars => (Inv /\ Waiting)'
  BY StepInv, StepWaiting
<1>2. QED BY InitInv, <1>1, PTL DEF Spec

-----------------------------------------------------------------------------
\* AnswersAreRecorded: whatever the host is told, an event at least as strict
\* was enqueued, or enqueuing the answer's own event failed; and only a
\* refusal, a scan that failed open or an operator's rule can go unrecorded.
\* Under every posture, any number of extensions and links, and every
\* interleaving of the operator and the escalators.
THEOREM RecordedAnswers == Spec => []AnswersAreRecorded
<1>1. Inv => AnswersAreRecorded
  <2>1. SUFFICES ASSUME Inv PROVE AnswersAreRecorded
    OBVIOUS
  <2>2. call \in CallType /\ Recording(call) /\ Promising(call)
    BY <2>1 DEF Inv, Good
  <2>3. call.at \in Resting \cup Asking \cup Done
    BY <2>2 DEF CallType, Asking
  <2>4. call.unsent => call.rule \/ call.v.status \in Unsendable
    BY <2>2, <2>3 DEF Promising, Promised
  <2>5. QED BY <2>2, <2>4 DEF Recording, Unsendable, AnswersAreRecorded, At
<1>2. QED BY <1>1, AlwaysInv, PTL

\* BlockedNeverRuns: a tool or a URL kept blocked during the whole call is
\* not run or requested, unless the destination check itself faulted.
THEOREM BlockedStays == Spec => []BlockedNeverRuns
<1>1. Inv => BlockedNeverRuns
  BY DEF Inv, Good, Blocking, BlockedNeverRuns
<1>2. QED BY <1>1, AlwaysInv, PTL

\* DecidedUnderAPolicy: although the tool boundary reads _policy twice, the
\* verdict is at least as strict as under one policy in force in the call.
THEOREM PolicyDecides == Spec => []DecidedUnderAPolicy
<1>1. Inv => DecidedUnderAPolicy
  BY DEF Inv, Good, Deciding, AtLeast, DecidedUnderAPolicy, At
<1>2. QED BY <1>1, AlwaysInv, PTL

\* SkippedIsTold: a link that could not answer shows in the answer of the
\* scan, through the rest of the chain, the mode and the extensions, unless
\* the mark was lost in one of the four ways the code has.
THEOREM SkipIsTold == Spec => []SkippedIsTold
<1>1. Inv => SkippedIsTold
  BY DEF Inv, Good, Promising, Promised, Done, SkippedIsTold, At
<1>2. QED BY <1>1, AlwaysInv, PTL

-----------------------------------------------------------------------------
\* The refinement of Boundary.
PHit == IF Stage = "answered" THEN Heard ELSE call.hit
PClosed == {g \in Groups : Closed(g)}
PAsked == Stage = "answered" /\ call.rule

\* The stage of the promise, from the place in the code,
LEMMA StageOf ==
    /\ call.at \in Resting => Stage = "idle"
    /\ call.at \in Done => Stage = "answered"
    /\ call.at \in Asking => Stage = "asked"
BY DEF Stage, Resting, Done, Asking

\* and after a step.
LEMMA StageOfNext ==
    /\ call'.at \in Resting => Stage' = "idle"
    /\ call'.at \in Done => Stage' = "answered"
    /\ call'.at \in Asking => Stage' = "asked"
BY DEF Stage, Resting, Done, Asking

\* The groups closed by the operator are fixed.
LEMMA ClosedFixed == ASSUME UNCHANGED conf PROVE PClosed' = PClosed
BY DEF PClosed, Closed

\* What leaves the mapped variables alone is a stutter.
LEMMA VarsKept ==
    ASSUME UNCHANGED conf, Stage' = Stage, PHit' = PHit, Told' = Told, PAsked' = PAsked
    PROVE  UNCHANGED Promise!vars
<1>1. conf.enforces' = conf.enforces /\ PClosed' = PClosed
  BY ClosedFixed
<1>2. QED BY <1>1 DEF Promise!vars, PClosed, PHit, PAsked

\* A step that answers keeps the promise: a call hit by a fault of a closed
\* group does not pass, and a monitoring sensor halts only by an explicit rule.
LEMMA Answering ==
    ASSUME Inv, Inv', call.at \in Asking, call'.at = "answered", call.hit \subseteq call'.hit,
           UNCHANGED conf
    PROVE  Promise!Answer
<1>1. Stage = "asked" /\ Stage' = "answered"
  BY StageOf, StageOfNext DEF Done
<1>2. PHit = call.hit /\ PHit' = Heard'
  BY <1>1 DEF PHit
<1>3. call \in CallType /\ call' \in CallType
  BY DEF Inv, Good, CallType
<1>4. call.hit \subseteq Heard' /\ Heard' \subseteq Groups
  BY <1>3 DEF Heard, Noticed, Signals, CallType, Groups
<1>5. Heard' \in SUBSET Groups /\ Heard' = call.hit \cup Heard'
  BY <1>4
<1>6. Promised(call)'
  BY DEF Inv, Good, Promising, Done
<1>7. Told' = IF call'.told \in Halting THEN "halt"
              ELSE IF call'.told \in {"refused", "contract"} THEN "raise" ELSE "pass"
  BY <1>1 DEF Told
<1>8. conf.enforces /\ Heard' \cap PClosed' # {} => Told' # "pass"
  BY <1>6, <1>7 DEF Promised, Turned, Heard, Noticed, HeardOf, PClosed
<1>9. ~conf.enforces /\ Told' = "halt" => call'.rule
  BY <1>6, <1>7 DEF Promised
<1>10. Told' \in {"pass", "halt", "raise"} /\ call'.rule \in BOOLEAN
  BY <1>3, <1>7 DEF CallType
<1>11. PClosed' = PClosed
  BY ClosedFixed
<1>12. QED
  BY <1>1, <1>2, <1>5, <1>8, <1>9, <1>10, <1>11 DEF Promise!Answer, PHit, PClosed

\* A step that leaves alone what the host can see is a stutter.
LEMMA SameOutside ==
    ASSUME UNCHANGED conf, Stage' = Stage,
           call'.hit = call.hit, call'.told = call.told, call'.rule = call.rule,
           call'.skipped = call.skipped, call'.bounded = call.bounded, call'.lost = call.lost
    PROVE  UNCHANGED Promise!vars
<1>1. Heard' = Heard
  BY DEF Heard, Noticed
<1>2. PHit' = PHit /\ Told' = Told /\ PAsked' = PAsked
  BY <1>1 DEF PHit, Told, PAsked
<1>3. QED BY <1>2, VarsKept

\* A step within a call is a fault, the answer or a stutter.
LEMMA CallPromise ==
    ASSUME Inv, Inv', WithinCall, Waiting
    PROVE  Promise!Next \/ UNCHANGED Promise!vars
<1>1. Moves(call') /\ call.at \in Asking /\ UNCHANGED conf
  <2>1. UNCHANGED conf
    <3>1. CASE LinkJoined \/ LinkTimesOut
      BY <3>1 DEF LinkJoined, LinkTimesOut
    <3>2. CASE ApplyMode
      BY <3>2 DEF ApplyMode, Step
    <3>3. CASE CallActions
      BY <3>3, CallActionsQuiet
    <3>4. QED BY <3>1, <3>2, <3>3 DEF WithinCall, CallActions
  <2>2. QED BY <2>1, WithinCallMoves
<1>2. CASE call'.at = "answered" /\ call.hit \subseteq call'.hit
  BY <1>1, <1>2, Answering DEF Promise!Next
<1>3. ASSUME call'.at \in Asking, NEW g \in Groups, call'.hit \in {call.hit, call.hit \cup {g}}
      PROVE  Promise!Next \/ UNCHANGED Promise!vars
  <2>1. Stage = "asked" /\ Stage' = "asked"
    BY <1>1, <1>3, StageOf, StageOfNext
  <2>2. Told' = Told /\ PAsked' = PAsked /\ PHit = call.hit /\ PHit' = call'.hit
    BY <2>1 DEF Told, PAsked, PHit
  <2>3. CASE call'.hit = call.hit
    BY <1>1, <2>1, <2>2, <2>3, VarsKept
  <2>4. CASE call'.hit = call.hit \cup {g}
    <3>1. Promise!Fault
      BY <1>1, <1>3, <2>1, <2>2, <2>4, ClosedFixed DEF Promise!Fault, PHit, PClosed, PAsked
    <3>2. QED BY <3>1 DEF Promise!Next
  <2>5. QED BY <1>3, <2>3, <2>4
<1>4. QED BY <1>1, <1>2, <1>3 DEF Moves

\* A call that begins is a question.
LEMMA AskPromise ==
    ASSUME Inv, call.at \in Resting, call'.at \in Asking, call'.hit = {}, UNCHANGED conf
    PROVE  Promise!Ask
<1>1. Stage = "idle" /\ Stage' = "asked"
  BY StageOf, StageOfNext
<1>2. call.hit = {}
  BY DEF Inv, Good, Promising
<1>3. Told' = Told /\ PAsked' = PAsked /\ PHit = PHit'
  BY <1>1, <1>2 DEF Told, PAsked, PHit
<1>4. QED BY <1>1, <1>3, ClosedFixed DEF Promise!Ask, PHit, PClosed, PAsked

\* A host that rests ends the exchange.
LEMMA RestPromise ==
    ASSUME Inv, call.at = "acted", call'.at \in Resting, call'.hit = {}, UNCHANGED conf
    PROVE  Promise!Rest
<1>1. Stage = "answered" /\ Stage' = "idle"
  BY StageOf, StageOfNext DEF Done
<1>2. Told' = "pass" /\ PAsked' = FALSE /\ PHit' = {}
  BY <1>1 DEF Told, PAsked, PHit
<1>3. QED BY <1>1, <1>2, ClosedFixed DEF Promise!Rest, PHit, PClosed, PAsked

\* Every step of the sensor is a step of the promise or a stutter.
LEMMA StepPromise ==
    ASSUME Inv, Inv', Waiting, [Next]_vars
    PROVE  [Promise!Next]_(Promise!vars)
<1>1. CASE UNCHANGED vars
  <2>1. Stage' = Stage
    BY <1>1 DEF vars, Stage
  <2>2. QED BY <1>1, <2>1, SameOutside DEF vars
<1>2. CASE WithinCall
  BY <1>2, CallPromise
<1>3. ASSUME NEW kind \in Kinds, NEW use \in Uses, Begin(kind, use)
      PROVE  Promise!Next
  <2>1. call.at \in Resting /\ call'.at \in Asking /\ call'.hit = {} /\ UNCHANGED conf
    BY <1>3, BeginShape, AskingPlaces DEF Resting
  <2>2. QED BY <2>1, AskPromise DEF Promise!Next
<1>4. CASE ConsultLink
  <2>1. /\ UNCHANGED conf /\ call' = To("joining") /\ call.at = "escalate" /\ call \in CallType
    BY <1>4 DEF ConsultLink, At, Inv, Good
  <2>2. /\ call'.at = "joining" /\ call'.hit = call.hit /\ call'.told = call.told
        /\ call'.rule = call.rule /\ call'.skipped = call.skipped
        /\ call'.bounded = call.bounded /\ call'.lost = call.lost
    BY <2>1 DEF To, CallType
  <2>3. Stage' = Stage
    BY <2>1, <2>2, StageOf, StageOfNext, PlacesApart DEF Escalating
  <2>4. QED BY <2>1, <2>2, <2>3, SameOutside
<1>5. CASE HostActs
  <2>1. Stage' = Stage
    BY <1>5, HostShapes, StageOf, StageOfNext DEF Done
  <2>2. QED BY <1>5, <2>1, HostShapes, SameOutside
<1>6. CASE HostRests
  BY <1>6, HostShapes, RestPromise DEF Promise!Next
<1>7. CASE ScanResponse
  <2>1. call.at \in Resting /\ call'.at \in {"idle", "gate"} /\ call'.hit = {} /\ UNCHANGED conf
    BY <1>7, HostShapes DEF Resting
  <2>2. CASE call'.at = "gate"
    BY <2>1, <2>2, AskingPlaces, AskPromise DEF Promise!Next
  <2>3. CASE call'.at = "idle"
    <3>1. Stage = "idle" /\ Stage' = "idle"
      BY <2>1, <2>3, StageOf, StageOfNext DEF Resting
    <3>2. call.hit = {}
      BY <2>1 DEF Inv, Good, Promising
    <3>3. Told' = Told /\ PAsked' = PAsked /\ PHit' = PHit
      BY <2>1, <3>1, <3>2 DEF Told, PAsked, PHit
    <3>4. QED BY <2>1, <3>1, <3>3, VarsKept
  <2>4. QED BY <2>1, <2>2, <2>3
<1>8. CASE Operator
  <2>1. Stage' = Stage
    BY <1>8, OperatorShape DEF Stage
  <2>2. QED BY <1>8, <2>1, OperatorShape, SameOutside
<1>9. CASE LinkStores \/ LinkEnds
  <2>1. UNCHANGED <<conf, call>>
    BY <1>9 DEF LinkStores, LinkEnds
  <2>2. Stage' = Stage
    BY <2>1 DEF Stage
  <2>3. QED BY <2>1, <2>2, SameOutside
<1>10. QED
  BY <1>1, <1>2, <1>3, <1>4, <1>5, <1>6, <1>7, <1>8, <1>9, NextSplit

\* The sensor starts where the promise starts.
LEMMA InitPromise == Init => Promise!Init
<1>1. SUFFICES ASSUME Init PROVE Promise!Init
  OBVIOUS
<1>2. Inv /\ call.at = "idle" /\ call.hit = {}
  BY <1>1, InitInv DEF Init, Idle
<1>3. Stage = "idle"
  BY <1>2, StageOf DEF Resting
<1>4. conf.enforces \in BOOLEAN
  BY <1>2, ConfType DEF Inv, Context
<1>5. QED BY <1>2, <1>3, <1>4 DEF Promise!Init, Told

\* KeepsPromise: the boundary implements Boundary. Whatever faults, in
\* whichever order, a call hit by a fault of a closed group, or whose scan
\* noticed a skipped link or a bound of a closed group that the code did not
\* lose on the way, does not pass; monitor mode halts only by an explicit rule.
THEOREM Implements == Spec => KeepsPromise
<1>1. Inv /\ Waiting /\ (Inv /\ Waiting)' /\ [Next]_vars => [Promise!Next]_(Promise!vars)
  BY StepPromise
<1>2. QED BY <1>1, InitPromise, AlwaysInv, PTL DEF Spec, KeepsPromise, Promise!Spec
===============================================================================
