------------------------------ MODULE Detection ------------------------------
(***************************************************************************)
(* One scan of a text by LocalScanner (xaidr/scanner/local.py), stage by   *)
(* stage.  What the patterns find in the text is chosen when the stage     *)
(* that looks for it runs; what the stages do with it is the code's.       *)
(* Scores are in hundredths.                                               *)
(***************************************************************************)
EXTENDS Integers, FiniteSets, FiniteSetsExt

CONSTANTS
    Flag, Block,    \* flag_threshold and block_threshold
    Threats,        \* what a rule of L1 can find
    Intents,        \* what an intent of L2 finds: a threat, and its score
                    \* when a modifier is there too
    Composites,     \* [all: categories asked for, group by group, threat]
    Secrets,        \* scores of the rules of scan_dlp
    Phrases,        \* the sets of primitives a text can hold
    Dangers,        \* scores of a window of a tail
    Probabilities,  \* what the nano model says, in ten-thousandths
    MaxFound,       \* bound: threats found in one layer
    MaxWindows      \* MAX_SCAN_WINDOWS

\* injection, leak: gated categories; directive, payload: rules of injection
\* that are never dampened, the second one live code; command: code execution,
\* never dampened and live; other: not gated.  predicate: the matched text
\* reads as a predicate, not as a name.
ThreatKinds == {"injection", "leak", "directive", "payload", "command", "other"}
AllThreats == [kind: ThreatKinds, score: 1..100, predicate: BOOLEAN]

\* The primitives of the compositional scanner; ai: an explicit target, sysai:
\* "system" as one, which notai, another sense of it, takes back.
Primitives == {"ai", "sysai", "notai", "role", "negation", "unsafe", "secret",
               "protected", "exfiltrates", "source", "authorizes", "overrides",
               "behavior", "persona", "imperative"}

ASSUME DetectionAssumption ==
    /\ Flag \in 1..100 /\ Block \in 1..100 /\ Flag < Block
    /\ Threats \subseteq AllThreats
    /\ Intents \subseteq [threat: AllThreats, modified: 1..100]
    /\ Composites \subseteq [all: SUBSET SUBSET ThreatKinds, threat: AllThreats]
    /\ Phrases \subseteq SUBSET Primitives /\ Probabilities \subseteq 0..10000
    /\ Secrets \subseteq 1..100 /\ Dangers \subseteq 0..100
    /\ MaxWindows \in Nat \ {0}

\* "input" stands for "tool_result" as well: one pipeline reads both.
Directions == {"input", "output", "a2a"}

VARIABLE scan
(* at: the stage; direction; layers: what L1 and L2 found; dlp, composed;  *)
(* frame; active: active_extraction; bypass: a protected text that still   *)
(* asks for extraction; score; capped: flag_band_capped; window: windows   *)
(* of the tail read; forced, reached, model: history, for the properties.  *)

NoScan == [at |-> "idle", direction |-> "input", layers |-> <<{}, {}>>, dlp |-> 0,
           composed |-> 0, frame |-> "none", active |-> FALSE, bypass |-> FALSE,
           score |-> 0, capped |-> FALSE, window |-> 0, forced |-> FALSE,
           reached |-> FALSE, model |-> FALSE]
DetectionInit == scan = NoScan
Stage(at) == scan.at = at
Go(s) == scan' = s
MaxOf(a, b) == IF a > b THEN a ELSE b
MinOf(a, b) == IF a < b THEN a ELSE b
Inbound(s) == s.direction # "output"

-----------------------------------------------------------------------------
(* Scores.                                                                 *)

Category(t) == IF t.kind \in {"directive", "payload"} THEN "injection" ELSE t.kind
\* _is_directive_attack.
Literal(t) == t.kind \in {"directive", "payload", "command"}
Gated(t) == t.kind # "other" /\ ~Literal(t)
Top(found) == Max({0} \cup {t.score : t \in found})
\* Two categories make L1 worse, in either view of the text.
L1Score(found) ==
    IF Cardinality({Category(t) : t \in found}) >= 2
    THEN MinOf(100, (Top(found) * 13) \div 10) ELSE Top(found)

\* _compute_composite.
Composite(l1, l2, dlp) ==
    LET layers == Cardinality({n \in 1..3 : <<l1, l2, dlp>>[n] > 0})
        base == Max({l1, l2, dlp})
        two == IF layers >= 2 THEN MinOf(100, (base * 12) \div 10) ELSE base
    IN  IF layers >= 3 THEN MinOf(100, (two * 11) \div 10) ELSE two

FlagBandCap == MaxOf(Flag, Block - 5)

-----------------------------------------------------------------------------
(* The text is read: L1, L2, DLP, the compositional scanner, the frames.   *)

\* scan_l1: an output is read with rules of its own, none of them gated.
FoundIn(direction) ==
    LET rules == IF direction = "output" THEN {t \in Threats : t.kind = "other"} ELSE Threats
    IN  UNION {kSubset(n, rules) : n \in 0..MinOf(MaxFound, Cardinality(rules))}
Found == FoundIn("input")
\* A rule slower than any honest one is a finding of its own, in the block
\* band; a rule loop out of time is one in the flag band.
Degradations ==
    {[kind |-> "other", score |-> n, predicate |-> FALSE] : n \in {65, 25}}
ReadL1 ==
    /\ Stage("idle")
    /\ \E direction \in Directions :
       \E found \in FoundIn(direction), degraded \in SUBSET Degradations :
        Go([NoScan EXCEPT !.at = "intents", !.direction = direction,
                          !.layers[1] = found \cup degraded])

\* _check_intents: an intent whose action and target are there; a modifier
\* makes it worse.
IntentsFound ==
    UNION {{{IF i \in worse THEN [i.threat EXCEPT !.score = i.modified] ELSE i.threat : i \in held}
              : worse \in SUBSET held} : held \in SUBSET Intents}
SelfReferential == [kind |-> "leak", score |-> 15, predicate |-> FALSE]
\* _check_composites: every group has a category among those found so far.
CompositesOf(found) ==
    {c.threat : c \in {c \in Composites :
        c.all # {} /\ \A group \in c.all : group \cap {Category(t) : t \in found} # {}}}
ReadL2 ==
    /\ Stage("intents")
    /\ \E found \in IntentsFound, probe \in SUBSET {SelfReferential} :
        Go([scan EXCEPT !.at = "secrets",
            !.layers[2] = found \cup probe \cup CompositesOf(scan.layers[1] \cup found \cup probe)])

ReadSecrets ==
    /\ Stage("secrets")
    /\ \E found \in SUBSET Secrets : Go([scan EXCEPT !.at = "relations", !.dlp = Max({0} \cup found)])

\* CompositionalScanner.scan: the relations that hold among the primitives.
Strong == 65
Medium == 45
Weak == 30
IsProtected(p) == p \cap {"protected", "secret"} # {}
AiDirected(p) ==
    \/ "ai" \in p
    \/ "notai" \notin p /\ ("sysai" \in p \/ ("imperative" \in p /\ IsProtected(p)))
Relations(p) ==
    LET has(x) == x \in p
        protected == IsProtected(p)
        negated == has("negation") \/ has("unsafe")
        ai == AiDirected(p)
        relation(holds, confidence) == IF holds THEN {confidence} ELSE {}
    IN  UNION {
        relation(has("role") /\ negated, IF protected THEN Strong ELSE Medium),
        relation(ai /\ has("negation") /\ protected /\ ~has("role"), Strong),
        relation(has("source") /\ has("authorizes") /\ (has("overrides") \/ protected), Strong),
        relation(has("authorizes") /\ ai /\ (has("overrides") \/ protected), Medium),
        relation(has("behavior") /\ (ai \/ has("imperative")) /\ negated, Medium),
        relation(has("overrides") /\ ai /\ protected, Strong),
        relation(has("overrides") /\ protected /\ has("imperative") /\ ~ai, Weak),
        relation(has("role") /\ has("persona"), Medium),
        relation(has("behavior") /\ has("overrides") /\ protected, Medium),
        relation(has("exfiltrates") /\ has("secret"), Strong),
        relation(has("exfiltrates") /\ ~has("secret") /\ ai /\ protected, Medium)}
\* Nothing directed, protected or imperative caps it; between agents it grows.
RelationScore(p, direction) ==
    LET top == Max({0} \cup Relations(p))
        score == IF AiDirected(p) \/ IsProtected(p) \/ "imperative" \in p
                 THEN top ELSE MinOf(top, 4)
    IN  IF direction = "a2a" THEN MinOf((score * 13) \div 10, 85) ELSE score
ReadRelations ==
    /\ Stage("relations")
    /\ \E p \in Phrases :
        Go([scan EXCEPT !.at = "frame", !.composed = RelationScore(p, scan.direction)])

\* descriptive_frame: a veto or an exfiltration of its own text is no frame;
\* a text that protects, and asks for no extraction, is protective.
FrameOf(veto, protects, extracts, describes, asks) ==
    CASE veto -> "none"
      [] protects /\ ~extracts -> "protective"
      [] describes -> "descriptive"
      [] asks -> "interrogative"
      [] OTHER -> "none"
\* protective_override_bypass: what is protected is asked for after all.
Bypasses(protects, unnegated) == protects /\ unnegated

\* History: whether the scan holds what nothing may soften.
ForcedOut(s) ==
    Max({L1Score(s.layers[1]), Top(s.layers[2]), s.composed, s.dlp}) >= Block
ForcedIn(s, active, bypass) ==
    \/ s.dlp >= Block
    \/ bypass
    \/ active /\ \E t \in s.layers[1] \cup s.layers[2] : ~Gated(t) /\ t.score >= Block

\* active: active_extraction; unnegated: an extraction whose own clause does
\* not negate it.  Two readings of one text; neither implies the other.
ReadFrame ==
    /\ Stage("frame")
    /\ \/ ~Inbound(scan) /\ Go([scan EXCEPT !.at = "dampen", !.forced = ForcedOut(scan)])
       \/ /\ Inbound(scan)
          /\ \E veto, protects, active, unnegated, describes, asks \in BOOLEAN :
                LET bypass == Bypasses(protects, unnegated) IN
                Go([scan EXCEPT
                    !.at = "dampen", !.active = active, !.bypass = bypass,
                    !.frame = FrameOf(veto, protects, active \/ unnegated, describes, asks),
                    !.forced = ForcedIn(scan, active, bypass)])

-----------------------------------------------------------------------------
(* _carries_live_command: something found is halt-worthy, and its match,   *)
(* or that of what is found once the cue is stripped (residue), reads as a *)
(* predicate.  directives: the mention frame considers directives too.     *)

Considered(found, directives) ==
    {t \in found : Gated(t) \/ (directives /\ Literal(t))}
CarriesCommand(found, directives, residue) ==
    /\ \E t \in Considered(found, directives) : t.score >= Block
    /\ \E t \in Considered(found \cup residue, directives) : t.predicate
\* What a residue holds: one threat tells as much as several.
Residues == {{}} \cup {{t} : t \in Threats}

HasLiveCommand(found) == \E t \in found : t.kind \in {"payload", "command"}

\* A frame drops the gated threats and the composition, unless the text
\* carries a command; a protective frame is not disarmed.
Dampened(s, residue) ==
    LET all == s.layers[1] \cup s.layers[2]
        disarmed == s.frame # "protective" /\ CarriesCommand(all, FALSE, residue)
        kept == [n \in 1..2 |-> {t \in s.layers[n] : ~Gated(t)}]
    IN  IF s.frame = "none" \/ disarmed
        THEN [s EXCEPT !.score = MaxOf(s.composed, Composite(
                L1Score(s.layers[1]), Top(s.layers[2]), s.dlp))]
        ELSE [s EXCEPT !.layers = kept, !.composed = 0,
                       !.score = Composite(Top(kept[1]), Top(kept[2]), s.dlp)]
Dampen ==
    /\ Stage("dampen")
    /\ \E residue \in Residues :
        LET s == Dampened(scan, residue)
        IN  Go([s EXCEPT !.at = "mention", !.reached = s.score >= Block])

\* What both caps ask: an inbound text, blockable, not for a secret, that
\* asks for nothing to be extracted.
CappableWithSecret(s) == Inbound(s) /\ s.score >= Block /\ ~s.active
Cappable(s) == Inbound(s) /\ s.score >= Block /\ s.dlp < Block /\ ~s.active
Capped(s) == [s EXCEPT !.score = MinOf(@, FlagBandCap), !.capped = TRUE]

\* _residue_is_clean: what is left once the report or the code is taken out is
\* not blank, runs no code and would not be blocked; l2, composed: what L2 and
\* the compositional scanner make of it.
ResidueIsClean(blank, left, l2, composed) ==
    /\ ~blank /\ \A t \in left : t.kind # "command"
    /\ MaxOf(Composite(L1Score(left), l2, 0), composed) < Block

\* artifact_reports_danger: a clause that names a security artifact attributes
\* what follows, or shows it as code.
ReportsDanger(clauses) == clauses \cap {"attributed", "code"} # {}
\* _mention_frame_is_earned: an attack in quotes; or a security artifact that
\* carries no command, or whose command is reported over a clean residue.
Earned(s, quoted, clauses, residue, clean) ==
    \/ quoted
    \/ /\ clauses # {}
       /\ \/ ~CarriesCommand(s.layers[1] \cup s.layers[2], TRUE, residue)
          \/ ReportsDanger(clauses) /\ clean
Mentions(s) ==
    /\ Cappable(s) /\ ~HasLiveCommand(s.layers[1] \cup s.layers[2])
    /\ \E quoted, blank \in BOOLEAN, clauses \in SUBSET {"named", "attributed", "code"},
          residue \in Residues, left \in Found, l2, composed \in {0, Block} :
            Earned(s, quoted, clauses, residue, ResidueIsClean(blank, left, l2, composed))
\* A text that could be a mention need not be one.
MentionCap ==
    /\ Stage("mention")
    /\ \E mention \in {m \in BOOLEAN : m => Mentions(scan)} :
        Go([IF mention THEN Capped(scan) ELSE scan EXCEPT !.at = "documentary"])

\* documentary_mention: a documentary frame around code; its text apart from
\* the code is clean.
IsDocumentary(s) ==
    /\ Cappable(s)
    /\ \E blank \in BOOLEAN, left \in Found, l2, composed \in {0, Block} :
            ResidueIsClean(blank, left, l2, composed)
DocumentaryCap ==
    /\ Stage("documentary")
    /\ \E documentary \in {d \in BOOLEAN : d => IsDocumentary(scan)} :
        Go([IF documentary THEN Capped(scan) ELSE scan EXCEPT
            !.at = "floors", !.layers = <<{}, {}>>, !.composed = 0])

-----------------------------------------------------------------------------
(* After the caps: what only raises the score.                             *)

\* encoded_payload_with_directive: where an encoded blob stands, for each
\* directive to decode or run one.
Encoded(blobs) == blobs \cap {"before", "after"} # {}
\* url_decoded_danger: what L1 finds in the percent-decoded text.
UrlDanger(found) == Top({t \in found : t.kind # "other" \/ t.score >= 90})

Floors ==
    /\ Stage("floors")
    /\ \E blobs \in SUBSET {"before", "after", "apart"}, decoded \in Found, oversized \in BOOLEAN :
        LET floor(holds, score) == IF holds THEN MaxOf(Block, score) ELSE 0
            encoded == Inbound(scan) /\ Encoded(blobs)
        IN  Go([scan EXCEPT
                !.score = Max({@, floor(scan.bypass, 85), floor(encoded, 75),
                               IF Inbound(scan) THEN UrlDanger(decoded) ELSE 0}),
                !.forced = @ \/ encoded,
                !.window = IF oversized THEN 1 ELSE 0, !.dlp = 0,
                !.frame = "none", !.active = FALSE, !.bypass = FALSE,
                !.at = IF oversized THEN "tail" ELSE "model"])

\* iter_scan_windows and _scan_tail: the windows after the first, until the
\* text ends, the windows run out or the time does.
Window ==
    /\ Stage("tail") /\ scan.window < MaxWindows
    /\ \E found \in Dangers, ends \in BOOLEAN :
        Go([scan EXCEPT !.score = MaxOf(@, found), !.window = @ + 1,
                        !.forced = @ \/ found >= Block,
                        !.at = IF ends THEN "floor" ELSE "tail"])
\* What was not read is said: SCAN_INCOMPLETE_SCORE.
TailUnread ==
    /\ Stage("tail")
    /\ Go([scan EXCEPT !.score = MaxOf(@, 25), !.at = "floor"])
\* Any oversized text is at least flagged.
OversizeFloor ==
    /\ Stage("floor")
    /\ Go([scan EXCEPT !.score = MaxOf(@, Flag), !.at = "model", !.window = 0])

\* remap: the model's operating point becomes the flag threshold, and nothing
\* it says passes the flag band.
OperatingPoint == 79
Remapped(p) ==
    CASE p = 0 -> 0
      [] p >= 10000 -> MinOf(100, FlagBandCap)
      [] p < OperatingPoint -> MinOf((Flag * p) \div OperatingPoint, FlagBandCap)
      [] OTHER -> MinOf(Flag + ((100 - Flag) * (p - OperatingPoint)) \div (10000 - OperatingPoint),
                        FlagBandCap)
\* The nano model is heard only when nothing else spoke, on inbound chat of
\* enough words; it never fails the scan, and what it finds is only flagged.
Heard(s, words) == words /\ s.score = 0 /\ s.direction = "input"
Nano ==
    /\ Stage("model")
    /\ \E p \in Probabilities, words \in BOOLEAN :
        LET fires == Heard(scan, words) /\ Remapped(p) >= Flag
        IN  Go([scan EXCEPT !.score = IF fires THEN Flag ELSE @,
                            !.model = fires, !.at = "judged"])

-----------------------------------------------------------------------------
(* The verdict, and whether the escalation chain may hear it.              *)

Verdict(s) == IF s.score >= Block THEN "block" ELSE IF s.score >= Flag THEN "flag" ELSE "allow"
Escalates(s) == Verdict(s) = "flag" /\ ~s.capped

Answer == Stage("judged") /\ Go(NoScan)

DetectionNext ==
    \/ ReadL1 \/ ReadL2 \/ ReadSecrets \/ ReadRelations \/ ReadFrame
    \/ Dampen \/ MentionCap \/ DocumentaryCap \/ Floors
    \/ Window \/ TailUnread \/ OversizeFloor \/ Nano \/ Answer
===============================================================================
