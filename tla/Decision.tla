------------------------------- MODULE Decision -------------------------------
(***************************************************************************)
(* What the sensor decides from: the impact of a tool call, written        *)
(* argument by argument and then classified; the policy document, replaced *)
(* at will (xaidr/local_policy.py), that decides of it; and the scan of a  *)
(* text.  A text and a call are two boundaries: neither reads the other's. *)
(***************************************************************************)
EXTENDS Impact, Policy, Detection

CONSTANTS
    Impacts,        \* what rules find: segments, names (bounded choice)
    Shapes,         \* the segments a command line is written from
    Documents,      \* the policy documents an operator submits
    Requests,       \* what a request says beside the impact
    Extensions,     \* the conditions extensions bring
    MaxParts,       \* bound: segments, statements and URLs in one call
    MaxTerms        \* bound: terms in one clause

\* The shipped rules find what the SQL reader did not read critical
\* (rules/impact-classes.json).
ASSUME DecisionAssumption ==
    /\ Impacts \subseteq Findings /\ Shapes \subseteq Segments
    /\ SqlRule("unparsed", "none") \in [class: Classes, tier: {"critical"}]
    /\ \A doc \in Documents : \A n \in DOMAIN doc.rules :
        /\ n \in Nat
        /\ \A f \in DOMAIN doc.rules[n].match.of :
                f \in Fields /\ doc.rules[n].match.of[f] \in Written
        /\ \A c \in DOMAIN doc.rules[n].conditions.of :
                doc.rules[n].conditions.of[c] \in Bounds
    /\ \A r \in Requests :
            {"fields", "tier", "trust", "custom", "unclassified"} \subseteq DOMAIN r
    /\ Extensions \subseteq {"trust", "custom"}
    /\ MaxParts \in Nat /\ MaxTerms \in Nat

VARIABLES
    stage,          \* "idle", "writing" or "classified"
    call,           \* the arguments so far
    clause,         \* the WHERE clause being written, or NONE, and its terms
    impact,         \* what the call was classified as
    policy,         \* the document in force, or NONE
    ruling          \* the request last evaluated and its decision, or NONE

vars == <<stage, call, clause, impact, policy, ruling, scan>>

NoCall == [named |-> NONE, line |-> <<>>, long |-> FALSE, sql |-> <<>>,
           urls |-> <<>>, crowd |-> FALSE, deep |-> FALSE, least |-> NONE]
NoClause == [is |-> NONE, terms |-> 0]

Init ==
    /\ DetectionInit
    /\ stage = "idle" /\ call = NoCall /\ clause = NoClause
    /\ impact = Default /\ policy = NONE /\ ruling = NONE

-----------------------------------------------------------------------------
(* A call is written.                                                      *)

Parts == Len(call.line) + Len(call.sql) + Len(call.urls)
Writing(c) ==
    /\ stage = "writing" /\ clause = NoClause /\ call' = c
    /\ UNCHANGED <<stage, clause, impact, policy, ruling, scan>>

Begin ==
    /\ stage = "idle" /\ Stage("idle")
    /\ \E named \in Impacts \cup {NONE} :
        /\ stage' = "writing" /\ call' = [NoCall EXCEPT !.named = named]
    /\ UNCHANGED <<clause, impact, policy, ruling, scan>>

WriteSegment ==
    \E s \in Shapes, depth \in 0..MaxDepth + 1 :
        LET written == [s EXCEPT !.depth = depth]
        IN  /\ Parts < MaxParts /\ ~call.long /\ Fits(call.line, written)
            /\ Writing([call EXCEPT !.line = Append(@, written)])
Overrun == call.line # <<>> /\ ~call.long /\ Writing([call EXCEPT !.long = TRUE])
WriteUrl ==
    \E says \in UrlFindings, over \in BOOLEAN :
        /\ Parts < MaxParts
        /\ Writing([call EXCEPT !.urls = Append(@, [says |-> says, over |-> over])])
\* The walk meets too many values, or values nested too deep, first.
Crowd == ~call.crowd /\ ~call.deep /\ Writing([call EXCEPT !.crowd = TRUE])
Nest == ~call.deep /\ Writing([call EXCEPT !.crowd = FALSE, !.deep = TRUE])
NameAKey == \E t \in {"medium", "high"} : call.least = NONE /\ Writing([call EXCEPT !.least = t])

\* A statement, clause first.
WriteClause(c) ==
    /\ stage = "writing" /\ Parts < MaxParts /\ clause' = c
    /\ UNCHANGED <<stage, call, impact, policy, ruling, scan>>
Term ==
    /\ clause.terms < MaxTerms
    /\ \E t \in Terms :
        WriteClause([is |-> IF clause.is = NONE THEN t ELSE Either(clause.is, t),
                     terms |-> clause.terms + 1])
AndTerm ==
    /\ clause.is # NONE /\ clause.terms < MaxTerms
    /\ \E t \in Terms :
        WriteClause([is |-> Both(clause.is, t), terms |-> clause.terms + 1])
Not == clause.is # NONE /\ WriteClause([clause EXCEPT !.is = Negated(@)])
EndStatement ==
    /\ stage = "writing" /\ Parts < MaxParts
    /\ \E kind \in {"mutation", "select"} :
        call' = [call EXCEPT !.sql = Append(@,
            [kind |-> kind,
             predicate |-> IF clause.is = NONE THEN "none" ELSE clause.is.reads])]
    /\ clause' = NoClause
    /\ UNCHANGED <<stage, impact, policy, ruling, scan>>

ClassifyCall ==
    /\ stage = "writing" /\ clause = NoClause
    /\ stage' = "classified" /\ impact' = Classify(call) /\ call' = NoCall
    /\ UNCHANGED <<clause, policy, ruling, scan>>

-----------------------------------------------------------------------------
(* The policy decides.                                                     *)

\* adopt_policy, set_policy: a refused document leaves the one in force.
SetPolicy ==
    /\ stage = "classified" /\ ruling = NONE
    /\ \E doc \in Documents : policy' = IF Accepted(doc, Extensions) THEN doc ELSE policy
    /\ UNCHANGED <<stage, call, clause, impact, ruling, scan>>
ClearPolicy ==
    /\ stage = "classified" /\ ruling = NONE /\ policy' = NONE
    /\ UNCHANGED <<stage, call, clause, impact, ruling, scan>>

\* build_request: the call's impact, and what the caller says of it.
RequestOf(r) ==
    [r EXCEPT !.fields = [impact_class |-> impact.class, impact_tier |-> impact.tier] @@ @,
              !.unclassified = impact.class = "unknown"]
\* evaluate: without a policy the answer is to monitor.
Decide ==
    /\ stage = "classified" /\ ruling = NONE
    /\ \E r \in Requests :
        ruling' = [request |-> RequestOf(r),
                   decision |-> IF policy = NONE THEN "monitor"
                                ELSE Evaluate(policy, RequestOf(r))]
    /\ UNCHANGED <<stage, call, clause, impact, policy, scan>>
Decided ==
    /\ stage = "classified" /\ ruling # NONE /\ ruling' = NONE
    /\ UNCHANGED <<stage, call, clause, impact, policy, scan>>

ScanText ==
    /\ stage = "idle" /\ DetectionNext
    /\ UNCHANGED <<stage, call, clause, impact, policy, ruling>>

Next ==
    \/ Begin \/ WriteSegment \/ Overrun \/ WriteUrl \/ Crowd \/ Nest \/ NameAKey
    \/ Term \/ AndTerm \/ Not \/ EndStatement \/ ClassifyCall
    \/ SetPolicy \/ ClearPolicy \/ Decide \/ Decided
    \/ ScanText

Spec == Init /\ [][Next]_vars

-----------------------------------------------------------------------------
(* Properties.                                                             *)

\* More to inspect never makes a call look less in silence: a step that writes
\* more into the arguments lowers the tier only by leaving a command the reader
\* could not read to its end, or values nested deeper than it can walk, and
\* either bound is then reported; or by being the first thing the rules know in
\* the command, which answers in place of the default (classify, bound_faults).
\* Who does not ask for the bounds hears of none: of values nested too deep, a
\* call that was critical is then just medium.
Inspected == stage = "writing" /\ stage' = "writing"
FirstReading ==
    /\ call.named = NONE /\ ClassifyCommand(call.line, call.long) = NONE
    /\ ClassifyCommand(call'.line, call'.long) # NONE
    /\ ClassifyCommand(call'.line, call'.long).tier = "low"
InspectionOnlyRaises ==
    [][Inspected => \/ Order(Classify(call').tier) >= Order(Classify(call).tier)
                    \/ "command.parse_degraded" \in BoundFaults(call')
                    \/ call'.deep /\ "arguments.walk_truncated" \in BoundFaults(call')
                    \/ FirstReading]_vars

\* What a reader did not read, or could not settle, never passes for harmless:
\* a segment or statement past a cap is reported as a fault, but in a text whose
\* blank pieces have used up what the splitter splits (_split_segments), and of
\* an input cut where nothing but blanks stands before the cut; a clause read as
\* always true selects every row, and one that names no column is never read
\* as restricting them; and what detection finds in a command, a statement or a
\* URL, classification finds at least as bad.  Of values nested too deep it is
\* that which is reported, and nothing is found.  A URL is what it dials
\* (inet_aton), however its address is spelled.
Unread(line) == {i \in DOMAIN line \ Kept(line) : ~IsBlank(line, i)}
Padded(line, i) ==
    \E j \in Holders(line, i) \cup {i} : \E b \in Before(line, j) : IsBlank(line, b)
Excepted(line, i) == Swallowed(line, i) /\ Padded(line, i)
Silent(line, long) ==
    /\ \A i \in Unread(line) : Excepted(line, i)
    /\ long => \A i \in DOMAIN line : IsBlank(line, i)
Dialled(parts) ==
    IF \/ Len(parts) > 4 \/ BAD \in ToSet(parts)
       \/ \E i \in DOMAIN parts : parts[i] >= (IF i < Len(parts) THEN Byte ELSE Byte^(5 - i))
    THEN NONE
    ELSE MapThenSumSet(LAMBDA i : parts[i] * Byte^(IF i < Len(parts) THEN 4 - i ELSE 0),
                       DOMAIN parts)
SpellingsAgree == \A s \in Spellings : Dialled(s) # NONE => CoerceIp(s) = Dialled(s)
NothingPassesUnread ==
    /\ SpellingsAgree
    /\ call.deep => "arguments.walk_truncated" \in BoundFaults(call)
    /\ ~call.deep /\ ~Silent(call.line, call.long)
            => "command.parse_degraded" \in BoundFaults(call)
    /\ ~call.deep /\ Len(call.sql) > MaxStatements => Classify(call).tier = "critical"
    /\ clause.is # NONE =>
            /\ clause.is.reads = "tautology" => clause.is.rows = Rows
            /\ clause.is.reads = "bounded" => clause.is.column
    /\ \A f \in Findable(call.line, call.long, Findings) \ {NONE} :
            Order(ClassifyCommand(call.line, call.long).tier) >= Order(f.tier)
    /\ ~call.deep =>
        \A f \in FindableSql(call.sql, Findings) \cup FindableUrls(call.urls, Findings) :
            Order(Classify(call).tier) >= Order(f.tier)

\* A policy in force means what its document says: every rule can fire, and
\* the decision is that of the first rule all of whose written fields and
\* conditions hold of the request, or the defaults (parse_action_policy with
\* evaluate: no accepted document loses a constraint it was written with).  A
\* trust that is no number may end it with monitor, if a rule asks for a trust.
HoldsAsWritten(rule, r) ==
    /\ \A f \in DOMAIN rule.match.of :
            r.fields[f] \in rule.match.of[f].values /\ rule.match.of[f].form = "patterns"
    /\ \A c \in DOMAIN rule.conditions.of :
            CASE c = "tier" -> r.tier > rule.conditions.of[c].bound /\ r.tier # Unknown
              [] c = "trust" -> /\ r.trust \notin {Unknown, Garbled}
                                /\ r.trust < rule.conditions.of[c].bound
              [] OTHER -> r.custom = "holds"
    /\ \A c \in DOMAIN rule.conditions.of \ {"custom"} :
            rule.conditions.of[c].form = "number"
    /\ DOMAIN rule.match.of # {} \/ DOMAIN rule.conditions.of # {}
AsWritten(doc, r) ==
    IF \E n \in DOMAIN doc.rules : HoldsAsWritten(doc.rules[n], r)
    THEN DecisionOf[doc.rules[Min({n \in DOMAIN doc.rules :
                                        HoldsAsWritten(doc.rules[n], r)})].effect]
    ELSE DecisionOf[IF r.unclassified THEN doc.defaults.unclassified
                    ELSE doc.defaults.effect]
CanFire(rule) ==
    \E r \in Requests, says \in Impacts :
        HoldsAsWritten(rule, [r EXCEPT !.fields =
            [impact_class |-> says.class, impact_tier |-> says.tier] @@ @])
RulesCanFire == policy # NONE => \A n \in DOMAIN policy.rules : CanFire(policy.rules[n])
\* What RulesCanFire asks of the instance: for the values each written rule
\* asks for, some request and impact have them.
Varied ==
    \A doc \in Documents : \A n \in DOMAIN doc.rules :
        LET match == doc.rules[n].match.of
            conditions == doc.rules[n].conditions.of
        IN  \E r \in Requests, says \in Impacts :
                /\ \A f \in DOMAIN match :
                        match[f].form = "patterns" =>
                            ([impact_class |-> says.class, impact_tier |-> says.tier]
                                @@ r.fields)[f] \in match[f].values
                /\ \A c \in DOMAIN conditions :
                        CASE c = "tier" -> /\ r.tier # Unknown
                                           /\ conditions[c].form = "number" =>
                                                r.tier > conditions[c].bound
                          [] c = "trust" -> /\ r.trust \notin {Unknown, Garbled}
                                            /\ conditions[c].form = "number" =>
                                                 r.trust < conditions[c].bound
                          [] OTHER -> r.custom = "holds"
Unreadable(doc, r) ==
    r.trust = Garbled /\ \E n \in DOMAIN doc.rules : "trust" \in DOMAIN doc.rules[n].conditions.of
DecidesAsWritten ==
    policy # NONE /\ ruling # NONE =>
        \/ ruling.decision = AsWritten(policy, ruling.request)
        \/ ruling.decision = "monitor" /\ Unreadable(policy, ruling.request)
PolicyMeansWhatItSays == RulesCanFire /\ DecidesAsWritten

\* No frame, cap or model softens what must stand: a secret, an output, a
\* bypassed protection, an encoded directive, or a command with an extraction
\* keeps its block; what reached the block band and was lowered is still
\* flagged, and never offered to the escalators; the model alone only flags.
\* The block band of a rule that ran too slowly is not among them: beside a
\* mention cue a cap takes it to the flag band (LocalScanner.scan).
ForcedVerdictsStand ==
    Stage("judged") =>
        /\ scan.forced => Verdict(scan) = "block"
        /\ scan.reached => Verdict(scan) # "allow" /\ ~Escalates(scan)
        /\ scan.model => Verdict(scan) = "flag"
===============================================================================
