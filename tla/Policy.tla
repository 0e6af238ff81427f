-------------------------------- MODULE Policy --------------------------------
(***************************************************************************)
(* The policy document: which documents xaidr/authz/policy.py accepts      *)
(* (explain_action_policy) and what it decides of a request under one      *)
(* (evaluate).                                                             *)
(*                                                                         *)
(* A request gives each match field a value or none; a written field is a  *)
(* set of the values its patterns match, or the malformed thing found in   *)
(* its place.                                                              *)
(***************************************************************************)
EXTENDS Integers, FiniteSetsExt, Sequences

CONSTANTS
    Fields,         \* the fields of a match block, as far as the model goes
    Values          \* the values a request gives them

\* A chain whose least privileged tier is not known, an agent without trust.
Unknown == -1
\* A trust an extension brings that is no number.
Garbled == -2

Effects == {"allow", "block", "monitor", "require_approval"}
DecisionOf == [allow |-> "allowed", block |-> "blocked", monitor |-> "monitor",
               require_approval |-> "approval_required"]

\* What is written after a field's name: nothing at all, an empty list, a
\* scalar, a list with an element that is no pattern, or patterns.
Fieldforms == {"null", "empty", "scalar", "badElement", "patterns"}
Written == [form: Fieldforms, values: SUBSET Values]

\* After a condition's name: nothing, a word, a number that is not finite, or
\* the bound.  An extension's condition takes whatever is written.
Bounds == [form: {"null", "word", "infinite", "number"}, bound: Int]

\* A block is absent, empty, not a mapping, or a mapping of what is written.
IsBlock(b) == b.form \in {"absent", "mapping"}

-----------------------------------------------------------------------------
(* A rule as written: [effect, match, conditions, stray], stray if it has  *)
(* a key nobody knows.  conditions holds some of "tier" (min_chain_tier_   *)
(* above), "trust" (trust_below) and "custom" (an extension's).            *)

\* A condition is known when the core evaluates it or an extension does;
\* trust_below needs a trust score, which only an extension brings.
Known(extensions) == {"tier"} \cup extensions

\* _reject_unknown_keys: a key nobody knows refuses the rule, it is not dropped.
KeysKnown(rule) == ~rule.stray

\* A parser that takes a field with nothing after it, or an empty list.
RuleAcceptedWithNulls(rule, extensions) ==
    /\ rule.effect \in Effects /\ KeysKnown(rule)
    /\ IsBlock(rule.match) /\ IsBlock(rule.conditions)
    /\ DOMAIN rule.conditions.of \subseteq Known(extensions)
    /\ \A f \in DOMAIN rule.match.of : rule.match.of[f].form \in {"patterns", "null"}
    /\ DOMAIN rule.match.of \cup DOMAIN rule.conditions.of # {}
RuleAccepted(rule, extensions) ==
    /\ rule.effect \in Effects /\ KeysKnown(rule)
    /\ IsBlock(rule.match) /\ IsBlock(rule.conditions)
    /\ DOMAIN rule.conditions.of \subseteq Known(extensions)
    /\ \A f \in DOMAIN rule.match.of : rule.match.of[f].form = "patterns"
    /\ \A c \in DOMAIN rule.conditions.of \cap {"tier", "trust"} :
            rule.conditions.of[c].form = "number"
    /\ DOMAIN rule.match.of \cup DOMAIN rule.conditions.of # {}

\* defaults: a mapping or absent, and each of the two is an effect.
DefaultsAccepted(defaults) ==
    /\ IsBlock(defaults)
    /\ defaults.effect \in Effects /\ defaults.unclassified \in Effects

\* explain_action_policy: nothing is dropped from a document, it is refused
\* whole.  fine: a mapping of a supported version, without stray keys, whose
\* rules are a list.
Accepted(doc, extensions) ==
    /\ doc.fine
    /\ \A n \in DOMAIN doc.rules : RuleAccepted(doc.rules[n], extensions)
    /\ DefaultsAccepted(doc.defaults)

-----------------------------------------------------------------------------
(* Evaluation (_rule_matches): a field or a condition whose value is None  *)
(* is skipped; a value that is no list matches nothing.                    *)

Present(of) == {k \in DOMAIN of : of[k].form # "null"}
FieldMatches(written, value) ==
    written.form \in {"patterns", "empty", "badElement"} /\ value \in written.values

\* A request whose chain or trust is unknown never matches, nor a bound that
\* cannot be compared, nor an extension that is gone or raises.
ConditionHolds(c, written, request) ==
    CASE c = "tier" -> /\ request.tier # Unknown /\ written.form = "number"
                       /\ request.tier > written.bound
      [] c = "trust" -> /\ request.trust \notin {Unknown, Garbled}
                        /\ written.form = "number"
                        /\ request.trust < written.bound
      [] OTHER -> request.custom = "holds"

RuleMatches(rule, request) ==
    LET fields == Present(rule.match.of)
        conditions == Present(rule.conditions.of)
                      \cup (DOMAIN rule.conditions.of \cap {"custom"})
    IN  /\ fields \cup conditions # {}
        /\ \A f \in fields : FieldMatches(rule.match.of[f], request.fields[f])
        /\ \A c \in conditions : ConditionHolds(c, rule.conditions.of[c], request)

\* Of a rule whose fields match, a trust is compared as a number before any
\* other condition is read: what is none raises.
Raises(rule, request) ==
    /\ "trust" \in Present(rule.conditions.of) /\ request.trust # Unknown
    /\ request.trust = Garbled \/ rule.conditions.of["trust"].form = "word"
    /\ \A f \in Present(rule.match.of) : FieldMatches(rule.match.of[f], request.fields[f])

\* The first rule that matches decides, but monitor does when reading it
\* raised; else the defaults, one for a call nobody could classify.
Evaluate(policy, request) ==
    LET stops == {n \in DOMAIN policy.rules :
                    \/ RuleMatches(policy.rules[n], request)
                    \/ Raises(policy.rules[n], request)}
    IN  IF stops # {}
        THEN LET rule == policy.rules[Min(stops)]
             IN  IF Raises(rule, request) THEN "monitor" ELSE DecisionOf[rule.effect]
        ELSE IF request.unclassified THEN DecisionOf[policy.defaults.unclassified]
        ELSE DecisionOf[policy.defaults.effect]
===============================================================================
