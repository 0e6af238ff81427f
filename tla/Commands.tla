------------------------------- MODULE Commands -------------------------------
(***************************************************************************)
(* How a shell command line is read (xaidr/scanner/command_parse.py) and   *)
(* what it is found to do (classify_command and classify_command_findings  *)
(* of xaidr/authz/classifier.py).                                          *)
(*                                                                         *)
(* A line is the sequence of the pieces written in it between separators,  *)
(* each payload's pieces right after the interpreter that runs it, one     *)
(* level deeper.  What a piece says is kept as what the rules find in it;  *)
(* nothing stands in a blank one.                                          *)
(***************************************************************************)
EXTENDS Integers, FiniteSets, SequencesExt

CONSTANTS
    NONE,
    Classes,        \* impact classes; the named ones have a precedence
    Combos,         \* combinations of two segments: name -> finding
    MaxSegments,    \* _MAX_SEGMENTS
    MaxDepth        \* _MAX_PAYLOAD_DEPTH

Tiers == {"low", "medium", "high", "critical"}
Order(tier) == CASE tier = "low" -> 0 [] tier = "medium" -> 1
                 [] tier = "high" -> 2 [] OTHER -> 3
Findings == [class: Classes, tier: Tiers]

Precedence(class) ==
    CASE class = "credential_access" -> 0 [] class = "execute" -> 1
      [] class = "read" -> 2 [] class = "unknown" -> 3 [] OTHER -> 99

\* _better: the higher tier, then the class, then the earlier.
Outranks(b, a) ==
    \/ Order(b.tier) > Order(a.tier)
    \/ Order(b.tier) = Order(a.tier) /\ Precedence(b.class) < Precedence(a.class)
Better(a, b) == IF a = NONE \/ (b # NONE /\ Outranks(b, a)) THEN b ELSE a

\* The best of what is found at some positions, one after another: nothing
\* outranks it, and it is the first of its equals.
First(at) == CHOOSE n \in at : \A m \in at : n <= m
Hits(found) == {n \in DOMAIN found : found[n] # NONE}
Tops(found) == {n \in Hits(found) : \A m \in Hits(found) : ~Outranks(found[m], found[n])}
Best(found) == IF Hits(found) = {} THEN NONE ELSE found[First(Tops(found))]

-----------------------------------------------------------------------------
(* A piece as written.  depth: payloads around it; says: what the first    *)
(* rule that matches finds; whens, ands: the combinations it is a half of; *)
(* broken: its tokens do not split; runs: it is blank, or no interpreter,  *)
(* or one whose payload is shell text, another language, or encoded text   *)
(* that does not decode.                                                   *)

Runs == {"blank", "nothing", "shell", "other", "opaque"}
Segments == [depth: Nat, says: Findings \cup {NONE}, whens: SUBSET DOMAIN Combos,
             ands: SUBSET DOMAIN Combos, broken: BOOLEAN, runs: Runs]

ASSUME CommandsAssumption ==
    /\ NONE \notin Findings
    /\ Combos \in [DOMAIN Combos -> Findings]
    /\ MaxSegments \in Nat \ {0} /\ MaxDepth \in Nat

\* Deeper text belongs to the payload of an interpreter just before it.
Fits(line, s) ==
    \/ s.depth = 0
    \/ /\ line # <<>>
       /\ \/ s.depth <= Last(line).depth
          \/ s.depth = Last(line).depth + 1 /\ Last(line).runs \in {"shell", "other"}

\* The interpreters whose payload holds the i-th segment.
Holders(line, i) ==
    {j \in 1..i - 1 : /\ line[j].depth < line[i].depth
                      /\ \A k \in j + 1..i : line[k].depth > line[j].depth}
HasPayload(line, i) == i < Len(line) /\ line[i + 1].depth > line[i].depth

\* The pieces before it in the same text.
Before(line, i) ==
    {j \in 1..i - 1 : /\ line[j].depth = line[i].depth
                      /\ \A k \in j..i : line[k].depth >= line[i].depth}
IsBlank(line, i) == line[i].runs = "blank"

\* _split_segments: from the piece at the cap on, blank ones counted, a text is
\* not split.  What is left of it is read as the first piece in it that is not
\* blank (as if those glued to it changed nothing of what it says): the others,
\* and their payloads, are read by nobody.
Glued(line, i) ==
    \E j \in Before(line, i) :
        ~IsBlank(line, j) /\ Cardinality(Before(line, j)) >= MaxSegments - 1
Swallowed(line, i) == \E j \in Holders(line, i) \cup {i} : Glued(line, j)

\* A payload is read down to MaxDepth; past it, its interpreter is degraded.
Reached(line, i) == line[i].depth <= MaxDepth

\* What the reader could not trust: tokens that do not split, the text of an
\* input cut at its cap, a payload not read, and source in another language.
DegradedAt(line, long, i) ==
    \/ line[i].broken
    \/ long /\ line[i].depth = 0
    \/ line[i].runs = "opaque"
    \/ line[i].depth = MaxDepth /\ HasPayload(line, i)
    \/ \E j \in Holders(line, i) : line[j].runs = "other"

\* The segments read, by their place in the line; at the cap, blank ones not
\* counted, the rest goes and the last one is degraded.
Parsed(line, i) == Reached(line, i) /\ ~IsBlank(line, i) /\ ~Swallowed(line, i)
Earlier(line, i) == Cardinality({j \in 1..i - 1 : Parsed(line, j)})
Kept(line) == {i \in DOMAIN line : Parsed(line, i) /\ Earlier(line, i) < MaxSegments}
ParseQuietly(line, long) ==
    [i \in Kept(line) |-> [seg |-> line[i], degraded |-> DegradedAt(line, long, i)]]
Parse(line, long) ==
    [i \in Kept(line) |->
        [seg |-> line[i],
         degraded |-> DegradedAt(line, long, i) \/ Earlier(line, i) = MaxSegments - 1]]

-----------------------------------------------------------------------------
(* What the line does: the worst of its segments and combinations.  What   *)
(* only degraded segments show is never critical.                          *)

Says(segments) == [n \in DOMAIN segments |-> segments[n].seg.says]
CombosIn(segments) ==
    {c \in DOMAIN Combos : /\ \E n \in DOMAIN segments : c \in segments[n].seg.whens
                           /\ \E n \in DOMAIN segments : c \in segments[n].seg.ands}
\* Combinations come after the segments; which of two equals wins is left open.
BestCombo(names) ==
    IF names = {} THEN NONE
    ELSE Combos[CHOOSE c \in names : \A d \in names : ~Outranks(Combos[d], Combos[c])]
Worst(segments) == Better(Best(Says(segments)), BestCombo(CombosIn(segments)))

Clean(segments) ==
    [n \in {n \in DOMAIN segments : ~segments[n].degraded} |-> segments[n]]
\* best_clean: the clean segments' own findings, and, when there is a clean
\* segment at all, every combination.
BestClean(segments) ==
    IF DOMAIN Clean(segments) = {} THEN NONE
    ELSE Better(Best(Says(Clean(segments))), BestCombo(CombosIn(segments)))

ClassifyCommand(line, long) ==
    LET segments == Parse(line, long)
        worst == Worst(segments)
        clean == BestClean(segments)
    IN  IF worst = NONE THEN NONE
        ELSE IF worst.tier = "critical" /\ (clean = NONE \/ clean.tier # "critical")
             THEN [worst EXCEPT !.tier = "high"] ELSE worst

\* classify_command_findings, the entries that are also detections (detects):
\* degraded segments take no part, in the combinations either.
Findable(line, long, detects) ==
    LET clean == Clean(Parse(line, long))
    IN  ({clean[n].seg.says : n \in DOMAIN clean} \cup {Combos[c] : c \in CombosIn(clean)})
        \cap detects
===============================================================================
