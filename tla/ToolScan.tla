------------------------------- MODULE ToolScan -------------------------------
(***************************************************************************)
(* The content scan of a tool call's arguments (xaidr/sensor.py,           *)
(* _scan_tool_call_impl): every reader of the arguments contributes        *)
(* findings, one finding a rule; the findings, the secrets and the length  *)
(* decide the verdict of the tool boundary, before the policy.             *)
(*                                                                         *)
(* A finding is [rule, tier, band]: tier "hard" enforces, "flag" only      *)
(* surfaces, and "drop" is a category the text passes leave out.           *)
(***************************************************************************)
EXTENDS Verdicts, SequencesExt

Tiers == {"hard", "flag", "drop"}
Secrets == {"none", "signal", "hard"}

\* The passes over text filter categories; the first keeps every match of
\* its windows, later readers add a rule only once.
Kept(found) == SelectSeq(found, LAMBDA f : f.tier # "drop")
AddOnce(danger, f) ==
    IF \E n \in DOMAIN danger : danger[n].rule = f.rule THEN danger
    ELSE Append(danger, f)
Danger(normalized, others) == FoldLeft(AddOnce, Kept(normalized), others)

BandOf(danger) == Max({0} \cup {danger[n].band : n \in DOMAIN danger})

\* A mention of a command in prose keeps its rules and its score, and does
\* not enforce: neither argument may be a command field, nor may what is
\* left without the quoted spans match.
ProseMention(shellKey, documentary, residueHard) ==
    ~shellKey /\ documentary /\ ~residueHard

\* s is the scan: the findings, whether they are a mention in prose, the
\* kind of secret in the arguments and whether they are over the length.
FromDanger(s, enforces) ==
    IF s.danger = <<>> THEN "allowed"
    ELSE IF /\ \E n \in DOMAIN s.danger : s.danger[n].tier = "hard"
            /\ ~s.mention /\ enforces
         THEN "blocked" ELSE "flagged"
Raised(a) == IF a = "allowed" THEN "flagged" ELSE a
FromSecrets(s, enforces, a) ==
    CASE s.secret = "hard" -> IF enforces THEN "blocked" ELSE Raised(a)
      [] s.secret = "signal" -> Raised(a)
      [] OTHER -> a
ToolAction(s, enforces) ==
    LET a == FromSecrets(s, enforces, FromDanger(s, enforces))
    IN  IF s.oversized THEN Raised(a) ELSE a
\* The default thresholds: 0.2 for an oversized argument and the score of a
\* signal are in the flag band, a secret's is above.
ToolBand(s) ==
    Max({BandOf(s.danger), IF s.secret = "hard" THEN 2 ELSE 0,
         IF s.oversized \/ s.secret = "signal" THEN 1 ELSE 0})

\* A tool the operator blocked is not scanned.
ToolVerdict(toolBlocked, s, enforces) ==
    IF toolBlocked THEN Plain("blocked", 2, FALSE)
    ELSE Plain(ToolAction(s, enforces), ToolBand(s), FALSE)
===============================================================================
