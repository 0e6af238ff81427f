-------------------------------- MODULE Impact --------------------------------
(***************************************************************************)
(* The impact class and tier of a tool call: classify() and bound_faults() *)
(* of xaidr/authz/classifier.py, with what xaidr/scanner/sql_parse.py and  *)
(* url_parse.py read of the arguments.                                     *)
(***************************************************************************)
EXTENDS Commands

CONSTANTS
    SqlRule(_, _),  \* what the rules find in a statement of a predicate
    MaxStatements,  \* MAX_STATEMENTS
    UrlRule(_),     \* what the rules find in a URL to an address, or to a name
    Spellings,      \* hosts as written: the parts between the dots, or BAD
    BAD,            \* a part that is no number
    Byte,           \* the values of a part of an address: 256
    Rows            \* the rows of a table, as predicates tell them apart

-----------------------------------------------------------------------------
(* A WHERE clause, written one connective at a time: what the recogniser   *)
(* reads (_clause_state), the rows it really selects and whether it names  *)
(* a column.                                                               *)

\* The terms a clause is built from (_term_state): a comparison that names a
\* column, one always true that the recogniser knows, a constant it does not.
Terms == [reads: {"bounded"}, rows: SUBSET Rows, column: {TRUE}]
         \cup [reads: {"tautology"}, rows: {Rows}, column: {FALSE}]
         \cup [reads: {"unknown"}, rows: {{}, Rows}, column: {FALSE}]

Negated(c) ==
    [reads |-> IF c.reads = "bounded" THEN "bounded" ELSE "unknown",
     rows |-> Rows \ c.rows, column |-> c.column]
Either(c, d) ==
    [reads |-> CASE "tautology" \in {c.reads, d.reads} -> "tautology"
                 [] {c.reads, d.reads} = {"bounded"} -> "bounded"
                 [] OTHER -> "unknown",
     rows |-> c.rows \cup d.rows, column |-> c.column \/ d.column]
Both(c, d) ==
    [reads |-> CASE "bounded" \in {c.reads, d.reads} -> "bounded"
                 [] {c.reads, d.reads} = {"tautology"} -> "tautology"
                 [] OTHER -> "unknown",
     rows |-> c.rows \cap d.rows, column |-> c.column \/ d.column]

-----------------------------------------------------------------------------
(* The host of a URL, an address or a name.  IPv6 is left out.             *)

\* Bitwise or: the sum, less the bits they share.
Or(x, y) ==
    x + y - SumSet({2^i : i \in {i \in 0..15 : (x \div 2^i) % 2 = 1 /\ (y \div 2^i) % 2 = 1}})
\* _coerce_ip: the last part fills what the others leave.  NONE is a name.
CoerceIp(parts) ==
    LET n == Len(parts)
        packed == FoldLeft(LAMBDA sum, p : sum * Byte + p, 0, Front(parts))
        address == IF n = 1 THEN parts[1] ELSE Or(packed * Byte^(5 - n), parts[n])
    IN  IF n > 4 \/ BAD \in ToSet(parts) THEN NONE
        ELSE IF n > 1 /\ \E p \in ToSet(Front(parts)) : p >= Byte THEN NONE
        ELSE IF address >= Byte^4 THEN NONE ELSE address
UrlFindings == {UrlRule(CoerceIp(s)) : s \in Spellings}

-----------------------------------------------------------------------------
(* The arguments.  named: what the tool's name is found to be, or NONE;    *)
(* sql: the statements of one argument; urls: what is found in each URL,   *)
(* over its cap or not; crowd: more values than the walk visits; deep:     *)
(* values nested deeper than the walk can recurse; least: the highest      *)
(* min_tier of the argument escalations that match, or NONE.               *)

Kinds == {"mutation", "select", "unparsed"}
Predicates == {"none", "bounded", "tautology", "unknown"}

ASSUME ImpactAssumption ==
    /\ MaxStatements \in Nat /\ Byte \in Nat \ {0} /\ Spellings \subseteq Seq(Nat \cup {BAD})
    /\ \A k \in Kinds, p \in Predicates : SqlRule(k, p) \in Findings \cup {NONE}
    /\ UrlFindings \subseteq Findings \cup {NONE}

Unparsed == [kind |-> "unparsed", predicate |-> "none"]

\* parse_sql: at the cap the rest of a batch is one unparsed statement.
\* A statement is written with its semicolon: the one at the cap ends the batch.
ReadBatch(sql) ==
    IF Len(sql) < MaxStatements THEN sql
    ELSE Append(SubSeq(sql, 1, MaxStatements), Unparsed)

\* classify_sql: the worst statement of one argument.
ClassifySql(sql) ==
    Best([n \in DOMAIN ReadBatch(sql) |->
            SqlRule(ReadBatch(sql)[n].kind, ReadBatch(sql)[n].predicate)])

\* classify_sql_findings, classify_url_findings: the findings that are also
\* detections (detects), statement by statement and URL by URL.  They are asked
\* of what the walk yields, which of values nested too deep is nothing.
FindableSql(sql, detects) ==
    {SqlRule(s.kind, s.predicate) : s \in ToSet(ReadBatch(sql))} \cap detects
FindableUrls(urls, detects) == {u.says : u \in ToSet(urls)} \cap detects

Default == [class |-> "unknown", tier |-> "medium"]

\* A reader that lets the last thing found win.
Replace(known, found) == IF found # NONE THEN found ELSE known
\* A reader of the arguments replaces what is known only by something worse.
Raise(known, found) ==
    IF found # NONE /\ Order(found.tier) > Order(known.tier) THEN found ELSE known

\* A name the rules know answers for the call; else its command does.
ByName(call) ==
    IF call.named # NONE THEN call.named
    ELSE LET found == ClassifyCommand(call.line, call.long)
         IN  IF found # NONE THEN found ELSE Default
BySql(call, known) == Raise(known, ClassifySql(call.sql))
\* URL by URL: the first of the highest tier is the last to raise it.
Highest(found) ==
    IF Hits(found) = {} THEN NONE
    ELSE found[First({n \in Hits(found) :
                        \A m \in Hits(found) : Order(found[m].tier) <= Order(found[n].tier)})]
ByUrls(call, known) ==
    Raise(known, Highest([n \in DOMAIN call.urls |-> call.urls[n].says]))
ByCrowd(call, known) ==
    Raise(known, IF call.crowd THEN [class |-> "delete", tier |-> "critical"] ELSE NONE)
\* _apply_escalations: the tier alone.
ByEscalation(call, known) ==
    IF call.least # NONE /\ Order(call.least) > Order(known.tier)
    THEN [known EXCEPT !.tier = call.least] ELSE known

Grade(call) ==
    ByEscalation(call, ByCrowd(call, ByUrls(call, BySql(call, ByName(call)))))
\* A walk that recurses too deep gives the reader of the URLs no list at all:
\* the call is an error, whatever was known of it, and what an error answers is
\* what the default is.
Classify(call) == IF call.deep THEN Default ELSE Grade(call)

\* bound_faults: what a bound kept the readers from.  It asks of the walk first,
\* and no further when that fails.
Bounded(call) ==
    (IF call.crowd THEN {"arguments.walk_truncated"} ELSE {})
    \cup (IF \E n \in DOMAIN ReadBatch(call.sql) :
                ReadBatch(call.sql)[n].kind = "unparsed"
          THEN {"sql.unparsed"} ELSE {})
    \cup (IF \E n \in DOMAIN ReadBatch(call.sql) :
                /\ ReadBatch(call.sql)[n].kind # "unparsed"
                /\ ReadBatch(call.sql)[n].predicate = "unknown"
          THEN {"sql.predicate_unknown"} ELSE {})
    \cup (IF \E n \in DOMAIN call.urls : call.urls[n].over
          THEN {"url.over_cap"} ELSE {})
    \cup (IF LET segments == Parse(call.line, call.long)
              IN  \E n \in DOMAIN segments : segments[n].degraded
          THEN {"command.parse_degraded"} ELSE {})
BoundFaults(call) == IF call.deep THEN {"arguments.walk_truncated"} ELSE Bounded(call)
===============================================================================
