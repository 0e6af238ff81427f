------------------------------ MODULE MCDecision ------------------------------
(* A handful of findings, segments and documents; caps of two and one level.  *)
EXTENDS Decision, TLC

Read == [class |-> "read", tier |-> "low"]
Run == [class |-> "execute", tier |-> "medium"]
Wipe == [class |-> "delete", tier |-> "critical"]
Steal == [class |-> "credential_access", tier |-> "critical"]

MCImpacts == {Read, Steal}
MCClasses == {"unknown", "read", "execute", "delete", "credential_access"}
MCCombos == [fetchAndRun |-> [class |-> "execute", tier |-> "critical"]]

Plain == [depth |-> 0, says |-> NONE, whens |-> {}, ands |-> {}, broken |-> FALSE, runs |-> "nothing"]
MCShapes == {
    [Plain EXCEPT !.runs = "blank"],
    [Plain EXCEPT !.says = Steal],
    [Plain EXCEPT !.says = Read],
    [Plain EXCEPT !.says = Wipe, !.broken = TRUE],
    [Plain EXCEPT !.whens = {"fetchAndRun"}],
    [Plain EXCEPT !.says = Run, !.ands = {"fetchAndRun"}, !.runs = "shell"],
    [Plain EXCEPT !.says = Run, !.runs = "other"],
    [Plain EXCEPT !.says = Run, !.runs = "opaque"]}

\* The shipped rules: a mutation without a clause that restricts it.
MCSqlRule(kind, predicate) ==
    IF \/ kind = "unparsed"
       \/ kind = "mutation" /\ predicate \in {"none", "tautology", "unknown"}
    THEN Wipe ELSE NONE
\* Addresses of four parts of four values: one block is the metadata service's,
\* one the private network.
MCUrlRule(address) ==
    IF address = NONE THEN NONE
    ELSE CASE address \div 16 = 9 -> Steal [] address \div 64 = 1 -> Read [] OTHER -> NONE
MCSpellings == UNION {[1..n -> {0, 1, 2, 3, 4, 15, 66, 155, 256, BAD}] : n \in 1..4} \cup {<<0, 0, 0, 0, 0>>}
MCRows == {"some", "others"}

-----------------------------------------------------------------------------
\* Fields: the impact, and the server, which a call may not have.
MCFields == {"impact_class", "impact_tier", "mcp_server"}
MCValues == Tiers \cup MCClasses \cup {"billing", "mail"}
MCExtensions == {"trust", "custom"}

MCRequests ==
    [fields: {[mcp_server |-> s] : s \in {"billing", "mail", "none"}},
     tier: {Unknown, 1, 4}, trust: {Unknown, Garbled, 30}, custom: {"holds", "fails", "raises"},
     unclassified: {FALSE}]

Of(form, values) == [form |-> form, values |-> values]
Bound(form, n) == [form |-> form, bound |-> n]
NoBlock == [form |-> "absent", of |-> <<>>]
Mapping(of) == [form |-> "mapping", of |-> of]
Rule(effect, match, conditions) ==
    [effect |-> effect, match |-> match, conditions |-> conditions, stray |-> FALSE]
Servers == {Of("patterns", {"billing"}), Of("null", {}), Of("empty", {}),
            Of("scalar", {"billing"}), Of("badElement", {"billing"})}
Limits == {Bound("number", 2), Bound("null", 0), Bound("word", 0), Bound("infinite", 0)}
Critical == Mapping([impact_tier |-> Of("patterns", {"critical"})])
MCRules ==
    {Rule("block", Mapping([mcp_server |-> s, impact_tier |-> Of("patterns", {"critical"})]),
          NoBlock) : s \in Servers}
    \cup {Rule("allow", NoBlock, Mapping([tier |-> l])) : l \in Limits}
    \cup {Rule("require_approval", Critical, Mapping([trust |-> l])) : l \in {Bound("number", 50), Bound("null", 0)}}
    \cup {Rule("block", NoBlock, Mapping([custom |-> Bound("null", 0)])),
          Rule("deny", Critical, NoBlock), Rule("allow", NoBlock, NoBlock),
          Rule("block", [form |-> "null", of |-> <<>>], Mapping([tier |-> Bound("number", 2)])),
          [Rule("block", Critical, NoBlock) EXCEPT !.stray = TRUE],
          Rule("allow", Mapping([impact_class |-> Of("patterns", {"read", "execute"})]), NoBlock)}
Deny == [form |-> "mapping", effect |-> "block", unclassified |-> "require_approval"]
Shipped == [form |-> "absent", effect |-> "allow", unclassified |-> "monitor"]
Document(rules, defaults) == [fine |-> TRUE, rules |-> rules, defaults |-> defaults]
MCDocuments ==
    {Document(<<r>>, Deny) : r \in MCRules}
    \cup {Document(<<Rule("allow", Critical, Mapping([tier |-> Bound("number", 2)])), r>>,
                   Shipped) : r \in MCRules}
    \cup {[Document(<<>>, Deny) EXCEPT !.fine = FALSE],
          Document(<<>>, [Deny EXCEPT !.form = "null"]),
          Document(<<>>, [Deny EXCEPT !.effect = "deny"])}

\* What PolicyKept asks of an instance.
ASSUME MCVaried == Varied

-----------------------------------------------------------------------------
Threat(kind, score, predicate) == [kind |-> kind, score |-> score, predicate |-> predicate]
MCThreats == {Threat("leak", 65, FALSE), Threat("injection", 45, TRUE),
              Threat("directive", 85, FALSE), Threat("payload", 28, TRUE),
              Threat("command", 85, TRUE), Threat("other", 60, FALSE)}
MCIntents == {[threat |-> Threat("leak", 50, TRUE), modified |-> 75]}
MCComposites == {[all |-> {{"injection"}, {"leak"}},
                  threat |-> Threat("leak", 85, FALSE)]}
MCSecrets == {90}
MCPhrases == {{}, {"ai", "negation", "protected"}, {"exfiltrates", "secret"},
              {"overrides", "protected", "imperative", "notai", "sysai"}}
MCDangers == {0, 30, 80}
MCProbabilities == {0, 78, 79, 10000}
=============================================================================
