---------------------------- MODULE MCValueOrigin ----------------------------
EXTENDS ValueOrigin

CONSTANTS x, y, k, main, helper

Symmetry == Permutations({main, helper})

\* The operator trusts the result of one tool outright and that of another
\* when the argument that selects it is authorized.
MCDesignations == <<[tool |-> "feed", source |-> "public", keys |-> {}, label |-> "feed"],
                    [tool |-> "lookup", source |-> None, keys |-> {"who"}, label |-> "lookup"]>>

Span(writer, dests, grams) == [writer |-> writer, dests |-> dests, grams |-> grams]
MCInputs ==
    {[declared |-> FALSE, split |-> "right", spans |-> {Span("principal", {x}, {k})}],
     [declared |-> TRUE, split |-> "right",
      spans |-> {Span("untrusted", {x}, {}), Span("principal", {y}, {k})}],
     [declared |-> TRUE, split |-> "wrong", spans |-> {Span("principal", {x}, {k})}]}

Key(gram, auth) == [who |-> [gram |-> gram, auth |-> auth]]
MCReads ==
    {[tool |-> "feed", source |-> "public", keys |-> <<>>, result |-> {x}],
     [tool |-> "lookup", source |-> None, keys |-> Key(k, None), result |-> {y}],
     [tool |-> "lookup", source |-> None, keys |-> Key(None, x), result |-> {x, y}],
     [tool |-> "lookup", source |-> None, keys |-> Key(None, None), result |-> {x}],
     [tool |-> "feed", source |-> "other", keys |-> <<>>, result |-> {y}]}

Value(form, parts) == [form |-> form, parts |-> parts, spaced |-> FALSE]
MCArgs ==
    {<<Value("url", <<x>>)>>,
     <<Value("mailto", <<x, y>>)>>,
     <<Value("mailbox", <<x, "bad">>)>>,
     <<Value("url", <<"raw">>), Value("implied", <<x>>)>>,
     <<[Value("url", <<x>>) EXCEPT !.spaced = TRUE], Value("phone", <<y>>)>>,
     <<Value("ip", <<x>>), Value("too_long", <<y>>)>>,
     <<Value("text", <<>>), Value("url", <<x>>), Value("mailto", <<y>>)>>,
     <<Value("file", <<y>>), Value("mailto", <<>>)>>}
==============================================================================
