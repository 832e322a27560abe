--------------------------- MODULE MCExactSearch ---------------------------
EXTENDS ExactSearch

\* "t" is a prefix of "tu", and both "tu" and "v" are within reach of "t".
MCTerms == {"t", "tu", "v"}
MCFields == <<1, 2>>
MCPrefixOf == [q \in MCTerms |-> IF q = "t" THEN <<"tu">> ELSE <<>>]
MCFuzzyOf == [q \in MCTerms |-> IF q = "t" THEN <<"v", "tu">> ELSE IF q = "v" THEN <<"t">> ELSE <<>>]

\* The constructor's options.
MCGlobalOptions == [prefix |-> FALSE, fuzzy |-> FALSE, combineWith |-> "AND"]

Wildcard == [kind |-> "wildcard"]
Text(terms) == [kind |-> "text", terms |-> terms]
Tree(queries, options) == [kind |-> "tree", queries |-> queries, options |-> options]
Ask(query, options) == [query |-> query, options |-> options]

\* One term, without and with its expansions; a tree with no combineWith of its
\* own, under the constructor's; all documents but those of an expanded term;
\* and a tree whose options reach its parts, and whose own parts keep theirs.
MCQueries == {
    Ask(Text(<<"t">>), <<>>),
    Ask(Text(<<"t">>), [prefix |-> TRUE, fuzzy |-> TRUE]),
    Ask(Tree(<<Text(<<"v">>), Text(<<"t", "v">>)>>, <<>>), <<>>),
    Ask(Tree(<<Wildcard, Tree(<<Text(<<"v">>), Text(<<"t">>)>>, [combineWith |-> "OR"])>>, [combineWith |-> "AND_NOT"]),
        [fuzzy |-> TRUE]),
    Ask(Tree(<<Tree(<<Text(<<"t">>)>>, [fuzzy |-> TRUE]), Wildcard, Text(<<"t", "tu">>)>>, [combineWith |-> "AND"]),
        [combineWith |-> "OR"])}

Frequencies(inFirst, inSecond) == [f \in {1, 2} |-> IF f = 1 THEN inFirst ELSE inSecond]
Nothing == [t \in MCTerms |-> 0]

\* Lengths that leave no average at zero: a long first field, a short one in
\* two fields with a repeated term, and no first field.
Content(first, second, inFirst, inSecond) ==
    [length |-> Frequencies(first, second), freq |-> Frequencies(inFirst, inSecond)]

MCContents == {
    Content(3, 0, [t \in MCTerms |-> IF t = "t" THEN 2 ELSE IF t = "tu" THEN 1 ELSE 0], Nothing),
    Content(1, 3, [t \in MCTerms |-> IF t = "t" THEN 1 ELSE 0], [t \in MCTerms |-> 1]),
    Content(0, 1, Nothing, [t \in MCTerms |-> IF t = "v" THEN 1 ELSE 0])}

\* Lengths that can: twice, and once, the same.
ZeroContents == {
    Content(2, 1, [t \in MCTerms |-> IF t = "t" THEN 1 ELSE 0], Nothing),
    Content(1, 1, [t \in MCTerms |-> IF t = "t" THEN 1 ELSE 0], Nothing),
    Content(0, 1, Nothing, Nothing)}

\* No action and no invariant reads the answer: states that differ in it alone are
\* one, and every step to them is still compared with upstream's.
AllButAnswer == <<alive, nextId, fieldLength, average, freq, dirtCount, gaps>>
=============================================================================
