---------------------------- MODULE MCRadixTree ----------------------------
EXTENDS RadixTree

\* Edges that are split, joined and shared by keys of one to five units; each of
\* <<"H", "x">> and <<"G", "x">> is one character.
MCKeys == {<<"a">>, <<"a", "H", "x">>, <<"a", "b", "a", "b", "a">>, <<"a", "b", "G", "x">>,
           <<"b", "a">>}
MCQueries == {<<"a">>, <<"a", "b", "a">>, <<"b", "H", "x">>, <<"b", "b", "a", "b">>}
MCDistances == 0..3
============================================================================
