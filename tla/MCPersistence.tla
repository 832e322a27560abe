---------------------------- MODULE MCPersistence ----------------------------
EXTENDS Persistence

Lacking == [length |-> Absent, terms |-> <<>>]
Field(length, terms) == [length |-> length, terms |-> terms]

\* A document with one field, and one with both that splits its edge (and has
\* a term twice, and a token that is no term).
MCContents == {
    <<Lacking, Field(1, <<<<"a", "b">>>>)>>,
    <<Field(2, <<<<"a", "c">>>>), Field(2, <<<<"a">>, <<"a">>>>)>>}
MCContentsByField == {[f \in Fields |-> content[f + 1]] : content \in MCContents}

MCStoredValues == {<<>>, [name \in {"title"} |-> "v"]}
MCIds == {10, 11}

\* For the budget run: documents alike, with ids of their own.
MCAlike == {[f \in Fields |-> Field(1, <<<<"a", "b">>>>)]}
MCStored == {[name \in {"title"} |-> "v"]}
=============================================================================
