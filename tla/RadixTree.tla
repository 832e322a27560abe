------------------------------ MODULE RadixTree ------------------------------
(***************************************************************************)
(* The term index: SearchableMap of src/src/searchable_map.rs, a radix     *)
(* tree whose traversal order decides the order of suggestions, of matched *)
(* terms and the rounding of scores, so it has to be the order of the      *)
(* JavaScript tree it replaces (UpstreamMap).                              *)
(*                                                                         *)
(* A key is a sequence of UTF-16 code units: what the Rust code does on    *)
(* UTF-8 bytes it does on whole characters, which here are code units, and *)
(* pairs of them that begin with a unit of HighSurrogates.                 *)
(***************************************************************************)
EXTENDS Integers, Sequences, FiniteSets, SequencesExt

CONSTANTS
    Keys,           \* the keys the map is used with
    Values,         \* what a leaf can hold
    None,           \* no leaf
    HighSurrogates, \* the code units that do not end a character
    Queries,        \* what searches ask for
    Distances,      \* the edit distances they allow
    WordBits,       \* the width of a bit vector, 64 in the code
    Ordinary,       \* 64 in useful_distance
    MaxCells,       \* the largest matrix, 2^26 cells in the code
    CellSize        \* values of a cell, 2^16 in the code

ASSUME NoneAssumption == None \notin Values
ASSUME WordAssumption == WordBits \in Nat \ {0}

VARIABLE root

EmptyNode == [leaf |-> None, pos |-> 0, kids |-> <<>>]
IsEmptyNode(node) == node.leaf = None /\ node.kids = <<>>

\* Where the leaf stands among the node's children.
Least(a, b) == IF a < b THEN a ELSE b
LeafFirst(node) == 0   \* a mutation: the leaf always first
LeafSlot(node) == Least(node.pos, Len(node.kids))

Rest(key, n) == SubSeq(key, n + 1, Len(key))

\* The longest common prefix of whole characters.
CommonPrefixLen(a, b) ==
    LET n == CHOOSE i \in 0..Len(a) : IsPrefix(SubSeq(a, 1, i), b)
                                      /\ (i = Len(a) \/ ~IsPrefix(SubSeq(a, 1, i + 1), b))
    IN IF n > 0 /\ a[n] \in HighSurrogates THEN n - 1 ELSE n

\* A child leaves its place, and the leaf's slot follows.
WithoutChild(node, index) ==
    [node EXCEPT !.kids = RemoveAt(@, index), !.pos = IF index <= @ THEN @ - 1 ELSE @]
WithChild(node, edge, child) == [node EXCEPT !.kids = Append(@, [edge |-> edge, node |-> child])]

\* A new leaf comes last in its node's key order; an old one keeps its place.
WithLeaf(node, write) ==
    [node EXCEPT !.leaf = write[@], !.pos = IF node.leaf = None THEN Len(node.kids) ELSE @]

\* create_path, and what its caller then does with the leaf: "write" gives the
\* new value for the old one.
RECURSIVE WritePath(_, _, _)
WritePath(node, key, write) ==
    LET Overlap(i) == CommonPrefixLen(key, node.kids[i].edge)
        meeting == {i \in DOMAIN node.kids : Overlap(i) > 0}
    IN IF key = <<>> THEN WithLeaf(node, write)
       ELSE IF meeting = {} THEN WithChild(node, key, WithLeaf(EmptyNode, write))
       ELSE LET index == CHOOSE i \in meeting : TRUE
                kid == node.kids[index]
                offset == Overlap(index)
                intermediate == WithChild(EmptyNode, Rest(kid.edge, offset), kid.node)
            IN IF offset = Len(kid.edge)
               THEN [node EXCEPT !.kids[index].node = WritePath(@, Rest(key, offset), write)]
               ELSE WithChild(WithoutChild(node, index), SubSeq(key, 1, offset),
                              WritePath(intermediate, Rest(key, offset), write))

RECURSIVE Lookup(_, _)
Lookup(node, key) ==
    LET along == {i \in DOMAIN node.kids : IsPrefix(node.kids[i].edge, key)}
    IN IF key = <<>> THEN node.leaf
       ELSE IF along = {} THEN None
       ELSE LET kid == node.kids[CHOOSE i \in along : TRUE]
            IN Lookup(kid.node, Rest(key, Len(kid.edge)))

OnlyEmptyRemoved(node, index) ==   \* a mutation: chains are not joined
    IF IsEmptyNode(node.kids[index].node) THEN WithoutChild(node, index) ELSE node

JoinedInPlace(node, index) ==      \* a mutation: the joined edge keeps its place
    LET kid == node.kids[index]
    IN IF IsEmptyNode(kid.node) THEN WithoutChild(node, index)
       ELSE IF kid.node.leaf = None /\ Len(kid.node.kids) = 1
       THEN [node EXCEPT !.kids[index] = [edge |-> kid.edge \o kid.node.kids[1].edge,
                                          node |-> kid.node.kids[1].node]]
       ELSE node

\* compact_child: a child left empty goes; one left without a leaf and with one
\* child of its own is joined with it, at the end of the key order.
Compacted(node, index) ==
    LET kid == node.kids[index]
    IN IF IsEmptyNode(kid.node) THEN WithoutChild(node, index)
       ELSE IF kid.node.leaf = None /\ Len(kid.node.kids) = 1
       THEN LET only == kid.node.kids[1]
            IN WithChild(WithoutChild(node, index), kid.edge \o only.edge, only.node)
       ELSE node

\* delete_from, of a key that is there.
RECURSIVE DeletePath(_, _)
DeletePath(node, key) ==
    IF key = <<>> THEN [node EXCEPT !.leaf = None]
    ELSE LET index == CHOOSE i \in DOMAIN node.kids : IsPrefix(node.kids[i].edge, key)
             below == Rest(key, Len(node.kids[index].edge))
         IN Compacted([node EXCEPT !.kids[index].node = DeletePath(@, below)], index)

-----------------------------------------------------------------------------
(* Traversals.                                                             *)

\* visit_entries, collect_entries: from the last key back, the leaf at its slot.
RECURSIVE Entries(_, _)
Entries(node, prefix) ==
    LET slot == LeafSlot(node)
        count == Len(node.kids)
        Below(i) == Entries(node.kids[i].node, prefix \o node.kids[i].edge)
    IN FlattenSeq([i \in 1..count - slot |-> Below(count + 1 - i)])
       \o (IF node.leaf = None THEN <<>> ELSE <<[key |-> prefix, value |-> node.leaf]>>)
       \o FlattenSeq([i \in 1..slot |-> Below(slot + 1 - i)])

\* visit_prefix, collect_prefix: down the edges the prefix spells, or into the
\* one it ends in.
RECURSIVE PrefixFrom(_, _, _)
PrefixFrom(node, remaining, prefix) ==
    LET Along(i) == IsPrefix(node.kids[i].edge, remaining)
        Into(i) == IsPrefix(remaining, node.kids[i].edge)
        meeting == {i \in DOMAIN node.kids : Along(i) \/ Into(i)}
        index == CHOOSE i \in meeting : \A j \in meeting : i <= j
        kid == node.kids[index]
    IN IF remaining = <<>> THEN Entries(node, prefix)
       ELSE IF meeting = {} THEN <<>>
       ELSE IF Along(index) THEN PrefixFrom(kid.node, Rest(remaining, Len(kid.edge)), prefix \o kid.edge)
       ELSE Entries(kid.node, prefix \o kid.edge)

PrefixEntries(prefix) == PrefixFrom(root, prefix, <<>>)

RECURSIVE LongestKey(_)
LongestKey(node) ==
    LET below == {Len(node.kids[i].edge) + LongestKey(node.kids[i].node) : i \in DOMAIN node.kids}
    IN IF below = {} THEN 0 ELSE CHOOSE n \in below : \A m \in below : n >= m

-----------------------------------------------------------------------------
(* Fuzzy search with a banded matrix, kept from one branch to the next.    *)

\* Beyond the longer string's length a distance says nothing.
UsefulDistance(query, k) ==
    LET longest == LongestKey(root)
    IN IF k <= Len(query) + Ordinary THEN k
       ELSE Least(k, IF Len(query) > longest THEN Len(query) ELSE longest)

Columns(query) == Len(query) + 1
Fits(query, k) == (Columns(query) + k) * Columns(query) <= MaxCells
Cell(n) == n % CellSize

\* fuzzy_matrix: row 0 and column 0 count, every other cell is out of reach.
Matrix(query, k) ==
    LET columns == Columns(query)
        sentinel == Least(k + 1, CellSize - 1)
    IN [cell \in 0..((columns + k) * columns - 1) |->
            IF cell < columns THEN Cell(cell)
            ELSE IF cell % columns = 0 THEN Cell(cell \div columns)
            ELSE sentinel]

\* One unit of an edge fills one row, in a band around the diagonal.
BandFirst(i, k) == IF i > k + 1 THEN i - (k + 1) ELSE 0
BandLastShort(i, k, columns) == Least(columns - 1, i + k - 1)   \* a mutation
BandLast(i, k, columns) == Least(columns - 1, i + k)

Row(matrix, i, unit, query, k) ==
    LET columns == Columns(query)
        this == columns * i
        prev == this - columns
        first == BandFirst(i, k)
        cell[j \in first..BandLast(i, k, columns)] ==
            IF j = first THEN matrix[this + j]
            ELSE LET replacement == Cell(matrix[prev + j - 1] + IF unit = query[j] THEN 0 ELSE 1)
                     deletion == Cell(matrix[prev + j] + 1)
                     insertion == Cell(cell[j - 1] + 1)
                 IN Least(Least(replacement, deletion), insertion)
    IN cell

\* An edge's units, until the matrix ends or no cell of the row is near enough.
RECURSIVE WalkEdge(_, _, _, _, _)
WalkEdge(matrix, i, units, query, k) ==
    IF units = <<>> THEN [matrix |-> matrix, row |-> i, skipped |-> FALSE]
    ELSE IF i >= Columns(query) + k THEN [matrix |-> matrix, row |-> i, skipped |-> TRUE]
    ELSE LET this == Columns(query) * i
             row == Row(matrix, i, Head(units), query, k)
             next == [c \in DOMAIN matrix |->
                         IF c - this \in DOMAIN row THEN row[c - this] ELSE matrix[c]]
             near == \/ matrix[this] <= Cell(k)
                     \/ \E j \in DOMAIN row : j > BandFirst(i, k) /\ row[j] <= Cell(k)
         IN IF near THEN WalkEdge(next, i + 1, Tail(units), query, k)
            ELSE [matrix |-> next, row |-> i, skipped |-> TRUE]

\* fuzzy_visit and fuzzy_recurse from a node's child "index" on: the children
\* forward, the leaf at its slot.  "walk" is the matrix and what was found.
RECURSIVE FuzzyVisit(_, _, _, _, _, _, _)
FuzzyVisit(node, index, query, k, row, prefix, walk) ==
    LET distance == walk.matrix[row * Columns(query) - 1]
        found == IF index = LeafSlot(node) /\ node.leaf # None /\ distance <= Cell(k)
                 THEN Append(walk.found, [key |-> prefix, distance |-> distance])
                 ELSE walk.found
    IN IF index = Len(node.kids) THEN [walk EXCEPT !.found = found]
       ELSE LET kid == node.kids[index + 1]
                edge == WalkEdge(walk.matrix, row, kid.edge, query, k)
                met == [matrix |-> edge.matrix, found |-> found]
                below == IF edge.skipped THEN met
                         ELSE FuzzyVisit(kid.node, 0, query, k, edge.row, prefix \o kid.edge, met)
            IN FuzzyVisit(node, index + 1, query, k, row, prefix, below)

FuzzyGet(query, distance) ==
    LET k == UsefulDistance(query, distance)
    IN IF ~Fits(query, k) THEN <<>>
       ELSE FuzzyVisit(root, 0, query, k, 1, <<>>, [matrix |-> Matrix(query, k), found |-> <<>>]).found

-----------------------------------------------------------------------------
(* Fuzzy search with bit vectors (Myers), for queries of up to WordBits    *)
(* units.  A vector is the set of its one bits.                            *)

Bits == 0..(WordBits - 1)
Shifted(v) == {i \in Bits : i - 1 \in v}
Xor(v, w) == (v \ w) \cup (w \ v)
Sum(v, w) ==
    LET carry[i \in 0..WordBits] ==
            i > 0 /\ Cardinality({x \in {1, 2, 3} : \/ x = 1 /\ i - 1 \in v
                                                    \/ x = 2 /\ i - 1 \in w
                                                    \/ x = 3 /\ carry[i - 1]}) >= 2
    IN {i \in Bits : ((i \in v) # (i \in w)) # carry[i]}

\* The query's positions that hold this unit (PeqMasks).
PeqMask(query, unit) == {i \in Bits : i < Len(query) /\ query[i + 1] = unit}

\* The distance column for the path so far: vp and vn say where it rises and
\* falls, "score" is its last cell and "depth" its first.
MyersStep(column, unit, query) ==
    LET high == Len(query) - 1
        eq == PeqMask(query, unit)
        xv == eq \cup column.vn
        xh == Xor(Sum(eq \cap column.vp, column.vp), column.vp) \cup eq
        ph == column.vn \cup (Bits \ (xh \cup column.vp))
        mh == column.vp \cap xh
        rising == Shifted(ph) \cup {0}
    IN [vp |-> Shifted(mh) \cup (Bits \ (xv \cup rising)),
        vn |-> rising \cap xv,
        score |-> column.score + (IF high \in ph THEN 1 ELSE 0) - (IF high \in mh THEN 1 ELSE 0),
        depth |-> column.depth + 1]

\* Some cell of the column is within k.
Within(column, query, k) ==
    \E n \in 0..Len(query) :
        LET below == 0..(n - 1)
        IN column.depth + Cardinality(column.vp \cap below)
                        - Cardinality((column.vn \ column.vp) \cap below) <= k

RECURSIVE MyersEdge(_, _, _, _)
MyersEdge(column, units, query, k) ==
    IF units = <<>> THEN [column |-> column, pruned |-> FALSE]
    ELSE LET next == MyersStep(column, Head(units), query)
         IN IF Within(next, query, k) THEN MyersEdge(next, Tail(units), query, k)
            ELSE [column |-> next, pruned |-> TRUE]

RECURSIVE MyersVisit(_, _, _, _, _)
MyersVisit(node, query, k, column, prefix) ==
    LET slot == LeafSlot(node)
        here == IF node.leaf # None /\ column.score <= k
                THEN <<[key |-> prefix, distance |-> column.score]>> ELSE <<>>
        Below(i) == LET edge == MyersEdge(column, node.kids[i].edge, query, k)
                    IN IF edge.pruned THEN <<>>
                       ELSE MyersVisit(node.kids[i].node, query, k, edge.column,
                                       prefix \o node.kids[i].edge)
    IN FlattenSeq([i \in 1..slot |-> Below(i)]) \o here
       \o FlattenSeq([i \in 1..Len(node.kids) - slot |-> Below(slot + i)])

\* for_each_fuzzy: bit vectors when the query fits a word, else the matrix.
ForEachFuzzy(query, distance) ==
    LET k == UsefulDistance(query, distance)
        column == [vp |-> 0..(Len(query) - 1), vn |-> {}, score |-> Len(query), depth |-> 0]
    IN IF Len(query) \in 1..WordBits THEN MyersVisit(root, query, k, column, <<>>)
       ELSE FuzzyGet(query, distance)

-----------------------------------------------------------------------------
(* What one query term reaches (execute_query_spec): itself, the terms it  *)
(* begins, and the terms near it that the prefix pass did not bring.       *)

KeysOf(found) == [i \in DOMAIN found |-> found[i].key]

PrefixWithExact(term) == KeysOf(PrefixEntries(term))   \* a mutation: the exact match again
PrefixExpansions(term) ==
    LET Longer(key) == Len(key) # Len(term) IN SelectSeq(KeysOf(PrefixEntries(term)), Longer)

FuzzyExpansions(term, k) ==
    LET Differs(match) == match.distance # 0 IN KeysOf(SelectSeq(ForEachFuzzy(term, k), Differs))

Reached(term, prefix, k) ==
    LET NotMet(key) == ~(prefix /\ IsPrefix(term, key))
    IN (IF Lookup(root, term) = None THEN <<>> ELSE <<term>>)
       \o (IF prefix THEN PrefixExpansions(term) ELSE <<>>)
       \o (IF k > 0 THEN SelectSeq(FuzzyExpansions(term, k), NotMet) ELSE <<>>)

-----------------------------------------------------------------------------
(* The operations.                                                         *)

Init == root = EmptyNode

Write(key, write) == root' = WritePath(root, key, write)

Set(key, value) == Write(key, [old \in Values \cup {None} |-> value])

FetchWith(key, value) ==
    Write(key, [old \in Values \cup {None} |-> IF old = None THEN value ELSE old])

Delete(key) ==
    /\ Lookup(root, key) # None
    /\ root' = DeletePath(root, key)

DeleteMissing(key) ==
    /\ Lookup(root, key) = None
    /\ UNCHANGED root

Clear == root' = EmptyNode

\* An index written in MiniSearch's JSON and read back: its terms are set in
\* the order of the file, which is the order they were visited in.
RECURSIVE Loaded(_, _)
Loaded(node, entries) ==
    IF entries = <<>> THEN node
    ELSE Loaded(WritePath(node, Head(entries).key, [old \in Values \cup {None} |-> Head(entries).value]),
                Tail(entries))

Reload == root' = Loaded(EmptyNode, Entries(root, <<>>))

Next ==
    \/ \E key \in Keys, value \in Values : Set(key, value) \/ FetchWith(key, value)
    \/ \E key \in Keys : Delete(key) \/ DeleteMissing(key)
    \/ Clear
    \/ Reload

Spec == Init /\ [][Next]_root

-----------------------------------------------------------------------------
(* The JavaScript tree it stands for: the leaf is an entry at its slot     *)
(* (orderedTree, which hands the index over to the JavaScript engine).     *)

RECURSIVE OrderedTree(_)
OrderedTree(node) ==
    LET kids == [i \in DOMAIN node.kids |->
                    [key |-> node.kids[i].edge, value |-> OrderedTree(node.kids[i].node)]]
    IN IF node.leaf = None THEN kids
       ELSE InsertAt(kids, node.pos + 1, [key |-> <<>>, value |-> node.leaf])

Upstream == INSTANCE UpstreamMap WITH tree <- OrderedTree(root)

\* Levenshtein distance, the reference for the searches.
RECURSIVE EditDistance(_, _)
EditDistance(a, b) ==
    IF a = <<>> \/ b = <<>> THEN Len(a) + Len(b)
    ELSE LET replaced == EditDistance(Tail(a), Tail(b)) + IF Head(a) = Head(b) THEN 0 ELSE 1
             other == Least(EditDistance(Tail(a), b), EditDistance(a, Tail(b))) + 1
         IN Least(replaced, other)

Distance == [query \in Queries, key \in Keys |-> EditDistance(query, key)]

-----------------------------------------------------------------------------
(* Properties.                                                             *)

\* Every node of the tree is as create_path and compact_child rely on: edges
\* are not empty, no two begin alike (so the first one that fits is the only
\* one), no node is empty or a mere link of a chain, and a leaf has a slot.
RECURSIVE NodesBelow(_)
NodesBelow(node) ==
    UNION {{node.kids[i].node} \cup NodesBelow(node.kids[i].node) : i \in DOMAIN node.kids}

NodeOK(node) ==
    /\ node.leaf \in Values \cup {None}
    /\ node.leaf # None => node.pos \in 0..Len(node.kids)
    /\ \A i \in DOMAIN node.kids : node.kids[i].edge # <<>>
    /\ \A i, j \in DOMAIN node.kids :
           i # j => CommonPrefixLen(node.kids[i].edge, node.kids[j].edge) = 0

TypeOK ==
    /\ NodeOK(root)
    /\ \A node \in NodesBelow(root) : NodeOK(node) /\ (node.leaf # None \/ Len(node.kids) > 1)

\* The comment on leaf_pos: the slot is maintained "so traversal replicates JS
\* exactly".  Every operation does to the tree, edge order and leaf places
\* included, what the JavaScript map does to its own.
ImplementsUpstream == Upstream!Spec

\* A prefix search finds the keys that begin with the prefix, each once and in
\* the order of the JavaScript iterator, wherever in an edge the prefix ends.
PrefixFindsAll ==
    \A prefix \in Queries \cup {<<>>} :
        LET Begins(entry) == IsPrefix(prefix, entry.key)
        IN PrefixEntries(prefix) = SelectSeq(Upstream!Entries(OrderedTree(root), <<>>), Begins)

\* A fuzzy search finds the keys within the distance, each once, with their
\* edit distances and in the order of the JavaScript walk, whichever of the two
\* algorithms does it; with the matrix unless that would be too large.
FuzzyFindsAll ==
    \A query \in Queries, k \in Distances :
        LET keys == Upstream!Forward(OrderedTree(root), <<>>)
            Near(key) == Distance[query, key] <= k
            near == SelectSeq(keys, Near)
            matches == [i \in DOMAIN near |-> [key |-> near[i], distance |-> Distance[query, near[i]]]]
            tooLarge == ~Fits(query, UsefulDistance(query, k))
        IN /\ FuzzyGet(query, k) = IF tooLarge THEN <<>> ELSE matches
           /\ ForEachFuzzy(query, k) = IF tooLarge /\ Len(query) > WordBits THEN <<>> ELSE matches

\* The passes of a query term bring each term of the index that equals it,
\* begins with it or is near it exactly once, so none is scored twice.
EachTermOnce ==
    \A term \in Queries, prefix \in BOOLEAN, k \in Distances :
        LET reached == Reached(term, prefix, k)
            terms == {entry.key : entry \in ToSet(Entries(root, <<>>))}
        IN Fits(term, UsefulDistance(term, k)) =>
           /\ IsInjective(reached)
           /\ ToSet(reached) = {key \in terms : \/ key = term
                                                \/ prefix /\ IsPrefix(term, key)
                                                \/ Distance[term, key] <= k}
=============================================================================
