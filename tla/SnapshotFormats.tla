--------------------------- MODULE SnapshotFormats ---------------------------
(***************************************************************************)
(* What an index is on disk: the binary and the JSON snapshot of           *)
(* src/src/mini_search/snapshot.rs, and MiniSearch's own JSON, written by  *)
(* src/src/mini_search/interop.rs.  A file is what its bytes spell: a row  *)
(* per document, a node per radix node.  Every reader is given as what it  *)
(* accepts ("Accepts...") and what it then makes of it ("Read...").        *)
(***************************************************************************)
EXTENDS Integers, Sequences, FiniteSets, SequencesExt

CONSTANTS
    NFields,        \* the configured fields are 0..NFields-1
    StoreNames,     \* the names of the stored fields
    None,           \* no leaf, or an id the file leaves out
    Null,           \* JSON null
    MaxShortIds,    \* 2 000 000 in the code
    MaxFieldSlots,  \* 16 000 000
    MaxDepth,       \* 128
    Budget          \* what a binary reader may allocate, 2^28 bytes

Absent == -1        \* the length of a field the document lacks
Fields == 0..NFields - 1

Tree == INSTANCE RadixTree WITH
    root <- None, Keys <- {}, Values <- {}, HighSurrogates <- {}, Queries <- {},
    Distances <- {}, WordBits <- 64, Ordinary <- 64, MaxCells <- 67108864, CellSize <- 65536

\* MiniSearch::new.  A leaf is a sequence of fields with their postings.
NewIndex(external) ==
    [count |-> 0, next |-> 0, dirt |-> 0, ids |-> <<>>, shortIds |-> <<>>, length |-> <<>>,
     alive |-> {}, average |-> [f \in Fields |-> "zero"], stored |-> <<>>,
     tree |-> Tree!EmptyNode, external |-> external]

StoreFields(index) == IF index.external THEN {} ELSE StoreNames

\* The nodes with their depths.
RECURSIVE Nodes(_, _)
Nodes(node, depth) ==
    {<<depth, node>>} \cup UNION {Nodes(node.kids[i].node, depth + 1) : i \in DOMAIN node.kids}

TableFits(next) == next <= MaxShortIds /\ next * NFields <= MaxFieldSlots

\* check_persistable: what is asked of an index before it is written.
Persistable(index) ==
    /\ TableFits(index.next)
    /\ \A <<depth, node>> \in Nodes(index.tree, 0) : depth <= MaxDepth

\* Edges are not empty and begin differently; no child is empty.
SoundKids(kids, noLeaf) ==
    /\ \A i \in DOMAIN kids : kids[i].edge # <<>>
    /\ \A i, j \in DOMAIN kids : i # j => Head(kids[i].edge) # Head(kids[j].edge)
    /\ \A i \in DOMAIN kids : kids[i].node.leaf # noLeaf \/ kids[i].node.kids # <<>>

-----------------------------------------------------------------------------
(* validate_snapshot, which the JSON readers run on what they have read.   *)

ValidPostings(index, field, postings) ==
    /\ postings # <<>>
    /\ \A i \in DOMAIN postings :
           /\ postings[i].at < index.next
           /\ postings[i].freq > 0
           /\ i > 1 => postings[i - 1].at < postings[i].at
           /\ postings[i].at \in DOMAIN index.ids => index.length[postings[i].at, field] > 0

ValidNode(index, depth, node) ==
    /\ depth <= MaxDepth
    /\ node.leaf # None =>
           /\ depth # 0
           /\ node.leaf # <<>>
           /\ node.pos <= Len(node.kids)
           /\ \A i \in DOMAIN node.leaf :
                  node.leaf[i].field < NFields /\ ValidPostings(index, node.leaf[i].field, node.leaf[i].postings)
    /\ SoundKids(node.kids, None)

Valid(index) ==
    /\ TableFits(index.next)
    /\ DOMAIN index.length = (0..index.next - 1) \X Fields
    /\ \A f \in Fields : index.average[f] # "nonfinite"
    /\ index.count = Cardinality(DOMAIN index.ids)
    /\ index.count = Cardinality(DOMAIN index.shortIds)
    /\ index.count <= index.next
    /\ \A s \in DOMAIN index.ids :
           /\ s < index.next
           /\ index.ids[s] # Null
           /\ index.ids[s] \in DOMAIN index.shortIds /\ index.shortIds[index.ids[s]] = s
    /\ \A <<s, f>> \in DOMAIN index.length : index.length[s, f] # Absent => s \in DOMAIN index.ids
    /\ DOMAIN index.stored \subseteq DOMAIN index.ids
    /\ \A s \in DOMAIN index.stored : DOMAIN index.stored[s] \subseteq StoreFields(index)
    /\ \A <<depth, node>> \in Nodes(index.tree, 0) : ValidNode(index, depth, node)

-----------------------------------------------------------------------------
(* The binary snapshot: to_bytes and from_bytes.                           *)

Below(a, b) == a < b
Ascending(S) == SetToSortSeq(S, Below)

Deltas(numbers) == [i \in DOMAIN numbers |-> numbers[i] - IF i = 1 THEN 0 ELSE numbers[i - 1]]
Totals(deltas) ==
    LET total[i \in 0..Len(deltas)] == IF i = 0 THEN 0 ELSE total[i - 1] + deltas[i]
    IN [i \in DOMAIN deltas |-> total[i]]

ShortIdsOf(postings) == [i \in DOMAIN postings |-> postings[i].at]

\* Version 5 marks a frequency of 1 by a flag and leaves it out.
WrittenPostings(postings, version) ==
    LET delta == Deltas(ShortIdsOf(postings))
        Plain(i) == version = 5 /\ postings[i].freq = 1
    IN [i \in DOMAIN postings |-> [at |-> delta[i], plain |-> Plain(i),
                                   freq |-> IF Plain(i) THEN None ELSE postings[i].freq]]

RECURSIVE WrittenNode(_, _)
WrittenNode(node, version) ==
    [pos |-> node.pos,
     leaf |-> IF node.leaf = None THEN <<>>
              ELSE [i \in DOMAIN node.leaf |->
                       [field |-> node.leaf[i].field,
                        postings |-> WrittenPostings(node.leaf[i].postings, version)]],
     kids |-> [i \in DOMAIN node.kids |->
                  [edge |-> node.kids[i].edge, node |-> WrittenNode(node.kids[i].node, version)]]]

Pairs(function) ==
    LET names == SetToSeq(DOMAIN function)
    IN [i \in DOMAIN names |-> [name |-> names[i], value |-> function[names[i]]]]

\* Ids and stored fields are left out when they live outside the engine.
WriteBinary(index, version) ==
    LET shorts == Ascending(DOMAIN index.ids)
        delta == Deltas(shorts)
        Stored(s) == IF s \in DOMAIN index.stored THEN Pairs(index.stored[s]) ELSE <<>>
        Row(i) == [delta |-> delta[i],
                   id |-> IF index.external THEN None ELSE index.ids[shorts[i]],
                   lengths |-> [f \in Fields |-> index.length[shorts[i], f] + 1],
                   stored |-> IF index.external THEN <<>> ELSE Stored(shorts[i])]
    IN [version |-> version, external |-> index.external, next |-> index.next,
        dirt |-> index.dirt, average |-> index.average,
        rows |-> [i \in DOMAIN shorts |-> Row(i)],
        tree |-> WrittenNode(index.tree, version)]

\* The documents of a file, by short id.
RowIds(file) ==
    LET delta == [i \in DOMAIN file.rows |-> file.rows[i].delta] IN Totals(delta)
IdOfRow(file, i) == IF file.external THEN RowIds(file)[i] ELSE file.rows[i].id
NamesOf(row) == [i \in DOMAIN row.stored |-> row.stored[i].name]

AcceptsRow(file, i) ==
    LET row == file.rows[i]
    IN /\ RowIds(file)[i] < file.next
       /\ i > 1 => row.delta # 0
       /\ IdOfRow(file, i) # Null
       /\ \A j \in 1..i - 1 : IdOfRow(file, j) # IdOfRow(file, i)
       /\ Len(row.stored) <= Cardinality(StoreFields(file))
       /\ ToSet(NamesOf(row)) \subseteq StoreFields(file) /\ IsInjective(NamesOf(row))

ReadRows(file) ==
    LET at == RowIds(file)
        live == ToSet(at)
        Row(s) == file.rows[CHOOSE i \in DOMAIN at : at[i] = s]
        ids == [i \in DOMAIN at |-> IdOfRow(file, i)]
        Stored(s) == [name \in ToSet(NamesOf(Row(s))) |->
                         (CHOOSE p \in ToSet(Row(s).stored) : p.name = name).value]
    IN [count |-> Len(at), next |-> file.next, dirt |-> file.dirt,
        ids |-> [s \in live |-> ids[CHOOSE i \in DOMAIN at : at[i] = s]],
        shortIds |-> [id \in ToSet(ids) |-> at[CHOOSE i \in DOMAIN ids : ids[i] = id]],
        length |-> [sf \in (0..file.next - 1) \X Fields |->
                       IF sf[1] \in live THEN Row(sf[1]).lengths[sf[2]] - 1 ELSE Absent],
        alive |-> live, average |-> file.average,
        stored |-> [s \in {s \in live : Row(s).stored # <<>>} |-> Stored(s)],
        tree |-> Tree!EmptyNode, external |-> file.external]

\* A mutant: the postings are not held against the documents' lengths.
AcceptsAnyLength(file, index, field, postings) ==
    LET at == Totals(ShortIdsOf(postings))
    IN /\ postings # <<>> /\ Len(postings) <= file.next
       /\ \A i \in DOMAIN postings :
              /\ ~postings[i].plain => postings[i].freq # 0
              /\ file.version = 5 => postings[i].freq # 1
              /\ at[i] < file.next
              /\ i > 1 => postings[i].at # 0

\* One encoding per posting: a frequency that is written is not 1.
AcceptsPostings(file, index, field, postings) ==
    LET at == Totals(ShortIdsOf(postings))
    IN /\ postings # <<>> /\ Len(postings) <= file.next
       /\ \A i \in DOMAIN postings :
              /\ ~postings[i].plain => postings[i].freq # 0
              /\ file.version = 5 => postings[i].freq # 1
              /\ at[i] < file.next
              /\ i > 1 => postings[i].at # 0
              /\ at[i] \in index.alive => index.length[at[i], field] > 0

AcceptsNode(file, index, depth, node) ==
    /\ depth <= MaxDepth
    /\ Len(node.leaf) <= NFields
    /\ depth = 0 => node.leaf = <<>>
    /\ \A i \in DOMAIN node.leaf :
           /\ node.leaf[i].field < NFields
           /\ AcceptsPostings(file, index, node.leaf[i].field, node.leaf[i].postings)
           /\ \A j \in 1..i - 1 : node.leaf[j].field # node.leaf[i].field
    /\ node.leaf # <<>> => node.pos <= Len(node.kids)
    /\ SoundKids(node.kids, <<>>)

\* A leaf's fields are kept in order, whatever order they are read in.
ReadLeaf(leaf) ==
    LET before(a, b) == a.field < b.field
        Decoded(postings) == LET at == Totals(ShortIdsOf(postings))
                             IN [i \in DOMAIN postings |->
                                    [at |-> at[i],
                                     freq |-> IF postings[i].plain THEN 1 ELSE postings[i].freq]]
    IN SortSeq([i \in DOMAIN leaf |-> [field |-> leaf[i].field, postings |-> Decoded(leaf[i].postings)]],
               before)

RECURSIVE ReadNode(_)
ReadNode(node) ==
    [leaf |-> IF node.leaf = <<>> THEN None ELSE ReadLeaf(node.leaf),
     pos |-> node.pos,
     kids |-> [i \in DOMAIN node.kids |->
                  [edge |-> node.kids[i].edge, node |-> ReadNode(node.kids[i].node)]]]

\* What the reader allocates, taken from its budget before each allocation.
SumOf(numbers) == IF numbers = <<>> THEN 0 ELSE Last(Totals(numbers))

RECURSIVE NodeClaims(_)
NodeClaims(node) ==
    128 + SumOf([i \in DOMAIN node.leaf |-> 64 + 8 * Len(node.leaf[i].postings)])
        + SumOf([i \in DOMAIN node.kids |-> 128 + Len(node.kids[i].edge) + NodeClaims(node.kids[i].node)])

Claims(file) ==
    LET values == [i \in DOMAIN file.rows |->
                      IF file.external THEN 0 ELSE 32 + 32 * Len(file.rows[i].stored)]
    IN file.next * (5 * NFields + 1) + 256 * Len(file.rows) + SumOf(values) + NodeClaims(file.tree)

AcceptsBinary(file) ==
    /\ file.version \in {4, 5}
    /\ TableFits(file.next)
    /\ Len(file.rows) <= file.next
    /\ \A f \in Fields : file.average[f] # "nonfinite"
    /\ \A i \in DOMAIN file.rows : AcceptsRow(file, i)
    /\ LET index == ReadRows(file)
       IN \A <<depth, node>> \in Nodes(file.tree, 0) : AcceptsNode(file, index, depth, node)
    /\ Claims(file) <= Budget

ReadBinary(file) == [ReadRows(file) EXCEPT !.tree = ReadNode(file.tree)]

-----------------------------------------------------------------------------
(* The native JSON snapshot: everything but the liveness table.            *)

WriteJSON(index) == [version |-> 5, index |-> [index EXCEPT !.alive = {}]]

\* A mutant: the liveness table is not rebuilt.
NobodyAlive(file) == file.index

ReadJSON(file) ==
    [file.index EXCEPT !.alive = {s \in DOMAIN file.index.ids : s < file.index.next}]

AcceptsJSON(file) == file.version \in {4, 5} /\ TableFits(file.index.next) /\ Valid(ReadJSON(file))

-----------------------------------------------------------------------------
(* MiniSearch's JSON.  A document's lengths are an array that ends with    *)
(* the last field it has; terms come in the order of the tree's iterator.  *)

\* A mutant: the array ends before the first field the document lacks.
EndsAtGap(lengths) ==
    LET gap == CHOOSE f \in 0..NFields :
                   (f = NFields \/ lengths[f] = Absent) /\ \A g \in 0..f - 1 : lengths[g] # Absent
    IN [i \in 1..gap |-> lengths[i - 1]]

Trimmed(lengths) ==
    LET last == CHOOSE f \in Fields : lengths[f] # Absent /\ \A g \in Fields : g > f => lengths[g] = Absent
    IN [i \in 1..last + 1 |-> lengths[i - 1]]

\* "ds": version 1 wraps each posting list once more.  Postings are a map, in
\* an order no reader may rely on: backwards here.
WriteMiniSearch(index, version) ==
    LET HasFields(s) == \E f \in Fields : index.length[s, f] # Absent
        Lengths(s) == [f \in Fields |-> index.length[s, f]]
        Backwards(leaf) == [i \in DOMAIN leaf |-> [leaf[i] EXCEPT !.postings = Reverse(@)]]
        entries == Tree!Entries(index.tree, <<>>)
    IN [version |-> version, ds |-> version = 1, count |-> index.count, next |-> index.next,
        dirt |-> index.dirt, ids |-> index.ids,
        lengths |-> [s \in {s \in DOMAIN index.ids : HasFields(s)} |-> Trimmed(Lengths(s))],
        average |-> [f \in Fields |-> IF index.average[f] = "nonfinite" THEN "null" ELSE index.average[f]],
        stored |-> index.stored,
        terms |-> [i \in DOMAIN entries |-> [entries[i] EXCEPT !.value = Backwards(@)]]]

\* What start_minisearch_json checks before any entry is read.
AcceptsHeader(file) ==
    /\ file.version \in {1, 2}
    /\ TableFits(file.next)
    /\ \A f \in Fields : file.average[f] # "nonfinite"

\* A term's fields and postings as the loader checks them, one by one.
AcceptsTerm(file, entry) ==
    /\ \A i \in DOMAIN entry.value :
           /\ entry.value[i].field < NFields
           /\ file.ds = (file.version = 1)
           /\ \A j \in DOMAIN entry.value[i].postings : entry.value[i].postings[j].freq # 0
           /\ \A j \in 1..i - 1 : entry.value[j].field # entry.value[i].field
    /\ entry.key # <<>>
    /\ entry.value # <<>>
=============================================================================
