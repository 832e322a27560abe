----------------------------- MODULE UpstreamMap -----------------------------
(***************************************************************************)
(* What the term index promises: to be MiniSearch's own SearchableMap, the *)
(* radix tree of the JavaScript package the port replaces.  That code is   *)
(* outside src/; it is modelled from what the comments of                  *)
(* src/src/searchable_map.rs say of it and from the trees that             *)
(* src/js/minisearch.js hands over to it (orderedTree, snapshotTree).      *)
(*                                                                         *)
(* A node is a JavaScript Map, so a sequence of entries in insertion       *)
(* order.  An entry's key is an edge, a string of UTF-16 code units, or    *)
(* the empty string LEAF, under which the node keeps its value.  Setting   *)
(* a key that is there keeps its place; a new key goes to the end.         *)
(***************************************************************************)
EXTENDS Integers, Sequences, FiniteSets, SequencesExt

CONSTANTS
    Keys,   \* the keys the map is used with: sequences of code units
    Values, \* what a leaf can hold
    None    \* no value


VARIABLE tree

LEAF == <<>>
EmptyMap == <<>>

Rest(key, n) == SubSeq(key, n + 1, Len(key))

Slot(node, key) == {i \in DOMAIN node : node[i].key = key}
Child(node, key) == node[CHOOSE i \in Slot(node, key) : TRUE].value
Drop(node, key) == LET Other(entry) == entry.key # key IN SelectSeq(node, Other)
Put(node, key, value) ==
    IF Slot(node, key) # {}
    THEN [i \in DOMAIN node |-> IF i \in Slot(node, key) THEN [node[i] EXCEPT !.value = value]
                                                         ELSE node[i]]
    ELSE Append(node, [key |-> key, value |-> value])

\* The edge that begins with the key's first code unit, if there is one.
Edges(node, key) == {k \in {node[i].key : i \in DOMAIN node} : k # LEAF /\ k[1] = key[1]}

Shared(a, b) ==
    CHOOSE n \in 0..Len(a) : IsPrefix(SubSeq(a, 1, n), b)
                             /\ (n = Len(a) \/ ~IsPrefix(SubSeq(a, 1, n + 1), b))

\* createPath followed by node.set(LEAF, ...), where "write" gives the new
\* value for the old one: a partial overlap splits the edge at the first code
\* unit that differs, and the shared part becomes the node's last key.
RECURSIVE WritePath(_, _, _)
WritePath(node, key, write) ==
    IF key = <<>>
    THEN Put(node, LEAF, write[IF Slot(node, LEAF) = {} THEN None ELSE Child(node, LEAF)])
    ELSE IF Edges(node, key) = {} THEN Append(node, [key |-> key, value |-> <<[key |-> LEAF, value |-> write[None]]>>])
    ELSE LET k == CHOOSE e \in Edges(node, key) : TRUE
             n == Shared(k, key)
             child == Child(node, k)
         IN IF n = Len(k) THEN Put(node, k, WritePath(child, Rest(key, n), write))
            ELSE LET intermediate == <<[key |-> Rest(k, n), value |-> child]>>
                 IN Append(Drop(node, k), [key |-> SubSeq(k, 1, n),
                                           value |-> WritePath(intermediate, Rest(key, n), write)])

RECURSIVE Lookup(_, _)
Lookup(node, key) ==
    IF key = <<>> THEN IF Slot(node, LEAF) = {} THEN None ELSE Child(node, LEAF)
    ELSE LET along == {k \in Edges(node, key) : IsPrefix(k, key)}
         IN IF along = {} THEN None
            ELSE LET k == CHOOSE e \in along : TRUE IN Lookup(Child(node, k), Rest(key, Len(k)))

\* merge: the only entry left of the child under k joins its edge, last in the
\* order of this node.  cleanup: a child left empty goes.
Tidied(node, k) ==
    LET child == Child(node, k)
    IN IF child = EmptyMap THEN Drop(node, k)
       ELSE IF Len(child) = 1 /\ child[1].key # LEAF
       THEN Append(Drop(node, k), [key |-> k \o child[1].key, value |-> child[1].value])
       ELSE node

RECURSIVE RemovePath(_, _)
RemovePath(node, key) ==
    IF key = <<>> THEN Drop(node, LEAF)
    ELSE LET k == CHOOSE e \in Edges(node, key) : IsPrefix(e, key)
         IN Tidied(Put(node, k, RemovePath(Child(node, k), Rest(key, Len(k)))), k)

\* TreeIterator: each node's keys from the last one back.
RECURSIVE Entries(_, _)
Entries(node, prefix) ==
    FlattenSeq([i \in DOMAIN node |->
        LET entry == node[Len(node) + 1 - i]
        IN IF entry.key = LEAF THEN <<[key |-> prefix, value |-> entry.value]>>
           ELSE Entries(entry.value, prefix \o entry.key)])

\* fuzzySearch: each node's keys from the first one on.
RECURSIVE Forward(_, _)
Forward(node, prefix) ==
    FlattenSeq([i \in DOMAIN node |->
        IF node[i].key = LEAF THEN <<prefix>>
        ELSE Forward(node[i].value, prefix \o node[i].key)])

\* loadJS: the entries of a serialized index, set one after the other.
RECURSIVE Loaded(_, _)
Loaded(node, entries) ==
    IF entries = <<>> THEN node
    ELSE Loaded(WritePath(node, Head(entries).key, [old \in Values \cup {None} |-> Head(entries).value]),
                Tail(entries))

-----------------------------------------------------------------------------
Init == tree = EmptyMap

Set(key, value) == tree' = WritePath(tree, key, [old \in Values \cup {None} |-> value])

Fetch(key, value) ==
    tree' = WritePath(tree, key, [old \in Values \cup {None} |-> IF old = None THEN value ELSE old])

Delete(key) ==
    /\ Lookup(tree, key) # None
    /\ tree' = RemovePath(tree, key)

Clear == tree' = EmptyMap

Reload == tree' = Loaded(EmptyMap, Entries(tree, <<>>))

Next ==
    \/ \E key \in Keys, value \in Values : Set(key, value) \/ Fetch(key, value)
    \/ \E key \in Keys : Delete(key)
    \/ Clear
    \/ Reload

Spec == Init /\ [][Next]_tree
=============================================================================
