------------------------------ MODULE Postings ------------------------------
(***************************************************************************)
(* Postings of src/src/mini_search.rs: one term's documents in one field,  *)
(* a vector of entries in the order of their short ids.  An entry whose    *)
(* frequency reaches zero stays as a tombstone, until the tombstones       *)
(* outnumber the live entries and one sweep drops them all.                *)
(***************************************************************************)
EXTENDS Naturals, FiniteSets, SequencesExt, Selections

CONSTANTS
    Docs,           \* short ids, given out from 0 on
    MaxFrequency    \* bound on a frequency, a u32 in the code

ASSUME DocsAssumption == Docs \subseteq Nat /\ \A d \in Docs : 0 .. d \subseteq Docs
ASSUME FrequencyAssumption == MaxFrequency \in Nat \ {0}

VARIABLES
    list,           \* the vector, of [doc, frequency] entries
    tombstones,     \* the second field: how many frequencies are zero
    answer          \* what the last decrement returned

vars == <<list, tombstones, answer>>

Entry == [doc : Docs, frequency : Nat]

Init ==
    /\ list = <<>>
    /\ tombstones = 0
    /\ answer = TRUE

\* len.
Length == Len(list) - tombstones

IsLive(entry) == entry.frequency > 0

Of(d, n) == [doc |-> d, frequency |-> n]

\* binary_search_by_key: the entry of a document, or where one would go.  The
\* vector is ascending, so that the entries below d are a prefix of it.
Found(d) == \E i \in 1 .. Len(list) : list[i].doc = d

Position(d) == 1 + Cardinality({i \in 1 .. Len(list) : list[i].doc < d})

----------------------------------------------------------------------------
\* Mutant: a revived tombstone is still counted.
ReviveCounted(i) ==
    /\ list' = [list EXCEPT ![i].frequency = @ + 1]
    /\ UNCHANGED tombstones

\* An entry that gains an occurrence; a tombstone is one no longer.
Revive(i) ==
    /\ list' = [list EXCEPT ![i].frequency = @ + 1]
    /\ tombstones' = IF IsLive(list[i]) THEN tombstones ELSE tombstones - 1

\* Mutant: the fast path taken for every document that is not the last one.
AppendAny(d) == list # <<>> => Last(list).doc # d

\* The fast path of indexing: the document comes after the last entry.
Appends(d) == list # <<>> => Last(list).doc < d

\* increment.
Increment(d) ==
    /\ Found(d) => list[Position(d)].frequency < MaxFrequency
    /\ \/ /\ Appends(d)
          /\ list' = Append(list, Of(d, 1))
          /\ UNCHANGED tombstones
       \/ /\ ~Appends(d) /\ Found(d)
          /\ Revive(Position(d))
       \/ /\ ~Appends(d) /\ ~Found(d)
          /\ list' = InsertAt(list, Position(d), Of(d, 1))
          /\ UNCHANGED tombstones
    /\ UNCHANGED answer

\* Mutant: the sweep waits for the tombstones to outnumber every entry.
NeverOutnumber(count) == FALSE

\* The tombstones outnumber the live entries.
Outnumber(count) == 2 * count > Len(list)

\* Mutant: the sweep drops the entries of frequency 1 as well.
KeepFrequent(entries) ==
    Selected(entries, {i \in 1 .. Len(entries) : entries[i].frequency > 1})

\* The entries that are not tombstones: what sweep keeps and iter yields.
Live(entries) == Selected(entries, {i \in 1 .. Len(entries) : IsLive(entries[i])})

\* decrement: a document without a posting, or with a tombstone, is refused.
Decrement(d) ==
    IF ~Found(d) \/ ~IsLive(list[Position(d)])
    THEN /\ answer' = FALSE
         /\ UNCHANGED <<list, tombstones>>
    ELSE LET entries == [list EXCEPT ![Position(d)].frequency = @ - 1]
             buried == IF IsLive(entries[Position(d)]) THEN tombstones ELSE tombstones + 1
         IN  /\ answer' = TRUE
             /\ IF buried # tombstones /\ Outnumber(buried)
                THEN list' = Live(entries) /\ tombstones' = 0
                ELSE list' = entries /\ tombstones' = buried

\* What iter yields of the documents in keep.
Kept(keep) ==
    Selected(list, {i \in 1 .. Len(list) : IsLive(list[i]) /\ list[i].doc \in keep})

\* retain, as vacuum_step calls it.
Retain(keep) ==
    /\ list' = Kept(keep)
    /\ tombstones' = 0
    /\ UNCHANGED answer

\* The remapping in compact: the postings of live documents get their new ids
\* in place, the others go.
Renumber(live) ==
    LET new == [d \in live |-> Cardinality({x \in live : x < d})]
        kept == Kept(live)
    IN  /\ list' = [i \in 1 .. Len(kept) |-> Of(new[kept[i].doc], kept[i].frequency)]
        /\ tombstones' = 0
        /\ UNCHANGED answer

\* term_results_lazy over this list: stale postings lose one occurrence in
\* place, uncounted, and a sweep follows when one reached zero.
Visit(live) ==
    LET Stale(entry) == IsLive(entry) /\ entry.doc \notin live
        entries == [i \in 1 .. Len(list) |->
            IF Stale(list[i]) THEN [list[i] EXCEPT !.frequency = @ - 1] ELSE list[i]]
    IN  /\ IF \E i \in 1 .. Len(list) : Stale(list[i]) /\ ~IsLive(entries[i])
           THEN list' = Live(entries) /\ tombstones' = 0
           ELSE list' = entries /\ UNCHANGED tombstones
        /\ UNCHANGED answer

\* A list written by write_node and read back with push_sorted: len, then the
\* live entries.
Reload ==
    /\ list' = Live(list)
    /\ tombstones' = 0
    /\ UNCHANGED answer

Next ==
    \/ \E d \in Docs : Increment(d)
    \/ \E d \in Docs : Decrement(d)
    \/ \E live \in SUBSET Docs : Retain(live)
    \/ \E live \in SUBSET Docs : Renumber(live)
    \/ \E live \in SUBSET Docs : Visit(live)
    \/ Reload

Spec == Init /\ [][Next]_vars

----------------------------------------------------------------------------
\* Types, and the order binary search relies on: ascending, so no document has
\* two entries, tombstones included, whatever was inserted, revived or renumbered.
TypeOK ==
    /\ list \in Seq(Entry)
    /\ tombstones \in Nat
    /\ answer \in BOOLEAN
    /\ \A i, j \in 1 .. Len(list) : i < j => list[i].doc < list[j].doc

\* len and is_empty, which decide whether an entry of the index or a key of the
\* tree goes and how many postings a snapshot announces, count what iter
\* yields: the uncounted tombstones of a lazy visit are never left behind.
LengthCountsPostings == Length = Len(Live(list))

\* "an entry whose frequency reaches zero stays in place as a tombstone until
\* they outnumber the live entries": no list is ever more than half tombstones.
AtMostHalfTombstones == 2 * tombstones <= Len(list)

Frequency(d) == IF Found(d) THEN list[Position(d)].frequency ELSE 0

M == INSTANCE PostingMap WITH freq <- [d \in Docs |-> Frequency(d)]

\* Through appends, insertions, tombstones, sweeps, renumberings and reloads,
\* the list is a map of frequencies.
ImplementsMap == M!Spec
=============================================================================
