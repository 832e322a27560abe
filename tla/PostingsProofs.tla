---------------------------- MODULE PostingsProofs ----------------------------
(***************************************************************************)
(* The inductive invariant of Postings and the theorems it gives, for any  *)
(* number of documents and every bound on a frequency; last, that the list *)
(* implements the map of frequencies of PostingMap.                        *)
(*                                                                         *)
(* The vector is reasoned about by positions: ascending documents, the     *)
(* prefix that binary search looks below, and the positions that a filter  *)
(* keeps, in their order.                                                  *)
(***************************************************************************)
EXTENDS Postings, SelectionsProofs, FiniteSetTheorems, SequenceTheorems, TLAPS

Positions(entries) == 1 .. Len(entries)

\* No document has two entries, and they are in the order of the short ids.
Ascending(entries) ==
    \A i, j \in Positions(entries) : i < j => entries[i].doc < entries[j].doc

Dead(entries) == {i \in Positions(entries) : ~IsLive(entries[i])}

Alive(entries) == {i \in Positions(entries) : IsLive(entries[i])}

\* Where d is, or would go.
PositionIn(entries, d) == 1 + Cardinality({i \in Positions(entries) : entries[i].doc < d})

Holds(entries, d) == \E i \in Positions(entries) : entries[i].doc = d

FrequencyIn(entries, d) ==
    IF Holds(entries, d) THEN entries[PositionIn(entries, d)].frequency ELSE 0

IInv ==
    /\ list \in Seq(Entry) /\ Ascending(list)
    /\ tombstones = Cardinality(Dead(list))
    /\ 2 * tombstones <= Len(list)
    /\ answer \in BOOLEAN

----------------------------------------------------------------------------
(* Sets of positions.                                                      *)

LEMMA Elements ==
    ASSUME NEW entries \in Seq(Entry)
    PROVE  /\ Len(entries) \in Nat
           /\ \A i \in Positions(entries) :
                  /\ i \in Nat /\ 1 <= i /\ i <= Len(entries)
                  /\ entries[i] \in Entry /\ entries[i].doc \in Docs
                  /\ entries[i].doc \in Nat /\ entries[i].frequency \in Nat
<1>1. Len(entries) \in Nat /\ \A i \in Positions(entries) : entries[i] \in Entry
    BY DEF Positions
<1>2. \A entry \in Entry : entry.doc \in Docs /\ entry.doc \in Nat /\ entry.frequency \in Nat
    BY DocsAssumption DEF Entry
<1> QED
    BY <1>1, <1>2 DEF Positions

\* What a filter makes of a list: its order and the entries at at.
Filtered(entries, at, chosen) ==
    /\ chosen \in Seq(Entry) /\ Ascending(chosen)
    /\ Len(chosen) = Cardinality(at)
    /\ \A i \in at : \E k \in Positions(chosen) : chosen[k] = entries[i]
    /\ \A k \in Positions(chosen) : \E i \in at : chosen[k] = entries[i]

LEMMA SelectedFilters ==
    ASSUME NEW entries \in Seq(Entry), Ascending(entries),
           NEW at \in SUBSET Positions(entries)
    PROVE  Filtered(entries, at, Selected(entries, at))
<1>1. Len(entries) \in Nat /\ at \in SUBSET (1 .. Len(entries))
    BY DEF Positions
<1>2. Cardinality(at) \in Nat
    BY <1>1, PositionSets
<1>3. PICK pos : Picks(at, pos)
    BY <1>1, Selection
<1> DEFINE chosen == Selected(entries, at)
<1>4. /\ pos \in [1 .. Cardinality(at) -> at]
      /\ \A k, l \in 1 .. Cardinality(at) : k < l => pos[k] < pos[l]
      /\ \A i \in at : \E k \in 1 .. Cardinality(at) : pos[k] = i
      /\ chosen = [k \in 1 .. Cardinality(at) |-> entries[pos[k]]]
    BY <1>3 DEF Picks
<1>5. \A k \in 1 .. Cardinality(at) : pos[k] \in at /\ entries[pos[k]] \in Entry
    BY <1>4, Elements
<1> HIDE DEF chosen
<1>6. chosen \in Seq(Entry) /\ Len(chosen) = Cardinality(at)
    BY <1>2, <1>4, <1>5
<1>7. Ascending(chosen)
    <2>1. ASSUME NEW k \in 1 .. Cardinality(at), NEW l \in 1 .. Cardinality(at), k < l
          PROVE  chosen[k].doc < chosen[l].doc
        <3>1. pos[k] \in Positions(entries) /\ pos[l] \in Positions(entries) /\ pos[k] < pos[l]
            BY <1>4, <2>1
        <3>2. entries[pos[k]].doc < entries[pos[l]].doc
            BY <3>1 DEF Ascending
        <3> QED
            BY <1>4, <3>2
    <2> QED
        BY <1>6, <2>1 DEF Ascending, Positions
<1>8. Filtered(entries, at, chosen)
    BY <1>4, <1>5, <1>6, <1>7 DEF Filtered, Positions
<1> QED
    BY <1>8 DEF chosen

----------------------------------------------------------------------------
(* Binary search.                                                          *)

\* The entries below d are a prefix of the list.
LEMMA Below ==
    ASSUME NEW entries \in Seq(Entry), Ascending(entries), NEW d \in Nat
    PROVE  /\ PositionIn(entries, d) \in 1 .. (Len(entries) + 1)
           /\ \A i \in Positions(entries) :
                  entries[i].doc < d <=> i < PositionIn(entries, d)
<1> DEFINE S == {i \in Positions(entries) : entries[i].doc < d}
<1>1. Len(entries) \in Nat /\ S \in SUBSET (1 .. Len(entries))
    BY DEF Positions
<1>2. \A i \in Positions(entries) : entries[i].doc \in Nat /\ i \in Nat
    BY Elements
<1>3. ASSUME NEW i \in S, NEW j \in 1 .. i
      PROVE  j \in S
    <2>1. i \in Positions(entries) /\ entries[i].doc < d /\ i \in Nat /\ i <= Len(entries)
        BY Elements
    <2>2. j \in Nat /\ 1 <= j /\ j <= i
        BY <2>1
    <2>3. j \in Positions(entries)
        BY <1>1, <2>1, <2>2 DEF Positions
    <2>4. entries[j].doc < d
        <3>1. CASE j = i
            BY <2>1, <3>1
        <3>2. CASE j < i
            <4>1. entries[j].doc < entries[i].doc
                BY <2>1, <2>3, <3>2 DEF Ascending
            <4> QED
                BY <1>2, <2>1, <2>3, <4>1
        <3> QED
            BY <2>1, <2>2, <3>1, <3>2
    <2> QED
        BY <2>3, <2>4
<1>4. \A i \in S : 1 .. i \subseteq S
    BY <1>3
<1> HIDE DEF S
<1>5. /\ Cardinality(S) \in Nat /\ Cardinality(S) <= Len(entries)
      /\ \A i \in 1 .. Len(entries) : i \in S <=> i <= Cardinality(S)
    BY <1>1, <1>4, Prefix
<1>6. PositionIn(entries, d) = 1 + Cardinality(S)
    BY DEF PositionIn, S
<1>7. \A i \in Positions(entries) : i \in S <=> entries[i].doc < d
    BY DEF S
<1> QED
    BY <1>1, <1>5, <1>6, <1>7 DEF Positions

\* Binary search finds the entry of a document that has one.
LEMMA Located ==
    ASSUME NEW entries \in Seq(Entry), Ascending(entries), NEW i \in Positions(entries)
    PROVE  /\ PositionIn(entries, entries[i].doc) = i
           /\ FrequencyIn(entries, entries[i].doc) = entries[i].frequency
<1> DEFINE d == entries[i].doc
           p == PositionIn(entries, d)
<1>1. d \in Nat /\ i \in Nat /\ i <= Len(entries) /\ Len(entries) \in Nat
    BY Elements
<1>2. /\ p \in 1 .. (Len(entries) + 1)
      /\ \A j \in Positions(entries) : entries[j].doc < d <=> j < p
    <2> HIDE DEF d
    <2> QED
        BY <1>1, Below
<1>3. i >= p
    BY <1>1, <1>2
<1>4. ASSUME p < i PROVE FALSE
    <2>1. p \in Positions(entries)
        BY <1>1, <1>2, <1>4 DEF Positions
    <2>2. entries[p].doc < d
        BY <1>4, <2>1 DEF Ascending
    <2> QED
        BY <1>2, <2>1, <2>2
<1>5. p = i
    BY <1>1, <1>2, <1>3, <1>4
<1>6. Holds(entries, d)
    BY DEF Holds
<1> QED
    BY <1>5, <1>6 DEF FrequencyIn

\* A document without an entry has the frequency 0, and one with an entry that
\* entry's.
LEMMA Frequencies ==
    ASSUME NEW entries \in Seq(Entry), Ascending(entries), NEW d
    PROVE  /\ FrequencyIn(entries, d) \in Nat
           /\ ~Holds(entries, d) => FrequencyIn(entries, d) = 0
           /\ \A i \in Positions(entries) :
                  entries[i].doc = d => FrequencyIn(entries, d) = entries[i].frequency
<1>1. \A i \in Positions(entries) :
         entries[i].doc = d => FrequencyIn(entries, d) = entries[i].frequency
    BY Located
<1>2. ~Holds(entries, d) => FrequencyIn(entries, d) = 0
    BY DEF FrequencyIn
<1>3. \A i \in Positions(entries) : entries[i].frequency \in Nat
    BY Elements
<1>4. FrequencyIn(entries, d) \in Nat
    BY <1>1, <1>2, <1>3 DEF Holds
<1> QED
    BY <1>1, <1>2, <1>4

\* Tombstones and postings are all there is.
LEMMA Counted ==
    ASSUME NEW entries \in Seq(Entry)
    PROVE  /\ Cardinality(Dead(entries)) \in Nat
           /\ Cardinality(Alive(entries)) = Len(entries) - Cardinality(Dead(entries))
<1> DEFINE A == Alive(entries)
           B == Dead(entries)
           n == Len(entries)
<1>1. n \in Nat
    BY Elements
<1>2. /\ A \in SUBSET (1 .. n) /\ B \in SUBSET (1 .. n)
      /\ A \cup B = 1 .. n /\ A \cap B = {}
    BY DEF Alive, Dead, Positions
<1> HIDE DEF A, B, n
<1>3. /\ IsFiniteSet(A) /\ IsFiniteSet(B)
      /\ Cardinality(A) \in Nat /\ Cardinality(B) \in Nat
    BY <1>1, <1>2, PositionSets
<1>4. Cardinality(A \cup B) = Cardinality(A) + Cardinality(B) - Cardinality(A \cap B)
    BY <1>3, FS_Union
<1>5. Cardinality({}) = 0 /\ Cardinality(1 .. n) = n
    BY <1>1, FS_EmptySet, FS_Interval
<1>6. Cardinality(A) = n - Cardinality(B)
    <2>1. n = Cardinality(A) + Cardinality(B) - 0
        BY <1>2, <1>4, <1>5
    <2> QED
        BY <1>1, <1>3, <2>1
<1> QED
    BY <1>3, <1>6 DEF A, B, n

\* len counts what iter yields when the tombstones are counted.
LEMMA LiveLength ==
    ASSUME NEW entries \in Seq(Entry), Ascending(entries)
    PROVE  /\ Filtered(entries, Alive(entries), Live(entries))
           /\ Len(Live(entries)) = Len(entries) - Cardinality(Dead(entries))
<1>1. Alive(entries) \in SUBSET Positions(entries)
    BY DEF Alive
<1>2. Live(entries) = Selected(entries, Alive(entries))
    BY DEF Live, Alive, Positions
<1>3. Filtered(entries, Alive(entries), Live(entries))
    BY <1>1, <1>2, SelectedFilters
<1>4. Len(Live(entries)) = Cardinality(Alive(entries))
    BY <1>3 DEF Filtered
<1> QED
    BY <1>3, <1>4, Counted

----------------------------------------------------------------------------
(* The changes of a list.                                                  *)

\* Only live entries are kept: none is a tombstone, and a document keeps its
\* frequency or has none.
LEMMA FilteredList ==
    ASSUME NEW entries \in Seq(Entry), Ascending(entries),
           NEW at \in SUBSET Alive(entries), NEW chosen, Filtered(entries, at, chosen)
    PROVE  /\ chosen \in Seq(Entry) /\ Ascending(chosen)
           /\ Cardinality(Dead(chosen)) = 0
           /\ \A i \in at : FrequencyIn(chosen, entries[i].doc) = entries[i].frequency
           /\ \A d : (\A i \in at : entries[i].doc # d) => FrequencyIn(chosen, d) = 0
<1>1. chosen \in Seq(Entry) /\ Ascending(chosen)
    BY DEF Filtered
<1>2. Dead(chosen) = {}
    <2>1. ASSUME NEW k \in Positions(chosen)
          PROVE  IsLive(chosen[k])
        <3>1. PICK i \in at : chosen[k] = entries[i]
            BY DEF Filtered
        <3> QED
            BY <3>1 DEF Alive
    <2> QED
        BY <2>1 DEF Dead
<1>3. ASSUME NEW i \in at
      PROVE  FrequencyIn(chosen, entries[i].doc) = entries[i].frequency
    <2>1. PICK k \in Positions(chosen) : chosen[k] = entries[i]
        BY DEF Filtered
    <2> QED
        BY <1>1, <2>1, Located
<1>4. ASSUME NEW d, \A i \in at : entries[i].doc # d
      PROVE  FrequencyIn(chosen, d) = 0
    <2>1. ~Holds(chosen, d)
        BY <1>4 DEF Holds, Filtered
    <2> QED
        BY <2>1 DEF FrequencyIn
<1> QED
    BY <1>1, <1>2, <1>3, <1>4, FS_EmptySet

\* later has the documents of entries, with other frequencies.
SameDocs(entries, later) ==
    /\ later \in Seq(Entry) /\ Len(later) = Len(entries)
    /\ \A i \in Positions(entries) : later[i].doc = entries[i].doc

LEMMA SameDocsList ==
    ASSUME NEW entries \in Seq(Entry), Ascending(entries),
           NEW later, SameDocs(entries, later)
    PROVE  /\ Ascending(later) /\ Positions(later) = Positions(entries)
           /\ \A i \in Positions(entries) :
                  FrequencyIn(later, entries[i].doc) = later[i].frequency
           /\ \A d : ~Holds(entries, d) => FrequencyIn(later, d) = 0
<1>1. later \in Seq(Entry) /\ Positions(later) = Positions(entries)
    BY DEF SameDocs, Positions
<1>2. Ascending(later)
    BY <1>1 DEF SameDocs, Ascending
<1>3. ASSUME NEW i \in Positions(entries)
      PROVE  FrequencyIn(later, entries[i].doc) = later[i].frequency
    <2>1. later[i].doc = entries[i].doc /\ i \in Positions(later)
        BY <1>1 DEF SameDocs
    <2> QED
        BY <1>1, <1>2, <2>1, Located
<1>4. ASSUME NEW d, ~Holds(entries, d)
      PROVE  FrequencyIn(later, d) = 0
    <2>1. ~Holds(later, d)
        BY <1>1, <1>4 DEF Holds, SameDocs
    <2> QED
        BY <2>1 DEF FrequencyIn
<1> QED
    BY <1>1, <1>2, <1>3, <1>4

\* later is entries with the frequency f in place i.
Replaced(entries, i, f, later) ==
    /\ SameDocs(entries, later) /\ later[i].frequency = f
    /\ Dead(later) = IF f = 0 THEN Dead(entries) \cup {i} ELSE Dead(entries) \ {i}
    /\ \A d : FrequencyIn(later, d) =
                  IF d = entries[i].doc THEN f ELSE FrequencyIn(entries, d)

LEMMA ReplacedEntry ==
    ASSUME NEW entries \in Seq(Entry), Ascending(entries),
           NEW i \in Positions(entries), NEW f \in Nat
    PROVE  Replaced(entries, i, f, [entries EXCEPT ![i].frequency = f])
<1> DEFINE later == [entries EXCEPT ![i].frequency = f]
<1> DEFINE e == [entries[i] EXCEPT !.frequency = f]
<1>1. e \in Entry /\ e.doc = entries[i].doc /\ e.frequency = f
    <2>1. entries[i] \in Entry
        BY Elements
    <2> QED
        BY <2>1 DEF Entry
<1>2. later = [entries EXCEPT ![i] = e]
    OBVIOUS
<1> HIDE DEF e, later
<1>3. /\ later \in Seq(Entry) /\ Len(later) = Len(entries)
      /\ \A j \in Positions(entries) : later[j] = IF j = i THEN e ELSE entries[j]
    BY <1>1, <1>2, ExceptSeq DEF Positions
<1>4. SameDocs(entries, later)
    BY <1>1, <1>3 DEF SameDocs
<1>5. Dead(later) = IF f = 0 THEN Dead(entries) \cup {i} ELSE Dead(entries) \ {i}
    <2>1. Positions(later) = Positions(entries)
        BY <1>3 DEF Positions
    <2>2. IsLive(e) <=> f # 0
        BY <1>1 DEF IsLive
    <2> QED
        BY <1>3, <2>1, <2>2 DEF Dead
<1>6. ASSUME NEW d
      PROVE  FrequencyIn(later, d) =
                 IF d = entries[i].doc THEN f ELSE FrequencyIn(entries, d)
    <2>1. /\ \A j \in Positions(entries) :
                 FrequencyIn(later, entries[j].doc) = later[j].frequency
          /\ ~Holds(entries, d) => FrequencyIn(later, d) = 0
        BY <1>4, SameDocsList
    <2>2. CASE d = entries[i].doc
        BY <1>1, <1>3, <2>1, <2>2
    <2>3. CASE d # entries[i].doc
        <3>1. ASSUME NEW j \in Positions(entries), entries[j].doc = d
              PROVE  FrequencyIn(later, d) = FrequencyIn(entries, d)
            <4>1. later[j] = entries[j]
                BY <1>3, <2>3, <3>1
            <4>2. FrequencyIn(later, d) = entries[j].frequency
                BY <2>1, <3>1, <4>1
            <4>3. FrequencyIn(entries, d) = entries[j].frequency
                BY <3>1, Located
            <4> QED
                BY <4>2, <4>3
        <3>2. ~Holds(entries, d) => FrequencyIn(entries, d) = 0
            BY DEF FrequencyIn
        <3> QED
            BY <2>1, <2>3, <3>1, <3>2 DEF Holds
    <2> QED
        BY <2>2, <2>3
<1>7. later[i].frequency = f
    BY <1>1, <1>3
<1>8. Replaced(entries, i, f, later)
    BY <1>4, <1>5, <1>6, <1>7 DEF Replaced
<1> QED
    BY <1>8 DEF later

\* later is entries with a new entry of d at p.
Inserted(entries, p, d, later) ==
    /\ later \in Seq(Entry) /\ Len(later) = Len(entries) + 1
    /\ later[p] = Of(d, 1)
    /\ \A i \in Positions(entries) : later[IF i < p THEN i ELSE i + 1] = entries[i]

\* The fast path appends where binary search would insert.
LEMMA AppendInserts ==
    ASSUME NEW entries \in Seq(Entry), Ascending(entries), NEW d \in Docs,
           entries # <<>> => Last(entries).doc < d
    PROVE  /\ ~Holds(entries, d) /\ PositionIn(entries, d) = Len(entries) + 1
           /\ Inserted(entries, Len(entries) + 1, d, Append(entries, Of(d, 1)))
<1>1. /\ Of(d, 1) \in Entry /\ d \in Nat /\ Len(entries) \in Nat
      /\ \A i \in Positions(entries) :
             i \in Nat /\ 1 <= i /\ i <= Len(entries) /\ entries[i].doc \in Nat
    BY DocsAssumption, Elements DEF Of, Entry
<1>2. ASSUME NEW i \in Positions(entries)
      PROVE  entries[i].doc < d
    <2>1. Len(entries) \in Positions(entries)
        BY <1>1 DEF Positions
    <2>2. entries[Len(entries)].doc < d
        BY <2>1 DEF Last, Positions
    <2>3. i = Len(entries) \/ entries[i].doc < entries[Len(entries)].doc
        BY <1>1, <2>1 DEF Ascending
    <2> QED
        BY <1>1, <2>1, <2>2, <2>3
<1>3. PositionIn(entries, d) = Len(entries) + 1
    <2>1. /\ PositionIn(entries, d) \in 1 .. (Len(entries) + 1)
          /\ \A i \in Positions(entries) : i < PositionIn(entries, d)
        BY <1>1, <1>2, Below
    <2>2. CASE Len(entries) = 0
        BY <2>1, <2>2
    <2>3. CASE Len(entries) # 0
        <3>1. Len(entries) \in Positions(entries)
            BY <1>1, <2>3 DEF Positions
        <3> QED
            BY <1>1, <2>1, <3>1
    <2> QED
        BY <2>2, <2>3
<1>4. Inserted(entries, Len(entries) + 1, d, Append(entries, Of(d, 1)))
    BY <1>1, AppendProperties DEF Inserted, Positions
<1>5. ~Holds(entries, d)
    BY <1>1, <1>2 DEF Holds
<1> QED
    BY <1>3, <1>4, <1>5

LEMMA InsertAtInserts ==
    ASSUME NEW entries \in Seq(Entry), NEW d \in Docs, NEW p \in 1 .. (Len(entries) + 1)
    PROVE  Inserted(entries, p, d, InsertAt(entries, p, Of(d, 1)))
<1> DEFINE n == Len(entries)
           low == SubSeq(entries, 1, p - 1)
           high == SubSeq(entries, p, n)
           one == <<Of(d, 1)>>
<1>1. /\ Of(d, 1) \in Entry /\ n \in Nat /\ p \in Nat /\ 1 <= p /\ p <= n + 1
      /\ \A i \in 1 .. n : entries[i] \in Entry
    <2>1. Of(d, 1) \in Entry
        BY DEF Of, Entry
    <2>2. n \in Nat /\ \A i \in 1 .. n : entries[i] \in Entry
        BY Elements DEF Positions
    <2> QED
        BY <2>1, <2>2
<1>2. /\ low \in Seq(Entry) /\ Len(low) = p - 1
      /\ \A i \in 1 .. (p - 1) : low[i] = entries[i]
    <2>1. \A i \in 1 .. (p - 1) : entries[i] \in Entry
        BY <1>1
    <2>2. /\ low \in Seq(Entry)
          /\ Len(low) = IF 1 <= p - 1 THEN (p - 1) - 1 + 1 ELSE 0
          /\ \A i \in 1 .. ((p - 1) - 1 + 1) : low[i] = entries[1 + i - 1]
        BY <1>1, <2>1, SubSeqProperties
    <2> HIDE DEF low
    <2> QED
        BY <1>1, <2>2
<1>3. /\ high \in Seq(Entry) /\ Len(high) = n - p + 1
      /\ \A i \in 1 .. (n - p + 1) : high[i] = entries[p + i - 1]
    <2>1. \A i \in p .. n : entries[i] \in Entry
        BY <1>1
    <2>2. /\ high \in Seq(Entry)
          /\ Len(high) = IF p <= n THEN n - p + 1 ELSE 0
          /\ \A i \in 1 .. (n - p + 1) : high[i] = entries[p + i - 1]
        BY <1>1, <2>1, SubSeqProperties
    <2> HIDE DEF high
    <2> QED
        BY <1>1, <2>2
<1>4. one \in Seq(Entry) /\ Len(one) = 1 /\ one[1] = Of(d, 1)
    BY <1>1
<1> HIDE DEF low, high, one, n
<1> DEFINE part == low \o one
           later == part \o high
<1>5. /\ part \in Seq(Entry) /\ Len(part) = p
      /\ \A i \in 1 .. p : part[i] = IF i <= p - 1 THEN low[i] ELSE one[i - (p - 1)]
    <2>1. /\ part \in Seq(Entry) /\ Len(part) = Len(low) + Len(one)
          /\ \A i \in 1 .. (Len(low) + Len(one)) :
                 part[i] = IF i <= Len(low) THEN low[i] ELSE one[i - Len(low)]
        BY <1>2, <1>4, ConcatProperties
    <2>2. Len(low) + Len(one) = p
        BY <1>1, <1>2, <1>4
    <2> HIDE DEF part
    <2> QED
        BY <1>2, <2>1, <2>2
<1> HIDE DEF part
<1>6. /\ later \in Seq(Entry) /\ Len(later) = n + 1
      /\ \A i \in 1 .. (n + 1) : later[i] = IF i <= p THEN part[i] ELSE high[i - p]
    <2>1. /\ later \in Seq(Entry) /\ Len(later) = Len(part) + Len(high)
          /\ \A i \in 1 .. (Len(part) + Len(high)) :
                 later[i] = IF i <= Len(part) THEN part[i] ELSE high[i - Len(part)]
        BY <1>3, <1>5, ConcatProperties
    <2>2. Len(part) + Len(high) = n + 1
        BY <1>1, <1>3, <1>5
    <2> HIDE DEF later
    <2> QED
        BY <1>5, <2>1, <2>2
<1>7. InsertAt(entries, p, Of(d, 1)) = later
    BY DEF InsertAt, later, part, low, high, one, n
<1> HIDE DEF later
<1>8. later[p] = Of(d, 1)
    BY <1>1, <1>4, <1>5, <1>6
<1>9. ASSUME NEW i \in 1 .. n
      PROVE  later[IF i < p THEN i ELSE i + 1] = entries[i]
    <2>1. CASE i < p
        <3>1. later[i] = part[i] /\ part[i] = low[i] /\ low[i] = entries[i]
            BY <1>1, <1>2, <1>5, <1>6, <2>1
        <3> QED
            BY <2>1, <3>1
    <2>2. CASE ~(i < p)
        <3>1. later[i + 1] = high[i + 1 - p]
            BY <1>1, <1>6, <2>2
        <3>2. high[i + 1 - p] = entries[p + (i + 1 - p) - 1]
            BY <1>1, <1>3, <2>2
        <3>3. p + (i + 1 - p) - 1 = i
            BY <1>1
        <3> QED
            BY <2>2, <3>1, <3>2, <3>3
    <2> QED
        BY <2>1, <2>2
<1> QED
    BY <1>6, <1>7, <1>8, <1>9 DEF Inserted, Positions, n

\* An insertion where binary search says keeps the order, counts no tombstone
\* and gives one document a posting.
LEMMA InsertedEntry ==
    ASSUME NEW entries \in Seq(Entry), Ascending(entries), NEW d \in Docs,
           ~Holds(entries, d), NEW later,
           Inserted(entries, PositionIn(entries, d), d, later)
    PROVE  /\ later \in Seq(Entry) /\ Ascending(later)
           /\ Cardinality(Dead(later)) = Cardinality(Dead(entries))
           /\ FrequencyIn(entries, d) = 0
           /\ \A x : FrequencyIn(later, x) = IF x = d THEN 1 ELSE FrequencyIn(entries, x)
<1> DEFINE p == PositionIn(entries, d)
           n == Len(entries)
           shift == [i \in Positions(entries) |-> IF i < p THEN i ELSE i + 1]
<1>1. /\ n \in Nat /\ d \in Nat /\ Of(d, 1) \in Entry
      /\ Of(d, 1).doc = d /\ Of(d, 1).frequency = 1
      /\ \A i \in Positions(entries) :
             i \in Nat /\ 1 <= i /\ i <= n /\ entries[i].doc \in Nat
    BY DocsAssumption, Elements DEF Of, Entry
<1>2. /\ p \in Nat /\ 1 <= p /\ p <= n + 1
      /\ \A i \in Positions(entries) : entries[i].doc < d <=> i < p
    <2>1. /\ PositionIn(entries, d) \in 1 .. (Len(entries) + 1)
          /\ \A i \in Positions(entries) : entries[i].doc < d <=> i < PositionIn(entries, d)
        BY <1>1, Below
    <2> QED
        BY <1>1, <2>1
<1>3. \A i \in Positions(entries) : i >= p => d < entries[i].doc
    <2>1. \A i \in Positions(entries) : entries[i].doc # d
        BY DEF Holds
    <2> QED
        BY <1>1, <1>2, <2>1
<1>4. /\ later \in Seq(Entry) /\ Len(later) = n + 1 /\ later[p] = Of(d, 1)
      /\ \A i \in Positions(entries) : later[shift[i]] = entries[i]
    BY DEF Inserted
<1> HIDE DEF p
<1>5. /\ \A i \in Positions(entries) :
             shift[i] \in Positions(later) /\ shift[i] # p /\ shift[i] \in Nat
      /\ \A i, j \in Positions(entries) : i < j => shift[i] < shift[j]
      /\ \A k \in Positions(later) : k = p \/ \E i \in Positions(entries) : k = shift[i]
    <2>1. ASSUME NEW k \in Positions(later), k # p
          PROVE  \E i \in Positions(entries) : k = shift[i]
        <3>1. k \in Nat /\ 1 <= k /\ k <= n + 1
            BY <1>1, <1>4 DEF Positions
        <3>2. CASE k < p
            <4>1. k \in Positions(entries) /\ shift[k] = k
                BY <1>1, <1>2, <3>1, <3>2 DEF Positions
            <4> QED
                BY <4>1
        <3>3. CASE k > p
            <4>1. k - 1 \in Positions(entries) /\ shift[k - 1] = k
                BY <1>1, <1>2, <3>1, <3>3 DEF Positions
            <4> QED
                BY <4>1
        <3> QED
            BY <1>2, <2>1, <3>1, <3>2, <3>3
    <2>2. \A i \in Positions(entries) :
             shift[i] \in Positions(later) /\ shift[i] # p /\ shift[i] \in Nat
        <3>1. ASSUME NEW i \in Positions(entries)
              PROVE  /\ shift[i] \in Nat /\ shift[i] # p
                     /\ 1 <= shift[i] /\ shift[i] <= n + 1
            BY <1>1, <1>2
        <3>2. Positions(later) = 1 .. (n + 1)
            BY <1>4 DEF Positions
        <3> QED
            BY <1>1, <3>1, <3>2
    <2>3. \A i, j \in Positions(entries) : i < j => shift[i] < shift[j]
        BY <1>1, <1>2
    <2> QED
        BY <2>1, <2>2, <2>3
<1>6. \A i \in Positions(entries) : i < p <=> shift[i] < p
    BY <1>1, <1>2
<1> HIDE DEF shift
<1>7. Ascending(later)
    <2>1. ASSUME NEW k \in Positions(later), NEW l \in Positions(later), k < l
          PROVE  later[k].doc < later[l].doc
        <3> k \in Nat /\ l \in Nat
            BY <1>4, Elements
        <3>1. CASE k = p
            <4>1. PICK j \in Positions(entries) : l = shift[j]
                BY <1>2, <1>5, <2>1, <3>1
            <4>2. j >= p
                <5>1. ~(shift[j] < p)
                    BY <1>2, <1>5, <2>1, <3>1, <4>1
                <5> QED
                    BY <1>1, <1>2, <1>6, <5>1
            <4> QED
                BY <1>1, <1>3, <1>4, <3>1, <4>1, <4>2
        <3>2. CASE l = p
            <4>1. PICK i \in Positions(entries) : k = shift[i]
                BY <1>2, <1>5, <2>1, <3>2
            <4>2. i < p
                BY <1>6, <2>1, <3>2, <4>1
            <4> QED
                BY <1>1, <1>2, <1>4, <3>2, <4>1, <4>2
        <3>3. CASE k # p /\ l # p
            <4>1. PICK i \in Positions(entries) : k = shift[i]
                BY <1>5, <3>3
            <4>2. PICK j \in Positions(entries) : l = shift[j]
                BY <1>5, <3>3
            <4>3. i < j
                <5>1. ~(j < i) /\ i # j
                    BY <1>5, <2>1, <4>1, <4>2
                <5> QED
                    BY <1>1, <5>1
            <4>4. entries[i].doc < entries[j].doc
                BY <4>3 DEF Ascending
            <4> QED
                BY <1>4, <4>1, <4>2, <4>4
        <3> QED
            BY <3>1, <3>2, <3>3
    <2> QED
        BY <2>1 DEF Ascending
<1>8. Cardinality(Dead(later)) = Cardinality(Dead(entries))
    <2> DEFINE f == [i \in Dead(entries) |-> shift[i]]
    <2>1. \A i \in Dead(entries) : i \in Positions(entries) /\ shift[i] \in Dead(later)
        BY <1>4, <1>5 DEF Dead
    <2>2. \A k \in Dead(later) : \E i \in Dead(entries) : f[i] = k
        <3>1. IsLive(later[p])
            BY <1>1, <1>4 DEF IsLive
        <3> QED
            BY <1>4, <1>5, <3>1 DEF Dead
    <2>3. \A i, j \in Dead(entries) : f[i] = f[j] => i = j
        <3>1. ASSUME NEW i \in Dead(entries), NEW j \in Dead(entries), shift[i] = shift[j]
              PROVE  i = j
            <4>1. /\ i \in Positions(entries) /\ j \in Positions(entries)
                  /\ shift[i] \in Nat /\ i \in Nat /\ j \in Nat
                BY <1>1, <1>5, <2>1
            <4>2. ~(i < j) /\ ~(j < i)
                BY <1>5, <3>1, <4>1
            <4> QED
                BY <4>1, <4>2
        <3> QED
            BY <3>1
    <2>4. f \in Bijection(Dead(entries), Dead(later))
        BY <2>1, <2>2, <2>3 DEF Bijection, Injection, IsInjective, Surjection
    <2>5. IsFiniteSet(Dead(entries))
        <3>1. Dead(entries) \in SUBSET (1 .. n)
            BY DEF Dead, Positions
        <3> QED
            BY <1>1, <3>1, PositionSets
    <2> QED
        BY <2>4, <2>5, FS_Bijection DEF ExistsBijection
<1>9. \A i \in Positions(entries) : FrequencyIn(later, entries[i].doc) = entries[i].frequency
    BY <1>4, <1>5, <1>7, Located
<1>10. FrequencyIn(later, d) = 1
    <2>1. p \in Positions(later)
        BY <1>1, <1>2, <1>4 DEF Positions
    <2> QED
        BY <1>1, <1>4, <1>7, <2>1, Located
<1>11. ASSUME NEW x, x # d
       PROVE  FrequencyIn(later, x) = FrequencyIn(entries, x)
    <2>1. CASE Holds(entries, x)
        BY <1>9, <2>1, Located DEF Holds
    <2>2. CASE ~Holds(entries, x)
        <3>1. ~Holds(later, x)
            BY <1>1, <1>4, <1>5, <1>11, <2>2 DEF Holds
        <3> QED
            BY <2>2, <3>1 DEF FrequencyIn
    <2> QED
        BY <2>1, <2>2
<1>12. FrequencyIn(entries, d) = 0
    BY DEF FrequencyIn
<1> QED
    BY <1>4, <1>7, <1>8, <1>10, <1>11, <1>12

\* What iter yields is a list without tombstones and with the same frequencies.
LEMMA LiveList ==
    ASSUME NEW entries \in Seq(Entry), Ascending(entries)
    PROVE  /\ Live(entries) \in Seq(Entry) /\ Ascending(Live(entries))
           /\ Cardinality(Dead(Live(entries))) = 0
           /\ \A d : FrequencyIn(Live(entries), d) = FrequencyIn(entries, d)
<1> DEFINE live == Live(entries)
<1>1. Filtered(entries, Alive(entries), live)
    BY LiveLength
<1> HIDE DEF live
<1>2. Alive(entries) \in SUBSET Alive(entries)
    OBVIOUS
<1>3. /\ live \in Seq(Entry) /\ Ascending(live) /\ Cardinality(Dead(live)) = 0
      /\ \A i \in Alive(entries) : FrequencyIn(live, entries[i].doc) = entries[i].frequency
      /\ \A d : (\A i \in Alive(entries) : entries[i].doc # d) => FrequencyIn(live, d) = 0
    BY <1>1, <1>2, FilteredList
<1>4. ASSUME NEW d
      PROVE  FrequencyIn(live, d) = FrequencyIn(entries, d)
    <2>1. CASE \E i \in Alive(entries) : entries[i].doc = d
        <3>1. PICK i \in Alive(entries) : entries[i].doc = d
            BY <2>1
        <3>2. FrequencyIn(entries, d) = entries[i].frequency
            BY <3>1, Located DEF Alive
        <3> QED
            BY <1>3, <3>1, <3>2
    <2>2. CASE ~\E i \in Alive(entries) : entries[i].doc = d
        <3>1. ASSUME NEW i \in Positions(entries), entries[i].doc = d
              PROVE  FrequencyIn(entries, d) = 0
            <4>1. entries[i].frequency = 0
                BY <2>2, <3>1, Elements DEF Alive, IsLive
            <4> QED
                BY <3>1, <4>1, Located
        <3>2. FrequencyIn(entries, d) = 0
            BY <3>1 DEF FrequencyIn, Holds
        <3> QED
            BY <1>3, <2>2, <3>2
    <2> QED
        BY <2>1, <2>2
<1> QED
    BY <1>3, <1>4 DEF live

----------------------------------------------------------------------------
(* The operations, and what they do to the frequencies.                    *)

\* The state is sound, and every document x has the frequency f[x].
Becomes(entries, dead, f) ==
    /\ entries \in Seq(Entry) /\ Ascending(entries)
    /\ dead = Cardinality(Dead(entries))
    /\ 2 * dead <= Len(entries)
    /\ \A x \in Docs : FrequencyIn(entries, x) = f[x]

\* The variable's frequencies, as the refinement maps them.
Freq == [d \in Docs |-> FrequencyIn(list, d)]

LEMMA Terms ==
    /\ \A d : Found(d) <=> Holds(list, d)
    /\ \A d : Position(d) = PositionIn(list, d)
    /\ \A d : Frequency(d) = FrequencyIn(list, d)
BY DEF Found, Position, Frequency, Holds, PositionIn, FrequencyIn, Positions

\* An entry that binary search found.
LEMMA FoundEntry ==
    ASSUME IInv, NEW d, Found(d)
    PROVE  /\ Position(d) \in Positions(list) /\ list[Position(d)].doc = d
           /\ list[Position(d)].frequency \in Nat
           /\ FrequencyIn(list, d) = list[Position(d)].frequency
<1>1. PICK i \in Positions(list) : list[i].doc = d
    BY Terms DEF Holds
<1>2. PositionIn(list, d) = i /\ FrequencyIn(list, d) = list[i].frequency
    BY <1>1, Located DEF IInv
<1> QED
    BY <1>1, <1>2, Terms, Elements DEF IInv

\* Cardinalities of the tombstones when i dies or comes back.
LEMMA DeadCount ==
    ASSUME NEW entries \in Seq(Entry), NEW i \in Positions(entries)
    PROVE  /\ Cardinality(Dead(entries)) \in Nat
           /\ IsLive(entries[i]) =>
                  /\ Cardinality(Dead(entries) \cup {i}) = Cardinality(Dead(entries)) + 1
                  /\ Cardinality(Dead(entries) \ {i}) = Cardinality(Dead(entries))
           /\ ~IsLive(entries[i]) =>
                  Cardinality(Dead(entries) \ {i}) = Cardinality(Dead(entries)) - 1
<1> DEFINE S == Dead(entries)
<1>1. Len(entries) \in Nat /\ S \in SUBSET (1 .. Len(entries))
    BY Elements DEF Dead, Positions
<1>2. i \in S <=> ~IsLive(entries[i])
    BY DEF Dead
<1> HIDE DEF S
<1>3. IsFiniteSet(S) /\ Cardinality(S) \in Nat
    BY <1>1, PositionSets
<1>4. i \notin S => Cardinality(S \cup {i}) = Cardinality(S) + 1
    BY <1>3, FS_AddElement
<1>5. i \in S => Cardinality(S \ {i}) = Cardinality(S) - 1
    BY <1>3, FS_RemoveElement
<1>6. i \notin S => S \ {i} = S
    OBVIOUS
<1> QED
    BY <1>2, <1>3, <1>4, <1>5, <1>6 DEF S

LEMMA IncrementStep ==
    ASSUME IInv, NEW d \in Docs, Increment(d)
    PROVE  /\ Becomes(list', tombstones', [Freq EXCEPT ![d] = @ + 1])
           /\ FrequencyIn(list, d) < MaxFrequency /\ answer' = answer
<1>1. /\ list \in Seq(Entry) /\ Ascending(list) /\ tombstones = Cardinality(Dead(list))
      /\ 2 * tombstones <= Len(list) /\ tombstones \in Nat /\ Len(list) \in Nat
    BY Counted, Elements DEF IInv
<1>2. CASE ~Found(d) /\ Inserted(list, PositionIn(list, d), d, list') /\ tombstones' = tombstones
    <2>1. ~Holds(list, d)
        BY <1>2, Terms
    <2>2. /\ list' \in Seq(Entry) /\ Ascending(list')
          /\ Cardinality(Dead(list')) = Cardinality(Dead(list))
          /\ FrequencyIn(list, d) = 0
          /\ \A x : FrequencyIn(list', x) = IF x = d THEN 1 ELSE FrequencyIn(list, x)
        BY <1>1, <1>2, <2>1, InsertedEntry
    <2>3. Len(list') = Len(list) + 1
        BY <1>2 DEF Inserted
    <2>4. \A x \in Docs : FrequencyIn(list', x) = [Freq EXCEPT ![d] = @ + 1][x]
        BY <2>2 DEF Freq
    <2> QED
        BY <1>1, <1>2, <2>2, <2>3, <2>4, FrequencyAssumption DEF Becomes, Increment
<1>3. CASE Appends(d)
    <2>1. list' = Append(list, Of(d, 1)) /\ tombstones' = tombstones
        BY <1>3 DEF Increment
    <2>2. list # <<>> => Last(list).doc < d
        BY <1>3 DEF Appends
    <2>3. /\ ~Holds(list, d) /\ PositionIn(list, d) = Len(list) + 1
          /\ Inserted(list, Len(list) + 1, d, Append(list, Of(d, 1)))
        BY <1>1, <2>2, AppendInserts
    <2> QED
        BY <1>2, <2>1, <2>3, Terms
<1>4. CASE ~Appends(d) /\ ~Found(d)
    <2>1. list' = InsertAt(list, PositionIn(list, d), Of(d, 1)) /\ tombstones' = tombstones
        BY <1>4, Terms DEF Increment
    <2>2. d \in Nat /\ PositionIn(list, d) \in 1 .. (Len(list) + 1)
        BY <1>1, Below, DocsAssumption
    <2>3. Inserted(list, PositionIn(list, d), d, list')
        BY <1>1, <2>1, <2>2, InsertAtInserts
    <2> QED
        BY <1>2, <1>4, <2>1, <2>3
<1>5. CASE ~Appends(d) /\ Found(d)
    <2> DEFINE i == Position(d)
               f == list[i].frequency + 1
    <2>1. /\ i \in Positions(list) /\ list[i].doc = d /\ list[i].frequency \in Nat
          /\ FrequencyIn(list, d) = list[i].frequency
        BY <1>5, FoundEntry
    <2>2. Revive(i) /\ list[i].frequency < MaxFrequency /\ answer' = answer
        BY <1>5 DEF Increment
    <2> HIDE DEF i
    <2>3. list' = [list EXCEPT ![i].frequency = f] /\ f \in Nat /\ f # 0
        BY <2>1, <2>2 DEF Revive
    <2>4. /\ SameDocs(list, list')
          /\ Dead(list') = Dead(list) \ {i}
          /\ \A x : FrequencyIn(list', x) = IF x = d THEN f ELSE FrequencyIn(list, x)
        <3> HIDE DEF f
        <3>1. Replaced(list, i, f, list')
            BY <1>1, <2>1, <2>3, ReplacedEntry
        <3> QED
            BY <2>1, <2>3, <3>1 DEF Replaced
    <2>5. /\ list' \in Seq(Entry) /\ Len(list') = Len(list) /\ Ascending(list')
        BY <1>1, <2>4, SameDocsList DEF SameDocs
    <2>6. /\ tombstones' = Cardinality(Dead(list')) /\ 2 * tombstones' <= Len(list')
        <3>1. CASE IsLive(list[i])
            <4>1. Cardinality(Dead(list')) = Cardinality(Dead(list))
                BY <1>1, <2>1, <2>4, <3>1, DeadCount
            <4> QED
                BY <1>1, <2>2, <2>5, <3>1, <4>1 DEF Revive
        <3>2. CASE ~IsLive(list[i])
            <4>1. Cardinality(Dead(list')) = Cardinality(Dead(list)) - 1
                BY <1>1, <2>1, <2>4, <3>2, DeadCount
            <4> QED
                BY <1>1, <2>2, <2>5, <3>2, <4>1, Counted DEF Revive
        <3> QED
            BY <3>1, <3>2
    <2>7. \A x \in Docs : FrequencyIn(list', x) = [Freq EXCEPT ![d] = @ + 1][x]
        BY <2>1, <2>4 DEF Freq
    <2> QED
        BY <2>1, <2>2, <2>5, <2>6, <2>7 DEF Becomes
<1> QED
    BY <1>3, <1>4, <1>5

LEMMA DecrementStep ==
    ASSUME IInv, NEW d \in Docs, Decrement(d)
    PROVE  /\ Becomes(list', tombstones', [Freq EXCEPT ![d] = IF @ > 0 THEN @ - 1 ELSE 0])
           /\ answer' = (FrequencyIn(list, d) > 0)
<1>1. /\ list \in Seq(Entry) /\ Ascending(list) /\ tombstones = Cardinality(Dead(list))
      /\ 2 * tombstones <= Len(list) /\ tombstones \in Nat /\ Len(list) \in Nat
    BY Counted, Elements DEF IInv
<1>2. CASE ~Found(d) \/ ~IsLive(list[Position(d)])
    <2>1. answer' = FALSE /\ list' = list /\ tombstones' = tombstones
        BY <1>2 DEF Decrement
    <2>2. FrequencyIn(list, d) = 0
        <3>1. CASE ~Found(d)
            BY <3>1, Terms DEF FrequencyIn
        <3>2. CASE Found(d)
            BY <1>2, <3>2, FoundEntry DEF IsLive
        <3> QED
            BY <3>1, <3>2
    <2>3. \A x \in Docs :
             FrequencyIn(list, x) = [Freq EXCEPT ![d] = IF @ > 0 THEN @ - 1 ELSE 0][x]
        BY <2>2 DEF Freq
    <2>4. answer' = (FrequencyIn(list, d) > 0)
        <3>1. (FrequencyIn(list, d) > 0) = FALSE
            BY <2>2
        <3> QED
            BY <2>1, <3>1
    <2>5. Becomes(list', tombstones', [Freq EXCEPT ![d] = IF @ > 0 THEN @ - 1 ELSE 0])
        BY <1>1, <2>1, <2>3 DEF Becomes
    <2> QED
        BY <2>4, <2>5
<1>3. CASE ~(~Found(d) \/ ~IsLive(list[Position(d)]))
    <2> DEFINE i == Position(d)
               f == list[i].frequency - 1
               entries == [list EXCEPT ![i].frequency = f]
               buried == IF IsLive(entries[i]) THEN tombstones ELSE tombstones + 1
    <2>1. /\ i \in Positions(list) /\ list[i].doc = d /\ list[i].frequency \in Nat
          /\ FrequencyIn(list, d) = list[i].frequency /\ IsLive(list[i])
        BY <1>3, FoundEntry
    <2>2. /\ answer' = TRUE
          /\ IF buried # tombstones /\ Outnumber(buried)
             THEN list' = Live(entries) /\ tombstones' = 0
             ELSE list' = entries /\ tombstones' = buried
        <3>1. entries = [list EXCEPT ![Position(d)].frequency = @ - 1]
            OBVIOUS
        <3> QED
            BY <1>3, <3>1 DEF Decrement
    <2> HIDE DEF i
    <2>3. f \in Nat /\ list[i].frequency > 0
        BY <2>1 DEF IsLive
    <2> HIDE DEF f
    <2>4. Replaced(list, i, f, entries)
        BY <1>1, <2>1, <2>3, ReplacedEntry
    <2> HIDE DEF entries
    <2>5. /\ entries \in Seq(Entry) /\ Len(entries) = Len(list) /\ Ascending(entries)
          /\ entries[i].frequency = f
          /\ Dead(entries) = IF f = 0 THEN Dead(list) \cup {i} ELSE Dead(list) \ {i}
          /\ \A x : FrequencyIn(entries, x) = IF x = d THEN f ELSE FrequencyIn(list, x)
        BY <1>1, <2>1, <2>4, SameDocsList DEF Replaced, SameDocs
    <2>6. /\ buried = Cardinality(Dead(entries)) /\ buried \in Nat
          /\ buried = tombstones \/ 2 * buried <= Len(entries) \/ Outnumber(buried)
        <3>1. IsLive(entries[i]) <=> f # 0
            BY <2>3, <2>5 DEF IsLive
        <3>2. ASSUME f = 0
              PROVE  buried = Cardinality(Dead(entries)) /\ buried \in Nat
            <4>1. Cardinality(Dead(entries)) = tombstones + 1
                BY <1>1, <2>1, <2>5, <3>2, DeadCount
            <4> QED
                BY <1>1, <3>1, <3>2, <4>1
        <3>3. ASSUME f # 0
              PROVE  buried = Cardinality(Dead(entries)) /\ buried \in Nat
            <4>1. Cardinality(Dead(entries)) = tombstones
                BY <1>1, <2>1, <2>5, <3>3, DeadCount
            <4> QED
                BY <1>1, <3>1, <3>3, <4>1
        <3>5. buried = Cardinality(Dead(entries)) /\ buried \in Nat
            <4> HIDE DEF buried
            <4> QED
                BY <3>2, <3>3
        <3> HIDE DEF buried
        <3>4. 2 * buried <= Len(entries) \/ Outnumber(buried)
            BY <1>1, <2>5, <3>5 DEF Outnumber
        <3> QED
            BY <3>4, <3>5
    <2>7. \A x \in Docs : FrequencyIn(entries, x) =
                              [Freq EXCEPT ![d] = IF @ > 0 THEN @ - 1 ELSE 0][x]
        BY <2>1, <2>3, <2>5 DEF Freq, f
    <2> HIDE DEF buried
    <2>8. answer' = (FrequencyIn(list, d) > 0)
        BY <2>1, <2>2, <2>3
    <2>9. CASE buried # tombstones /\ Outnumber(buried)
        <3>1. list' = Live(entries) /\ tombstones' = 0
            BY <2>2, <2>9
        <3>2. /\ list' \in Seq(Entry) /\ Ascending(list') /\ Cardinality(Dead(list')) = 0
              /\ \A x : FrequencyIn(list', x) = FrequencyIn(entries, x)
            BY <2>5, <3>1, LiveList
        <3> QED
            BY <2>7, <2>8, <3>1, <3>2, Elements DEF Becomes
    <2>10. CASE ~(buried # tombstones /\ Outnumber(buried))
        <3>1. list' = entries /\ tombstones' = buried
            BY <2>2, <2>10
        <3> QED
            BY <1>1, <2>5, <2>6, <2>7, <2>8, <2>10, <3>1 DEF Becomes
    <2> QED
        BY <2>9, <2>10
<1> QED
    BY <1>2, <1>3

\* What iter yields of the documents in keep.
LEMMA KeptList ==
    ASSUME IInv, NEW keep
    PROVE  /\ Kept(keep) \in Seq(Entry) /\ Ascending(Kept(keep))
           /\ Cardinality(Dead(Kept(keep))) = 0
           /\ \A d : Holds(Kept(keep), d) => d \in keep
           /\ \A d \in keep : FrequencyIn(Kept(keep), d) = FrequencyIn(list, d)
           /\ \A d : d \notin keep => FrequencyIn(Kept(keep), d) = 0
<1> DEFINE at == {i \in 1 .. Len(list) : IsLive(list[i]) /\ list[i].doc \in keep}
           kept == Kept(keep)
<1>1. list \in Seq(Entry) /\ Ascending(list)
    BY DEF IInv
<1>2. /\ at \in SUBSET Alive(list) /\ at \in SUBSET Positions(list)
      /\ \A i \in Positions(list) : i \in at <=> i \in Alive(list) /\ list[i].doc \in keep
    BY DEF Alive, Positions
<1>3. kept = Selected(list, at)
    BY DEF Kept
<1> HIDE DEF at, kept
<1>4. Filtered(list, at, kept)
    BY <1>1, <1>2, <1>3, SelectedFilters
<1>5. /\ kept \in Seq(Entry) /\ Ascending(kept) /\ Cardinality(Dead(kept)) = 0
      /\ \A i \in at : FrequencyIn(kept, list[i].doc) = list[i].frequency
      /\ \A d : (\A i \in at : list[i].doc # d) => FrequencyIn(kept, d) = 0
    BY <1>1, <1>2, <1>4, FilteredList
<1>6. ASSUME NEW d, Holds(kept, d)
      PROVE  d \in keep
    <2>1. PICK k \in Positions(kept) : kept[k].doc = d
        BY <1>6 DEF Holds
    <2>2. PICK i \in at : kept[k] = list[i]
        BY <1>4 DEF Filtered
    <2> QED
        BY <1>2, <2>1, <2>2
<1>7. ASSUME NEW d, d \notin keep
      PROVE  FrequencyIn(kept, d) = 0
    BY <1>6, <1>7 DEF FrequencyIn
<1>8. ASSUME NEW d \in keep
      PROVE  FrequencyIn(kept, d) = FrequencyIn(list, d)
    <2>1. CASE \E i \in at : list[i].doc = d
        <3>1. PICK i \in at : list[i].doc = d
            BY <2>1
        <3>2. FrequencyIn(list, d) = list[i].frequency
            BY <1>1, <1>2, <3>1, Located
        <3> QED
            BY <1>5, <3>1, <3>2
    <2>2. CASE ~\E i \in at : list[i].doc = d
        <3>1. ASSUME NEW i \in Positions(list), list[i].doc = d
              PROVE  FrequencyIn(list, d) = 0
            <4>1. list[i].frequency = 0
                BY <1>1, <1>2, <2>2, <3>1, Elements DEF Alive, IsLive
            <4> QED
                BY <1>1, <3>1, <4>1, Located
        <3>2. FrequencyIn(list, d) = 0
            BY <3>1 DEF FrequencyIn, Holds
        <3> QED
            BY <1>5, <2>2, <3>2
    <2> QED
        BY <2>1, <2>2
<1> QED
    BY <1>5, <1>6, <1>7, <1>8 DEF kept

LEMMA RetainStep ==
    ASSUME IInv, NEW keep \in SUBSET Docs, Retain(keep)
    PROVE  /\ Becomes(list', tombstones', [d \in Docs |-> IF d \in keep THEN Freq[d] ELSE 0])
           /\ answer' = answer
<1>1. list' = Kept(keep) /\ tombstones' = 0 /\ answer' = answer
    BY DEF Retain
<1>2. /\ list' \in Seq(Entry) /\ Ascending(list') /\ Cardinality(Dead(list')) = 0
      /\ \A d \in keep : FrequencyIn(list', d) = FrequencyIn(list, d)
      /\ \A d : d \notin keep => FrequencyIn(list', d) = 0
    BY <1>1, KeptList
<1>3. Len(list') \in Nat
    BY <1>2
<1> QED
    BY <1>1, <1>2, <1>3 DEF Becomes, Freq

LEMMA ReloadStep ==
    ASSUME IInv, Reload
    PROVE  Becomes(list', tombstones', Freq) /\ answer' = answer
<1>1. list' = Live(list) /\ tombstones' = 0 /\ answer' = answer
    BY DEF Reload
<1>2. /\ list' \in Seq(Entry) /\ Ascending(list') /\ Cardinality(Dead(list')) = 0
      /\ \A d : FrequencyIn(list', d) = FrequencyIn(list, d)
    BY <1>1, LiveList DEF IInv
<1>3. Len(list') \in Nat
    BY <1>2
<1> QED
    BY <1>1, <1>2, <1>3 DEF Becomes, Freq

\* The numbering of compact.
NewId(live, d) == Cardinality({x \in live : x < d})

\* The new ids are short ids, in the order of the old ones, and none is given
\* twice.
LEMMA NewIds ==
    ASSUME NEW live \in SUBSET Docs
    PROVE  /\ \A d \in live : NewId(live, d) \in Docs /\ NewId(live, d) \in Nat
           /\ \A c, d \in live : c < d => NewId(live, c) < NewId(live, d)
           /\ \A c, d \in live : NewId(live, c) = NewId(live, d) => c = d
<1>1. \A d \in live : d \in Nat /\ 0 .. d \subseteq Docs
    BY DocsAssumption
<1>2. ASSUME NEW d \in live
      PROVE  /\ IsFiniteSet({x \in live : x < d})
             /\ NewId(live, d) \in Nat /\ NewId(live, d) <= d
    <2> DEFINE low == {x \in live : x < d}
    <2>1. low \in SUBSET (0 .. (d - 1)) /\ d - 1 \in Int /\ d \in Nat
        BY <1>1
    <2>2. IsFiniteSet(0 .. (d - 1)) /\ Cardinality(0 .. (d - 1)) = d
        <3>1. \A e \in Int :
                 /\ IsFiniteSet(0 .. e)
                 /\ Cardinality(0 .. e) = IF 0 > e THEN 0 ELSE e - 0 + 1
            BY FS_Interval
        <3>2. (IF 0 > d - 1 THEN 0 ELSE (d - 1) - 0 + 1) = d
            BY <2>1
        <3> QED
            BY <2>1, <3>1, <3>2
    <2> HIDE DEF low
    <2>3. IsFiniteSet(low) /\ Cardinality(low) <= d /\ Cardinality(low) \in Nat
        BY <2>1, <2>2, FS_Subset, FS_CardinalityType, ZenonT(30)
    <2> QED
        BY <2>3 DEF low, NewId
<1>3. ASSUME NEW c \in live, NEW d \in live, c < d
      PROVE  NewId(live, c) < NewId(live, d)
    <2> DEFINE low == {x \in live : x < c}
               high == {x \in live : x < d}
    <2>1. c \notin low /\ low \cup {c} \subseteq high
        BY <1>1, <1>3
    <2>2. IsFiniteSet(low) /\ IsFiniteSet(high)
        BY <1>2
    <2>3. /\ NewId(live, c) = Cardinality(low) /\ NewId(live, d) = Cardinality(high)
          /\ Cardinality(low) \in Nat /\ Cardinality(high) \in Nat
        BY <1>2 DEF NewId
    <2> HIDE DEF low, high
    <2>4. Cardinality(low \cup {c}) = Cardinality(low) + 1
        BY <2>1, <2>2, FS_AddElement
    <2>5. Cardinality(low \cup {c}) <= Cardinality(high)
        BY <2>1, <2>2, FS_Subset
    <2> QED
        BY <2>3, <2>4, <2>5
<1>4. \A d \in live : NewId(live, d) \in Nat /\ NewId(live, d) <= d
    BY <1>2
<1>5. ASSUME NEW c \in live, NEW d \in live, NewId(live, c) = NewId(live, d)
      PROVE  c = d
    <2>1. ~(c < d) /\ ~(d < c)
        BY <1>3, <1>4, <1>5
    <2> QED
        BY <1>1, <2>1
<1>6. \A d \in live : NewId(live, d) \in Docs
    BY <1>1, <1>4
<1> QED
    BY <1>3, <1>4, <1>5, <1>6

\* What compact makes of a list of live documents.
Moves(live, kept, later) ==
    /\ later \in Seq(Entry) /\ Ascending(later)
    /\ Cardinality(Dead(later)) = 0
    /\ \A d \in live : FrequencyIn(later, NewId(live, d)) = FrequencyIn(kept, d)
    /\ \A n : (\A d \in live : NewId(live, d) # n) => FrequencyIn(later, n) = 0

LEMMA Renumbered ==
    ASSUME NEW live \in SUBSET Docs, NEW kept \in Seq(Entry), Ascending(kept),
           Cardinality(Dead(kept)) = 0, \A d : Holds(kept, d) => d \in live
    PROVE  Moves(live, kept, [i \in 1 .. Len(kept) |->
                                 Of(NewId(live, kept[i].doc), kept[i].frequency)])
<1> DEFINE later == [i \in 1 .. Len(kept) |->
                        Of(NewId(live, kept[i].doc), kept[i].frequency)]
<1>1. /\ Len(kept) \in Nat
      /\ \A i \in Positions(kept) :
             kept[i].doc \in live /\ kept[i].doc \in Nat /\ kept[i].frequency \in Nat
    BY Elements DEF Holds
<1>2. /\ \A d \in live : NewId(live, d) \in Docs /\ NewId(live, d) \in Nat
      /\ \A c, d \in live : c < d => NewId(live, c) < NewId(live, d)
      /\ \A c, d \in live : NewId(live, c) = NewId(live, d) => c = d
    BY NewIds
<1>3. \A i \in Positions(kept) :
         /\ later[i] = Of(NewId(live, kept[i].doc), kept[i].frequency)
         /\ later[i] \in Entry
         /\ later[i].doc = NewId(live, kept[i].doc)
         /\ later[i].frequency = kept[i].frequency
    BY <1>1, <1>2 DEF Positions, Of, Entry
<1>4. later \in Seq(Entry) /\ Len(later) = Len(kept) /\ Positions(later) = Positions(kept)
    BY <1>1, <1>3 DEF Positions
<1> HIDE DEF later
<1>5. Ascending(later)
    <2>1. ASSUME NEW i \in Positions(kept), NEW j \in Positions(kept), i < j
          PROVE  later[i].doc < later[j].doc
        <3>1. kept[i].doc < kept[j].doc
            BY <2>1 DEF Ascending
        <3>2. NewId(live, kept[i].doc) < NewId(live, kept[j].doc)
            BY <1>1, <1>2, <3>1
        <3> QED
            BY <1>3, <3>2
    <2> QED
        BY <1>4, <2>1 DEF Ascending
<1>6. Dead(later) = Dead(kept)
    BY <1>3, <1>4 DEF Dead, IsLive
<1>7. ASSUME NEW d \in live
      PROVE  FrequencyIn(later, NewId(live, d)) = FrequencyIn(kept, d)
    <2>1. ASSUME NEW i \in Positions(kept), kept[i].doc = d
          PROVE  FrequencyIn(later, NewId(live, d)) = FrequencyIn(kept, d)
        <3>1. FrequencyIn(kept, d) = kept[i].frequency
            BY <2>1, Located
        <3>2. FrequencyIn(later, later[i].doc) = later[i].frequency
            BY <1>4, <1>5, Located
        <3> QED
            BY <1>3, <2>1, <3>1, <3>2
    <2>2. CASE ~Holds(kept, d)
        <3>1. ASSUME NEW i \in Positions(kept)
              PROVE  later[i].doc # NewId(live, d)
            <4>1. kept[i].doc \in live /\ kept[i].doc # d
                BY <1>1, <2>2 DEF Holds
            <4> QED
                BY <1>2, <1>3, <4>1
        <3>2. ~Holds(later, NewId(live, d))
            BY <1>4, <3>1 DEF Holds
        <3> QED
            BY <2>2, <3>2 DEF FrequencyIn
    <2> QED
        BY <2>1, <2>2 DEF Holds
<1>8. ASSUME NEW n, \A d \in live : NewId(live, d) # n
      PROVE  FrequencyIn(later, n) = 0
    <2>1. ~Holds(later, n)
        BY <1>1, <1>3, <1>4, <1>8 DEF Holds
    <2> QED
        BY <2>1 DEF FrequencyIn
<1>9. Moves(live, kept, later)
    BY <1>4, <1>5, <1>6, <1>7, <1>8 DEF Moves
<1> QED
    BY <1>9 DEF later

\* The frequencies after a compaction, as PostingMap writes them.
Moved(live) ==
    LET rank == [d \in live |-> Cardinality({x \in live : x < d})]
    IN  [n \in Docs |-> IF \E d \in live : rank[d] = n
                        THEN Freq[CHOOSE d \in live : rank[d] = n]
                        ELSE 0]

LEMMA RenumberStep ==
    ASSUME IInv, NEW live \in SUBSET Docs, Renumber(live)
    PROVE  Becomes(list', tombstones', Moved(live)) /\ answer' = answer
<1> DEFINE kept == Kept(live)
           rank == [d \in live |-> Cardinality({x \in live : x < d})]
<1>1. /\ list' = [i \in 1 .. Len(kept) |-> Of(rank[kept[i].doc], kept[i].frequency)]
      /\ tombstones' = 0 /\ answer' = answer
    BY DEF Renumber
<1>2. /\ kept \in Seq(Entry) /\ Ascending(kept) /\ Cardinality(Dead(kept)) = 0
      /\ \A d : Holds(kept, d) => d \in live
      /\ \A d \in live : FrequencyIn(kept, d) = FrequencyIn(list, d)
    BY KeptList
<1>3. \A d \in live : rank[d] = NewId(live, d)
    BY DEF NewId
<1> HIDE DEF kept, rank
<1>4. \A i \in 1 .. Len(kept) : kept[i].doc \in live
    BY <1>2 DEF Holds, Positions
<1>5. list' = [i \in 1 .. Len(kept) |-> Of(NewId(live, kept[i].doc), kept[i].frequency)]
    BY <1>1, <1>3, <1>4
<1>6. /\ list' \in Seq(Entry) /\ Ascending(list') /\ Cardinality(Dead(list')) = 0
      /\ \A d \in live : FrequencyIn(list', NewId(live, d)) = FrequencyIn(kept, d)
      /\ \A n : (\A d \in live : NewId(live, d) # n) => FrequencyIn(list', n) = 0
    <2>1. Moves(live, kept, list')
        BY <1>2, <1>5, Renumbered
    <2> QED
        BY <2>1 DEF Moves
<1>7. ASSUME NEW n \in Docs
      PROVE  FrequencyIn(list', n) = Moved(live)[n]
    <2>1. Moved(live)[n] = IF \E d \in live : rank[d] = n
                           THEN Freq[CHOOSE d \in live : rank[d] = n] ELSE 0
        BY DEF Moved, rank
    <2>2. CASE \E d \in live : rank[d] = n
        <3> DEFINE d == CHOOSE x \in live : rank[x] = n
        <3>1. d \in live /\ rank[d] = n
            BY <2>2
        <3>2. Moved(live)[n] = Freq[d]
            BY <2>1, <2>2
        <3> HIDE DEF d
        <3>3. Freq[d] = FrequencyIn(list, d)
            BY <3>1 DEF Freq
        <3>4. FrequencyIn(list', n) = FrequencyIn(kept, d)
            BY <1>3, <1>6, <3>1
        <3> QED
            BY <1>2, <3>1, <3>2, <3>3, <3>4
    <2>3. CASE ~\E d \in live : rank[d] = n
        BY <1>3, <1>6, <2>1, <2>3
    <2> QED
        BY <2>2, <2>3
<1>8. Len(list') \in Nat
    BY <1>6
<1> QED
    BY <1>1, <1>6, <1>7, <1>8 DEF Becomes

\* The frequencies after a query that mimics MiniSearch.
Visited(live) ==
    [d \in Docs |-> IF d \notin live /\ Freq[d] > 0 THEN Freq[d] - 1 ELSE Freq[d]]

LEMMA VisitStep ==
    ASSUME IInv, NEW live \in SUBSET Docs, Visit(live)
    PROVE  Becomes(list', tombstones', Visited(live)) /\ answer' = answer
<1> DEFINE Stale(entry) == IsLive(entry) /\ entry.doc \notin live
           entries == [i \in 1 .. Len(list) |->
               IF Stale(list[i]) THEN [list[i] EXCEPT !.frequency = @ - 1] ELSE list[i]]
           died == \E i \in 1 .. Len(list) : Stale(list[i]) /\ ~IsLive(entries[i])
<1>1. /\ IF died THEN list' = Live(entries) /\ tombstones' = 0
                 ELSE list' = entries /\ tombstones' = tombstones
      /\ answer' = answer
    BY DEF Visit
<1>2. /\ list \in Seq(Entry) /\ Ascending(list) /\ tombstones = Cardinality(Dead(list))
      /\ 2 * tombstones <= Len(list) /\ tombstones \in Nat /\ Len(list) \in Nat
    BY Counted, Elements DEF IInv
<1>3. ASSUME NEW i \in Positions(list)
      PROVE  /\ entries[i] \in Entry /\ entries[i].doc = list[i].doc
             /\ Stale(list[i]) => entries[i].frequency = list[i].frequency - 1
             /\ ~Stale(list[i]) => entries[i] = list[i]
             /\ list[i].frequency \in Nat
    <2>1. /\ list[i] \in Entry /\ list[i].frequency \in Nat
        BY <1>2, Elements
    <2>2. entries[i] = IF Stale(list[i]) THEN [list[i] EXCEPT !.frequency = @ - 1] ELSE list[i]
        BY DEF Positions
    <2> HIDE DEF entries
    <2>3. CASE Stale(list[i])
        <3>1. list[i].frequency - 1 \in Nat
            BY <2>1, <2>3 DEF IsLive
        <3> QED
            BY <2>1, <2>2, <2>3, <3>1 DEF Entry
    <2>4. CASE ~Stale(list[i])
        BY <2>1, <2>2, <2>4
    <2> QED
        BY <2>3, <2>4
<1>4. SameDocs(list, entries)
    <2>1. entries \in Seq(Entry) /\ Len(entries) = Len(list)
        BY <1>2, <1>3 DEF Positions
    <2> QED
        BY <1>3, <2>1 DEF SameDocs
<1> HIDE DEF entries
<1>5. /\ entries \in Seq(Entry) /\ Len(entries) = Len(list)
      /\ Ascending(entries) /\ Positions(entries) = Positions(list)
      /\ \A i \in Positions(list) : FrequencyIn(entries, list[i].doc) = entries[i].frequency
      /\ \A d : ~Holds(list, d) => FrequencyIn(entries, d) = 0
    BY <1>2, <1>4, SameDocsList DEF SameDocs
<1>6. ASSUME NEW d \in Docs
      PROVE  FrequencyIn(entries, d) = Visited(live)[d]
    <2>1. /\ Freq[d] = FrequencyIn(list, d)
          /\ Visited(live)[d] =
                 IF d \notin live /\ Freq[d] > 0 THEN Freq[d] - 1 ELSE Freq[d]
        BY DEF Visited, Freq
    <2>2. ASSUME NEW i \in Positions(list), list[i].doc = d
          PROVE  FrequencyIn(entries, d) = Visited(live)[d]
        <3>1. FrequencyIn(list, d) = list[i].frequency
            BY <1>2, <2>2, Located
        <3>2. FrequencyIn(entries, d) = entries[i].frequency
            BY <1>5, <2>2
        <3>3. Stale(list[i]) <=> list[i].frequency > 0 /\ d \notin live
            BY <2>2 DEF IsLive
        <3> QED
            BY <1>3, <2>1, <3>1, <3>2, <3>3
    <2>3. CASE ~Holds(list, d)
        <3>1. FrequencyIn(list, d) = 0 /\ FrequencyIn(entries, d) = 0
            BY <1>5, <2>3 DEF FrequencyIn
        <3> QED
            BY <2>1, <3>1
    <2> QED
        BY <2>2, <2>3 DEF Holds
<1>7. CASE died
    <2>1. list' = Live(entries) /\ tombstones' = 0
        BY <1>1, <1>7
    <2>2. /\ list' \in Seq(Entry) /\ Ascending(list') /\ Cardinality(Dead(list')) = 0
          /\ \A d : FrequencyIn(list', d) = FrequencyIn(entries, d)
        BY <1>5, <2>1, LiveList
    <2>3. Len(list') \in Nat
        BY <2>2
    <2> QED
        BY <1>1, <1>6, <2>1, <2>2, <2>3 DEF Becomes
<1>8. CASE ~died
    <2>1. list' = entries /\ tombstones' = tombstones
        BY <1>1, <1>8
    <2>2. \A i \in Positions(list) : IsLive(entries[i]) <=> IsLive(list[i])
        BY <1>3, <1>8 DEF Positions
    <2>3. Dead(entries) = Dead(list)
        BY <1>5, <2>2 DEF Dead
    <2> QED
        BY <1>1, <1>2, <1>5, <1>6, <2>1, <2>3 DEF Becomes
<1> QED
    BY <1>7, <1>8

----------------------------------------------------------------------------
(* The theorems.                                                           *)

LEMMA InitInv ==
    ASSUME Init
    PROVE  IInv /\ Freq = [d \in Docs |-> 0]
<1>1. list = <<>> /\ tombstones = 0 /\ answer = TRUE
    BY DEF Init
<1>2. list \in Seq(Entry) /\ Len(list) = 0 /\ Positions(list) = {}
    BY <1>1 DEF Positions
<1>3. Ascending(list) /\ Dead(list) = {}
    BY <1>2 DEF Ascending, Dead
<1>4. \A d : FrequencyIn(list, d) = 0
    BY <1>2 DEF FrequencyIn, Holds
<1> QED
    BY <1>1, <1>2, <1>3, <1>4, FS_EmptySet DEF IInv, Freq

LEMMA BecomesInv ==
    ASSUME IInv, NEW f, Becomes(list', tombstones', f), answer' \in BOOLEAN
    PROVE  IInv'
BY DEF Becomes, IInv

LEMMA NextInv ==
    ASSUME IInv, [Next]_vars
    PROVE  IInv'
<1>1. answer \in BOOLEAN
    BY DEF IInv
<1>2. ASSUME NEW d \in Docs, Increment(d)
      PROVE  IInv'
    BY <1>1, <1>2, IncrementStep, BecomesInv
<1>3. ASSUME NEW d \in Docs, Decrement(d)
      PROVE  IInv'
    <2>1. answer' \in BOOLEAN
        BY <1>3 DEF Decrement
    <2> QED
        BY <1>3, <2>1, DecrementStep, BecomesInv
<1>4. ASSUME NEW live \in SUBSET Docs, Retain(live)
      PROVE  IInv'
    BY <1>1, <1>4, RetainStep, BecomesInv
<1>5. ASSUME NEW live \in SUBSET Docs, Renumber(live)
      PROVE  IInv'
    BY <1>1, <1>5, RenumberStep, BecomesInv
<1>6. ASSUME NEW live \in SUBSET Docs, Visit(live)
      PROVE  IInv'
    BY <1>1, <1>6, VisitStep, BecomesInv
<1>7. CASE Reload
    BY <1>1, <1>7, ReloadStep, BecomesInv
<1>8. CASE UNCHANGED vars
    BY <1>8 DEF vars, IInv, Ascending, Dead, Positions
<1> QED
    BY <1>2, <1>3, <1>4, <1>5, <1>6, <1>7, <1>8 DEF Next

\* The inductive invariant: the list is in the order of the short ids, and
\* tombstones counts exactly its entries of frequency zero.
THEOREM Invariance == Spec => []IInv
BY InitInv, NextInv, PTL DEF Spec

\* The order that binary search relies on holds through appends, insertions in
\* the middle, revivals, sweeps, renumberings and reloads.
THEOREM TypeCorrect == Spec => []TypeOK
<1>1. IInv => TypeOK
    <2>1. ASSUME IInv
          PROVE  tombstones \in Nat
        BY <2>1, Counted DEF IInv
    <2> QED
        BY <2>1 DEF IInv, TypeOK, Ascending, Positions
<1> QED
    BY <1>1, Invariance, PTL

\* len is what iter yields, whatever a lazy visit left in place.
THEOREM LengthCorrect == Spec => []LengthCountsPostings
<1>1. IInv => LengthCountsPostings
    BY LiveLength DEF IInv, LengthCountsPostings, Length
<1> QED
    BY <1>1, Invariance, PTL

\* A list is never more than half tombstones.
THEOREM HalfTombstones == Spec => []AtMostHalfTombstones
<1>1. IInv => AtMostHalfTombstones
    BY DEF IInv, AtMostHalfTombstones
<1> QED
    BY <1>1, Invariance, PTL

\* The frequencies that the refinement maps, before and after a step.
LEMMA Mapped ==
    /\ [d \in Docs |-> Frequency(d)] = Freq
    /\ [d \in Docs |-> Frequency(d)]' = Freq'
<1>1. /\ \A d : Found(d)' <=> Holds(list', d)
      /\ \A d : Position(d)' = PositionIn(list', d)
    BY DEF Found, Position, Holds, PositionIn, Positions
<1>2. \A d : Frequency(d)' = FrequencyIn(list', d)
    BY <1>1 DEF Frequency, FrequencyIn
<1> QED
    BY <1>2, Terms DEF Freq

\* What a step makes of the frequencies is what it makes of the map.
LEMMA MapsTo ==
    ASSUME NEW f, DOMAIN f = Docs, f = [d \in Docs |-> f[d]],
           Becomes(list', tombstones', f)
    PROVE  Freq' = f
BY DEF Becomes, Freq

LEMMA RefineStep ==
    ASSUME IInv, [Next]_vars
    PROVE  [M!Next]_<<[d \in Docs |-> Frequency(d)], answer>>
<1>1. ASSUME NEW d \in Docs, Increment(d)
      PROVE  M!Next
    <2> DEFINE f == [Freq EXCEPT ![d] = @ + 1]
    <2>1. Becomes(list', tombstones', f) /\ FrequencyIn(list, d) < MaxFrequency /\ answer' = answer
        BY <1>1, IncrementStep
    <2>2. DOMAIN f = Docs /\ f = [x \in Docs |-> f[x]] /\ Freq[d] = FrequencyIn(list, d)
        BY DEF Freq
    <2>3. Freq' = f
        <3> HIDE DEF f
        <3> QED
            BY <2>1, <2>2, MapsTo
    <2>4. M!Increment(d)
        BY <2>1, <2>2, <2>3, Mapped DEF M!Increment
    <2> QED
        BY <2>4 DEF M!Next
<1>2. ASSUME NEW d \in Docs, Decrement(d)
      PROVE  M!Next
    <2> DEFINE f == [Freq EXCEPT ![d] = IF @ > 0 THEN @ - 1 ELSE 0]
    <2>1. Becomes(list', tombstones', f) /\ answer' = (FrequencyIn(list, d) > 0)
        BY <1>2, DecrementStep
    <2>2. DOMAIN f = Docs /\ f = [x \in Docs |-> f[x]] /\ Freq[d] = FrequencyIn(list, d)
        BY DEF Freq
    <2>3. Freq' = f
        <3> HIDE DEF f
        <3> QED
            BY <2>1, <2>2, MapsTo
    <2>4. M!Decrement(d)
        BY <2>1, <2>2, <2>3, Mapped DEF M!Decrement
    <2> QED
        BY <2>4 DEF M!Next
<1>3. ASSUME NEW keep \in SUBSET Docs, Retain(keep)
      PROVE  M!Next
    <2> DEFINE f == [d \in Docs |-> IF d \in keep THEN Freq[d] ELSE 0]
    <2>1. Becomes(list', tombstones', f) /\ answer' = answer
        BY <1>3, RetainStep
    <2>2. DOMAIN f = Docs /\ f = [x \in Docs |-> f[x]]
        OBVIOUS
    <2>3. Freq' = f
        <3> HIDE DEF f
        <3> QED
            BY <2>1, <2>2, MapsTo
    <2>4. M!Retain(keep)
        BY <2>1, <2>3, Mapped DEF M!Retain
    <2> QED
        BY <2>4 DEF M!Next
<1>4. ASSUME NEW live \in SUBSET Docs, Renumber(live)
      PROVE  M!Next
    <2>1. Becomes(list', tombstones', Moved(live)) /\ answer' = answer
        BY <1>4, RenumberStep
    <2>2. /\ DOMAIN Moved(live) = Docs
          /\ Moved(live) = [x \in Docs |-> Moved(live)[x]]
        BY DEF Moved
    <2>3. Freq' = Moved(live)
        BY <2>1, <2>2, MapsTo
    <2>4. \A S : M!Cardinality(S) = Cardinality(S)
        BY DEF M!Cardinality, Cardinality
    <2> DEFINE rank == [d \in live |-> Cardinality({x \in live : x < d})]
               mapped == [d \in live |-> M!Cardinality({x \in live : x < d})]
               before == [d \in Docs |-> Frequency(d)]
    <2>5. mapped = rank
        BY <2>4
    <2>6. Moved(live) = [n \in Docs |-> IF \E d \in live : rank[d] = n
                                       THEN Freq[CHOOSE d \in live : rank[d] = n]
                                       ELSE 0]
        BY DEF Moved
    <2>7. M!Renumber(live) <=>
              /\ before' = [n \in Docs |-> IF \E d \in live : mapped[d] = n
                                           THEN before[CHOOSE d \in live : mapped[d] = n]
                                           ELSE 0]
              /\ UNCHANGED answer
        BY DEF M!Renumber
    <2>8. before = Freq /\ before' = Freq'
        BY Mapped
    <2> HIDE DEF rank, mapped, before
    <2>9. M!Renumber(live)
        BY <2>1, <2>3, <2>5, <2>6, <2>7, <2>8
    <2> QED
        BY <2>9 DEF M!Next
<1>5. ASSUME NEW live \in SUBSET Docs, Visit(live)
      PROVE  M!Next
    <2>1. Becomes(list', tombstones', Visited(live)) /\ answer' = answer
        BY <1>5, VisitStep
    <2>2. /\ DOMAIN Visited(live) = Docs
          /\ Visited(live) = [x \in Docs |-> Visited(live)[x]]
        BY DEF Visited
    <2>3. Freq' = Visited(live)
        BY <2>1, <2>2, MapsTo
    <2>4. M!Visit(live)
        BY <2>1, <2>3, Mapped DEF M!Visit, Visited
    <2> QED
        BY <2>4 DEF M!Next
<1>6. CASE Reload \/ UNCHANGED vars
    <2>1. Freq' = Freq /\ answer' = answer
        <3>1. CASE Reload
            <4>1. Becomes(list', tombstones', Freq) /\ answer' = answer
                BY <3>1, ReloadStep
            <4>2. DOMAIN Freq = Docs /\ Freq = [x \in Docs |-> Freq[x]]
                BY DEF Freq
            <4> QED
                BY <4>1, <4>2, MapsTo
        <3>2. CASE UNCHANGED vars
            BY <3>2 DEF vars, Freq
        <3> QED
            BY <1>6, <3>1, <3>2
    <2> QED
        BY <2>1, Mapped
<1> QED
    BY <1>1, <1>2, <1>3, <1>4, <1>5, <1>6 DEF Next

\* Through appends, insertions, tombstones, sweeps, renumberings and reloads,
\* the list is a map of frequencies, and decrement answers whether it had one.
THEOREM Implements == Spec => ImplementsMap
<1>1. Init => M!Init
    <2> SUFFICES ASSUME Init
                 PROVE  M!Init
        OBVIOUS
    <2>1. Freq = [d \in Docs |-> 0] /\ answer = TRUE
        BY InitInv DEF Init
    <2> QED
        BY <2>1, Mapped DEF M!Init
<1> QED
    BY <1>1, RefineStep, Invariance, PTL DEF Spec, ImplementsMap, M!Spec
=============================================================================
