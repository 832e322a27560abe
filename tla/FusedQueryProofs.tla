-------------------------- MODULE FusedQueryProofs --------------------------
(***************************************************************************)
(* Proofs about FusedQuery.  A lazily reset table is sound when a stamp    *)
(* equals the counter exactly for the documents met since the counter      *)
(* moved.  That is not inductive: what makes it so is that no stamp ever   *)
(* exceeds its counter, so that the counter's next value is no stamp's.    *)
(* The wrap-around clears the stamps to keep this.                         *)
(*                                                                         *)
(* The two paths agree because, at every posting, a document's slots are   *)
(* what its entry in the union of the finished specs' maps and its entry   *)
(* in the current spec's own map merge into, the score excepted, which     *)
(* flush_spec adds (Agrees, OrInv).  Recording a posting in the merged     *)
(* entry at once and merging the spec's map afterwards are the same        *)
(* (AssignPushed).  AND and AND_NOT follow from the counts of specs kept   *)
(* with the slots, and AND's order from the order of the last spec.        *)
(***************************************************************************)
EXTENDS FusedQuery, SequenceTheorems, SelectionsProofs, TLAPS

\* A counter in its range, and stamps that do not exceed it.
Bounded(counter, stamp) ==
    /\ counter \in 0 .. Wrap - 1
    /\ stamp \in [Docs -> Nat]
    /\ \A d \in Docs : stamp[d] <= counter

\* The documents with the counter's stamp are those of the list.
Current(counter, stamp, list) ==
    \A d \in Docs : stamp[d] = counter <=> d \in ToSet(list)

\* The inductive invariant.
StampInv ==
    /\ Bounded(queryCounter, generation)
    /\ Bounded(specCounter, specGeneration)
    /\ touched \in Seq(Docs) /\ specTouched \in Seq(Docs)
    /\ phase \in {"idle", "query", "spec"}
    /\ phase # "idle" => Current(queryCounter, generation, touched)
    /\ phase = "spec" => Current(specCounter, specGeneration, specTouched)

\* What an append adds to the documents of a list (touched and spec_touched).
LEMMA ToSetAppend ==
    ASSUME NEW S, NEW s \in Seq(S), NEW x \in S
    PROVE  ToSet(Append(s, x)) = ToSet(s) \cup {x}
<1>1. ASSUME NEW y \in ToSet(Append(s, x)) PROVE y \in ToSet(s) \cup {x}
  <2>1. PICK i \in 1 .. Len(s) + 1 : y = Append(s, x)[i]
    BY DEF ToSet
  <2>2. CASE i = Len(s) + 1
    BY <2>1, <2>2
  <2>3. CASE i \in 1 .. Len(s)
    BY <2>1, <2>3 DEF ToSet
  <2> QED
    BY <2>2, <2>3
<1>2. ASSUME NEW y \in ToSet(s) PROVE y \in ToSet(Append(s, x))
  <2>1. PICK i \in 1 .. Len(s) : y = s[i]
    BY DEF ToSet
  <2>2. i \in DOMAIN Append(s, x) /\ Append(s, x)[i] = y
    BY <2>1
  <2> QED
    BY <2>2 DEF ToSet
<1>3. x \in ToSet(Append(s, x))
  <2>1. Len(s) + 1 \in DOMAIN Append(s, x) /\ Append(s, x)[Len(s) + 1] = x
    OBVIOUS
  <2> QED
    BY <2>1 DEF ToSet
<1> QED
  BY <1>1, <1>2, <1>3

\* begin_query and begin_spec leave an empty list: it holds no document.
LEMMA ToSetEmpty == ToSet(<<>>) = {}
BY DEF ToSet

\* begin_query and begin_spec: the next generation is in range, bounds the
\* stamps, and is the stamp of no document.
LEMMA AdvanceFresh ==
    ASSUME NEW counter, NEW stamp, Bounded(counter, stamp)
    PROVE  LET next == Advance(counter, stamp)
           IN  Bounded(next.counter, next.stamp) /\ Current(next.counter, next.stamp, <<>>)
<1>1. CASE counter = Wrap - 1
  <2>1. Advance(counter, stamp) = [counter |-> 1, stamp |-> [d \in Docs |-> 0]]
    BY <1>1 DEF Advance
  <2> QED
    BY <2>1, ToSetEmpty, WrapAssumption DEF Bounded, Current
<1>2. CASE counter # Wrap - 1
  <2>1. Advance(counter, stamp) = [counter |-> counter + 1, stamp |-> stamp]
    BY <1>2 DEF Advance
  <2>2. counter + 1 \in 0 .. Wrap - 1
    BY <1>2, WrapAssumption DEF Bounded
  <2>3. \A d \in Docs : stamp[d] <= counter + 1 /\ stamp[d] # counter + 1
    BY WrapAssumption DEF Bounded
  <2> QED
    BY <2>1, <2>2, <2>3, ToSetEmpty DEF Bounded, Current
<1> QED
  BY <1>1, <1>2

\* touch: stamping a document, and listing it unless it was stamped already,
\* keeps the list current.
LEMMA StampCurrent ==
    ASSUME NEW counter, NEW stamp, NEW list \in Seq(Docs), NEW d \in Docs,
           Bounded(counter, stamp), Current(counter, stamp, list)
    PROVE  LET next == IF stamp[d] = counter THEN list ELSE Append(list, d)
           IN  /\ next \in Seq(Docs)
               /\ Bounded(counter, [stamp EXCEPT ![d] = counter])
               /\ Current(counter, [stamp EXCEPT ![d] = counter], next)
<1>1. Bounded(counter, [stamp EXCEPT ![d] = counter])
  BY WrapAssumption DEF Bounded
<1>2. CASE stamp[d] = counter
  BY <1>1, <1>2 DEF Current, Bounded
<1>3. CASE stamp[d] # counter
  <2>1. ToSet(Append(list, d)) = ToSet(list) \cup {d}
    BY ToSetAppend
  <2> QED
    BY <1>1, <1>3, <2>1 DEF Current, Bounded
<1> QED
  BY <1>2, <1>3

\* A fresh scratch: both counters and all stamps 0, nothing met.
LEMMA StampInit == Init => StampInv
<1> SUFFICES ASSUME Init PROVE StampInv
  OBVIOUS
<1>1. Bounded(queryCounter, generation) /\ Bounded(specCounter, specGeneration)
  BY WrapAssumption DEF Init, Bounded
<1> QED
  BY <1>1 DEF Init, StampInv

\* Every step keeps the stamps: a new generation by StartsFresh, a touch by
\* MarkStep, and the rest leaves both tables alone.
LEMMA StampStep == StampInv /\ [Next]_vars => StampInv'
<1> SUFFICES ASSUME StampInv, [Next]_vars PROVE StampInv'
  OBVIOUS
<1>1. CASE BeginQuery
  <2>1. LET next == Advance(queryCounter, generation)
        IN  Bounded(next.counter, next.stamp) /\ Current(next.counter, next.stamp, <<>>)
    BY AdvanceFresh DEF StampInv
  <2>2. Bounded(queryCounter, generation)' /\ Current(queryCounter, generation, touched)'
    BY <1>1, <2>1 DEF BeginQuery, Bounded, Current
  <2> QED
    BY <1>1, <2>2 DEF BeginQuery, StampInv, Bounded
<1>2. ASSUME NEW slot \in 0 .. MaxSpecs, BeginSpec(slot) PROVE StampInv'
  <2>1. LET next == Advance(specCounter, specGeneration)
        IN  Bounded(next.counter, next.stamp) /\ Current(next.counter, next.stamp, <<>>)
    BY AdvanceFresh DEF StampInv
  <2>2. /\ Bounded(specCounter, specGeneration)'
        /\ Current(specCounter, specGeneration, specTouched)'
    BY <1>2, <2>1 DEF BeginSpec, Bounded, Current
  <2> QED
    BY <1>2, <2>2 DEF BeginSpec, StampInv, Bounded, Current
<1>3. ASSUME NEW hit \in Hit, Accumulate(hit) PROVE StampInv'
  <2> DEFINE d == hit.doc
  <2>1. d \in Docs
    BY DEF Hit
  <2>2. /\ Bounded(queryCounter, generation) /\ Current(queryCounter, generation, touched)
        /\ Bounded(specCounter, specGeneration)
        /\ Current(specCounter, specGeneration, specTouched)
        /\ touched \in Seq(Docs) /\ specTouched \in Seq(Docs)
    BY <1>3 DEF Accumulate, StampInv
  <2>3. /\ generation' = [generation EXCEPT ![d] = queryCounter]
        /\ specGeneration' = [specGeneration EXCEPT ![d] = specCounter]
        /\ touched' = IF generation[d] = queryCounter THEN touched ELSE Append(touched, d)
        /\ specTouched' = IF specGeneration[d] = specCounter
                          THEN specTouched ELSE Append(specTouched, d)
        /\ UNCHANGED <<queryCounter, specCounter, phase>>
    BY <1>3 DEF Accumulate
  <2> HIDE DEF d
  <2>4. LET next == IF generation[d] = queryCounter THEN touched ELSE Append(touched, d)
        IN  /\ next \in Seq(Docs)
            /\ Bounded(queryCounter, [generation EXCEPT ![d] = queryCounter])
            /\ Current(queryCounter, [generation EXCEPT ![d] = queryCounter], next)
    BY <2>1, <2>2, StampCurrent
  <2>5. LET next == IF specGeneration[d] = specCounter
                    THEN specTouched ELSE Append(specTouched, d)
        IN  /\ next \in Seq(Docs)
            /\ Bounded(specCounter, [specGeneration EXCEPT ![d] = specCounter])
            /\ Current(specCounter, [specGeneration EXCEPT ![d] = specCounter], next)
    BY <2>1, <2>2, StampCurrent
  <2>6. /\ touched' \in Seq(Docs)
        /\ Bounded(queryCounter, generation)'
        /\ Current(queryCounter, generation, touched)'
    BY <2>3, <2>4 DEF Bounded, Current
  <2>7. /\ specTouched' \in Seq(Docs)
        /\ Bounded(specCounter, specGeneration)'
        /\ Current(specCounter, specGeneration, specTouched)'
    BY <2>3, <2>5 DEF Bounded, Current
  <2>8. phase' \in {"idle", "query", "spec"}
    BY <2>3 DEF StampInv
  <2> QED
    BY <2>6, <2>7, <2>8 DEF StampInv
<1>4. CASE FlushSpec
  BY <1>4 DEF FlushSpec, stamps, StampInv, Bounded, Current
<1>5. CASE EndQuery
  BY <1>5 DEF EndQuery, stamps, StampInv, Bounded
<1>6. CASE Reset
  <2>1. Bounded(queryCounter, generation)' /\ Bounded(specCounter, specGeneration)'
    BY <1>6, WrapAssumption DEF Reset, Bounded
  <2> QED
    BY <1>6, <2>1 DEF Reset, StampInv
<1>7. CASE UNCHANGED vars
  BY <1>7 DEF vars, stamps, tables, StampInv, Bounded, Current
<1> QED
  BY <1>1, <1>2, <1>3, <1>4, <1>5, <1>6, <1>7 DEF Next

\* For counters of any width and any number of documents, no slot of an old
\* query passes for the current one: the lazy reset of Scratch is sound.
THEOREM StampsCorrect == Spec => []StampsAreCurrent
<1>1. StampInv => StampsAreCurrent
  BY DEF StampInv, StampsAreCurrent, Current
<1> QED
  BY <1>1, StampInit, StampStep, PTL DEF Spec

----------------------------------------------------------------------------
(* Types.                                                                  *)

\* A sequence, of whatever it holds.
IsSequence(s, n) == s = [i \in 1 .. n |-> s[i]]

\* The tables cover the documents, a spec in progress is the last one, and each
\* spec has a map of the reference path.
TablesInv ==
    /\ DOMAIN slots = Docs
    /\ wideTerms \subseteq Docs \X Nat
    /\ specs \in Seq(Nat) /\ (phase = "spec" => specs # <<>>)
    /\ IsSequence(results, Len(specs))

\* A sequence one longer, for begin_spec.
LEMMA SequenceGrows ==
    ASSUME NEW s, NEW n \in Nat, IsSequence(s, n), NEW x
    PROVE  IsSequence(Append(s, x), n + 1)
<1> DEFINE S == {s[i] : i \in 1 .. n} \cup {x}
<1>1. [i \in 1 .. n |-> s[i]] \in Seq(S) /\ Len([i \in 1 .. n |-> s[i]]) = n
    OBVIOUS
<1>2. s \in Seq(S) /\ Len(s) = n /\ x \in S
    BY <1>1 DEF IsSequence
<1> HIDE DEF S
<1>3. Append(s, x) \in Seq(S) /\ Len(Append(s, x)) = n + 1
    BY <1>2, AppendProperties
<1> QED
    BY <1>3 DEF IsSequence

\* Every step keeps the shapes of the dense tables.
LEMMA TablesStep == TablesInv /\ [Next]_vars => TablesInv'
<1> SUFFICES ASSUME TablesInv, [Next]_vars PROVE TablesInv'
    OBVIOUS
<1>1. /\ specs \in Seq(Nat) /\ Len(specs) \in Nat /\ DOMAIN slots = Docs
      /\ wideTerms \subseteq Docs \X Nat /\ IsSequence(results, Len(specs))
      /\ phase = "spec" => specs # <<>>
    BY DEF TablesInv
<1>2. IsSequence(<<>>, 0) /\ Len(<<>>) = 0 /\ <<>> \in Seq(Nat)
    BY DEF IsSequence
<1>3. CASE BeginQuery
    BY <1>1, <1>2, <1>3 DEF BeginQuery, TablesInv
<1>4. ASSUME NEW slot \in 0 .. MaxSpecs, BeginSpec(slot) PROVE TablesInv'
    <2>1. /\ specs' = Append(specs, slot) /\ results' = Append(results, <<>>)
          /\ slots' = slots /\ wideTerms' = wideTerms
        BY <1>4 DEF BeginSpec
    <2>2. slot \in Nat
        BY LimitsAssumption
    <2>3. specs' \in Seq(Nat) /\ Len(specs') = Len(specs) + 1 /\ specs' # <<>>
        BY <1>1, <2>1, <2>2, AppendProperties
    <2>4. IsSequence(results', Len(specs'))
        BY <1>1, <2>1, <2>3, SequenceGrows
    <2> QED
        BY <1>1, <2>1, <2>3, <2>4 DEF TablesInv
<1>5. ASSUME NEW hit \in Hit, Accumulate(hit) PROVE TablesInv'
    <2>1. /\ phase = "spec" /\ phase' = phase /\ specs' = specs
          /\ wideTerms' \subseteq wideTerms \cup {<<hit.doc, Last(specs)>>}
        BY <1>5 DEF Accumulate
    <2>2. DOMAIN slots' = DOMAIN slots
        BY <1>5 DEF Accumulate
    <2>3. PICK x : results' = [results EXCEPT ![Len(results)] = x]
        BY <1>5 DEF Accumulate
    <2>4. hit.doc \in Docs
        BY DEF Hit
    <2>5. Last(specs) \in Nat
        BY <1>1, <2>1 DEF Last
    <2>6. IsSequence(results', Len(specs'))
        BY <1>1, <2>1, <2>3 DEF IsSequence
    <2> QED
        BY <1>1, <2>1, <2>2, <2>4, <2>5, <2>6 DEF TablesInv
<1>6. CASE FlushSpec
    BY <1>1, <1>6 DEF FlushSpec, Flush, TablesInv
<1>7. CASE EndQuery
    BY <1>1, <1>2, <1>7 DEF EndQuery, TablesInv
<1>8. CASE Reset
    BY <1>1, <1>2, <1>8 DEF Reset, TablesInv
<1>9. CASE UNCHANGED vars
    BY <1>1, <1>9 DEF vars, stamps, tables, TablesInv
<1> QED
    BY <1>3, <1>4, <1>5, <1>6, <1>7, <1>8, <1>9 DEF Next

\* The two invariants give every type the run checks.
LEMMA TypesHold == StampInv /\ TablesInv => TypeOK
<1> SUFFICES ASSUME StampInv, TablesInv PROVE TypeOK
    OBVIOUS
<1>1. ASSUME NEW counter, NEW stamp, Bounded(counter, stamp)
      PROVE  counter \in 0 .. Wrap - 1 /\ stamp \in [Docs -> 0 .. Wrap - 1]
    <2>1. \A d \in Docs : stamp[d] \in 0 .. Wrap - 1
        BY <1>1, WrapAssumption DEF Bounded
    <2> QED
        BY <1>1, <2>1 DEF Bounded
<1>2. Len(results) = Len(specs)
    BY DEF TablesInv, IsSequence
<1>3. /\ queryCounter \in 0 .. Wrap - 1 /\ generation \in [Docs -> 0 .. Wrap - 1]
      /\ specCounter \in 0 .. Wrap - 1 /\ specGeneration \in [Docs -> 0 .. Wrap - 1]
    BY <1>1 DEF StampInv
<1> QED
    BY <1>2, <1>3 DEF TypeOK, StampInv, TablesInv

\* The counters stay within their width, the tables keep a slot per document,
\* and every spec that begin_spec began has its results.
THEOREM TypeCorrect == Spec => []TypeOK
<1>1. Init => TablesInv
    BY DEF Init, TablesInv, IsSequence
<1>2. TablesInv /\ StampInv => TypeOK
    BY TypesHold
<1> QED
    BY <1>1, <1>2, StampInit, StampStep, TablesStep, PTL DEF Spec

----------------------------------------------------------------------------
(* Selections from a sequence.                                             *)

\* A rising list of the positions in at.
Lists(at, q, f) ==
    /\ f \in [1 .. q -> at]
    /\ \A k, l \in 1 .. q : k < l => f[k] < f[l]
    /\ \A i \in at : \E k \in 1 .. q : f[k] = i

\* The elements of entries at the positions `at`, in the order f lists them.
Follows(entries, at, q, f) ==
    Cardinality(at) = q /\ Selected(entries, at) = [k \in 1 .. q |-> entries[f[k]]]

\* There is one rising list of the positions, and Selected follows it.
LEMMA SelectedIs ==
    ASSUME NEW n \in Nat, NEW at \in SUBSET (1 .. n), NEW q \in Nat, NEW f, Lists(at, q, f),
           NEW entries
    PROVE  Follows(entries, at, q, f)
<1>1. /\ f \in [1 .. q -> at]
      /\ \A k, l \in 1 .. q : k < l => f[k] < f[l]
      /\ \A i \in at : \E k \in 1 .. q : f[k] = i
    BY DEF Lists
<1>2. /\ \A i \in at : Rank(at, i) \in 1 .. Cardinality(at)
      /\ \A i, j \in at : i < j => Rank(at, i) < Rank(at, j)
    BY Ranks
<1>3. \A i \in at : i \in Int
    OBVIOUS
<1>4. \A k, l \in 1 .. q : f[k] \in Int /\ (f[k] <= f[l] <=> k <= l)
    <2>1. \A k \in 1 .. q : f[k] \in Int
        BY <1>1, <1>3
    <2>2. ASSUME NEW k \in 1 .. q, NEW l \in 1 .. q
          PROVE  f[k] <= f[l] <=> k <= l
        <3>1. CASE k < l
            BY <1>1, <2>1, <3>1
        <3>2. CASE l < k
            <4>1. f[l] < f[k]
                BY <1>1, <3>2
            <4> QED
                BY <2>1, <3>2, <4>1
        <3>3. CASE k = l
            BY <2>1, <3>3
        <3> QED
            BY <3>1, <3>2, <3>3
    <2> QED
        BY <2>1, <2>2
<1>5. ASSUME NEW k \in 0 .. q
      PROVE  Cardinality({f[l] : l \in 1 .. k}) = k
    <2> DEFINE g == [l \in 1 .. k |-> f[l]]
               T == {f[l] : l \in 1 .. k}
    <2>1. \A l \in 1 .. k : l \in 1 .. q
        OBVIOUS
    <2>2. g \in Surjection(1 .. k, T)
        BY DEF Surjection
    <2>3. g \in Injection(1 .. k, T)
        BY <1>4, <2>1 DEF Injection, IsInjective
    <2>5. IsFiniteSet(1 .. k) /\ Cardinality(1 .. k) = k
        BY FS_Interval
    <2> HIDE DEF g, T
    <2>6. Cardinality(T) = k
        BY <2>2, <2>3, <2>5, FS_Surjection
    <2> QED
        BY <2>6 DEF T
<1>6. Cardinality(at) = q
    <2>1. at = {f[l] : l \in 1 .. q}
        BY <1>1
    <2>2. Cardinality({f[l] : l \in 1 .. q}) = q
        BY <1>5
    <2> QED
        BY <2>1, <2>2
<1>7. ASSUME NEW k \in 1 .. q
      PROVE  (CHOOSE i \in at : Cardinality({j \in at : j <= i}) = k) = f[k]
    <2>1. {j \in at : j <= f[k]} = {f[l] : l \in 1 .. k}
        <3>1. ASSUME NEW j \in at, j <= f[k]
              PROVE  \E l \in 1 .. k : f[l] = j
            <4>1. PICK l \in 1 .. q : f[l] = j
                BY <1>1
            <4>2. l <= k
                BY <1>4, <3>1, <4>1
            <4> QED
                BY <4>1, <4>2
        <3>2. ASSUME NEW l \in 1 .. k
              PROVE  f[l] \in at /\ f[l] <= f[k]
            BY <1>1, <1>4
        <3> QED
            BY <3>1, <3>2
    <2>2. Rank(at, f[k]) = k /\ f[k] \in at
        BY <1>1, <1>5, <2>1 DEF Rank
    <2>3. ASSUME NEW i \in at, Rank(at, i) = k
          PROVE  i = f[k]
        <3> DEFINE p == f[k]
        <3>2. p \in at /\ Rank(at, p) = Rank(at, i) /\ Rank(at, i) = k
            BY <2>2, <2>3
        <3> HIDE DEF p
        <3>1. ~(i < p) /\ ~(p < i) /\ i \in Int /\ p \in Int
            BY <1>2, <1>3, <3>2
        <3>3. i = p
            BY <3>1
        <3> QED
            BY <3>3 DEF p
    <2> QED
        BY <2>2, <2>3 DEF Rank
<1> QED
    <2>1. Selected(entries, at) = [k \in 1 .. q |-> entries[f[k]]]
        <3> DEFINE pick(k) == CHOOSE i \in at : Cardinality({j \in at : j <= i}) = k
        <3>1. Selected(entries, at) = [k \in 1 .. q |-> entries[pick(k)]]
            BY <1>6 DEF Selected
        <3>2. \A k \in 1 .. q : pick(k) = f[k]
            BY <1>7
        <3> HIDE DEF pick
        <3> QED
            BY <3>1, <3>2
    <2> QED
        BY <1>6, <2>1 DEF Follows

\* A selection's entries are those at its positions, in their order.
LEMMA SelectedLists ==
    ASSUME NEW n \in Nat, NEW at \in SUBSET (1 .. n)
    PROVE  \E q \in Nat : \E f : Lists(at, q, f)
<1>1. PICK pos : Picks(at, pos)
    BY Selection
<1>2. Cardinality(at) \in Nat
    BY PositionSets
<1>3. Lists(at, Cardinality(at), pos)
    BY <1>1 DEF Picks, Lists
<1> QED
    BY <1>2, <1>3

\* A filter that keeps everything, and one that keeps nothing.
LEMMA SelectedAll ==
    ASSUME NEW S, NEW s \in Seq(S)
    PROVE  Selected(s, DOMAIN s) = s
<1> DEFINE f == [k \in 1 .. Len(s) |-> k]
<1>1. Lists(1 .. Len(s), Len(s), f)
    BY DEF Lists
<1>2. f \in [1 .. Len(s) -> 1 .. Len(s)] /\ \A k \in 1 .. Len(s) : f[k] = k
    OBVIOUS
<1> HIDE DEF f
<1>3. Selected(s, 1 .. Len(s)) = [k \in 1 .. Len(s) |-> s[f[k]]]
    <2>1. Len(s) \in Nat /\ 1 .. Len(s) \in SUBSET (1 .. Len(s))
        OBVIOUS
    <2>2. Follows(s, 1 .. Len(s), Len(s), f)
        BY <1>1, <2>1, SelectedIs
    <2> QED
        BY <2>2 DEF Follows
<1> QED
    BY <1>2, <1>3

\* Nothing is selected at no position.
LEMMA SelectedNone ==
    ASSUME NEW s
    PROVE  Selected(s, {}) = <<>>
<1> DEFINE f == [k \in 1 .. 0 |-> k]
<1>1. Lists({}, 0, f)
    BY DEF Lists
<1> HIDE DEF f
<1>2. Selected(s, {}) = [k \in 1 .. 0 |-> s[f[k]]]
    <2>1. {} \in SUBSET (1 .. 0) /\ 0 \in Nat
        OBVIOUS
    <2>2. Follows(s, {}, 0, f)
        BY <1>1, <2>1, SelectedIs
    <2> QED
        BY <2>2 DEF Follows
<1> QED
    BY <1>2

\* What Lists says, in the terms the proofs below use.
LEMMA ListsFacts ==
    ASSUME NEW n \in Nat, NEW at \in SUBSET (1 .. n), NEW q \in Nat, NEW f, Lists(at, q, f)
    PROVE  /\ \A k \in 1 .. q : f[k] \in at /\ f[k] \in 1 .. n
           /\ \A k, l \in 1 .. q : f[k] = f[l] => k = l
<1>1. /\ f \in [1 .. q -> at]
      /\ \A k, l \in 1 .. q : k < l => f[k] < f[l]
    BY DEF Lists
<1>2. \A k \in 1 .. q : f[k] \in at /\ f[k] \in 1 .. n
    BY <1>1
<1>3. ASSUME NEW k \in 1 .. q, NEW l \in 1 .. q, f[k] = f[l]
      PROVE  k = l
    <2>1. ~(k < l) /\ ~(l < k)
        BY <1>1, <1>2, <1>3
    <2> QED
        BY <2>1
<1> QED
    BY <1>2, <1>3

\* A selection depends on the entries selected only.
LEMMA SelectedSame ==
    ASSUME NEW n \in Nat, NEW at \in SUBSET (1 .. n), NEW s, NEW t, \A i \in at : s[i] = t[i]
    PROVE  Selected(s, at) = Selected(t, at)
<1>q. PICK q \in Nat : \E f : Lists(at, q, f)
    BY SelectedLists
<1>1. PICK f : Lists(at, q, f)
    BY <1>q
<1>2. Follows(s, at, q, f) /\ Follows(t, at, q, f)
    BY <1>1, SelectedIs
<1>3. \A k \in 1 .. q : f[k] \in at
    BY <1>1 DEF Lists
<1> QED
    BY <1>2, <1>3 DEF Follows

\* What a selection contains.
Holds(s, at, chosen) ==
    /\ \A k \in DOMAIN chosen : \E i \in at : chosen[k] = s[i]
    /\ \A i \in at : \E k \in DOMAIN chosen : chosen[k] = s[i]

\* What a filter of a list returns: a list of elements from those positions.
LEMMA SelectedType ==
    ASSUME NEW S, NEW s \in Seq(S), NEW at \in SUBSET DOMAIN s
    PROVE  Selected(s, at) \in Seq(S) /\ Holds(s, at, Selected(s, at))
<1>0. Len(s) \in Nat /\ at \in SUBSET (1 .. Len(s))
    OBVIOUS
<1>q. PICK q \in Nat : \E f : Lists(at, q, f)
    BY <1>0, SelectedLists
<1>1. PICK f : Lists(at, q, f)
    BY <1>q
<1>2. Selected(s, at) = [k \in 1 .. q |-> s[f[k]]]
    <2>1. Follows(s, at, q, f)
        BY <1>0, <1>1, SelectedIs
    <2> QED
        BY <2>1 DEF Follows
<1>3. \A k \in 1 .. q : f[k] \in at /\ s[f[k]] \in S
    BY <1>0, <1>1 DEF Lists
<1>4. \A i \in at : \E k \in 1 .. q : f[k] = i
    BY <1>1 DEF Lists
<1>5. Selected(s, at) \in Seq(S)
    BY <1>2, <1>3
<1>6. Holds(s, at, Selected(s, at))
    BY <1>2, <1>3, <1>4 DEF Holds
<1> QED
    BY <1>5, <1>6

\* An entry added at the end, and chosen.
LEMMA SelectedTake ==
    ASSUME NEW S, NEW s \in Seq(S), NEW x \in S, NEW at \in SUBSET DOMAIN s
    PROVE  Selected(Append(s, x), at \cup {Len(s) + 1}) = Append(Selected(s, at), x)
<1> DEFINE n == Len(s)
           more == at \cup {n + 1}
<1>0. n \in Nat /\ at \in SUBSET (1 .. n) /\ n + 1 \in Nat /\ more \in SUBSET (1 .. n + 1)
    OBVIOUS
<1>q. PICK q \in Nat : \E f : Lists(at, q, f)
    BY <1>0, SelectedLists
<1>1. PICK f : Lists(at, q, f)
    BY <1>q
<1> DEFINE g == [k \in 1 .. q + 1 |-> IF k = q + 1 THEN n + 1 ELSE f[k]]
<1>2. /\ f \in [1 .. q -> at]
      /\ \A k, l \in 1 .. q : k < l => f[k] < f[l]
      /\ \A i \in at : \E k \in 1 .. q : f[k] = i
      /\ \A k \in 1 .. q : f[k] \in 1 .. n
    BY <1>0, <1>1 DEF Lists
<1>3. Lists(more, q + 1, g)
    <2>1. g \in [1 .. q + 1 -> more]
        BY <1>2
    <2>2. ASSUME NEW k \in 1 .. q + 1, NEW l \in 1 .. q + 1, k < l
          PROVE  g[k] < g[l]
        <3>1. k \in 1 .. q /\ g[k] = f[k] /\ f[k] <= n
            BY <1>2, <2>2
        <3>2. CASE l = q + 1
            BY <1>0, <1>2, <3>1, <3>2
        <3>3. CASE l # q + 1
            BY <1>2, <2>2, <3>1, <3>3
        <3> QED
            BY <3>2, <3>3
    <2>3. ASSUME NEW i \in more
          PROVE  \E k \in 1 .. q + 1 : g[k] = i
        <3>1. CASE i = n + 1
            BY <3>1
        <3>2. CASE i \in at
            <4>1. PICK k \in 1 .. q : f[k] = i
                BY <1>2, <3>2
            <4>2. k \in 1 .. q + 1 /\ g[k] = i
                BY <4>1
            <4> QED
                BY <4>2
        <3> QED
            BY <3>1, <3>2
    <2> HIDE DEF g
    <2> QED
        BY <2>1, <2>2, <2>3 DEF Lists
<1>4. g \in [1 .. q + 1 -> more] /\ g[q + 1] = n + 1 /\ \A k \in 1 .. q : g[k] = f[k]
    BY <1>2
<1> HIDE DEF g, more
<1>5. Selected(Append(s, x), more) = [k \in 1 .. q + 1 |-> Append(s, x)[g[k]]]
    <2>1. Follows(Append(s, x), more, q + 1, g)
        <3>1. q + 1 \in Nat
            OBVIOUS
        <3> QED
            BY <1>0, <1>3, <3>1, SelectedIs
    <2> QED
        BY <2>1 DEF Follows
<1>6. Selected(s, at) = [k \in 1 .. q |-> s[f[k]]]
    <2>1. Follows(s, at, q, f)
        BY <1>0, <1>1, SelectedIs
    <2> QED
        BY <2>1 DEF Follows
<1>7. Selected(s, at) \in Seq(S) /\ Len(Selected(s, at)) = q
    BY <1>2, <1>6
<1>8. \A k \in 1 .. q : Append(s, x)[g[k]] = s[f[k]]
    BY <1>2, <1>4
<1>9. Append(s, x)[g[q + 1]] = x
    BY <1>4
<1>10. Append(Selected(s, at), x) = [k \in 1 .. q + 1 |-> IF k = q + 1 THEN x ELSE s[f[k]]]
    BY <1>6, <1>7
<1>11. \A k \in 1 .. q + 1 :
            Append(s, x)[g[k]] = IF k = q + 1 THEN x ELSE s[f[k]]
    <2>1. ASSUME NEW k \in 1 .. q + 1
          PROVE  Append(s, x)[g[k]] = IF k = q + 1 THEN x ELSE s[f[k]]
        <3>1. CASE k = q + 1
            BY <1>9, <3>1
        <3>2. CASE k # q + 1
            <4>1. k \in 1 .. q
                BY <3>2
            <4> QED
                BY <1>8, <3>2, <4>1
        <3> QED
            BY <3>1, <3>2
    <2> QED
        BY <2>1
<1>12. Selected(Append(s, x), more) = Append(Selected(s, at), x)
    BY <1>5, <1>10, <1>11
<1> QED
    BY <1>12 DEF more

\* A selection from a selection.
LEMMA SelectedNested ==
    ASSUME NEW S, NEW s \in Seq(S), NEW at \in SUBSET DOMAIN s, NEW q \in Nat, NEW f,
           Lists(at, q, f), NEW again \in SUBSET (1 .. q)
    PROVE  Selected(Selected(s, at), again) = Selected(s, {f[k] : k \in again})
<1> DEFINE both == {f[k] : k \in again}
<1>0. Len(s) \in Nat /\ at \in SUBSET (1 .. Len(s))
    OBVIOUS
<1>1. /\ f \in [1 .. q -> at]
      /\ \A k, l \in 1 .. q : k < l => f[k] < f[l]
    BY DEF Lists
<1>2. both \in SUBSET (1 .. Len(s))
    BY <1>0, <1>1
<1>q. PICK r \in Nat : \E g : Lists(again, r, g)
    BY SelectedLists
<1>3. PICK g : Lists(again, r, g)
    BY <1>q
<1>4. /\ g \in [1 .. r -> again]
      /\ \A k, l \in 1 .. r : k < l => g[k] < g[l]
      /\ \A i \in again : \E k \in 1 .. r : g[k] = i
    BY <1>3 DEF Lists
<1> DEFINE h == [k \in 1 .. r |-> f[g[k]]]
<1>5. Lists(both, r, h)
    <2>1. h \in [1 .. r -> both]
        BY <1>4
    <2>2. \A k, l \in 1 .. r : k < l => h[k] < h[l]
        BY <1>1, <1>4
    <2>3. ASSUME NEW i \in both
          PROVE  \E k \in 1 .. r : h[k] = i
        <3>1. PICK j \in again : f[j] = i
            OBVIOUS
        <3>2. PICK k \in 1 .. r : g[k] = j
            BY <1>4
        <3> QED
            BY <3>1, <3>2
    <2> HIDE DEF h, both
    <2> QED
        BY <2>1, <2>2, <2>3 DEF Lists
<1> HIDE DEF both
<1>6. Selected(s, both) = [k \in 1 .. r |-> s[h[k]]]
    <2> HIDE DEF h
    <2>1. Follows(s, both, r, h)
        BY <1>0, <1>2, <1>5, SelectedIs
    <2> QED
        BY <2>1 DEF Follows
<1>7. Selected(s, at) = [k \in 1 .. q |-> s[f[k]]]
    <2>1. Follows(s, at, q, f)
        BY <1>0, SelectedIs
    <2> QED
        BY <2>1 DEF Follows
<1>8. Selected(Selected(s, at), again) = [k \in 1 .. r |-> Selected(s, at)[g[k]]]
    <2>1. Follows(Selected(s, at), again, r, g)
        BY <1>3, SelectedIs
    <2> QED
        BY <2>1 DEF Follows
<1>9. \A k \in 1 .. r : Selected(s, at)[g[k]] = s[h[k]]
    BY <1>4, <1>7
<1> QED
    BY <1>6, <1>8, <1>9 DEF both

----------------------------------------------------------------------------
(* The maps merged in their order.                                         *)

\* Positions that hold the first one, and with each the next, are all there.
LEMMA AllPositions ==
    ASSUME NEW n \in Nat, NEW T \in SUBSET (1 .. n), n > 0 => 1 \in T,
           \A k \in T : k < n => k + 1 \in T
    PROVE  T = 1 .. n
<1> SUFFICES ASSUME T # 1 .. n PROVE FALSE
    OBVIOUS
<1> DEFINE rest == (1 .. n) \ T
<1>1. rest \in SUBSET (1 .. n) /\ rest # {}
    OBVIOUS
<1>2. IsFiniteSet(rest) /\ Cardinality(rest) \in Nat
    BY <1>1, PositionSets
<1>3. Cardinality(rest) >= 1
    <2> HIDE DEF rest
    <2>1. Cardinality(rest) # 0
        BY <1>1, <1>2, FS_EmptySet
    <2> QED
        BY <1>2, <2>1
<1>4. /\ \A i \in rest : Rank(rest, i) \in 1 .. Cardinality(rest)
      /\ \A i, j \in rest : i < j => Rank(rest, i) < Rank(rest, j)
      /\ \A k \in 1 .. Cardinality(rest) : \E i \in rest : Rank(rest, i) = k
    BY <1>1, Ranks
<1>5. \E i \in rest : Rank(rest, i) = 1
    <2> HIDE DEF rest
    <2>1. 1 \in 1 .. Cardinality(rest)
        BY <1>2, <1>3
    <2> QED
        BY <1>4, <2>1
<1>10. PICK i \in rest : Rank(rest, i) = 1
    BY <1>5
<1>6. i \in 1 .. n /\ i \notin T /\ i # 1 /\ i - 1 \in 1 .. n /\ i - 1 < i
    OBVIOUS
<1>7. i - 1 \notin rest
    <2> HIDE DEF rest
    <2> DEFINE low == i - 1
    <2>1. ASSUME low \in rest PROVE FALSE
        <3>0. low < i
            BY <1>6
        <3> HIDE DEF low
        <3>1. Rank(rest, low) < Rank(rest, i) /\ Rank(rest, low) \in 1 .. Cardinality(rest)
            BY <1>4, <2>1, <3>0
        <3> QED
            BY <1>2, <1>10, <3>1
    <2> QED
        BY <2>1
<1>8. i - 1 \in T
    BY <1>6, <1>7
<1>9. i \in T
    BY <1>6, <1>8
<1> QED
    BY <1>6, <1>9

\* The merges of the first maps, one after another.
ChainTo(mode, maps, k, c) ==
    c = [n \in 1 .. k |-> IF n = 1 THEN maps[1] ELSE Merge(mode, c[n - 1], maps[n])]

\* combine_results folds its maps from the left: there is a chain of partial
\* merges for every number of maps.
LEMMA ChainExists ==
    ASSUME NEW mode, NEW maps, NEW n \in Nat
    PROVE  \E c : ChainTo(mode, maps, n, c)
<1> DEFINE T == {k \in 1 .. n : \E c : ChainTo(mode, maps, k, c)}
<1>1. ASSUME n > 0 PROVE 1 \in T
    <2>1. ChainTo(mode, maps, 1, [k \in 1 .. 1 |-> maps[1]])
        BY DEF ChainTo
    <2> QED
        BY <1>1, <2>1
<1>2. ASSUME NEW k \in T, k < n PROVE k + 1 \in T
    <2>1. PICK c : ChainTo(mode, maps, k, c)
        OBVIOUS
    <2> DEFINE d == [i \in 1 .. k + 1 |->
                        IF i = k + 1 THEN Merge(mode, c[k], maps[k + 1]) ELSE c[i]]
    <2>2. k \in 1 .. n /\ k + 1 \in 1 .. n
        BY <1>2
    <2>3. c = [i \in 1 .. k |-> IF i = 1 THEN maps[1] ELSE Merge(mode, c[i - 1], maps[i])]
        BY <2>1 DEF ChainTo
    <2>4. ASSUME NEW i \in 1 .. k + 1
          PROVE  d[i] = IF i = 1 THEN maps[1] ELSE Merge(mode, d[i - 1], maps[i])
        <3>1. CASE i = k + 1
            <4>1. i # 1 /\ i - 1 = k /\ k \in 1 .. k + 1 /\ k # k + 1
                BY <2>2, <3>1
            <4>2. d[i - 1] = c[k] /\ d[i] = Merge(mode, c[k], maps[k + 1])
                BY <2>2, <3>1, <4>1
            <4> QED
                BY <3>1, <4>1, <4>2
        <3>2. CASE i # k + 1
            <4>1. i \in 1 .. k /\ d[i] = c[i]
                BY <2>2, <3>2
            <4>2. CASE i = 1
                BY <2>3, <4>1, <4>2
            <4>3. CASE i # 1
                <5>1. i - 1 \in 1 .. k + 1 /\ i - 1 # k + 1
                    BY <2>2, <4>1, <4>3
                <5>2. d[i - 1] = c[i - 1]
                    BY <5>1
                <5>3. c[i] = Merge(mode, c[i - 1], maps[i])
                    BY <2>3, <4>1, <4>3
                <5> HIDE DEF d
                <5> QED
                    BY <4>1, <4>3, <5>2, <5>3
            <4> QED
                BY <4>2, <4>3
        <3> QED
            BY <3>1, <3>2
    <2>5. ChainTo(mode, maps, k + 1, d)
        <3>1. d = [i \in 1 .. k + 1 |-> d[i]]
            OBVIOUS
        <3> HIDE DEF d
        <3> QED
            BY <2>4, <3>1 DEF ChainTo
    <2> HIDE DEF d
    <2> QED
        BY <2>2, <2>5
<1>3. T \in SUBSET (1 .. n)
    OBVIOUS
<1>5. CASE n = 0
    <2>1. ChainTo(mode, maps, 0, [k \in 1 .. 0 |-> maps[1]])
        BY DEF ChainTo
    <2> QED
        BY <1>5, <2>1
<1>6. CASE n > 0
    <2> HIDE DEF T
    <2>1. T = 1 .. n
        BY <1>1, <1>2, <1>3, AllPositions
    <2>2. n \in T
        BY <1>6, <2>1
    <2> QED
        BY <2>2 DEF T
<1> QED
    BY <1>5, <1>6

\* Two chains agree as far as both go and their maps are the same.
LEMMA ChainsAgree ==
    ASSUME NEW mode, NEW maps, NEW more, NEW n \in Nat, NEW m \in Nat, n <= m,
           \A k \in 1 .. n : maps[k] = more[k],
           NEW c, ChainTo(mode, maps, n, c), NEW d, ChainTo(mode, more, m, d)
    PROVE  \A k \in 1 .. n : c[k] = d[k]
<1> DEFINE T == {k \in 1 .. n : c[k] = d[k]}
<1>1. \A k \in 1 .. n :
          c[k] = IF k = 1 THEN maps[1] ELSE Merge(mode, c[k - 1], maps[k])
    BY DEF ChainTo
<1>2. \A k \in 1 .. m :
          d[k] = IF k = 1 THEN more[1] ELSE Merge(mode, d[k - 1], more[k])
    BY DEF ChainTo
<1>3. n > 0 => 1 \in T
    BY <1>1, <1>2
<1>4. ASSUME NEW k \in T, k < n PROVE k + 1 \in T
    <2>1. k \in 1 .. n /\ c[k] = d[k]
        OBVIOUS
    <2>2. k + 1 \in 1 .. n /\ k + 1 \in 1 .. m /\ k + 1 # 1 /\ (k + 1) - 1 = k
        BY <1>4, <2>1
    <2>3. c[k + 1] = Merge(mode, c[k], maps[k + 1]) /\ d[k + 1] = Merge(mode, d[k], more[k + 1])
        BY <1>1, <1>2, <2>2
    <2>4. c[k + 1] = d[k + 1]
        BY <2>1, <2>2, <2>3
    <2> QED
        BY <2>2, <2>4
<1>5. T \in SUBSET (1 .. n)
    OBVIOUS
<1> HIDE DEF T
<1>6. T = 1 .. n
    BY <1>3, <1>4, <1>5, AllPositions
<1> QED
    BY <1>6 DEF T

\* What combine_results makes of some maps is the last of their chain.
LEMMA CombinedIs ==
    ASSUME NEW mode, NEW S, NEW maps \in Seq(S), maps # <<>>
    PROVE  \E c : ChainTo(mode, maps, Len(maps), c) /\ Combined(mode, maps) = c[Len(maps)]
<1>1. \E c : ChainTo(mode, maps, Len(maps), c)
    <2>1. Len(maps) \in Nat
        OBVIOUS
    <2> QED
        BY <2>1, ChainExists
<1> DEFINE c == CHOOSE c : c = [n \in 1 .. Len(maps) |->
                    IF n = 1 THEN maps[1] ELSE Merge(mode, c[n - 1], maps[n])]
<1>2. ChainTo(mode, maps, Len(maps), c)
    BY <1>1 DEF ChainTo
<1>3. Combined(mode, maps) = c[Len(maps)]
    BY DEF Combined
<1> HIDE DEF c
<1> QED
    BY <1>2, <1>3

\* combine_results of no map is empty.
LEMMA CombinedEmpty ==
    ASSUME NEW mode
    PROVE  Combined(mode, <<>>) = <<>>
BY DEF Combined

\* combine_results of one map is that map.
LEMMA CombinedOne ==
    ASSUME NEW mode, NEW S, NEW map \in S
    PROVE  Combined(mode, <<map>>) = map
<1>1. <<map>> \in Seq(S) /\ <<map>> # <<>> /\ Len(<<map>>) = 1 /\ <<map>>[1] = map
    OBVIOUS
<1>2. PICK c : ChainTo(mode, <<map>>, 1, c) /\ Combined(mode, <<map>>) = c[1]
    <2>1. \E c : ChainTo(mode, <<map>>, Len(<<map>>), c)
                 /\ Combined(mode, <<map>>) = c[Len(<<map>>)]
        BY <1>1, CombinedIs
    <2> QED
        BY <1>1, <2>1
<1> QED
    BY <1>1, <1>2 DEF ChainTo

\* One more map is merged into what the others made.
LEMMA CombinedAppend ==
    ASSUME NEW mode, NEW S, NEW maps \in Seq(S), maps # <<>>, NEW map \in S
    PROVE  Combined(mode, Append(maps, map)) = Merge(mode, Combined(mode, maps), map)
<1> DEFINE n == Len(maps)
           more == Append(maps, map)
<1>1. /\ n \in Nat /\ n >= 1 /\ more \in Seq(S) /\ more # <<>> /\ Len(more) = n + 1
      /\ more[n + 1] = map /\ \A k \in 1 .. n : maps[k] = more[k]
    OBVIOUS
<1>2. PICK c : ChainTo(mode, maps, n, c) /\ Combined(mode, maps) = c[n]
    BY CombinedIs
<1> HIDE DEF more
<1>3. PICK d : ChainTo(mode, more, n + 1, d) /\ Combined(mode, more) = d[n + 1]
    <2>1. \E d : ChainTo(mode, more, Len(more), d) /\ Combined(mode, more) = d[Len(more)]
        BY <1>1, CombinedIs
    <2> QED
        BY <1>1, <2>1
<1> HIDE DEF n
<1>4. c[n] = d[n]
    <2>1. n + 1 \in Nat /\ n <= n + 1 /\ n \in 1 .. n
        BY <1>1
    <2>2. \A k \in 1 .. n : c[k] = d[k]
        BY <1>1, <1>2, <1>3, <2>1, ChainsAgree
    <2> QED
        BY <2>1, <2>2
<1>5. d[n + 1] = Merge(mode, d[n], more[n + 1])
    <2>1. n + 1 \in 1 .. n + 1 /\ n + 1 # 1 /\ (n + 1) - 1 = n
        BY <1>1
    <2> QED
        BY <1>3, <2>1 DEF ChainTo
<1> QED
    BY <1>1, <1>2, <1>3, <1>4, <1>5 DEF more

----------------------------------------------------------------------------
(* Matches: rows keyed by term.                                            *)

\* A match row of the reference path, and what a MatchInfo promises: one per term.
Row == [term : Terms, fields : SUBSET Fields]

OneRowPerTerm(match) ==
    \A i, j \in DOMAIN match : match[i].term = match[j].term => i = j

\* Looking up the term of a row finds that row.
LEMMA RowFound ==
    ASSUME NEW match, OneRowPerTerm(match), NEW i \in DOMAIN match
    PROVE  RowOf(match, match[i].term) = match[i]
<1> DEFINE t == match[i].term
           j == CHOOSE k \in DOMAIN match : match[k].term = t
<1>1. j \in DOMAIN match /\ match[j].term = t
    OBVIOUS
<1>2. j = i
    <2> HIDE DEF j
    <2> QED
        BY <1>1 DEF OneRowPerTerm
<1>3. RowOf(match, t) = match[j]
    BY DEF RowOf
<1> HIDE DEF j
<1> QED
    BY <1>2, <1>3

\* A term that a match has is at some row of it.
LEMMA RowAt ==
    ASSUME NEW match, NEW t \in TermsOf(match)
    PROVE  \E i \in DOMAIN match : match[i].term = t /\ RowOf(match, t) = match[i]
<1> DEFINE j == CHOOSE k \in DOMAIN match : match[k].term = t
<1>1. \E k \in DOMAIN match : match[k].term = t
    BY DEF TermsOf
<1>2. j \in DOMAIN match /\ match[j].term = t
    BY <1>1
<1>3. RowOf(match, t) = match[j]
    BY DEF RowOf
<1> HIDE DEF j
<1> QED
    BY <1>2, <1>3

\* push_field and record_term write the fields of a row and keep its term.
LEMMA FieldsReplaced ==
    ASSUME NEW T, NEW F, NEW row \in [term : T, fields : F], NEW fields
    PROVE  [row EXCEPT !.fields = fields] = [term |-> row.term, fields |-> fields]
BY SMT

\* The row push_field leaves for its term.
Pushed(match, term, field) ==
    [term |-> term,
     fields |-> {field} \cup IF term \in TermsOf(match) THEN RowOf(match, term).fields ELSE {}]

\* What push_field makes of a match.
IsPushed(match, term, field, next) ==
    /\ next \in Seq(Row) /\ OneRowPerTerm(next)
    /\ TermsOf(next) = TermsOf(match) \cup {term}
    /\ RowOf(next, term) = Pushed(match, term, field)
    /\ \A other \in TermsOf(match) : other # term => RowOf(next, other) = RowOf(match, other)
    /\ term \in TermsOf(match) =>
           /\ Len(next) = Len(match)
           /\ \A i \in DOMAIN match :
                  next[i] = IF match[i].term = term THEN Pushed(match, term, field) ELSE match[i]
    /\ term \notin TermsOf(match) => next = Append(match, Pushed(match, term, field))

\* push_field keeps one row per term, and changes only its own term's row.
LEMMA PushFieldStep ==
    ASSUME NEW match \in Seq(Row), OneRowPerTerm(match), NEW term \in Terms, NEW field \in Fields
    PROVE  IsPushed(match, term, field, PushField(match, term, field))
<1> DEFINE new == Pushed(match, term, field)
           next == PushField(match, term, field)
<1>1. \A i \in 1 .. Len(match) : match[i] \in Row /\ match[i].term \in TermsOf(match)
    BY DEF TermsOf
<1>2. CASE term \in TermsOf(match)
    <2>1. PICK j \in DOMAIN match : match[j].term = term /\ RowOf(match, term) = match[j]
        BY <1>2, RowAt
    <2>2. \A i \in DOMAIN match : match[i].term = term => i = j
        BY <2>1 DEF OneRowPerTerm
    <2>3. new = [term |-> term, fields |-> {field} \cup match[j].fields] /\ new \in Row
        BY <1>1, <1>2, <2>1 DEF Pushed, Row
    <2>4. next = [i \in 1 .. Len(match) |->
                     IF match[i].term = term
                     THEN [match[i] EXCEPT !.fields = @ \cup {field}] ELSE match[i]]
        BY <1>2 DEF PushField
    <2>5. [match[j] EXCEPT !.fields = @ \cup {field}] = new
        <3> DEFINE r == match[j]
        <3>1. r \in Row /\ r.term = term /\ new = [term |-> term, fields |-> {field} \cup r.fields]
            BY <1>1, <2>1, <2>3
        <3> HIDE DEF r, new
        <3>2. r \in [term : Terms, fields : SUBSET Fields] /\ r.term = term
            BY <3>1 DEF Row
        <3>3. [r EXCEPT !.fields = @ \cup {field}] = [term |-> r.term, fields |-> r.fields \cup {field}]
            BY <3>2, FieldsReplaced
        <3>4. r.fields \cup {field} = {field} \cup r.fields
            OBVIOUS
        <3> QED
            BY <3>2, <3>1, <3>3, <3>4 DEF r
    <2> HIDE DEF new, next
    <2>6. ASSUME NEW i \in 1 .. Len(match)
          PROVE  next[i] = IF match[i].term = term THEN new ELSE match[i]
        <3>1. CASE match[i].term = term
            <4>1. i = j
                BY <2>2, <3>1
            <4> QED
                BY <2>4, <2>5, <3>1, <4>1
        <3>2. CASE match[i].term # term
            BY <2>4, <3>2
        <3> QED
            BY <3>1, <3>2
    <2>7. next \in Seq(Row) /\ Len(next) = Len(match) /\ DOMAIN next = DOMAIN match
        <3>1. \A i \in 1 .. Len(match) : next[i] \in Row
            BY <1>1, <2>3, <2>6
        <3>2. next = [i \in 1 .. Len(match) |-> next[i]]
            BY <2>4
        <3> QED
            BY <3>1, <3>2
    <2>8. \A i \in DOMAIN match : next[i].term = match[i].term
        BY <2>3, <2>6
    <2>9. OneRowPerTerm(next)
        BY <2>7, <2>8 DEF OneRowPerTerm
    <2>10. TermsOf(next) = TermsOf(match)
        BY <2>7, <2>8 DEF TermsOf
    <2>11. RowOf(next, term) = new
        <3>1. next[j] = new /\ next[j].term = term /\ j \in DOMAIN next
            BY <2>1, <2>6, <2>7, <2>8
        <3> QED
            BY <2>9, <3>1, RowFound
    <2>12. ASSUME NEW other \in TermsOf(match), other # term
           PROVE  RowOf(next, other) = RowOf(match, other)
        <3>1. PICK k \in DOMAIN match : match[k].term = other /\ RowOf(match, other) = match[k]
            BY RowAt
        <3>2. next[k] = match[k] /\ k \in DOMAIN next
            BY <2>6, <2>7, <2>12, <3>1
        <3>3. RowOf(next, next[k].term) = next[k]
            BY <2>9, <3>2, RowFound
        <3> QED
            BY <3>1, <3>2, <3>3
    <2>13. TermsOf(match) \cup {term} = TermsOf(match)
        BY <1>2
    <2>14. IsPushed(match, term, field, next)
        <3>1. \A i \in DOMAIN match :
                 next[i] = IF match[i].term = term THEN new ELSE match[i]
            BY <2>6
        <3>2. new = Pushed(match, term, field)
            BY DEF new
        <3> QED
            BY <1>2, <2>7, <2>9, <2>10, <2>11, <2>12, <2>13, <3>1, <3>2 DEF IsPushed
    <2> QED
        BY <2>14 DEF next
<1>3. CASE term \notin TermsOf(match)
    <2>1. new = [term |-> term, fields |-> {field}] /\ new \in Row
        BY <1>3 DEF Pushed, Row
    <2>2. next = Append(match, [term |-> term, fields |-> {field}])
        BY <1>3 DEF PushField
    <2>3. next = Append(match, new)
        BY <2>1, <2>2
    <2> HIDE DEF new, next
    <2> DEFINE n == Len(match)
    <2>4. /\ next \in Seq(Row) /\ Len(next) = n + 1 /\ DOMAIN next = 1 .. n + 1
          /\ next[n + 1] = new /\ n \in Nat
          /\ \A i \in 1 .. n : next[i] = match[i]
        BY <2>1, <2>3
    <2>5. DOMAIN match = 1 .. n
        OBVIOUS
    <2> HIDE DEF n
    <2>6. \A i \in 1 .. n : next[i].term \in TermsOf(match) /\ next[i].term # term
        BY <1>1, <1>3, <2>4, <2>5
    <2>7. next[n + 1].term = term
        BY <2>1, <2>4
    <2>8. OneRowPerTerm(next)
        <3>1. ASSUME NEW i \in 1 .. n + 1, NEW j \in 1 .. n + 1, next[i].term = next[j].term
              PROVE  i = j
            <4>1. CASE i \in 1 .. n /\ j \in 1 .. n
                BY <2>4, <2>5, <3>1, <4>1 DEF OneRowPerTerm
            <4>2. CASE i = n + 1
                BY <2>4, <2>6, <2>7, <3>1, <4>2
            <4>3. CASE j = n + 1
                BY <2>4, <2>6, <2>7, <3>1, <4>3
            <4> QED
                BY <2>4, <4>1, <4>2, <4>3
        <3> QED
            BY <2>4, <3>1 DEF OneRowPerTerm
    <2>9. TermsOf(next) = TermsOf(match) \cup {term}
        <3>1. ASSUME NEW x \in TermsOf(next) PROVE x \in TermsOf(match) \cup {term}
            <4>1. PICK i \in 1 .. n + 1 : next[i].term = x
                BY <2>4 DEF TermsOf
            <4> QED
                BY <2>4, <2>6, <2>7, <4>1
        <3>2. ASSUME NEW x \in TermsOf(match) PROVE x \in TermsOf(next)
            <4>1. PICK i \in 1 .. n : match[i].term = x
                BY <2>5 DEF TermsOf
            <4>2. i \in 1 .. n + 1 /\ next[i].term = x
                BY <2>4, <4>1
            <4> QED
                BY <2>4, <4>2 DEF TermsOf
        <3>3. term \in TermsOf(next)
            <4>1. n + 1 \in 1 .. n + 1
                BY <2>4
            <4> QED
                BY <2>4, <2>7, <4>1 DEF TermsOf
        <3> QED
            BY <3>1, <3>2, <3>3
    <2>10. RowOf(next, term) = new
        <3>1. n + 1 \in DOMAIN next
            BY <2>4
        <3> QED
            BY <2>4, <2>7, <2>8, <3>1, RowFound
    <2>11. ASSUME NEW other \in TermsOf(match), other # term
           PROVE  RowOf(next, other) = RowOf(match, other)
        <3>1. PICK k \in DOMAIN match : match[k].term = other /\ RowOf(match, other) = match[k]
            BY RowAt
        <3>2. next[k] = match[k] /\ k \in DOMAIN next
            BY <2>4, <2>5, <3>1
        <3>3. RowOf(next, next[k].term) = next[k]
            BY <2>8, <3>2, RowFound
        <3> QED
            BY <3>1, <3>2, <3>3
    <2>12. IsPushed(match, term, field, next)
        BY <1>3, <2>3, <2>4, <2>8, <2>9, <2>10, <2>11 DEF IsPushed, new
    <2> QED
        BY <2>12 DEF next
<1> QED
    BY <1>2, <1>3

----------------------------------------------------------------------------
(* Object.assign on matches.                                               *)

\* What s \o t is.
Joined(s, t, both) ==
    /\ Len(both) = Len(s) + Len(t)
    /\ \A i \in 1 .. Len(s) : both[i] = s[i]
    /\ \A i \in 1 .. Len(t) : both[Len(s) + i] = t[i]

\* The elements of two lists put together.
LEMMA Concatenated ==
    ASSUME NEW S, NEW s \in Seq(S), NEW t \in Seq(S)
    PROVE  Joined(s, t, s \o t)
<1>1. Len(s) \in Nat /\ Len(t) \in Nat
    OBVIOUS
<1> QED
    BY <1>1, ConcatProperties DEF Joined

\* The rows of a source that a match has no term for.
NewRows(match, source) == {i \in DOMAIN source : source[i].term \notin TermsOf(match)}

\* The result of assign: the match's rows, overwritten, then the new rows.
Assigned(match, source, q, f, result) ==
    /\ result \in Seq(Row) /\ Len(result) = Len(match) + q
    /\ \A i \in 1 .. Len(match) :
           result[i] = IF match[i].term \in TermsOf(source)
                       THEN RowOf(source, match[i].term) ELSE match[i]
    /\ \A k \in 1 .. q : result[Len(match) + k] = source[f[k]]

\* Object.assign, position by position: the old rows, replaced where the source
\* has their term, then the source's new rows in their order.
LEMMA AssignShape ==
    ASSUME NEW match \in Seq(Row), NEW source \in Seq(Row),
           NEW q \in Nat, NEW f, Lists(NewRows(match, source), q, f)
    PROVE  Assigned(match, source, q, f, Assign(match, source))
<1> DEFINE n == Len(match)
           kept == [i \in DOMAIN match |->
                       IF match[i].term \in TermsOf(source)
                       THEN RowOf(source, match[i].term) ELSE match[i]]
           added == Selected(source, NewRows(match, source))
<1>1. n \in Nat /\ DOMAIN match = 1 .. n /\ Len(source) \in Nat
      /\ NewRows(match, source) \in SUBSET (1 .. Len(source))
    BY DEF NewRows
<1>2. \A t \in TermsOf(source) : RowOf(source, t) \in Row
    <2>1. ASSUME NEW t \in TermsOf(source) PROVE RowOf(source, t) \in Row
        <3>1. PICK i \in DOMAIN source : RowOf(source, t) = source[i]
            BY RowAt
        <3> QED
            BY <3>1
    <2> QED
        BY <2>1
<1>3. kept \in Seq(Row) /\ Len(kept) = n
    <2>1. \A i \in 1 .. n : kept[i] \in Row
        BY <1>1, <1>2
    <2>2. kept = [i \in 1 .. n |-> kept[i]]
        BY <1>1
    <2> HIDE DEF kept
    <2> QED
        BY <1>1, <2>1, <2>2
<1>4. added = [k \in 1 .. q |-> source[f[k]]]
    <2>1. Follows(source, NewRows(match, source), q, f)
        BY <1>1, SelectedIs
    <2> QED
        BY <2>1 DEF Follows
<1>5. added \in Seq(Row) /\ Len(added) = q
    <2>1. \A k \in 1 .. q : f[k] \in 1 .. Len(source) /\ source[f[k]] \in Row
        BY <1>1 DEF Lists
    <2> HIDE DEF added
    <2> QED
        BY <1>4, <2>1
<1>6. Assign(match, source) = kept \o added
    BY DEF Assign, NewRows
<1>7. \A i \in 1 .. n : kept[i] = IF match[i].term \in TermsOf(source)
                                 THEN RowOf(source, match[i].term) ELSE match[i]
    BY <1>1
<1> HIDE DEF kept, added
<1>8. /\ kept \o added \in Seq(Row) /\ Len(kept \o added) = n + q
      /\ \A i \in 1 .. n : (kept \o added)[i] = kept[i]
      /\ \A k \in 1 .. q : (kept \o added)[n + k] = added[k]
    <2>1. Joined(kept, added, kept \o added)
        BY <1>3, <1>5, Concatenated
    <2>3. kept \o added \in Seq(Row)
        BY <1>3, <1>5
    <2> QED
        BY <1>3, <1>5, <2>1, <2>3 DEF Joined
<1> QED
    BY <1>4, <1>6, <1>7, <1>8 DEF Assigned

\* Each row of the result is the source's row of its term, or else the match's.
RowsOf(match, source, result) ==
    /\ OneRowPerTerm(result)
    /\ TermsOf(result) = TermsOf(match) \cup TermsOf(source)
    /\ \A i \in DOMAIN result :
           IF result[i].term \in TermsOf(source)
           THEN result[i] = RowOf(source, result[i].term)
           ELSE result[i] = RowOf(match, result[i].term)

\* Object.assign, term by term: it keeps one row per term, the source's where the
\* source has one.
LEMMA AssignRows ==
    ASSUME NEW match \in Seq(Row), OneRowPerTerm(match),
           NEW source \in Seq(Row), OneRowPerTerm(source)
    PROVE  Assign(match, source) \in Seq(Row) /\ RowsOf(match, source, Assign(match, source))
<1> DEFINE n == Len(match)
           at == NewRows(match, source)
           result == Assign(match, source)
<1>1. n \in Nat /\ DOMAIN match = 1 .. n /\ Len(source) \in Nat
      /\ at \in SUBSET (1 .. Len(source)) /\ DOMAIN source = 1 .. Len(source)
    BY DEF NewRows
<1>q. PICK q \in Nat : \E f : Lists(at, q, f)
    BY <1>1, SelectedLists
<1>2. PICK f : Lists(at, q, f)
    BY <1>q
<1>3. Assigned(match, source, q, f, result)
    BY <1>2, AssignShape
<1>4. /\ \A k \in 1 .. q : f[k] \in at /\ f[k] \in 1 .. Len(source)
      /\ \A k, l \in 1 .. q : f[k] = f[l] => k = l
    BY <1>1, <1>2, ListsFacts
<1>5. \A i \in at : \E k \in 1 .. q : f[k] = i
    BY <1>2 DEF Lists
<1>6. \A k \in 1 .. q : source[f[k]].term \notin TermsOf(match)
    BY <1>4 DEF NewRows
<1> HIDE DEF result
<1>7. result \in Seq(Row) /\ Len(result) = n + q /\ DOMAIN result = 1 .. n + q
    BY <1>1, <1>3 DEF Assigned
<1>8. ASSUME NEW i \in 1 .. n
      PROVE  /\ result[i].term = match[i].term /\ match[i].term \in TermsOf(match)
             /\ IF result[i].term \in TermsOf(source)
                THEN result[i] = RowOf(source, result[i].term)
                ELSE result[i] = RowOf(match, result[i].term)
    <2>1. match[i].term \in TermsOf(match) /\ i \in DOMAIN match
        BY <1>1 DEF TermsOf
    <2>2. CASE match[i].term \in TermsOf(source)
        <3>1. result[i] = RowOf(source, match[i].term)
            BY <1>3, <2>2 DEF Assigned
        <3>2. PICK k \in DOMAIN source : source[k].term = match[i].term
                                        /\ RowOf(source, match[i].term) = source[k]
            BY <2>2, RowAt
        <3>3. result[i].term = match[i].term
            BY <3>1, <3>2
        <3> QED
            BY <2>1, <2>2, <3>1, <3>3
    <2>3. CASE match[i].term \notin TermsOf(source)
        <3>1. result[i] = match[i]
            BY <1>3, <2>3 DEF Assigned
        <3>2. RowOf(match, match[i].term) = match[i]
            BY <2>1, RowFound
        <3> QED
            BY <2>1, <2>3, <3>1, <3>2
    <2> QED
        BY <2>2, <2>3
<1>9. ASSUME NEW k \in 1 .. q
      PROVE  /\ result[n + k] = source[f[k]] /\ result[n + k].term \in TermsOf(source)
             /\ result[n + k].term \notin TermsOf(match)
             /\ result[n + k] = RowOf(source, result[n + k].term)
    <2>1. result[n + k] = source[f[k]] /\ f[k] \in DOMAIN source
        BY <1>1, <1>3, <1>4 DEF Assigned
    <2>2. source[f[k]].term \in TermsOf(source)
        BY <2>1 DEF TermsOf
    <2>3. RowOf(source, source[f[k]].term) = source[f[k]]
        BY <2>1, RowFound
    <2> QED
        BY <1>6, <2>1, <2>2, <2>3
<1>10. \A i \in 1 .. n + q : i \in 1 .. n \/ \E k \in 1 .. q : i = n + k
    <2>1. ASSUME NEW i \in 1 .. n + q, i \notin 1 .. n
          PROVE  \E k \in 1 .. q : i = n + k
        <3>1. i - n \in 1 .. q /\ i = n + (i - n)
            BY <1>1, <2>1
        <3> QED
            BY <3>1
    <2> QED
        BY <2>1
<1>11. \A i \in 1 .. n + q :
           IF result[i].term \in TermsOf(source)
           THEN result[i] = RowOf(source, result[i].term)
           ELSE result[i] = RowOf(match, result[i].term)
    <2>1. ASSUME NEW i \in 1 .. n + q
          PROVE  IF result[i].term \in TermsOf(source)
                 THEN result[i] = RowOf(source, result[i].term)
                 ELSE result[i] = RowOf(match, result[i].term)
        <3>1. CASE i \in 1 .. n
            BY <1>8, <3>1
        <3>2. ASSUME NEW k \in 1 .. q, i = n + k
              PROVE  /\ result[i].term \in TermsOf(source)
                     /\ result[i] = RowOf(source, result[i].term)
            BY <1>9, <3>2
        <3> QED
            BY <1>10, <3>1, <3>2
    <2> QED
        BY <2>1
<1>12. ASSUME NEW i \in 1 .. n + q, NEW j \in 1 .. n + q, result[i].term = result[j].term
       PROVE  i = j
    <2>1. CASE i \in 1 .. n /\ j \in 1 .. n
        BY <1>1, <1>8, <1>12, <2>1 DEF OneRowPerTerm
    <2>2. ASSUME NEW k \in 1 .. q, i = n + k, j \in 1 .. n PROVE FALSE
        BY <1>8, <1>9, <1>12, <2>2
    <2>3. ASSUME NEW k \in 1 .. q, j = n + k, i \in 1 .. n PROVE FALSE
        BY <1>8, <1>9, <1>12, <2>3
    <2>4. ASSUME NEW k \in 1 .. q, i = n + k, NEW l \in 1 .. q, j = n + l PROVE i = j
        <3>1. source[f[k]].term = source[f[l]].term /\ f[k] \in DOMAIN source /\ f[l] \in DOMAIN source
            BY <1>1, <1>4, <1>9, <1>12, <2>4
        <3>2. f[k] = f[l]
            BY <3>1 DEF OneRowPerTerm
        <3> QED
            BY <1>4, <2>4, <3>2
    <2> QED
        BY <1>10, <2>1, <2>2, <2>3, <2>4
<1>13. OneRowPerTerm(result)
    BY <1>7, <1>12 DEF OneRowPerTerm
<1>14. TermsOf(result) = TermsOf(match) \cup TermsOf(source)
    <2>1. ASSUME NEW t \in TermsOf(result) PROVE t \in TermsOf(match) \cup TermsOf(source)
        <3>1. PICK i \in 1 .. n + q : result[i].term = t
            BY <1>7 DEF TermsOf
        <3> QED
            BY <1>8, <1>9, <1>10, <3>1
    <2>2. ASSUME NEW t \in TermsOf(match) PROVE t \in TermsOf(result)
        <3>1. PICK i \in 1 .. n : match[i].term = t
            BY <1>1 DEF TermsOf
        <3>2. i \in DOMAIN result /\ result[i].term = t
            BY <1>1, <1>7, <1>8, <3>1
        <3> QED
            BY <3>2 DEF TermsOf
    <2>3. ASSUME NEW t \in TermsOf(source), t \notin TermsOf(match) PROVE t \in TermsOf(result)
        <3>1. PICK i \in DOMAIN source : source[i].term = t
            BY DEF TermsOf
        <3>2. i \in at
            BY <2>3, <3>1 DEF NewRows
        <3>3. PICK k \in 1 .. q : f[k] = i
            BY <1>5, <3>2
        <3>4. n + k \in DOMAIN result /\ result[n + k].term = t
            BY <1>1, <1>7, <1>9, <3>1, <3>3
        <3> QED
            BY <3>4 DEF TermsOf
    <2> QED
        BY <2>1, <2>2, <2>3
<1>15. RowsOf(match, source, result)
    BY <1>7, <1>11, <1>13, <1>14 DEF RowsOf
<1> QED
    BY <1>7, <1>15 DEF result

\* What record_term makes of the rows, when the spec had, or had not, the term.
Recorded(rows, term, field, had) ==
    IF term \in TermsOf(rows)
    THEN [i \in DOMAIN rows |->
             IF rows[i].term = term
             THEN [term |-> term, fields |-> {field} \cup IF had THEN rows[i].fields ELSE {}]
             ELSE rows[i]]
    ELSE Append(rows, [term |-> term, fields |-> {field}])

\* The heart of the matter: recording a term at once in the document's rows is
\* recording it in the spec's own and assigning those afterwards.
LEMMA AssignPushed ==
    ASSUME NEW match \in Seq(Row), OneRowPerTerm(match),
           NEW source \in Seq(Row), OneRowPerTerm(source),
           NEW term \in Terms, NEW field \in Fields
    PROVE  Assign(match, PushField(source, term, field)) =
               Recorded(Assign(match, source), term, field, term \in TermsOf(source))
<1> DEFINE next == PushField(source, term, field)
           new == Pushed(source, term, field)
           before == Assign(match, source)
           after == Assign(match, next)
           n == Len(match)
<1>1. IsPushed(source, term, field, next)
    BY PushFieldStep
<1> HIDE DEF next
<1>2. next \in Seq(Row) /\ OneRowPerTerm(next) /\ TermsOf(next) = TermsOf(source) \cup {term}
    BY <1>1 DEF IsPushed
<1>3. /\ before \in Seq(Row) /\ RowsOf(match, source, before)
      /\ after \in Seq(Row) /\ RowsOf(match, next, after)
    BY <1>2, AssignRows
<1>4. n \in Nat /\ Len(source) \in Nat /\ DOMAIN match = 1 .. n
      /\ DOMAIN source = 1 .. Len(source)
      /\ NewRows(match, source) \in SUBSET (1 .. Len(source))
    BY DEF NewRows
<1>5. new.term = term /\ new = [term |-> term, fields |-> {field} \cup
           IF term \in TermsOf(source) THEN RowOf(source, term).fields ELSE {}]
    BY DEF Pushed
<1> HIDE DEF new
<1>6. CASE term \in TermsOf(match) \cup TermsOf(source)
    <2>1. \A i \in DOMAIN source :
             next[i] = IF source[i].term = term THEN new ELSE source[i]
        <3>1. CASE term \in TermsOf(source)
            BY <1>1, <3>1 DEF IsPushed, new
        <3>2. CASE term \notin TermsOf(source)
            <4>1. next = Append(source, new)
                BY <1>1, <3>2 DEF IsPushed, new
            <4>2. \A i \in DOMAIN source : next[i] = source[i]
                BY <1>4, <4>1
            <4>3. \A i \in DOMAIN source : source[i].term # term
                BY <3>2 DEF TermsOf
            <4> QED
                BY <4>2, <4>3
        <3> QED
            BY <3>1, <3>2
    <2>2. NewRows(match, next) = NewRows(match, source)
        <3>1. CASE term \in TermsOf(source)
            <4>1. DOMAIN next = DOMAIN source
                BY <1>1, <1>2, <3>1 DEF IsPushed
            <4>2. \A i \in DOMAIN source : next[i].term = source[i].term
                BY <1>5, <2>1
            <4> QED
                BY <4>1, <4>2 DEF NewRows
        <3>2. CASE term \notin TermsOf(source)
            <4>1. next = Append(source, new) /\ term \in TermsOf(match)
                BY <1>1, <1>6, <3>2 DEF IsPushed, new
            <4>2. DOMAIN next = DOMAIN source \cup {Len(source) + 1}
                  /\ next[Len(source) + 1] = new
                BY <1>4, <4>1
            <4>3. \A i \in DOMAIN source : next[i].term = source[i].term
                BY <1>5, <2>1
            <4>4. \A i \in DOMAIN next : next[i].term \notin TermsOf(match)
                                        => i \in DOMAIN source
                BY <1>5, <4>1, <4>2
            <4> QED
                BY <4>2, <4>3, <4>4 DEF NewRows
        <3> QED
            BY <3>1, <3>2
    <2>q. PICK q \in Nat : \E f : Lists(NewRows(match, source), q, f)
        BY <1>4, SelectedLists
    <2>3. PICK f : Lists(NewRows(match, source), q, f)
        BY <2>q
    <2>4. Assigned(match, source, q, f, before)
        BY <2>3, AssignShape
    <2>5. Assigned(match, next, q, f, after)
        <3>1. Lists(NewRows(match, next), q, f)
            BY <2>2, <2>3
        <3> HIDE DEF after
        <3>2. Assigned(match, next, q, f, Assign(match, next))
            BY <1>2, <3>1, AssignShape
        <3> QED
            BY <3>2 DEF after
    <2> HIDE DEF before, after
    <2>6. Len(before) = n + q /\ Len(after) = n + q
          /\ DOMAIN before = 1 .. n + q /\ DOMAIN after = 1 .. n + q
        BY <1>3, <1>4, <2>4, <2>5 DEF Assigned
    <2>7. ASSUME NEW i \in 1 .. n
          PROVE  after[i] = IF before[i].term = term THEN new ELSE before[i]
        <3> DEFINE t == match[i].term
        <3>1. /\ before[i] = IF t \in TermsOf(source) THEN RowOf(source, t) ELSE match[i]
              /\ after[i] = IF t \in TermsOf(next) THEN RowOf(next, t) ELSE match[i]
            BY <2>4, <2>5 DEF Assigned
        <3>2. before[i].term = t
            <4>1. CASE t \in TermsOf(source)
                <5>1. \E k \in DOMAIN source : source[k].term = t /\ RowOf(source, t) = source[k]
                    BY <4>1, RowAt
                <5> QED
                    BY <3>1, <4>1, <5>1
            <4>2. CASE t \notin TermsOf(source)
                BY <3>1, <4>2
            <4> QED
                BY <4>1, <4>2
        <3> HIDE DEF t
        <3>3. CASE t = term
            <4>1. RowOf(next, t) = new
                BY <1>1, <3>3 DEF IsPushed, new
            <4> QED
                BY <1>2, <3>1, <3>2, <3>3, <4>1
        <3>4. CASE t # term
            <4>1. t \in TermsOf(next) <=> t \in TermsOf(source)
                BY <1>2, <3>4
            <4>2. t \in TermsOf(source) => RowOf(next, t) = RowOf(source, t)
                BY <1>1, <3>4 DEF IsPushed
            <4> QED
                BY <3>1, <3>2, <3>4, <4>1, <4>2
        <3> QED
            BY <3>3, <3>4
    <2>8. ASSUME NEW k \in 1 .. q
          PROVE  after[n + k] = IF before[n + k].term = term THEN new ELSE before[n + k]
        <3>1. f[k] \in DOMAIN source
            BY <1>4, <2>3 DEF Lists
        <3>2. before[n + k] = source[f[k]] /\ after[n + k] = next[f[k]]
            BY <2>4, <2>5 DEF Assigned
        <3> QED
            BY <2>1, <3>1, <3>2
    <2>9. ASSUME NEW i \in DOMAIN before
          PROVE  after[i] = IF before[i].term = term THEN new ELSE before[i]
        <3>1. CASE i \in 1 .. n
            BY <2>7, <3>1
        <3>2. CASE i \notin 1 .. n
            <4>1. i - n \in 1 .. q /\ i = n + (i - n)
                BY <1>4, <2>6, <3>2
            <4> QED
                BY <2>8, <4>1
        <3> QED
            BY <3>1, <3>2
    <2>10. ASSUME NEW i \in DOMAIN before, before[i].term = term
           PROVE  new = [term |-> term, fields |-> {field} \cup
                             IF term \in TermsOf(source) THEN before[i].fields ELSE {}]
        <3>1. term \in TermsOf(source) => before[i] = RowOf(source, term)
            BY <1>3, <2>10 DEF RowsOf
        <3> QED
            BY <1>5, <3>1
    <2>11. term \in TermsOf(before)
        BY <1>3, <1>6 DEF RowsOf
    <2>12. after = [i \in DOMAIN before |-> IF before[i].term = term
                       THEN [term |-> term, fields |-> {field} \cup
                                IF term \in TermsOf(source) THEN before[i].fields ELSE {}]
                       ELSE before[i]]
        <3>1. after = [i \in DOMAIN before |-> after[i]]
            BY <1>3, <2>6
        <3> QED
            BY <2>9, <2>10, <3>1
    <2>13. after = Recorded(before, term, field, term \in TermsOf(source))
        BY <2>11, <2>12 DEF Recorded
    <2> QED
        BY <2>13 DEF after, before, next
<1>7. CASE term \notin TermsOf(match) \cup TermsOf(source)
    <2>1. next = Append(source, new) /\ new \in Row
        <3>1. next = Append(source, new)
            BY <1>1, <1>7 DEF IsPushed, new
        <3>2. new = [term |-> term, fields |-> {field}]
            BY <1>5, <1>7
        <3> QED
            BY <3>1, <3>2 DEF Row
    <2>2. NewRows(match, next) = NewRows(match, source) \cup {Len(source) + 1}
        <3>1. DOMAIN next = DOMAIN source \cup {Len(source) + 1}
              /\ next[Len(source) + 1] = new /\ \A i \in DOMAIN source : next[i] = source[i]
            BY <1>4, <2>1
        <3>2. next[Len(source) + 1].term \notin TermsOf(match)
            BY <1>5, <1>7, <3>1
        <3> QED
            BY <3>1, <3>2 DEF NewRows
    <2>3. Selected(next, NewRows(match, next)) = Append(Selected(source, NewRows(match, source)), new)
        <3>1. source \in Seq(Row) /\ new \in Row /\ NewRows(match, source) \in SUBSET DOMAIN source
            BY <1>4, <2>1 DEF NewRows
        <3>2. Selected(Append(source, new), NewRows(match, source) \cup {Len(source) + 1})
                  = Append(Selected(source, NewRows(match, source)), new)
            BY <3>1, SelectedTake
        <3> QED
            BY <2>1, <2>2, <3>2
    <2> DEFINE kept(from) == [i \in DOMAIN match |->
                                 IF match[i].term \in TermsOf(from)
                                 THEN RowOf(from, match[i].term) ELSE match[i]]
    <2>4. kept(next) = kept(source)
        <3>1. ASSUME NEW i \in DOMAIN match
              PROVE  (IF match[i].term \in TermsOf(next) THEN RowOf(next, match[i].term) ELSE match[i])
                     = IF match[i].term \in TermsOf(source) THEN RowOf(source, match[i].term) ELSE match[i]
            <4>1. match[i].term # term
                BY <1>7 DEF TermsOf
            <4>2. match[i].term \in TermsOf(source)
                      => RowOf(next, match[i].term) = RowOf(source, match[i].term)
                BY <1>1, <4>1 DEF IsPushed
            <4> QED
                BY <1>2, <4>1, <4>2
        <3> QED
            BY <3>1
    <2>5. before = kept(source) \o Selected(source, NewRows(match, source))
        BY DEF Assign, NewRows
    <2>6. after = kept(next) \o Selected(next, NewRows(match, next))
        BY DEF Assign, NewRows
    <2>7. Selected(source, NewRows(match, source)) \in Seq(Row)
        BY <1>4, SelectedType
    <2>8. kept(source) \in Seq(Row)
        <3>1. ASSUME NEW i \in 1 .. n PROVE kept(source)[i] \in Row
            <4>1. CASE match[i].term \in TermsOf(source)
                <5>1. \E k \in DOMAIN source : RowOf(source, match[i].term) = source[k]
                    BY <4>1, RowAt
                <5> QED
                    BY <1>4, <4>1, <5>1
            <4>2. CASE match[i].term \notin TermsOf(source)
                BY <1>4, <4>2
            <4> QED
                BY <4>1, <4>2
        <3>2. kept(source) = [i \in 1 .. n |-> kept(source)[i]]
            BY <1>4
        <3> HIDE DEF kept
        <3> QED
            BY <1>4, <3>1, <3>2
    <2> HIDE DEF kept
    <2>9. after = Append(before, new)
        <3> DEFINE s == kept(source)
                   u == Selected(source, NewRows(match, source))
        <3>1. s \in Seq(Row) /\ u \in Seq(Row)
            BY <2>7, <2>8
        <3>2. before = s \o u /\ after = s \o Append(u, new)
            BY <2>3, <2>4, <2>5, <2>6
        <3> HIDE DEF s, u, before, after
        <3>3. s \o Append(u, new) = Append(s \o u, new)
            BY <2>1, <3>1
        <3> QED
            BY <3>2, <3>3
    <2>10. term \notin TermsOf(before)
        BY <1>3, <1>7 DEF RowsOf
    <2>11. new = [term |-> term, fields |-> {field}]
        BY <1>5, <1>7
    <2> HIDE DEF before, after
    <2>12. after = Recorded(before, term, field, term \in TermsOf(source))
        BY <2>9, <2>10, <2>11 DEF Recorded
    <2> QED
        BY <2>12 DEF after, before, next
<1> QED
    BY <1>6, <1>7

\* Assigning an empty match changes nothing.
LEMMA AssignNothing ==
    ASSUME NEW match \in Seq(Row)
    PROVE  Assign(match, <<>>) = match
<1>1. TermsOf(<<>>) = {} /\ {i \in DOMAIN <<>> : <<>>[i].term \notin TermsOf(match)} = {}
    BY DEF TermsOf
<1>2. [i \in DOMAIN match |->
          IF match[i].term \in TermsOf(<<>>) THEN RowOf(<<>>, match[i].term) ELSE match[i]] = match
    BY <1>1
<1>3. Selected(<<>>, {}) = <<>>
    BY SelectedNone
<1>4. match \o <<>> = match
    OBVIOUS
<1> QED
    BY <1>1, <1>2, <1>3, <1>4 DEF Assign

\* Assigning to an empty match copies the source.
LEMMA AssignToNothing ==
    ASSUME NEW source \in Seq(Row)
    PROVE  Assign(<<>>, source) = source
<1>1. TermsOf(<<>>) = {}
    BY DEF TermsOf
<1>2. {i \in DOMAIN source : source[i].term \notin TermsOf(<<>>)} = DOMAIN source
    BY <1>1
<1>3. Selected(source, DOMAIN source) = source
    BY SelectedAll
<1>4. [i \in DOMAIN <<>> |->
          IF <<>>[i].term \in TermsOf(source) THEN RowOf(source, <<>>[i].term) ELSE <<>>[i]] = <<>>
    OBVIOUS
<1>5. <<>> \o source = source
    OBVIOUS
<1> QED
    BY <1>2, <1>3, <1>4, <1>5 DEF Assign

\* No query term to add leaves the list as it is.
LEMMA UniqueNothing ==
    ASSUME NEW S, NEW s \in Seq(S)
    PROVE  AssignUnique(s, <<>>) = s
<1>1. {i \in DOMAIN <<>> : <<>>[i] \notin ToSet(s) /\ \A j \in 1 .. i - 1 : <<>>[j] # <<>>[i]} = {}
    OBVIOUS
<1>2. Selected(<<>>, {}) = <<>> /\ s \o <<>> = s
    BY SelectedNone
<1> QED
    BY <1>1, <1>2 DEF AssignUnique

\* The maps of combine_results name one query term per entry.
LEMMA UniqueOne ==
    ASSUME NEW S, NEW s \in Seq(S), NEW x \in S
    PROVE  AssignUnique(s, <<x>>) = IF x \in ToSet(s) THEN s ELSE Append(s, x)
<1> DEFINE at == {i \in DOMAIN <<x>> : <<x>>[i] \notin ToSet(s)
                                      /\ \A j \in 1 .. i - 1 : <<x>>[j] # <<x>>[i]}
<1>1. AssignUnique(s, <<x>>) = s \o Selected(<<x>>, at)
    BY DEF AssignUnique
<1>2. DOMAIN <<x>> = {1} /\ <<x>>[1] = x /\ <<x>> \in Seq(S) /\ 1 .. 1 - 1 = {}
    OBVIOUS
<1>3. CASE x \in ToSet(s)
    <2>1. at = {}
        BY <1>2, <1>3
    <2>2. Selected(<<x>>, {}) = <<>> /\ s \o <<>> = s
        BY SelectedNone
    <2> QED
        BY <1>1, <1>3, <2>1, <2>2
<1>4. CASE x \notin ToSet(s)
    <2>1. at = DOMAIN <<x>>
        BY <1>2, <1>4
    <2>2. Selected(<<x>>, DOMAIN <<x>>) = <<x>>
        BY <1>2, SelectedAll
    <2>3. s \o <<x>> = Append(s, x)
        OBVIOUS
    <2> QED
        BY <1>1, <1>4, <2>1, <2>2, <2>3
<1> QED
    BY <1>3, <1>4

----------------------------------------------------------------------------
(* record_term.                                                            *)

\* A document's rows, each with the last spec that reached it.
Noted(n) == [term : Terms, spec : 1 .. n, fields : SUBSET Fields]

\* The rows noted with spec n are those of the spec's own match.
Marks(noted, n, source) ==
    \A i \in DOMAIN noted : noted[i].spec = n <=> noted[i].term \in TermsOf(source)

\* The rows run_fused_query_with returns: the terms and fields record_term kept.
LEMMA FieldRowsType ==
    ASSUME NEW n \in Nat, NEW noted \in Seq(Noted(n))
    PROVE  /\ FieldRows(noted) \in Seq(Row) /\ Len(FieldRows(noted)) = Len(noted)
           /\ TermsOf(FieldRows(noted)) = TermsOf(noted)
<1>1. \A i \in 1 .. Len(noted) : noted[i] \in Noted(n)
    OBVIOUS
<1>2. \A i \in 1 .. Len(noted) :
          [term |-> noted[i].term, fields |-> noted[i].fields] \in Row
    BY <1>1 DEF Noted, Row
<1>3. FieldRows(noted) = [i \in 1 .. Len(noted) |->
          [term |-> noted[i].term, fields |-> noted[i].fields]]
    BY DEF FieldRows
<1>4. FieldRows(noted) \in Seq(Row) /\ Len(FieldRows(noted)) = Len(noted)
    BY <1>2, <1>3
<1>5. DOMAIN FieldRows(noted) = DOMAIN noted
      /\ \A i \in DOMAIN noted : FieldRows(noted)[i].term = noted[i].term
    BY <1>3
<1> QED
    BY <1>4, <1>5 DEF TermsOf

\* What record_term makes of a row's match: the term's fields start anew unless
\* this spec has written them, and the spec is noted with them.
IsRecorded(noted, n, hit, source, next) ==
    /\ next \in Seq(Noted(n))
    /\ FieldRows(next) = Recorded(FieldRows(noted), hit.term, hit.field, hit.term \in TermsOf(source))
    /\ \A i \in DOMAIN next :
           next[i].spec = n <=> next[i].term \in TermsOf(source) \cup {hit.term}

\* record_term keeps one row per term, and notes the current spec on the rows it
\* has written, and on no others.
LEMMA RecordTermStep ==
    ASSUME NEW noted \in Seq(Noted(Len(specs))), specs \in Seq(Nat), Len(specs) > 0,
           NEW hit \in Hit, NEW source, Marks(noted, Len(specs), source)
    PROVE  IsRecorded(noted, Len(specs), hit, source, RecordTerm(noted, hit))
<1> DEFINE n == Len(specs)
           next == RecordTerm(noted, hit)
           rows == FieldRows(noted)
<1>1. n \in Nat /\ n \in 1 .. n /\ Len(noted) \in Nat /\ DOMAIN noted = 1 .. Len(noted)
    OBVIOUS
<1>2. hit.term \in Terms /\ hit.field \in Fields
    BY DEF Hit
<1>3. \A i \in 1 .. Len(noted) : noted[i] \in Noted(n)
    OBVIOUS
<1>4. /\ rows \in Seq(Row) /\ Len(rows) = Len(noted) /\ TermsOf(rows) = TermsOf(noted)
      /\ DOMAIN rows = DOMAIN noted
    BY <1>1, FieldRowsType
<1>5. \A i \in 1 .. Len(noted) :
          rows[i] = [term |-> noted[i].term, fields |-> noted[i].fields]
    BY DEF FieldRows
<1>6. CASE hit.term \in TermsOf(noted)
    <2> DEFINE upd(i) == [term |-> hit.term, spec |-> n, fields |-> {hit.field} \cup
                             IF noted[i].spec = n THEN noted[i].fields ELSE {}]
    <2>1. next = [i \in DOMAIN noted |->
                     IF noted[i].term # hit.term THEN noted[i] ELSE upd(i)]
        BY <1>6 DEF RecordTerm
    <2>2. \A i \in 1 .. Len(noted) : upd(i) \in Noted(n)
        BY <1>1, <1>2, <1>3 DEF Noted
    <2>3. \A i \in 1 .. Len(noted) : upd(i).term = hit.term /\ upd(i).spec = n
              /\ upd(i).fields = {hit.field} \cup IF noted[i].spec = n THEN noted[i].fields ELSE {}
        OBVIOUS
    <2> HIDE DEF upd, next, rows
    <2>4. next \in Seq(Noted(n)) /\ DOMAIN next = DOMAIN noted /\ Len(next) = Len(noted)
        <3>1. next = [i \in 1 .. Len(noted) |-> next[i]]
            BY <1>1, <2>1
        <3>2. \A i \in 1 .. Len(noted) : next[i] \in Noted(n)
            BY <1>1, <1>3, <2>1, <2>2
        <3> QED
            BY <1>1, <3>1, <3>2
    <2>5. ASSUME NEW i \in DOMAIN next
          PROVE  next[i].spec = n <=> next[i].term \in TermsOf(source) \cup {hit.term}
        <3>1. CASE noted[i].term = hit.term
            BY <1>1, <2>1, <2>3, <2>4, <3>1
        <3>2. CASE noted[i].term # hit.term
            BY <1>1, <2>1, <2>4, <3>2 DEF Marks
        <3> QED
            BY <3>1, <3>2
    <2>6. ASSUME NEW i \in 1 .. Len(noted)
          PROVE  [term |-> next[i].term, fields |-> next[i].fields] =
                     IF rows[i].term = hit.term
                     THEN [term |-> hit.term, fields |-> {hit.field} \cup
                              IF hit.term \in TermsOf(source) THEN rows[i].fields ELSE {}]
                     ELSE rows[i]
        <3>0. rows[i] = [term |-> noted[i].term, fields |-> noted[i].fields]
            BY <1>5
        <3>1. rows[i].term = noted[i].term /\ rows[i].fields = noted[i].fields
            BY <3>0
        <3>2. CASE noted[i].term = hit.term
            <4>1. noted[i].spec = n <=> hit.term \in TermsOf(source)
                BY <1>1, <3>2 DEF Marks
            <4>2. next[i].term = hit.term /\ next[i].fields =
                     {hit.field} \cup IF noted[i].spec = n THEN noted[i].fields ELSE {}
                BY <1>1, <2>1, <2>3, <3>2
            <4> QED
                BY <3>1, <3>2, <4>1, <4>2
        <3>3. CASE noted[i].term # hit.term
            <4>1. next[i] = noted[i]
                BY <1>1, <2>1, <3>3
            <4> QED
                BY <1>5, <3>1, <3>3, <4>1
        <3> QED
            BY <3>2, <3>3
    <2>7. FieldRows(next) = [i \in 1 .. Len(noted) |->
                                [term |-> next[i].term, fields |-> next[i].fields]]
        BY <1>1, <2>4 DEF FieldRows
    <2>8. hit.term \in TermsOf(rows)
        BY <1>4, <1>6
    <2>9. FieldRows(next) = Recorded(rows, hit.term, hit.field, hit.term \in TermsOf(source))
        BY <1>1, <1>4, <2>6, <2>7, <2>8 DEF Recorded
    <2>10. IsRecorded(noted, n, hit, source, next)
        BY <2>4, <2>5, <2>9 DEF IsRecorded, rows
    <2> QED
        BY <2>10 DEF next
<1>7. CASE hit.term \notin TermsOf(noted)
    <2> DEFINE e == [term |-> hit.term, spec |-> n, fields |-> {hit.field}]
    <2>1. next = Append(noted, e)
        BY <1>7 DEF RecordTerm
    <2>2. e \in Noted(n) /\ e.term = hit.term /\ e.spec = n /\ e.fields = {hit.field}
        BY <1>1, <1>2 DEF Noted
    <2> DEFINE k == Len(noted)
    <2> HIDE DEF e, next, rows
    <2>3. next \in Seq(Noted(n)) /\ DOMAIN next = 1 .. k + 1 /\ next[k + 1] = e
          /\ k \in Nat /\ \A i \in 1 .. k : next[i] = noted[i]
        BY <2>1, <2>2
    <2>4. \A i \in 1 .. k : noted[i].term # hit.term
        BY <1>1, <1>7 DEF TermsOf
    <2>5. ASSUME NEW i \in DOMAIN next
          PROVE  next[i].spec = n <=> next[i].term \in TermsOf(source) \cup {hit.term}
        <3>1. CASE i = k + 1
            BY <2>2, <2>3, <3>1
        <3>2. CASE i # k + 1
            <4>1. i \in 1 .. k
                BY <2>3, <3>2
            <4> QED
                BY <1>1, <2>3, <2>4, <4>1 DEF Marks
        <3> QED
            BY <3>1, <3>2
    <2>6. FieldRows(next) = Append(rows, [term |-> hit.term, fields |-> {hit.field}])
        <3> DEFINE r == [term |-> hit.term, fields |-> {hit.field}]
        <3>1. FieldRows(next) = [i \in 1 .. k + 1 |->
                  [term |-> next[i].term, fields |-> next[i].fields]]
            BY <2>3 DEF FieldRows
        <3>2. \A i \in 1 .. k : [term |-> next[i].term, fields |-> next[i].fields] = rows[i]
            BY <1>5, <2>3
        <3>3. [term |-> next[k + 1].term, fields |-> next[k + 1].fields] = r
            BY <2>2, <2>3
        <3>4. Append(rows, r) = [i \in 1 .. k + 1 |-> IF i = k + 1 THEN r ELSE rows[i]]
            BY <1>4, <2>3
        <3> HIDE DEF r
        <3>5. \A i \in 1 .. k + 1 : [term |-> next[i].term, fields |-> next[i].fields]
                                       = IF i = k + 1 THEN r ELSE rows[i]
            <4>1. \A i \in 1 .. k + 1 : i = k + 1 \/ i \in 1 .. k
                BY <2>3
            <4>2. k + 1 \notin 1 .. k
                BY <2>3
            <4> HIDE DEF k
            <4> QED
                BY <3>2, <3>3, <4>1, <4>2
        <3> QED
            BY <3>1, <3>4, <3>5 DEF r
    <2>7. FieldRows(next) = Recorded(rows, hit.term, hit.field, hit.term \in TermsOf(source))
        BY <1>4, <1>7, <2>6 DEF Recorded
    <2>8. IsRecorded(noted, n, hit, source, next)
        BY <2>3, <2>5, <2>7 DEF IsRecorded, rows
    <2> QED
        BY <2>8 DEF next
<1> QED
    BY <1>6, <1>7

----------------------------------------------------------------------------
(* Maps: entries keyed by document.                                        *)

\* A posting as a part of a score, an entry of a map, and a map keyed by document.
Posting == [term : Terms, field : Fields]

Entry == [doc : Docs, score : Seq(Seq(Posting)), terms : Seq(Nat), match : Seq(Row)]

IsMap(map) ==
    /\ map \in Seq(Entry)
    /\ \A i, j \in DOMAIN map : map[i].doc = map[j].doc => i = j
    /\ \A i \in DOMAIN map : OneRowPerTerm(map[i].match)

\* The documents of a map in its order.
DocSeq(map) == [i \in DOMAIN map |-> map[i].doc]

\* What a map holds for a document: nothing yet, if it has no entry.
Blank(d) == [doc |-> d, score |-> <<>>, terms |-> <<>>, match |-> <<>>]
\* What a map holds for a document, blank when it has no entry.
Held(map, d) == IF d \in DocsOf(map) THEN EntryOf(map, d) ELSE Blank(d)

\* A document of a map is at some entry of it.
LEMMA EntryAt ==
    ASSUME NEW map, NEW d \in DocsOf(map)
    PROVE  \E i \in DOMAIN map : map[i].doc = d /\ EntryOf(map, d) = map[i]
<1> DEFINE j == CHOOSE k \in DOMAIN map : map[k].doc = d
<1>1. \E k \in DOMAIN map : map[k].doc = d
    BY DEF DocsOf
<1>2. j \in DOMAIN map /\ map[j].doc = d
    BY <1>1
<1>3. EntryOf(map, d) = map[j]
    BY DEF EntryOf
<1> HIDE DEF j
<1> QED
    BY <1>2, <1>3

\* Looking up the document of an entry finds that entry.
LEMMA EntryFound ==
    ASSUME NEW map, IsMap(map), NEW i \in DOMAIN map
    PROVE  EntryOf(map, map[i].doc) = map[i] /\ map[i].doc \in DocsOf(map)
<1>1. map[i].doc \in DocsOf(map)
    BY DEF DocsOf
<1>2. PICK j \in DOMAIN map : map[j].doc = map[i].doc /\ EntryOf(map, map[i].doc) = map[j]
    BY <1>1, EntryAt
<1>3. j = i
    BY <1>2 DEF IsMap
<1> QED
    BY <1>1, <1>2, <1>3

\* What an entry is.
IsEntry(e, d) == e \in Entry /\ OneRowPerTerm(e.match) /\ e.doc = d

\* What a map holds for a document is an entry of that document.
LEMMA HeldType ==
    ASSUME NEW map, IsMap(map), NEW d \in Docs
    PROVE  IsEntry(Held(map, d), d)
<1>1. CASE d \in DocsOf(map)
    <2>1. PICK i \in DOMAIN map : map[i].doc = d /\ EntryOf(map, d) = map[i]
        BY <1>1, EntryAt
    <2>2. map \in Seq(Entry) /\ OneRowPerTerm(map[i].match)
        BY DEF IsMap
    <2>3. map[i] \in Entry
        BY <2>2
    <2> QED
        BY <1>1, <2>1, <2>2, <2>3 DEF IsEntry, Held
<1>2. CASE d \notin DocsOf(map)
    <2>1. <<>> \in Seq(Seq(Posting)) /\ <<>> \in Seq(Nat) /\ <<>> \in Seq(Row)
        OBVIOUS
    <2>2. Blank(d) \in Entry /\ Blank(d).doc = d /\ Blank(d).match = <<>>
        BY <2>1 DEF Blank, Entry
    <2>3. OneRowPerTerm(<<>>)
        BY DEF OneRowPerTerm
    <2> QED
        BY <1>2, <2>2, <2>3 DEF IsEntry, Held
<1> QED
    BY <1>1, <1>2

\* assign_unique_many returns query terms.
LEMMA UniqueType ==
    ASSUME NEW S, NEW s \in Seq(S), NEW t \in Seq(S)
    PROVE  AssignUnique(s, t) \in Seq(S)
<1> DEFINE at == {i \in DOMAIN t : t[i] \notin ToSet(s) /\ \A j \in 1 .. i - 1 : t[j] # t[i]}
<1>1. at \in SUBSET DOMAIN t
    OBVIOUS
<1>2. AssignUnique(s, t) = s \o Selected(t, at)
    BY DEF AssignUnique
<1> HIDE DEF at
<1>3. Selected(t, at) \in Seq(S)
    BY <1>1, SelectedType
<1> QED
    BY <1>2, <1>3

\* Two entries of a document merge into one of that document.
LEMMA MergedType ==
    ASSUME NEW d, NEW old, IsEntry(old, d), NEW new, IsEntry(new, d)
    PROVE  IsEntry(Merged(old, new), d)
<1>1. /\ old \in [doc : Docs, score : Seq(Seq(Posting)), terms : Seq(Nat), match : Seq(Row)]
      /\ new \in [doc : Docs, score : Seq(Seq(Posting)), terms : Seq(Nat), match : Seq(Row)]
      /\ OneRowPerTerm(old.match) /\ OneRowPerTerm(new.match) /\ old.doc = d /\ new.doc = d
    BY DEF IsEntry, Entry
<1>3. old.score \o new.score \in Seq(Seq(Posting))
    BY <1>1
<1>4. AssignUnique(old.terms, new.terms) \in Seq(Nat)
    BY <1>1, UniqueType
<1>5. Assign(old.match, new.match) \in Seq(Row) /\ RowsOf(old.match, new.match, Assign(old.match, new.match))
    BY <1>1, AssignRows
<1> QED
    BY <1>1, <1>3, <1>4, <1>5 DEF IsEntry, Merged, Entry, RowsOf

\* Merging a blank entry in changes nothing.
LEMMA MergedBlank ==
    ASSUME NEW d, NEW old, IsEntry(old, d)
    PROVE  Merged(old, Blank(d)) = old
<1>1. /\ old \in [doc : Docs, score : Seq(Seq(Posting)), terms : Seq(Nat), match : Seq(Row)]
      /\ old.doc = d
    BY DEF IsEntry, Entry
<1>2. old.score \in Seq(Seq(Posting)) /\ old.terms \in Seq(Nat) /\ old.match \in Seq(Row)
    BY <1>1
<1>3. old.score \o <<>> = old.score
    BY <1>2
<1>4. AssignUnique(old.terms, <<>>) = old.terms
    BY <1>2, UniqueNothing
<1>5. Assign(old.match, <<>>) = old.match
    BY <1>2, AssignNothing
<1>6. /\ Blank(d).score = <<>> /\ Blank(d).terms = <<>> /\ Blank(d).match = <<>>
    BY DEF Blank
<1>7. old = [doc |-> old.doc, score |-> old.score, terms |-> old.terms, match |-> old.match]
    BY <1>1
<1> QED
    BY <1>3, <1>4, <1>5, <1>6, <1>7 DEF Merged

\* Merging into a blank entry gives the entry, when it has one query term.
LEMMA BlankMerged ==
    ASSUME NEW d, NEW new, IsEntry(new, d), NEW slot \in Nat, new.terms = <<slot>>
    PROVE  Merged(Blank(d), new) = new
<1>1. /\ new \in [doc : Docs, score : Seq(Seq(Posting)), terms : Seq(Nat), match : Seq(Row)]
      /\ new.doc = d
    BY DEF IsEntry, Entry
<1>2. new.score \in Seq(Seq(Posting)) /\ new.match \in Seq(Row)
    BY <1>1
<1>3. <<>> \o new.score = new.score
    BY <1>2
<1>4. AssignUnique(<<>>, <<slot>>) = <<slot>>
    <2>1. <<>> \in Seq(Nat) /\ Append(<<>>, slot) = <<slot>>
        OBVIOUS
    <2>2. slot \notin ToSet(<<>>)
        BY ToSetEmpty
    <2>3. AssignUnique(<<>>, <<slot>>) = IF slot \in ToSet(<<>>) THEN <<>> ELSE Append(<<>>, slot)
        BY <2>1, UniqueOne
    <2> QED
        BY <2>1, <2>2, <2>3
<1>5. Assign(<<>>, new.match) = new.match
    BY <1>2, AssignToNothing
<1>6. /\ Blank(d).score = <<>> /\ Blank(d).terms = <<>> /\ Blank(d).match = <<>> /\ Blank(d).doc = d
    BY DEF Blank
<1>7. new = [doc |-> new.doc, score |-> new.score, terms |-> new.terms, match |-> new.match]
    BY <1>1
<1> QED
    BY <1>1, <1>3, <1>4, <1>5, <1>6, <1>7 DEF Merged

----------------------------------------------------------------------------
(* The documents of a map, in their order.                                 *)

\* No element occurs twice.
Distinct(s) == \A i, j \in DOMAIN s : s[i] = s[j] => i = j

\* A filter of a list without repetitions has none.
LEMMA SelectedDistinct ==
    ASSUME NEW S, NEW s \in Seq(S), Distinct(s), NEW at \in SUBSET DOMAIN s
    PROVE  /\ Selected(s, at) \in Seq(S) /\ Distinct(Selected(s, at))
           /\ ToSet(Selected(s, at)) = {s[i] : i \in at}
<1>0. Len(s) \in Nat /\ at \in SUBSET (1 .. Len(s)) /\ DOMAIN s = 1 .. Len(s)
    OBVIOUS
<1>q. PICK q \in Nat : \E f : Lists(at, q, f)
    BY <1>0, SelectedLists
<1>1. PICK f : Lists(at, q, f)
    BY <1>q
<1>2. Selected(s, at) = [k \in 1 .. q |-> s[f[k]]]
    <2>1. Follows(s, at, q, f)
        BY <1>0, <1>1, SelectedIs
    <2> QED
        BY <2>1 DEF Follows
<1>3. /\ \A k \in 1 .. q : f[k] \in at /\ f[k] \in 1 .. Len(s)
      /\ \A k, l \in 1 .. q : f[k] = f[l] => k = l
    BY <1>0, <1>1, ListsFacts
<1>4. \A i \in at : \E k \in 1 .. q : f[k] = i
    BY <1>1 DEF Lists
<1>5. Selected(s, at) \in Seq(S) /\ Distinct(Selected(s, at))
    <2>1. Selected(s, at) \in Seq(S)
        BY SelectedType
    <2>2. ASSUME NEW k \in 1 .. q, NEW l \in 1 .. q, s[f[k]] = s[f[l]]
          PROVE  k = l
        <3>1. f[k] = f[l]
            BY <1>0, <1>3, <2>2 DEF Distinct
        <3> QED
            BY <1>3, <3>1
    <2> QED
        BY <1>2, <2>1, <2>2 DEF Distinct
<1>6. ToSet(Selected(s, at)) = {s[i] : i \in at}
    <2>1. ToSet(Selected(s, at)) = {s[f[k]] : k \in 1 .. q}
        BY <1>2 DEF ToSet
    <2> QED
        BY <1>3, <1>4, <2>1
<1> QED
    BY <1>5, <1>6

\* Two disjoint lists without repetitions make one.
LEMMA JoinDistinct ==
    ASSUME NEW S, NEW s \in Seq(S), NEW t \in Seq(S), Distinct(s), Distinct(t),
           ToSet(s) \cap ToSet(t) = {}
    PROVE  /\ s \o t \in Seq(S) /\ Distinct(s \o t)
           /\ ToSet(s \o t) = ToSet(s) \cup ToSet(t)
<1> DEFINE n == Len(s)
           m == Len(t)
           r == s \o t
<1>1. n \in Nat /\ m \in Nat /\ DOMAIN s = 1 .. n /\ DOMAIN t = 1 .. m
    OBVIOUS
<1>2. r \in Seq(S) /\ Joined(s, t, r)
    BY Concatenated
<1> HIDE DEF r
<1>3. /\ DOMAIN r = 1 .. n + m
      /\ \A i \in 1 .. n : r[i] = s[i]
      /\ \A k \in 1 .. m : r[n + k] = t[k]
    BY <1>1, <1>2 DEF Joined
<1>4. ASSUME NEW i \in 1 .. n + m, i \notin 1 .. n
      PROVE  i - n \in 1 .. m /\ r[i] = t[i - n]
    <2>1. i - n \in 1 .. m /\ i = n + (i - n)
        BY <1>1, <1>4
    <2> QED
        BY <1>3, <2>1
<1>5. ASSUME NEW i \in 1 .. n + m, NEW j \in 1 .. n + m, r[i] = r[j]
      PROVE  i = j
    <2>1. CASE i \in 1 .. n /\ j \in 1 .. n
        BY <1>1, <1>3, <1>5, <2>1 DEF Distinct
    <2>2. CASE i \notin 1 .. n /\ j \notin 1 .. n
        <3>1. t[i - n] = t[j - n] /\ i - n \in 1 .. m /\ j - n \in 1 .. m
            BY <1>4, <1>5, <2>2
        <3>2. i - n = j - n
            BY <1>1, <3>1 DEF Distinct
        <3> QED
            BY <1>1, <3>2
    <2>3. CASE i \in 1 .. n /\ j \notin 1 .. n
        <3>1. s[i] = t[j - n] /\ s[i] \in ToSet(s) /\ t[j - n] \in ToSet(t)
            BY <1>1, <1>3, <1>4, <1>5, <2>3 DEF ToSet
        <3> QED
            BY <3>1
    <2>4. CASE i \notin 1 .. n /\ j \in 1 .. n
        <3>1. t[i - n] = s[j] /\ s[j] \in ToSet(s) /\ t[i - n] \in ToSet(t)
            BY <1>1, <1>3, <1>4, <1>5, <2>4 DEF ToSet
        <3> QED
            BY <3>1
    <2> QED
        BY <2>1, <2>2, <2>3, <2>4
<1>6. ToSet(r) = ToSet(s) \cup ToSet(t)
    <2>1. ASSUME NEW x \in ToSet(r) PROVE x \in ToSet(s) \cup ToSet(t)
        <3>1. PICK i \in 1 .. n + m : r[i] = x
            BY <1>3 DEF ToSet
        <3> QED
            BY <1>1, <1>3, <1>4, <3>1 DEF ToSet
    <2>2. ASSUME NEW x \in ToSet(s) PROVE x \in ToSet(r)
        <3>1. PICK i \in 1 .. n : s[i] = x
            BY <1>1 DEF ToSet
        <3>2. i \in DOMAIN r /\ r[i] = x
            BY <1>1, <1>3, <3>1
        <3> QED
            BY <3>2 DEF ToSet
    <2>3. ASSUME NEW x \in ToSet(t) PROVE x \in ToSet(r)
        <3>1. PICK i \in 1 .. m : t[i] = x
            BY <1>1 DEF ToSet
        <3>2. n + i \in DOMAIN r /\ r[n + i] = x
            BY <1>1, <1>3, <3>1
        <3> QED
            BY <3>2 DEF ToSet
    <2> QED
        BY <2>1, <2>2, <2>3
<1>7. Distinct(r)
    BY <1>3, <1>5 DEF Distinct
<1> QED
    BY <1>2, <1>6, <1>7 DEF r

\* The documents of a map: each once.
LEMMA DocSeqFacts ==
    ASSUME NEW map, IsMap(map)
    PROVE  /\ DocSeq(map) \in Seq(Docs) /\ Distinct(DocSeq(map))
           /\ ToSet(DocSeq(map)) = DocsOf(map) /\ DOMAIN DocSeq(map) = DOMAIN map
           /\ DocsOf(map) \in SUBSET Docs
<1>1. map \in Seq(Entry) /\ \A i \in DOMAIN map : map[i] \in Entry /\ map[i].doc \in Docs
    <2>1. map \in Seq(Entry)
        BY DEF IsMap
    <2>2. \A i \in DOMAIN map : map[i] \in Entry
        BY <2>1
    <2> QED
        BY <2>1, <2>2 DEF Entry
<1>2. DocSeq(map) \in Seq(Docs)
    <2>1. DocSeq(map) = [i \in 1 .. Len(map) |-> map[i].doc]
        BY <1>1 DEF DocSeq
    <2> QED
        BY <1>1, <2>1
<1>3. Distinct(DocSeq(map))
    BY DEF IsMap, Distinct, DocSeq
<1>4. ToSet(DocSeq(map)) = DocsOf(map)
    BY DEF ToSet, DocSeq, DocsOf
<1>5. DOMAIN DocSeq(map) = DOMAIN map
    BY DEF DocSeq
<1>6. DocsOf(map) \in SUBSET Docs
    BY <1>1 DEF DocsOf
<1> QED
    BY <1>2, <1>3, <1>4, <1>5, <1>6

\* A map with an entry for each of some documents, in their order.
IsMapOf(map, docs, entry) ==
    /\ IsMap(map) /\ DocSeq(map) = docs /\ DocsOf(map) = ToSet(docs)
    /\ \A d \in ToSet(docs) : EntryOf(map, d) = entry[d]

\* A list of distinct documents and an entry for each make a map.
LEMMA MapFromDocs ==
    ASSUME NEW docs \in Seq(Docs), Distinct(docs), NEW entry,
           \A d \in ToSet(docs) : IsEntry(entry[d], d)
    PROVE  IsMapOf([i \in DOMAIN docs |-> entry[docs[i]]], docs, entry)
<1> DEFINE map == [i \in DOMAIN docs |-> entry[docs[i]]]
<1>1. \A i \in DOMAIN docs : docs[i] \in ToSet(docs)
    BY DEF ToSet
<1>2. \A i \in DOMAIN docs : map[i] = entry[docs[i]]
    OBVIOUS
<1>3. DOMAIN map = DOMAIN docs /\ DOMAIN docs = 1 .. Len(docs) /\ Len(docs) \in Nat
      /\ map = [i \in 1 .. Len(docs) |-> map[i]]
    OBVIOUS
<1> HIDE DEF map
<1>4. \A i \in DOMAIN docs : map[i] \in Entry /\ OneRowPerTerm(map[i].match) /\ map[i].doc = docs[i]
    BY <1>1, <1>2 DEF IsEntry
<1>5. IsMap(map)
    <2>1. map \in Seq(Entry)
        BY <1>3, <1>4
    <2> QED
        BY <1>3, <1>4, <2>1 DEF IsMap, Distinct
<1>6. DocSeq(map) = docs
    <2>1. DocSeq(map) = [i \in 1 .. Len(docs) |-> docs[i]]
        BY <1>3, <1>4 DEF DocSeq
    <2> QED
        BY <2>1
<1>7. DocsOf(map) = ToSet(docs)
    BY <1>3, <1>4 DEF DocsOf, ToSet
<1>8. ASSUME NEW d \in ToSet(docs)
      PROVE  EntryOf(map, d) = entry[d]
    <2>1. PICK i \in DOMAIN docs : docs[i] = d
        BY DEF ToSet
    <2>2. EntryOf(map, map[i].doc) = map[i]
        BY <1>3, <1>5, <2>1, EntryFound
    <2> QED
        BY <1>2, <1>4, <2>1, <2>2
<1> QED
    BY <1>5, <1>6, <1>7, <1>8 DEF IsMapOf, map

----------------------------------------------------------------------------
(* The merges of combine_results.                                          *)

\* OR: where the new documents are, the order of the merged map, and its entries.
NewDocs(left, map) == {i \in DOMAIN map : map[i].doc \notin DocsOf(left)}

OrDocs(left, map) == DocSeq(left) \o Selected(DocSeq(map), NewDocs(left, map))

EntrySums(left, map) == [d \in Docs |-> Merged(Held(left, d), Held(map, d))]

\* A spec's map: one addition and one query term per document.
IsSpecMap(map, slot) ==
    /\ IsMap(map)
    /\ \A i \in DOMAIN map : Len(map[i].score) = 1 /\ map[i].terms = <<slot>>

\* Filtering a map is filtering its documents.
LEMMA SelectedDocs ==
    ASSUME NEW map, IsMap(map), NEW at \in SUBSET DOMAIN map
    PROVE  Selected(map, at) = [k \in DOMAIN Selected(DocSeq(map), at) |->
                                   EntryOf(map, Selected(DocSeq(map), at)[k])]
<1>1. map \in Seq(Entry) /\ Len(map) \in Nat /\ DOMAIN map = 1 .. Len(map)
    BY DEF IsMap
<1>2. at \in SUBSET (1 .. Len(map))
    BY <1>1
<1>q. PICK q \in Nat : \E f : Lists(at, q, f)
    BY <1>1, <1>2, SelectedLists
<1>3. PICK f : Lists(at, q, f)
    BY <1>q
<1>4. Selected(map, at) = [k \in 1 .. q |-> map[f[k]]]
    <2>1. Follows(map, at, q, f)
        BY <1>1, <1>2, <1>3, SelectedIs
    <2> QED
        BY <2>1 DEF Follows
<1>5. Selected(DocSeq(map), at) = [k \in 1 .. q |-> DocSeq(map)[f[k]]]
    <2>1. Follows(DocSeq(map), at, q, f)
        BY <1>1, <1>2, <1>3, SelectedIs
    <2> QED
        BY <2>1 DEF Follows
<1>6. \A k \in 1 .. q : f[k] \in DOMAIN map
    BY <1>1, <1>2, <1>3 DEF Lists
<1>7. \A k \in 1 .. q : DocSeq(map)[f[k]] = map[f[k]].doc
    BY <1>6 DEF DocSeq
<1>8. \A k \in 1 .. q : EntryOf(map, map[f[k]].doc) = map[f[k]]
    BY <1>6, EntryFound
<1> QED
    BY <1>4, <1>5, <1>7, <1>8

\* The documents of a union, in the order they were first met.
LEMMA OrDocsFacts ==
    ASSUME NEW left, IsMap(left), NEW map, IsMap(map)
    PROVE  /\ OrDocs(left, map) \in Seq(Docs) /\ Distinct(OrDocs(left, map))
           /\ ToSet(OrDocs(left, map)) = DocsOf(left) \cup DocsOf(map)
<1> DEFINE old == DocSeq(left)
           own == DocSeq(map)
           at == NewDocs(left, map)
           added == Selected(own, at)
<1>1. /\ old \in Seq(Docs) /\ Distinct(old) /\ ToSet(old) = DocsOf(left)
    BY DocSeqFacts
<1>2. /\ own \in Seq(Docs) /\ Distinct(own) /\ ToSet(own) = DocsOf(map) /\ DOMAIN own = DOMAIN map
    BY DocSeqFacts
<1>3. at \in SUBSET DOMAIN own
    BY <1>2 DEF NewDocs
<1>4. {own[i] : i \in at} = DocsOf(map) \ DocsOf(left)
    BY DEF NewDocs, DocSeq, DocsOf
<1> HIDE DEF old, own, at
<1>5. added \in Seq(Docs) /\ Distinct(added) /\ ToSet(added) = {own[i] : i \in at}
    BY <1>2, <1>3, SelectedDistinct
<1> HIDE DEF added
<1>6. ToSet(old) \cap ToSet(added) = {}
    BY <1>1, <1>4, <1>5
<1>7. old \o added \in Seq(Docs) /\ Distinct(old \o added)
      /\ ToSet(old \o added) = ToSet(old) \cup ToSet(added)
    BY <1>1, <1>5, <1>6, JoinDistinct
<1>8. OrDocs(left, map) = old \o added
    BY DEF OrDocs, old, added, own, at
<1> QED
    BY <1>1, <1>4, <1>5, <1>7, <1>8

\* The merged entries are entries.
LEMMA EntrySumsType ==
    ASSUME NEW left, IsMap(left), NEW map, IsMap(map), NEW d \in Docs
    PROVE  IsEntry(EntrySums(left, map)[d], d)
           /\ EntrySums(left, map)[d] = Merged(Held(left, d), Held(map, d))
<1>1. IsEntry(Held(left, d), d) /\ IsEntry(Held(map, d), d)
    BY HeldType
<1>2. IsEntry(Merged(Held(left, d), Held(map, d)), d)
    BY <1>1, MergedType
<1> QED
    BY <1>2 DEF EntrySums

\* One entry for each document of a list.
GoesWith(list, docs, entry) == list = [i \in DOMAIN docs |-> entry[docs[i]]]

\* Entries that go with the documents of two lists go with those of the joined one.
LEMMA JoinMapped ==
    ASSUME NEW S, NEW s \in Seq(S), NEW t \in Seq(S), NEW T, NEW a \in Seq(T), NEW b \in Seq(T),
           NEW g, GoesWith(a, s, g), GoesWith(b, t, g)
    PROVE  GoesWith(a \o b, s \o t, g)
<1> DEFINE n == Len(s)
           m == Len(t)
           r == s \o t
           c == a \o b
<1>1. n \in Nat /\ m \in Nat /\ DOMAIN s = 1 .. n /\ DOMAIN t = 1 .. m
    OBVIOUS
<1>0. /\ Len(a) = n /\ Len(b) = m
      /\ \A i \in 1 .. n : a[i] = g[s[i]]
      /\ \A i \in 1 .. m : b[i] = g[t[i]]
    BY <1>1 DEF GoesWith
<1>2. r \in Seq(S) /\ Joined(s, t, r)
    BY Concatenated
<1>3. c \in Seq(T) /\ Joined(a, b, c)
    BY Concatenated
<1> HIDE DEF r, c
<1>4. /\ DOMAIN r = 1 .. n + m
      /\ \A i \in 1 .. n : r[i] = s[i]
      /\ \A k \in 1 .. m : r[n + k] = t[k]
    BY <1>1, <1>2 DEF Joined
<1>5. /\ DOMAIN c = 1 .. n + m
      /\ \A i \in 1 .. n : c[i] = a[i]
      /\ \A k \in 1 .. m : c[n + k] = b[k]
    BY <1>0, <1>1, <1>3 DEF Joined
<1>6. ASSUME NEW i \in 1 .. n + m
      PROVE  c[i] = g[r[i]]
    <2>1. CASE i \in 1 .. n
        BY <1>0, <1>1, <1>4, <1>5, <2>1
    <2>2. CASE i \notin 1 .. n
        <3>1. i - n \in 1 .. m /\ i = n + (i - n)
            BY <1>1, <2>2
        <3>2. c[n + (i - n)] = b[i - n] /\ r[n + (i - n)] = t[i - n]
            BY <1>4, <1>5, <3>1
        <3>3. b[i - n] = g[t[i - n]]
            BY <1>0, <3>1
        <3> QED
            BY <3>1, <3>2, <3>3
    <2> QED
        BY <2>1, <2>2
<1>7. c = [i \in 1 .. n + m |-> c[i]]
    <2>1. c = [i \in 1 .. Len(c) |-> c[i]] /\ DOMAIN c = 1 .. Len(c)
        BY <1>3
    <2> QED
        BY <1>5, <2>1
<1>8. c = [i \in DOMAIN r |-> g[r[i]]]
    BY <1>4, <1>6, <1>7
<1> QED
    BY <1>8 DEF GoesWith, r, c

\* combine_results for OR, in terms of documents: the left map's in its order,
\* then the right map's new ones, each with the sum of its two entries.
LEMMA MergedOrIs ==
    ASSUME NEW left, IsMap(left), NEW slot \in Nat, NEW map, IsSpecMap(map, slot)
    PROVE  IsMapOf(MergedOr(left, map), OrDocs(left, map), EntrySums(left, map))
<1> DEFINE docs == OrDocs(left, map)
           sums == EntrySums(left, map)
           old == DocSeq(left)
           at == NewDocs(left, map)
           added == Selected(DocSeq(map), at)
           kept == [i \in DOMAIN left |->
                       IF left[i].doc \in DocsOf(map)
                       THEN Merged(left[i], EntryOf(map, left[i].doc)) ELSE left[i]]
           extra == Selected(map, at)
<1>0. IsMap(map) /\ left \in Seq(Entry) /\ map \in Seq(Entry)
    BY DEF IsSpecMap, IsMap
<1>1. docs \in Seq(Docs) /\ Distinct(docs) /\ ToSet(docs) = DocsOf(left) \cup DocsOf(map)
    BY <1>0, OrDocsFacts
<1>2. \A d \in Docs : IsEntry(sums[d], d) /\ sums[d] = Merged(Held(left, d), Held(map, d))
    BY <1>0, EntrySumsType
<1>3. /\ old \in Seq(Docs) /\ DOMAIN old = DOMAIN left /\ Len(old) = Len(left)
      /\ ToSet(old) = DocsOf(left) /\ DocsOf(left) \in SUBSET Docs
    <2>1. /\ old \in Seq(Docs) /\ DOMAIN old = DOMAIN left
          /\ ToSet(old) = DocsOf(left) /\ DocsOf(left) \in SUBSET Docs
        BY DocSeqFacts
    <2> QED
        BY <1>0, <2>1
<1>4. DocSeq(map) \in Seq(Docs) /\ DOMAIN DocSeq(map) = DOMAIN map /\ DocsOf(map) \in SUBSET Docs
    BY <1>0, DocSeqFacts
<1>5. at \in SUBSET DOMAIN map /\ at \in SUBSET DOMAIN DocSeq(map)
    BY <1>4 DEF NewDocs
<1>6. added \in Seq(Docs) /\ Holds(DocSeq(map), at, added)
    BY <1>4, <1>5, SelectedType
<1>7. extra = [k \in DOMAIN added |-> EntryOf(map, added[k])]
    BY <1>0, <1>5, SelectedDocs
<1>8. ASSUME NEW i \in DOMAIN left
      PROVE  kept[i] = sums[old[i]]
    <2> DEFINE d == left[i].doc
    <2>1. old[i] = d /\ d \in Docs /\ d \in DocsOf(left)
        BY <1>3 DEF DocSeq, DocsOf
    <2>2. EntryOf(left, d) = left[i]
        BY EntryFound
    <2>3. Held(left, d) = left[i]
        BY <2>1, <2>2 DEF Held
    <2>4. IsEntry(left[i], d)
        BY <2>1, <2>3, HeldType
    <2>5. CASE d \in DocsOf(map)
        BY <1>2, <2>1, <2>3, <2>5 DEF Held
    <2>6. CASE d \notin DocsOf(map)
        <3>1. Merged(left[i], Blank(d)) = left[i]
            BY <2>4, MergedBlank
        <3> QED
            BY <1>2, <2>1, <2>3, <2>6, <3>1 DEF Held
    <2> QED
        BY <2>5, <2>6
<1>9. ASSUME NEW k \in DOMAIN added
      PROVE  extra[k] = sums[added[k]]
    <2>1. PICK i \in at : added[k] = DocSeq(map)[i]
        BY <1>6 DEF Holds
    <2>2. i \in DOMAIN map /\ added[k] = map[i].doc /\ map[i].doc \notin DocsOf(left)
        BY <1>5, <2>1 DEF NewDocs, DocSeq
    <2> DEFINE d == map[i].doc
    <2>3. d \in DocsOf(map) /\ d \in Docs /\ EntryOf(map, d) = map[i]
        BY <1>0, <1>4, <2>2, EntryFound
    <2>4. Held(left, d) = Blank(d) /\ Held(map, d) = map[i]
        BY <2>2, <2>3 DEF Held
    <2>5. IsEntry(map[i], d) /\ map[i].terms = <<slot>>
        <3>1. IsEntry(Held(map, d), d)
            BY <1>0, <2>3, HeldType
        <3> QED
            BY <2>2, <2>4, <3>1 DEF IsSpecMap
    <2>6. Merged(Blank(d), map[i]) = map[i]
        BY <2>5, BlankMerged
    <2> QED
        BY <1>2, <1>7, <2>2, <2>3, <2>4, <2>6
<1>10. MergedOr(left, map) = kept \o extra
    BY DEF MergedOr, NewDocs
<1>11. docs = old \o added
    BY DEF OrDocs
<1>12. MergedOr(left, map) = [i \in DOMAIN docs |-> sums[docs[i]]]
    <2>1. kept \in Seq(Entry) /\ Len(kept) = Len(old)
        <3>1. \A i \in DOMAIN left : kept[i] \in Entry
            BY <1>2, <1>3, <1>8 DEF IsEntry
        <3>2. kept = [i \in 1 .. Len(left) |-> kept[i]] /\ DOMAIN left = 1 .. Len(left)
            BY <1>0
        <3> HIDE DEF kept
        <3> QED
            BY <1>0, <1>3, <3>1, <3>2
    <2>2. extra \in Seq(Entry) /\ Len(extra) = Len(added)
        <3>1. extra \in Seq(Entry)
            BY <1>0, <1>5, SelectedType
        <3> HIDE DEF extra
        <3> QED
            BY <1>6, <1>7, <3>1
    <2>3. DOMAIN old = DOMAIN left
        BY <1>3
    <2> HIDE DEF kept, extra, sums, old, added
    <2>4. kept \o extra = [i \in DOMAIN (old \o added) |-> sums[(old \o added)[i]]]
        <3>1. old \in Seq(Docs) /\ added \in Seq(Docs)
            BY <1>3, <1>6
        <3>2. GoesWith(kept, old, sums)
            <4>1. DOMAIN kept = DOMAIN old /\ kept = [i \in DOMAIN kept |-> kept[i]]
                BY <1>3, <2>1
            <4> QED
                BY <1>8, <2>3, <4>1 DEF GoesWith
        <3>3. GoesWith(extra, added, sums)
            <4>1. DOMAIN extra = DOMAIN added /\ extra = [i \in DOMAIN extra |-> extra[i]]
                BY <1>6, <2>2
            <4> QED
                BY <1>9, <4>1 DEF GoesWith
        <3>4. GoesWith(kept \o extra, old \o added, sums)
            BY <2>1, <2>2, <3>1, <3>2, <3>3, JoinMapped
        <3> QED
            BY <3>4 DEF GoesWith
    <2> QED
        BY <1>10, <1>11, <2>4
<1> HIDE DEF docs, sums
<1>13. IsMapOf([i \in DOMAIN docs |-> sums[docs[i]]], docs, sums)
    <2>1. \A d \in ToSet(docs) : IsEntry(sums[d], d)
        BY <1>1, <1>2, <1>3, <1>4
    <2> QED
        BY <1>1, <2>1, MapFromDocs
<1> QED
    BY <1>12, <1>13 DEF docs, sums

\* AND: the right map's documents that the left map has, in the right's order.
AndDocs(left, map) == Selected(DocSeq(map), {i \in DOMAIN map : map[i].doc \in DocsOf(left)})

\* combine_results for AND, in terms of documents.
LEMMA MergedAndIs ==
    ASSUME NEW left, IsMap(left), NEW map, IsMap(map)
    PROVE  /\ IsMapOf(MergedAnd(left, map), AndDocs(left, map), EntrySums(left, map))
           /\ ToSet(AndDocs(left, map)) = DocsOf(left) \cap DocsOf(map)
<1> DEFINE docs == AndDocs(left, map)
           sums == EntrySums(left, map)
           own == DocSeq(map)
           at == {i \in DOMAIN map : map[i].doc \in DocsOf(left)}
           kept == Selected(map, at)
<1>1. /\ own \in Seq(Docs) /\ Distinct(own) /\ ToSet(own) = DocsOf(map)
      /\ DOMAIN own = DOMAIN map /\ DocsOf(map) \in SUBSET Docs
    BY DocSeqFacts
<1>2. at \in SUBSET DOMAIN map /\ at \in SUBSET DOMAIN own
    BY <1>1
<1>3. docs = Selected(own, at)
    BY DEF AndDocs
<1>4. {own[i] : i \in at} = DocsOf(left) \cap DocsOf(map)
    BY DEF DocSeq, DocsOf
<1> HIDE DEF own, at
<1>5. docs \in Seq(Docs) /\ Distinct(docs) /\ ToSet(docs) = {own[i] : i \in at}
    <2>1. /\ Selected(own, at) \in Seq(Docs) /\ Distinct(Selected(own, at))
          /\ ToSet(Selected(own, at)) = {own[i] : i \in at}
        BY <1>1, <1>2, SelectedDistinct
    <2> QED
        BY <1>3, <2>1
<1>6. kept = [k \in DOMAIN docs |-> EntryOf(map, docs[k])]
    <2>1. kept = [k \in DOMAIN Selected(DocSeq(map), at) |->
                     EntryOf(map, Selected(DocSeq(map), at)[k])]
        BY <1>2, SelectedDocs
    <2> QED
        BY <1>3, <2>1 DEF own
<1>7. MergedAnd(left, map) = [i \in DOMAIN kept |-> Merged(EntryOf(left, kept[i].doc), kept[i])]
    BY DEF MergedAnd, at
<1> HIDE DEF docs, kept
<1>8. ASSUME NEW k \in DOMAIN docs
      PROVE  Merged(EntryOf(left, kept[k].doc), kept[k]) = sums[docs[k]]
    <2> DEFINE d == docs[k]
    <2>1. d \in DocsOf(left) /\ d \in DocsOf(map) /\ d \in Docs
        <3>1. d \in ToSet(docs)
            BY DEF ToSet
        <3> QED
            BY <1>1, <1>4, <1>5, <3>1
    <2>2. Held(left, d) = EntryOf(left, d) /\ Held(map, d) = EntryOf(map, d)
        BY <2>1 DEF Held
    <2>3. IsEntry(Held(map, d), d)
        BY <2>1, HeldType
    <2>4. kept[k] = Held(map, d) /\ kept[k].doc = d
        BY <1>6, <2>2, <2>3 DEF IsEntry
    <2>5. sums[d] = Merged(Held(left, d), Held(map, d))
        BY <2>1, EntrySumsType
    <2> QED
        BY <2>2, <2>4, <2>5
<1>9. MergedAnd(left, map) = [i \in DOMAIN docs |-> sums[docs[i]]]
    BY <1>6, <1>7, <1>8
<1>10. \A d \in ToSet(docs) : IsEntry(sums[d], d)
    <2>1. \A d \in Docs : IsEntry(sums[d], d)
        BY EntrySumsType
    <2> QED
        BY <1>1, <1>4, <1>5, <2>1
<1> HIDE DEF sums
<1>11. IsMapOf([i \in DOMAIN docs |-> sums[docs[i]]], docs, sums)
    BY <1>5, <1>10, MapFromDocs
<1> QED
    BY <1>4, <1>5, <1>9, <1>11 DEF docs, sums

----------------------------------------------------------------------------
(* One more posting in a spec's map.                                       *)

\* The part of a score that a posting adds.
PostingOf(hit) == [term |-> hit.term, field |-> hit.field]

\* The additions of a document in the spec so far.
Added(map, d) == IF d \in DocsOf(map) THEN EntryOf(map, d).score[1] ELSE <<>>

\* What term_results makes of its map with one more posting.
IsGrown(map, hit, slot, next) ==
    /\ IsSpecMap(next, slot)
    /\ DocsOf(next) = DocsOf(map) \cup {hit.doc}
    /\ DocSeq(next) = IF hit.doc \in DocsOf(map) THEN DocSeq(map) ELSE Append(DocSeq(map), hit.doc)
    /\ \A d \in Docs : d # hit.doc => Held(next, d) = Held(map, d)
    /\ Held(next, hit.doc) =
           [doc |-> hit.doc, score |-> <<Append(Added(map, hit.doc), PostingOf(hit))>>,
            terms |-> <<slot>>, match |-> PushField(Held(map, hit.doc).match, hit.term, hit.field)]

\* What the held entries are, when all entries but one document's are the same.
LEMMA HeldSame ==
    ASSUME NEW map, IsMap(map), NEW next, IsMap(next), NEW d,
           d \in DocsOf(next) <=> d \in DocsOf(map),
           \A i \in DOMAIN map : map[i].doc = d => i \in DOMAIN next /\ next[i] = map[i]
    PROVE  Held(next, d) = Held(map, d)
<1>1. CASE d \in DocsOf(map)
    <2>1. PICK i \in DOMAIN map : map[i].doc = d /\ EntryOf(map, d) = map[i]
        BY <1>1, EntryAt
    <2>2. i \in DOMAIN next /\ next[i] = map[i]
        BY <2>1
    <2>3. EntryOf(next, next[i].doc) = next[i]
        BY <2>2, EntryFound
    <2> QED
        BY <1>1, <2>1, <2>2, <2>3 DEF Held
<1>2. CASE d \notin DocsOf(map)
    BY <1>2 DEF Held
<1> QED
    BY <1>1, <1>2

\* term_results keeps one entry per document, and changes only its own document's.
LEMMA WithPostingStep ==
    ASSUME NEW slot \in Nat, NEW map, IsSpecMap(map, slot), NEW hit \in Hit
    PROVE  IsGrown(map, hit, slot, WithPosting(map, hit, slot))
<1> DEFINE d == hit.doc
           p == PostingOf(hit)
           new == [doc |-> d, score |-> <<Append(Added(map, d), p)>>, terms |-> <<slot>>,
                   match |-> PushField(Held(map, d).match, hit.term, hit.field)]
           next == WithPosting(map, hit, slot)
<1>1. d \in Docs /\ hit.term \in Terms /\ hit.field \in Fields
    BY DEF Hit
<1>2. p \in Posting
    BY <1>1 DEF PostingOf, Posting
<1>3. IsMap(map) /\ map \in Seq(Entry) /\ DOMAIN map = 1 .. Len(map) /\ Len(map) \in Nat
    BY DEF IsSpecMap, IsMap
<1>4. IsEntry(Held(map, d), d)
    BY <1>1, <1>3, HeldType
<1>5. Added(map, d) \in Seq(Posting)
    <2>1. CASE d \in DocsOf(map)
        <3>1. PICK i \in DOMAIN map : map[i].doc = d /\ EntryOf(map, d) = map[i]
            BY <2>1, EntryAt
        <3>2. map[i].score \in Seq(Seq(Posting)) /\ Len(map[i].score) = 1
            <4>1. map[i] \in Entry
                BY <1>3
            <4> QED
                BY <4>1 DEF Entry, IsSpecMap
        <3>3. map[i].score[1] \in Seq(Posting)
            BY <3>2
        <3> QED
            BY <2>1, <3>1, <3>3 DEF Added
    <2>2. CASE d \notin DocsOf(map)
        BY <2>2 DEF Added
    <2> QED
        BY <2>1, <2>2
<1>6. IsEntry(new, d) /\ Len(new.score) = 1 /\ new.terms = <<slot>>
    <2> DEFINE score == <<Append(Added(map, d), p)>>
               match == PushField(Held(map, d).match, hit.term, hit.field)
    <2>1. match \in Seq(Row) /\ OneRowPerTerm(match)
        <3>1. Held(map, d).match \in Seq(Row) /\ OneRowPerTerm(Held(map, d).match)
            BY <1>4 DEF IsEntry, Entry
        <3>2. IsPushed(Held(map, d).match, hit.term, hit.field, match)
            BY <1>1, <3>1, PushFieldStep
        <3> QED
            BY <3>2 DEF IsPushed
    <2>2. score \in Seq(Seq(Posting)) /\ Len(score) = 1
        <3>1. Append(Added(map, d), p) \in Seq(Posting)
            BY <1>2, <1>5
        <3> QED
            BY <3>1
    <2>3. <<slot>> \in Seq(Nat)
        OBVIOUS
    <2>4. new = [doc |-> d, score |-> score, terms |-> <<slot>>, match |-> match]
        OBVIOUS
    <2> HIDE DEF score, match, new
    <2>5. new \in Entry
        BY <1>1, <2>1, <2>2, <2>3, <2>4 DEF Entry
    <2> QED
        BY <2>1, <2>2, <2>4, <2>5 DEF IsEntry
<1>7. CASE d \in DocsOf(map)
    <2>1. PICK k \in DOMAIN map : map[k].doc = d /\ EntryOf(map, d) = map[k]
        BY <1>7, EntryAt
    <2>2. Held(map, d) = map[k] /\ Added(map, d) = map[k].score[1]
        BY <1>7, <2>1 DEF Held, Added
    <2>3. map[k].terms = <<slot>>
        BY DEF IsSpecMap
    <2>4. \A i \in DOMAIN map : map[i].doc = d => i = k
        BY <1>3, <2>1 DEF IsMap
    <2>5. next = [i \in DOMAIN map |-> IF map[i].doc # d THEN map[i]
                  ELSE [doc |-> d, score |-> <<Append(map[i].score[1], p)>>,
                        terms |-> map[i].terms,
                        match |-> PushField(map[i].match, hit.term, hit.field)]]
        BY <1>7 DEF WithPosting, PostingOf
    <2>6. DOMAIN next = DOMAIN map
        BY <2>5
    <2>7. next[k] = new
        <3>1. next[k] = [doc |-> d, score |-> <<Append(map[k].score[1], p)>>,
                         terms |-> map[k].terms,
                         match |-> PushField(map[k].match, hit.term, hit.field)]
            BY <2>1, <2>5
        <3> QED
            BY <2>2, <2>3, <3>1
    <2>8. \A i \in DOMAIN map : i # k => next[i] = map[i]
        BY <2>4, <2>5
    <2>9. next = [i \in 1 .. Len(map) |-> next[i]]
        BY <1>3, <2>5
    <2> HIDE DEF next, new, d
    <2>10. \A i \in DOMAIN map : next[i] \in Entry /\ next[i].doc = map[i].doc
               /\ OneRowPerTerm(next[i].match) /\ Len(next[i].score) = 1 /\ next[i].terms = <<slot>>
        <3>1. \A i \in DOMAIN map : map[i] \in Entry
                  /\ OneRowPerTerm(map[i].match) /\ Len(map[i].score) = 1 /\ map[i].terms = <<slot>>
            BY <1>3 DEF IsSpecMap, IsMap
        <3> QED
            BY <1>6, <2>1, <2>7, <2>8, <3>1 DEF IsEntry
    <2>11. IsMap(next)
        <3>1. next \in Seq(Entry)
            BY <1>3, <2>6, <2>9, <2>10
        <3> QED
            BY <1>3, <2>6, <2>10, <3>1 DEF IsMap
    <2>12. IsSpecMap(next, slot)
        BY <2>6, <2>10, <2>11 DEF IsSpecMap
    <2>13. DocSeq(next) = DocSeq(map)
        BY <2>6, <2>10 DEF DocSeq
    <2>14. DocsOf(next) = DocsOf(map)
        BY <2>6, <2>10 DEF DocsOf
    <2>15. Held(next, d) = new
        <3>1. EntryOf(next, next[k].doc) = next[k] /\ next[k].doc = d
            BY <2>1, <2>6, <2>10, <2>11, EntryFound
        <3> QED
            BY <1>7, <2>7, <2>14, <3>1 DEF Held
    <2>16. ASSUME NEW other \in Docs, other # d
           PROVE  Held(next, other) = Held(map, other)
        <3>1. \A i \in DOMAIN map : map[i].doc = other => i \in DOMAIN next /\ next[i] = map[i]
            BY <2>1, <2>6, <2>8, <2>16
        <3> QED
            BY <1>3, <2>11, <2>14, <3>1, HeldSame
    <2>17. DocsOf(next) = DocsOf(map) \cup {d}
        BY <1>7, <2>14
    <2> QED
        BY <1>7, <2>12, <2>13, <2>15, <2>16, <2>17 DEF IsGrown, next, new, d
<1>8. CASE d \notin DocsOf(map)
    <2> DEFINE n == Len(map)
    <2>1. next = Append(map, [doc |-> d, score |-> <<<<p>>>>, terms |-> <<slot>>,
                              match |-> PushField(<<>>, hit.term, hit.field)])
        BY <1>8 DEF WithPosting, PostingOf
    <2>2. Held(map, d).match = <<>> /\ Added(map, d) = <<>>
        BY <1>8 DEF Held, Blank, Added
    <2>3. Append(<<>>, p) = <<p>>
        OBVIOUS
    <2>4. next = Append(map, new)
        BY <2>1, <2>2, <2>3
    <2> HIDE DEF next, new, d
    <2>5. new \in Entry /\ new.doc = d
        BY <1>6 DEF IsEntry
    <2>6. /\ next \in Seq(Entry) /\ Len(next) = n + 1 /\ next[n + 1] = new
          /\ \A i \in DOMAIN map : i \in DOMAIN next /\ next[i] = map[i] /\ i # n + 1
          /\ \A i \in DOMAIN next : i = n + 1 \/ i \in DOMAIN map
          /\ n + 1 \in DOMAIN next
        BY <1>3, <2>4, <2>5
    <2>7. \A i \in DOMAIN map : map[i].doc # d
        BY <1>8 DEF DocsOf
    <2>8. IsMap(next)
        BY <1>3, <1>6, <2>5, <2>6, <2>7 DEF IsMap, IsEntry
    <2>9. IsSpecMap(next, slot)
        BY <1>6, <2>6, <2>8 DEF IsSpecMap
    <2>10. DocsOf(next) = DocsOf(map) \cup {d}
        <3>1. DocsOf(next) \subseteq DocsOf(map) \cup {d}
            BY <2>5, <2>6 DEF DocsOf
        <3>2. DocsOf(map) \subseteq DocsOf(next)
            BY <2>6 DEF DocsOf
        <3>3. d \in DocsOf(next)
            BY <2>5, <2>6 DEF DocsOf
        <3> QED
            BY <3>1, <3>2, <3>3
    <2>11. DocSeq(next) = Append(DocSeq(map), d)
        <3>1. DocSeq(next) = [i \in 1 .. n + 1 |-> IF i = n + 1 THEN d ELSE map[i].doc]
            BY <1>3, <2>5, <2>6 DEF DocSeq
        <3>2. DocSeq(map) \in Seq(Docs) /\ DocSeq(map) = [i \in 1 .. n |-> map[i].doc]
            BY <1>3, DocSeqFacts DEF DocSeq
        <3> QED
            BY <1>1, <1>3, <3>1, <3>2 DEF d
    <2>12. Held(next, d) = new
        <3>1. EntryOf(next, next[n + 1].doc) = next[n + 1]
            BY <2>6, <2>8, EntryFound
        <3> QED
            BY <2>5, <2>6, <2>10, <3>1 DEF Held
    <2>13. ASSUME NEW other \in Docs, other # d
           PROVE  Held(next, other) = Held(map, other)
        <3>1. other \in DocsOf(next) <=> other \in DocsOf(map)
            BY <2>10, <2>13
        <3> QED
            BY <1>3, <2>6, <2>8, <3>1, HeldSame
    <2> QED
        BY <1>8, <2>9, <2>10, <2>11, <2>12, <2>13 DEF IsGrown, next, new, d
<1> QED
    BY <1>7, <1>8

\* A document the spec meets first comes last, if the specs before did not meet it.
LEMMA OrDocsGrow ==
    ASSUME NEW left, IsMap(left), NEW slot \in Nat, NEW map, IsSpecMap(map, slot),
           NEW hit \in Hit, NEW next, IsGrown(map, hit, slot, next)
    PROVE  OrDocs(left, next) = IF hit.doc \in DocsOf(left) \cup DocsOf(map)
                                THEN OrDocs(left, map) ELSE Append(OrDocs(left, map), hit.doc)
<1> DEFINE d == hit.doc
           own == DocSeq(map)
           at == NewDocs(left, map)
           n == Len(own)
<1>0. d \in Docs
    BY DEF Hit
<1>1. IsMap(map) /\ IsMap(next)
    BY DEF IsSpecMap, IsGrown
<1>2. /\ own \in Seq(Docs) /\ DOMAIN own = DOMAIN map /\ n \in Nat /\ DOMAIN own = 1 .. n
    BY <1>1, DocSeqFacts
<1>3. DocSeq(left) \in Seq(Docs)
    BY DocSeqFacts
<1>4. at = {i \in DOMAIN own : own[i] \notin DocsOf(left)} /\ at \in SUBSET (1 .. n)
    BY <1>2 DEF NewDocs, DocSeq
<1>5. NewDocs(left, next) = {i \in DOMAIN DocSeq(next) : DocSeq(next)[i] \notin DocsOf(left)}
    BY DEF NewDocs, DocSeq
<1>6. DocSeq(next) = IF d \in DocsOf(map) THEN own ELSE Append(own, d)
    BY DEF IsGrown
<1>7. OrDocs(left, map) = DocSeq(left) \o Selected(own, at)
      /\ OrDocs(left, next) = DocSeq(left) \o Selected(DocSeq(next), NewDocs(left, next))
    BY DEF OrDocs
<1> HIDE DEF d, own, at, n
<1>8. CASE d \in DocsOf(map)
    BY <1>4, <1>5, <1>6, <1>7, <1>8 DEF d
<1>9. CASE d \notin DocsOf(map)
    <2>0. DocSeq(next) = Append(own, d)
        BY <1>6, <1>9
    <2>1. /\ Append(own, d) \in Seq(Docs) /\ DOMAIN Append(own, d) = 1 .. n + 1
          /\ Append(own, d)[n + 1] = d
          /\ \A i \in 1 .. n : Append(own, d)[i] = own[i]
        BY <1>0, <1>2 DEF n
    <2>2. CASE d \in DocsOf(left)
        <3>1. NewDocs(left, next) = at
            BY <1>2, <1>4, <1>5, <2>0, <2>1, <2>2
        <3>2. \A i \in at : Append(own, d)[i] = own[i]
            BY <1>4, <2>1
        <3>3. Selected(Append(own, d), at) = Selected(own, at)
            BY <1>2, <1>4, <3>2, SelectedSame
        <3> QED
            BY <1>7, <2>0, <2>2, <3>1, <3>3 DEF d
    <2>3. CASE d \notin DocsOf(left)
        <3>1. NewDocs(left, next) = at \cup {n + 1}
            BY <1>2, <1>4, <1>5, <2>0, <2>1, <2>3
        <3>2. Selected(Append(own, d), at \cup {Len(own) + 1}) = Append(Selected(own, at), d)
            <4>1. own \in Seq(Docs) /\ d \in Docs /\ at \in SUBSET DOMAIN own
                BY <1>0, <1>2, <1>4
            <4> QED
                BY <4>1, SelectedTake
        <3>3. Selected(own, at) \in Seq(Docs)
            BY <1>2, <1>4, SelectedType
        <3>4. DocSeq(left) \o Append(Selected(own, at), d) = Append(DocSeq(left) \o Selected(own, at), d)
            BY <1>0, <1>3, <3>3
        <3> QED
            BY <1>7, <1>9, <2>0, <2>3, <3>1, <3>2, <3>4 DEF d, n
    <2> QED
        BY <2>2, <2>3
<1> QED
    BY <1>8, <1>9

----------------------------------------------------------------------------
(* A document's slots.                                                     *)

\* A document's slots are what its entry before the spec, and its entry of the
\* spec, would merge into, the score excepted: that is added by flush_spec.
Agrees(row, old, new, n) ==
    /\ row.score = old.score
    /\ row.querySlots = AssignUnique(old.terms, new.terms)
    /\ row.match \in Seq(Noted(n)) /\ Marks(row.match, n, new.match)
    /\ FieldRows(row.match) = Assign(old.match, new.match)
    /\ new.score # <<>> => row.specScore = new.score[1]

\* begin_query: nothing yet.
LEMMA AgreesNothing ==
    ASSUME NEW row, NEW d, NEW n,
           row.score = <<>> /\ row.querySlots = <<>> /\ row.match = <<>>
    PROVE  Agrees(row, Blank(d), Blank(d), n)
<1>1. /\ Blank(d).score = <<>> /\ Blank(d).terms = <<>> /\ Blank(d).match = <<>>
    BY DEF Blank
<1>2. AssignUnique(<<>>, <<>>) = <<>>
    <2>1. <<>> \in Seq(Nat)
        OBVIOUS
    <2> QED
        BY <2>1, UniqueNothing
<1>3. Assign(<<>>, <<>>) = <<>>
    <2>1. <<>> \in Seq(Row)
        OBVIOUS
    <2> QED
        BY <2>1, AssignNothing
<1>4. FieldRows(<<>>) = <<>> /\ <<>> \in Seq(Noted(n)) /\ Marks(<<>>, n, <<>>)
    BY DEF FieldRows, Marks
<1> QED
    BY <1>1, <1>2, <1>3, <1>4 DEF Agrees

\* A list of one.
LEMMA Singleton ==
    ASSUME NEW S, NEW s \in Seq(S), Len(s) = 1
    PROVE  s # <<>> /\ s = <<s[1]>> /\ s[1] \in S
<1>1. s[1] \in S /\ DOMAIN s = {1} /\ s # <<>>
    OBVIOUS
<1>2. <<s[1]>> \in Seq(S) /\ Len(<<s[1]>>) = 1 /\ <<s[1]>>[1] = s[1]
    BY <1>1
<1>3. \A i \in 1 .. Len(s) : s[i] = <<s[1]>>[i]
    BY <1>1, <1>2
<1>4. s = <<s[1]>>
    BY <1>2, <1>3, SeqEqual
<1> QED
    BY <1>1, <1>4

\* flush_spec: the entries merged, the score added.
LEMMA AgreesFlushed ==
    ASSUME NEW d \in Docs, NEW n \in Nat, NEW old, IsEntry(old, d), NEW new, IsEntry(new, d),
           NEW row, Agrees(row, old, new, n), NEW next,
           next.querySlots = row.querySlots /\ next.match = row.match,
           new = Blank(d) => next.score = row.score,
           new # Blank(d) => next.score = Append(row.score, row.specScore) /\ Len(new.score) = 1
    PROVE  Agrees(next, Merged(old, new), Blank(d), n + 1)
<1>1. /\ Blank(d).score = <<>> /\ Blank(d).terms = <<>> /\ Blank(d).match = <<>>
    BY DEF Blank
<1>2. IsEntry(Merged(old, new), d)
    BY MergedType
<1>3. /\ Merged(old, new).score = old.score \o new.score
      /\ Merged(old, new).terms = AssignUnique(old.terms, new.terms)
      /\ Merged(old, new).match = Assign(old.match, new.match)
    BY DEF Merged
<1>4. /\ old.score \in Seq(Seq(Posting)) /\ new.score \in Seq(Seq(Posting))
      /\ Merged(old, new).terms \in Seq(Nat) /\ Merged(old, new).match \in Seq(Row)
    BY <1>2 DEF IsEntry, Entry
<1>5. next.score = Merged(old, new).score
    <2>1. CASE new = Blank(d)
        <3>1. old.score \o <<>> = old.score
            BY <1>4
        <3> QED
            BY <1>1, <1>3, <2>1, <3>1 DEF Agrees
    <2>2. CASE new # Blank(d)
        <3>1. new.score # <<>> /\ new.score = <<new.score[1]>>
            BY <1>4, <2>2, Singleton
        <3>2. row.score = old.score /\ row.specScore = new.score[1]
            BY <3>1 DEF Agrees
        <3>3. new.score[1] \in Seq(Posting)
            BY <1>4, <2>2
        <3>4. old.score \o <<new.score[1]>> = Append(old.score, new.score[1])
            BY <1>4, <3>3
        <3> QED
            BY <1>3, <2>2, <3>1, <3>2, <3>4
    <2> QED
        BY <2>1, <2>2
<1>6. next.querySlots = AssignUnique(Merged(old, new).terms, <<>>)
    <2>1. AssignUnique(Merged(old, new).terms, <<>>) = Merged(old, new).terms
        BY <1>4, UniqueNothing
    <2> QED
        BY <1>3, <2>1 DEF Agrees
<1>7. FieldRows(next.match) = Assign(Merged(old, new).match, <<>>)
    <2>1. Assign(Merged(old, new).match, <<>>) = Merged(old, new).match
        BY <1>4, AssignNothing
    <2> QED
        BY <1>3, <2>1 DEF Agrees
<1>8. next.match \in Seq(Noted(n + 1)) /\ Marks(next.match, n + 1, <<>>)
    <2>1. row.match \in Seq(Noted(n))
        BY DEF Agrees
    <2>2. Noted(n) \subseteq Noted(n + 1)
        BY DEF Noted
    <2>3. \A i \in DOMAIN row.match : row.match[i].spec # n + 1
        <3>1. \A i \in DOMAIN row.match : row.match[i] \in Noted(n)
            BY <2>1
        <3>2. \A i \in DOMAIN row.match : row.match[i].spec \in 1 .. n
            BY <3>1 DEF Noted
        <3> QED
            BY <3>2
    <2>4. TermsOf(<<>>) = {}
        BY DEF TermsOf
    <2>5. row.match \in Seq(Noted(n + 1))
        BY <2>1, <2>2
    <2> QED
        BY <2>3, <2>4, <2>5 DEF Marks
<1> QED
    BY <1>1, <1>5, <1>6, <1>7, <1>8 DEF Agrees

\* The slots after a posting, from those before it that belong to the query.
Counting(row, map, hit, slot, next) ==
    /\ next.score = row.score /\ next.firstSpec = row.firstSpec
    /\ next.specCount = row.specCount + (IF hit.doc \in DocsOf(map) THEN 0 ELSE 1)
    /\ next.match = RecordTerm(row.match, hit)
    /\ next.specScore =
           Append(IF hit.doc \in DocsOf(map) THEN row.specScore ELSE <<>>, PostingOf(hit))
    /\ IF hit.doc \in DocsOf(map) \/ slot \in ToSet(row.querySlots)
       THEN next.querySlots = row.querySlots ELSE next.querySlots = Append(row.querySlots, slot)

\* accumulate_dense: the posting reaches the slots as it reaches the spec's map.
LEMMA AgreesPosted ==
    ASSUME NEW hit \in Hit, specs \in Seq(Nat), Len(specs) > 0, NEW slot \in Nat,
           NEW old, IsEntry(old, hit.doc), NEW map, IsSpecMap(map, slot),
           NEW row, Agrees(row, old, Held(map, hit.doc), Len(specs)),
           NEW next, Counting(row, map, hit, slot, next),
           NEW grown, IsGrown(map, hit, slot, grown)
    PROVE  Agrees(next, old, Held(grown, hit.doc), Len(specs))
<1> DEFINE d == hit.doc
           n == Len(specs)
           own == Held(map, d)
           new == Held(grown, d)
<1>1. d \in Docs /\ hit.term \in Terms /\ hit.field \in Fields
    BY DEF Hit
<1>2. IsMap(map) /\ IsEntry(own, d)
    BY <1>1, HeldType DEF IsSpecMap
<1>3. /\ new.score = <<Append(Added(map, d), PostingOf(hit))>> /\ new.terms = <<slot>>
      /\ new.match = PushField(own.match, hit.term, hit.field)
    <2>1. new = [doc |-> d, score |-> <<Append(Added(map, d), PostingOf(hit))>>,
                 terms |-> <<slot>>, match |-> PushField(own.match, hit.term, hit.field)]
        BY DEF IsGrown
    <2> HIDE DEF new
    <2> QED
        BY <2>1
<1>4. /\ old.terms \in Seq(Nat) /\ old.match \in Seq(Row) /\ OneRowPerTerm(old.match)
      /\ own.match \in Seq(Row) /\ OneRowPerTerm(own.match)
    BY <1>2 DEF IsEntry, Entry
<1>5. /\ row.score = old.score /\ row.querySlots = AssignUnique(old.terms, own.terms)
      /\ row.match \in Seq(Noted(n)) /\ Marks(row.match, n, own.match)
      /\ FieldRows(row.match) = Assign(old.match, own.match)
      /\ own.score # <<>> => row.specScore = own.score[1]
    BY DEF Agrees
<1>6. d \in DocsOf(map) =>
          own.terms = <<slot>> /\ own.score # <<>> /\ Added(map, d) = own.score[1]
    <2> SUFFICES ASSUME d \in DocsOf(map)
                 PROVE  own.terms = <<slot>> /\ own.score # <<>> /\ Added(map, d) = own.score[1]
        OBVIOUS
    <2>1. PICK i \in DOMAIN map : map[i].doc = d /\ EntryOf(map, d) = map[i]
        BY EntryAt
    <2>2. own = map[i] /\ Len(own.score) = 1 /\ own.terms = <<slot>>
        BY <2>1 DEF Held, IsSpecMap
    <2>3. own.score # <<>>
        <3>1. Len(<<>>) # 1
            OBVIOUS
        <3> QED
            BY <2>2, <3>1
    <2> QED
        BY <2>1, <2>2, <2>3 DEF Added
<1>7. d \notin DocsOf(map) => own.terms = <<>> /\ Added(map, d) = <<>>
    BY DEF Held, Blank, Added
<1> HIDE DEF own, new
<1>8. next.specScore = new.score[1]
    <2>1. next.specScore = Append(Added(map, d), PostingOf(hit))
        BY <1>5, <1>6, <1>7 DEF Counting
    <2> QED
        BY <1>3, <2>1
<1>9. next.querySlots = AssignUnique(old.terms, new.terms)
    <2>1. CASE d \in DocsOf(map)
        BY <1>3, <1>5, <1>6, <2>1 DEF Counting
    <2>2. CASE d \notin DocsOf(map)
        <3>1. row.querySlots = old.terms
            BY <1>4, <1>5, <1>7, <2>2, UniqueNothing
        <3>2. AssignUnique(old.terms, <<slot>>) =
                  IF slot \in ToSet(old.terms) THEN old.terms ELSE Append(old.terms, slot)
            BY <1>4, UniqueOne
        <3> QED
            BY <1>3, <2>2, <3>1, <3>2 DEF Counting
    <2> QED
        BY <2>1, <2>2
<1>10. IsRecorded(row.match, n, hit, own.match, next.match)
    <2>1. IsRecorded(row.match, Len(specs), hit, own.match, RecordTerm(row.match, hit))
        BY <1>5, RecordTermStep
    <2> QED
        BY <2>1 DEF Counting
<1>11. FieldRows(next.match) = Assign(old.match, new.match)
    <2>1. Assign(old.match, new.match) =
              Recorded(Assign(old.match, own.match), hit.term, hit.field, hit.term \in TermsOf(own.match))
        BY <1>1, <1>3, <1>4, AssignPushed
    <2> QED
        BY <1>5, <1>10, <2>1 DEF IsRecorded
<1>12. next.match \in Seq(Noted(n)) /\ Marks(next.match, n, new.match)
    <2>1. IsPushed(own.match, hit.term, hit.field, new.match)
        BY <1>1, <1>3, <1>4, PushFieldStep
    <2>2. TermsOf(new.match) = TermsOf(own.match) \cup {hit.term}
        BY <2>1 DEF IsPushed
    <2> QED
        BY <1>10, <2>2 DEF IsRecorded, Marks
<1>13. next.score = old.score
    BY <1>5 DEF Counting
<1> QED
    BY <1>8, <1>9, <1>11, <1>12, <1>13 DEF Agrees, new, d, n

\* The specs before the one in progress, whose map this is, that met the document.
Earlier(row, map, d) == row.specCount - (IF d \in DocsOf(map) THEN 1 ELSE 0)

\* A document's slots, against the maps merged so far and the map of spec n.
RowInv(row, left, map, d, n) ==
    /\ Agrees(row, Held(left, d), Held(map, d), n)
    /\ row.specCount \in Int /\ Earlier(row, map, d) \in 0 .. n - 1
    /\ row.firstSpec \in 1 .. n
    /\ d \in DocsOf(left) <=> Earlier(row, map, d) > 0
    /\ d \in DocsOf(left) <=> row.firstSpec < n

\* The fused pass, against the union of the maps merged so far and the map of spec n.
OrInv(left, map, slot, n, list, rows) ==
    /\ IsMap(left) /\ IsSpecMap(map, slot)
    /\ list = OrDocs(left, map)
    /\ \A d \in ToSet(list) : RowInv(rows[d], left, map, d, n)

\* The intersection: the documents that every spec so far met.
AndInv(kept, left, map, n, rows) ==
    /\ IsMap(kept)
    /\ DocsOf(kept) = {d \in DocsOf(left) : Earlier(rows[d], map, d) = n - 1}
    /\ \A d \in DocsOf(kept) : EntryOf(kept, d) = EntryOf(left, d)

\* The documents of the list that n specs met.
InOrder(docs, list, rows, n) ==
    docs = Selected(list, {i \in DOMAIN list : rows[list[i]].specCount = n})

\* The difference: the documents that the first spec met, and no other so far.
FirstOnly(left, map, rows) ==
    {i \in DOMAIN left : rows[left[i].doc].firstSpec = 1
                         /\ Earlier(rows[left[i].doc], map, left[i].doc) = 1}

\* AND_NOT: the documents that the first map alone has, in its order.
AndNotInv(kept, left, map, rows) == kept = Selected(left, FirstOnly(left, map, rows))

\* accumulate_dense, against the union.
LEMMA OrPosted ==
    ASSUME NEW hit \in Hit, specs \in Seq(Nat), Len(specs) > 0, NEW slot \in Nat,
           NEW left, NEW map, NEW list, NEW rows,
           OrInv(left, map, slot, Len(specs), list, rows),
           NEW row, RowInv(row, left, map, hit.doc, Len(specs)),
           NEW next, Counting(row, map, hit, slot, next),
           NEW grown, IsGrown(map, hit, slot, grown),
           NEW more, more = IF hit.doc \in ToSet(list) THEN list ELSE Append(list, hit.doc),
           NEW after, after[hit.doc] = next, \A d \in Docs : d # hit.doc => after[d] = rows[d]
    PROVE  OrInv(left, grown, slot, Len(specs), more, after)
<1> DEFINE n == Len(specs)
<1>1. hit.doc \in Docs
    BY DEF Hit
<1>2. /\ IsMap(left) /\ IsSpecMap(map, slot) /\ IsMap(map) /\ list = OrDocs(left, map)
      /\ \A d \in ToSet(list) : RowInv(rows[d], left, map, d, n)
    BY DEF OrInv, IsSpecMap
<1>3. /\ IsSpecMap(grown, slot) /\ DocsOf(grown) = DocsOf(map) \cup {hit.doc}
      /\ \A d \in Docs : d # hit.doc => Held(grown, d) = Held(map, d)
    BY DEF IsGrown
<1>4. list \in Seq(Docs) /\ ToSet(list) = DocsOf(left) \cup DocsOf(map)
    BY <1>2, OrDocsFacts
<1>5. more = OrDocs(left, grown)
    BY <1>2, <1>4, OrDocsGrow
<1>6. ToSet(more) \subseteq ToSet(list) \cup {hit.doc} /\ ToSet(more) \subseteq Docs
    <2>1. ToSet(Append(list, hit.doc)) = ToSet(list) \cup {hit.doc}
        BY <1>1, <1>4, ToSetAppend
    <2>2. ToSet(list) \subseteq Docs
        BY <1>4 DEF ToSet
    <2> QED
        BY <1>1, <2>1, <2>2
<1>7. RowInv(next, left, grown, hit.doc, n)
    <2>1. IsEntry(Held(left, hit.doc), hit.doc)
        BY <1>1, <1>2, HeldType
    <2>2. Agrees(row, Held(left, hit.doc), Held(map, hit.doc), n)
        BY DEF RowInv
    <2>3. Agrees(next, Held(left, hit.doc), Held(grown, hit.doc), n)
        BY <1>2, <2>1, <2>2, AgreesPosted
    <2>4. next.specCount \in Int /\ Earlier(next, grown, hit.doc) = Earlier(row, map, hit.doc)
        <3>1. next.specCount = row.specCount + (IF hit.doc \in DocsOf(map) THEN 0 ELSE 1)
            BY DEF Counting
        <3>2. row.specCount \in Int
            BY DEF RowInv
        <3> QED
            BY <1>3, <3>1, <3>2 DEF Earlier
    <2>5. next.firstSpec = row.firstSpec
        BY DEF Counting
    <2> QED
        BY <2>3, <2>4, <2>5 DEF RowInv
<1>8. ASSUME NEW d \in ToSet(more)
      PROVE  RowInv(after[d], left, grown, d, n)
    <2>1. CASE d = hit.doc
        BY <1>7, <2>1
    <2>2. CASE d # hit.doc
        <3>1. d \in ToSet(list) /\ d \in Docs
            BY <1>6, <2>2
        <3>2. RowInv(rows[d], left, map, d, n) /\ after[d] = rows[d]
            BY <1>2, <2>2, <3>1
        <3>3. Held(grown, d) = Held(map, d) /\ (d \in DocsOf(grown) <=> d \in DocsOf(map))
            BY <1>3, <2>2, <3>1
        <3> QED
            BY <3>2, <3>3 DEF RowInv, Earlier
    <2> QED
        BY <2>1, <2>2
<1> QED
    BY <1>2, <1>3, <1>5, <1>8 DEF OrInv

\* What held of the intersection and the difference still does.
Leaves(left, map, rows, grown, after, n) ==
    /\ \A kept : AndInv(kept, left, map, n, rows) => AndInv(kept, left, grown, n, after)
    /\ \A kept : AndNotInv(kept, left, map, rows) => AndNotInv(kept, left, grown, after)

\* accumulate_dense leaves the intersection and the difference of the specs before.
LEMMA OthersPosted ==
    ASSUME NEW hit \in Hit, NEW slot, NEW left, IsMap(left), NEW map, NEW n, NEW rows,
           NEW row, NEW next, Counting(row, map, hit, slot, next),
           row.specCount \in Int, hit.doc \in DocsOf(left) => row = rows[hit.doc],
           NEW grown, IsGrown(map, hit, slot, grown),
           NEW after, after[hit.doc] = next, \A d \in Docs : d # hit.doc => after[d] = rows[d]
    PROVE  Leaves(left, map, rows, grown, after, n)
<1>1. DocsOf(left) \subseteq Docs /\ DocsOf(grown) = DocsOf(map) \cup {hit.doc}
    BY DocSeqFacts DEF IsGrown
<1>2. ASSUME NEW d \in DocsOf(left)
      PROVE  Earlier(after[d], grown, d) = Earlier(rows[d], map, d)
             /\ after[d].firstSpec = rows[d].firstSpec
    <2>1. CASE d = hit.doc
        <3>1. /\ next.specCount = row.specCount + (IF hit.doc \in DocsOf(map) THEN 0 ELSE 1)
              /\ next.firstSpec = row.firstSpec
            BY DEF Counting
        <3> QED
            BY <1>1, <2>1, <3>1 DEF Earlier
    <2>2. CASE d # hit.doc
        BY <1>1, <2>2 DEF Earlier
    <2> QED
        BY <2>1, <2>2
<1>3. \A kept : AndInv(kept, left, map, n, rows) => AndInv(kept, left, grown, n, after)
    BY <1>2 DEF AndInv
<1>4. FirstOnly(left, grown, after) = FirstOnly(left, map, rows)
    <2>1. \A i \in DOMAIN left : left[i].doc \in DocsOf(left)
        BY DEF DocsOf
    <2> QED
        BY <1>2, <2>1 DEF FirstOnly
<1>5. \A kept : AndNotInv(kept, left, map, rows) => AndNotInv(kept, left, grown, after)
    BY <1>4 DEF AndNotInv
<1> QED
    BY <1>3, <1>5 DEF Leaves

\* flush_spec, on the slots.
Flushing(rows, map, after) ==
    \A d \in Docs :
        /\ after[d].specCount = rows[d].specCount /\ after[d].firstSpec = rows[d].firstSpec
        /\ after[d].querySlots = rows[d].querySlots /\ after[d].match = rows[d].match
        /\ IF d \in DocsOf(map) THEN after[d].score = Append(rows[d].score, rows[d].specScore)
                                ELSE after[d].score = rows[d].score

\* The empty map holds nothing for any document.
NothingMet == IsMap(<<>>) /\ DocsOf(<<>>) = {} /\ \A d : Held(<<>>, d) = Blank(d)

\* begin_spec starts a map in which nothing was met.
LEMMA EmptyMap == NothingMet
<1>1. DocsOf(<<>>) = {}
    BY DEF DocsOf
<1>2. \A d : Held(<<>>, d) = Blank(d)
    BY <1>1 DEF Held
<1>3. IsMap(<<>>)
    <2>1. <<>> \in Seq(Entry) /\ DOMAIN <<>> = {}
        OBVIOUS
    <2> QED
        BY <2>1 DEF IsMap
<1> QED
    BY <1>1, <1>2, <1>3 DEF NothingMet

\* A spec that met nothing adds no document.
LEMMA OrDocsNothing ==
    ASSUME NEW left, IsMap(left)
    PROVE  OrDocs(left, <<>>) = DocSeq(left)
<1>1. DocSeq(left) \in Seq(Docs)
    BY DocSeqFacts
<1>2. NewDocs(left, <<>>) = {} /\ DocSeq(<<>>) = <<>>
    BY DEF NewDocs, DocSeq
<1>3. Selected(<<>>, {}) = <<>>
    BY SelectedNone
<1>4. DocSeq(left) \o <<>> = DocSeq(left)
    BY <1>1
<1> QED
    BY <1>2, <1>3, <1>4 DEF OrDocs

\* What merging the spec's map into a union holds: both maps' documents, each
\* with what its entries merge into.
UnionHolds(left, map) ==
    /\ DocsOf(MergedOr(left, map)) = DocsOf(left) \cup DocsOf(map)
    /\ \A d \in DocsOf(MergedOr(left, map)) :
           EntryOf(MergedOr(left, map), d) = Merged(Held(left, d), Held(map, d))

\* merge_or of a spec's map holds what it should.
LEMMA MergedOrHolds ==
    ASSUME NEW left, IsMap(left), NEW slot \in Nat, NEW map, IsSpecMap(map, slot)
    PROVE  UnionHolds(left, map) /\ DocSeq(MergedOr(left, map)) = OrDocs(left, map)
           /\ IsMap(MergedOr(left, map))
<1> DEFINE both == MergedOr(left, map)
           list == OrDocs(left, map)
<1>1. IsMap(map)
    BY DEF IsSpecMap
<1>2. ToSet(list) = DocsOf(left) \cup DocsOf(map) /\ ToSet(list) \subseteq Docs
    <2>1. list \in Seq(Docs) /\ ToSet(list) = DocsOf(left) \cup DocsOf(map)
        BY <1>1, OrDocsFacts
    <2> QED
        BY <2>1 DEF ToSet
<1>3. IsMapOf(both, list, EntrySums(left, map))
    BY MergedOrIs
<1>4. \A d \in Docs : EntrySums(left, map)[d] = Merged(Held(left, d), Held(map, d))
    BY <1>1, EntrySumsType
<1> QED
    BY <1>2, <1>3, <1>4 DEF IsMapOf, UnionHolds

\* flush_spec, against the union: the spec's map is merged.
LEMMA OrFlushed ==
    ASSUME NEW left, NEW slot \in Nat, NEW map, NEW n \in Nat, NEW list, NEW rows,
           OrInv(left, map, slot, n, list, rows),
           NEW after, Flushing(rows, map, after), NEW any
    PROVE  OrInv(MergedOr(left, map), <<>>, any, n + 1, list, after)
<1> DEFINE both == MergedOr(left, map)
<1>1. /\ IsMap(left) /\ IsSpecMap(map, slot) /\ IsMap(map) /\ list = OrDocs(left, map)
      /\ \A d \in ToSet(list) : RowInv(rows[d], left, map, d, n)
    BY DEF OrInv, IsSpecMap
<1>2. list \in Seq(Docs) /\ ToSet(list) = DocsOf(left) \cup DocsOf(map) /\ ToSet(list) \subseteq Docs
    <2>1. list \in Seq(Docs) /\ ToSet(list) = DocsOf(left) \cup DocsOf(map)
        BY <1>1, OrDocsFacts
    <2> QED
        BY <2>1 DEF ToSet
<1>3. UnionHolds(left, map) /\ IsMap(both) /\ DocSeq(both) = list
    BY <1>1, MergedOrHolds
<1>4. /\ IsMap(both) /\ DocSeq(both) = list /\ DocsOf(both) = ToSet(list)
      /\ \A d \in ToSet(list) : EntryOf(both, d) = Merged(Held(left, d), Held(map, d))
    BY <1>2, <1>3 DEF UnionHolds
<1> HIDE DEF both
<1>5. ASSUME NEW d \in ToSet(list)
      PROVE  RowInv(after[d], both, <<>>, d, n + 1)
    <2>1. d \in Docs /\ RowInv(rows[d], left, map, d, n)
        BY <1>1, <1>2
    <2>2. Held(both, d) = Merged(Held(left, d), Held(map, d))
        BY <1>4 DEF Held
    <2>3. Held(<<>>, d) = Blank(d) /\ d \notin DocsOf(<<>>)
        BY EmptyMap DEF NothingMet
    <2>4. /\ after[d].specCount = rows[d].specCount /\ after[d].firstSpec = rows[d].firstSpec
          /\ after[d].querySlots = rows[d].querySlots /\ after[d].match = rows[d].match
          /\ IF d \in DocsOf(map) THEN after[d].score = Append(rows[d].score, rows[d].specScore)
                                  ELSE after[d].score = rows[d].score
        BY <2>1 DEF Flushing
    <2>5. IsEntry(Held(left, d), d) /\ IsEntry(Held(map, d), d)
        BY <1>1, <2>1, HeldType
    <2>6. Held(map, d) # Blank(d) => d \in DocsOf(map) /\ Len(Held(map, d).score) = 1
        <3>1. CASE d \in DocsOf(map)
            <4>1. PICK i \in DOMAIN map : map[i].doc = d /\ EntryOf(map, d) = map[i]
                BY <3>1, EntryAt
            <4> QED
                BY <1>1, <3>1, <4>1 DEF Held, IsSpecMap
        <3>2. CASE d \notin DocsOf(map)
            BY <3>2 DEF Held
        <3> QED
            BY <3>1, <3>2
    <2>7. Held(map, d) = Blank(d) => d \notin DocsOf(map)
        <3> SUFFICES ASSUME d \in DocsOf(map) PROVE Held(map, d) # Blank(d)
            OBVIOUS
        <3>1. PICK i \in DOMAIN map : map[i].doc = d /\ EntryOf(map, d) = map[i]
            BY EntryAt
        <3>2. Len(Held(map, d).score) = 1
            BY <1>1, <3>1 DEF Held, IsSpecMap
        <3>3. Len(Blank(d).score) # 1
            BY DEF Blank
        <3> QED
            BY <3>2, <3>3
    <2>8. Agrees(rows[d], Held(left, d), Held(map, d), n)
        BY <2>1 DEF RowInv
    <2>9. Agrees(after[d], Merged(Held(left, d), Held(map, d)), Blank(d), n + 1)
        BY <2>1, <2>4, <2>5, <2>6, <2>7, <2>8, AgreesFlushed
    <2>10. /\ after[d].specCount \in Int /\ Earlier(after[d], <<>>, d) \in 0 .. n
           /\ after[d].firstSpec \in 1 .. n + 1 /\ after[d].firstSpec < n + 1
           /\ Earlier(after[d], <<>>, d) > 0
        <3>1. /\ rows[d].specCount \in Int /\ Earlier(rows[d], map, d) \in 0 .. n - 1
              /\ rows[d].firstSpec \in 1 .. n
              /\ d \in DocsOf(left) <=> Earlier(rows[d], map, d) > 0
            BY <2>1 DEF RowInv
        <3>2. Earlier(after[d], <<>>, d) = rows[d].specCount
            BY <2>3, <2>4, <3>1 DEF Earlier
        <3>3. Earlier(rows[d], map, d) = rows[d].specCount - (IF d \in DocsOf(map) THEN 1 ELSE 0)
            BY DEF Earlier
        <3> QED
            BY <1>2, <2>4, <3>1, <3>2, <3>3
    <2>11. d \in DocsOf(both) /\ n = (n + 1) - 1
        BY <1>4
    <2> QED
        BY <2>2, <2>3, <2>9, <2>10, <2>11 DEF RowInv
<1>6. IsSpecMap(<<>>, any)
    BY EmptyMap DEF NothingMet, IsSpecMap
<1>7. list = OrDocs(both, <<>>)
    BY <1>4, OrDocsNothing
<1> QED
    BY <1>2, <1>4, <1>5, <1>6, <1>7 DEF OrInv, both

\* After the first spec, the three combinations are its map.
LEMMA FirstFlushed ==
    ASSUME NEW left, NEW any, NEW list, NEW rows, OrInv(left, <<>>, any, 2, list, rows)
    PROVE  /\ AndInv(left, left, <<>>, 2, rows) /\ AndNotInv(left, left, <<>>, rows)
           /\ DocSeq(left) = list /\ \A d \in ToSet(list) : rows[d].specCount = 1
<1>1. IsMap(left) /\ list = DocSeq(left) /\ \A d \in ToSet(list) : RowInv(rows[d], left, <<>>, d, 2)
    <2>1. IsMap(left) /\ list = OrDocs(left, <<>>)
          /\ \A d \in ToSet(list) : RowInv(rows[d], left, <<>>, d, 2)
        BY DEF OrInv
    <2> QED
        BY <2>1, OrDocsNothing
<1>2. DocsOf(left) = ToSet(list) /\ \A i \in DOMAIN left : left[i].doc \in DocsOf(left)
    BY <1>1, DocSeqFacts DEF DocsOf
<1>3. ASSUME NEW d \in ToSet(list)
      PROVE  Earlier(rows[d], <<>>, d) = 1 /\ rows[d].firstSpec = 1 /\ rows[d].specCount = 1
    <2>1. RowInv(rows[d], left, <<>>, d, 2)
        BY <1>1
    <2>2. /\ Earlier(rows[d], <<>>, d) \in 0 .. 1 /\ rows[d].firstSpec \in 1 .. 2
          /\ Earlier(rows[d], <<>>, d) > 0 /\ rows[d].firstSpec < 2 /\ rows[d].specCount \in Int
        BY <1>2, <2>1 DEF RowInv
    <2>3. Earlier(rows[d], <<>>, d) = rows[d].specCount - 0
        BY EmptyMap DEF Earlier, NothingMet
    <2> QED
        BY <2>2, <2>3
<1>4. AndInv(left, left, <<>>, 2, rows)
    BY <1>1, <1>2, <1>3 DEF AndInv
<1>5. FirstOnly(left, <<>>, rows) = DOMAIN left
    BY <1>2, <1>3 DEF FirstOnly
<1>6. Selected(left, DOMAIN left) = left
    <2>1. left \in Seq(Entry)
        BY <1>1 DEF IsMap
    <2> QED
        BY <2>1, SelectedAll
<1> QED
    BY <1>1, <1>3, <1>4, <1>5, <1>6 DEF AndNotInv

\* flush_spec of a later spec, against the intersection.
LEMMA AndFlushed ==
    ASSUME NEW left, NEW slot \in Nat, NEW map, NEW n \in Nat, n > 1, NEW list, NEW rows,
           OrInv(left, map, slot, n, list, rows),
           NEW kept, AndInv(kept, left, map, n, rows),
           NEW after, Flushing(rows, map, after)
    PROVE  /\ AndInv(MergedAnd(kept, map), MergedOr(left, map), <<>>, n + 1, after)
           /\ InOrder(DocSeq(MergedAnd(kept, map)), DocSeq(map), after, n)
<1> DEFINE all == MergedOr(left, map)
           both == MergedAnd(kept, map)
<1>1. /\ IsMap(left) /\ IsMap(map) /\ DocsOf(left) \subseteq Docs /\ DocsOf(map) \subseteq Docs
      /\ IsMap(kept)
    BY DocSeqFacts DEF OrInv, IsSpecMap, AndInv
<1>2. /\ DocsOf(all) = DocsOf(left) \cup DocsOf(map)
      /\ \A d \in DocsOf(all) : EntryOf(all, d) = Merged(Held(left, d), Held(map, d))
    <2>1. IsMap(left) /\ IsSpecMap(map, slot)
        BY DEF OrInv
    <2>2. UnionHolds(left, map)
        BY <2>1, MergedOrHolds
    <2> QED
        BY <2>2 DEF UnionHolds
<1>3. ASSUME NEW d \in DocsOf(all)
      PROVE  /\ rows[d].specCount \in Int /\ Earlier(rows[d], map, d) \in 0 .. n - 1
             /\ d \in DocsOf(left) <=> Earlier(rows[d], map, d) > 0
             /\ Earlier(rows[d], map, d) = rows[d].specCount - (IF d \in DocsOf(map) THEN 1 ELSE 0)
             /\ after[d].specCount = rows[d].specCount
             /\ Earlier(after[d], <<>>, d) = rows[d].specCount
    <2>1. d \in ToSet(list) /\ d \in Docs
        <3>1. list = OrDocs(left, map)
            BY DEF OrInv
        <3>2. ToSet(list) = DocsOf(left) \cup DocsOf(map)
            BY <1>1, <3>1, OrDocsFacts
        <3> QED
            BY <1>1, <1>2, <3>2
    <2>2. RowInv(rows[d], left, map, d, n)
        BY <2>1 DEF OrInv
    <2>3. rows[d].specCount \in Int
        BY <2>2 DEF RowInv
    <2>4. after[d].specCount = rows[d].specCount
        BY <2>1 DEF Flushing
    <2>5. Earlier(after[d], <<>>, d) = rows[d].specCount - 0
        BY <2>4, EmptyMap DEF Earlier, NothingMet
    <2> QED
        BY <2>2, <2>3, <2>4, <2>5 DEF RowInv, Earlier
<1>4. /\ DocsOf(kept) = {d \in DocsOf(left) : Earlier(rows[d], map, d) = n - 1}
      /\ \A d \in DocsOf(kept) : EntryOf(kept, d) = EntryOf(left, d)
    BY DEF AndInv
<1>5. IsMapOf(both, AndDocs(kept, map), EntrySums(kept, map))
      /\ ToSet(AndDocs(kept, map)) = DocsOf(kept) \cap DocsOf(map)
    BY <1>1, MergedAndIs
<1>6. /\ IsMap(both) /\ DocSeq(both) = AndDocs(kept, map)
      /\ DocsOf(both) = DocsOf(kept) \cap DocsOf(map)
      /\ \A d \in DocsOf(both) : EntryOf(both, d) = Merged(Held(kept, d), Held(map, d))
    <2>1. \A d \in Docs : EntrySums(kept, map)[d] = Merged(Held(kept, d), Held(map, d))
        BY <1>1, EntrySumsType
    <2> QED
        BY <1>1, <1>5, <2>1 DEF IsMapOf
<1> HIDE DEF all, both
<1>7. DocsOf(both) = {d \in DocsOf(all) : Earlier(after[d], <<>>, d) = n}
    <2>1. ASSUME NEW d \in DocsOf(all)
          PROVE  d \in DocsOf(both) <=> Earlier(after[d], <<>>, d) = n
        <3>1. CASE d \in DocsOf(map)
            BY <1>3, <1>4, <1>6, <2>1, <3>1
        <3>2. CASE d \notin DocsOf(map)
            BY <1>3, <1>6, <2>1, <3>2
        <3> QED
            BY <3>1, <3>2
    <2> QED
        BY <1>2, <1>4, <1>6, <2>1
<1>8. ASSUME NEW d \in DocsOf(both)
      PROVE  EntryOf(both, d) = EntryOf(all, d)
    <2>1. d \in DocsOf(kept) /\ d \in DocsOf(left) /\ d \in DocsOf(all)
        BY <1>2, <1>4, <1>6
    <2>2. Held(kept, d) = Held(left, d)
        BY <1>4, <2>1 DEF Held
    <2> QED
        BY <1>2, <1>6, <2>1, <2>2
<1>9. AndInv(both, all, <<>>, n + 1, after)
    <2>1. (n + 1) - 1 = n
        OBVIOUS
    <2> QED
        BY <1>6, <1>7, <1>8, <2>1 DEF AndInv
<1>10. InOrder(DocSeq(both), DocSeq(map), after, n)
    <2>1. ASSUME NEW i \in DOMAIN map
          PROVE  map[i].doc \in DocsOf(kept) <=> after[map[i].doc].specCount = n
        <3>1. map[i].doc \in DocsOf(map) /\ map[i].doc \in DocsOf(all)
            BY <1>2 DEF DocsOf
        <3> QED
            BY <1>3, <1>4, <3>1
    <2>2. DOMAIN DocSeq(map) = DOMAIN map /\ \A i \in DOMAIN map : DocSeq(map)[i] = map[i].doc
        BY DEF DocSeq
    <2>3. {i \in DOMAIN map : map[i].doc \in DocsOf(kept)} =
              {i \in DOMAIN DocSeq(map) : after[DocSeq(map)[i]].specCount = n}
        BY <2>1, <2>2
    <2> QED
        BY <1>6, <2>3 DEF AndDocs, InOrder
<1> QED
    BY <1>9, <1>10 DEF all, both

\* flush_spec of a later spec, against the difference.
LEMMA AndNotFlushed ==
    ASSUME NEW left, NEW slot \in Nat, NEW map, NEW n \in Nat, n > 1, NEW list, NEW rows,
           OrInv(left, map, slot, n, list, rows),
           NEW kept, AndNotInv(kept, left, map, rows),
           NEW after, Flushing(rows, map, after)
    PROVE  AndNotInv(MergedAndNot(kept, map), MergedOr(left, map), <<>>, after)
<1> DEFINE all == MergedOr(left, map)
           at == FirstOnly(left, map, rows)
           still == {i \in at : left[i].doc \notin DocsOf(map)}
           m == Len(left)
<1>1. /\ IsMap(left) /\ IsMap(map) /\ DocsOf(left) \subseteq Docs /\ list = OrDocs(left, map)
      /\ left \in Seq(Entry) /\ m \in Nat /\ DOMAIN left = 1 .. m
    <2>1. IsMap(left) /\ IsMap(map) /\ list = OrDocs(left, map)
        BY DEF OrInv, IsSpecMap
    <2> QED
        BY <2>1, DocSeqFacts DEF IsMap
<1>2. /\ IsMap(all) /\ DocsOf(all) = DocsOf(left) \cup DocsOf(map)
      /\ \A d \in DocsOf(all) : EntryOf(all, d) = Merged(Held(left, d), Held(map, d))
      /\ DocSeq(all) = list
    <2>1. IsMap(left) /\ IsSpecMap(map, slot)
        BY DEF OrInv
    <2>2. UnionHolds(left, map) /\ DocSeq(all) = list /\ IsMap(all)
        BY <1>1, <2>1, MergedOrHolds
    <2> QED
        BY <2>2 DEF UnionHolds
<1>3. ASSUME NEW d \in DocsOf(all)
      PROVE  /\ rows[d].specCount \in Int /\ Earlier(rows[d], map, d) \in 0 .. n - 1
             /\ rows[d].firstSpec \in 1 .. n
             /\ d \in DocsOf(left) <=> Earlier(rows[d], map, d) > 0
             /\ d \in DocsOf(left) <=> rows[d].firstSpec < n
             /\ Earlier(rows[d], map, d) = rows[d].specCount - (IF d \in DocsOf(map) THEN 1 ELSE 0)
             /\ after[d].firstSpec = rows[d].firstSpec
             /\ Earlier(after[d], <<>>, d) = rows[d].specCount
    <2>1. d \in ToSet(list) /\ d \in Docs
        <3>1. ToSet(list) = DocsOf(all) /\ DocsOf(all) \subseteq Docs
            BY <1>2, DocSeqFacts
        <3> QED
            BY <3>1
    <2>2. RowInv(rows[d], left, map, d, n)
        BY <2>1 DEF OrInv
    <2>3. rows[d].specCount \in Int
        BY <2>2 DEF RowInv
    <2>4. after[d].specCount = rows[d].specCount /\ after[d].firstSpec = rows[d].firstSpec
        BY <2>1 DEF Flushing
    <2>5. Earlier(after[d], <<>>, d) = rows[d].specCount - 0
        BY <2>4, EmptyMap DEF Earlier, NothingMet
    <2> QED
        BY <2>2, <2>3, <2>4, <2>5 DEF RowInv, Earlier
<1>4. at = {i \in DOMAIN left : rows[left[i].doc].firstSpec = 1
                /\ Earlier(rows[left[i].doc], map, left[i].doc) = 1}
    BY DEF FirstOnly
<1>5. FirstOnly(all, <<>>, after) = {i \in DOMAIN all : after[all[i].doc].firstSpec = 1
                /\ Earlier(after[all[i].doc], <<>>, all[i].doc) = 1}
    BY DEF FirstOnly
<1>6. MergedAndNot(kept, map) = Selected(kept, {k \in DOMAIN kept : kept[k].doc \notin DocsOf(map)})
    BY DEF MergedAndNot
<1> HIDE DEF all, at
<1>7. /\ DOMAIN left \subseteq DOMAIN all
      /\ \A i \in DOMAIN left : all[i].doc = left[i].doc
      /\ \A i \in DOMAIN all : i \notin DOMAIN left => all[i].doc \notin DocsOf(left)
    <2> DEFINE old == DocSeq(left)
               own == DocSeq(map)
               added == Selected(own, NewDocs(left, map))
    <2>1. list = old \o added
        BY <1>1 DEF OrDocs
    <2>2. /\ old \in Seq(Docs) /\ DOMAIN old = DOMAIN left /\ own \in Seq(Docs)
          /\ DOMAIN own = DOMAIN map
        BY <1>1, DocSeqFacts
    <2>3. added \in Seq(Docs) /\ Holds(own, NewDocs(left, map), added)
        BY <2>2, SelectedType DEF NewDocs
    <2>4. \A k \in DOMAIN added : added[k] \notin DocsOf(left)
        BY <2>3 DEF Holds, NewDocs, DocSeq
    <2>5. /\ DOMAIN all = DOMAIN list
          /\ \A i \in DOMAIN all : list[i] = all[i].doc
          /\ \A i \in DOMAIN left : old[i] = left[i].doc
        BY <1>2 DEF DocSeq
    <2> HIDE DEF old, own, added
    <2>6. Joined(old, added, list)
        BY <2>1, <2>2, <2>3, Concatenated
    <2>7. list \in Seq(Docs)
        BY <1>1, OrDocsFacts
    <2>8. Len(old) = m /\ Len(added) \in Nat /\ DOMAIN added = 1 .. Len(added)
        BY <1>1, <2>2, <2>3
    <2>9. /\ DOMAIN list = 1 .. m + Len(added)
          /\ \A i \in 1 .. m : list[i] = old[i]
          /\ \A k \in 1 .. Len(added) : list[m + k] = added[k]
        BY <2>6, <2>7, <2>8 DEF Joined
    <2>10. DOMAIN left \subseteq DOMAIN all /\ \A i \in DOMAIN left : all[i].doc = left[i].doc
        BY <1>1, <2>5, <2>8, <2>9
    <2>11. ASSUME NEW i \in DOMAIN all, i \notin DOMAIN left
           PROVE  all[i].doc \notin DocsOf(left)
        <3>1. i - m \in 1 .. Len(added) /\ i = m + (i - m)
            BY <1>1, <2>5, <2>8, <2>9, <2>11
        <3>2. list[m + (i - m)] = added[i - m]
            BY <2>9, <3>1
        <3> QED
            BY <2>4, <2>5, <2>8, <3>1, <3>2
    <2> QED
        BY <2>10, <2>11
<1>8. FirstOnly(all, <<>>, after) = still
    <2>1. ASSUME NEW i \in DOMAIN all
          PROVE  i \in FirstOnly(all, <<>>, after) <=> i \in still
        <3> DEFINE d == all[i].doc
        <3>1. d \in DocsOf(all)
            BY DEF DocsOf
        <3>2. i \in FirstOnly(all, <<>>, after) <=> rows[d].firstSpec = 1 /\ rows[d].specCount = 1
            BY <1>3, <1>5, <3>1
        <3>3. CASE i \in DOMAIN left
            <4>1. left[i].doc = d /\ d \in DocsOf(left)
                BY <1>7, <3>3 DEF DocsOf
            <4>2. i \in still <=> /\ rows[d].firstSpec = 1 /\ Earlier(rows[d], map, d) = 1
                                  /\ d \notin DocsOf(map)
                BY <1>4, <3>3, <4>1
            <4> HIDE DEF d, still
            <4>3. Earlier(rows[d], map, d) > 0 /\ Earlier(rows[d], map, d) \in Int
                  /\ Earlier(rows[d], map, d) = rows[d].specCount - (IF d \in DocsOf(map) THEN 1 ELSE 0)
                  /\ rows[d].specCount \in Int
                BY <1>3, <3>1, <4>1
            <4>4. CASE d \in DocsOf(map)
                BY <3>2, <4>2, <4>3, <4>4
            <4>5. CASE d \notin DocsOf(map)
                BY <3>2, <4>2, <4>3, <4>5
            <4> QED
                BY <4>4, <4>5
        <3>4. CASE i \notin DOMAIN left
            <4>1. d \notin DocsOf(left)
                BY <1>7, <3>4
            <4>2. rows[d].firstSpec \in 1 .. n /\ ~(rows[d].firstSpec < n)
                BY <1>3, <3>1, <4>1
            <4>3. rows[d].firstSpec # 1
                BY <4>2
            <4>4. i \notin still
                BY <1>4, <3>4
            <4> QED
                BY <3>2, <4>3, <4>4
        <3> QED
            BY <3>3, <3>4
    <2>2. FirstOnly(all, <<>>, after) \subseteq DOMAIN all /\ still \subseteq DOMAIN all
        BY <1>4, <1>5, <1>7
    <2> QED
        BY <2>1, <2>2
<1>9. \A i \in still : all[i] = left[i]
    <2>1. ASSUME NEW i \in still PROVE all[i] = left[i]
        <3> DEFINE d == left[i].doc
        <3>1. i \in DOMAIN left /\ i \in DOMAIN all /\ d \notin DocsOf(map) /\ all[i].doc = d
              /\ d \in DocsOf(left) /\ d \in Docs
            BY <1>1, <1>4, <1>7 DEF DocsOf
        <3>2. EntryOf(all, all[i].doc) = all[i] /\ EntryOf(left, left[i].doc) = left[i]
              /\ all[i].doc \in DocsOf(all)
            BY <1>1, <1>2, <3>1, EntryFound
        <3>3. Held(left, d) = left[i] /\ Held(map, d) = Blank(d)
            BY <3>1, <3>2 DEF Held
        <3>4. all[i] = Merged(left[i], Blank(d))
            BY <1>2, <3>1, <3>2, <3>3
        <3>5. IsEntry(left[i], d)
            BY <1>1, <3>1, <3>3, HeldType
        <3>6. Merged(left[i], Blank(d)) = left[i]
            BY <3>5, MergedBlank
        <3> QED
            BY <3>4, <3>6
    <2> QED
        BY <2>1
<1>10. MergedAndNot(kept, map) = Selected(left, still)
    <2>1. at \in SUBSET (1 .. m) /\ kept = Selected(left, at)
        BY <1>1, <1>4 DEF AndNotInv, at
    <2>q. PICK q \in Nat : \E f : Lists(at, q, f)
        BY <1>1, <2>1, SelectedLists
    <2>2. PICK f : Lists(at, q, f)
        BY <2>q
    <2>3. kept = [k \in 1 .. q |-> left[f[k]]]
        <3>1. Follows(left, at, q, f)
            BY <1>1, <2>1, <2>2, SelectedIs
        <3> QED
            BY <2>1, <3>1 DEF Follows
    <2> DEFINE again == {k \in 1 .. q : left[f[k]].doc \notin DocsOf(map)}
    <2>4. {k \in DOMAIN kept : kept[k].doc \notin DocsOf(map)} = again
        BY <2>3
    <2>5. {f[k] : k \in again} = still
        <3>1. \A k \in 1 .. q : f[k] \in at
            BY <2>2 DEF Lists
        <3>2. \A i \in at : \E k \in 1 .. q : f[k] = i
            BY <2>2 DEF Lists
        <3> QED
            BY <3>1, <3>2
    <2> HIDE DEF again, still
    <2>6. again \in SUBSET (1 .. q)
        BY DEF again
    <2>7. Selected(Selected(left, at), again) = Selected(left, {f[k] : k \in again})
        <3>1. left \in Seq(Entry) /\ at \in SUBSET DOMAIN left
            BY <1>1, <2>1
        <3> QED
            BY <2>2, <2>6, <3>1, SelectedNested
    <2> QED
        BY <1>6, <2>1, <2>4, <2>5, <2>7
<1>11. Selected(left, still) = Selected(all, still)
    <2>1. still \in SUBSET (1 .. m)
        BY <1>1, <1>4
    <2> HIDE DEF still
    <2> QED
        BY <1>1, <1>9, <2>1, SelectedSame
<1> HIDE DEF still
<1> QED
    BY <1>8, <1>10, <1>11 DEF AndNotInv, all

----------------------------------------------------------------------------
(* The inductive invariant of the two paths.                               *)

\* The maps merged before the spec in progress, its own map, its query term and its
\* number; between two specs, the next one's.
Before == IF phase = "spec" THEN [i \in 1 .. Len(results) - 1 |-> results[i]] ELSE results
\* The current spec's own map, its slot and its number; between two specs an empty
\* map, and the number of the next one.
Ours == IF phase = "spec" THEN results[Len(results)] ELSE <<>>
OurSlot == IF phase = "spec" THEN specs[Len(specs)] ELSE 0
Number == IF phase = "spec" THEN Len(specs) ELSE Len(specs) + 1

\* The finished specs, combined.
SoFar(mode) == Combined(mode, Before)

\* The query terms counted for a document are those of its list.
CountedTerms ==
    \A d \in Docs, slot \in 0 .. MaxSpecs :
        FirstMatch(d, slot) <=> slot \notin ToSet(Fresh(d).querySlots)

\* The other two combinations, from the second spec on.
OthersInv ==
    Before # <<>> =>
        /\ AndInv(SoFar("AND"), SoFar("OR"), Ours, Number, slots)
        /\ AndNotInv(SoFar("AND_NOT"), SoFar("OR"), Ours, slots)

\* Between two specs, the intersection has the order of the fused pass's candidates.
OrderInv ==
    phase = "query" /\ results # <<>> =>
        InOrder(DocSeq(SoFar("AND")), Candidates("AND"), slots, Len(specs))

\* The inductive invariant: of a query in progress, of the specs, and of both.
PassInv ==
    /\ OrInv(SoFar("OR"), Ours, OurSlot, Number, touched, slots)
    /\ phase = "spec" => specTouched = DocSeq(Ours)
    /\ CountedTerms /\ OthersInv /\ OrderInv

SpecsInv == specs \in Seq(0 .. MaxSpecs)

BothInv == SpecsInv /\ (phase # "idle" => PassInv)

\* begin_query: no maps, no documents.
LEMMA BeginQueryStep ==
    ASSUME StampInv, TablesInv, StampInv', TablesInv', BeginQuery
    PROVE  BothInv'
<1>1. /\ phase' = "query" /\ touched' = <<>> /\ wideTerms' = {} /\ specs' = <<>>
      /\ results' = <<>> /\ slots' = slots
    BY DEF BeginQuery
<1>2. Before' = <<>> /\ Ours' = <<>> /\ OurSlot' = 0 /\ Number' = 1
    <2>1. Len(<<>>) + 1 = 1
        OBVIOUS
    <2> QED
        BY <1>1, <2>1 DEF Before, Ours, OurSlot, Number
<1>3. (SoFar("OR"))' = <<>>
    <2>1. (SoFar("OR"))' = Combined("OR", <<>>)
        BY <1>2 DEF SoFar
    <2> QED
        BY <2>1, CombinedEmpty
<1>4. OrInv(<<>>, <<>>, 0, 1, <<>>, slots')
    <2>1. IsMap(<<>>) /\ IsSpecMap(<<>>, 0)
        BY EmptyMap DEF NothingMet, IsSpecMap
    <2>2. OrDocs(<<>>, <<>>) = <<>>
        <3>1. OrDocs(<<>>, <<>>) = DocSeq(<<>>)
            BY <2>1, OrDocsNothing
        <3> QED
            BY <3>1 DEF DocSeq
    <2> QED
        BY <2>1, <2>2, ToSetEmpty DEF OrInv
<1>5. CountedTerms'
    <2> SUFFICES ASSUME NEW d \in Docs, NEW slot \in 0 .. MaxSpecs
                 PROVE  (FirstMatch(d, slot) <=> slot \notin ToSet(Fresh(d).querySlots))'
        BY DEF CountedTerms
    <2>1. generation'[d] # queryCounter'
        BY <1>1, ToSetEmpty DEF StampInv, Current
    <2>2. Fresh(d)' = [score |-> <<>>, specScore |-> slots'[d].specScore, match |-> <<>>,
                       specCount |-> 0, slotMask |-> {}, querySlots |-> <<>>,
                       firstSpec |-> Len(specs')]
        BY <2>1 DEF Fresh
    <2>3. (Fresh(d).slotMask)' = {} /\ (Fresh(d).querySlots)' = <<>>
        BY <2>2
    <2> QED
        BY <1>1, <2>3, ToSetEmpty DEF FirstMatch
<1>6. OthersInv' /\ OrderInv'
    BY <1>1, <1>2 DEF OthersInv, OrderInv
<1>7. PassInv'
    BY <1>1, <1>2, <1>3, <1>4, <1>5, <1>6 DEF PassInv
<1>8. SpecsInv'
    <2>1. <<>> \in Seq(0 .. MaxSpecs)
        OBVIOUS
    <2> QED
        BY <1>1, <2>1 DEF SpecsInv
<1> QED
    BY <1>7, <1>8 DEF BothInv

\* The maps before the last one.
LEMMA AppendLast ==
    ASSUME NEW s, NEW n \in Nat, IsSequence(s, n), NEW x
    PROVE  /\ [i \in 1 .. Len(Append(s, x)) - 1 |-> Append(s, x)[i]] = s
           /\ Append(s, x)[Len(Append(s, x))] = x /\ Append(s, x) # <<>>
<1> DEFINE S == {s[i] : i \in 1 .. n} \cup {x}
<1>1. [i \in 1 .. n |-> s[i]] \in Seq(S) /\ Len([i \in 1 .. n |-> s[i]]) = n
    OBVIOUS
<1>2. s \in Seq(S) /\ Len(s) = n /\ x \in S
    BY <1>1 DEF IsSequence
<1> HIDE DEF S
<1>3. /\ Len(Append(s, x)) = n + 1 /\ Append(s, x)[n + 1] = x /\ Append(s, x) # <<>>
      /\ \A i \in 1 .. n : Append(s, x)[i] = s[i]
    BY <1>2, AppendProperties
<1>4. Len(Append(s, x)) - 1 = n
    BY <1>3
<1>5. [i \in 1 .. n |-> Append(s, x)[i]] = [i \in 1 .. n |-> s[i]]
    BY <1>3
<1> QED
    BY <1>3, <1>4, <1>5 DEF IsSequence

\* begin_spec: an empty map more, and nothing else that counts.
LEMMA BeginSpecStep ==
    ASSUME StampInv, TablesInv, TablesInv', BothInv, NEW slot \in 0 .. MaxSpecs, BeginSpec(slot)
    PROVE  BothInv'
<1>1. /\ phase = "query" /\ phase' = "spec" /\ specs' = Append(specs, slot)
      /\ results' = Append(results, <<>>) /\ specTouched' = <<>>
      /\ generation' = generation /\ queryCounter' = queryCounter
      /\ slots' = slots /\ wideTerms' = wideTerms /\ touched' = touched
    BY DEF BeginSpec
<1>2. PassInv /\ specs \in Seq(0 .. MaxSpecs)
    BY <1>1 DEF BothInv, SpecsInv
<1>3. /\ Append(specs, slot) \in Seq(0 .. MaxSpecs) /\ Len(Append(specs, slot)) = Len(specs) + 1
      /\ Append(specs, slot)[Len(specs) + 1] = slot /\ Len(specs) \in Nat
    BY <1>2
<1>4. IsSequence(results, Len(specs))
    BY DEF TablesInv
<1>5. Before' = results /\ Ours' = <<>> /\ OurSlot' = slot /\ Number' = Len(specs) + 1
    <2>1. /\ [i \in 1 .. Len(Append(results, <<>>)) - 1 |-> Append(results, <<>>)[i]] = results
          /\ Append(results, <<>>)[Len(Append(results, <<>>))] = <<>>
        BY <1>3, <1>4, AppendLast
    <2> QED
        BY <1>1, <1>3, <2>1 DEF Before, Ours, OurSlot, Number
<1>6. Before = results /\ Ours = <<>> /\ Number = Len(specs) + 1
    BY <1>1 DEF Before, Ours, Number
<1>7. \A mode : (SoFar(mode))' = SoFar(mode)
    BY <1>5, <1>6 DEF SoFar
<1>8. OrInv(SoFar("OR"), <<>>, slot, Len(specs) + 1, touched, slots)
    <2>1. OrInv(SoFar("OR"), <<>>, OurSlot, Len(specs) + 1, touched, slots)
        BY <1>2, <1>6 DEF PassInv
    <2>2. IsSpecMap(<<>>, slot)
        BY EmptyMap DEF NothingMet, IsSpecMap
    <2> QED
        BY <2>1, <2>2 DEF OrInv
<1>9. CountedTerms'
    <2> SUFFICES ASSUME NEW d \in Docs, NEW x \in 0 .. MaxSpecs
                 PROVE  (FirstMatch(d, x) <=> x \notin ToSet(Fresh(d).querySlots))'
        BY DEF CountedTerms
    <2>1. FirstMatch(d, x) <=> x \notin ToSet(Fresh(d).querySlots)
        BY <1>2 DEF PassInv, CountedTerms
    <2>2. (Fresh(d).slotMask)' = Fresh(d).slotMask /\ (Fresh(d).querySlots)' = Fresh(d).querySlots
        BY <1>1 DEF Fresh
    <2> QED
        BY <1>1, <2>1, <2>2 DEF FirstMatch
<1>10. OthersInv'
    <2>1. Before # <<>> => /\ AndInv(SoFar("AND"), SoFar("OR"), <<>>, Len(specs) + 1, slots)
                           /\ AndNotInv(SoFar("AND_NOT"), SoFar("OR"), <<>>, slots)
        BY <1>2, <1>6 DEF PassInv, OthersInv
    <2> QED
        BY <1>1, <1>5, <1>6, <1>7, <2>1 DEF OthersInv
<1>11. OrderInv'
    BY <1>1 DEF OrderInv
<1>12. specTouched' = DocSeq(Ours)'
    BY <1>1, <1>5 DEF DocSeq
<1>13. PassInv'
    BY <1>1, <1>5, <1>7, <1>8, <1>9, <1>10, <1>11, <1>12 DEF PassInv
<1>14. SpecsInv'
    BY <1>1, <1>3 DEF SpecsInv
<1> QED
    BY <1>13, <1>14 DEF BothInv

\* A document not met in the query yet has fresh slots, which agree with no entry.
LEMMA FreshRow ==
    ASSUME StampInv, TablesInv, BothInv, phase = "spec", NEW d \in Docs
    PROVE  /\ RowInv(Fresh(d), SoFar("OR"), Ours, d, Len(specs))
           /\ d \in ToSet(touched) => Fresh(d) = slots[d]
           /\ d \in ToSet(touched) <=> d \in DocsOf(SoFar("OR")) \cup DocsOf(Ours)
<1> DEFINE n == Len(specs)
           left == SoFar("OR")
<1>1. OrInv(left, Ours, OurSlot, n, touched, slots)
    BY DEF BothInv, PassInv, Number
<1>2. /\ IsMap(left) /\ IsMap(Ours) /\ touched = OrDocs(left, Ours)
      /\ \A other \in ToSet(touched) : RowInv(slots[other], left, Ours, other, n)
    BY <1>1 DEF OrInv, IsSpecMap
<1>3. ToSet(touched) = DocsOf(left) \cup DocsOf(Ours)
    BY <1>2, OrDocsFacts
<1>4. generation[d] = queryCounter <=> d \in ToSet(touched)
    BY DEF StampInv, Current
<1>5. n \in Nat /\ n > 0
    BY DEF TablesInv
<1>6. CASE d \in ToSet(touched)
    BY <1>2, <1>3, <1>4, <1>6 DEF Fresh
<1>7. CASE d \notin ToSet(touched)
    <2> DEFINE row == [score |-> <<>>, specScore |-> slots[d].specScore, match |-> <<>>,
                       specCount |-> 0, slotMask |-> {}, querySlots |-> <<>>, firstSpec |-> n]
    <2>1. Fresh(d) = row
        BY <1>4, <1>7 DEF Fresh
    <2>2. Held(left, d) = Blank(d) /\ Held(Ours, d) = Blank(d)
        BY <1>3, <1>7 DEF Held
    <2>3. /\ row.score = <<>> /\ row.querySlots = <<>> /\ row.match = <<>>
          /\ row.specCount = 0 /\ row.firstSpec = n
        OBVIOUS
    <2> HIDE DEF row, left
    <2>4. Agrees(row, Blank(d), Blank(d), n)
        BY <2>3, AgreesNothing
    <2>5. Earlier(row, Ours, d) = 0
        <3>1. d \notin DocsOf(Ours)
            BY <1>3, <1>7
        <3>2. Earlier(row, Ours, d) = row.specCount - 0
            BY <3>1 DEF Earlier
        <3> QED
            BY <2>3, <3>2
    <2>6. RowInv(row, left, Ours, d, n)
        BY <1>3, <1>5, <1>7, <2>2, <2>3, <2>4, <2>5 DEF RowInv
    <2> QED
        BY <1>3, <1>7, <2>1, <2>6 DEF left
<1> QED
    BY <1>6, <1>7

\* The last of a list is one of it.
LEMMA LastIn ==
    ASSUME NEW S, NEW s \in Seq(S), s # <<>>
    PROVE  Len(s) \in 1 .. Len(s) /\ s[Len(s)] \in S
OBVIOUS

\* A document has the spec's stamp when the spec's map has it: by StampInv and the
\* agreement of spec_touched with the map.
LEMMA SpecMet ==
    ASSUME StampInv, TablesInv, BothInv, phase = "spec"
    PROVE  /\ \A d \in Docs : specGeneration[d] = specCounter <=> d \in DocsOf(Ours)
           /\ OurSlot \in 0 .. MaxSpecs /\ OurSlot = Last(specs)
<1>1. ASSUME NEW d \in Docs PROVE specGeneration[d] = specCounter <=> d \in DocsOf(Ours)
    <2>1. specGeneration[d] = specCounter <=> d \in ToSet(specTouched)
        BY DEF StampInv, Current
    <2>2. specTouched = DocSeq(Ours) /\ IsMap(Ours)
        BY DEF BothInv, PassInv, OrInv, IsSpecMap
    <2>3. ToSet(DocSeq(Ours)) = DocsOf(Ours)
        BY <2>2, DocSeqFacts
    <2> QED
        BY <2>1, <2>2, <2>3
<1>2. OurSlot \in 0 .. MaxSpecs
    <2>1. specs \in Seq(0 .. MaxSpecs) /\ specs # <<>>
        BY DEF BothInv, SpecsInv, TablesInv
    <2>2. specs[Len(specs)] \in 0 .. MaxSpecs
        BY <2>1, LastIn
    <2> QED
        BY <2>2 DEF OurSlot
<1>3. OurSlot = Last(specs)
    BY DEF OurSlot, Last
<1> QED
    BY <1>1, <1>2, <1>3

\* What a posting's slots become is what AgreesPosted asks of them.
LEMMA ScoredRow ==
    ASSUME StampInv, TablesInv, BothInv, phase = "spec", NEW hit \in Hit
    PROVE  Counting(Fresh(hit.doc), Ours, hit, OurSlot, Scored(Touched(hit.doc, OurSlot), hit))
<1> DEFINE d == hit.doc
           row == Fresh(d)
           next == Scored(Touched(d, OurSlot), hit)
           old == Touched(d, OurSlot)
<1>1. d \in Docs
    BY DEF Hit
<1>2. specGeneration[d] = specCounter <=> d \in DocsOf(Ours)
    BY <1>1, SpecMet
<1>3. OurSlot \in 0 .. MaxSpecs
    BY SpecMet
<1>4. FirstMatch(d, OurSlot) <=> OurSlot \notin ToSet(row.querySlots)
    BY <1>1, <1>3 DEF BothInv, PassInv, CountedTerms
<1>5. row.querySlots \in Seq(Nat) /\ row.specCount \in Int
    <2>1. RowInv(row, SoFar("OR"), Ours, d, Len(specs))
        BY <1>1, FreshRow
    <2>2. IsMap(SoFar("OR")) /\ IsMap(Ours)
        BY DEF BothInv, PassInv, OrInv, IsSpecMap
    <2>3. IsEntry(Held(SoFar("OR"), d), d) /\ IsEntry(Held(Ours, d), d)
        BY <1>1, <2>2, HeldType
    <2>4. Held(SoFar("OR"), d).terms \in Seq(Nat) /\ Held(Ours, d).terms \in Seq(Nat)
        BY <2>3 DEF IsEntry, Entry
    <2>5. row.querySlots = AssignUnique(Held(SoFar("OR"), d).terms, Held(Ours, d).terms)
        BY <2>1 DEF RowInv, Agrees
    <2> QED
        BY <2>1, <2>4, <2>5, UniqueType DEF RowInv
<1> HIDE DEF row, d
<1>6. /\ old.score = row.score /\ old.match = row.match /\ old.firstSpec = row.firstSpec
      /\ old.specCount = row.specCount + (IF d \in DocsOf(Ours) THEN 0 ELSE 1)
      /\ old.specScore = IF d \in DocsOf(Ours) THEN row.specScore ELSE <<>>
      /\ IF d \in DocsOf(Ours) \/ OurSlot \in ToSet(row.querySlots)
         THEN old.querySlots = row.querySlots ELSE old.querySlots = Append(row.querySlots, OurSlot)
    <2>1. CASE d \in DocsOf(Ours)
        <3>1. old = row
            BY <1>2, <2>1 DEF Touched, row
        <3> HIDE DEF old
        <3> QED
            BY <1>5, <2>1, <3>1
    <2>2. CASE d \notin DocsOf(Ours)
        <3>1. old = [score |-> row.score, specScore |-> <<>>, match |-> row.match,
                     specCount |-> row.specCount + 1,
                     slotMask |-> row.slotMask \cup IF OurSlot < MaskBits THEN {OurSlot} ELSE {},
                     querySlots |-> row.querySlots \o
                                        IF FirstMatch(d, OurSlot) THEN <<OurSlot>> ELSE <<>>,
                     firstSpec |-> row.firstSpec]
            BY <1>2, <2>2 DEF Touched, row
        <3>2. row.querySlots \o <<>> = row.querySlots
              /\ row.querySlots \o <<OurSlot>> = Append(row.querySlots, OurSlot)
            <4>1. OurSlot \in Nat
                BY <1>3, LimitsAssumption
            <4> QED
                BY <1>5, <4>1
        <3> HIDE DEF old
        <3>3. old.querySlots = row.querySlots \o
                                   IF FirstMatch(d, OurSlot) THEN <<OurSlot>> ELSE <<>>
            BY <3>1
        <3> QED
            BY <1>4, <2>2, <3>1, <3>2, <3>3 DEF row
    <2> QED
        BY <2>1, <2>2
<1>7. next = [score |-> old.score, specScore |-> Append(old.specScore, PostingOf(hit)),
              match |-> RecordTerm(old.match, hit), specCount |-> old.specCount,
              slotMask |-> old.slotMask, querySlots |-> old.querySlots,
              firstSpec |-> old.firstSpec]
    BY DEF Scored, PostingOf
<1> HIDE DEF old, next
<1>8. Counting(row, Ours, hit, OurSlot, next)
    BY <1>6, <1>7 DEF Counting, d
<1> QED
    BY <1>8 DEF row, next, old, d

\* accumulate_dense: the query term is counted once for the document.
LEMMA CountedPosted ==
    ASSUME StampInv, TablesInv, BothInv, NEW hit \in Hit, Accumulate(hit)
    PROVE  CountedTerms'
<1> DEFINE d == hit.doc
           row == Fresh(d)
           next == Scored(Touched(d, OurSlot), hit)
           taken == IF d \notin DocsOf(Ours) THEN {OurSlot} ELSE {}
<1>0. d \in Docs /\ phase = "spec" /\ DOMAIN slots = Docs
      /\ generation \in [Docs -> Nat]
    BY DEF Hit, Accumulate, TablesInv, StampInv, Bounded
<1>1. /\ \A e \in Docs : specGeneration[e] = specCounter <=> e \in DocsOf(Ours)
      /\ OurSlot \in 0 .. MaxSpecs /\ OurSlot = Last(specs)
    BY <1>0, SpecMet
<1>2. /\ generation' = [generation EXCEPT ![d] = queryCounter] /\ queryCounter' = queryCounter
      /\ slots' = [slots EXCEPT ![d] = next]
      /\ wideTerms' = IF specGeneration[d] # specCounter /\ OurSlot >= MaskBits
                      THEN wideTerms \cup {<<d, OurSlot>>} ELSE wideTerms
    BY <1>1 DEF Accumulate
<1>3. Counting(row, Ours, hit, OurSlot, next)
    BY <1>0, ScoredRow
<1>4. \A e \in Docs, x \in 0 .. MaxSpecs : FirstMatch(e, x) <=> x \notin ToSet(Fresh(e).querySlots)
    BY <1>0 DEF BothInv, PassInv, CountedTerms
<1>5. next.slotMask = row.slotMask \cup IF OurSlot < MaskBits THEN taken ELSE {}
    <2>1. next.slotMask = Touched(d, OurSlot).slotMask
        BY DEF Scored
    <2>2. CASE d \in DocsOf(Ours)
        BY <1>0, <1>1, <2>1, <2>2 DEF Touched
    <2>3. CASE d \notin DocsOf(Ours)
        <3>1. specGeneration[d] # specCounter
            BY <1>0, <1>1, <2>3
        <3>2. Touched(d, OurSlot).slotMask = row.slotMask \cup IF OurSlot < MaskBits THEN {OurSlot} ELSE {}
            BY <3>1 DEF Touched
        <3> QED
            BY <2>1, <2>3, <3>2
    <2> QED
        BY <2>2, <2>3
<1>6. \A x \in 0 .. MaxSpecs :
          x \in ToSet(next.querySlots) <=> x \in ToSet(row.querySlots) \cup taken
    <2>1. row.querySlots \in Seq(Nat)
        <3>1. RowInv(row, SoFar("OR"), Ours, d, Len(specs))
            BY <1>0, FreshRow
        <3>2. IsMap(SoFar("OR")) /\ IsMap(Ours)
            BY <1>0 DEF BothInv, PassInv, OrInv, IsSpecMap
        <3>3. IsEntry(Held(SoFar("OR"), d), d) /\ IsEntry(Held(Ours, d), d)
            BY <1>0, <3>2, HeldType
        <3>4. Held(SoFar("OR"), d).terms \in Seq(Nat) /\ Held(Ours, d).terms \in Seq(Nat)
            BY <3>3 DEF IsEntry, Entry
        <3>5. row.querySlots = AssignUnique(Held(SoFar("OR"), d).terms, Held(Ours, d).terms)
            BY <3>1 DEF RowInv, Agrees
        <3> QED
            BY <3>4, <3>5, UniqueType
    <2>2. OurSlot \in Nat
        BY <1>1, LimitsAssumption
    <2>3. ToSet(Append(row.querySlots, OurSlot)) = ToSet(row.querySlots) \cup {OurSlot}
        BY <2>1, <2>2, ToSetAppend
    <2>4. IF d \in DocsOf(Ours) \/ OurSlot \in ToSet(row.querySlots)
          THEN next.querySlots = row.querySlots ELSE next.querySlots = Append(row.querySlots, OurSlot)
        BY <1>3 DEF Counting
    <2>5. CASE d \in DocsOf(Ours)
        BY <2>4, <2>5
    <2>6. CASE d \notin DocsOf(Ours)
        BY <2>3, <2>4, <2>6
    <2> QED
        BY <2>5, <2>6
<1> HIDE DEF next, row
<1>7. ASSUME NEW e \in Docs, NEW x \in 0 .. MaxSpecs
      PROVE  (FirstMatch(e, x) <=> x \notin ToSet(Fresh(e).querySlots))'
    <2>1. CASE e # d
        <3>1. slots'[e] = slots[e] /\ generation'[e] = generation[e]
              /\ (<<e, x>> \in wideTerms' <=> <<e, x>> \in wideTerms)
            BY <1>0, <1>2, <2>1
        <3>2. (Fresh(e).slotMask)' = Fresh(e).slotMask /\ (Fresh(e).querySlots)' = Fresh(e).querySlots
            BY <1>2, <3>1 DEF Fresh
        <3>3. FirstMatch(e, x) <=> x \notin ToSet(Fresh(e).querySlots)
            BY <1>4
        <3> QED
            BY <3>1, <3>2, <3>3 DEF FirstMatch
    <2>2. CASE e = d
        <3>1. slots'[d] = next /\ generation'[d] = queryCounter'
            BY <1>0, <1>2
        <3>2. (Fresh(d))' = next
            BY <3>1 DEF Fresh
        <3>3. (FirstMatch(d, x))' <=>
                  IF x < MaskBits THEN x \notin next.slotMask ELSE <<d, x>> \notin wideTerms'
            BY <3>2 DEF FirstMatch
        <3>4. FirstMatch(d, x) <=>
                  IF x < MaskBits THEN x \notin row.slotMask ELSE <<d, x>> \notin wideTerms
            BY DEF FirstMatch, row
        <3>5. FirstMatch(d, x) <=> x \notin ToSet(row.querySlots)
            BY <1>0, <1>4 DEF row
        <3>6. x \in Int /\ OurSlot \in Int /\ MaskBits \in Int
            BY <1>1, MaskAssumption
        <3>7. ASSUME x < MaskBits
              PROVE  (FirstMatch(d, x))' <=> x \notin ToSet(next.querySlots)
            <4>1. x \in next.slotMask <=> x \in row.slotMask \/ x \in taken
                <5>1. CASE OurSlot < MaskBits
                    BY <1>5, <5>1
                <5>2. CASE ~(OurSlot < MaskBits)
                    BY <1>5, <3>6, <3>7, <5>2
                <5> QED
                    BY <5>1, <5>2
            <4> HIDE DEF taken
            <4> QED
                BY <1>6, <3>3, <3>4, <3>5, <3>7, <4>1
        <3>8. ASSUME ~(x < MaskBits)
              PROVE  (FirstMatch(d, x))' <=> x \notin ToSet(next.querySlots)
            <4>1. <<d, x>> \in wideTerms' <=> <<d, x>> \in wideTerms \/ x \in taken
                <5>1. CASE d \in DocsOf(Ours)
                    BY <1>0, <1>1, <1>2, <5>1
                <5>2. CASE d \notin DocsOf(Ours)
                    <6>1. specGeneration[d] # specCounter
                        BY <1>0, <1>1, <5>2
                    <6>2. CASE OurSlot >= MaskBits
                        BY <1>2, <5>2, <6>1, <6>2
                    <6>3. CASE ~(OurSlot >= MaskBits)
                        BY <1>2, <3>6, <3>8, <5>2, <6>3
                    <6> QED
                        BY <6>2, <6>3
                <5> QED
                    BY <5>1, <5>2
            <4> HIDE DEF taken
            <4> QED
                BY <1>6, <3>3, <3>4, <3>5, <3>8, <4>1
        <3>9. (x \notin ToSet(Fresh(d).querySlots))' <=> x \notin ToSet(next.querySlots)
            BY <3>2
        <3> QED
            BY <2>2, <3>7, <3>8, <3>9
    <2> QED
        BY <2>1, <2>2
<1> QED
    BY <1>7 DEF CountedTerms

\* The length and elements of a sequence.
LEMMA SequenceLen ==
    ASSUME NEW s, NEW n \in Nat, IsSequence(s, n)
    PROVE  /\ Len(s) = n /\ s = [i \in 1 .. n |-> s[i]] /\ (n > 0 => s # <<>>)
           /\ s \in Seq({s[i] : i \in 1 .. n})
<1> DEFINE S == {s[i] : i \in 1 .. n}
<1>1. [i \in 1 .. n |-> s[i]] \in Seq(S) /\ Len([i \in 1 .. n |-> s[i]]) = n
    OBVIOUS
<1>2. s = [i \in 1 .. n |-> s[i]]
    BY DEF IsSequence
<1>3. s \in Seq(S) /\ Len(s) = n
    BY <1>1, <1>2
<1>4. n > 0 => s # <<>>
    BY <1>3
<1> QED
    BY <1>2, <1>3, <1>4

\* accumulate_dense, and term_results.
LEMMA AccumulateStep ==
    ASSUME StampInv, TablesInv, BothInv, NEW hit \in Hit, Accumulate(hit)
    PROVE  BothInv'
<1> DEFINE d == hit.doc
           n == Len(specs)
           row == Fresh(d)
           next == Scored(Touched(d, OurSlot), hit)
           grown == WithPosting(Ours, hit, OurSlot)
<1>1. /\ phase = "spec" /\ d \in Docs /\ DOMAIN slots = Docs /\ n \in Nat /\ n > 0
      /\ IsSequence(results, n) /\ specs \in Seq(Nat) /\ specs \in Seq(0 .. MaxSpecs)
      /\ generation[d] = queryCounter <=> d \in ToSet(touched)
    BY DEF Accumulate, Hit, TablesInv, BothInv, SpecsInv, StampInv, Current
<1>2. /\ \A e \in Docs : specGeneration[e] = specCounter <=> e \in DocsOf(Ours)
      /\ OurSlot \in Nat /\ OurSlot = Last(specs)
    BY <1>1, SpecMet, LimitsAssumption
<1>3. results # <<>> /\ Len(results) = n /\ results = [i \in 1 .. n |-> results[i]]
    BY <1>1, SequenceLen
<1>4. Ours = results[n] /\ Before = [i \in 1 .. n - 1 |-> results[i]] /\ Number = n
    BY <1>1, <1>3 DEF Ours, Before, Number
<1>5. /\ results' = [results EXCEPT ![n] = grown]
      /\ slots' = [slots EXCEPT ![d] = next]
      /\ touched' = IF d \in ToSet(touched) THEN touched ELSE Append(touched, d)
      /\ specTouched' = IF d \in DocsOf(Ours) THEN specTouched ELSE Append(specTouched, d)
      /\ specs' = specs /\ phase' = phase
    <2>1. Last(results) = Ours
        BY <1>3, <1>4 DEF Last
    <2> QED
        BY <1>1, <1>2, <1>3, <2>1 DEF Accumulate
<1>6. PassInv
    BY <1>1 DEF BothInv
<1>7. /\ OrInv(SoFar("OR"), Ours, OurSlot, n, touched, slots)
      /\ specTouched = DocSeq(Ours) /\ IsSpecMap(Ours, OurSlot) /\ IsMap(SoFar("OR"))
    BY <1>1, <1>4, <1>6 DEF PassInv, OrInv
<1>8. IsGrown(Ours, hit, OurSlot, grown)
    BY <1>2, <1>7, WithPostingStep
<1>9. Counting(row, Ours, hit, OurSlot, next)
    BY <1>1, ScoredRow
<1>10. /\ RowInv(row, SoFar("OR"), Ours, d, n)
       /\ d \in ToSet(touched) => row = slots[d]
       /\ d \in ToSet(touched) <=> d \in DocsOf(SoFar("OR")) \cup DocsOf(Ours)
    BY <1>1, FreshRow
<1>11. CountedTerms'
    BY CountedPosted
<1> HIDE DEF next, grown, row
<1>12. slots'[d] = next /\ \A e \in Docs : e # d => slots'[e] = slots[e]
    BY <1>1, <1>5
<1>13. Ours' = grown /\ Before' = Before /\ OurSlot' = OurSlot /\ Number' = n
    <2>1. Len(results') = n /\ results'[n] = grown
        BY <1>1, <1>3, <1>5
    <2>2. [i \in 1 .. n - 1 |-> results'[i]] = [i \in 1 .. n - 1 |-> results[i]]
        BY <1>1, <1>3, <1>5
    <2>3. Ours' = results'[Len(results')] /\ OurSlot' = OurSlot /\ Number' = n
          /\ Before' = [i \in 1 .. Len(results') - 1 |-> results'[i]]
        BY <1>1, <1>5 DEF Ours, OurSlot, Number, Before
    <2> QED
        BY <1>4, <2>1, <2>2, <2>3
<1>14. \A mode : (SoFar(mode))' = SoFar(mode)
    BY <1>13 DEF SoFar
<1>15. OrInv(SoFar("OR"), grown, OurSlot, n, touched', slots')
    BY <1>1, <1>2, <1>5, <1>7, <1>8, <1>9, <1>10, <1>12, OrPosted
<1>16. specTouched' = DocSeq(grown)
    BY <1>5, <1>7, <1>8 DEF IsGrown
<1>17. OthersInv'
    <2>1. row.specCount \in Int /\ (d \in DocsOf(SoFar("OR")) => row = slots[d])
        BY <1>10 DEF RowInv
    <2>2. Leaves(SoFar("OR"), Ours, slots, grown, slots', n)
        BY <1>7, <1>8, <1>9, <1>12, <2>1, OthersPosted
    <2>3. Before # <<>> => /\ AndInv(SoFar("AND"), SoFar("OR"), Ours, n, slots)
                           /\ AndNotInv(SoFar("AND_NOT"), SoFar("OR"), Ours, slots)
        BY <1>4, <1>6 DEF PassInv, OthersInv
    <2> QED
        BY <1>13, <1>14, <2>2, <2>3 DEF OthersInv, Leaves
<1>18. OrderInv'
    BY <1>1, <1>5 DEF OrderInv
<1>19. PassInv'
    BY <1>11, <1>13, <1>14, <1>15, <1>16, <1>17, <1>18 DEF PassInv
<1>20. SpecsInv'
    BY <1>1, <1>5 DEF SpecsInv
<1> QED
    BY <1>19, <1>20 DEF BothInv

\* The first spec's map is what OR merges into nothing.
LEMMA MergedFirst ==
    ASSUME NEW map, IsMap(map)
    PROVE  MergedOr(<<>>, map) = map
<1>1. map \in Seq(Entry)
    BY DEF IsMap
<1>2. DocsOf(<<>>) = {}
    BY DEF DocsOf
<1>3. {i \in DOMAIN map : map[i].doc \notin DocsOf(<<>>)} = DOMAIN map
    BY <1>2
<1>4. Selected(map, DOMAIN map) = map
    BY <1>1, SelectedAll
<1>5. [i \in DOMAIN <<>> |-> IF <<>>[i].doc \in DocsOf(map)
           THEN Merged(<<>>[i], EntryOf(map, <<>>[i].doc)) ELSE <<>>[i]] = <<>>
    OBVIOUS
<1>6. <<>> \o map = map
    BY <1>1
<1> QED
    BY <1>3, <1>4, <1>5, <1>6 DEF MergedOr

\* The maps when the spec's own is the first, and when it is not.
LEMMA MapsFlushed ==
    ASSUME TablesInv, phase = "spec"
    PROVE  /\ Len(specs) = 1 => Before = <<>> /\ \A mode : Combined(mode, results) = Ours
           /\ Len(specs) > 1 =>
                  Before # <<>> /\ \A mode : Combined(mode, results) = Merge(mode, SoFar(mode), Ours)
           /\ Len(specs) \in Nat /\ Len(specs) > 0 /\ results # <<>>
<1> DEFINE n == Len(specs)
           S == {results[i] : i \in 1 .. n}
<1>1. n \in Nat /\ n > 0 /\ IsSequence(results, n)
    BY DEF TablesInv
<1>2. /\ Len(results) = n /\ results = [i \in 1 .. n |-> results[i]] /\ results # <<>>
      /\ results \in Seq(S)
    BY <1>1, SequenceLen
<1>3. Ours = results[n] /\ Before = [i \in 1 .. n - 1 |-> results[i]]
    BY <1>2 DEF Ours, Before
<1>4. Ours \in S
    BY <1>1, <1>3
<1> HIDE DEF S
<1>5. ASSUME n = 1
      PROVE  Before = <<>> /\ \A mode : Combined(mode, results) = Ours
    <2>1. Before = <<>>
        BY <1>3, <1>5
    <2>2. results = <<Ours>>
        BY <1>2, <1>3, <1>5, Singleton
    <2>3. \A mode : Combined(mode, <<Ours>>) = Ours
        BY <1>4, CombinedOne
    <2> QED
        BY <2>1, <2>2, <2>3
<1>6. ASSUME n > 1
      PROVE  Before # <<>> /\ \A mode : Combined(mode, results) = Merge(mode, SoFar(mode), Ours)
    <2>1. Before \in Seq(S) /\ Len(Before) = n - 1 /\ n - 1 \in Nat
          /\ \A i \in 1 .. n - 1 : Before[i] = results[i]
        BY <1>1, <1>2, <1>3
    <2>2. Before # <<>>
        BY <1>6, <2>1
    <2>3. results = Append(Before, Ours)
        <3>1. /\ Append(Before, Ours) \in Seq(S) /\ Len(Append(Before, Ours)) = n
              /\ Append(Before, Ours)[n] = Ours
              /\ \A i \in 1 .. n - 1 : Append(Before, Ours)[i] = Before[i]
            <4>1. (n - 1) + 1 = n
                BY <1>1
            <4> QED
                BY <1>4, <2>1, <4>1, AppendProperties
        <3>2. \A i \in 1 .. Len(results) : results[i] = Append(Before, Ours)[i]
            <4>1. \A i \in 1 .. n : i \in 1 .. n - 1 \/ i = n
                BY <1>1
            <4> QED
                BY <1>2, <1>3, <2>1, <3>1, <4>1
        <3> QED
            BY <1>2, <3>1, <3>2, SeqEqual
    <2>4. \A mode : Combined(mode, Append(Before, Ours)) = Merge(mode, Combined(mode, Before), Ours)
        BY <1>4, <2>1, <2>2, CombinedAppend
    <2> QED
        BY <2>2, <2>3, <2>4 DEF SoFar
<1> QED
    BY <1>1, <1>2, <1>5, <1>6

\* flush_spec: the spec's map is merged into the three combinations.
LEMMA FlushSpecStep ==
    ASSUME StampInv, TablesInv, BothInv, FlushSpec
    PROVE  BothInv'
<1> DEFINE n == Len(specs)
           all == Combined("OR", results)
<1>1. /\ phase = "spec" /\ phase' = "query" /\ Flush /\ specs' = specs /\ results' = results
      /\ generation' = generation /\ queryCounter' = queryCounter
      /\ wideTerms' = wideTerms /\ touched' = touched /\ specTouched' = specTouched
    BY DEF FlushSpec, stamps
<1>0. n = 1 \/ n > 1
    <2>1. n \in Nat /\ n > 0
        BY <1>1 DEF TablesInv
    <2> HIDE DEF n
    <2> QED
        BY <2>1
<1>2. /\ n = 1 => Before = <<>> /\ \A mode : Combined(mode, results) = Ours
      /\ n > 1 => Before # <<>> /\ \A mode : Combined(mode, results) = Merge(mode, SoFar(mode), Ours)
      /\ n \in Nat /\ n > 0 /\ results # <<>>
    BY <1>1, MapsFlushed
<1>3. Number = n /\ PassInv
    BY <1>1 DEF Number, BothInv
<1>4. /\ OrInv(SoFar("OR"), Ours, OurSlot, n, touched, slots)
      /\ specTouched = DocSeq(Ours) /\ IsSpecMap(Ours, OurSlot) /\ IsMap(Ours)
    BY <1>1, <1>3 DEF PassInv, OrInv, IsSpecMap
<1>5. OurSlot \in Nat
    BY <1>1, SpecMet, LimitsAssumption
<1>6. /\ Before' = results /\ Ours' = <<>> /\ OurSlot' = 0 /\ Number' = n + 1
    BY <1>1 DEF Before, Ours, OurSlot, Number
<1>7. \A mode : (SoFar(mode))' = Combined(mode, results)
    BY <1>6 DEF SoFar
<1>8. \A d \in Docs : slots'[d] = IF d \in DocsOf(Ours) THEN Summed(slots[d]) ELSE slots[d]
    <2>1. ToSet(specTouched) = DocsOf(Ours)
        BY <1>4, DocSeqFacts
    <2> QED
        BY <1>1, <2>1 DEF Flush
<1>9. Flushing(slots, Ours, slots') /\ \A d \in Docs : slots'[d].slotMask = slots[d].slotMask
    <2>1. ASSUME NEW d \in Docs
          PROVE  /\ slots'[d].specCount = slots[d].specCount /\ slots'[d].firstSpec = slots[d].firstSpec
                 /\ slots'[d].querySlots = slots[d].querySlots /\ slots'[d].match = slots[d].match
                 /\ slots'[d].slotMask = slots[d].slotMask
                 /\ IF d \in DocsOf(Ours)
                    THEN slots'[d].score = Append(slots[d].score, slots[d].specScore)
                    ELSE slots'[d].score = slots[d].score
        <3>1. CASE d \in DocsOf(Ours)
            <4>1. slots'[d] = [score |-> Append(slots[d].score, slots[d].specScore),
                               specScore |-> slots[d].specScore, match |-> slots[d].match,
                               specCount |-> slots[d].specCount, slotMask |-> slots[d].slotMask,
                               querySlots |-> slots[d].querySlots, firstSpec |-> slots[d].firstSpec]
                BY <1>8, <3>1 DEF Summed
            <4> QED
                BY <3>1, <4>1
        <3>2. CASE d \notin DocsOf(Ours)
            BY <1>8, <3>2
        <3> QED
            BY <3>1, <3>2
    <2> QED
        BY <2>1 DEF Flushing
<1>10. all = MergedOr(SoFar("OR"), Ours)
    <2>1. CASE n = 1
        <3>1. SoFar("OR") = <<>>
            BY <1>2, <2>1, CombinedEmpty DEF SoFar
        <3>2. MergedOr(<<>>, Ours) = Ours
            BY <1>4, MergedFirst
        <3> QED
            BY <1>2, <2>1, <3>1, <3>2
    <2>2. CASE n > 1
        BY <1>2, <2>2 DEF Merge
    <2> QED
        BY <1>0, <2>1, <2>2
<1> HIDE DEF all
<1>11. OrInv(all, <<>>, 0, n + 1, touched, slots')
    <2>1. OrInv(MergedOr(SoFar("OR"), Ours), <<>>, 0, n + 1, touched, slots')
        BY <1>2, <1>4, <1>5, <1>9, OrFlushed
    <2> QED
        BY <1>10, <2>1
<1>12. ASSUME n = 1 PROVE OthersInv' /\ OrderInv'
    <2>1. OrInv(all, <<>>, 0, 2, touched, slots')
        BY <1>11, <1>12
    <2>2. /\ AndInv(all, all, <<>>, 2, slots') /\ AndNotInv(all, all, <<>>, slots')
          /\ DocSeq(all) = touched /\ \A d \in ToSet(touched) : slots'[d].specCount = 1
        BY <2>1, FirstFlushed
    <2>3. \A mode : Combined(mode, results) = all
        BY <1>2, <1>12 DEF all
    <2>4. OthersInv'
        BY <1>6, <1>7, <1>12, <2>2, <2>3 DEF OthersInv, all
    <2>5. OrderInv'
        <3>1. Candidates("AND")' = touched
            BY <1>1, <1>12 DEF Candidates
        <3>2. \A i \in DOMAIN touched : slots'[touched[i]].specCount = 1
            BY <2>2 DEF ToSet
        <3>3. {i \in DOMAIN touched : slots'[touched[i]].specCount = 1} = DOMAIN touched
            BY <3>2
        <3>4. Selected(touched, DOMAIN touched) = touched
            BY SelectedAll DEF StampInv
        <3>5. DocSeq(Combined("AND", results)) = touched
            BY <2>2, <2>3
        <3>6. InOrder(DocSeq(Combined("AND", results)), touched, slots', n)
            BY <1>12, <3>3, <3>4, <3>5 DEF InOrder
        <3> QED
            BY <1>1, <1>7, <3>1, <3>6 DEF OrderInv
    <2> QED
        BY <2>4, <2>5
<1>13. ASSUME n > 1 PROVE OthersInv' /\ OrderInv'
    <2>1. /\ AndInv(SoFar("AND"), SoFar("OR"), Ours, n, slots)
          /\ AndNotInv(SoFar("AND_NOT"), SoFar("OR"), Ours, slots)
        BY <1>2, <1>3, <1>13 DEF PassInv, OthersInv
    <2>2. /\ Combined("AND", results) = MergedAnd(SoFar("AND"), Ours)
          /\ Combined("AND_NOT", results) = MergedAndNot(SoFar("AND_NOT"), Ours)
        BY <1>2, <1>13 DEF Merge
    <2>3. /\ AndInv(MergedAnd(SoFar("AND"), Ours), MergedOr(SoFar("OR"), Ours), <<>>, n + 1, slots')
          /\ InOrder(DocSeq(MergedAnd(SoFar("AND"), Ours)), DocSeq(Ours), slots', n)
        BY <1>2, <1>4, <1>5, <1>9, <1>13, <2>1, AndFlushed
    <2>4. AndNotInv(MergedAndNot(SoFar("AND_NOT"), Ours), MergedOr(SoFar("OR"), Ours), <<>>, slots')
        BY <1>2, <1>4, <1>5, <1>9, <1>13, <2>1, AndNotFlushed
    <2>5. OthersInv'
        BY <1>6, <1>7, <1>10, <2>2, <2>3, <2>4 DEF OthersInv, all
    <2>6. OrderInv'
        <3>1. Candidates("AND")' = DocSeq(Ours)
            BY <1>1, <1>4, <1>13 DEF Candidates
        <3> QED
            BY <1>1, <1>7, <2>2, <2>3, <3>1 DEF OrderInv
    <2> QED
        BY <2>5, <2>6
<1>14. CountedTerms'
    <2> SUFFICES ASSUME NEW d \in Docs, NEW x \in 0 .. MaxSpecs
                 PROVE  (FirstMatch(d, x) <=> x \notin ToSet(Fresh(d).querySlots))'
        BY DEF CountedTerms
    <2>1. FirstMatch(d, x) <=> x \notin ToSet(Fresh(d).querySlots)
        BY <1>3 DEF PassInv, CountedTerms
    <2>2. slots'[d].slotMask = slots[d].slotMask /\ slots'[d].querySlots = slots[d].querySlots
        BY <1>9 DEF Flushing
    <2>3. (Fresh(d).slotMask)' = Fresh(d).slotMask /\ (Fresh(d).querySlots)' = Fresh(d).querySlots
        BY <1>1, <2>2 DEF Fresh
    <2> QED
        BY <1>1, <2>1, <2>3 DEF FirstMatch
<1>15. OthersInv' /\ OrderInv'
    BY <1>0, <1>12, <1>13
<1>16. PassInv'
    BY <1>1, <1>6, <1>7, <1>11, <1>14, <1>15 DEF PassInv, all
<1>17. SpecsInv'
    BY <1>1 DEF BothInv, SpecsInv
<1> QED
    BY <1>16, <1>17 DEF BothInv

\* A query that has not begun, or that is over, has nothing to say.
LEMMA IdleStep ==
    ASSUME phase' = "idle", specs' = <<>>
    PROVE  BothInv'
<1>1. <<>> \in Seq(0 .. MaxSpecs)
    OBVIOUS
<1> QED
    BY <1>1 DEF BothInv, SpecsInv

\* A step that changes nothing keeps the invariant.
LEMMA StutterStep ==
    ASSUME BothInv, UNCHANGED vars
    PROVE  BothInv'
<1>1. /\ phase' = phase /\ specs' = specs /\ results' = results /\ touched' = touched
      /\ specTouched' = specTouched /\ slots' = slots /\ wideTerms' = wideTerms
      /\ generation' = generation /\ queryCounter' = queryCounter
    BY DEF vars, stamps, tables
<1>2. Before' = Before /\ Ours' = Ours /\ OurSlot' = OurSlot /\ Number' = Number
    BY <1>1 DEF Before, Ours, OurSlot, Number
<1>3. \A mode : (SoFar(mode))' = SoFar(mode)
    BY <1>2 DEF SoFar
<1>4. \A d \in Docs : (Fresh(d))' = Fresh(d)
    BY <1>1 DEF Fresh
<1>5. CountedTerms => CountedTerms'
    BY <1>1, <1>4 DEF CountedTerms, FirstMatch
<1>6. OthersInv => OthersInv'
    BY <1>1, <1>2, <1>3 DEF OthersInv
<1>7. OrderInv => OrderInv'
    BY <1>1, <1>3 DEF OrderInv, Candidates
<1>8. PassInv => PassInv'
    BY <1>1, <1>2, <1>3, <1>5, <1>6, <1>7 DEF PassInv
<1> QED
    BY <1>1, <1>8 DEF BothInv, SpecsInv

\* Every step keeps the invariant: one lemma per handler.
LEMMA BothStep ==
    StampInv /\ TablesInv /\ BothInv /\ [Next]_vars => BothInv'
<1> SUFFICES ASSUME StampInv, TablesInv, BothInv, [Next]_vars PROVE BothInv'
    OBVIOUS
<1>1. StampInv' /\ TablesInv'
    BY StampStep, TablesStep
<1>2. CASE BeginQuery
    BY <1>1, <1>2, BeginQueryStep
<1>3. ASSUME NEW slot \in 0 .. MaxSpecs, BeginSpec(slot) PROVE BothInv'
    BY <1>1, <1>3, BeginSpecStep
<1>4. ASSUME NEW hit \in Hit, Accumulate(hit) PROVE BothInv'
    BY <1>4, AccumulateStep
<1>5. CASE FlushSpec
    BY <1>5, FlushSpecStep
<1>6. CASE EndQuery
    BY <1>6, IdleStep DEF EndQuery
<1>7. CASE Reset
    BY <1>7, IdleStep DEF Reset
<1>8. CASE UNCHANGED vars
    BY <1>8, StutterStep
<1> QED
    BY <1>2, <1>3, <1>4, <1>5, <1>6, <1>7, <1>8 DEF Next

\* A map is its entries in the order of its documents.
LEMMA MapIs ==
    ASSUME NEW map, IsMap(map)
    PROVE  GoesWith(map, DocSeq(map), [d \in DocsOf(map) |-> EntryOf(map, d)])
<1>1. map \in Seq(Entry)
    BY DEF IsMap
<1>2. \A i \in DOMAIN map : EntryOf(map, map[i].doc) = map[i] /\ map[i].doc \in DocsOf(map)
    BY EntryFound
<1>3. map = [i \in DOMAIN map |-> map[i]]
    BY <1>1
<1>4. DOMAIN DocSeq(map) = DOMAIN map /\ \A i \in DOMAIN map : DocSeq(map)[i] = map[i].doc
    BY DEF DocSeq
<1> QED
    BY <1>2, <1>3, <1>4 DEF GoesWith

\* What the fused pass returns for a document is its entry of the union.
LEMMA HitIs ==
    ASSUME BothInv, phase = "query", NEW d \in ToSet(touched)
    PROVE  FusedHit(d) = EntryOf(SoFar("OR"), d) /\ d \in DocsOf(SoFar("OR"))
<1> DEFINE left == SoFar("OR")
           e == EntryOf(left, d)
           row == slots[d]
<1>1. /\ OrInv(left, <<>>, OurSlot, Len(specs) + 1, touched, slots)
    BY DEF BothInv, PassInv, Ours, Number
<1>2. IsMap(left) /\ touched = DocSeq(left) /\ RowInv(row, left, <<>>, d, Len(specs) + 1)
    <2>1. IsMap(left) /\ touched = OrDocs(left, <<>>)
        BY <1>1 DEF OrInv
    <2> QED
        BY <1>1, <2>1, OrDocsNothing DEF OrInv
<1>3. d \in DocsOf(left) /\ d \in Docs
    BY <1>2, DocSeqFacts
<1>4. Held(left, d) = e /\ Held(<<>>, d) = Blank(d) /\ IsEntry(e, d)
    <2>1. IsEntry(Held(left, d), d)
        BY <1>2, <1>3, HeldType
    <2> QED
        BY <1>3, <2>1, EmptyMap DEF Held, NothingMet
<1> HIDE DEF e, row, left
<1>5. Agrees(row, e, Blank(d), Len(specs) + 1)
    BY <1>2, <1>4 DEF RowInv
<1>6. Blank(d).terms = <<>> /\ Blank(d).match = <<>>
    BY DEF Blank
<1>7. /\ e \in [doc : Docs, score : Seq(Seq(Posting)), terms : Seq(Nat), match : Seq(Row)]
      /\ e.doc = d
    BY <1>4 DEF IsEntry, Entry
<1>8. row.score = e.score /\ row.querySlots = e.terms /\ FieldRows(row.match) = e.match
    <2>1. AssignUnique(e.terms, <<>>) = e.terms /\ Assign(e.match, <<>>) = e.match
        BY <1>7, UniqueNothing, AssignNothing
    <2> QED
        BY <1>5, <1>6, <2>1 DEF Agrees
<1>9. e = [doc |-> e.doc, score |-> e.score, terms |-> e.terms, match |-> e.match]
    BY <1>7
<1>10. FusedHit(d) = [doc |-> d, score |-> row.score, terms |-> row.querySlots,
                      match |-> FieldRows(row.match)]
    BY DEF FusedHit, row
<1> QED
    BY <1>3, <1>7, <1>8, <1>9, <1>10 DEF left, e

\* A query with no spec has no documents.
LEMMA NoSpecs ==
    ASSUME StampInv, TablesInv, BothInv, phase = "query", results = <<>>, NEW mode
    PROVE  FusedHits(mode) = CombineResults(mode)
<1>1. SoFar("OR") = <<>>
    BY CombinedEmpty DEF SoFar, Before
<1>2. touched = <<>>
    <2>1. touched = OrDocs(<<>>, <<>>)
        BY <1>1 DEF BothInv, PassInv, OrInv, Ours
    <2>2. OrDocs(<<>>, <<>>) = DocSeq(<<>>)
        BY EmptyMap, OrDocsNothing DEF NothingMet
    <2> QED
        BY <2>1, <2>2 DEF DocSeq
<1>3. Len(specs) = 0
    <2>1. IsSequence(results, Len(specs)) /\ Len(specs) \in Nat
        BY DEF TablesInv
    <2>2. Len(results) = Len(specs)
        BY <2>1, SequenceLen
    <2> QED
        BY <2>2
<1>4. Candidates(mode) = <<>>
    BY <1>2, <1>3 DEF Candidates
<1>5. Selected(<<>>, {}) = <<>>
    BY SelectedNone
<1>6. {i \in DOMAIN <<>> : Keeps(mode, <<>>[i])} = {}
    OBVIOUS
<1>7. FusedHits(mode) = <<>>
    BY <1>4, <1>5, <1>6 DEF FusedHits
<1>8. CombineResults(mode) = <<>>
    BY CombinedEmpty DEF CombineResults
<1> QED
    BY <1>7, <1>8

\* The documents that a combination keeps, each with its entry of the union.
LEMMA HitsAre ==
    ASSUME BothInv, phase = "query", NEW mode, NEW map, IsMap(map),
           DocsOf(map) \subseteq DocsOf(SoFar("OR")),
           \A d \in DocsOf(map) : EntryOf(map, d) = EntryOf(SoFar("OR"), d),
           DocSeq(map) = Selected(Candidates(mode),
               {i \in DOMAIN Candidates(mode) : Keeps(mode, Candidates(mode)[i])})
    PROVE  FusedHits(mode) = map
<1> DEFINE docs == DocSeq(map)
<1>1. FusedHits(mode) = [i \in DOMAIN docs |-> FusedHit(docs[i])]
    BY DEF FusedHits
<1>2. \A i \in DOMAIN docs : docs[i] \in DocsOf(map)
    BY DEF DocSeq, DocsOf
<1>3. DocsOf(SoFar("OR")) = ToSet(touched)
    <2>1. IsMap(SoFar("OR")) /\ touched = OrDocs(SoFar("OR"), <<>>)
        BY DEF BothInv, PassInv, OrInv, Ours
    <2>2. touched = DocSeq(SoFar("OR"))
        BY <2>1, OrDocsNothing
    <2> QED
        BY <2>1, <2>2, DocSeqFacts
<1>4. \A i \in DOMAIN docs : FusedHit(docs[i]) = EntryOf(map, docs[i])
    BY <1>2, <1>3, HitIs
<1>5. map = [i \in DOMAIN docs |-> EntryOf(map, docs[i])]
    <2>1. GoesWith(map, docs, [d \in DocsOf(map) |-> EntryOf(map, d)])
        BY MapIs
    <2> QED
        BY <1>2, <2>1 DEF GoesWith
<1> HIDE DEF docs
<1> QED
    BY <1>1, <1>4, <1>5

\* Between two specs, both paths agree, whatever the combination.
LEMMA PathsAgree ==
    ASSUME StampInv, TablesInv, BothInv, phase = "query", results # <<>>, NEW mode \in Combinations
    PROVE  FusedHits(mode) = CombineResults(mode)
<1> DEFINE left == SoFar("OR")
           n == Len(specs)
<1>1. Before = results /\ Ours = <<>> /\ Number = n + 1 /\ PassInv
    BY DEF Before, Ours, Number, BothInv
<1>2. \A m : CombineResults(m) = SoFar(m)
    BY <1>1 DEF CombineResults, SoFar
<1>3. /\ IsMap(left) /\ touched = DocSeq(left) /\ touched \in Seq(Docs)
      /\ \A d \in ToSet(touched) : RowInv(slots[d], left, <<>>, d, n + 1)
    <2>1. /\ IsMap(left) /\ touched = OrDocs(left, <<>>)
          /\ \A d \in ToSet(touched) : RowInv(slots[d], left, <<>>, d, n + 1)
        BY <1>1 DEF PassInv, OrInv
    <2> QED
        BY <2>1, OrDocsNothing DEF StampInv
<1>4. /\ AndInv(SoFar("AND"), left, <<>>, n + 1, slots)
      /\ AndNotInv(SoFar("AND_NOT"), left, <<>>, slots)
      /\ InOrder(DocSeq(SoFar("AND")), Candidates("AND"), slots, n)
    BY <1>1 DEF PassInv, OthersInv, OrderInv
<1>5. \A d \in ToSet(touched) : Earlier(slots[d], <<>>, d) = slots[d].specCount
    <2>1. ASSUME NEW d \in ToSet(touched)
          PROVE  Earlier(slots[d], <<>>, d) = slots[d].specCount
        <3>1. slots[d].specCount \in Int
            BY <1>3 DEF RowInv
        <3>2. Earlier(slots[d], <<>>, d) = slots[d].specCount - 0
            BY EmptyMap DEF Earlier, NothingMet
        <3> QED
            BY <3>1, <3>2
    <2> QED
        BY <2>1
<1>6. CASE mode = "OR"
    <2>1. Candidates(mode) = touched
        BY <1>6 DEF Candidates
    <2>2. {i \in DOMAIN touched : Keeps(mode, touched[i])} = DOMAIN touched
        BY <1>6 DEF Keeps
    <2>3. Selected(touched, DOMAIN touched) = touched
        BY <1>3, SelectedAll
    <2>4. DocSeq(left) = Selected(Candidates(mode),
              {i \in DOMAIN Candidates(mode) : Keeps(mode, Candidates(mode)[i])})
        BY <1>3, <2>1, <2>2, <2>3
    <2> HIDE DEF left
    <2>5. FusedHits(mode) = left
        BY <1>3, <2>4, HitsAre DEF left
    <2> QED
        BY <1>2, <1>6, <2>5 DEF left
<1>7. CASE mode = "AND"
    <2>1. /\ IsMap(SoFar("AND")) /\ DocsOf(SoFar("AND")) \subseteq DocsOf(left)
          /\ \A d \in DocsOf(SoFar("AND")) : EntryOf(SoFar("AND"), d) = EntryOf(left, d)
        BY <1>4 DEF AndInv
    <2>2. DocSeq(SoFar("AND")) = Selected(Candidates(mode),
              {i \in DOMAIN Candidates(mode) : Keeps(mode, Candidates(mode)[i])})
        <3>1. \A d : Keeps(mode, d) <=> slots[d].specCount = n
            BY <1>7 DEF Keeps
        <3>2. {i \in DOMAIN Candidates(mode) : Keeps(mode, Candidates(mode)[i])} =
                  {i \in DOMAIN Candidates(mode) : slots[Candidates(mode)[i]].specCount = n}
            BY <3>1
        <3> QED
            BY <1>4, <1>7, <3>2 DEF InOrder
    <2>3. FusedHits(mode) = SoFar("AND")
        BY <2>1, <2>2, HitsAre
    <2> QED
        BY <1>2, <1>7, <2>3
<1>8. CASE mode = "AND_NOT"
    <2> DEFINE at == FirstOnly(left, <<>>, slots)
               kept == Selected(left, at)
               docs == Selected(touched, at)
    <2>1. at \in SUBSET DOMAIN left /\ DOMAIN touched = DOMAIN left
          /\ \A i \in DOMAIN left : touched[i] = left[i].doc
        BY <1>3 DEF FirstOnly, DocSeq
    <2>2. {i \in DOMAIN touched : Keeps(mode, touched[i])} = at
        <3>1. \A d : Keeps(mode, d) <=> slots[d].firstSpec = 1 /\ slots[d].specCount = 1
            BY <1>8 DEF Keeps
        <3>2. \A i \in DOMAIN left : Earlier(slots[left[i].doc], <<>>, left[i].doc)
                                        = slots[left[i].doc].specCount
            BY <1>5, <2>1 DEF ToSet
        <3> QED
            BY <2>1, <3>1, <3>2 DEF FirstOnly
    <2>3. Candidates(mode) = touched
        BY <1>8 DEF Candidates
    <2> HIDE DEF at
    <2>4. kept = [k \in DOMAIN docs |-> EntryOf(left, docs[k])]
        BY <1>3, <2>1, SelectedDocs
    <2>5. docs \in Seq(Docs) /\ Distinct(docs) /\ ToSet(docs) = {touched[i] : i \in at}
        <3>1. Distinct(touched)
            BY <1>3, DocSeqFacts
        <3> QED
            BY <1>3, <2>1, <3>1, SelectedDistinct
    <2>6. ToSet(docs) \subseteq DocsOf(left) /\ DocsOf(left) \subseteq Docs
        <3>1. {touched[i] : i \in at} \subseteq DocsOf(left)
            BY <2>1 DEF DocsOf
        <3> QED
            BY <1>3, <2>5, <3>1, DocSeqFacts
    <2> DEFINE entry == [d \in DocsOf(left) |-> EntryOf(left, d)]
    <2>7. \A d \in ToSet(docs) : IsEntry(entry[d], d)
        <3>1. ASSUME NEW d \in ToSet(docs) PROVE IsEntry(entry[d], d)
            <4>1. d \in DocsOf(left) /\ d \in Docs
                BY <2>6
            <4>2. IsEntry(Held(left, d), d)
                BY <1>3, <4>1, HeldType
            <4> QED
                BY <4>1, <4>2 DEF Held
        <3> QED
            BY <3>1
    <2>8. kept = [k \in DOMAIN docs |-> entry[docs[k]]]
        <3>1. \A k \in DOMAIN docs : docs[k] \in DocsOf(left)
            BY <2>6 DEF ToSet
        <3> QED
            BY <2>4, <3>1
    <2> HIDE DEF docs, kept, entry
    <2>9. IsMapOf([k \in DOMAIN docs |-> entry[docs[k]]], docs, entry)
        BY <2>5, <2>7, MapFromDocs
    <2>10. /\ IsMap(kept) /\ DocSeq(kept) = docs /\ DocsOf(kept) = ToSet(docs)
           /\ \A d \in DocsOf(kept) : EntryOf(kept, d) = entry[d]
        BY <2>8, <2>9 DEF IsMapOf
    <2>11. \A d \in DocsOf(kept) : EntryOf(kept, d) = EntryOf(left, d)
        BY <2>6, <2>10 DEF entry
    <2>12. DocSeq(kept) = Selected(Candidates(mode),
               {i \in DOMAIN Candidates(mode) : Keeps(mode, Candidates(mode)[i])})
        BY <2>2, <2>3, <2>10 DEF docs
    <2>13. FusedHits(mode) = kept
        BY <2>6, <2>10, <2>11, <2>12, HitsAre
    <2>14. SoFar("AND_NOT") = kept
        BY <1>4 DEF AndNotInv, kept, at
    <2> QED
        BY <1>2, <1>8, <2>13, <2>14
<1> QED
    BY <1>6, <1>7, <1>8 DEF Combinations

\* Whatever the documents, terms, fields, counters and postings, and whichever way a
\* query's terms are combined, the fused pass of run_fused_query_with returns what
\* term_results and combine_results make of the same postings: the same documents in
\* the same order, the same additions, query terms and matched fields.
THEOREM FusedIsCombined == Spec => []FusedEqualsCombined
<1>1. Init => StampInv /\ TablesInv /\ BothInv
    <2>1. Init => BothInv
        <3>1. <<>> \in Seq(0 .. MaxSpecs)
            OBVIOUS
        <3> QED
            BY <3>1 DEF Init, BothInv, SpecsInv
    <2>2. Init => TablesInv
        BY DEF Init, TablesInv, IsSequence
    <2> QED
        BY <2>1, <2>2, StampInit
<1>2. StampInv /\ TablesInv /\ BothInv /\ [Next]_vars => (StampInv /\ TablesInv /\ BothInv)'
    BY StampStep, TablesStep, BothStep
<1>3. StampInv /\ TablesInv /\ BothInv => FusedEqualsCombined
    <2> SUFFICES ASSUME StampInv, TablesInv, BothInv, phase = "query", NEW mode \in Combinations
                 PROVE  FusedHits(mode) = CombineResults(mode)
        BY DEF FusedEqualsCombined
    <2> QED
        BY NoSpecs, PathsAgree
<1> QED
    BY <1>1, <1>2, <1>3, PTL DEF Spec
=============================================================================
