-------------------------- MODULE SelectionsProofs --------------------------
(***************************************************************************)
(* Sets of positions: how they are counted off, what is selected at them,  *)
(* and when they are a prefix.                                             *)
(***************************************************************************)
EXTENDS Selections, Integers, FiniteSetTheorems, TLAPS

LEMMA PositionSets ==
    ASSUME NEW n \in Nat, NEW at \in SUBSET (1 .. n)
    PROVE  /\ IsFiniteSet(at) /\ Cardinality(at) \in Nat /\ Cardinality(at) <= n
           /\ \A below \in SUBSET at :
                  /\ Cardinality(below) \in Nat /\ Cardinality(below) <= Cardinality(at)
                  /\ Cardinality(below) = Cardinality(at) => below = at
<1>1. IsFiniteSet(1 .. n) /\ Cardinality(1 .. n) = n
    BY FS_Interval
<1>2. IsFiniteSet(at) /\ Cardinality(at) <= n
    BY <1>1, FS_Subset
<1> QED
    BY <1>2, FS_Subset, FS_CardinalityType

\* The place of a position among those in at.
Rank(at, i) == Cardinality({j \in at : j <= i})

\* Positions are counted off in their order, each number once.
LEMMA Ranks ==
    ASSUME NEW n \in Nat, NEW at \in SUBSET (1 .. n)
    PROVE  /\ \A i \in at : Rank(at, i) \in 1 .. Cardinality(at)
           /\ \A i, j \in at : i < j => Rank(at, i) < Rank(at, j)
           /\ \A k \in 1 .. Cardinality(at) : \E i \in at : Rank(at, i) = k
<1>1. IsFiniteSet(at) /\ Cardinality(at) \in Nat
    BY PositionSets
<1>2. ASSUME NEW i \in at
      PROVE  Rank(at, i) \in 1 .. Cardinality(at)
    <2>1. {j \in at : j <= i} \in SUBSET at /\ {j \in at : j <= i} # {}
        OBVIOUS
    <2>2. /\ Cardinality({j \in at : j <= i}) \in Nat
          /\ Cardinality({j \in at : j <= i}) <= Cardinality(at)
          /\ IsFiniteSet({j \in at : j <= i})
        BY <1>1, <2>1, PositionSets, FS_Subset
    <2>3. Cardinality({j \in at : j <= i}) # 0
        BY <2>1, <2>2, FS_EmptySet
    <2> QED
        BY <1>1, <2>2, <2>3 DEF Rank
<1>3. ASSUME NEW i \in at, NEW j \in at, i < j
      PROVE  Rank(at, i) < Rank(at, j)
    <2> DEFINE low == {x \in at : x <= i}
               high == {x \in at : x <= j}
    <2>1. /\ low \in SUBSET high /\ high \in SUBSET (1 .. n)
          /\ j \in high /\ j \notin low
        <3>1. \A x \in at : x \in 1 .. n
            OBVIOUS
        <3>2. \A x \in low : x \in high
            BY <1>3, <3>1
        <3>3. j \in high /\ j \notin low
            BY <1>3, <3>1
        <3>4. high \in SUBSET (1 .. n)
            BY <3>1
        <3> QED
            BY <3>2, <3>3, <3>4
    <2>2. /\ Cardinality(low) \in Nat /\ Cardinality(high) \in Nat
          /\ Cardinality(low) <= Cardinality(high) /\ Cardinality(low) # Cardinality(high)
        <3> HIDE DEF low, high
        <3> QED
            BY <2>1, PositionSets
    <2> QED
        BY <2>2 DEF Rank
<1>4. ASSUME NEW k \in 1 .. Cardinality(at)
      PROVE  \E i \in at : Rank(at, i) = k
    <2> DEFINE rank == [i \in at |-> Rank(at, i)]
    <2>1. rank \in Injection(at, 1 .. Cardinality(at))
        <3>1. rank \in [at -> 1 .. Cardinality(at)]
            BY <1>2
        <3>2. ASSUME NEW i \in at, NEW j \in at, rank[i] = rank[j]
              PROVE  i = j
            <4>1. i \in Int /\ j \in Int /\ ~(i < j) /\ ~(j < i)
                BY <1>2, <1>3, <3>2
            <4> QED
                BY <4>1
        <3> QED
            BY <3>1, <3>2 DEF Injection, IsInjective
    <2>2. IsFiniteSet(1 .. Cardinality(at)) /\ Cardinality(1 .. Cardinality(at)) = Cardinality(at)
        BY <1>1, FS_Interval
    <2>3. rank \in Surjection(at, 1 .. Cardinality(at))
        BY <2>1, <2>2, FS_Injection
    <2> QED
        BY <2>3 DEF Surjection
<1> QED
    BY <1>2, <1>3, <1>4

\* The positions that a filter keeps, as a rising sequence of them.
Picks(at, pos) ==
    /\ pos \in [1 .. Cardinality(at) -> at]
    /\ \A k, l \in 1 .. Cardinality(at) : k < l => pos[k] < pos[l]
    /\ \A i \in at : \E k \in 1 .. Cardinality(at) : pos[k] = i
    /\ \A entries : Selected(entries, at) = [k \in 1 .. Cardinality(at) |-> entries[pos[k]]]

LEMMA Selection ==
    ASSUME NEW n \in Nat, NEW at \in SUBSET (1 .. n)
    PROVE  \E pos : Picks(at, pos)
<1> DEFINE pos == [k \in 1 .. Cardinality(at) |->
                      CHOOSE i \in at : Cardinality({j \in at : j <= i}) = k]
<1>1. /\ Cardinality(at) \in Nat
      /\ \A i \in at : Rank(at, i) \in 1 .. Cardinality(at)
      /\ \A i, j \in at : i < j => Rank(at, i) < Rank(at, j)
      /\ \A k \in 1 .. Cardinality(at) : \E i \in at : Rank(at, i) = k
    BY Ranks, PositionSets
<1>8. \A i \in at : i \in Int
    OBVIOUS
<1>2. ASSUME NEW k \in 1 .. Cardinality(at)
      PROVE  pos[k] \in at /\ Rank(at, pos[k]) = k
    BY <1>1 DEF Rank
<1>3. ASSUME NEW k \in 1 .. Cardinality(at), NEW l \in 1 .. Cardinality(at), k < l
      PROVE  pos[k] < pos[l]
    <2> HIDE DEF pos
    <2>1. /\ pos[k] \in at /\ pos[l] \in at /\ pos[k] \in Int /\ pos[l] \in Int
          /\ Rank(at, pos[k]) = k /\ Rank(at, pos[l]) = l
        BY <1>2, <1>8
    <2>2. ~(pos[l] < pos[k]) /\ pos[k] # pos[l]
        BY <1>1, <1>3, <2>1
    <2> QED
        BY <2>1, <2>2
<1>4. ASSUME NEW i \in at
      PROVE  \E k \in 1 .. Cardinality(at) : pos[k] = i
    <2> DEFINE k == Rank(at, i)
    <2>1. k \in 1 .. Cardinality(at)
        BY <1>1
    <2>2. pos[k] \in at /\ Rank(at, pos[k]) = k
        BY <1>2, <2>1
    <2>3. pos[k] = i
        <3> DEFINE p == pos[k]
        <3>1. p \in at /\ Rank(at, p) = Rank(at, i) /\ p \in Int /\ i \in Int
            BY <1>8, <2>2
        <3> HIDE DEF p
        <3>2. ~(i < p) /\ ~(p < i)
            BY <1>1, <3>1
        <3>3. p = i
            BY <3>1, <3>2
        <3> QED
            BY <3>3 DEF p
    <2> QED
        BY <2>1, <2>3
<1>5. ASSUME NEW entries
      PROVE  Selected(entries, at) = [k \in 1 .. Cardinality(at) |-> entries[pos[k]]]
    BY DEF Selected
<1>6. pos \in [1 .. Cardinality(at) -> at]
    BY <1>2
<1> HIDE DEF pos
<1>7. Picks(at, pos)
    BY <1>3, <1>4, <1>5, <1>6 DEF Picks
<1> QED
    BY <1>7

\* A set of positions that no position is missing from below is a prefix.
LEMMA Prefix ==
    ASSUME NEW n \in Nat, NEW S \in SUBSET (1 .. n),
           \A i \in S : 1 .. i \subseteq S
    PROVE  /\ Cardinality(S) \in Nat /\ Cardinality(S) <= n
           /\ \A i \in 1 .. n : i \in S <=> i <= Cardinality(S)
<1>1. Cardinality(S) \in Nat /\ Cardinality(S) <= n /\ IsFiniteSet(S)
    BY PositionSets
<1>2. ASSUME NEW i \in S
      PROVE  i <= Cardinality(S)
    <2>1. i \in Nat /\ i >= 1
        OBVIOUS
    <2>2. Cardinality(1 .. i) = i
        BY <2>1, FS_Interval
    <2>3. Cardinality(1 .. i) <= Cardinality(S)
        BY <1>1, FS_Subset
    <2> QED
        BY <2>2, <2>3
<1>3. ASSUME NEW i \in 1 .. n, i \notin S
      PROVE  Cardinality(S) < i
    <2>1. S \in SUBSET (1 .. (i - 1))
        <3>1. ASSUME NEW j \in S
              PROVE  j \in 1 .. (i - 1)
            <4>1. j \in 1 .. n /\ i \notin 1 .. j
                BY <1>3
            <4> QED
                BY <4>1
        <3> QED
            BY <3>1
    <2>2. i - 1 \in Nat
        OBVIOUS
    <2>3. Cardinality(S) <= i - 1
        BY <2>1, <2>2, PositionSets
    <2> QED
        BY <1>1, <2>3
<1> QED
    BY <1>1, <1>2, <1>3
=============================================================================
