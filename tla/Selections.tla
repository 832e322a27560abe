----------------------------- MODULE Selections -----------------------------
(***************************************************************************)
(* What Vec::retain, a filter of an iterator and the renumbering of a      *)
(* table make of a sequence: its entries at some of the positions, in      *)
(* their order.  SelectSeq says the same by recursion; this form counts    *)
(* positions, and can be reasoned about.                                   *)
(***************************************************************************)
EXTENDS Naturals, FiniteSets

\* The entries at the positions at.
Selected(entries, at) ==
    [k \in 1 .. Cardinality(at) |->
        entries[CHOOSE i \in at : Cardinality({j \in at : j <= i}) = k]]
=============================================================================
