--------------------------- MODULE MCSearchIndex ---------------------------
(***************************************************************************)
(* A small instance of SearchIndex: two ids, two terms, two fields, a      *)
(* document that repeats a term and lacks a field, and one that shares     *)
(* that term in its other field.                                           *)
(***************************************************************************)
EXTENDS SearchIndex, TLC

CONSTANTS a, b, t, u, f, g

InFields(x, y) == f :> x @@ g :> y

MCIds == {a, b}
MCTerms == {t, u}
MCFields == {f, g}
MCContents ==
    {[length |-> InFields(1, Absent),
      freq |-> t :> InFields(2, 0) @@ u :> InFields(0, 0)],
     [length |-> InFields(1, 2),
      freq |-> t :> InFields(0, 1) @@ u :> InFields(1, 0)]}

Symmetry == Permutations({a, b})
============================================================================
