---------------------------- MODULE MCFusedQuery ----------------------------
(***************************************************************************)
(* A small instance of FusedQuery: counters that wrap after two            *)
(* generations, and a mask of one bit, so that the second query term is    *)
(* already past its width.                                                 *)
(***************************************************************************)
EXTENDS FusedQuery, TLC

CONSTANTS d1, d2, t, u

MCDocs == {d1, d2}
MCTerms == {t, u}

Symmetry == Permutations(MCDocs) \cup Permutations(MCTerms)
=============================================================================
