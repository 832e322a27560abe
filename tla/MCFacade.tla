------------------------------ MODULE MCFacade ------------------------------
(***************************************************************************)
(* A small instance of Facade: two ids, two fields, batches of two.        *)
(***************************************************************************)
EXTENDS Facade, TLC

CONSTANTS a, b

MCIds == {a, b}
MCSymmetry == Permutations(MCIds)
============================================================================
