--------------------------- MODULE MCFacadeVacuum ---------------------------
(***************************************************************************)
(* Two documents that index two terms, vacuumed one term a batch; the      *)
(* automatic vacuum is satisfied sooner than by its defaults.              *)
(***************************************************************************)
EXTENDS FacadeVacuum
=============================================================================
