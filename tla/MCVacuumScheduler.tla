------------------------- MODULE MCVacuumScheduler -------------------------
(***************************************************************************)
(* Small instances of VacuumScheduler: documents that index two terms, so  *)
(* that a run with batches of one term has a middle.                       *)
(***************************************************************************)
EXTENDS VacuumScheduler
============================================================================
