---------------------------- MODULE VacuumEngine ----------------------------
(***************************************************************************)
(* The engine as a vacuum sees it, src/src/mini_search.rs: documents,      *)
(* their postings, the dirt count and the run in progress, as functions of *)
(* its state e.  SearchIndex has the whole of it.  A document here is a    *)
(* short id, used once, and indexes every term.                            *)
(*                                                                         *)
(* It has no schedule of its own: VacuumScheduler and FacadeVacuum are the *)
(* two that drive it.                                                      *)
(***************************************************************************)
EXTENDS Integers, FiniteSets

CONSTANTS
    Docs,           \* short ids, given to one document each, in order
    Terms,          \* the terms every document indexes
    MinDirtCount,   \* auto_vacuum.min_dirt_count
    MinDirtPercent  \* auto_vacuum.min_dirt_factor, in percent

ASSUME DocsAssumption == Docs \subseteq Nat /\ IsFiniteSet(Docs)
ASSUME TermsAssumption == IsFiniteSet(Terms)
ASSUME DirtAssumption == MinDirtCount \in Nat \ {0} /\ MinDirtPercent \in Nat

NoVacuum == [running |-> FALSE, terms |-> {}, initialDirtCount |-> 0]

NewEngine ==
    [alive |-> {}, postings |-> [d \in Docs |-> {}], dirtCount |-> 0, vacuumState |-> NoVacuum]

Tree(e) == UNION {e.postings[d] : d \in Docs}

Stale(e) == {d \in Docs \ e.alive : e.postings[d] # {}}

Done(e) == ~e.vacuumState.running

\* begin_vacuum: no effect while a run is in progress.
Begin(e) ==
    IF e.vacuumState.running THEN e
    ELSE [e EXCEPT !.vacuumState =
             [running |-> TRUE, terms |-> Tree(e), initialDirtCount |-> e.dirtCount]]

\* The batches of at most n terms that vacuum_step may take next.
Batches(e, n) ==
    LET terms == Begin(e).vacuumState.terms
    IN  {b \in SUBSET terms :
            Cardinality(b) = n \/ (b = terms /\ Cardinality(b) < n)}

\* Mutant: a finished run takes off the dirt of the discards it overlapped too.
AccountedToday(e) == 0

\* What is left of the dirt when the run of e is finished (saturating).
Accounted(e) ==
    IF e.dirtCount > e.vacuumState.initialDirtCount
    THEN e.dirtCount - e.vacuumState.initialDirtCount
    ELSE 0

\* vacuum_step of a batch: a run is begun when there is none, the batch loses
\* the postings of the documents that are dead by now, and the last batch
\* ends the run.
VacuumStep(e, batch) ==
    LET run == Begin(e)
        left == run.vacuumState.terms \ batch
        cleaned == [d \in Docs |->
            IF d \in e.alive THEN e.postings[d] ELSE e.postings[d] \ batch]
    IN  IF left # {}
        THEN [run EXCEPT !.postings = cleaned, !.vacuumState.terms = left]
        ELSE [run EXCEPT !.postings = cleaned, !.vacuumState = NoVacuum,
                         !.dirtCount = Accounted(run)]

\* e once the documents gone are discarded and the one in added, if any, is
\* added.
Discarded(e, gone, added) ==
    [e EXCEPT !.alive = (@ \ gone) \cup added,
              !.dirtCount = @ + Cardinality(gone),
              !.postings = [d \in Docs |-> IF d \in added THEN Terms ELSE @[d]]]

\* e once d is added, and once every document is removed: the run in progress
\* is dropped, the dirt count stays.
Added(e, d) == [e EXCEPT !.alive = @ \cup {d}, !.postings[d] = Terms]
Emptied(e) == [NewEngine EXCEPT !.dirtCount = e.dirtCount]

AutoVacuumRequest(e) ==
    /\ e.dirtCount >= MinDirtCount
    /\ 100 * e.dirtCount >= MinDirtPercent * (1 + Cardinality(e.alive) + e.dirtCount)
============================================================================
