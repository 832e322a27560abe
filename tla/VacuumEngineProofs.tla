------------------------- MODULE VacuumEngineProofs -------------------------
(***************************************************************************)
(* What holds of an engine whoever schedules its vacuum: its types, the    *)
(* dirt that pays for what a run misses, and what a run covers.            *)
(***************************************************************************)
EXTENDS VacuumEngine, FiniteSetTheorems, TLAPS

Engines ==
    [alive : SUBSET Docs, postings : [Docs -> SUBSET Terms], dirtCount : Nat,
     vacuumState : [running : BOOLEAN, terms : SUBSET Terms, initialDirtCount : Nat]]

\* The stale documents that the run in progress will leave with postings.
Missed(e) == {d \in Stale(e) : ~(e.postings[d] \subseteq e.vacuumState.terms)}

\* What the run will leave of the dirt pays for the documents it misses, and
\* the whole of it for all the stale ones.
Paid(e) ==
    /\ Cardinality(Stale(e)) <= e.dirtCount
    /\ e.vacuumState.initialDirtCount <= e.dirtCount
    /\ Cardinality(Missed(e)) <= e.dirtCount - e.vacuumState.initialDirtCount

EngineInv(e) ==
    /\ e \in Engines
    /\ ~e.vacuumState.running => e.vacuumState = NoVacuum
    /\ Paid(e)

\* The run in progress will take every posting of docs; when there is none,
\* they have none.
Covers(e, docs) == \A d \in docs : e.postings[d] \subseteq e.vacuumState.terms

\* Of docs, what e has cleaned f has too, and what e will clean f will.
Keeps(e, f, docs) ==
    /\ docs \cap Stale(e) = {} => docs \cap Stale(f) = {}
    /\ Covers(e, docs) => Covers(f, docs)

----------------------------------------------------------------------------
(* Counting stale documents.                                               *)

\* Sets of documents are finite and count as naturals.
LEMMA DocSets ==
    ASSUME NEW S \in SUBSET Docs
    PROVE  /\ IsFiniteSet(S) /\ Cardinality(S) \in Nat
           /\ \A R \in SUBSET S : Cardinality(R) <= Cardinality(S)
BY DocsAssumption, FS_Subset, FS_CardinalityType

\* At most Cardinality(gone) more documents are counted in a set that grew by
\* documents of gone only.
LEMMA GrownBy ==
    ASSUME NEW S \in SUBSET Docs, NEW R \in SUBSET Docs, NEW gone \in SUBSET Docs,
           R \subseteq S \cup gone
    PROVE  Cardinality(R) <= Cardinality(S) + Cardinality(gone)
<1>1. /\ IsFiniteSet(S) /\ IsFiniteSet(gone)
      /\ Cardinality(S) \in Nat /\ Cardinality(gone) \in Nat
      /\ Cardinality(S \cap gone) \in Nat /\ Cardinality(R) \in Nat
      /\ Cardinality(R) <= Cardinality(S \cup gone)
    BY DocSets
<1>2. Cardinality(S \cup gone) = Cardinality(S) + Cardinality(gone) - Cardinality(S \cap gone)
    BY <1>1, FS_Union
<1> QED
    BY <1>1, <1>2

\* The missed documents are among the stale ones.
LEMMA StaleSets ==
    ASSUME NEW e
    PROVE  Missed(e) \subseteq Stale(e) /\ Stale(e) \subseteq Docs
BY DEF Missed, Stale

\* A new engine owes nothing to anyone.
LEMMA NewEngineInv == EngineInv(NewEngine)
<1>1. NewEngine \in Engines
    BY DEF NewEngine, Engines, NoVacuum
<1>2. Stale(NewEngine) = {} /\ Missed(NewEngine) = {}
    BY DEF Stale, Missed, NewEngine
<1>3. Cardinality({}) = 0
    BY FS_EmptySet
<1>4. /\ NewEngine.dirtCount = 0 /\ NewEngine.vacuumState = NoVacuum
      /\ NoVacuum.initialDirtCount = 0
    BY DEF NewEngine, NoVacuum
<1> QED
    BY <1>1, <1>2, <1>3, <1>4 DEF EngineInv, Paid

\* An engine whose stale documents only lost postings, or are gone, while its
\* run and its dirt stay, is as good as it was.
LEMMA FewerPostings ==
    ASSUME NEW e, EngineInv(e), NEW f \in Engines,
           f.dirtCount = e.dirtCount, f.vacuumState = e.vacuumState,
           Stale(f) \subseteq Stale(e),
           \A d \in Stale(f) : f.postings[d] \subseteq e.postings[d]
    PROVE  EngineInv(f)
<1>1. Missed(f) \subseteq Missed(e)
    BY DEF Missed
<1>2. /\ Cardinality(Stale(f)) <= Cardinality(Stale(e))
      /\ Cardinality(Missed(f)) <= Cardinality(Missed(e))
      /\ Cardinality(Stale(f)) \in Nat /\ Cardinality(Stale(e)) \in Nat
      /\ Cardinality(Missed(f)) \in Nat /\ Cardinality(Missed(e)) \in Nat
    <2>1. /\ Stale(e) \in SUBSET Docs /\ Missed(e) \in SUBSET Docs
          /\ Stale(f) \in SUBSET Docs /\ Missed(f) \in SUBSET Docs
        BY StaleSets
    <2> QED
        BY <1>1, <2>1, DocSets
<1>3. e.dirtCount \in Nat /\ e.vacuumState.initialDirtCount \in Nat
    BY DEF EngineInv, Engines
<1> QED
    BY <1>2, <1>3 DEF EngineInv, Paid

----------------------------------------------------------------------------
(* A run.                                                                  *)

\* begin_vacuum leaves a run that covers what the engine's run covered and,
\* when there was none, every document.
LEMMA Begins ==
    ASSUME NEW e, EngineInv(e)
    PROVE  /\ EngineInv(Begin(e))
           /\ Begin(e).vacuumState.running
           /\ Begin(e).alive = e.alive /\ Begin(e).postings = e.postings
           /\ Begin(e).dirtCount = e.dirtCount
           /\ \A docs \in SUBSET Docs :
                  Covers(e, docs) \/ ~e.vacuumState.running => Covers(Begin(e), docs)
<1>1. CASE e.vacuumState.running
    BY <1>1 DEF Begin
<1>2. CASE ~e.vacuumState.running
    <2> DEFINE f == [e EXCEPT !.vacuumState =
             [running |-> TRUE, terms |-> Tree(e), initialDirtCount |-> e.dirtCount]]
    <2>1. e \in Engines /\ Tree(e) \subseteq Terms
        BY DEF EngineInv, Engines, Tree
    <2>2. /\ f \in Engines /\ f.alive = e.alive /\ f.postings = e.postings
          /\ f.dirtCount = e.dirtCount /\ f.vacuumState.running
          /\ f.vacuumState.initialDirtCount = e.dirtCount
          /\ f.vacuumState.terms = Tree(e)
        BY <2>1 DEF Engines
    <2>3. \A d \in Docs : e.postings[d] \subseteq Tree(e)
        BY DEF Tree
    <2>4. Stale(f) = Stale(e) /\ Missed(f) = {}
        BY <2>2, <2>3, StaleSets DEF Stale, Missed
    <2>5. Cardinality(Missed(f)) = 0
        BY <2>4, FS_EmptySet
    <2>6. EngineInv(f)
        <3>1. Cardinality(Stale(f)) <= f.dirtCount /\ f.dirtCount \in Nat
            BY <2>1, <2>2, <2>4 DEF EngineInv, Paid, Engines
        <3> QED
            BY <2>2, <2>5, <3>1 DEF EngineInv, Paid
    <2>7. Begin(e) = f
        BY <1>2 DEF Begin
    <2>8. \A docs \in SUBSET Docs : Covers(f, docs)
        BY <2>2, <2>3 DEF Covers
    <2> HIDE DEF f
    <2> QED
        BY <2>2, <2>6, <2>7, <2>8
<1> QED
    BY <1>1, <1>2

\* vacuum_step: the engine is accounted for as before, no document comes back
\* or gains postings, and the dead documents that the run, new or old, covered
\* are covered by what is left of it.
LEMMA StepCovers ==
    ASSUME NEW e, EngineInv(e), NEW n, NEW batch \in Batches(e, n)
    PROVE  /\ EngineInv(VacuumStep(e, batch))
           /\ VacuumStep(e, batch).alive = e.alive
           /\ \A d \in Docs : VacuumStep(e, batch).postings[d] \subseteq e.postings[d]
           /\ \A docs \in SUBSET (Docs \ e.alive) :
                  Covers(e, docs) \/ ~e.vacuumState.running => Covers(VacuumStep(e, batch), docs)
<1> DEFINE run == Begin(e)
           left == run.vacuumState.terms \ batch
           cleaned == [d \in Docs |-> IF d \in e.alive THEN e.postings[d] ELSE e.postings[d] \ batch]
           on == [run EXCEPT !.postings = cleaned, !.vacuumState.terms = left]
           over == [run EXCEPT !.postings = cleaned, !.vacuumState = NoVacuum,
                               !.dirtCount = Accounted(run)]
<1>1. /\ EngineInv(run) /\ run \in Engines /\ run.vacuumState.running
      /\ run.alive = e.alive /\ run.postings = e.postings
      /\ \A docs \in SUBSET Docs :
             Covers(e, docs) \/ ~e.vacuumState.running => Covers(run, docs)
    BY Begins DEF EngineInv
<1>2. cleaned \in [Docs -> SUBSET Terms]
    <2>1. run.postings \in [Docs -> SUBSET Terms]
        BY <1>1 DEF Engines
    <2> QED
        BY <1>1, <2>1
<1>3. batch \subseteq run.vacuumState.terms
    BY DEF Batches
<1>4. \A d \in Docs : cleaned[d] \subseteq e.postings[d]
    OBVIOUS
<1>5. \A d \in Docs \ e.alive :
         e.postings[d] \subseteq run.vacuumState.terms => cleaned[d] \subseteq left
    OBVIOUS
<1>6. CASE left # {}
    <2>1. /\ on \in Engines /\ on.alive = e.alive /\ on.postings = cleaned
          /\ on.dirtCount = run.dirtCount /\ on.vacuumState.running
          /\ on.vacuumState.initialDirtCount = run.vacuumState.initialDirtCount
          /\ on.vacuumState.terms = left
        BY <1>1, <1>2 DEF Engines
    <2>2. Stale(on) \subseteq Stale(run)
        BY <1>1, <1>4, <2>1 DEF Stale
    <2>3. Missed(on) \subseteq Missed(run)
        BY <1>1, <1>5, <2>1, <2>2 DEF Stale, Missed
    <2>4. Paid(on)
        <3>1. /\ Stale(on) \in SUBSET Docs /\ Missed(on) \in SUBSET Docs
              /\ Stale(run) \in SUBSET Docs /\ Missed(run) \in SUBSET Docs
            BY StaleSets
        <3>2. /\ Cardinality(Stale(on)) <= Cardinality(Stale(run))
              /\ Cardinality(Missed(on)) <= Cardinality(Missed(run))
              /\ Cardinality(Stale(on)) \in Nat /\ Cardinality(Stale(run)) \in Nat
              /\ Cardinality(Missed(on)) \in Nat /\ Cardinality(Missed(run)) \in Nat
            BY <2>2, <2>3, <3>1, DocSets
        <3>3. run.dirtCount \in Nat /\ run.vacuumState.initialDirtCount \in Nat /\ Paid(run)
            BY <1>1 DEF EngineInv, Engines
        <3> QED
            BY <2>1, <3>2, <3>3 DEF Paid
    <2>5. VacuumStep(e, batch) = on
        BY <1>6 DEF VacuumStep
    <2>6. \A docs \in SUBSET (Docs \ e.alive) : Covers(run, docs) => Covers(on, docs)
        BY <1>1, <1>5, <2>1 DEF Covers
    <2> HIDE DEF on, cleaned, left
    <2> QED
        BY <1>1, <1>4, <2>1, <2>4, <2>5, <2>6 DEF EngineInv
<1>7. CASE left = {}
    <2>1. Accounted(run) = run.dirtCount - run.vacuumState.initialDirtCount
          /\ Accounted(run) \in Nat
        <3>1. /\ run.dirtCount \in Nat /\ run.vacuumState.initialDirtCount \in Nat
              /\ run.vacuumState.initialDirtCount <= run.dirtCount
            BY <1>1 DEF EngineInv, Engines, Paid
        <3> QED
            BY <3>1 DEF Accounted
    <2>2. /\ over \in Engines /\ over.alive = e.alive /\ over.postings = cleaned
          /\ over.dirtCount = Accounted(run) /\ over.vacuumState = NoVacuum
        BY <1>1, <1>2, <2>1 DEF Engines, NoVacuum
    <2>3. Stale(over) \subseteq Missed(run)
        BY <1>1, <1>4, <1>5, <1>7, <2>2 DEF Stale, Missed
    <2>4. Paid(over)
        <3>1. Stale(over) \in SUBSET Docs /\ Missed(run) \in SUBSET Docs
              /\ Missed(over) \in SUBSET Stale(over)
            BY StaleSets
        <3>2. /\ Cardinality(Stale(over)) <= Cardinality(Missed(run))
              /\ Cardinality(Stale(over)) \in Nat /\ Cardinality(Missed(run)) \in Nat
            BY <2>3, <3>1, DocSets
        <3>3. /\ Cardinality(Missed(over)) <= Cardinality(Stale(over))
              /\ Cardinality(Missed(over)) \in Nat
            BY <3>1, DocSets
        <3>4. Cardinality(Missed(run)) <= over.dirtCount
            BY <1>1, <2>1, <2>2 DEF EngineInv, Paid
        <3>5. over.vacuumState.initialDirtCount = 0
            BY <2>2 DEF NoVacuum
        <3> QED
            BY <2>1, <2>2, <3>2, <3>3, <3>4, <3>5 DEF Paid
    <2>5. VacuumStep(e, batch) = over
        BY <1>7 DEF VacuumStep
    <2>6. \A docs \in SUBSET (Docs \ e.alive) : Covers(run, docs) => Covers(over, docs)
        BY <1>1, <1>5, <1>7, <2>2 DEF Covers, NoVacuum
    <2>7. over.vacuumState = NoVacuum
        BY <2>2
    <2> HIDE DEF over, cleaned, left
    <2> QED
        BY <1>1, <1>4, <2>2, <2>4, <2>5, <2>6, <2>7 DEF EngineInv
<1> QED
    BY <1>6, <1>7

\* In the terms of Keeps: a step undoes nothing, and the first step of a run
\* covers every dead document.
LEMMA StepForward ==
    ASSUME NEW e, EngineInv(e), NEW n, NEW batch \in Batches(e, n)
    PROVE  /\ EngineInv(VacuumStep(e, batch))
           /\ VacuumStep(e, batch).alive = e.alive
           /\ \A d \in Docs : VacuumStep(e, batch).postings[d] \subseteq e.postings[d]
           /\ \A docs \in SUBSET (Docs \ e.alive) :
                  /\ Keeps(e, VacuumStep(e, batch), docs)
                  /\ ~e.vacuumState.running => Covers(VacuumStep(e, batch), docs)
<1>1. Stale(VacuumStep(e, batch)) \subseteq Stale(e)
    BY StepCovers DEF Stale
<1> QED
    BY <1>1, StepCovers DEF Keeps

\* The same of the first step of a run, which schedulers begin apart.
LEMMA FirstStepForward ==
    ASSUME NEW e, EngineInv(e), NEW n, NEW batch \in Batches(e, n)
    PROVE  /\ EngineInv(VacuumStep(Begin(e), batch))
           /\ VacuumStep(Begin(e), batch).alive = e.alive
           /\ \A d \in Docs : VacuumStep(Begin(e), batch).postings[d] \subseteq e.postings[d]
           /\ \A docs \in SUBSET (Docs \ e.alive) :
                  /\ Keeps(e, VacuumStep(Begin(e), batch), docs)
                  /\ ~e.vacuumState.running => Covers(VacuumStep(Begin(e), batch), docs)
<1>1. /\ EngineInv(Begin(e)) /\ Begin(e).vacuumState.running
      /\ Begin(e).alive = e.alive /\ Begin(e).postings = e.postings
      /\ \A docs \in SUBSET Docs :
             Covers(e, docs) \/ ~e.vacuumState.running => Covers(Begin(e), docs)
    BY Begins
<1>2. Begin(Begin(e)) = Begin(e)
    BY <1>1 DEF Begin
<1>3. batch \in Batches(Begin(e), n)
    BY <1>2 DEF Batches
<1>4. Stale(Begin(e)) = Stale(e)
    BY <1>1 DEF Stale
<1> QED
    BY <1>1, <1>3, <1>4, StepForward DEF Keeps

\* The dead documents that an engine without a run covers are clean.
LEMMA CoveredAtRest ==
    ASSUME NEW e, EngineInv(e), ~e.vacuumState.running, NEW docs, Covers(e, docs)
    PROVE  docs \cap Stale(e) = {}
BY DEF EngineInv, Covers, Stale, NoVacuum

----------------------------------------------------------------------------
(* The other operations.                                                   *)

\* f is e after the documents gone died and those added came, with its books
\* in order, its run where it was and nothing undone.
Replaces(e, f, gone, added) ==
    /\ EngineInv(f)
    /\ f.alive = (e.alive \ gone) \cup added
    /\ f.vacuumState = e.vacuumState
    /\ \A d \in Docs \ added : f.postings[d] = e.postings[d]
    /\ \A docs \in SUBSET (Docs \ (e.alive \cup added)) : Keeps(e, f, docs)

\* Discarding documents, and adding one in their place, keeps the books: each
\* document gone is paid for.
LEMMA Discards ==
    ASSUME NEW e, EngineInv(e), NEW gone \in SUBSET e.alive, NEW added \in SUBSET Docs
    PROVE  Replaces(e, Discarded(e, gone, added), gone, added)
<1> DEFINE f == Discarded(e, gone, added)
<1>1. e \in Engines /\ e.alive \subseteq Docs /\ gone \in SUBSET Docs
    BY DEF EngineInv, Engines
<1>2. Cardinality(gone) \in Nat
    BY <1>1, DocSets
<1>3. /\ f \in Engines /\ f.alive = (e.alive \ gone) \cup added
      /\ f.dirtCount = e.dirtCount + Cardinality(gone)
      /\ f.vacuumState = e.vacuumState
      /\ \A d \in Docs : f.postings[d] = IF d \in added THEN Terms ELSE e.postings[d]
    <2> DEFINE new == [d \in Docs |-> IF d \in added THEN Terms ELSE e.postings[d]]
    <2>1. new \in [Docs -> SUBSET Terms]
        BY <1>1 DEF Engines
    <2>2. /\ (e.alive \ gone) \cup added \in SUBSET Docs
          /\ e.dirtCount + Cardinality(gone) \in Nat
        BY <1>1, <1>2 DEF Engines
    <2>3. f = [e EXCEPT !.alive = (e.alive \ gone) \cup added,
                        !.dirtCount = e.dirtCount + Cardinality(gone), !.postings = new]
        BY DEF Discarded
    <2>4. \A d \in Docs : new[d] = IF d \in added THEN Terms ELSE e.postings[d]
        OBVIOUS
    <2> HIDE DEF new, f
    <2> QED
        BY <1>1, <2>1, <2>2, <2>3, <2>4 DEF Engines
<1>4. Stale(f) \subseteq Stale(e) \cup gone /\ Missed(f) \subseteq Missed(e) \cup gone
    BY <1>3 DEF Stale, Missed
<1>5. /\ Stale(e) \in SUBSET Docs /\ Missed(e) \in SUBSET Docs
      /\ Stale(f) \in SUBSET Docs /\ Missed(f) \in SUBSET Docs
    BY StaleSets
<1>6. /\ Cardinality(Stale(f)) <= Cardinality(Stale(e)) + Cardinality(gone)
      /\ Cardinality(Missed(f)) <= Cardinality(Missed(e)) + Cardinality(gone)
      /\ Cardinality(Stale(f)) \in Nat /\ Cardinality(Stale(e)) \in Nat
      /\ Cardinality(Missed(f)) \in Nat /\ Cardinality(Missed(e)) \in Nat
    BY <1>1, <1>4, <1>5, GrownBy, DocSets
<1>7. Paid(e) /\ e.dirtCount \in Nat /\ e.vacuumState.initialDirtCount \in Nat
    BY DEF EngineInv, Engines
<1>8. Paid(f)
    BY <1>2, <1>3, <1>6, <1>7 DEF Paid
<1>9. \A docs \in SUBSET (Docs \ (e.alive \cup added)) : Keeps(e, f, docs)
    BY <1>3 DEF Keeps, Covers, Stale
<1> HIDE DEF f
<1>10. EngineInv(f)
    BY <1>3, <1>8 DEF EngineInv
<1> QED
    BY <1>3, <1>9, <1>10 DEF f, Replaces

\* Adding a document takes it off the stale ones, if it was there.
LEMMA Adds ==
    ASSUME NEW e, EngineInv(e), NEW d \in Docs
    PROVE  /\ EngineInv(Added(e, d))
           /\ Added(e, d).alive = e.alive \cup {d}
           /\ Added(e, d).vacuumState = e.vacuumState
           /\ \A x \in Docs \ {d} : Added(e, d).postings[x] = e.postings[x]
           /\ \A docs \in SUBSET (Docs \ {d}) : Keeps(e, Added(e, d), docs)
<1>1. e \in Engines
    BY DEF EngineInv
<1>2. /\ Added(e, d) \in Engines /\ Added(e, d).alive = e.alive \cup {d}
      /\ Added(e, d).dirtCount = e.dirtCount /\ Added(e, d).vacuumState = e.vacuumState
      /\ \A x \in Docs \ {d} : Added(e, d).postings[x] = e.postings[x]
    BY <1>1 DEF Added, Engines
<1>3. /\ Stale(Added(e, d)) \subseteq Stale(e)
      /\ \A x \in Stale(Added(e, d)) : Added(e, d).postings[x] \subseteq e.postings[x]
    BY <1>2 DEF Stale
<1>4. EngineInv(Added(e, d))
    BY <1>2, <1>3, FewerPostings
<1> QED
    BY <1>2, <1>3, <1>4 DEF Keeps, Covers

\* Removing every document leaves nothing to clean.
LEMMA Empties ==
    ASSUME NEW e, EngineInv(e)
    PROVE  /\ EngineInv(Emptied(e))
           /\ Emptied(e).alive = {} /\ ~Emptied(e).vacuumState.running
           /\ \A d \in Docs : Emptied(e).postings[d] = {}
           /\ \A docs \in SUBSET Docs : Keeps(e, Emptied(e), docs) /\ Covers(Emptied(e), docs)
<1>1. e.dirtCount \in Nat
    BY DEF EngineInv, Engines
<1>2. /\ Emptied(e) \in Engines /\ Emptied(e).alive = {}
      /\ Emptied(e).postings = [d \in Docs |-> {}]
      /\ Emptied(e).dirtCount = e.dirtCount /\ Emptied(e).vacuumState = NoVacuum
    BY <1>1 DEF Emptied, NewEngine, Engines, NoVacuum
<1>3. Stale(Emptied(e)) = {} /\ Missed(Emptied(e)) = {}
    BY <1>2 DEF Stale, Missed
<1>4. Cardinality({}) = 0
    BY FS_EmptySet
<1>5. ~NoVacuum.running /\ NoVacuum.initialDirtCount = 0
    BY DEF NoVacuum
<1>6. EngineInv(Emptied(e))
    BY <1>1, <1>2, <1>3, <1>4, <1>5 DEF EngineInv, Paid
<1> QED
    BY <1>2, <1>3, <1>5, <1>6 DEF Keeps, Covers

\* An engine that loses its run still pays for all its stale documents, and
\* what it has cleaned stays clean.
LEMMA LosesRun ==
    ASSUME NEW e, EngineInv(e), NEW f, f = [e EXCEPT !.vacuumState = NoVacuum]
    PROVE  /\ EngineInv(f) /\ ~f.vacuumState.running
           /\ f.alive = e.alive /\ f.postings = e.postings /\ Stale(f) = Stale(e)
<1>1. e \in Engines
    BY DEF EngineInv
<1>2. /\ f \in Engines /\ f.alive = e.alive /\ f.postings = e.postings
      /\ f.dirtCount = e.dirtCount /\ f.vacuumState = NoVacuum
    BY <1>1 DEF Engines, NoVacuum
<1>3. Stale(f) = Stale(e) /\ Missed(f) \in SUBSET Stale(f) /\ Stale(f) \in SUBSET Docs
    BY <1>2 DEF Stale, Missed
<1>4. /\ Cardinality(Missed(f)) <= Cardinality(Stale(f))
      /\ Cardinality(Missed(f)) \in Nat /\ Cardinality(Stale(f)) \in Nat
    BY <1>3, DocSets
<1>5. ~NoVacuum.running /\ NoVacuum.initialDirtCount = 0
    BY DEF NoVacuum
<1>6. f.dirtCount \in Nat /\ Cardinality(Stale(f)) <= f.dirtCount
    BY <1>1, <1>2, <1>3 DEF EngineInv, Paid, Engines
<1> QED
    BY <1>2, <1>3, <1>4, <1>5, <1>6 DEF EngineInv, Paid

=============================================================================
