----------------------- MODULE VacuumSchedulerProofs -----------------------
(***************************************************************************)
(* The inductive invariant of VacuumScheduler and the theorems it gives,   *)
(* for every number of documents, terms, calls and hand-driven steps and   *)
(* every batch size.                                                       *)
(***************************************************************************)
EXTENDS VacuumScheduler, VacuumEngineProofs

\* A short id is given out clean, and one a call found dead is never live again.
IdsInv ==
    /\ \A d \in fresh : inner.postings[d] = {}
    /\ \A c \in Calls : owed[c] \cap (inner.alive \cup fresh) = {}

\* Undisturbed, a run in progress has a task that is not over, and nobody
\* steps by hand; a disturbed run owes nothing.
TaskInv ==
    /\ disturbed => \A c \in Calls : owed[c] = {}
    /\ ~disturbed =>
           /\ handSteps = 0
           /\ ~active => ~inner.vacuumState.running
           /\ task.at = "spawned" /\ task.done => ~inner.vacuumState.running

\* The rerun cannot be dropped.
Certain == rerun.queued /\ ~rerun.allAutomatic

\* A pending call is answered by the run in progress or by a certain rerun,
\* and a fulfilled one has been, by an engine e.
Answered(e) ==
    \A c \in Calls :
        /\ promises[c] = "pending" => Covers(e, owed[c]) \/ Certain
        /\ promises[c] = "fulfilled" => owed[c] \cap Stale(e) = {}

IInv == TypeOK /\ EngineInv(inner) /\ IdsInv /\ TaskInv /\ Answered(inner)

----------------------------------------------------------------------------
(* The initial states, and steps of the engine alone.                      *)

LEMMA InitInv == Init => IInv
<1> SUFFICES ASSUME Init PROVE IInv
    OBVIOUS
<1>1. EngineInv(inner) /\ inner \in Engines
    BY NewEngineInv DEF Init, EngineInv
<1>2. TypeOK
    <2>1. inner.alive = {} /\ handSteps \in 0 .. MaxHandSteps
        BY StepsAssumption DEF Init, NewEngine
    <2>2. /\ rerun \in [queued : BOOLEAN, batchSize : Nat, allAutomatic : BOOLEAN]
          /\ task \in [at : {"none", "spawned", "timer"}, batchSize : Nat, done : BOOLEAN]
          /\ ~rerun.queued /\ task.at = "none"
        BY DEF Init, NoRerun, NoTask
    <2>3. /\ promises \in [Calls -> {"none", "pending", "fulfilled", "rejected"}]
          /\ ~\E c \in Calls : promises[c] = "pending"
          /\ owed \in [Calls -> SUBSET Docs]
        BY DEF Init
    <2> QED
        BY <1>1, <2>1, <2>2, <2>3 DEF Init, TypeOK, Engines
<1>3. IdsInv /\ TaskInv /\ Answered(inner)
    BY DEF Init, IdsInv, TaskInv, Answered, NewEngine, NoVacuum, NoTask
<1> QED
    BY <1>1, <1>2, <1>3 DEF IInv

\* The documents owed are dead and not to be given out.
LEMMA OwedDead ==
    ASSUME IInv, NEW c \in Calls
    PROVE  owed[c] \in SUBSET (Docs \ (inner.alive \cup fresh))
BY DEF IInv, TypeOK, IdsInv

\* A step of the engine that leaves the runtime alone keeps the invariant if it
\* keeps the engine's books and undoes nothing.
LEMMA EngineOnly ==
    ASSUME IInv, UNCHANGED <<active, rerun, task, promises, disturbed, owed>>,
           handSteps' \in 0 .. MaxHandSteps, ~disturbed => handSteps' = handSteps,
           EngineInv(inner'),
           fresh' \subseteq fresh, inner'.alive \subseteq inner.alive \cup fresh,
           inner'.alive \cap fresh' = {}, \A d \in fresh' : inner'.postings[d] = {},
           \A docs \in SUBSET (Docs \ (inner.alive \cup fresh)) : Keeps(inner, inner', docs),
           ~disturbed /\ ~inner.vacuumState.running => ~inner'.vacuumState.running,
           asked' \subseteq Docs
    PROVE  IInv'
<1>1. inner' \in Engines
    BY DEF EngineInv
<1>2. TypeOK'
    BY <1>1 DEF IInv, TypeOK, Engines
<1>3. IdsInv'
    BY DEF IInv, IdsInv
<1>4. TaskInv'
    BY DEF IInv, TaskInv
<1>5. Answered(inner)'
    <2>1. \A c \in Calls : Keeps(inner, inner', owed[c])
        BY OwedDead
    <2> QED
        BY <2>1 DEF IInv, Answered, Keeps, Certain
<1> QED
    BY <1>2, <1>3, <1>4, <1>5 DEF IInv

\* The history of what was asked is a set of documents.
LEMMA AskedType ==
    ASSUME NEW requested, asked' = StillAsked(requested)
    PROVE  asked' \subseteq Docs
BY DEF StillAsked, Stale

\* The next id to give out is a fresh one.
LEMMA NextIdFresh == NextId \subseteq fresh
BY DEF NextId

LEMMA AddInv ==
    ASSUME IInv, NEW d \in NextId, Add(d)
    PROVE  IInv'
<1>1. d \in fresh /\ d \in Docs /\ EngineInv(inner) /\ fresh \subseteq Docs \ inner.alive
    BY NextIdFresh DEF IInv, TypeOK
<1>2. inner' = Added(inner, d) /\ fresh' = fresh \ {d}
    BY DEF Add
<1>3. /\ EngineInv(inner') /\ inner'.alive = inner.alive \cup {d}
      /\ inner'.vacuumState = inner.vacuumState
      /\ \A x \in Docs \ {d} : inner'.postings[x] = inner.postings[x]
      /\ \A docs \in SUBSET (Docs \ {d}) : Keeps(inner, inner', docs)
    BY <1>1, <1>2, Adds
<1>4. \A x \in fresh' : inner'.postings[x] = {}
    BY <1>1, <1>2, <1>3 DEF IInv, IdsInv
<1>5. /\ UNCHANGED <<active, rerun, task, promises, disturbed, owed>>
      /\ handSteps' = handSteps /\ handSteps \in 0 .. MaxHandSteps /\ asked' \subseteq Docs
    BY AskedType DEF Add, IInv, TypeOK
<1> QED
    BY <1>1, <1>2, <1>3, <1>4, <1>5, EngineOnly

LEMMA RemoveInv ==
    ASSUME IInv, NEW d \in Docs, Remove(d)
    PROVE  IInv'
<1>1. d \in inner.alive /\ EngineInv(inner) /\ inner \in Engines
      /\ fresh \subseteq Docs \ inner.alive
    BY DEF IInv, TypeOK, EngineInv, Remove
<1>2. inner' = [inner EXCEPT !.alive = @ \ {d}, !.postings[d] = {}]
    BY DEF Remove
<1>3. /\ inner' \in Engines /\ inner'.alive = inner.alive \ {d}
      /\ inner'.dirtCount = inner.dirtCount /\ inner'.vacuumState = inner.vacuumState
      /\ inner'.postings[d] = {}
      /\ \A x \in Docs \ {d} : inner'.postings[x] = inner.postings[x]
    BY <1>1, <1>2 DEF Engines
<1>4. /\ Stale(inner') \subseteq Stale(inner)
      /\ \A x \in Stale(inner') : inner'.postings[x] \subseteq inner.postings[x]
    BY <1>3 DEF Stale
<1>5. EngineInv(inner')
    BY <1>1, <1>3, <1>4, FewerPostings
<1>6. \A docs \in SUBSET (Docs \ inner.alive) : Keeps(inner, inner', docs)
    BY <1>1, <1>3, <1>4 DEF Keeps, Covers
<1>7. /\ UNCHANGED <<active, rerun, task, promises, disturbed, owed>>
      /\ fresh' = fresh /\ fresh \subseteq Docs
      /\ handSteps' = handSteps /\ handSteps \in 0 .. MaxHandSteps /\ asked' \subseteq Docs
    BY AskedType DEF Remove, IInv, TypeOK
<1>8. \A x \in fresh' : inner'.postings[x] = {}
    BY <1>1, <1>3, <1>7 DEF IInv, IdsInv
<1> QED
    BY <1>1, <1>3, <1>5, <1>6, <1>7, <1>8, EngineOnly

LEMMA RemoveAllInv ==
    ASSUME IInv, RemoveAll
    PROVE  IInv'
<1>1. EngineInv(inner) /\ inner' = Emptied(inner)
    BY DEF IInv, RemoveAll
<1>2. /\ EngineInv(inner') /\ inner'.alive = {} /\ ~inner'.vacuumState.running
      /\ \A d \in Docs : inner'.postings[d] = {}
      /\ \A docs \in SUBSET Docs : Keeps(inner, inner', docs)
    BY <1>1, Empties
<1>3. /\ UNCHANGED <<active, rerun, task, promises, disturbed, owed>>
      /\ fresh' = fresh /\ fresh \subseteq Docs
      /\ handSteps' = handSteps /\ handSteps \in 0 .. MaxHandSteps /\ asked' \subseteq Docs
    BY DEF RemoveAll, IInv, TypeOK
<1> QED
    BY <1>2, <1>3, EngineOnly

LEMMA HandStepInv ==
    ASSUME IInv, NEW n \in BatchSizes, HandStep(n)
    PROVE  IInv'
<1>1. /\ disturbed /\ handSteps' \in 0 .. MaxHandSteps
      /\ UNCHANGED <<active, rerun, task, promises, disturbed, owed, fresh>>
      /\ asked' \subseteq Docs
    BY AskedType, StepsAssumption DEF HandStep, IInv, TypeOK, TaskInv
<1>2. PICK batch \in Batches(inner, n) : inner' = VacuumStep(inner, batch)
    BY DEF HandStep
<1>3. /\ EngineInv(inner') /\ inner'.alive = inner.alive
      /\ \A d \in Docs : inner'.postings[d] \subseteq inner.postings[d]
      /\ \A docs \in SUBSET (Docs \ inner.alive) : Keeps(inner, inner', docs)
    BY <1>2, StepForward DEF IInv
<1>4. /\ fresh \subseteq Docs /\ inner.alive \cap fresh = {}
      /\ \A d \in fresh : inner.postings[d] = {}
    BY DEF IInv, TypeOK, IdsInv
<1> QED
    BY <1>1, <1>3, <1>4, EngineOnly

----------------------------------------------------------------------------
(* Requests.                                                               *)

RerunType == [queued : BOOLEAN, batchSize : Nat, allAutomatic : BOOLEAN]
TaskType == [at : {"none", "spawned", "timer"}, batchSize : Nat, done : BOOLEAN]

\* schedule_vacuum keeps the books, undoes nothing, has a task, and answers a
\* manual request by a run that covers every dead document or a certain rerun.
LEMMA Schedules ==
    ASSUME IInv, NEW e, EngineInv(e), e.vacuumState = inner.vacuumState,
           NEW n \in BatchSizes \cup {AutoBatchSize}, NEW automatic \in BOOLEAN,
           Schedule(e, n, automatic)
    PROVE  /\ EngineInv(inner') /\ inner'.alive = e.alive
           /\ \A d \in Docs : inner'.postings[d] \subseteq e.postings[d]
           /\ \A docs \in SUBSET (Docs \ e.alive) : Keeps(e, inner', docs)
           /\ active' /\ active' \in BOOLEAN /\ rerun' \in RerunType
           /\ task' \in TaskType /\ task'.at # "none"
           /\ ~disturbed /\ task'.at = "spawned" /\ task'.done => ~inner'.vacuumState.running
           /\ Certain => Certain'
           /\ ~automatic /\ ~disturbed =>
                  \A docs \in SUBSET (Docs \ e.alive) : Covers(inner', docs) \/ Certain'
           /\ ~disturbed =>
                  \A docs \in SUBSET (Docs \ e.alive) : Covers(inner', docs) \/ rerun'.queued
<1>1. /\ active \in BOOLEAN /\ rerun \in RerunType /\ task \in TaskType
      /\ active <=> task.at # "none"
      /\ rerun.queued => active
      /\ n \in Nat
    BY BatchesAssumption DEF IInv, TypeOK, RerunType, TaskType
<1>2. CASE active
    <2>1. /\ inner' = e /\ rerun' = Merged(n, automatic)
          /\ active' = active /\ task' = task
        BY <1>2 DEF Schedule
    <2>2. /\ rerun' \in RerunType
          /\ Certain => Certain'
          /\ ~automatic => Certain'
          /\ rerun'.queued
        BY <1>1, <2>1 DEF Merged, RerunType, Certain
    <2>3. \A docs \in SUBSET (Docs \ e.alive) : Keeps(e, inner', docs)
        BY <2>1 DEF Keeps
    <2>4. ~disturbed /\ task'.at = "spawned" /\ task'.done => ~inner'.vacuumState.running
        BY <2>1 DEF IInv, TaskInv
    <2>5. EngineInv(inner') /\ \A d \in Docs : inner'.postings[d] \subseteq e.postings[d]
        BY <2>1
    <2>6. active' /\ active' \in BOOLEAN /\ task' \in TaskType /\ task'.at # "none"
        BY <1>1, <1>2, <2>1
    <2> QED
        BY <2>1, <2>2, <2>3, <2>4, <2>5, <2>6
<1>3. CASE ~active
    <2>1. PICK batch \in Batches(e, n) :
             /\ inner' = VacuumStep(Begin(e), batch)
             /\ active' = TRUE
             /\ task' = [at |-> "spawned", batchSize |-> n, done |-> Done(inner')]
             /\ rerun' = rerun
        BY <1>3 DEF Schedule, Start
    <2>2. /\ EngineInv(inner') /\ inner'.alive = e.alive
          /\ \A d \in Docs : inner'.postings[d] \subseteq e.postings[d]
          /\ \A docs \in SUBSET (Docs \ e.alive) :
                 Keeps(e, inner', docs) /\ (~e.vacuumState.running => Covers(inner', docs))
        BY <2>1, FirstStepForward
    <2>3. task' \in TaskType /\ task'.at # "none" /\ task'.done = ~inner'.vacuumState.running
        BY <1>1, <2>1, <2>2 DEF TaskType, Done, EngineInv, Engines
    <2>4. ~disturbed => ~e.vacuumState.running
        BY <1>3 DEF IInv, TaskInv
    <2>5. ~Certain
        BY <1>1, <1>3 DEF Certain
    <2> QED
        BY <1>1, <2>1, <2>2, <2>3, <2>4, <2>5
<1> QED
    BY <1>1, <1>2, <1>3

LEMMA VacuumInv ==
    ASSUME IInv, NEW call \in Calls, NEW n \in BatchSizes, Vacuum(call, n)
    PROVE  IInv'
<1>1. /\ promises[call] = "none" /\ promises' = [promises EXCEPT ![call] = "pending"]
      /\ owed' = IF disturbed THEN owed ELSE [owed EXCEPT ![call] = Stale(inner)]
      /\ Schedule(inner, n, FALSE)
      /\ UNCHANGED <<fresh, handSteps, disturbed>> /\ asked' \subseteq Docs
    BY AskedType DEF Vacuum
<1>2. TypeOK /\ EngineInv(inner) /\ IdsInv /\ TaskInv /\ Answered(inner)
    BY DEF IInv
<1>3. /\ EngineInv(inner') /\ inner'.alive = inner.alive
      /\ \A d \in Docs : inner'.postings[d] \subseteq inner.postings[d]
      /\ \A docs \in SUBSET (Docs \ inner.alive) : Keeps(inner, inner', docs)
      /\ active' /\ active' \in BOOLEAN /\ rerun' \in RerunType
      /\ task' \in TaskType /\ task'.at # "none"
      /\ ~disturbed /\ task'.at = "spawned" /\ task'.done => ~inner'.vacuumState.running
      /\ Certain => Certain'
      /\ ~disturbed => \A docs \in SUBSET (Docs \ inner.alive) : Covers(inner', docs) \/ Certain'
    BY <1>1, <1>2, Schedules
<1>4. /\ Stale(inner) \in SUBSET (Docs \ inner.alive)
      /\ Stale(inner) \cap fresh = {}
    BY <1>2 DEF Stale, IdsInv
<1>5. owed' \in [Calls -> SUBSET Docs] /\ \A c \in Calls \ {call} : owed'[c] = owed[c]
      /\ (owed'[call] = owed[call] \/ (~disturbed /\ owed'[call] = Stale(inner)))
    BY <1>1, <1>2, <1>4 DEF TypeOK
<1>6. /\ promises' \in [Calls -> {"none", "pending", "fulfilled", "rejected"}]
      /\ \A c \in Calls \ {call} : promises'[c] = promises[c]
      /\ promises'[call] = "pending"
    BY <1>1, <1>2 DEF TypeOK
<1>7. TypeOK'
    <2>1. inner' \in Engines /\ fresh' \subseteq Docs \ inner'.alive
        BY <1>1, <1>2, <1>3 DEF EngineInv, TypeOK
    <2> QED
        BY <1>1, <1>2, <1>3, <1>5, <1>6, <2>1 DEF TypeOK, Engines, RerunType, TaskType
<1>8. IdsInv'
    <2>1. \A d \in fresh : inner'.postings[d] = {}
        BY <1>2, <1>3 DEF IdsInv, TypeOK
    <2> QED
        BY <1>1, <1>2, <1>3, <1>4, <1>5, <2>1 DEF IdsInv
<1>9. TaskInv'
    BY <1>1, <1>2, <1>3 DEF TaskInv
<1>10. Answered(inner)'
    <2>1. ASSUME NEW c \in Calls \ {call}
          PROVE  /\ promises'[c] = "pending" => Covers(inner', owed'[c]) \/ Certain'
                 /\ promises'[c] = "fulfilled" => owed'[c] \cap Stale(inner') = {}
        <3>1. Keeps(inner, inner', owed[c])
            BY <1>3, OwedDead
        <3> QED
            BY <1>2, <1>3, <1>5, <1>6, <3>1 DEF Answered, Keeps
    <2>2. Covers(inner', owed'[call]) \/ Certain'
        <3>1. CASE disturbed
            <4>1. owed'[call] = {}
                BY <1>1, <1>2, <3>1 DEF TaskInv
            <4> QED
                BY <4>1 DEF Covers
        <3>2. CASE ~disturbed
            BY <1>1, <1>2, <1>3, <1>4, <3>2, OwedDead DEF TypeOK
        <3> QED
            BY <3>1, <3>2
    <2> QED
        BY <1>6, <2>1, <2>2 DEF Answered
<1> QED
    BY <1>3, <1>7, <1>8, <1>9, <1>10 DEF IInv

\* Discarding and adding, before any vacuum it asks for: gone live documents
\* die, the one added is no longer fresh, and nothing owed is undone.
LEMMA DiscardedFacts ==
    ASSUME IInv, NEW gone \in SUBSET inner.alive, NEW added \in SUBSET fresh
    PROVE  LET e == Discarded(inner, gone, added)
           IN  /\ EngineInv(e) /\ e.vacuumState = inner.vacuumState
               /\ e.alive \subseteq inner.alive \cup fresh
               /\ e.alive \cap (fresh \ added) = {} /\ e.alive \subseteq Docs
               /\ \A d \in fresh \ added : e.postings[d] = {}
               /\ \A docs \in SUBSET (Docs \ (inner.alive \cup fresh)) : Keeps(inner, e, docs)
<1>1. EngineInv(inner) /\ fresh \subseteq Docs \ inner.alive /\ inner.alive \subseteq Docs
    BY DEF IInv, TypeOK
<1>2. added \in SUBSET Docs /\ \A d \in fresh : inner.postings[d] = {}
    BY <1>1 DEF IInv, IdsInv
<1> DEFINE f == Discarded(inner, gone, added)
<1>3. /\ EngineInv(f) /\ f.alive = (inner.alive \ gone) \cup added
      /\ f.vacuumState = inner.vacuumState
      /\ \A d \in Docs \ added : f.postings[d] = inner.postings[d]
      /\ \A docs \in SUBSET (Docs \ (inner.alive \cup added)) : Keeps(inner, f, docs)
    <2>1. Replaces(inner, f, gone, added)
        BY <1>1, <1>2, Discards
    <2> HIDE DEF f
    <2> QED
        BY <2>1 DEF Replaces
<1> HIDE DEF f
<1> QED
    BY <1>1, <1>2, <1>3 DEF f

LEMMA DiscardFailingInv ==
    ASSUME IInv, NEW gone \in SUBSET inner.alive, DiscardFailing(gone)
    PROVE  IInv'
<1>1. inner' = Discarded(inner, gone, {}) /\ {} \in SUBSET fresh
    BY DEF DiscardFailing
<1>2. /\ EngineInv(inner') /\ inner'.vacuumState = inner.vacuumState
      /\ inner'.alive \subseteq inner.alive \cup fresh
      /\ inner'.alive \cap (fresh \ {}) = {}
      /\ \A d \in fresh \ {} : inner'.postings[d] = {}
      /\ \A docs \in SUBSET (Docs \ (inner.alive \cup fresh)) : Keeps(inner, inner', docs)
    BY <1>1, DiscardedFacts
<1>3. /\ UNCHANGED <<active, rerun, task, promises, disturbed, owed, fresh>>
      /\ handSteps' = handSteps /\ handSteps \in 0 .. MaxHandSteps /\ asked' \subseteq Docs
    BY AskedType DEF DiscardFailing, IInv, TypeOK
<1> QED
    BY <1>2, <1>3, EngineOnly

LEMMA DiscardInv ==
    ASSUME IInv, NEW gone \in SUBSET inner.alive, NEW added \in SUBSET fresh,
           Discard(gone, added)
    PROVE  IInv'
<1> DEFINE e == Discarded(inner, gone, added)
<1>1. /\ EngineInv(e) /\ e.vacuumState = inner.vacuumState
      /\ e.alive \subseteq inner.alive \cup fresh
      /\ e.alive \cap (fresh \ added) = {} /\ e.alive \subseteq Docs
      /\ \A d \in fresh \ added : e.postings[d] = {}
      /\ \A docs \in SUBSET (Docs \ (inner.alive \cup fresh)) : Keeps(inner, e, docs)
    BY DiscardedFacts
<1>2. TypeOK /\ EngineInv(inner) /\ IdsInv /\ TaskInv /\ Answered(inner)
    BY DEF IInv
<1>3. /\ fresh' = fresh \ added
      /\ UNCHANGED <<promises, handSteps, disturbed, owed>>
    BY DEF Discard
<1>4. CASE ~AutoVacuumRequest(e)
    <2>1. inner' = e /\ asked' = {} /\ UNCHANGED <<active, rerun, task>>
        BY <1>4 DEF Discard
    <2>2. handSteps' \in 0 .. MaxHandSteps
        BY <1>2, <1>3 DEF TypeOK
    <2> HIDE DEF e
    <2> QED
        BY <1>1, <1>3, <2>1, <2>2, EngineOnly
<1>5. CASE AutoVacuumRequest(e)
    <2>1. Schedule(e, AutoBatchSize, TRUE) /\ asked' \subseteq Docs
        BY <1>5, AskedType DEF Discard
    <2> HIDE DEF e
    <2>2. /\ EngineInv(inner') /\ inner'.alive = e.alive
          /\ \A d \in Docs : inner'.postings[d] \subseteq e.postings[d]
          /\ \A docs \in SUBSET (Docs \ e.alive) : Keeps(e, inner', docs)
          /\ active' /\ active' \in BOOLEAN /\ rerun' \in RerunType
          /\ task' \in TaskType /\ task'.at # "none"
          /\ ~disturbed /\ task'.at = "spawned" /\ task'.done => ~inner'.vacuumState.running
          /\ Certain => Certain'
        BY <1>1, <2>1, Schedules
    <2>3. TypeOK'
        <3>1. inner' \in Engines /\ fresh' \subseteq Docs \ inner'.alive
            BY <1>1, <1>2, <1>3, <2>2 DEF EngineInv, TypeOK
        <3> QED
            BY <1>2, <1>3, <2>1, <2>2, <3>1 DEF TypeOK, Engines, RerunType, TaskType
    <2>4. IdsInv'
        <3>1. \A d \in fresh' : inner'.postings[d] = {}
            BY <1>1, <1>2, <1>3, <2>2 DEF TypeOK
        <3> QED
            BY <1>1, <1>2, <1>3, <2>2, <3>1 DEF IdsInv
    <2>5. TaskInv'
        BY <1>2, <1>3, <2>2 DEF TaskInv
    <2>6. Answered(inner)'
        <3>1. ASSUME NEW c \in Calls
              PROVE  Keeps(inner, e, owed[c]) /\ Keeps(e, inner', owed[c])
            <4>1. owed[c] \in SUBSET (Docs \ (inner.alive \cup fresh))
                BY OwedDead
            <4>2. owed[c] \in SUBSET (Docs \ e.alive)
                BY <1>1, <4>1
            <4> QED
                BY <1>1, <2>2, <4>1, <4>2
        <3> QED
            BY <1>2, <1>3, <2>2, <3>1 DEF Answered, Keeps
    <2> QED
        BY <2>2, <2>3, <2>4, <2>5, <2>6 DEF IInv
<1> QED
    BY <1>4, <1>5

----------------------------------------------------------------------------
(* The task.                                                               *)

\* The task, from a step that left the engine e, to its next await or its end.
LEMMA ContinueInv ==
    ASSUME IInv, Resumed, task.at # "none",
           NEW e, EngineInv(e), e.alive = inner.alive,
           \A d \in Docs : e.postings[d] \subseteq inner.postings[d],
           \A docs \in SUBSET (Docs \ inner.alive) : Keeps(inner, e, docs),
           NEW done, ~disturbed /\ done => ~e.vacuumState.running,
           Continue(e, done)
    PROVE  IInv'
<1>1. TypeOK /\ EngineInv(inner) /\ IdsInv /\ TaskInv /\ Answered(inner)
    BY DEF IInv
<1>2. UNCHANGED <<fresh, handSteps, disturbed, owed>> /\ asked' \subseteq Docs /\ active
    BY <1>1, AskedType DEF Resumed, TypeOK
<1>3. \A c \in Calls : owed[c] \in SUBSET (Docs \ (inner.alive \cup fresh))
    BY OwedDead
<1>4. Answered(e)
    <2>1. \A c \in Calls : Keeps(inner, e, owed[c])
        BY <1>3
    <2> QED
        BY <1>1, <2>1 DEF Answered, Keeps
\* What the engine's next state must be, and what then remains to be shown.
<1>5. ASSUME EngineInv(inner'), inner'.alive = inner.alive,
             \A d \in Docs : inner'.postings[d] \subseteq inner.postings[d],
             rerun' \in RerunType, task' \in TaskType, task'.at # "spawned",
             active' \in BOOLEAN, active' <=> task'.at # "none", rerun'.queued => active',
             promises' \in [Calls -> {"none", "pending", "fulfilled", "rejected"}],
             (\E c \in Calls : promises'[c] = "pending") => active',
             ~disturbed /\ ~active' => ~inner'.vacuumState.running,
             Answered(inner)'
      PROVE  IInv'
    <2>1. inner' \in Engines /\ fresh' \subseteq Docs \ inner'.alive
        BY <1>1, <1>2, <1>5 DEF EngineInv, TypeOK
    <2>2. TypeOK'
        BY <1>1, <1>2, <1>5, <2>1 DEF TypeOK, Engines, RerunType, TaskType
    <2>3. IdsInv'
        <3>1. \A d \in fresh' : inner'.postings[d] = {}
            BY <1>1, <1>2, <1>5 DEF IdsInv, TypeOK
        <3> QED
            BY <1>1, <1>2, <1>5, <3>1 DEF IdsInv
    <2>4. TaskInv'
        BY <1>1, <1>2, <1>5 DEF TaskInv
    <2> QED
        BY <1>5, <2>2, <2>3, <2>4 DEF IInv
\* The end of the task, with an engine that answers its callers.
<1>6. ASSUME Settle("fulfilled"), EngineInv(inner'), inner'.alive = inner.alive,
             \A d \in Docs : inner'.postings[d] \subseteq inner.postings[d],
             ~disturbed => ~inner'.vacuumState.running,
             \A c \in Calls :
                 /\ promises[c] = "pending" /\ ~disturbed => Covers(inner', owed[c])
                 /\ promises[c] = "fulfilled" => owed[c] \cap Stale(inner') = {}
      PROVE  IInv'
    <2>1. /\ active' = FALSE /\ rerun' \in RerunType /\ ~rerun'.queued
          /\ task' \in TaskType /\ task'.at = "none"
          /\ promises' = [c \in Calls |-> IF promises[c] = "pending" THEN "fulfilled" ELSE promises[c]]
        BY <1>6 DEF Settle, NoRerun, NoTask, RerunType, TaskType
    <2>2. /\ promises' \in [Calls -> {"none", "pending", "fulfilled", "rejected"}]
          /\ \A c \in Calls : promises'[c] # "pending"
        BY <1>1, <2>1 DEF TypeOK
    <2>3. ASSUME NEW c \in Calls, promises'[c] = "fulfilled"
          PROVE  owed[c] \cap Stale(inner') = {}
        <3>1. CASE disturbed
            BY <1>1, <3>1 DEF TaskInv
        <3>2. CASE ~disturbed /\ promises[c] = "pending"
            <4>1. EngineInv(inner') /\ ~inner'.vacuumState.running
                BY <1>6, <3>2
            <4>2. Covers(inner', owed[c])
                BY <1>6, <3>2
            <4> QED
                BY <4>1, <4>2, CoveredAtRest
        <3>3. CASE promises[c] = "fulfilled"
            BY <1>6, <3>3
        <3> QED
            BY <2>1, <2>3, <3>1, <3>2, <3>3
    <2>4. Answered(inner)'
        BY <1>2, <2>2, <2>3 DEF Answered
    <2> QED
        BY <1>5, <1>6, <2>1, <2>2, <2>4
<1>7. CASE ~done
    <2>1. /\ inner' = e /\ rerun' = rerun /\ active' = active /\ promises' = promises
          /\ task' = [at |-> "timer", batchSize |-> task.batchSize, done |-> FALSE]
        BY <1>7 DEF Continue, Await
    <2>2. rerun' \in RerunType /\ task' \in TaskType /\ task'.at = "timer"
        BY <1>1, <2>1 DEF TypeOK, RerunType, TaskType
    <2>3. Answered(inner)'
        BY <1>2, <1>4, <2>1 DEF Answered, Certain
    <2>4. /\ active' /\ active' \in BOOLEAN
          /\ promises' \in [Calls -> {"none", "pending", "fulfilled", "rejected"}]
        BY <1>1, <1>2, <2>1 DEF TypeOK
    <2> QED
        BY <1>5, <2>1, <2>2, <2>3, <2>4
<1>8. CASE done /\ ~Reruns(e)
    <2>1. inner' = e /\ Settle("fulfilled")
        BY <1>8 DEF Continue
    <2>2. ~Certain
        BY <1>8 DEF Reruns, Certain
    <2> QED
        BY <1>4, <1>6, <1>8, <2>1, <2>2 DEF Answered
<1>9. CASE done /\ Reruns(e)
    <2>1. PICK batch \in Batches(e, rerun.batchSize) : inner' = VacuumStep(Begin(e), batch)
        BY <1>9 DEF Continue
    <2>2. /\ EngineInv(inner') /\ inner'.alive = inner.alive
          /\ \A d \in Docs : inner'.postings[d] \subseteq e.postings[d]
          /\ \A docs \in SUBSET (Docs \ inner.alive) :
                 Keeps(e, inner', docs) /\ (~e.vacuumState.running => Covers(inner', docs))
        BY <2>1, FirstStepForward
    <2>3. \A d \in Docs : inner'.postings[d] \subseteq inner.postings[d]
        BY <2>2
    <2>4. ASSUME NEW c \in Calls
          PROVE  /\ ~disturbed => Covers(inner', owed[c])
                 /\ promises[c] = "fulfilled" => owed[c] \cap Stale(inner') = {}
        BY <1>3, <1>4, <1>9, <2>2 DEF Answered, Keeps
    <2>5. CASE Done(inner')
        <3>1. Settle("fulfilled") /\ ~inner'.vacuumState.running
            BY <1>9, <2>5 DEF Continue, Done
        <3> QED
            BY <1>6, <2>2, <2>3, <2>4, <3>1
    <2>6. CASE ~Done(inner')
        <3>1. /\ rerun' = NoRerun /\ active' = active /\ promises' = promises
              /\ task' = [at |-> "timer", batchSize |-> rerun.batchSize, done |-> FALSE]
            BY <1>9, <2>6 DEF Continue, Await
        <3>2. /\ rerun' \in RerunType /\ ~rerun'.queued
              /\ task' \in TaskType /\ task'.at = "timer"
            BY <1>1, <3>1 DEF TypeOK, RerunType, TaskType, NoRerun
        <3>3. Answered(inner)'
            <4>1. CASE disturbed
                BY <1>1, <1>2, <2>4, <3>1, <4>1 DEF Answered, TaskInv, Covers
            <4>2. CASE ~disturbed
                BY <1>2, <2>4, <3>1, <4>2 DEF Answered
            <4> QED
                BY <4>1, <4>2
        <3>4. /\ active' /\ active' \in BOOLEAN
              /\ promises' \in [Calls -> {"none", "pending", "fulfilled", "rejected"}]
            BY <1>1, <1>2, <3>1 DEF TypeOK
        <3> QED
            BY <1>5, <2>2, <2>3, <3>2, <3>3, <3>4
    <2> QED
        BY <2>5, <2>6
<1> QED
    BY <1>7, <1>8, <1>9

LEMMA FirstTurnInv ==
    ASSUME IInv, FirstTurn
    PROVE  IInv'
<1>1. \A docs \in SUBSET (Docs \ inner.alive) : Keeps(inner, inner, docs)
    BY DEF Keeps
<1>2. ~disturbed /\ task.done => ~inner.vacuumState.running
    BY DEF IInv, TaskInv, FirstTurn
<1>3. EngineInv(inner) /\ Continue(inner, task.done) /\ Resumed /\ task.at # "none"
    BY DEF IInv, FirstTurn
<1> QED
    BY <1>1, <1>2, <1>3, ContinueInv

LEMMA TimerFiresInv ==
    ASSUME IInv, TimerFires
    PROVE  IInv'
<1>1. PICK batch \in Batches(inner, task.batchSize) :
         Continue(VacuumStep(inner, batch), Done(VacuumStep(inner, batch)))
    BY DEF TimerFires
<1>2. /\ EngineInv(VacuumStep(inner, batch))
      /\ VacuumStep(inner, batch).alive = inner.alive
      /\ \A d \in Docs : VacuumStep(inner, batch).postings[d] \subseteq inner.postings[d]
      /\ \A docs \in SUBSET (Docs \ inner.alive) : Keeps(inner, VacuumStep(inner, batch), docs)
    BY StepForward DEF IInv
<1>3. Done(VacuumStep(inner, batch)) => ~VacuumStep(inner, batch).vacuumState.running
    BY DEF Done
<1>4. Resumed /\ task.at # "none"
    BY DEF TimerFires
<1> QED
    BY <1>1, <1>2, <1>3, <1>4, ContinueInv

\* A failed timer ends a task of a disturbed run, which owes nothing.
LEMMA TimerFailsInv ==
    ASSUME IInv, TimerFails
    PROVE  IInv'
<1>1. TypeOK /\ EngineInv(inner) /\ IdsInv /\ TaskInv /\ Answered(inner) /\ disturbed
    BY DEF IInv, TimerFails
<1>2. UNCHANGED <<inner, fresh, handSteps, disturbed, owed>> /\ asked' \subseteq Docs
    BY AskedType DEF TimerFails, Resumed
<1>3. /\ active' = FALSE /\ rerun' \in RerunType /\ ~rerun'.queued
      /\ task' \in TaskType /\ task'.at = "none"
      /\ promises' = [c \in Calls |-> IF promises[c] = "pending" THEN "rejected" ELSE promises[c]]
    BY DEF TimerFails, Settle, NoRerun, NoTask, RerunType, TaskType
<1>4. /\ promises' \in [Calls -> {"none", "pending", "fulfilled", "rejected"}]
      /\ \A c \in Calls : promises'[c] # "pending"
    BY <1>1, <1>3 DEF TypeOK
<1>5. TypeOK'
    BY <1>1, <1>2, <1>3, <1>4 DEF TypeOK, RerunType, TaskType
<1>6. IdsInv' /\ TaskInv' /\ EngineInv(inner')
    BY <1>1, <1>2 DEF IdsInv, TaskInv
<1>7. Answered(inner)'
    BY <1>1, <1>2, <1>4 DEF Answered, TaskInv
<1> QED
    BY <1>5, <1>6, <1>7 DEF IInv

----------------------------------------------------------------------------
(* What automatic requests have asked for.                                 *)

\* The documents that requests have found dead are dead, and the run in progress
\* will take all their postings, or a rerun is queued.
AskedInv ==
    /\ asked \subseteq Stale(inner)
    /\ asked # {} => ~disturbed /\ (Covers(inner, asked) \/ rerun.queued)

\* The documents asked for are dead and not to be given out.
LEMMA AskedDead ==
    ASSUME IInv, AskedInv
    PROVE  asked \in SUBSET (Docs \ (inner.alive \cup fresh))
BY DEF IInv, TypeOK, IdsInv, AskedInv, Stale

\* What is left of a request, and when.
LEMMA AskedLeft ==
    ASSUME NEW requested, asked' = StillAsked(requested)
    PROVE  /\ asked' \subseteq Stale(inner') /\ asked' \subseteq asked \cup requested
           /\ asked' # {} => ~disturbed /\ AutoVacuumRequest(inner')
BY DEF StillAsked

\* A step that undoes nothing, and asks for nothing, leaves every request with
\* its answer while the rerun stays.
LEMMA AskedKept ==
    ASSUME AskedInv, asked' \subseteq asked, asked' \subseteq Stale(inner'),
           rerun' = rerun, disturbed' = disturbed, Keeps(inner, inner', asked)
    PROVE  AskedInv'
BY DEF AskedInv, Keeps, Covers

\* Every call of a caller: those that only change the engine keep the answers,
\* and those that request a vacuum have theirs from schedule_vacuum.
LEMMA AskedCalls ==
    ASSUME IInv, AskedInv,
           \/ \E call \in Calls, n \in BatchSizes : Vacuum(call, n)
           \/ \E d \in NextId : Add(d)
           \/ \E d \in Docs : Remove(d)
           \/ RemoveAll
           \/ \E n \in BatchSizes : HandStep(n)
    PROVE  AskedInv'
<1>1. TypeOK /\ EngineInv(inner) /\ inner \in Engines /\ IdsInv /\ TaskInv
    BY DEF IInv, EngineInv
<1>2. asked \in SUBSET (Docs \ (inner.alive \cup fresh))
    BY AskedDead
<1>3. ASSUME NEW call \in Calls, NEW n \in BatchSizes, Vacuum(call, n) PROVE AskedInv'
    <2>1. /\ Schedule(inner, n, FALSE) /\ asked' = StillAsked(Stale(inner))
          /\ disturbed' = disturbed
        BY <1>3 DEF Vacuum
    <2>2. ~disturbed =>
              \A docs \in SUBSET (Docs \ inner.alive) : Covers(inner', docs) \/ rerun'.queued
        BY <1>1, <2>1, Schedules
    <2>3. asked' \in SUBSET (Docs \ inner.alive)
        BY <1>2, <2>1, AskedLeft DEF Stale
    <2> QED
        BY <2>1, <2>2, <2>3, AskedLeft DEF AskedInv
<1>4. ASSUME NEW d \in NextId, Add(d) PROVE AskedInv'
    <2>1. /\ d \in fresh /\ d \in Docs /\ inner' = Added(inner, d) /\ asked' = StillAsked({})
          /\ rerun' = rerun /\ disturbed' = disturbed
        BY <1>1, <1>4, NextIdFresh DEF Add, TypeOK
    <2>2. Keeps(inner, inner', asked)
        BY <1>1, <1>2, <2>1, Adds
    <2> QED
        BY <2>1, <2>2, AskedLeft, AskedKept
<1>5. ASSUME NEW d \in Docs, Remove(d) PROVE AskedInv'
    <2>1. /\ inner' = [inner EXCEPT !.alive = @ \ {d}, !.postings[d] = {}]
          /\ asked' = StillAsked({}) /\ rerun' = rerun /\ disturbed' = disturbed
        BY <1>5 DEF Remove
    <2>2. /\ inner'.alive = inner.alive \ {d} /\ inner'.vacuumState = inner.vacuumState
          /\ \A x \in Docs : inner'.postings[x] \subseteq inner.postings[x]
        BY <1>1, <2>1 DEF Engines
    <2>3. Keeps(inner, inner', asked)
        BY <1>2, <2>2 DEF Keeps, Covers, Stale
    <2> QED
        BY <2>1, <2>3, AskedLeft, AskedKept
<1>6. CASE RemoveAll
    BY <1>6 DEF RemoveAll, AskedInv
<1>7. ASSUME NEW n \in BatchSizes, HandStep(n) PROVE AskedInv'
    <2>1. disturbed /\ asked' = StillAsked({}) /\ disturbed' = disturbed
        BY <1>1, <1>7 DEF HandStep, TaskInv, StillAsked
    <2> QED
        BY <2>1, AskedLeft DEF AskedInv
<1> QED
    BY <1>3, <1>4, <1>5, <1>6, <1>7

LEMMA AskedDiscards ==
    ASSUME IInv, AskedInv, NEW gone \in SUBSET inner.alive, NEW added \in SUBSET fresh,
           Discard(gone, added) \/ (DiscardFailing(gone) /\ added = {})
    PROVE  AskedInv'
<1> DEFINE e == Discarded(inner, gone, added)
<1>1. asked \in SUBSET (Docs \ (inner.alive \cup fresh))
    BY AskedDead
<1>2. /\ EngineInv(e) /\ e.vacuumState = inner.vacuumState
      /\ e.alive \subseteq inner.alive \cup fresh
      /\ \A docs \in SUBSET (Docs \ (inner.alive \cup fresh)) : Keeps(inner, e, docs)
    BY DiscardedFacts
<1>3. CASE DiscardFailing(gone) /\ added = {}
    <2>1. inner' = e /\ asked' = StillAsked({}) /\ rerun' = rerun /\ disturbed' = disturbed
        BY <1>3 DEF DiscardFailing
    <2> HIDE DEF e
    <2>2. Keeps(inner, inner', asked)
        BY <1>1, <1>2, <2>1
    <2> QED
        BY <2>1, <2>2, AskedLeft, AskedKept
<1>4. CASE Discard(gone, added) /\ ~AutoVacuumRequest(e)
    BY <1>4 DEF Discard, AskedInv
<1>5. CASE Discard(gone, added) /\ AutoVacuumRequest(e)
    <2>1. /\ Schedule(e, AutoBatchSize, TRUE) /\ asked' = StillAsked(Stale(e))
          /\ disturbed' = disturbed
        BY <1>5 DEF Discard
    <2> HIDE DEF e
    <2>2. ~disturbed =>
              \A docs \in SUBSET (Docs \ e.alive) : Covers(inner', docs) \/ rerun'.queued
        BY <1>2, <2>1, Schedules
    <2>3. asked' \in SUBSET (Docs \ e.alive)
        BY <1>1, <1>2, <2>1, AskedLeft DEF Stale
    <2> QED
        BY <2>1, <2>2, <2>3, AskedLeft DEF AskedInv
<1> QED
    BY <1>3, <1>4, <1>5

\* The task drops a rerun only when the condition of the requests has lapsed,
\* and with it all that they asked for.
LEMMA AskedContinues ==
    ASSUME IInv, AskedInv, Resumed,
           NEW e, EngineInv(e), e.alive = inner.alive,
           \A docs \in SUBSET (Docs \ inner.alive) : Keeps(inner, e, docs),
           NEW done, ~disturbed /\ done => ~e.vacuumState.running,
           Continue(e, done)
    PROVE  AskedInv'
<1>1. asked' = StillAsked({}) /\ disturbed' = disturbed
    BY DEF Resumed
<1>2. /\ asked' \subseteq Stale(inner') /\ asked' \subseteq asked
      /\ asked' # {} => ~disturbed /\ AutoVacuumRequest(inner')
    BY <1>1, AskedLeft
<1>3. asked \in SUBSET (Docs \ inner.alive) /\ Keeps(inner, e, asked)
    BY AskedDead
<1>4. CASE ~done
    <2>1. inner' = e /\ rerun' = rerun
        BY <1>4 DEF Continue
    <2> QED
        BY <1>1, <1>2, <1>3, <2>1, AskedKept
<1>5. CASE done /\ ~Reruns(e)
    <2>1. inner' = e
        BY <1>5 DEF Continue
    <2>2. SUFFICES ASSUME asked' # {} PROVE FALSE
        BY <1>2 DEF AskedInv
    <2>3. ~rerun.queued /\ ~disturbed
        BY <1>2, <1>5, <2>1, <2>2 DEF Reruns
    <2>4. Covers(e, asked)
        BY <1>2, <1>3, <2>2, <2>3 DEF AskedInv, Keeps
    <2>5. asked \cap Stale(e) = {}
        BY <1>5, <2>3, <2>4, CoveredAtRest
    <2> QED
        BY <1>2, <2>1, <2>2, <2>5
<1>6. CASE done /\ Reruns(e)
    <2>1. PICK batch \in Batches(e, rerun.batchSize) : inner' = VacuumStep(Begin(e), batch)
        BY <1>6 DEF Continue
    <2>2. \A docs \in SUBSET (Docs \ e.alive) : ~e.vacuumState.running => Covers(inner', docs)
        BY <2>1, FirstStepForward
    <2>3. asked' \in SUBSET (Docs \ e.alive)
        BY <1>2, <1>3
    <2> QED
        BY <1>1, <1>2, <1>6, <2>2, <2>3 DEF AskedInv
<1> QED
    BY <1>4, <1>5, <1>6

LEMMA AskedNext ==
    ASSUME IInv, AskedInv, [Next]_vars
    PROVE  AskedInv'
<1>1. EngineInv(inner)
    BY DEF IInv
<1>2. ASSUME NEW gone \in SUBSET inner.alive, Discard(gone, {}) \/ DiscardFailing(gone)
      PROVE  AskedInv'
    <2>1. {} \in SUBSET fresh
        OBVIOUS
    <2> QED
        BY <1>2, <2>1, AskedDiscards
<1>3. ASSUME NEW old \in inner.alive, NEW new \in NextId, Discard({old}, {new}) PROVE AskedInv'
    <2>1. {old} \in SUBSET inner.alive /\ {new} \in SUBSET fresh
        BY NextIdFresh
    <2> QED
        BY <1>3, <2>1, AskedDiscards
<1>4. CASE FirstTurn
    <2>1. \A docs \in SUBSET (Docs \ inner.alive) : Keeps(inner, inner, docs)
        BY DEF Keeps
    <2>2. ~disturbed /\ task.done => ~inner.vacuumState.running
        BY <1>4 DEF IInv, TaskInv, FirstTurn
    <2>3. Continue(inner, task.done) /\ Resumed
        BY <1>4 DEF FirstTurn
    <2> QED
        BY <1>1, <2>1, <2>2, <2>3, AskedContinues
<1>5. CASE TimerFires
    <2>1. PICK batch \in Batches(inner, task.batchSize) :
             Continue(VacuumStep(inner, batch), Done(VacuumStep(inner, batch)))
        BY <1>5 DEF TimerFires
    <2>2. /\ EngineInv(VacuumStep(inner, batch))
          /\ VacuumStep(inner, batch).alive = inner.alive
          /\ \A docs \in SUBSET (Docs \ inner.alive) : Keeps(inner, VacuumStep(inner, batch), docs)
        BY <1>1, StepForward
    <2>3. Done(VacuumStep(inner, batch)) => ~VacuumStep(inner, batch).vacuumState.running
        BY DEF Done
    <2>4. Resumed
        BY <1>5 DEF TimerFires
    <2> QED
        BY <2>1, <2>2, <2>3, <2>4, AskedContinues
<1>6. CASE TimerFails
    <2>1. disturbed /\ disturbed' = disturbed /\ asked' = StillAsked({})
        BY <1>6 DEF TimerFails, Resumed
    <2> QED
        BY <2>1, AskedLeft DEF AskedInv
<1>7. CASE UNCHANGED vars
    BY <1>7 DEF vars, AskedInv, Stale, Covers
<1> QED
    BY <1>2, <1>3, <1>4, <1>5, <1>6, <1>7, AskedCalls DEF Next

----------------------------------------------------------------------------
(* The theorems.                                                           *)

LEMMA NextInv ==
    ASSUME IInv, [Next]_vars
    PROVE  IInv'
<1>1. ASSUME NEW call \in Calls, NEW n \in BatchSizes, Vacuum(call, n) PROVE IInv'
    BY <1>1, VacuumInv
<1>2. ASSUME NEW d \in NextId, Add(d) PROVE IInv'
    BY <1>2, AddInv
<1>3. ASSUME NEW d \in Docs, Remove(d) PROVE IInv'
    BY <1>3, RemoveInv
<1>4. ASSUME NEW gone \in SUBSET inner.alive, Discard(gone, {}) PROVE IInv'
    <2>1. {} \in SUBSET fresh
        OBVIOUS
    <2> QED
        BY <1>4, <2>1, DiscardInv
<1>5. ASSUME NEW old \in inner.alive, NEW new \in NextId, Discard({old}, {new}) PROVE IInv'
    <2>1. {old} \in SUBSET inner.alive /\ {new} \in SUBSET fresh
        BY NextIdFresh
    <2> QED
        BY <1>5, <2>1, DiscardInv
<1>6. ASSUME NEW gone \in SUBSET inner.alive, DiscardFailing(gone) PROVE IInv'
    BY <1>6, DiscardFailingInv
<1>7. CASE RemoveAll
    BY <1>7, RemoveAllInv
<1>8. ASSUME NEW n \in BatchSizes, HandStep(n) PROVE IInv'
    BY <1>8, HandStepInv
<1>9. CASE FirstTurn
    BY <1>9, FirstTurnInv
<1>10. CASE TimerFires
    BY <1>10, TimerFiresInv
<1>11. CASE TimerFails
    BY <1>11, TimerFailsInv
<1>12. CASE UNCHANGED vars
    <2>1. /\ inner' = inner /\ fresh' = fresh /\ active' = active /\ rerun' = rerun
          /\ task' = task /\ promises' = promises /\ handSteps' = handSteps
          /\ disturbed' = disturbed /\ owed' = owed /\ asked' = asked
        BY <1>12 DEF vars
    <2> QED
        BY <2>1 DEF IInv, TypeOK, EngineInv, Engines, Paid, Stale, Missed, IdsInv, TaskInv,
                    Answered, Covers, Certain
<1> QED
    BY <1>1, <1>2, <1>3, <1>4, <1>5, <1>6, <1>7, <1>8, <1>9, <1>10, <1>11, <1>12 DEF Next

\* The inductive invariant holds of every reachable state.
THEOREM Invariance == Spec => []IInv
<1>1. IInv /\ [Next]_vars => IInv'
    BY NextInv
<1> QED
    BY InitInv, <1>1, PTL DEF Spec

\* Types, and what the runtime's fields say together: a task while active and
\* only then, and no rerun or pending promise without one.
THEOREM TypeCorrect == Spec => []TypeOK
<1>1. IInv => TypeOK
    BY DEF IInv
<1> QED
    BY <1>1, Invariance, PTL

\* The dirt count pays for every dead document whose postings are still there,
\* whoever drives the run that cleans them and whatever is discarded meanwhile.
THEOREM DirtCorrect == Spec => []DirtCoversStale
<1>1. IInv => DirtCoversStale
    BY DEF IInv, EngineInv, Paid, DirtCoversStale
<1> QED
    BY <1>1, Invariance, PTL

\* A vacuum() promise that fulfils has cleaned every document that was dead at
\* the call, whichever task and rerun answered it.
THEOREM PromisesCorrect == Spec => []FulfilledMeansCleaned
<1>1. IInv => FulfilledMeansCleaned
    BY DEF IInv, Answered, FulfilledMeansCleaned
<1> QED
    BY <1>1, Invariance, PTL

\* While a document that an automatic request found dead has postings and the
\* condition of the request holds, the task is at work, and its run will take
\* them or a rerun is queued: a discard during a run that does not account for it
\* is not forgotten by schedule_vacuum, nor by the task as it ends.
AskedIsAnswered ==
    asked # {} => active /\ (Covers(inner, asked) \/ rerun.queued)

\* No automatic request is lost to a run that was in progress when it came, while
\* nobody steps the vacuum by hand and no timer fails.  What is left of
\* AskedIsCleaned is that timers fire.
THEOREM RequestsCorrect == Spec => []AskedIsAnswered
<1>1. Init => AskedInv
    BY DEF Init, AskedInv
<1>2. IInv /\ AskedInv /\ [Next]_vars => AskedInv'
    BY AskedNext
<1>3. IInv /\ AskedInv => AskedIsAnswered
    <2> SUFFICES ASSUME IInv, AskedInv, asked # {}, ~active PROVE FALSE
        BY DEF AskedIsAnswered, AskedInv
    <2>1. /\ EngineInv(inner) /\ ~inner.vacuumState.running /\ ~rerun.queued
          /\ Covers(inner, asked)
        BY DEF IInv, TypeOK, TaskInv, AskedInv
    <2>2. asked \cap Stale(inner) = {}
        BY <2>1, CoveredAtRest
    <2> QED
        BY <2>2 DEF AskedInv
<1> QED
    BY <1>1, <1>2, <1>3, Invariance, PTL DEF Spec
============================================================================
