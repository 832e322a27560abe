-------------------------- MODULE VacuumScheduler --------------------------
(***************************************************************************)
(* The asynchronous vacuum of the wasm wrapper, src/src/lib.rs: one task   *)
(* that cleans the engine batch by batch between timers, the requests that *)
(* merge into it, and the promise they all share.                          *)
(*                                                                         *)
(* A synchronous call from JavaScript is one action; the task runs from    *)
(* one await to the next in one action.                                    *)
(***************************************************************************)
EXTENDS VacuumEngine

CONSTANTS
    Calls,          \* calls of vacuum(), numbered
    BatchSizes,     \* the batch sizes vacuum() is called with, resolved
    AutoBatchSize,  \* auto_vacuum.batch_size, resolved
    MaxHandSteps    \* bound on the calls of vacuumStep()

ASSUME CallsAssumption == Calls \subseteq Nat
ASSUME BatchesAssumption ==
    BatchSizes \cup {AutoBatchSize} \subseteq Nat \ {0}
ASSUME StepsAssumption == MaxHandSteps \in Nat

VARIABLES
    inner,          \* the engine: documents, dirt_count and vacuum_state
    fresh,          \* short ids not given out yet
    active,         \* VacuumRuntime.active
    rerun,          \* VacuumRuntime.rerun
    task,           \* the future behind VacuumRuntime.current
    promises,       \* what vacuum() returned to each of the calls
    handSteps,      \* vacuumStep() calls left
    disturbed,      \* callers step the engine by hand, and setTimeout may be
                    \* missing or throw
    \* History of undisturbed runs, which only history reads:
    owed,           \* per call, the dead documents with postings at the call
    asked           \* dead documents with postings that requests have found

vars == <<inner, fresh, active, rerun, task, promises, handSteps, disturbed, owed, asked>>

NoRerun == [queued |-> FALSE, batchSize |-> 0, allAutomatic |-> FALSE]

\* A task waits for its first turn (spawned), then for its timers; done is what
\* its last vacuum_step returned.
NoTask == [at |-> "none", batchSize |-> 0, done |-> FALSE]

Init ==
    /\ inner = NewEngine
    /\ fresh = Docs
    /\ active = FALSE
    /\ rerun = NoRerun
    /\ task = NoTask
    /\ promises = [c \in Calls |-> "none"]
    /\ disturbed \in BOOLEAN
    /\ handSteps = IF disturbed THEN MaxHandSteps ELSE 0
    /\ owed = [c \in Calls |-> {}]
    /\ asked = {}

----------------------------------------------------------------------------
(* Requests.                                                               *)

\* Mutant: a manual request that joins automatic ones stays automatic.
MergedAny(batchSize, automatic) ==
    IF rerun.queued
    THEN [rerun EXCEPT !.allAutomatic = @ \/ automatic]
    ELSE [queued |-> TRUE, batchSize |-> batchSize, allAutomatic |-> automatic]

\* A request during a task: the first one's options stay, and one manual
\* request makes the rerun unconditional.
Merged(batchSize, automatic) ==
    IF rerun.queued
    THEN [rerun EXCEPT !.allAutomatic = @ /\ automatic]
    ELSE [queued |-> TRUE, batchSize |-> batchSize, allAutomatic |-> automatic]

\* The run begins now and cleans its first batch; a task is spawned for the rest.
Start(e, batchSize) ==
    \E batch \in Batches(e, batchSize) :
        /\ inner' = VacuumStep(Begin(e), batch)
        /\ active' = TRUE
        /\ task' = [at |-> "spawned", batchSize |-> batchSize, done |-> Done(inner')]
        /\ UNCHANGED rerun

\* Mutant: a request during a task is answered by that task alone.
ScheduleUnqueued(e, batchSize, automatic) ==
    IF active
    THEN inner' = e /\ UNCHANGED <<active, rerun, task>>
    ELSE Start(e, batchSize)

\* schedule_vacuum, of an engine e.
Schedule(e, batchSize, automatic) ==
    IF active
    THEN /\ inner' = e
         /\ rerun' = Merged(batchSize, automatic)
         /\ UNCHANGED <<active, task>>
    ELSE Start(e, batchSize)

\* History: the documents some request found dead, until they are clean or the
\* automatic condition lapses.
StillAsked(requested) ==
    IF ~disturbed /\ AutoVacuumRequest(inner')
    THEN (asked \cup requested) \cap Stale(inner') ELSE {}

\* vacuum_js.
Vacuum(call, batchSize) ==
    /\ promises[call] = "none"
    /\ \A c \in Calls : c < call => promises[c] # "none"
    /\ promises' = [promises EXCEPT ![call] = "pending"]
    /\ owed' = IF disturbed THEN owed ELSE [owed EXCEPT ![call] = Stale(inner)]
    /\ Schedule(inner, batchSize, FALSE)
    /\ asked' = StillAsked(Stale(inner))
    /\ UNCHANGED <<fresh, handSteps, disturbed>>

----------------------------------------------------------------------------
(* The other calls.                                                        *)

NextId == {d \in fresh : \A e \in fresh : d <= e}

Add(d) ==
    /\ fresh' = fresh \ {d}
    /\ inner' = Added(inner, d)
    /\ asked' = StillAsked({})
    /\ UNCHANGED <<active, rerun, task, promises, handSteps, disturbed, owed>>

\* remove, with the content the document was indexed with.
Remove(d) ==
    /\ d \in inner.alive
    /\ inner' = [inner EXCEPT !.alive = @ \ {d}, !.postings[d] = {}]
    /\ asked' = StillAsked({})
    /\ UNCHANGED <<fresh, active, rerun, task, promises, handSteps, disturbed, owed>>

\* discard_js, discard_all_js, discard_short_js (added = {}) and replace_js: the
\* deferred operation, then maybe_schedule_auto_vacuum.
Discard(gone, added) ==
    LET e == Discarded(inner, gone, added)
    IN  /\ IF AutoVacuumRequest(e)
           THEN /\ Schedule(e, AutoBatchSize, TRUE)
                /\ asked' = StillAsked(Stale(e))
           ELSE /\ inner' = e
                /\ asked' = {}
                /\ UNCHANGED <<active, rerun, task>>
        /\ fresh' = fresh \ added
        /\ UNCHANGED <<promises, handSteps, disturbed, owed>>

\* discard_all_js that meets an unknown id, replace_js whose add fails: the
\* error returns before maybe_schedule_auto_vacuum.
DiscardFailing(gone) ==
    /\ inner' = Discarded(inner, gone, {})
    /\ asked' = StillAsked({})
    /\ UNCHANGED <<fresh, active, rerun, task, promises, handSteps, disturbed, owed>>

\* remove_all_js: the run in progress is dropped, the dirt count stays.
RemoveAll ==
    /\ inner' = Emptied(inner)
    /\ asked' = {}
    /\ UNCHANGED <<fresh, active, rerun, task, promises, handSteps, disturbed, owed>>

\* vacuum_step_js: a caller that schedules steps of its own.
HandStep(batchSize) ==
    /\ handSteps > 0
    /\ handSteps' = handSteps - 1
    /\ \E batch \in Batches(inner, batchSize) : inner' = VacuumStep(inner, batch)
    /\ asked' = StillAsked({})
    /\ UNCHANGED <<fresh, active, rerun, task, promises, disturbed, owed>>

----------------------------------------------------------------------------
(* The task.                                                               *)

\* Mutant: the rerun outlives its task.
SettleKeepingRerun(outcome) ==
    /\ active' = FALSE
    /\ UNCHANGED rerun
    /\ task' = NoTask
    /\ promises' = [c \in Calls |-> IF promises[c] = "pending" THEN outcome ELSE promises[c]]

\* The end of the task, whose promise is every pending caller's.
Settle(outcome) ==
    /\ active' = FALSE
    /\ rerun' = NoRerun
    /\ task' = NoTask
    /\ promises' = [c \in Calls |-> IF promises[c] = "pending" THEN outcome ELSE promises[c]]

\* The rerun is taken, unless all its requests were automatic and the
\* condition no longer holds.
Reruns(e) == rerun.queued /\ (~rerun.allAutomatic \/ AutoVacuumRequest(e))

Await(batchSize) ==
    /\ task' = [at |-> "timer", batchSize |-> batchSize, done |-> FALSE]
    /\ UNCHANGED <<active, promises>>

\* The task from a vacuum_step that left engine e, to its next await or its
\* end.  Nothing else runs between the end of a run, the first batch of the
\* rerun and, when that was all of it, the end of the task.
Continue(e, done) ==
    \/ /\ ~done
       /\ inner' = e
       /\ Await(task.batchSize)
       /\ UNCHANGED rerun
    \/ /\ done /\ ~Reruns(e)
       /\ inner' = e
       /\ Settle("fulfilled")
    \/ /\ done /\ Reruns(e)
       /\ \E batch \in Batches(e, rerun.batchSize) :
              inner' = VacuumStep(Begin(e), batch)
       /\ IF Done(inner')
          THEN Settle("fulfilled")
          ELSE Await(rerun.batchSize) /\ rerun' = NoRerun

\* What the task leaves alone.
Resumed ==
    /\ asked' = StillAsked({})
    /\ UNCHANGED <<fresh, handSteps, disturbed, owed>>

\* The first poll, in a microtask of its own.
FirstTurn ==
    /\ task.at = "spawned"
    /\ Continue(inner, task.done)
    /\ Resumed

\* yield_to_timer returns: the next batch, of the run in progress or, when
\* vacuumStep() ended it meanwhile, of a new one.
TimerFires ==
    /\ task.at = "timer"
    /\ \E batch \in Batches(inner, task.batchSize) :
          LET e == VacuumStep(inner, batch) IN Continue(e, Done(e))
    /\ Resumed

\* Mutant: the error leaves the async block past the lines that reset the runtime.
TimerFailsActive ==
    /\ disturbed
    /\ task.at = "timer"
    /\ task' = NoTask
    /\ UNCHANGED <<inner, active, rerun, promises>>
    /\ Resumed

\* yield_to_timer fails: the engine keeps its run, the queued requests are lost.
TimerFails ==
    /\ disturbed
    /\ task.at = "timer"
    /\ UNCHANGED inner
    /\ Settle("rejected")
    /\ Resumed

Next ==
    \/ \E call \in Calls, n \in BatchSizes : Vacuum(call, n)
    \/ \E d \in NextId : Add(d)
    \/ \E d \in Docs : Remove(d)
    \/ \E gone \in SUBSET inner.alive : Discard(gone, {})
    \/ \E old \in inner.alive, new \in NextId : Discard({old}, {new})
    \/ \E gone \in SUBSET inner.alive : DiscardFailing(gone)
    \/ RemoveAll
    \/ \E n \in BatchSizes : HandStep(n)
    \/ FirstTurn
    \/ TimerFires
    \/ TimerFails

Spec == Init /\ [][Next]_vars

\* The event loop runs every microtask, and a timer fires unless it fails.
FairSpec == Spec /\ WF_vars(FirstTurn) /\ WF_vars(TimerFires \/ TimerFails)

----------------------------------------------------------------------------
(* Properties.                                                             *)

\* Types, and what the runtime's fields say together: there is a task while it
\* is active and only then, and a rerun or a pending promise has a task.
TypeOK ==
    /\ inner \in [alive : SUBSET Docs, postings : [Docs -> SUBSET Terms],
                  dirtCount : Nat,
                  vacuumState : [running : BOOLEAN, terms : SUBSET Terms,
                                 initialDirtCount : Nat]]
    /\ fresh \subseteq Docs \ inner.alive
    /\ active \in BOOLEAN
    /\ rerun \in [queued : BOOLEAN, batchSize : Nat, allAutomatic : BOOLEAN]
    /\ task \in [at : {"none", "spawned", "timer"}, batchSize : Nat, done : BOOLEAN]
    /\ promises \in [Calls -> {"none", "pending", "fulfilled", "rejected"}]
    /\ handSteps \in 0 .. MaxHandSteps
    /\ disturbed \in BOOLEAN
    /\ owed \in [Calls -> SUBSET Docs]
    /\ asked \subseteq Docs
    /\ active <=> task.at # "none"
    /\ rerun.queued => active
    /\ (\E c \in Calls : promises[c] = "pending") => active

\* Every dead document whose postings are still there is in the dirt count,
\* apart from the ones the run in progress will take off: a document discarded
\* during a run is not accounted for by it, whoever drives it.
DirtCoversStale ==
    /\ Cardinality(Stale(inner)) <= inner.dirtCount
    /\ inner.vacuumState.initialDirtCount <= inner.dirtCount

\* A vacuum() promise that fulfils has cleaned every document that was dead
\* when vacuum() was called, though the call may have joined a run in progress
\* that had already passed the document's terms, behind automatic requests
\* that are dropped when their condition lapses.  Undisturbed only: a step by
\* hand or a failed timer leaves a run half done, which the call continues.
FulfilledMeansCleaned ==
    \A c \in Calls : promises[c] = "fulfilled" => owed[c] \cap Stale(inner) = {}

\* Every vacuum task ends: once the requests stop, no rerun, reset, hand-driven
\* step or failing timer keeps isVacuuming true or a promise pending.
Settles == active ~> ~active

\* A document that an automatic request found dead is cleaned, unless the dirt
\* falls below the request's condition first: a discard during a run that does
\* not account for it is not forgotten when the run ends.
AskedIsCleaned == \A d \in Docs : d \in asked ~> d \notin asked

============================================================================
