---------------------------- MODULE FacadeVacuum ----------------------------
(***************************************************************************)
(* The vacuum of the JavaScript facade, src/js/minisearch.js: a port of    *)
(* upstream's scheduler that drives native steps, and what becomes of it   *)
(* when the index moves to the upstream engine or is freed between two     *)
(* batches.  Upstream has the same scheduler, so after the move two of     *)
(* them run, the facade's waiting for upstream's.                          *)
(*                                                                         *)
(* One action runs from one await to the next; user code may run between   *)
(* any two, the microtasks of one promise included.  The engine is         *)
(* VacuumEngine: VacuumScheduler, the wasm wrapper's, has no part here, as *)
(* the facade turns its automatic vacuum off.                              *)
(***************************************************************************)
EXTENDS VacuumEngine

CONSTANTS
    Calls,                  \* calls of vacuum(), numbered from 1
    BatchSize,              \* every vacuum's batchSize
    DefaultMinDirtCount,    \* defaultAutoVacuum.minDirtCount, 20 in the code
    DefaultMinDirtPercent   \* defaultAutoVacuum.minDirtFactor, 10 percent

\* Who waits for a promise: the callers of vacuum(), and the facade's own run.
FacadeRun == 0

ASSUME CallsAssumption == Calls \subseteq Nat \ {FacadeRun}
ASSUME BatchAssumption == BatchSize \in Nat \ {0}
ASSUME DefaultAssumption == DefaultMinDirtCount \in Nat /\ DefaultMinDirtPercent \in Nat

VARIABLES
    inner,          \* the engine's documents, dirt and run
    fresh,          \* short ids not given out yet
    host,           \* whose engine it is: "wasm", "js", or "freed"
    facade,         \* the facade's scheduler
    upstream,       \* the scheduler of the upstream engine
    promises,       \* what vacuum() returned to each of the calls
    \* History, which only history reads:
    owed,           \* per call, the dead documents with postings at the call
    asked           \* dead documents with postings that requests have found

vars == <<inner, fresh, host, facade, upstream, promises, owed, asked>>

\* A scheduler: where the run behind _currentVacuum is (a queued one waits for
\* its microtask, "js" for upstream's promise, "null" for the last await),
\* whether there is an _enqueuedVacuum, _enqueuedConditions, and who holds the
\* two promises.
Idle == [at |-> "none", enqueued |-> FALSE, conditions |-> "default", current |-> {}, next |-> {}]

Init ==
    /\ inner = NewEngine
    /\ fresh = Docs
    /\ host = "wasm"
    /\ facade = Idle /\ upstream = Idle
    /\ promises = [c \in Calls |-> "none"]
    /\ owed = [c \in Calls |-> {}]
    /\ asked = {}

-----------------------------------------------------------------------------
(* Requests, as functions of a world w: what a call may leave behind.      *)

World == [engine |-> inner, facade |-> facade, upstream |-> upstream]

\* _vacuumConditionsMet; "none" is a manual request.
Met(e, conditions) ==
    \/ conditions = "none"
    \/ conditions = "auto" /\ AutoVacuumRequest(e)
    \/ /\ conditions = "default"
       /\ e.dirtCount >= DefaultMinDirtCount
       /\ 100 * e.dirtCount >=
             DefaultMinDirtPercent * (1 + Cardinality(e.alive) + e.dirtCount)

\* Worlds in which the engine has cleaned one more batch of its run.
Steps(w, scheduler) ==
    {[w EXCEPT !.engine = e,
               ![scheduler].at = IF e.vacuumState.running THEN "timer" ELSE "null"]
        : e \in {VacuumStep(w.engine, batch) : batch \in Batches(w.engine, BatchSize)}}

\* `this._enqueuedConditions && conditions`.
Joined(old, new) == IF old = "none" THEN "none" ELSE new

\* A request while there is a current promise.
Enqueue(scheduler, conditions, who) ==
    [scheduler EXCEPT !.enqueued = TRUE, !.next = @ \cup who,
                      !.conditions = Joined(@, conditions)]

\* Upstream's conditionalVacuum: a queued promise, none, or a run from now.
UpstreamRequest(w, conditions, who) ==
    IF w.upstream.at # "none" THEN {[w EXCEPT !.upstream = Enqueue(@, conditions, who)]}
    ELSE IF ~Met(w.engine, conditions) THEN {w}
    ELSE Steps([w EXCEPT !.upstream.current = who], "upstream")

\* A mutant: a transfer ends the run where it is.
LeftToUpstream(w) ==
    CASE host = "wasm" -> Steps(w, "facade")
      [] host \in {"js", "freed"} -> {[w EXCEPT !.facade.at = "null"]}

\* A mutant: the loop is left after one more batch.
OneBatch(w) ==
    CASE host = "wasm" -> {[x EXCEPT !.facade.at = "null"] : x \in Steps(w, "facade")}
      [] host = "js" -> {[x EXCEPT !.facade.at = "js"] : x \in UpstreamRequest(w, "none", {FacadeRun})}
      [] host = "freed" -> {[w EXCEPT !.facade.at = "null"]}

\* The loop of _performVacuum and the line after it: the next batch, or a
\* vacuum of the engine the index has moved to.
Run(w) ==
    CASE host = "wasm" -> Steps(w, "facade")
      [] host = "js" -> {[x EXCEPT !.facade.at = "js"] : x \in UpstreamRequest(w, "none", {FacadeRun})}
      [] host = "freed" -> {[w EXCEPT !.facade.at = "null"]}

\* A mutant: a run that ends at once has cleared _currentVacuum before the
\* caller sets it.
PerformSync(w, conditions) ==
    IF host = "freed" \/ ~Met(w.engine, conditions) THEN {[w EXCEPT !.facade.at = "over"]} ELSE Run(w)

\* _performVacuum, up to its first await.
Perform(w, conditions) ==
    IF host = "freed" \/ ~Met(w.engine, conditions) THEN {[w EXCEPT !.facade.at = "null"]} ELSE Run(w)

\* A mutant: an automatic request is dropped while a run is in progress.
DropsAutomatic(w, conditions, who) ==
    IF w.facade.at # "none"
    THEN IF conditions = "auto" THEN {w} ELSE {[w EXCEPT !.facade = Enqueue(@, conditions, who)]}
    ELSE IF ~Met(w.engine, conditions) THEN {w}
    ELSE Perform([w EXCEPT !.facade.current = who], "none")

\* _conditionalVacuum.
FacadeRequest(w, conditions, who) ==
    IF w.facade.at # "none" THEN {[w EXCEPT !.facade = Enqueue(@, conditions, who)]}
    ELSE IF ~Met(w.engine, conditions) THEN {w}
    ELSE Perform([w EXCEPT !.facade.current = who], "none")

Request(w, conditions, who) ==
    IF host = "wasm" THEN FacadeRequest(w, conditions, who) ELSE UpstreamRequest(w, conditions, who)

Become(worlds) ==
    \E w \in worlds : inner' = w.engine /\ facade' = w.facade /\ upstream' = w.upstream

\* History: the documents some request found dead, until they are clean or the
\* automatic condition lapses.
StillAsked(requested) ==
    asked' = IF host' # "freed" /\ AutoVacuumRequest(inner')
             THEN (asked \cup requested) \cap Stale(inner') ELSE {}

-----------------------------------------------------------------------------
(* Calls.                                                                  *)

Vacuum(call) ==
    /\ host # "freed" /\ promises[call] = "none"
    /\ \A c \in Calls : c < call => promises[c] # "none"
    /\ Become(Request(World, "none", {call}))
    /\ promises' = [promises EXCEPT ![call] = "pending"]
    /\ owed' = [owed EXCEPT ![call] = Stale(inner)]
    /\ UNCHANGED <<fresh, host>>
    /\ StillAsked(Stale(inner))

NextId == {d \in fresh : \A e \in fresh : d <= e}

Add(d) ==
    /\ host # "freed"
    /\ fresh' = fresh \ {d}
    /\ inner' = Added(inner, d)
    /\ UNCHANGED <<host, facade, upstream, promises, owed>>
    /\ StillAsked({})

\* discard and discardAll, with the automatic vacuum at the end, or upstream's
\* own.  replace is this and Add.  Of nothing, discardAll would only request:
\* a caller that never stops asking is left out.
Discard(gone) ==
    /\ host # "freed"
    /\ UNCHANGED <<fresh, host, promises, owed>>
    /\ LET w == [World EXCEPT !.engine = Discarded(inner, gone, {})]
           found == IF Met(w.engine, "auto") THEN Stale(w.engine) ELSE {}
       IN Become(Request(w, "auto", {})) /\ StillAsked(found)

\* discardAll that meets an unknown id has no automatic vacuum.
DiscardFailing(gone) ==
    /\ host # "freed"
    /\ inner' = Discarded(inner, gone, {})
    /\ UNCHANGED <<fresh, host, facade, upstream, promises, owed>>
    /\ StillAsked({})

\* removeAll: the engine drops its run and keeps its dirt.  Upstream is asked
\* only while it is idle: what it does in the middle of a run is its own.
RemoveAll ==
    /\ host = "wasm" \/ (host = "js" /\ upstream.at = "none")
    /\ inner' = Emptied(inner)
    /\ UNCHANGED <<fresh, host, facade, upstream, promises, owed>>
    /\ StillAsked({})

\* _promote: the documents and the dirt move, the engine's run is lost.
Promote ==
    /\ host = "wasm"
    /\ host' = "js"
    /\ inner' = [inner EXCEPT !.vacuumState = NoVacuum]
    /\ UNCHANGED <<fresh, facade, upstream, promises, owed>>
    /\ StillAsked({})

Free ==
    /\ host # "freed"
    /\ host' = "freed"
    /\ inner' = [inner EXCEPT !.vacuumState = IF host = "wasm" THEN NoVacuum ELSE @]
    /\ UNCHANGED <<fresh, facade, upstream, promises, owed>>
    /\ StillAsked({})

-----------------------------------------------------------------------------
(* The event loop.                                                         *)

\* setTimeout is over, and the run goes on with the engine of the day.
FacadeTimer ==
    /\ facade.at = "timer"
    /\ Become(Run(World))
    /\ UNCHANGED <<fresh, host, promises, owed>>
    /\ StillAsked({})

UpstreamTimer ==
    /\ upstream.at = "timer"
    /\ Become(Steps(World, "upstream"))
    /\ UNCHANGED <<fresh, host, promises, owed>>
    /\ StillAsked({})

\* A mutant: the queued promise is forgotten before it becomes the current one.
EndedForgetting(s) == [s EXCEPT !.at = "none", !.enqueued = FALSE, !.current = {}, !.next = {}]

\* `_currentVacuum = _enqueuedVacuum; _enqueuedVacuum = null`, after which the
\* current promise fulfils.
Ended(s) ==
    [s EXCEPT !.at = IF s.enqueued THEN "queued" ELSE "none",
              !.enqueued = FALSE, !.current = s.next, !.next = {}]

Fulfil(who) ==
    promises' = [c \in Calls |-> IF c \in who THEN "fulfilled" ELSE promises[c]]

FacadeEnds ==
    /\ facade.at = "null"
    /\ facade' = Ended(facade)
    /\ Fulfil(facade.current)
    /\ UNCHANGED <<inner, fresh, host, upstream, owed>>
    /\ StillAsked({})

UpstreamEnds ==
    /\ upstream.at = "null"
    /\ upstream' = Ended(upstream)
    /\ facade' = IF FacadeRun \in upstream.current THEN [facade EXCEPT !.at = "null"] ELSE facade
    /\ Fulfil(upstream.current)
    /\ UNCHANGED <<inner, fresh, host, owed>>
    /\ StillAsked({})

\* The microtask of the promise that was queued: the conditions are taken, and
\* start over with the defaults.
FacadeQueued ==
    /\ facade.at = "queued"
    /\ Become(Perform([World EXCEPT !.facade.conditions = "default"], facade.conditions))
    /\ UNCHANGED <<fresh, host, promises, owed>>
    /\ StillAsked({})

UpstreamQueued ==
    /\ upstream.at = "queued"
    /\ LET w == [World EXCEPT !.upstream.conditions = "default"]
       IN Become(IF Met(inner, upstream.conditions) THEN Steps(w, "upstream")
                 ELSE {[w EXCEPT !.upstream.at = "null"]})
    /\ UNCHANGED <<fresh, host, promises, owed>>
    /\ StillAsked({})

Next ==
    \/ \E call \in Calls : Vacuum(call)
    \/ \E d \in NextId : Add(d)
    \/ \E gone \in SUBSET inner.alive \ {{}} : Discard(gone) \/ DiscardFailing(gone)
    \/ RemoveAll \/ Promote \/ Free
    \/ FacadeTimer \/ UpstreamTimer
    \/ FacadeEnds \/ UpstreamEnds
    \/ FacadeQueued \/ UpstreamQueued

Spec == Init /\ [][Next]_vars

\* Microtasks run, and timers fire.
FairSpec ==
    /\ Spec
    /\ WF_vars(FacadeTimer) /\ WF_vars(FacadeEnds) /\ WF_vars(FacadeQueued)
    /\ WF_vars(UpstreamTimer) /\ WF_vars(UpstreamEnds) /\ WF_vars(UpstreamQueued)

-----------------------------------------------------------------------------
(* Properties.                                                             *)

Scheduler == [at : {"none", "queued", "timer", "js", "null", "over"}, enqueued : BOOLEAN,
              conditions : {"none", "auto", "default"},
              current : SUBSET (Calls \cup {FacadeRun}), next : SUBSET (Calls \cup {FacadeRun})]

\* Types, and who waits for whom: a queued promise has a current one before it,
\* every pending call holds one of the promises, and the facade's run waits for
\* exactly one promise of upstream's.
TypeOK ==
    /\ host \in {"wasm", "js", "freed"}
    /\ facade \in Scheduler /\ upstream \in Scheduler
    /\ \A s \in {facade, upstream} :
           /\ s.enqueued => s.at # "none"
           /\ s.next # {} => s.enqueued
    /\ {c \in Calls : promises[c] = "pending"} \cup {r \in {FacadeRun} : facade.at = "js"} =
           facade.current \cup facade.next \cup upstream.current \cup upstream.next

\* The engine has no run of its own accord: whenever no vacuum is pending, and
\* compact() is therefore allowed to begin, the engine has finished its run.
NoOrphanRun == host = "wasm" /\ facade.at = "none" => ~inner.vacuumState.running

\* A vacuum() promise that fulfils has cleaned every document that was dead at
\* the call, also when the index moved to upstream in the middle of the run or
\* the call fell between the end of a run and the start of the queued one,
\* whose conditions they share.  Only free() excuses it.
FulfilledMeansCleaned ==
    host # "freed" =>
        \A c \in Calls : promises[c] = "fulfilled" => owed[c] \cap Stale(inner) = {}

\* A facade whose index moves or is freed while its run waits for a timer still
\* ends the run: no call of vacuum() stays pending.
Settles == facade.at # "none" ~> facade.at = "none"

\* A document that an automatic request found dead is cleaned, whichever engine
\* it is in by then, unless the dirt falls below the condition first.
AskedIsCleaned == \A d \in Docs : d \in asked ~> d \notin asked
=============================================================================
