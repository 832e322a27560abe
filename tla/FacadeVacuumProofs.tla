------------------------- MODULE FacadeVacuumProofs -------------------------
(***************************************************************************)
(* The inductive invariant of FacadeVacuum and the theorems it gives, for  *)
(* every number of documents, terms and calls, every batch size and every  *)
(* condition of the automatic vacuum.                                      *)
(*                                                                         *)
(* The argument is about worlds: what a request or a timer makes of one    *)
(* still serves every caller that waited in it.                            *)
(***************************************************************************)
EXTENDS FacadeVacuum, VacuumEngineProofs

Worlds == [engine : Engines, facade : Scheduler, upstream : Scheduler]

Waiting(s) == s.current \cup s.next

\* A scheduler: nobody waits for a promise it does not have, and nobody for two.
SchedulerInv(s) ==
    /\ s \in Scheduler /\ s.at # "over"
    /\ s.enqueued => s.at # "none"
    /\ s.next # {} => s.enqueued
    /\ s.at = "none" => s.current = {}
    /\ s.current \cap s.next = {}

\* Two schedulers on host h: each caller waits for one of them, the facade's
\* run for upstream's, and the engine's run is of whoever waits for a timer.
WorldInv(h, w) ==
    /\ w \in Worlds /\ EngineInv(w.engine)
    /\ SchedulerInv(w.facade) /\ SchedulerInv(w.upstream) /\ w.upstream.at # "js"
    /\ Waiting(w.facade) \cap Waiting(w.upstream) = {}
    /\ FacadeRun \notin Waiting(w.facade)
    /\ FacadeRun \in Waiting(w.upstream) <=> w.facade.at = "js"
    /\ h = "wasm" => w.upstream.at = "none" /\ w.facade.at # "js"
    /\ h = "wasm" /\ w.engine.vacuumState.running => w.facade.at = "timer"
    /\ h = "js" /\ w.engine.vacuumState.running => w.upstream.at = "timer"

Clean(e, docs) == docs \cap Stale(e) = {}

\* who, if it waits for s, is answered by the current vacuum, which does what
\* it must, or by the next one, and that one is unconditional.
Answers(s, who, does) ==
    /\ who \in s.current => does \/ (s.at = "queued" /\ s.conditions = "none")
    /\ who \in s.next => does \/ s.conditions = "none"

\* What the current vacuum of s does for docs: it cleans them, or has cleaned
\* them.  The facade's starts over where the index has moved, or waits for
\* upstream's.
Does(e, s, docs) == IF s.at = "timer" THEN Covers(e, docs) ELSE Clean(e, docs)

UpstreamDoes(w, docs) == Does(w.engine, w.upstream, docs)

FacadeDoes(h, w, docs) ==
    \/ w.facade.at # "js" /\ Does(w.engine, w.facade, docs)
    \/ w.facade.at = "timer" /\ h = "js"
    \/ w.facade.at = "js" /\ Answers(w.upstream, FacadeRun, UpstreamDoes(w, docs))

Served(h, w, c, docs) ==
    /\ Answers(w.facade, c, FacadeDoes(h, w, docs))
    /\ Answers(w.upstream, c, UpstreamDoes(w, docs))

\* A short id is given out clean, and one a call found dead is never live again.
IdsInv ==
    /\ fresh \subseteq Docs \ inner.alive
    /\ \A d \in fresh : inner.postings[d] = {}
    /\ owed \in [Calls -> SUBSET Docs]
    /\ \A c \in Calls : owed[c] \cap (inner.alive \cup fresh) = {}

CallsInv ==
    /\ promises \in [Calls -> {"none", "pending", "fulfilled"}]
    /\ {c \in Calls : promises[c] = "pending"} =
           (Waiting(facade) \cup Waiting(upstream)) \ {FacadeRun}
    /\ host # "freed" => \A c \in Calls :
           /\ Served(host, World, c, owed[c])
           /\ promises[c] = "fulfilled" => Clean(inner, owed[c])

IInv ==
    /\ host \in {"wasm", "js", "freed"}
    /\ WorldInv(host, World) /\ IdsInv /\ CallsInv

----------------------------------------------------------------------------
(* From one world to the next.                                             *)

\* x comes after w, with the callers in who waiting too: no document came back
\* or was forgotten, and everyone who waits is served.
After(h, w, x, who) ==
    /\ WorldInv(h, x)
    /\ x.engine.alive \subseteq w.engine.alive
    /\ \A d \in Docs : x.engine.postings[d] \subseteq w.engine.postings[d]
    /\ \A docs \in SUBSET (Docs \ w.engine.alive) : Keeps(w.engine, x.engine, docs)
    /\ (Waiting(x.facade) \cup Waiting(x.upstream)) \ {FacadeRun} =
           ((Waiting(w.facade) \cup Waiting(w.upstream)) \ {FacadeRun}) \cup who
    /\ h # "freed" => \A docs \in SUBSET (Docs \ w.engine.alive), c \in Calls :
           c \in who \/ Served(h, w, c, docs) => Served(h, x, c, docs)

\* e is cleaned further, by a run that was in progress or by one that begins.
Stepped(e, f) ==
    /\ EngineInv(f) /\ f.alive = e.alive
    /\ \A d \in Docs : f.postings[d] \subseteq e.postings[d]
    /\ \A docs \in SUBSET (Docs \ e.alive) :
           Keeps(e, f, docs) /\ (~e.vacuumState.running => Covers(f, docs))

LEMMA VacuumSteps ==
    ASSUME NEW e, EngineInv(e), NEW batch \in Batches(e, BatchSize)
    PROVE  Stepped(e, VacuumStep(e, batch))
BY StepForward DEF Stepped

\* What a clean set of dead documents has to do with a covered one.
LEMMA CleanOrCovered ==
    ASSUME NEW e, EngineInv(e), NEW docs \in SUBSET (Docs \ e.alive)
    PROVE  /\ Clean(e, docs) => Covers(e, docs)
           /\ ~e.vacuumState.running /\ Covers(e, docs) => Clean(e, docs)
<1>1. Clean(e, docs) => Covers(e, docs)
    BY DEF Clean, Covers, Stale
<1> QED
    BY <1>1, CoveredAtRest DEF Clean

\* A change of the engine alone, that undoes nothing, serves whom it served.
LEMMA EngineServes ==
    ASSUME NEW h, NEW w, NEW x, x.facade = w.facade, x.upstream = w.upstream,
           NEW docs, Keeps(w.engine, x.engine, docs), NEW c, Served(h, w, c, docs)
    PROVE  Served(h, x, c, docs)
<1>1. /\ Clean(w.engine, docs) => Clean(x.engine, docs)
      /\ Covers(w.engine, docs) => Covers(x.engine, docs)
    BY DEF Keeps, Clean
<1>2. UpstreamDoes(w, docs) => UpstreamDoes(x, docs)
    BY <1>1 DEF UpstreamDoes, Does
<1>3. FacadeDoes(h, w, docs) => FacadeDoes(h, x, docs)
    BY <1>1, <1>2 DEF FacadeDoes, Does, Answers
<1> QED
    BY <1>2, <1>3 DEF Served, Answers

\* The same of a change that starts no run and brings nothing back.
LEMMA EngineChanges ==
    ASSUME NEW h, NEW w, WorldInv(h, w), NEW x \in Worlds,
           x.facade = w.facade, x.upstream = w.upstream, EngineInv(x.engine),
           x.engine.vacuumState.running => w.engine.vacuumState.running,
           x.engine.alive \subseteq w.engine.alive,
           \A d \in Docs : x.engine.postings[d] \subseteq w.engine.postings[d],
           \A docs \in SUBSET (Docs \ w.engine.alive) : Keeps(w.engine, x.engine, docs)
    PROVE  After(h, w, x, {})
<1>1. WorldInv(h, x)
    BY DEF WorldInv
<1>2. ASSUME NEW docs \in SUBSET (Docs \ w.engine.alive), NEW c, Served(h, w, c, docs)
      PROVE  Served(h, x, c, docs)
    BY <1>2, EngineServes
<1> QED
    BY <1>1, <1>2 DEF After

\* After what comes after.
LEMMA Afterwards ==
    ASSUME NEW h, NEW w, NEW x, NEW y, NEW who,
           After(h, w, x, {}), After(h, x, y, who)
    PROVE  After(h, w, y, who)
<1>1. ASSUME NEW docs \in SUBSET (Docs \ w.engine.alive)
      PROVE  docs \in SUBSET (Docs \ x.engine.alive)
    BY DEF After
<1>2. ASSUME NEW docs \in SUBSET (Docs \ w.engine.alive)
      PROVE  Keeps(w.engine, y.engine, docs)
    BY <1>1, <1>2 DEF After, Keeps
<1> QED
    BY <1>1, <1>2 DEF After

----------------------------------------------------------------------------
(* What becomes of a scheduler.                                            *)

\* The scheduler s has vacuumed up to engine f for those who waited, and for
\* who when it was idle.
Ran(s, f, t, who) ==
    /\ s.at \in {"none", "timer", "queued"} /\ (s.at # "none" => who = {})
    /\ t \in Scheduler
    /\ t.at = IF f.vacuumState.running THEN "timer" ELSE "null"
    /\ t.current = s.current \cup who
    /\ t.next = s.next /\ t.enqueued = s.enqueued
    /\ s.at = "timer" => t.conditions = s.conditions

LEMMA RanInv ==
    ASSUME NEW s, SchedulerInv(s), NEW f, NEW t, NEW who, Ran(s, f, t, who)
    PROVE  SchedulerInv(t)
BY DEF SchedulerInv, Ran

\* A run that goes on serves whom it served; one that begins serves everyone.
LEMMA RanAnswers ==
    ASSUME NEW s, SchedulerInv(s), NEW e, EngineInv(e),
           e.vacuumState.running => s.at = "timer",
           NEW f, Stepped(e, f), NEW t, NEW who, Ran(s, f, t, who),
           NEW docs \in SUBSET (Docs \ e.alive)
    PROVE  /\ ~e.vacuumState.running => Does(f, t, docs)
           /\ Does(e, s, docs) => Does(f, t, docs)
           /\ \A c : c \in who \/ Answers(s, c, Does(e, s, docs)) => Answers(t, c, Does(f, t, docs))
<1>1. /\ EngineInv(f) /\ docs \in SUBSET (Docs \ f.alive)
      /\ Covers(e, docs) => Covers(f, docs)
      /\ Clean(e, docs) => Clean(f, docs)
      /\ ~e.vacuumState.running => Covers(f, docs)
    BY DEF Stepped, Keeps, Clean
<1>2. Covers(f, docs) => Does(f, t, docs)
    BY <1>1, CleanOrCovered DEF Does, Ran
<1>3. CASE ~e.vacuumState.running
    BY <1>1, <1>2, <1>3 DEF Answers
<1>4. CASE e.vacuumState.running
    <2>1. s.at = "timer" /\ who = {} /\ t.current = s.current /\ t.next = s.next
          /\ t.conditions = s.conditions
        BY <1>4 DEF Ran
    <2>2. Does(e, s, docs) => Does(f, t, docs)
        BY <1>1, <1>2, <2>1 DEF Does
    <2> QED
        BY <1>4, <2>1, <2>2 DEF Answers
<1> QED
    BY <1>3, <1>4

LEMMA EnqueueInv ==
    ASSUME NEW s, SchedulerInv(s), s.at # "none",
           NEW conditions \in {"none", "auto", "default"},
           NEW who \in SUBSET (Calls \cup {FacadeRun}), who \cap Waiting(s) = {}
    PROVE  /\ SchedulerInv(Enqueue(s, conditions, who))
           /\ Waiting(Enqueue(s, conditions, who)) = Waiting(s) \cup who
           /\ Enqueue(s, conditions, who).at = s.at
<1> DEFINE t == Enqueue(s, conditions, who)
<1>1. s \in Scheduler
    BY DEF SchedulerInv
<1>2. /\ t \in Scheduler /\ t.at = s.at /\ t.enqueued /\ t.current = s.current
      /\ t.next = s.next \cup who
    BY <1>1 DEF Enqueue, Joined, Scheduler
<1> HIDE DEF t
<1>3. SchedulerInv(t) /\ Waiting(t) = Waiting(s) \cup who
    BY <1>2 DEF SchedulerInv, Waiting
<1> QED
    BY <1>2, <1>3 DEF t

\* Joining the queue takes nothing from those who wait, and a manual request
\* makes the queued vacuum unconditional.
LEMMA EnqueueAnswers ==
    ASSUME NEW s, SchedulerInv(s), NEW conditions, NEW who, NEW c, NEW does \in BOOLEAN,
           Answers(s, c, does) \/ (c \in who /\ c \notin Waiting(s)),
           c \in who => conditions = "none"
    PROVE  Answers(Enqueue(s, conditions, who), c, does)
<1> DEFINE t == Enqueue(s, conditions, who)
<1>1. s \in Scheduler
    BY DEF SchedulerInv
<1>2. /\ t.at = s.at /\ t.current = s.current /\ t.next = s.next \cup who
      /\ t.conditions = Joined(s.conditions, conditions)
    BY <1>1 DEF Enqueue, Scheduler
<1>3. s.conditions = "none" \/ conditions = "none" => t.conditions = "none"
    BY <1>2 DEF Joined
<1> HIDE DEF t
<1>4. Answers(t, c, does)
    BY <1>2, <1>3 DEF Answers, Waiting
<1> QED
    BY <1>4 DEF t

----------------------------------------------------------------------------
(* What becomes of a world.                                                *)

\* The scheduler of the host's engine goes on with its run, or begins one.
LEMMA WasmRuns ==
    ASSUME NEW w, WorldInv("wasm", w), NEW x \in Worlds, Stepped(w.engine, x.engine),
           x.upstream = w.upstream, NEW who \in SUBSET Calls,
           Ran(w.facade, x.engine, x.facade, who)
    PROVE  After("wasm", w, x, who)
<1>1. /\ EngineInv(w.engine) /\ SchedulerInv(w.facade) /\ SchedulerInv(w.upstream)
      /\ w.engine.vacuumState.running => w.facade.at = "timer"
      /\ w.upstream.at = "none"
    BY DEF WorldInv
<1>2. Waiting(w.upstream) = {}
    BY <1>1 DEF SchedulerInv, Waiting
<1>3. /\ SchedulerInv(x.facade) /\ Waiting(x.facade) = Waiting(w.facade) \cup who
      /\ x.facade.at # "js" /\ EngineInv(x.engine)
      /\ x.facade.at = IF x.engine.vacuumState.running THEN "timer" ELSE "null"
    <2>1. SchedulerInv(x.facade)
        BY <1>1, RanInv
    <2> QED
        BY <2>1 DEF Ran, Stepped, Waiting
<1>4. FacadeRun \notin who
    BY CallsAssumption
<1>5. WorldInv("wasm", x)
    BY <1>1, <1>2, <1>3, <1>4 DEF WorldInv
<1>6. ASSUME NEW docs \in SUBSET (Docs \ w.engine.alive), NEW c \in Calls,
             c \in who \/ Served("wasm", w, c, docs)
      PROVE  Served("wasm", x, c, docs)
    <2>1. FacadeDoes("wasm", w, docs) => Does(w.engine, w.facade, docs)
        <3>1. w.facade.at # "js"
            BY DEF WorldInv
        <3> QED
            BY <3>1 DEF FacadeDoes, Does
    <2>2. Does(x.engine, x.facade, docs) => FacadeDoes("wasm", x, docs)
        BY <1>3 DEF FacadeDoes
    <2>3. c \in who \/ Answers(w.facade, c, Does(w.engine, w.facade, docs))
        BY <1>6, <2>1 DEF Served, Answers
    <2>4. Answers(x.facade, c, Does(x.engine, x.facade, docs))
        BY <1>1, <2>3, RanAnswers
    <2>5. c \notin Waiting(x.upstream)
        BY <1>2
    <2> QED
        BY <2>2, <2>4, <2>5 DEF Served, Answers, Waiting
<1> QED
    BY <1>2, <1>3, <1>4, <1>5, <1>6 DEF After, Stepped

LEMMA JsRuns ==
    ASSUME NEW h \in {"js", "freed"}, NEW w, WorldInv(h, w), NEW x \in Worlds,
           Stepped(w.engine, x.engine), x.facade = w.facade,
           NEW who \in SUBSET Calls, who \cap Waiting(w.facade) = {},
           Ran(w.upstream, x.engine, x.upstream, who)
    PROVE  After(h, w, x, who)
<1>1. /\ EngineInv(w.engine) /\ SchedulerInv(w.facade) /\ SchedulerInv(w.upstream)
      /\ h = "js" /\ w.engine.vacuumState.running => w.upstream.at = "timer"
    BY DEF WorldInv
<1>2. /\ SchedulerInv(x.upstream) /\ Waiting(x.upstream) = Waiting(w.upstream) \cup who
      /\ x.upstream.at # "js" /\ EngineInv(x.engine)
      /\ x.upstream.at = IF x.engine.vacuumState.running THEN "timer" ELSE "null"
    <2>1. SchedulerInv(x.upstream)
        BY <1>1, RanInv
    <2> QED
        BY <2>1 DEF Ran, Stepped, Waiting
<1>3. FacadeRun \notin who
    BY CallsAssumption
<1>4. WorldInv(h, x)
    BY <1>1, <1>2, <1>3 DEF WorldInv
<1>5. ASSUME h = "js", NEW docs \in SUBSET (Docs \ w.engine.alive), NEW c \in Calls,
             c \in who \/ Served(h, w, c, docs)
      PROVE  Served(h, x, c, docs)
    <2>1. /\ UpstreamDoes(w, docs) => UpstreamDoes(x, docs)
          /\ \A y : y \in who \/ Answers(w.upstream, y, UpstreamDoes(w, docs)) =>
                      Answers(x.upstream, y, UpstreamDoes(x, docs))
        BY <1>1, <1>5, RanAnswers DEF UpstreamDoes
    <2>2. Clean(w.engine, docs) => Clean(x.engine, docs)
        BY DEF Stepped, Keeps, Clean
    <2>3. FacadeDoes(h, w, docs) => FacadeDoes(h, x, docs)
        BY <1>5, <2>1, <2>2 DEF FacadeDoes, Does
    <2>4. CASE c \in who
        <3>1. c \notin Waiting(x.facade)
            BY <2>4
        <3> QED
            BY <2>1, <2>4, <3>1 DEF Served, Answers, Waiting
    <2>5. CASE Served(h, w, c, docs)
        BY <2>1, <2>3, <2>5 DEF Served, Answers
    <2> QED
        BY <1>5, <2>4, <2>5
<1> QED
    BY <1>2, <1>3, <1>4, <1>5 DEF After, Stepped

\* The facade's run goes on as a vacuum that upstream begins now or queues
\* without conditions: either way it serves everyone who waits for the facade.
LEMMA JsWaits ==
    ASSUME NEW w, WorldInv("js", w), w.facade.at \in {"timer", "queued"}, NEW x \in Worlds,
           x.facade.at = "js", x.facade.current = w.facade.current,
           x.facade.next = w.facade.next, x.facade.enqueued = w.facade.enqueued,
           \/ /\ w.upstream.at = "none" /\ Stepped(w.engine, x.engine)
              /\ Ran(w.upstream, x.engine, x.upstream, {FacadeRun})
           \/ /\ w.upstream.at # "none" /\ x.engine = w.engine
              /\ x.upstream = Enqueue(w.upstream, "none", {FacadeRun})
    PROVE  After("js", w, x, {})
<1>1. /\ EngineInv(w.engine) /\ SchedulerInv(w.facade) /\ SchedulerInv(w.upstream)
      /\ w.engine.vacuumState.running => w.upstream.at = "timer"
      /\ w.upstream.at # "js" /\ FacadeRun \notin Waiting(w.upstream)
      /\ FacadeRun \notin Waiting(w.facade)
      /\ Waiting(w.facade) \cap Waiting(w.upstream) = {}
    BY DEF WorldInv
<1>2. SchedulerInv(x.facade) /\ Waiting(x.facade) = Waiting(w.facade)
    BY <1>1 DEF SchedulerInv, Waiting, Worlds
<1>3. /\ EngineInv(x.engine) /\ SchedulerInv(x.upstream) /\ x.upstream.at # "js"
      /\ Waiting(x.upstream) = Waiting(w.upstream) \cup {FacadeRun}
      /\ x.engine.vacuumState.running => x.upstream.at = "timer"
    <2>1. CASE w.upstream.at = "none"
        <3>1. SchedulerInv(x.upstream)
            BY <1>1, <2>1, RanInv
        <3> QED
            BY <2>1, <3>1 DEF Ran, Stepped, Waiting
    <2>2. CASE w.upstream.at # "none"
        BY <1>1, <2>2, EnqueueInv
    <2> QED
        BY <2>1, <2>2
<1>4. WorldInv("js", x)
    BY <1>1, <1>2, <1>3 DEF WorldInv
<1>5. ASSUME NEW docs \in SUBSET (Docs \ w.engine.alive)
      PROVE  /\ Keeps(w.engine, x.engine, docs)
             /\ Answers(x.upstream, FacadeRun, UpstreamDoes(x, docs))
             /\ \A c \in Calls : Answers(w.upstream, c, UpstreamDoes(w, docs)) =>
                                    Answers(x.upstream, c, UpstreamDoes(x, docs))
    <2>1. CASE w.upstream.at = "none"
        <3>1. ~w.engine.vacuumState.running
            BY <1>1, <2>1
        <3>2. Does(x.engine, x.upstream, docs)
            BY <1>1, <2>1, <3>1, RanAnswers
        <3> QED
            BY <2>1, <3>2 DEF UpstreamDoes, Answers, Stepped
    <2>2. CASE w.upstream.at # "none"
        <3>1. x.engine = w.engine /\ x.upstream = Enqueue(w.upstream, "none", {FacadeRun})
            BY <2>2
        <3>2. x.upstream.at = w.upstream.at
            BY <1>1, <2>2, <3>1, EnqueueInv
        <3>3. UpstreamDoes(x, docs) = UpstreamDoes(w, docs) /\ UpstreamDoes(w, docs) \in BOOLEAN
            BY <3>1, <3>2 DEF UpstreamDoes, Does, Covers, Clean
        <3>4. Answers(x.upstream, FacadeRun, UpstreamDoes(w, docs))
            BY <1>1, <3>1, <3>3, EnqueueAnswers
        <3>5. ASSUME NEW c \in Calls, Answers(w.upstream, c, UpstreamDoes(w, docs))
              PROVE  Answers(x.upstream, c, UpstreamDoes(w, docs))
            BY <1>1, <3>1, <3>3, <3>5, EnqueueAnswers
        <3> QED
            BY <3>1, <3>3, <3>4, <3>5 DEF Keeps
    <2> QED
        BY <2>1, <2>2
<1>6. ASSUME NEW docs \in SUBSET (Docs \ w.engine.alive), NEW c \in Calls,
             Served("js", w, c, docs)
      PROVE  Served("js", x, c, docs)
    <2>1. FacadeDoes("js", x, docs)
        BY <1>5 DEF FacadeDoes
    <2> QED
        BY <1>5, <1>6, <2>1 DEF Served, Answers
<1>7. /\ x.engine.alive \subseteq w.engine.alive
      /\ \A d \in Docs : x.engine.postings[d] \subseteq w.engine.postings[d]
    BY DEF Stepped
<1> QED
    BY <1>2, <1>3, <1>4, <1>5, <1>6, <1>7 DEF After

\* A caller joins the queue of the scheduler of its host, as a manual request;
\* an automatic request is nobody's.
LEMMA WasmEnqueues ==
    ASSUME NEW w, WorldInv("wasm", w), w.facade.at # "none", NEW x \in Worlds,
           x.engine = w.engine, x.upstream = w.upstream,
           NEW conditions \in {"none", "auto"}, NEW who \in SUBSET Calls,
           who \cap Waiting(w.facade) = {}, who # {} => conditions = "none",
           x.facade = Enqueue(w.facade, conditions, who)
    PROVE  After("wasm", w, x, who)
<1>1. /\ SchedulerInv(w.facade) /\ SchedulerInv(w.upstream)
      /\ w.upstream.at = "none" /\ w.facade.at # "js"
      /\ FacadeRun \notin who /\ who \in SUBSET (Calls \cup {FacadeRun})
    BY CallsAssumption DEF WorldInv
<1>2. Waiting(w.upstream) = {}
    BY <1>1 DEF SchedulerInv, Waiting
<1>3. /\ SchedulerInv(x.facade) /\ x.facade.at = w.facade.at
      /\ Waiting(x.facade) = Waiting(w.facade) \cup who
    BY <1>1, EnqueueInv
<1>4. WorldInv("wasm", x)
    BY <1>1, <1>2, <1>3 DEF WorldInv
<1>5. ASSUME NEW docs \in SUBSET (Docs \ w.engine.alive), NEW c \in Calls,
             c \in who \/ Served("wasm", w, c, docs)
      PROVE  Served("wasm", x, c, docs)
    <2> DEFINE does == FacadeDoes("wasm", w, docs)
    <2>1. does \in BOOLEAN
        BY DEF FacadeDoes
    <2>2. Answers(w.facade, c, does) \/ (c \in who /\ c \notin Waiting(w.facade))
        BY <1>5 DEF Served
    <2> HIDE DEF does
    <2>3. Answers(x.facade, c, does)
        BY <1>1, <2>1, <2>2, EnqueueAnswers
    <2>4. does => FacadeDoes("wasm", x, docs)
        BY <1>1, <1>3 DEF does, FacadeDoes, Does
    <2> QED
        BY <1>2, <2>3, <2>4 DEF Served, Answers, Waiting
<1> QED
    BY <1>1, <1>2, <1>3, <1>4, <1>5 DEF After, Keeps

LEMMA JsEnqueues ==
    ASSUME NEW w, WorldInv("js", w), w.upstream.at # "none", NEW x \in Worlds,
           x.engine = w.engine, x.facade = w.facade,
           NEW conditions \in {"none", "auto"}, NEW who \in SUBSET Calls,
           who \cap (Waiting(w.facade) \cup Waiting(w.upstream)) = {},
           who # {} => conditions = "none",
           x.upstream = Enqueue(w.upstream, conditions, who)
    PROVE  After("js", w, x, who)
<1>1. /\ SchedulerInv(w.facade) /\ SchedulerInv(w.upstream) /\ w.upstream.at # "js"
      /\ FacadeRun \notin who /\ who \in SUBSET (Calls \cup {FacadeRun})
      /\ who \cap Waiting(w.upstream) = {}
    BY CallsAssumption DEF WorldInv
<1>2. /\ SchedulerInv(x.upstream) /\ x.upstream.at = w.upstream.at
      /\ Waiting(x.upstream) = Waiting(w.upstream) \cup who
    BY <1>1, EnqueueInv
<1>3. WorldInv("js", x)
    BY <1>1, <1>2 DEF WorldInv
<1>4. ASSUME NEW docs \in SUBSET (Docs \ w.engine.alive), NEW c \in Calls,
             c \in who \/ Served("js", w, c, docs)
      PROVE  Served("js", x, c, docs)
    <2> DEFINE does == UpstreamDoes(w, docs)
    <2>1. does \in BOOLEAN
        BY DEF UpstreamDoes, Does, Covers, Clean
    <2>2. UpstreamDoes(x, docs) = does
        BY <1>2 DEF UpstreamDoes, Does
    <2>3. ASSUME NEW y, Answers(w.upstream, y, does) \/ (y \in who /\ y \notin Waiting(w.upstream))
          PROVE  Answers(x.upstream, y, does)
        <3> HIDE DEF does
        <3> QED
            BY <1>1, <2>1, <2>3, EnqueueAnswers
    <2>4. FacadeDoes("js", w, docs) => FacadeDoes("js", x, docs)
        BY <1>2, <2>2, <2>3 DEF FacadeDoes, Does
    <2>5. CASE c \in who
        <3>1. c \notin Waiting(x.facade) /\ c \notin Waiting(w.upstream)
            BY <2>5
        <3> QED
            BY <2>2, <2>3, <2>5, <3>1 DEF Served, Answers, Waiting
    <2>6. CASE Served("js", w, c, docs)
        BY <2>2, <2>3, <2>4, <2>6 DEF Served, Answers
    <2> QED
        BY <1>4, <2>5, <2>6
<1> QED
    BY <1>1, <1>2, <1>3, <1>4 DEF After, Keeps

\* s, whose conditions are not met, has nothing to do but to end.
Skipped(s, t) ==
    /\ s.at \in {"timer", "queued"}
    /\ t \in Scheduler /\ t.at = "null"
    /\ t.current = s.current /\ t.next = s.next /\ t.enqueued = s.enqueued

\* A queued vacuum may be skipped when it is conditional: whoever waits for it
\* was served by the one before.  A freed index serves nobody.
LEMMA FacadeSkips ==
    ASSUME NEW h, NEW w, WorldInv(h, w), NEW x \in Worlds,
           x.engine = w.engine, x.upstream = w.upstream, Skipped(w.facade, x.facade),
           h = "freed" \/ (w.facade.at = "queued" /\ w.facade.conditions # "none"),
           w.facade.at = "timer" => h = "freed"
    PROVE  After(h, w, x, {})
<1>1. SchedulerInv(x.facade) /\ Waiting(x.facade) = Waiting(w.facade)
    BY DEF WorldInv, SchedulerInv, Skipped, Waiting
<1>2. WorldInv(h, x)
    BY <1>1 DEF WorldInv, Skipped
<1>3. ASSUME h # "freed", NEW docs \in SUBSET (Docs \ w.engine.alive), NEW c \in Calls,
             Served(h, w, c, docs)
      PROVE  Served(h, x, c, docs)
    <2>1. FacadeDoes(h, w, docs) => FacadeDoes(h, x, docs)
        BY <1>3 DEF FacadeDoes, Does, Skipped
    <2>2. Answers(w.facade, c, FacadeDoes(h, w, docs)) => Answers(x.facade, c, FacadeDoes(h, x, docs))
        BY <1>3, <2>1 DEF Answers, Skipped
    <2> QED
        BY <1>3, <2>2 DEF Served, UpstreamDoes
<1> QED
    BY <1>1, <1>2, <1>3 DEF After, Keeps

LEMMA UpstreamSkips ==
    ASSUME NEW h, NEW w, WorldInv(h, w), NEW x \in Worlds,
           x.engine = w.engine, x.facade = w.facade, Skipped(w.upstream, x.upstream),
           w.upstream.at = "queued", w.upstream.conditions # "none"
    PROVE  After(h, w, x, {})
<1>1. SchedulerInv(x.upstream) /\ Waiting(x.upstream) = Waiting(w.upstream)
    BY DEF WorldInv, SchedulerInv, Skipped, Waiting
<1>2. WorldInv(h, x)
    BY <1>1 DEF WorldInv, Skipped
<1>3. ASSUME NEW docs \in SUBSET (Docs \ w.engine.alive), NEW c \in Calls,
             Served(h, w, c, docs)
      PROVE  Served(h, x, c, docs)
    <2>1. UpstreamDoes(w, docs) => UpstreamDoes(x, docs)
        BY DEF UpstreamDoes, Does, Skipped
    <2>2. \A y : Answers(w.upstream, y, UpstreamDoes(w, docs)) =>
                 Answers(x.upstream, y, UpstreamDoes(x, docs))
        BY <2>1 DEF Answers, Skipped
    <2>3. FacadeDoes(h, w, docs) => FacadeDoes(h, x, docs)
        BY <2>2 DEF FacadeDoes, Does
    <2> QED
        BY <1>3, <2>2, <2>3 DEF Served, Answers
<1> QED
    BY <1>1, <1>2, <1>3 DEF After, Keeps

----------------------------------------------------------------------------
(* The requests and runs of the code.                                      *)

LEMMA StepsOfFacade ==
    ASSUME NEW w \in Worlds, EngineInv(w.engine), NEW x \in Steps(w, "facade")
    PROVE  /\ x \in Worlds /\ Stepped(w.engine, x.engine) /\ x.upstream = w.upstream
           /\ x.facade = [w.facade EXCEPT !.at = IF x.engine.vacuumState.running
                                                 THEN "timer" ELSE "null"]
<1>1. PICK batch \in Batches(w.engine, BatchSize) :
         x = [w EXCEPT !.engine = VacuumStep(w.engine, batch),
                       !["facade"].at = IF VacuumStep(w.engine, batch).vacuumState.running
                                        THEN "timer" ELSE "null"]
    <2>1. PICK e \in {VacuumStep(w.engine, batch) : batch \in Batches(w.engine, BatchSize)} :
             x = [w EXCEPT !.engine = e,
                           !["facade"].at = IF e.vacuumState.running THEN "timer" ELSE "null"]
        BY Zenon DEF Steps
    <2>2. PICK batch \in Batches(w.engine, BatchSize) : e = VacuumStep(w.engine, batch)
        BY <2>1, Zenon
    <2> QED
        BY <2>1, <2>2
<1>2. Stepped(w.engine, VacuumStep(w.engine, batch))
    BY VacuumSteps
<1>3. VacuumStep(w.engine, batch) \in Engines
    BY <1>2 DEF Stepped, EngineInv
<1> DEFINE e == VacuumStep(w.engine, batch)
<1>4. /\ x.engine = e /\ x.upstream = w.upstream
      /\ x.facade = [w.facade EXCEPT !.at = IF e.vacuumState.running THEN "timer" ELSE "null"]
      /\ x = [engine |-> x.engine, facade |-> x.facade, upstream |-> x.upstream]
    <2> HIDE DEF e
    <2> QED
        BY <1>1 DEF Worlds, e
<1>5. x \in Worlds
    <2> HIDE DEF e
    <2> QED
        BY <1>3, <1>4 DEF Worlds, Scheduler, e
<1> QED
    BY <1>2, <1>4, <1>5

LEMMA StepsOfUpstream ==
    ASSUME NEW w \in Worlds, EngineInv(w.engine), NEW x \in Steps(w, "upstream")
    PROVE  /\ x \in Worlds /\ Stepped(w.engine, x.engine) /\ x.facade = w.facade
           /\ x.upstream = [w.upstream EXCEPT !.at = IF x.engine.vacuumState.running
                                                     THEN "timer" ELSE "null"]
<1>1. PICK batch \in Batches(w.engine, BatchSize) :
         x = [w EXCEPT !.engine = VacuumStep(w.engine, batch),
                       !["upstream"].at = IF VacuumStep(w.engine, batch).vacuumState.running
                                        THEN "timer" ELSE "null"]
    <2>1. PICK e \in {VacuumStep(w.engine, batch) : batch \in Batches(w.engine, BatchSize)} :
             x = [w EXCEPT !.engine = e,
                           !["upstream"].at = IF e.vacuumState.running THEN "timer" ELSE "null"]
        BY Zenon DEF Steps
    <2>2. PICK batch \in Batches(w.engine, BatchSize) : e = VacuumStep(w.engine, batch)
        BY <2>1, Zenon
    <2> QED
        BY <2>1, <2>2
<1>2. Stepped(w.engine, VacuumStep(w.engine, batch))
    BY VacuumSteps
<1>3. VacuumStep(w.engine, batch) \in Engines
    BY <1>2 DEF Stepped, EngineInv
<1> DEFINE e == VacuumStep(w.engine, batch)
<1>4. /\ x.engine = e /\ x.facade = w.facade
      /\ x.upstream = [w.upstream EXCEPT !.at = IF e.vacuumState.running THEN "timer" ELSE "null"]
      /\ x = [engine |-> x.engine, facade |-> x.facade, upstream |-> x.upstream]
    <2> HIDE DEF e
    <2> QED
        BY <1>1 DEF Worlds, e
<1>5. x \in Worlds
    <2> HIDE DEF e
    <2> QED
        BY <1>3, <1>4 DEF Worlds, Scheduler, e
<1> QED
    BY <1>2, <1>4, <1>5

\* w with the scheduler f, or u, as when a request or a microtask prepares it.
LEMMA PreparedFacade ==
    ASSUME NEW w \in Worlds, NEW f \in Scheduler
    PROVE  /\ [w EXCEPT !.facade = f] \in Worlds
           /\ [w EXCEPT !.facade = f].engine = w.engine
           /\ [w EXCEPT !.facade = f].facade = f
           /\ [w EXCEPT !.facade = f].upstream = w.upstream
BY DEF Worlds

LEMMA PreparedUpstream ==
    ASSUME NEW w \in Worlds, NEW u \in Scheduler
    PROVE  /\ [w EXCEPT !.upstream = u] \in Worlds
           /\ [w EXCEPT !.upstream = u].engine = w.engine
           /\ [w EXCEPT !.upstream = u].upstream = u
           /\ [w EXCEPT !.upstream = u].facade = w.facade
BY DEF Worlds

\* What _performVacuum goes on with: the next batch, upstream's vacuum, or the
\* end of a freed one.
LEMMA RunAfter ==
    ASSUME NEW w, WorldInv(host, w), host \in {"wasm", "js", "freed"},
           NEW who \in SUBSET Calls, NEW v \in Worlds,
           v.engine = w.engine, v.upstream = w.upstream,
           v.facade.at = w.facade.at, v.facade.next = w.facade.next,
           v.facade.enqueued = w.facade.enqueued,
           v.facade.current = w.facade.current \cup who,
           w.facade.at = "timer" => v.facade.conditions = w.facade.conditions,
           w.facade.at \in {"none", "timer", "queued"},
           w.facade.at = "none" => host = "wasm",
           w.facade.at # "none" => who = {},
           NEW x \in Run(v)
    PROVE  After(host, w, x, who)
<1>1. /\ w \in Worlds /\ EngineInv(w.engine) /\ SchedulerInv(w.facade) /\ SchedulerInv(w.upstream)
      /\ v.facade \in Scheduler /\ v.upstream \in Scheduler
    BY DEF WorldInv, Worlds
<1>2. CASE host = "wasm"
    <2>1. x \in Steps(v, "facade")
        BY <1>2 DEF Run
    <2>2. /\ x \in Worlds /\ Stepped(w.engine, x.engine) /\ x.upstream = w.upstream
          /\ x.facade = [v.facade EXCEPT !.at = IF x.engine.vacuumState.running
                                                THEN "timer" ELSE "null"]
        BY <1>1, <2>1, StepsOfFacade
    <2>3. Ran(w.facade, x.engine, x.facade, who)
        BY <1>1, <2>2 DEF Ran, Scheduler
    <2> QED
        BY <1>2, <2>2, <2>3, WasmRuns
<1>3. CASE host = "js"
    <2>1. PICK y \in UpstreamRequest(v, "none", {FacadeRun}) : x = [y EXCEPT !.facade.at = "js"]
        BY <1>3 DEF Run
    <2>2. w.facade.at \in {"timer", "queued"} /\ who = {}
        BY <1>3
    <2>3. CASE w.upstream.at # "none"
        <3> DEFINE u == Enqueue(v.upstream, "none", {FacadeRun})
        <3>1. y = [v EXCEPT !.upstream = u]
            BY <2>1, <2>3 DEF UpstreamRequest
        <3>2. u \in Scheduler
            BY <1>1 DEF Enqueue, Joined, Scheduler
        <3> HIDE DEF u
        <3>3. /\ y \in Worlds /\ y.engine = w.engine /\ y.upstream = u /\ y.facade = v.facade
            BY <1>1, <3>1, <3>2, PreparedUpstream
        <3>4. /\ x \in Worlds /\ x.engine = w.engine /\ x.upstream = u
              /\ x.facade.at = "js" /\ x.facade.current = w.facade.current
              /\ x.facade.next = w.facade.next /\ x.facade.enqueued = w.facade.enqueued
            BY <2>1, <2>2, <3>3 DEF Worlds, Scheduler
        <3> QED
            BY <1>3, <2>2, <2>3, <3>4, JsWaits DEF u
    <2>4. CASE w.upstream.at = "none"
        <3> DEFINE u == [v.upstream EXCEPT !.current = {FacadeRun}]
        <3>1. y \in Steps([v EXCEPT !.upstream = u], "upstream")
            <4>1. y \in Steps([v EXCEPT !.upstream.current = {FacadeRun}], "upstream")
                BY <2>1, <2>4 DEF UpstreamRequest, Met
            <4>2. [v EXCEPT !.upstream.current = {FacadeRun}] = [v EXCEPT !.upstream = u]
                OBVIOUS
            <4> QED
                BY <4>1, <4>2
        <3>2. u \in Scheduler
            BY <1>1 DEF Scheduler
        <3>3. /\ u.at = "none" /\ u.next = w.upstream.next /\ u.enqueued = w.upstream.enqueued
              /\ u.current = {FacadeRun} /\ w.upstream.current = {}
            BY <1>1, <2>4 DEF Scheduler, SchedulerInv
        <3> HIDE DEF u
        <3> DEFINE z == [v EXCEPT !.upstream = u]
        <3>4. z \in Worlds /\ z.engine = w.engine /\ z.upstream = u /\ z.facade = v.facade
            BY <1>1, <3>2, PreparedUpstream
        <3>5. /\ y \in Worlds /\ Stepped(w.engine, y.engine) /\ y.facade = v.facade
              /\ y.upstream = [u EXCEPT !.at = IF y.engine.vacuumState.running
                                               THEN "timer" ELSE "null"]
            <4>1. y \in Steps(z, "upstream")
                BY <3>1
            <4> HIDE DEF z
            <4>2. EngineInv(z.engine)
                BY <1>1, <3>4
            <4> QED
                BY <3>4, <4>1, <4>2, StepsOfUpstream
        <3> HIDE DEF z
        <3>6. Ran(w.upstream, y.engine, y.upstream, {FacadeRun})
            BY <2>4, <3>2, <3>3, <3>5 DEF Ran, Scheduler
        <3>7. /\ x \in Worlds /\ x.engine = y.engine /\ x.upstream = y.upstream
              /\ x.facade.at = "js" /\ x.facade.current = w.facade.current
              /\ x.facade.next = w.facade.next /\ x.facade.enqueued = w.facade.enqueued
            BY <2>1, <2>2, <3>5 DEF Worlds, Scheduler
        <3> QED
            BY <1>3, <2>2, <2>4, <3>5, <3>6, <3>7, JsWaits
    <2> QED
        BY <2>3, <2>4
<1>4. CASE host = "freed"
    <2>1. x = [v EXCEPT !.facade.at = "null"] /\ who = {} /\ w.facade.at \in {"timer", "queued"}
        BY <1>4 DEF Run
    <2>2. /\ x \in Worlds /\ x.engine = w.engine /\ x.upstream = w.upstream
          /\ Skipped(w.facade, x.facade)
        BY <1>1, <2>1 DEF Worlds, Scheduler, Skipped
    <2> QED
        BY <1>4, <2>1, <2>2, FacadeSkips
<1> QED
    BY <1>2, <1>3, <1>4

\* A world that a request leaves as it was.
LEMMA Unchanged ==
    ASSUME NEW h, NEW w, WorldInv(h, w)
    PROVE  After(h, w, w, {})
BY DEF After, Keeps

\* conditionalVacuum of the host, for a caller of vacuum() or for none: the
\* caller waits for a promise that will serve it.
LEMMA RequestAfter ==
    ASSUME NEW w, WorldInv(host, w), host \in {"wasm", "js"},
           NEW conditions \in {"none", "auto"}, NEW who \in SUBSET Calls,
           who \cap (Waiting(w.facade) \cup Waiting(w.upstream)) = {},
           who # {} => conditions = "none",
           NEW x \in Request(w, conditions, who)
    PROVE  After(host, w, x, who)
<1>1. /\ w \in Worlds /\ EngineInv(w.engine) /\ SchedulerInv(w.facade) /\ SchedulerInv(w.upstream)
      /\ w.facade \in Scheduler /\ w.upstream \in Scheduler
      /\ who \in SUBSET (Calls \cup {FacadeRun})
    BY DEF WorldInv, Worlds
<1>2. who # {} => Met(w.engine, conditions)
    BY DEF Met
<1>3. CASE host = "wasm"
    <2>1. x \in FacadeRequest(w, conditions, who)
        BY <1>3 DEF Request
    <2>2. CASE w.facade.at # "none"
        <3> DEFINE f == Enqueue(w.facade, conditions, who)
        <3>1. x = [w EXCEPT !.facade = f]
            BY <2>1, <2>2 DEF FacadeRequest
        <3>2. f \in Scheduler
            BY <1>1 DEF Enqueue, Joined, Scheduler
        <3> HIDE DEF f
        <3>3. x \in Worlds /\ x.engine = w.engine /\ x.upstream = w.upstream /\ x.facade = f
            BY <1>1, <3>1, <3>2, PreparedFacade
        <3> QED
            BY <1>3, <2>2, <3>3, WasmEnqueues DEF f
    <2>3. CASE w.facade.at = "none" /\ ~Met(w.engine, conditions)
        <3>1. x = w /\ who = {}
            BY <1>2, <2>1, <2>3 DEF FacadeRequest
        <3> QED
            BY <3>1, Unchanged
    <2>4. CASE w.facade.at = "none" /\ Met(w.engine, conditions)
        <3> DEFINE f == [w.facade EXCEPT !.current = who]
                   v == [w EXCEPT !.facade = f]
        <3>1. f \in Scheduler
            BY <1>1 DEF Scheduler
        <3>2. /\ f.at = "none" /\ f.next = w.facade.next /\ f.enqueued = w.facade.enqueued
              /\ f.current = w.facade.current \cup who /\ f.conditions = w.facade.conditions
            BY <1>1, <2>4 DEF Scheduler, SchedulerInv
        <3>3. x \in Run(v)
            <4>1. x \in Perform([w EXCEPT !.facade.current = who], "none")
                BY <2>1, <2>4 DEF FacadeRequest
            <4>2. [w EXCEPT !.facade.current = who] = v
                OBVIOUS
            <4>3. x \in Perform(v, "none")
                BY <4>1, <4>2
            <4> QED
                BY <1>3, <4>3 DEF Perform, Met
        <3> HIDE DEF f
        <3>4. v \in Worlds /\ v.engine = w.engine /\ v.facade = f /\ v.upstream = w.upstream
            BY <1>1, <3>1, PreparedFacade
        <3> HIDE DEF v
        <3> QED
            BY <1>3, <2>4, <3>2, <3>3, <3>4, RunAfter
    <2> QED
        BY <2>2, <2>3, <2>4
<1>4. CASE host = "js"
    <2>1. x \in UpstreamRequest(w, conditions, who)
        BY <1>4 DEF Request
    <2>2. CASE w.upstream.at # "none"
        <3> DEFINE u == Enqueue(w.upstream, conditions, who)
        <3>1. x = [w EXCEPT !.upstream = u]
            BY <2>1, <2>2 DEF UpstreamRequest
        <3>2. u \in Scheduler
            BY <1>1 DEF Enqueue, Joined, Scheduler
        <3> HIDE DEF u
        <3>3. x \in Worlds /\ x.engine = w.engine /\ x.facade = w.facade /\ x.upstream = u
            BY <1>1, <3>1, <3>2, PreparedUpstream
        <3> QED
            BY <1>4, <2>2, <3>3, JsEnqueues DEF u
    <2>3. CASE w.upstream.at = "none" /\ ~Met(w.engine, conditions)
        <3>1. x = w /\ who = {}
            BY <1>2, <2>1, <2>3 DEF UpstreamRequest
        <3> QED
            BY <3>1, Unchanged
    <2>4. CASE w.upstream.at = "none" /\ Met(w.engine, conditions)
        <3> DEFINE u == [w.upstream EXCEPT !.current = who]
                   v == [w EXCEPT !.upstream = u]
        <3>1. u \in Scheduler
            BY <1>1 DEF Scheduler
        <3>2. /\ u.next = w.upstream.next /\ u.enqueued = w.upstream.enqueued
              /\ u.current = w.upstream.current \cup who
            BY <1>1, <2>4 DEF Scheduler, SchedulerInv
        <3>3. x \in Steps(v, "upstream")
            <4>1. x \in Steps([w EXCEPT !.upstream.current = who], "upstream")
                BY <2>1, <2>4 DEF UpstreamRequest
            <4>2. [w EXCEPT !.upstream.current = who] = v
                OBVIOUS
            <4> QED
                BY <4>1, <4>2
        <3> HIDE DEF u
        <3>4. v \in Worlds /\ v.engine = w.engine /\ v.upstream = u /\ v.facade = w.facade
            BY <1>1, <3>1, PreparedUpstream
        <3> HIDE DEF v
        <3>5. EngineInv(v.engine)
            BY <1>1, <3>4
        <3>6. /\ x \in Worlds /\ Stepped(w.engine, x.engine) /\ x.facade = w.facade
              /\ x.upstream = [u EXCEPT !.at = IF x.engine.vacuumState.running
                                               THEN "timer" ELSE "null"]
            BY <3>3, <3>4, <3>5, StepsOfUpstream
        <3>7. Ran(w.upstream, x.engine, x.upstream, who)
            BY <2>4, <3>1, <3>2, <3>6 DEF Ran, Scheduler
        <3> QED
            BY <1>4, <3>6, <3>7, JsRuns
    <2> QED
        BY <2>2, <2>3, <2>4
<1> QED
    BY <1>3, <1>4

----------------------------------------------------------------------------
(* The actions.                                                            *)

\* What the invariant says of the variables that a world does not hold.
LEMMA Inside ==
    ASSUME IInv
    PROVE  /\ World.engine = inner /\ World.facade = facade /\ World.upstream = upstream
           /\ World \in Worlds /\ EngineInv(inner) /\ inner \in Engines
           /\ SchedulerInv(facade) /\ SchedulerInv(upstream)
           /\ facade \in Scheduler /\ upstream \in Scheduler
BY DEF IInv, WorldInv, World, SchedulerInv, EngineInv

\* A step into a world that comes after, in which the callers in who ask for
\* the dead documents of now.
LEMMA Becoming ==
    ASSUME IInv, NEW who \in SUBSET Calls, \A c \in who : promises[c] = "none",
           NEW x, After(host, World, x, who),
           inner' = x.engine, facade' = x.facade, upstream' = x.upstream,
           host' = host, fresh' = fresh,
           promises' = [c \in Calls |-> IF c \in who THEN "pending" ELSE promises[c]],
           owed' = [c \in Calls |-> IF c \in who THEN Stale(inner) ELSE owed[c]]
    PROVE  IInv'
<1>1. World.engine = inner /\ World.facade = facade /\ World.upstream = upstream
    BY DEF World
<1>2. WorldInv(host, x) /\ World' = x
    <2>1. x = [engine |-> x.engine, facade |-> x.facade, upstream |-> x.upstream]
        BY DEF After, WorldInv, Worlds
    <2> QED
        BY <2>1 DEF After, World
<1>3. /\ inner'.alive \subseteq inner.alive
      /\ \A d \in Docs : inner'.postings[d] \subseteq inner.postings[d]
    BY <1>1 DEF After
<1>4. /\ fresh \subseteq Docs \ inner.alive /\ owed \in [Calls -> SUBSET Docs]
      /\ \A d \in fresh : inner.postings[d] = {}
      /\ \A c \in Calls : owed[c] \cap (inner.alive \cup fresh) = {}
      /\ promises \in [Calls -> {"none", "pending", "fulfilled"}]
    BY DEF IInv, IdsInv, CallsInv
<1>5. Stale(inner) \cap (inner.alive \cup fresh) = {} /\ Stale(inner) \subseteq Docs
    BY <1>4 DEF Stale
<1>6. IdsInv'
    BY <1>3, <1>4, <1>5 DEF IdsInv
<1>7. /\ promises' \in [Calls -> {"none", "pending", "fulfilled"}]
      /\ {c \in Calls : promises'[c] = "pending"} = {c \in Calls : promises[c] = "pending"} \cup who
    BY <1>4
<1>8. {c \in Calls : promises'[c] = "pending"} =
          (Waiting(facade') \cup Waiting(upstream')) \ {FacadeRun}
    BY <1>1, <1>7 DEF After, IInv, CallsInv
<1>9. ASSUME host # "freed", NEW c \in Calls
      PROVE  /\ Served(host, x, c, owed'[c])
             /\ promises'[c] = "fulfilled" => Clean(inner', owed'[c])
    <2>1. Stale(inner) \in SUBSET (Docs \ World.engine.alive)
        BY <1>1, <1>5
    <2>2. owed[c] \in SUBSET (Docs \ World.engine.alive)
        BY <1>1, <1>4
    <2>3. CASE c \in who
        BY <1>9, <2>1, <2>3 DEF After
    <2>4. CASE c \notin who
        <3>1. Served(host, World, c, owed[c])
            BY <1>9 DEF IInv, CallsInv
        <3>2. promises[c] = "fulfilled" => Clean(inner, owed[c])
            BY <1>9 DEF IInv, CallsInv
        <3>3. Clean(inner, owed[c]) => Clean(inner', owed[c])
            BY <1>1, <2>2 DEF After, Keeps, Clean
        <3> QED
            BY <1>9, <2>2, <2>4, <3>1, <3>2, <3>3 DEF After
    <2> QED
        BY <2>3, <2>4
<1>10. CallsInv'
    BY <1>2, <1>7, <1>8, <1>9 DEF CallsInv
<1> QED
    BY <1>2, <1>6, <1>10 DEF IInv

\* The same of the steps that nobody asks in.
LEMMA BecomingQuiet ==
    ASSUME IInv, NEW x, After(host, World, x, {}),
           inner' = x.engine, facade' = x.facade, upstream' = x.upstream,
           UNCHANGED <<fresh, host, promises, owed>>
    PROVE  IInv'
<1>1. promises = [c \in Calls |-> IF c \in {} THEN "pending" ELSE promises[c]]
    BY DEF IInv, CallsInv
<1>2. owed = [c \in Calls |-> IF c \in {} THEN Stale(inner) ELSE owed[c]]
    BY DEF IInv, IdsInv
<1>3. {} \in SUBSET Calls /\ \A c \in {} : promises[c] = "none"
    OBVIOUS
<1> QED
    BY <1>1, <1>2, <1>3, Becoming

LEMMA InitInv ==
    ASSUME Init
    PROVE  IInv
<1>1. /\ EngineInv(inner) /\ inner \in Engines /\ ~inner.vacuumState.running
      /\ inner.alive = {} /\ \A d \in Docs : inner.postings[d] = {}
    BY NewEngineInv DEF Init, EngineInv, NewEngine, NoVacuum
<1>2. /\ Idle \in Scheduler /\ SchedulerInv(Idle) /\ Waiting(Idle) = {} /\ Idle.at = "none"
      /\ Idle.current = {} /\ Idle.next = {}
    BY DEF Idle, Scheduler, SchedulerInv, Waiting
<1>3. WorldInv(host, World)
    BY <1>1, <1>2 DEF Init, World, Worlds, WorldInv
<1>4. IdsInv
    BY <1>1 DEF Init, IdsInv
<1>5. CallsInv
    BY <1>2 DEF Init, CallsInv, Served, Answers, World
<1> QED
    BY <1>3, <1>4, <1>5 DEF Init, IInv

LEMMA VacuumInv ==
    ASSUME IInv, NEW call \in Calls, Vacuum(call)
    PROVE  IInv'
<1>1. PICK x \in Request(World, "none", {call}) :
         inner' = x.engine /\ facade' = x.facade /\ upstream' = x.upstream
    BY DEF Vacuum, Become
<1>2. /\ promises[call] = "none" /\ host \in {"wasm", "js"} /\ host' = host /\ fresh' = fresh
      /\ promises' = [c \in Calls |-> IF c \in {call} THEN "pending" ELSE promises[c]]
      /\ owed' = [c \in Calls |-> IF c \in {call} THEN Stale(inner) ELSE owed[c]]
    BY DEF Vacuum, IInv, IdsInv, CallsInv
<1>3. {call} \cap (Waiting(World.facade) \cup Waiting(World.upstream)) = {}
    <2>1. call # FacadeRun
        BY CallsAssumption
    <2> QED
        BY <1>2, <2>1, Inside DEF IInv, CallsInv
<1>4. After(host, World, x, {call})
    <2>1. WorldInv(host, World) /\ {call} \in SUBSET Calls
        BY DEF IInv
    <2> QED
        BY <1>2, <1>3, <2>1, RequestAfter
<1> QED
    BY <1>1, <1>2, <1>4, Becoming

LEMMA AddInv ==
    ASSUME IInv, NEW d \in NextId, Add(d)
    PROVE  IInv'
<1>1. /\ d \in fresh /\ d \in Docs /\ fresh' = fresh \ {d} /\ inner' = Added(inner, d)
      /\ host # "freed" /\ UNCHANGED <<host, facade, upstream, promises, owed>>
    BY DEF Add, NextId, IInv, IdsInv
<1>2. /\ EngineInv(inner') /\ inner'.alive = inner.alive \cup {d}
      /\ inner'.vacuumState = inner.vacuumState
      /\ \A y \in Docs \ {d} : inner'.postings[y] = inner.postings[y]
    BY <1>1, Inside, Adds
<1>3. \A docs \in SUBSET (Docs \ {d}) : Keeps(inner, inner', docs)
    BY <1>1, Inside, Adds
<1>4. World'.engine = inner' /\ World'.facade = facade /\ World'.upstream = upstream
      /\ World' \in Worlds
    BY <1>1, <1>2, Inside DEF World, Worlds, EngineInv
<1>5. WorldInv(host, World')
    BY <1>2, <1>4, Inside DEF IInv, WorldInv
<1>6. IdsInv'
    BY <1>1, <1>2 DEF IInv, IdsInv
<1>7. ASSUME NEW c \in Calls
      PROVE  /\ Served(host, World', c, owed[c])
             /\ promises[c] = "fulfilled" => Clean(inner', owed[c])
    <2>1. owed[c] \in SUBSET (Docs \ {d})
        BY <1>1 DEF IInv, IdsInv
    <2>2. Keeps(inner, inner', owed[c])
        BY <1>3, <2>1
    <2>3. /\ Served(host, World, c, owed[c])
          /\ promises[c] = "fulfilled" => Clean(inner, owed[c])
        BY <1>1 DEF IInv, CallsInv
    <2>4. Served(host, World', c, owed[c])
        BY <1>4, <2>2, <2>3, Inside, EngineServes
    <2> QED
        BY <2>2, <2>3, <2>4 DEF Keeps, Clean
<1>8. CallsInv'
    BY <1>1, <1>4, <1>7 DEF IInv, CallsInv
<1> QED
    BY <1>1, <1>5, <1>6, <1>8 DEF IInv

\* The world in which only the engine has changed, to e.
LEMMA Engined ==
    ASSUME IInv, NEW e \in Engines
    PROVE  /\ [World EXCEPT !.engine = e] \in Worlds
           /\ [World EXCEPT !.engine = e].engine = e
           /\ [World EXCEPT !.engine = e].facade = facade
           /\ [World EXCEPT !.engine = e].upstream = upstream
BY Inside DEF Worlds

\* The world without the documents gone.
LEMMA DiscardAfter ==
    ASSUME IInv, NEW gone \in SUBSET inner.alive,
           NEW w, w = [World EXCEPT !.engine = Discarded(inner, gone, {})]
    PROVE  /\ After(host, World, w, {})
           /\ w.engine = Discarded(inner, gone, {}) /\ w.facade = facade /\ w.upstream = upstream
<1> DEFINE e == Discarded(inner, gone, {})
<1>1. Replaces(inner, e, gone, {})
    BY Inside, Discards
<1> HIDE DEF e
<1>2. /\ EngineInv(e) /\ e \in Engines /\ e.alive \subseteq inner.alive
      /\ e.vacuumState = inner.vacuumState
      /\ \A d \in Docs : e.postings[d] \subseteq inner.postings[d]
      /\ \A docs \in SUBSET (Docs \ inner.alive) : Keeps(inner, e, docs)
    BY <1>1 DEF Replaces, EngineInv
<1>3. w = [World EXCEPT !.engine = e]
    BY DEF e
<1>4. w \in Worlds /\ w.engine = e /\ w.facade = facade /\ w.upstream = upstream
    BY <1>2, <1>3, Engined
<1>5. WorldInv(host, World)
    BY DEF IInv
<1>6. After(host, World, w, {})
    BY <1>2, <1>4, <1>5, Inside, EngineChanges
<1> QED
    BY <1>4, <1>6 DEF e

LEMMA DiscardInv ==
    ASSUME IInv, NEW gone \in SUBSET inner.alive, Discard(gone)
    PROVE  IInv'
<1> DEFINE w == [World EXCEPT !.engine = Discarded(inner, gone, {})]
<1>1. PICK x \in Request(w, "auto", {}) :
         inner' = x.engine /\ facade' = x.facade /\ upstream' = x.upstream
    BY DEF Discard, Become
<1>2. host \in {"wasm", "js"} /\ UNCHANGED <<fresh, host, promises, owed>>
    BY DEF Discard, IInv
<1>3. After(host, World, w, {})
    BY DiscardAfter
<1> HIDE DEF w
<1>4. After(host, w, x, {})
    <2>1. WorldInv(host, w)
        BY <1>3 DEF After
    <2>2. {} \in SUBSET Calls /\ {} \cap (Waiting(w.facade) \cup Waiting(w.upstream)) = {}
        OBVIOUS
    <2> QED
        BY <1>2, <2>1, <2>2, RequestAfter
<1>5. After(host, World, x, {})
    BY <1>3, <1>4, Afterwards
<1> QED
    BY <1>1, <1>2, <1>5, BecomingQuiet

LEMMA DiscardFailingInv ==
    ASSUME IInv, NEW gone \in SUBSET inner.alive, DiscardFailing(gone)
    PROVE  IInv'
<1> DEFINE w == [World EXCEPT !.engine = Discarded(inner, gone, {})]
<1>1. /\ After(host, World, w, {})
      /\ w.engine = Discarded(inner, gone, {}) /\ w.facade = facade /\ w.upstream = upstream
    BY DiscardAfter
<1> HIDE DEF w
<1> QED
    BY <1>1, BecomingQuiet DEF DiscardFailing

\* removeAll drops the run: the caller of one is served by what it left, which
\* is nothing.
LEMMA RemoveAllInv ==
    ASSUME IInv, RemoveAll
    PROVE  IInv'
<1> DEFINE e == Emptied(inner)
           w == [World EXCEPT !.engine = e]
<1>1. /\ EngineInv(e) /\ e.alive = {} /\ ~e.vacuumState.running
      /\ \A d \in Docs : e.postings[d] = {}
      /\ \A docs \in SUBSET Docs : Keeps(inner, e, docs)
    BY Inside, Empties
<1> HIDE DEF e
<1>2. w \in Worlds /\ w.engine = e /\ w.facade = facade /\ w.upstream = upstream
    BY <1>1, Engined DEF EngineInv
<1> HIDE DEF w
<1>3. After(host, World, w, {})
    <2>1. WorldInv(host, World) /\ w.engine.alive \subseteq World.engine.alive
        BY <1>1, <1>2 DEF IInv
    <2>2. \A docs \in SUBSET (Docs \ World.engine.alive) : Keeps(World.engine, w.engine, docs)
        BY <1>1, <1>2, Inside
    <2> QED
        BY <1>1, <1>2, <2>1, <2>2, Inside, EngineChanges
<1>4. inner' = e /\ UNCHANGED <<fresh, host, facade, upstream, promises, owed>>
    BY DEF RemoveAll, e
<1> QED
    BY <1>2, <1>3, <1>4, BecomingQuiet

\* The move to upstream: the run is lost, and the scheduler that waits for a
\* timer starts over there.
LEMMA PromoteInv ==
    ASSUME IInv, Promote
    PROVE  IInv'
<1>1. /\ host = "wasm" /\ host' = "js" /\ inner' = [inner EXCEPT !.vacuumState = NoVacuum]
      /\ UNCHANGED <<fresh, facade, upstream, promises, owed>>
    BY DEF Promote
<1>2. /\ EngineInv(inner') /\ ~inner'.vacuumState.running /\ inner'.alive = inner.alive
      /\ inner'.postings = inner.postings /\ Stale(inner') = Stale(inner)
    BY <1>1, Inside, LosesRun
<1>3. /\ World'.engine = inner' /\ World'.facade = facade /\ World'.upstream = upstream
      /\ World' \in Worlds
    BY <1>1, <1>2, Inside DEF World, Worlds, EngineInv
<1>4. WorldInv("js", World')
    BY <1>1, <1>2, <1>3, Inside DEF IInv, WorldInv
<1>5. IdsInv'
    BY <1>1, <1>2 DEF IInv, IdsInv
<1>6. upstream.at = "none" /\ facade.at # "js" /\ upstream.current = {} /\ upstream.next = {}
    BY <1>1, Inside DEF IInv, WorldInv, SchedulerInv
<1>7. ASSUME NEW c \in Calls
      PROVE  /\ Served("js", World', c, owed[c])
             /\ promises[c] = "fulfilled" => Clean(inner', owed[c])
    <2>1. /\ Served("wasm", World, c, owed[c])
          /\ promises[c] = "fulfilled" => Clean(inner, owed[c])
        BY <1>1 DEF IInv, CallsInv
    <2>2. FacadeDoes("wasm", World, owed[c]) => FacadeDoes("js", World', owed[c])
        BY <1>2, <1>3, <1>6, Inside DEF FacadeDoes, Does, Clean
    <2> QED
        BY <1>2, <1>3, <1>6, <2>1, <2>2, Inside DEF Served, Answers, Clean
<1>8. CallsInv'
    BY <1>1, <1>3, <1>7 DEF IInv, CallsInv
<1> QED
    BY <1>1, <1>4, <1>5, <1>8 DEF IInv

LEMMA FreeInv ==
    ASSUME IInv, Free
    PROVE  IInv'
<1>1. /\ host' = "freed" /\ UNCHANGED <<fresh, facade, upstream, promises, owed>>
      /\ inner' = [inner EXCEPT !.vacuumState = IF host = "wasm" THEN NoVacuum ELSE @]
    BY DEF Free
<1>2. EngineInv(inner') /\ inner'.alive = inner.alive /\ inner'.postings = inner.postings
    <2>1. CASE host = "wasm"
        <3>1. inner' = [inner EXCEPT !.vacuumState = NoVacuum]
            BY <1>1, <2>1
        <3> QED
            BY <3>1, Inside, LosesRun
    <2>2. CASE host # "wasm"
        <3>1. inner' = inner
            BY <1>1, <2>2, Inside DEF Engines
        <3> QED
            BY <3>1, Inside DEF EngineInv, Paid, Stale, Missed
    <2> QED
        BY <2>1, <2>2
<1>3. /\ World'.engine = inner' /\ World'.facade = facade /\ World'.upstream = upstream
      /\ World' \in Worlds
    BY <1>1, <1>2, Inside DEF World, Worlds, EngineInv
<1>4. WorldInv("freed", World')
    BY <1>1, <1>2, <1>3, Inside DEF IInv, WorldInv
<1>5. IdsInv'
    BY <1>1, <1>2 DEF IInv, IdsInv
<1>6. CallsInv'
    BY <1>1 DEF IInv, CallsInv
<1> QED
    BY <1>1, <1>4, <1>5, <1>6 DEF IInv

LEMMA FacadeTimerInv ==
    ASSUME IInv, FacadeTimer
    PROVE  IInv'
<1>1. PICK x \in Run(World) : inner' = x.engine /\ facade' = x.facade /\ upstream' = x.upstream
    BY DEF FacadeTimer, Become
<1>2. facade.at = "timer" /\ UNCHANGED <<fresh, host, promises, owed>>
    BY DEF FacadeTimer
<1>3. After(host, World, x, {})
    <2>1. WorldInv(host, World) /\ host \in {"wasm", "js", "freed"} /\ {} \in SUBSET Calls
        BY DEF IInv
    <2>2. World.facade.current = World.facade.current \cup {}
        OBVIOUS
    <2> QED
        BY <1>2, <2>1, <2>2, Inside, RunAfter
<1> QED
    BY <1>1, <1>2, <1>3, BecomingQuiet

\* Upstream's scheduler goes on, or begins, with conditions taken or not.
LEMMA UpstreamSteps ==
    ASSUME IInv, upstream.at \in {"timer", "queued"},
           NEW u \in Scheduler, u.current = upstream.current, u.next = upstream.next,
           u.enqueued = upstream.enqueued,
           upstream.at = "timer" => u.conditions = upstream.conditions,
           NEW v \in Worlds, v.engine = inner, v.facade = facade, v.upstream = u,
           NEW x \in Steps(v, "upstream")
    PROVE  After(host, World, x, {})
<1>1. EngineInv(v.engine)
    BY Inside
<1>2. /\ x \in Worlds /\ Stepped(inner, x.engine) /\ x.facade = facade
      /\ x.upstream = [u EXCEPT !.at = IF x.engine.vacuumState.running THEN "timer" ELSE "null"]
    BY <1>1, StepsOfUpstream
<1>3. Ran(upstream, x.engine, x.upstream, {})
    BY <1>2 DEF Ran, Scheduler
<1>4. host \in {"js", "freed"} /\ WorldInv(host, World) /\ {} \in SUBSET Calls
    BY Inside DEF IInv, WorldInv
<1> QED
    BY <1>2, <1>3, <1>4, Inside, JsRuns

LEMMA UpstreamTimerInv ==
    ASSUME IInv, UpstreamTimer
    PROVE  IInv'
<1>1. PICK x \in Steps(World, "upstream") :
         inner' = x.engine /\ facade' = x.facade /\ upstream' = x.upstream
    BY DEF UpstreamTimer, Become
<1>2. upstream.at = "timer" /\ UNCHANGED <<fresh, host, promises, owed>>
    BY DEF UpstreamTimer
<1>3. After(host, World, x, {})
    BY <1>1, <1>2, Inside, UpstreamSteps
<1> QED
    BY <1>1, <1>2, <1>3, BecomingQuiet

\* The queued vacuum of the facade: it runs, or has nothing it must do.
LEMMA FacadeQueuedInv ==
    ASSUME IInv, FacadeQueued
    PROVE  IInv'
<1> DEFINE f == [facade EXCEPT !.conditions = "default"]
           v == [World EXCEPT !.facade = f]
<1>1. PICK x \in Perform(v, facade.conditions) :
         inner' = x.engine /\ facade' = x.facade /\ upstream' = x.upstream
    <2>1. v = [World EXCEPT !.facade.conditions = "default"]
        BY DEF World
    <2> QED
        BY <2>1 DEF FacadeQueued, Become
<1>2. facade.at = "queued" /\ UNCHANGED <<fresh, host, promises, owed>>
    BY DEF FacadeQueued
<1>3. /\ f \in Scheduler /\ f.at = facade.at /\ f.next = facade.next
      /\ f.enqueued = facade.enqueued /\ f.current = facade.current \cup {}
    BY Inside DEF Scheduler
<1> HIDE DEF f
<1>4. v \in Worlds /\ v.engine = inner /\ v.facade = f /\ v.upstream = upstream
    BY <1>3, Inside, PreparedFacade
<1> HIDE DEF v
<1>5. WorldInv(host, World) /\ host \in {"wasm", "js", "freed"} /\ {} \in SUBSET Calls
    BY DEF IInv
<1>6. After(host, World, x, {})
    <2>1. CASE host = "freed" \/ ~Met(inner, facade.conditions)
        <3>1. x = [v EXCEPT !.facade.at = "null"]
            BY <1>1, <1>4, <2>1 DEF Perform
        <3>2. /\ x \in Worlds /\ x.engine = inner /\ x.upstream = upstream
              /\ Skipped(facade, x.facade)
            BY <1>2, <1>3, <1>4, <3>1 DEF Worlds, Scheduler, Skipped
        <3>3. host = "freed" \/ facade.conditions # "none"
            BY <2>1 DEF Met
        <3> QED
            BY <1>2, <1>5, <3>2, <3>3, Inside, FacadeSkips
    <2>2. CASE ~(host = "freed" \/ ~Met(inner, facade.conditions))
        <3>1. x \in Run(v)
            BY <1>1, <1>4, <2>2 DEF Perform
        <3> QED
            BY <1>2, <1>3, <1>4, <1>5, <3>1, Inside, RunAfter
    <2> QED
        BY <2>1, <2>2
<1> QED
    BY <1>1, <1>2, <1>6, BecomingQuiet

LEMMA UpstreamQueuedInv ==
    ASSUME IInv, UpstreamQueued
    PROVE  IInv'
<1> DEFINE u == [upstream EXCEPT !.conditions = "default"]
           v == [World EXCEPT !.upstream = u]
<1>1. PICK x \in (IF Met(inner, upstream.conditions) THEN Steps(v, "upstream")
                  ELSE {[v EXCEPT !.upstream.at = "null"]}) :
         inner' = x.engine /\ facade' = x.facade /\ upstream' = x.upstream
    <2>1. v = [World EXCEPT !.upstream.conditions = "default"]
        BY DEF World
    <2> QED
        BY <2>1 DEF UpstreamQueued, Become
<1>2. upstream.at = "queued" /\ UNCHANGED <<fresh, host, promises, owed>>
    BY DEF UpstreamQueued
<1>3. /\ u \in Scheduler /\ u.current = upstream.current /\ u.next = upstream.next
      /\ u.enqueued = upstream.enqueued
    BY Inside DEF Scheduler
<1> HIDE DEF u
<1>4. v \in Worlds /\ v.engine = inner /\ v.facade = facade /\ v.upstream = u
    BY <1>3, Inside, PreparedUpstream
<1> HIDE DEF v
<1>5. After(host, World, x, {})
    <2>1. CASE Met(inner, upstream.conditions)
        <3>1. x \in Steps(v, "upstream")
            BY <1>1, <2>1
        <3> QED
            BY <1>2, <1>3, <1>4, <3>1, UpstreamSteps
    <2>2. CASE ~Met(inner, upstream.conditions)
        <3>1. x = [v EXCEPT !.upstream.at = "null"]
            BY <1>1, <2>2
        <3>2. /\ x \in Worlds /\ x.engine = inner /\ x.facade = facade
              /\ Skipped(upstream, x.upstream)
            BY <1>2, <1>3, <1>4, <3>1 DEF Worlds, Scheduler, Skipped
        <3>3. upstream.conditions # "none" /\ WorldInv(host, World)
            BY <2>2 DEF Met, IInv
        <3> QED
            BY <1>2, <3>2, <3>3, Inside, UpstreamSkips
    <2> QED
        BY <2>1, <2>2
<1> QED
    BY <1>1, <1>2, <1>5, BecomingQuiet

\* The end of a vacuum: its callers have what it did, and those of the queued
\* one, which is current from now, what it did or will do.
LEMMA EndedAnswers ==
    ASSUME NEW s, SchedulerInv(s), s.at = "null", NEW t, t = Ended(s)
    PROVE  /\ SchedulerInv(t) /\ t \in Scheduler /\ t.at \in {"none", "queued"}
           /\ Waiting(t) = s.next
           /\ \A e, docs, c : Answers(s, c, Does(e, s, docs)) =>
                  /\ Answers(t, c, Does(e, t, docs))
                  /\ c \in s.current => Clean(e, docs)
<1>1. /\ t \in Scheduler /\ t.at = IF s.enqueued THEN "queued" ELSE "none"
      /\ t.current = s.next /\ t.next = {} /\ ~t.enqueued /\ t.conditions = s.conditions
    BY DEF SchedulerInv, Scheduler, Ended
<1>2. SchedulerInv(t)
    BY <1>1 DEF SchedulerInv
<1>3. ASSUME NEW e, NEW docs, NEW c, Answers(s, c, Does(e, s, docs))
      PROVE  /\ Answers(t, c, Does(e, t, docs))
             /\ c \in s.current => Clean(e, docs)
    <2>1. Does(e, s, docs) => Clean(e, docs) /\ Does(e, t, docs)
        BY <1>1 DEF Does
    <2> QED
        BY <1>1, <1>3, <2>1 DEF Answers, SchedulerInv
<1> QED
    BY <1>1, <1>2, <1>3 DEF Waiting

\* The calls that a vacuum which ends answers are those that are pending no more.
LEMMA Fulfils ==
    ASSUME IInv, NEW s \in {facade, upstream}, s.at = "null", Fulfil(s.current)
    PROVE  /\ promises' \in [Calls -> {"none", "pending", "fulfilled"}]
           /\ {c \in Calls : promises'[c] = "pending"} =
                  {c \in Calls : promises[c] = "pending"} \ s.current
           /\ \A c \in Calls : promises'[c] = "fulfilled" =>
                  c \in s.current \/ promises[c] = "fulfilled"
BY DEF IInv, CallsInv, Fulfil

LEMMA FacadeEndsInv ==
    ASSUME IInv, FacadeEnds
    PROVE  IInv'
<1>1. /\ facade.at = "null" /\ facade' = Ended(facade) /\ Fulfil(facade.current)
      /\ UNCHANGED <<inner, fresh, host, upstream, owed>>
    BY DEF FacadeEnds
<1>2. /\ SchedulerInv(facade') /\ facade' \in Scheduler /\ facade'.at \in {"none", "queued"}
      /\ Waiting(facade') = facade.next
      /\ \A e, docs, c : Answers(facade, c, Does(e, facade, docs)) =>
             /\ Answers(facade', c, Does(e, facade', docs))
             /\ c \in facade.current => Clean(e, docs)
    BY <1>1, Inside, EndedAnswers
<1>3. /\ World'.engine = inner /\ World'.facade = facade' /\ World'.upstream = upstream
      /\ World' \in Worlds
    BY <1>1, <1>2, Inside DEF World, Worlds
<1>4. WorldInv(host, World')
    BY <1>1, <1>2, <1>3, Inside DEF IInv, WorldInv, Waiting
<1>5. IdsInv'
    BY <1>1 DEF IInv, IdsInv
<1>6. /\ promises' \in [Calls -> {"none", "pending", "fulfilled"}]
      /\ {c \in Calls : promises'[c] = "pending"} =
             {c \in Calls : promises[c] = "pending"} \ facade.current
      /\ \A c \in Calls : promises'[c] = "fulfilled" =>
             c \in facade.current \/ promises[c] = "fulfilled"
    BY <1>1, Fulfils
<1>7. {c \in Calls : promises'[c] = "pending"} =
          (Waiting(facade') \cup Waiting(upstream)) \ {FacadeRun}
    <2>1. /\ {c \in Calls : promises[c] = "pending"} =
                 (Waiting(facade) \cup Waiting(upstream)) \ {FacadeRun}
          /\ Waiting(facade) \cap Waiting(upstream) = {}
          /\ facade.current \cap facade.next = {}
        BY Inside DEF IInv, CallsInv, WorldInv, SchedulerInv
    <2> QED
        BY <1>2, <1>6, <2>1 DEF Waiting
<1>8. ASSUME host # "freed", NEW c \in Calls
      PROVE  /\ Served(host, World', c, owed[c])
             /\ promises'[c] = "fulfilled" => Clean(inner, owed[c])
    <2>1. /\ Answers(facade, c, FacadeDoes(host, World, owed[c]))
          /\ Answers(upstream, c, UpstreamDoes(World, owed[c]))
          /\ promises[c] = "fulfilled" => Clean(inner, owed[c])
        BY <1>8, Inside DEF IInv, CallsInv, Served
    <2>2. FacadeDoes(host, World, owed[c]) => Does(inner, facade, owed[c])
        BY <1>1, Inside DEF FacadeDoes
    <2>3. Answers(facade, c, Does(inner, facade, owed[c]))
        BY <2>1, <2>2 DEF Answers
    <2>4. /\ Answers(facade', c, Does(inner, facade', owed[c]))
          /\ c \in facade.current => Clean(inner, owed[c])
        BY <1>2, <2>3
    <2>5. Does(inner, facade', owed[c]) => FacadeDoes(host, World', owed[c])
        BY <1>2, <1>3 DEF FacadeDoes
    <2>6. Answers(facade', c, FacadeDoes(host, World', owed[c]))
        BY <2>4, <2>5 DEF Answers
    <2>7. UpstreamDoes(World, owed[c]) => UpstreamDoes(World', owed[c])
        BY <1>3, Inside DEF UpstreamDoes
    <2> QED
        BY <1>3, <1>6, <2>1, <2>4, <2>6, <2>7 DEF Served, Answers
<1>9. CallsInv'
    BY <1>1, <1>6, <1>7, <1>8 DEF CallsInv
<1> QED
    BY <1>1, <1>4, <1>5, <1>9 DEF IInv

\* When upstream's vacuum ends that the facade's run waited for, so does the run.
LEMMA UpstreamEndsInv ==
    ASSUME IInv, UpstreamEnds
    PROVE  IInv'
<1>1. /\ upstream.at = "null" /\ upstream' = Ended(upstream) /\ Fulfil(upstream.current)
      /\ facade' = IF FacadeRun \in upstream.current THEN [facade EXCEPT !.at = "null"] ELSE facade
      /\ UNCHANGED <<inner, fresh, host, owed>>
    BY DEF UpstreamEnds
<1>2. /\ SchedulerInv(upstream') /\ upstream' \in Scheduler /\ upstream'.at \in {"none", "queued"}
      /\ Waiting(upstream') = upstream.next
      /\ \A e, docs, c : Answers(upstream, c, Does(e, upstream, docs)) =>
             /\ Answers(upstream', c, Does(e, upstream', docs))
             /\ c \in upstream.current => Clean(e, docs)
    BY <1>1, Inside, EndedAnswers
<1>3. /\ SchedulerInv(facade') /\ facade' \in Scheduler
      /\ facade'.current = facade.current /\ facade'.next = facade.next
      /\ facade'.conditions = facade.conditions
      /\ facade'.at = IF FacadeRun \in upstream.current THEN "null" ELSE facade.at
    BY <1>1, Inside DEF SchedulerInv, Scheduler
<1>4. /\ World'.engine = inner /\ World'.facade = facade' /\ World'.upstream = upstream'
      /\ World' \in Worlds
    BY <1>1, <1>2, <1>3, Inside DEF World, Worlds
<1>5. /\ Waiting(facade) \cap Waiting(upstream) = {} /\ upstream.current \cap upstream.next = {}
      /\ FacadeRun \notin Waiting(facade)
      /\ FacadeRun \in Waiting(upstream) <=> facade.at = "js"
      /\ host # "wasm"
    BY <1>1, Inside DEF IInv, WorldInv, SchedulerInv
<1>6. WorldInv(host, World')
    BY <1>1, <1>2, <1>3, <1>4, <1>5, Inside DEF IInv, WorldInv, Waiting
<1>7. IdsInv'
    BY <1>1 DEF IInv, IdsInv
<1>8. /\ promises' \in [Calls -> {"none", "pending", "fulfilled"}]
      /\ {c \in Calls : promises'[c] = "pending"} =
             {c \in Calls : promises[c] = "pending"} \ upstream.current
      /\ \A c \in Calls : promises'[c] = "fulfilled" =>
             c \in upstream.current \/ promises[c] = "fulfilled"
    BY <1>1, Fulfils
<1>9. {c \in Calls : promises'[c] = "pending"} =
          (Waiting(facade') \cup Waiting(upstream')) \ {FacadeRun}
    <2>1. {c \in Calls : promises[c] = "pending"} =
              (Waiting(facade) \cup Waiting(upstream)) \ {FacadeRun}
        BY DEF IInv, CallsInv
    <2> QED
        BY <1>2, <1>3, <1>5, <1>8, <2>1 DEF Waiting
<1>10. ASSUME host # "freed", NEW c \in Calls
       PROVE  /\ Served(host, World', c, owed[c])
              /\ promises'[c] = "fulfilled" => Clean(inner, owed[c])
    <2>1. /\ Answers(facade, c, FacadeDoes(host, World, owed[c]))
          /\ Answers(upstream, c, Does(inner, upstream, owed[c]))
          /\ promises[c] = "fulfilled" => Clean(inner, owed[c])
        BY <1>10, Inside DEF IInv, CallsInv, Served, UpstreamDoes
    <2>2. /\ Answers(upstream', c, Does(inner, upstream', owed[c]))
          /\ c \in upstream.current => Clean(inner, owed[c])
        BY <1>2, <2>1
    <2>3. FacadeDoes(host, World, owed[c]) => FacadeDoes(host, World', owed[c])
        <3>1. CASE facade.at # "js"
            <4>1. facade'.at = facade.at
                BY <1>3, <1>5, <3>1 DEF Waiting
            <4> QED
                BY <1>4, <3>1, <4>1, Inside DEF FacadeDoes, Does
        <3>2. CASE facade.at = "js"
            <4>1. ASSUME FacadeDoes(host, World, owed[c])
                  PROVE  Answers(upstream, FacadeRun, Does(inner, upstream, owed[c]))
                BY <3>2, <4>1, Inside DEF FacadeDoes, UpstreamDoes
            <4>2. ASSUME FacadeDoes(host, World, owed[c])
                  PROVE  /\ Answers(upstream', FacadeRun, Does(inner, upstream', owed[c]))
                         /\ FacadeRun \in upstream.current => Clean(inner, owed[c])
                BY <1>2, <4>1, <4>2
            <4> QED
                BY <1>3, <1>4, <3>2, <4>2 DEF FacadeDoes, UpstreamDoes, Does
        <3> QED
            BY <3>1, <3>2
    <2>4. Answers(facade', c, FacadeDoes(host, World', owed[c]))
        <3>1. facade.at = "queued" => facade'.at = "queued"
            BY <1>3, <1>5 DEF Waiting
        <3> QED
            BY <1>3, <2>1, <2>3, <3>1 DEF Answers
    <2> QED
        BY <1>4, <1>8, <2>1, <2>2, <2>4 DEF Served, UpstreamDoes
<1>11. CallsInv'
    BY <1>1, <1>8, <1>9, <1>10 DEF CallsInv
<1> QED
    BY <1>1, <1>6, <1>7, <1>11 DEF IInv

----------------------------------------------------------------------------
(* The theorems.                                                           *)

LEMMA NextInv ==
    ASSUME IInv, [Next]_vars
    PROVE  IInv'
<1>1. ASSUME NEW call \in Calls, Vacuum(call) PROVE IInv'
    BY <1>1, VacuumInv
<1>2. ASSUME NEW d \in NextId, Add(d) PROVE IInv'
    BY <1>2, AddInv
<1>3. ASSUME NEW gone \in SUBSET inner.alive, Discard(gone) PROVE IInv'
    BY <1>3, DiscardInv
<1>4. ASSUME NEW gone \in SUBSET inner.alive, DiscardFailing(gone) PROVE IInv'
    BY <1>4, DiscardFailingInv
<1>5. CASE RemoveAll
    BY <1>5, RemoveAllInv
<1>6. CASE Promote
    BY <1>6, PromoteInv
<1>7. CASE Free
    BY <1>7, FreeInv
<1>8. CASE FacadeTimer
    BY <1>8, FacadeTimerInv
<1>9. CASE UpstreamTimer
    BY <1>9, UpstreamTimerInv
<1>10. CASE FacadeEnds
    BY <1>10, FacadeEndsInv
<1>11. CASE UpstreamEnds
    BY <1>11, UpstreamEndsInv
<1>12. CASE FacadeQueued
    BY <1>12, FacadeQueuedInv
<1>13. CASE UpstreamQueued
    BY <1>13, UpstreamQueuedInv
<1>14. CASE UNCHANGED vars
    <2>1. /\ World' = World /\ UNCHANGED <<inner, fresh, host, promises, owed>>
          /\ UNCHANGED <<facade, upstream>>
        BY <1>14 DEF vars, World
    <2> QED
        BY <2>1 DEF IInv, IdsInv, CallsInv
<1> QED
    BY <1>1, <1>2, <1>3, <1>4, <1>5, <1>6, <1>7, <1>8, <1>9, <1>10, <1>11, <1>12, <1>13, <1>14
    DEF Next

\* The inductive invariant holds of every reachable state.
THEOREM Invariance == Spec => []IInv
<1>1. IInv /\ [Next]_vars => IInv'
    BY NextInv
<1> QED
    BY InitInv, <1>1, PTL DEF Spec

\* Types, and who waits for whom: a queued promise has a current one before it,
\* every pending call holds one of the promises of the two schedulers, and the
\* facade's run waits for exactly one promise of upstream's.
THEOREM TypeCorrect == Spec => []TypeOK
<1>1. ASSUME IInv PROVE TypeOK
    <2>1. /\ {c \in Calls : promises[c] = "pending"} =
                 (Waiting(facade) \cup Waiting(upstream)) \ {FacadeRun}
          /\ FacadeRun \in Waiting(facade) \cup Waiting(upstream) <=> facade.at = "js"
        BY <1>1, Inside DEF IInv, CallsInv, WorldInv
    <2>2. {c \in Calls : promises[c] = "pending"} \cup {r \in {FacadeRun} : facade.at = "js"} =
              facade.current \cup facade.next \cup upstream.current \cup upstream.next
        BY <2>1 DEF Waiting
    <2> QED
        BY <1>1, <2>2, Inside DEF IInv, TypeOK, SchedulerInv
<1> QED
    BY <1>1, Invariance, PTL

\* Whenever no vacuum is pending, the native engine has finished its run:
\* compact(), which a run in progress would make fail, may begin.
THEOREM NoOrphans == Spec => []NoOrphanRun
<1>1. IInv => NoOrphanRun
    BY DEF IInv, WorldInv, World, NoOrphanRun
<1> QED
    BY <1>1, Invariance, PTL

\* A vacuum() promise that fulfils has cleaned every document that was dead at
\* the call, across the move to upstream and through both queues.
THEOREM PromisesCorrect == Spec => []FulfilledMeansCleaned
<1>1. IInv => FulfilledMeansCleaned
    BY DEF IInv, CallsInv, Clean, FulfilledMeansCleaned
<1> QED
    BY <1>1, Invariance, PTL
----------------------------------------------------------------------------
(* Requests that no call waits for.                                        *)

\* The scheduler s has a run of e ahead of it that takes docs: the current one,
\* or one that is queued under a condition that holds while requests count.
Attends(s, e, docs) ==
    \/ s.at = "timer" /\ Covers(e, docs)
    \/ (s.at = "queued" \/ s.enqueued) /\ s.conditions # "default"

\* docs are clean, or a scheduler will see to them; the facade's, where the
\* index has moved, when its timer starts the vacuum over at upstream's.
Due(h, w, docs) ==
    \/ Clean(w.engine, docs)
    \/ Attends(w.facade, w.engine, docs)
    \/ h = "js" /\ (w.facade.at = "timer" \/ Attends(w.upstream, w.engine, docs))

AskedInv ==
    /\ asked \subseteq Stale(inner)
    /\ asked # {} => host # "freed" /\ AutoVacuumRequest(inner) /\ Due(host, World, asked)

\* Fewer documents are due too.
LEMMA DueLess ==
    ASSUME NEW h, NEW w, NEW docs, Due(h, w, docs), NEW some \in SUBSET docs
    PROVE  Due(h, w, some)
BY DEF Due, Attends, Clean, Covers

\* What is left of the requests, once they and the new ones are due.
LEMMA AskedAfter ==
    ASSUME NEW requested, StillAsked(requested), NEW h, NEW x,
           host' = h, World' = x,
           h # "freed" /\ AutoVacuumRequest(inner') => Due(h, x, asked \cup requested)
    PROVE  AskedInv'
<1>1. /\ asked' \subseteq Stale(inner') /\ asked' \in SUBSET (asked \cup requested)
      /\ asked' # {} => host' # "freed" /\ AutoVacuumRequest(inner')
    BY DEF StillAsked
<1>2. ASSUME asked' # {} PROVE Due(h, x, asked')
    <2>1. Due(h, x, asked \cup requested)
        BY <1>1, <1>2
    <2> QED
        BY <1>1, <2>1, DueLess
<1> QED
    BY <1>1, <1>2 DEF AskedInv

\* The dead documents asked for, and what is due of them.
LEMMA AskedDead ==
    ASSUME IInv, AskedInv
    PROVE  /\ asked \in SUBSET (Docs \ (inner.alive \cup fresh))
           /\ Due(host, World, asked)
<1>1. \A d \in fresh : inner.postings[d] = {}
    BY DEF IInv, IdsInv
<1>2. asked \in SUBSET (Docs \ (inner.alive \cup fresh))
    BY <1>1 DEF AskedInv, Stale
<1>3. asked = {} => Due(host, World, asked)
    BY DEF Due, Clean
<1> QED
    BY <1>2, <1>3 DEF AskedInv

\* A change of the engine alone, that undoes nothing, leaves due what was.
LEMMA DueKept ==
    ASSUME NEW h, NEW w, NEW x, x.facade = w.facade, x.upstream = w.upstream,
           NEW docs, Keeps(w.engine, x.engine, docs), Due(h, w, docs)
    PROVE  Due(h, x, docs)
BY DEF Due, Attends, Keeps, Clean

\* A run that goes on takes what it took, one that begins takes everything.
LEMMA RanAttends ==
    ASSUME NEW s, SchedulerInv(s), NEW e, EngineInv(e),
           e.vacuumState.running => s.at = "timer",
           NEW f, Stepped(e, f), NEW t, NEW who, Ran(s, f, t, who),
           NEW docs \in SUBSET (Docs \ e.alive),
           ~e.vacuumState.running \/ Clean(e, docs) \/ Attends(s, e, docs)
    PROVE  Clean(f, docs) \/ Attends(t, f, docs)
<1>1. /\ EngineInv(f) /\ docs \in SUBSET (Docs \ f.alive)
      /\ Covers(e, docs) => Covers(f, docs)
      /\ Clean(e, docs) => Clean(f, docs)
      /\ ~e.vacuumState.running => Covers(f, docs)
    BY DEF Stepped, Keeps, Clean
<1>2. Covers(f, docs) => Clean(f, docs) \/ Attends(t, f, docs)
    <2>1. CASE f.vacuumState.running
        BY <2>1 DEF Attends, Ran
    <2>2. CASE ~f.vacuumState.running
        BY <1>1, <2>2, CleanOrCovered
    <2> QED
        BY <2>1, <2>2
<1>3. CASE ~e.vacuumState.running
    BY <1>1, <1>2, <1>3
<1>4. CASE e.vacuumState.running
    <2>1. s.at = "timer" /\ t.enqueued = s.enqueued /\ t.conditions = s.conditions
        BY <1>4 DEF Ran
    <2>2. CASE s.enqueued /\ s.conditions # "default"
        BY <2>1, <2>2 DEF Attends
    <2>3. CASE Covers(e, docs) \/ Clean(e, docs)
        BY <1>1, <1>2, <2>3
    <2> QED
        BY <1>4, <2>1, <2>2, <2>3 DEF Attends
<1> QED
    BY <1>3, <1>4

\* Whoever joins the queue of a current vacuum has a run ahead, whatever is dead.
LEMMA EnqueueAttends ==
    ASSUME NEW s \in Scheduler, NEW conditions \in {"none", "auto"},
           NEW who, NEW e, NEW docs
    PROVE  Attends(Enqueue(s, conditions, who), e, docs)
<1> DEFINE t == Enqueue(s, conditions, who)
<1>1. t.enqueued /\ t.conditions = Joined(s.conditions, conditions)
    BY DEF Enqueue, Scheduler
<1>2. Joined(s.conditions, conditions) # "default"
    BY DEF Joined
<1> HIDE DEF t
<1>3. Attends(t, e, docs)
    BY <1>1, <1>2 DEF Attends
<1> QED
    BY <1>3 DEF t

\* Upstream's conditionalVacuum, when its condition is met, has a run ahead for
\* whatever is dead.
LEMMA UpstreamRequestDue ==
    ASSUME NEW w \in Worlds, EngineInv(w.engine), SchedulerInv(w.upstream),
           w.engine.vacuumState.running => w.upstream.at = "timer",
           NEW conditions \in {"none", "auto"}, Met(w.engine, conditions),
           NEW who \in SUBSET (Calls \cup {FacadeRun}),
           NEW x \in UpstreamRequest(w, conditions, who),
           NEW docs \in SUBSET (Docs \ w.engine.alive)
    PROVE  Clean(x.engine, docs) \/ Attends(x.upstream, x.engine, docs)
<1>1. w.upstream \in Scheduler
    BY DEF Worlds
<1>2. CASE w.upstream.at # "none"
    <2> DEFINE u == Enqueue(w.upstream, conditions, who)
    <2>1. x = [w EXCEPT !.upstream = u]
        BY <1>2 DEF UpstreamRequest
    <2>2. Attends(u, x.engine, docs)
        BY <1>1, EnqueueAttends
    <2> HIDE DEF u
    <2>3. x.upstream = u
        BY <2>1 DEF Worlds
    <2> QED
        BY <2>2, <2>3
<1>3. CASE w.upstream.at = "none"
    <2> DEFINE u == [w.upstream EXCEPT !.current = who]
               v == [w EXCEPT !.upstream = u]
    <2>1. u \in Scheduler
        BY <1>1 DEF Scheduler
    <2>2. /\ u.next = w.upstream.next /\ u.enqueued = w.upstream.enqueued
          /\ u.current = w.upstream.current \cup who
        BY <1>1, <1>3 DEF Scheduler, SchedulerInv
    <2>3. x \in Steps(v, "upstream")
        <3>1. x \in Steps([w EXCEPT !.upstream.current = who], "upstream")
            BY <1>3 DEF UpstreamRequest
        <3>2. [w EXCEPT !.upstream.current = who] = v
            OBVIOUS
        <3> QED
            BY <3>1, <3>2
    <2> HIDE DEF u
    <2>4. v \in Worlds /\ v.engine = w.engine /\ v.upstream = u
        BY <2>1, PreparedUpstream
    <2> HIDE DEF v
    <2>5. EngineInv(v.engine)
        BY <2>4
    <2>6. /\ x \in Worlds /\ Stepped(w.engine, x.engine)
          /\ x.upstream = [u EXCEPT !.at = IF x.engine.vacuumState.running
                                           THEN "timer" ELSE "null"]
        BY <2>3, <2>4, <2>5, StepsOfUpstream
    <2>7. Ran(w.upstream, x.engine, x.upstream, who)
        BY <1>3, <2>1, <2>2, <2>6 DEF Ran, Scheduler
    <2>8. ~w.engine.vacuumState.running
        BY <1>3
    <2> QED
        BY <2>6, <2>7, <2>8, RanAttends
<1> QED
    BY <1>2, <1>3

\* _performVacuum goes on: with the run it had, or with one for all that is dead.
LEMMA RunDue ==
    ASSUME NEW w, WorldInv(host, w), host \in {"wasm", "js"},
           NEW who, NEW v \in Worlds,
           v.engine = w.engine, v.upstream = w.upstream,
           v.facade.at = w.facade.at, v.facade.next = w.facade.next,
           v.facade.enqueued = w.facade.enqueued,
           v.facade.current = w.facade.current \cup who,
           w.facade.at = "timer" => v.facade.conditions = w.facade.conditions,
           w.facade.at \in {"none", "timer", "queued"},
           w.facade.at # "none" => who = {},
           NEW docs \in SUBSET (Docs \ w.engine.alive),
           w.facade.at = "timer" => Due(host, w, docs),
           NEW x \in Run(v)
    PROVE  Due(host, x, docs)
<1>1. /\ EngineInv(w.engine) /\ SchedulerInv(w.facade) /\ SchedulerInv(w.upstream)
      /\ v.facade \in Scheduler /\ v.upstream \in Scheduler
    BY DEF WorldInv, Worlds
<1>2. CASE host = "wasm"
    <2>1. x \in Steps(v, "facade")
        BY <1>2 DEF Run
    <2>2. /\ x \in Worlds /\ Stepped(w.engine, x.engine)
          /\ x.facade = [v.facade EXCEPT !.at = IF x.engine.vacuumState.running
                                                THEN "timer" ELSE "null"]
        BY <1>1, <2>1, StepsOfFacade
    <2>3. Ran(w.facade, x.engine, x.facade, who)
        BY <1>1, <2>2 DEF Ran, Scheduler
    <2>4. w.engine.vacuumState.running => w.facade.at = "timer"
        BY <1>2 DEF WorldInv
    <2>5. ~w.engine.vacuumState.running \/ Clean(w.engine, docs) \/ Attends(w.facade, w.engine, docs)
        BY <1>2, <2>4 DEF Due
    <2>6. Clean(x.engine, docs) \/ Attends(x.facade, x.engine, docs)
        BY <1>1, <2>2, <2>3, <2>4, <2>5, RanAttends
    <2> QED
        BY <2>6 DEF Due
<1>3. CASE host = "js"
    <2>1. PICK y \in UpstreamRequest(v, "none", {FacadeRun}) : x = [y EXCEPT !.facade.at = "js"]
        BY <1>3 DEF Run
    <2>2. v.engine.vacuumState.running => v.upstream.at = "timer"
        BY <1>3 DEF WorldInv
    <2>3. Met(v.engine, "none") /\ docs \in SUBSET (Docs \ v.engine.alive)
          /\ EngineInv(v.engine) /\ SchedulerInv(v.upstream)
        BY <1>1 DEF Met
    <2>4. Clean(y.engine, docs) \/ Attends(y.upstream, y.engine, docs)
        BY <2>1, <2>2, <2>3, UpstreamRequestDue
    <2>5. x.engine = y.engine /\ x.upstream = y.upstream
        <3>1. y \in Worlds
            <4>1. CASE v.upstream.at # "none"
                <5>1. y = [v EXCEPT !.upstream = Enqueue(v.upstream, "none", {FacadeRun})]
                    BY <4>1 DEF UpstreamRequest
                <5>2. Enqueue(v.upstream, "none", {FacadeRun}) \in Scheduler
                    BY <1>1 DEF Enqueue, Joined, Scheduler
                <5> QED
                    BY <5>1, <5>2, PreparedUpstream
            <4>2. CASE v.upstream.at = "none"
                <5> DEFINE u == [v.upstream EXCEPT !.current = {FacadeRun}]
                           z == [v EXCEPT !.upstream = u]
                <5>1. y \in Steps(z, "upstream")
                    <6>1. y \in Steps([v EXCEPT !.upstream.current = {FacadeRun}], "upstream")
                        BY <2>3, <4>2 DEF UpstreamRequest
                    <6>2. [v EXCEPT !.upstream.current = {FacadeRun}] = z
                        OBVIOUS
                    <6> QED
                        BY <6>1, <6>2
                <5>2. u \in Scheduler
                    BY <1>1 DEF Scheduler
                <5> HIDE DEF u
                <5>3. z \in Worlds /\ z.engine = v.engine
                    BY <5>2, PreparedUpstream
                <5> HIDE DEF z
                <5>4. EngineInv(z.engine)
                    BY <2>3, <5>3
                <5> QED
                    BY <5>1, <5>3, <5>4, StepsOfUpstream
            <4> QED
                BY <4>1, <4>2
        <3> QED
            BY <2>1, <3>1 DEF Worlds
    <2> QED
        BY <1>3, <2>4, <2>5 DEF Due
<1> QED
    BY <1>2, <1>3

\* A request whose condition is met has a run ahead for whatever is dead.
LEMMA RequestDue ==
    ASSUME NEW w, WorldInv(host, w), host \in {"wasm", "js"},
           NEW conditions \in {"none", "auto"}, Met(w.engine, conditions),
           NEW who \in SUBSET Calls, NEW x \in Request(w, conditions, who),
           NEW docs \in SUBSET (Docs \ w.engine.alive)
    PROVE  Due(host, x, docs)
<1>1. /\ w \in Worlds /\ EngineInv(w.engine) /\ SchedulerInv(w.facade) /\ SchedulerInv(w.upstream)
      /\ w.facade \in Scheduler /\ w.upstream \in Scheduler
      /\ who \in SUBSET (Calls \cup {FacadeRun})
    BY DEF WorldInv, Worlds
<1>2. CASE host = "wasm"
    <2>1. x \in FacadeRequest(w, conditions, who)
        BY <1>2 DEF Request
    <2>2. CASE w.facade.at # "none"
        <3> DEFINE f == Enqueue(w.facade, conditions, who)
        <3>1. x = [w EXCEPT !.facade = f]
            BY <2>1, <2>2 DEF FacadeRequest
        <3>2. Attends(f, x.engine, docs)
            BY <1>1, EnqueueAttends
        <3> HIDE DEF f
        <3>3. x.facade = f
            BY <1>1, <3>1 DEF Worlds
        <3> QED
            BY <3>2, <3>3 DEF Due
    <2>3. CASE w.facade.at = "none"
        <3> DEFINE f == [w.facade EXCEPT !.current = who]
                   v == [w EXCEPT !.facade = f]
        <3>1. f \in Scheduler
            BY <1>1 DEF Scheduler
        <3>2. /\ f.at = "none" /\ f.next = w.facade.next /\ f.enqueued = w.facade.enqueued
              /\ f.current = w.facade.current \cup who /\ f.conditions = w.facade.conditions
            BY <1>1, <2>3 DEF Scheduler, SchedulerInv
        <3>3. x \in Run(v)
            <4>1. x \in Perform([w EXCEPT !.facade.current = who], "none")
                BY <2>1, <2>3 DEF FacadeRequest
            <4>2. [w EXCEPT !.facade.current = who] = v
                OBVIOUS
            <4>3. x \in Perform(v, "none")
                BY <4>1, <4>2
            <4> QED
                BY <1>2, <4>3 DEF Perform, Met
        <3> HIDE DEF f
        <3>4. v \in Worlds /\ v.engine = w.engine /\ v.facade = f /\ v.upstream = w.upstream
            BY <1>1, <3>1, PreparedFacade
        <3> HIDE DEF v
        <3> QED
            BY <2>3, <3>2, <3>3, <3>4, RunDue
    <2> QED
        BY <2>2, <2>3
<1>3. CASE host = "js"
    <2>1. x \in UpstreamRequest(w, conditions, who)
        BY <1>3 DEF Request
    <2>2. w.engine.vacuumState.running => w.upstream.at = "timer"
        BY <1>3 DEF WorldInv
    <2>3. Clean(x.engine, docs) \/ Attends(x.upstream, x.engine, docs)
        BY <1>1, <2>1, <2>2, UpstreamRequestDue
    <2> QED
        BY <1>3, <2>3 DEF Due
<1> QED
    BY <1>2, <1>3

\* One whose condition is not met leaves the engine alone.
LEMMA RequestNotMet ==
    ASSUME NEW w \in Worlds, host \in {"wasm", "js"}, NEW conditions, ~Met(w.engine, conditions),
           NEW who, NEW x \in Request(w, conditions, who)
    PROVE  x.engine = w.engine
<1>1. CASE host = "wasm"
    <2>1. x = w \/ x = [w EXCEPT !.facade = Enqueue(@, conditions, who)]
        BY <1>1 DEF Request, FacadeRequest
    <2> QED
        BY <2>1 DEF Worlds
<1>2. CASE host = "js"
    <2>1. x = w \/ x = [w EXCEPT !.upstream = Enqueue(@, conditions, who)]
        BY <1>2 DEF Request, UpstreamRequest
    <2> QED
        BY <2>1 DEF Worlds
<1> QED
    BY <1>1, <1>2

----------------------------------------------------------------------------
(* The actions, of those requests.                                         *)

\* The variables are what a world made of them.
LEMMA WorldBecomes ==
    ASSUME NEW x \in Worlds, inner' = x.engine, facade' = x.facade, upstream' = x.upstream
    PROVE  World' = x
<1>1. x = [engine |-> x.engine, facade |-> x.facade, upstream |-> x.upstream]
    BY DEF Worlds
<1> QED
    BY <1>1 DEF World

LEMMA AskedVacuum ==
    ASSUME IInv, AskedInv, NEW call \in Calls, Vacuum(call)
    PROVE  AskedInv'
<1>1. PICK x \in Request(World, "none", {call}) :
         inner' = x.engine /\ facade' = x.facade /\ upstream' = x.upstream
    BY DEF Vacuum, Become
<1>2. host \in {"wasm", "js"} /\ host' = host /\ StillAsked(Stale(inner))
    BY DEF Vacuum, IInv
<1>3. WorldInv(host, World) /\ {call} \in SUBSET Calls /\ Met(World.engine, "none")
    BY DEF IInv, Met
<1>4. x \in Worlds
    <2>1. promises[call] = "none" /\ call # FacadeRun
        BY CallsAssumption DEF Vacuum
    <2>2. {call} \cap (Waiting(World.facade) \cup Waiting(World.upstream)) = {}
        BY <2>1, Inside DEF IInv, CallsInv
    <2>3. After(host, World, x, {call})
        BY <1>2, <1>3, <2>2, RequestAfter
    <2> QED
        BY <2>3 DEF After, WorldInv
<1>5. asked \cup Stale(inner) \in SUBSET (Docs \ World.engine.alive)
    BY AskedDead, Inside DEF Stale
<1>6. Due(host, x, asked \cup Stale(inner))
    BY <1>2, <1>3, <1>5, RequestDue
<1>7. World' = x
    BY <1>1, <1>4, WorldBecomes
<1> QED
    BY <1>2, <1>6, <1>7, AskedAfter

LEMMA AskedDiscard ==
    ASSUME IInv, AskedInv, NEW gone \in SUBSET inner.alive, Discard(gone)
    PROVE  AskedInv'
<1> DEFINE w == [World EXCEPT !.engine = Discarded(inner, gone, {})]
           found == IF Met(w.engine, "auto") THEN Stale(w.engine) ELSE {}
<1>1. PICK x \in Request(w, "auto", {}) :
         inner' = x.engine /\ facade' = x.facade /\ upstream' = x.upstream
    BY DEF Discard, Become
<1>2. host \in {"wasm", "js"} /\ host' = host /\ StillAsked(found)
    BY DEF Discard, IInv
<1>3. After(host, World, w, {})
    BY DiscardAfter
<1> HIDE DEF w
<1>4. WorldInv(host, w) /\ w \in Worlds /\ w.engine.alive \subseteq inner.alive
    BY <1>3, Inside DEF After, WorldInv
<1>5. x \in Worlds
    <2>1. {} \in SUBSET Calls /\ {} \cap (Waiting(w.facade) \cup Waiting(w.upstream)) = {}
        OBVIOUS
    <2>2. After(host, w, x, {})
        BY <1>2, <1>4, <2>1, RequestAfter
    <2> QED
        BY <2>2 DEF After, WorldInv
<1>6. asked \cup found \in SUBSET (Docs \ w.engine.alive)
    BY <1>4, AskedDead DEF Stale
<1> HIDE DEF found
<1>7. AutoVacuumRequest(inner') => Due(host, x, asked \cup found)
    <2>1. CASE Met(w.engine, "auto")
        BY <1>2, <1>4, <1>6, <2>1, RequestDue
    <2>2. CASE ~Met(w.engine, "auto")
        <3>1. inner' = w.engine
            BY <1>1, <1>2, <1>4, <2>2, RequestNotMet
        <3> QED
            BY <2>2, <3>1 DEF Met
    <2> QED
        BY <2>1, <2>2
<1>8. World' = x
    BY <1>1, <1>5, WorldBecomes
<1> QED
    BY <1>2, <1>7, <1>8, AskedAfter

\* The calls that change the engine alone.
LEMMA AskedEngine ==
    ASSUME IInv, AskedInv, UNCHANGED <<host, facade, upstream>>, StillAsked({}),
           Keeps(inner, inner', asked)
    PROVE  AskedInv'
<1>1. /\ World'.facade = World.facade /\ World'.upstream = World.upstream
      /\ Keeps(World.engine, World'.engine, asked)
    BY DEF World
<1>2. Due(host, World', asked)
    BY <1>1, AskedDead, DueKept
<1>3. asked = asked \cup {}
    OBVIOUS
<1> QED
    BY <1>2, <1>3, AskedAfter

LEMMA AskedCalls ==
    ASSUME IInv, AskedInv,
           \/ \E d \in NextId : Add(d)
           \/ \E gone \in SUBSET inner.alive : DiscardFailing(gone)
           \/ RemoveAll \/ Promote \/ Free
    PROVE  AskedInv'
<1>1. ASSUME NEW d \in NextId, Add(d) PROVE AskedInv'
    <2>1. /\ d \in fresh /\ d \in Docs /\ inner' = Added(inner, d) /\ StillAsked({})
          /\ UNCHANGED <<host, facade, upstream>>
        BY <1>1 DEF Add, NextId, IInv, IdsInv
    <2>2. asked \in SUBSET (Docs \ {d})
        BY <2>1, AskedDead
    <2>3. Keeps(inner, inner', asked)
        BY <2>1, <2>2, Inside, Adds
    <2> QED
        BY <2>1, <2>3, AskedEngine
<1>2. ASSUME NEW gone \in SUBSET inner.alive, DiscardFailing(gone) PROVE AskedInv'
    <2>1. /\ inner' = Discarded(inner, gone, {}) /\ StillAsked({})
          /\ UNCHANGED <<host, facade, upstream>>
        BY <1>2 DEF DiscardFailing
    <2>2. Replaces(inner, inner', gone, {})
        BY <2>1, Inside, Discards
    <2>3. asked \in SUBSET (Docs \ (inner.alive \cup {}))
        BY AskedDead
    <2>4. Keeps(inner, inner', asked)
        BY <2>2, <2>3 DEF Replaces
    <2> QED
        BY <2>1, <2>4, AskedEngine
<1>3. CASE RemoveAll
    <2>1. inner' = Emptied(inner) /\ UNCHANGED <<host, facade, upstream>> /\ StillAsked({})
        BY <1>3 DEF RemoveAll
    <2>2. asked \in SUBSET Docs
        BY AskedDead
    <2>3. Keeps(inner, inner', asked)
        BY <2>1, <2>2, Inside, Empties
    <2> QED
        BY <2>1, <2>3, AskedEngine
<1>4. CASE Promote
    <2>1. /\ host = "wasm" /\ host' = "js" /\ inner' = [inner EXCEPT !.vacuumState = NoVacuum]
          /\ UNCHANGED <<facade, upstream>> /\ StillAsked({})
        BY <1>4 DEF Promote
    <2>2. Stale(inner') = Stale(inner)
        BY <2>1, Inside, LosesRun
    <2>3. /\ World'.engine = inner' /\ World'.facade = World.facade /\ World.engine = inner
        BY <2>1 DEF World
    <2>4. Due("js", World', asked)
        BY <2>1, <2>2, <2>3, AskedDead DEF Due, Attends, Clean
    <2>5. asked = asked \cup {}
        OBVIOUS
    <2> QED
        BY <2>1, <2>4, <2>5, AskedAfter
<1>5. CASE Free
    <2>1. host' = "freed" /\ StillAsked({})
        BY <1>5 DEF Free
    <2> QED
        BY <2>1, AskedAfter
<1> QED
    BY <1>1, <1>2, <1>3, <1>4, <1>5

LEMMA AskedFacadeTimer ==
    ASSUME IInv, AskedInv, FacadeTimer
    PROVE  AskedInv'
<1>1. PICK x \in Run(World) : inner' = x.engine /\ facade' = x.facade /\ upstream' = x.upstream
    BY DEF FacadeTimer, Become
<1>2. facade.at = "timer" /\ host' = host /\ StillAsked({}) /\ host \in {"wasm", "js", "freed"}
    BY DEF FacadeTimer, IInv
<1>3. WorldInv(host, World) /\ World.facade.current = World.facade.current \cup {}
    BY DEF IInv
<1>4. x \in Worlds
    <2>1. {} \in SUBSET Calls
        OBVIOUS
    <2>2. After(host, World, x, {})
        BY <1>2, <1>3, <2>1, Inside, RunAfter
    <2> QED
        BY <2>2 DEF After, WorldInv
<1>5. ASSUME host # "freed" PROVE Due(host, x, asked)
    <2>1. asked \in SUBSET (Docs \ World.engine.alive) /\ Due(host, World, asked)
        BY AskedDead, Inside
    <2> QED
        BY <1>2, <1>3, <1>5, <2>1, Inside, RunDue
<1>6. World' = x
    BY <1>1, <1>4, WorldBecomes
<1>7. asked = asked \cup {}
    OBVIOUS
<1> QED
    BY <1>2, <1>5, <1>6, <1>7, AskedAfter

\* Upstream's scheduler goes on, or begins, with conditions taken or not.
LEMMA UpstreamStepsDue ==
    ASSUME IInv, AskedInv, upstream.at \in {"timer", "queued"}, host # "freed",
           NEW u \in Scheduler, u.current = upstream.current, u.next = upstream.next,
           u.enqueued = upstream.enqueued,
           upstream.at = "timer" => u.conditions = upstream.conditions,
           NEW v \in Worlds, v.engine = inner, v.facade = facade, v.upstream = u,
           NEW x \in Steps(v, "upstream")
    PROVE  Due(host, x, asked)
<1>1. EngineInv(v.engine)
    BY Inside
<1>2. /\ x \in Worlds /\ Stepped(inner, x.engine) /\ x.facade = facade
      /\ x.upstream = [u EXCEPT !.at = IF x.engine.vacuumState.running THEN "timer" ELSE "null"]
    BY <1>1, StepsOfUpstream
<1>3. Ran(upstream, x.engine, x.upstream, {})
    BY <1>2 DEF Ran, Scheduler
<1>4. host = "js" /\ (inner.vacuumState.running => upstream.at = "timer")
    BY Inside DEF IInv, WorldInv
<1>5. asked \in SUBSET (Docs \ inner.alive) /\ Due("js", World, asked)
    BY <1>4, AskedDead
<1>6. CASE ~inner.vacuumState.running \/ Clean(inner, asked) \/ Attends(upstream, inner, asked)
    <2>1. Clean(x.engine, asked) \/ Attends(x.upstream, x.engine, asked)
        BY <1>2, <1>3, <1>4, <1>5, <1>6, Inside, RanAttends
    <2> QED
        BY <1>4, <2>1 DEF Due
<1>7. CASE facade.at = "timer" \/ Attends(facade, inner, asked)
    BY <1>2, <1>4, <1>7 DEF Due, Attends
<1> QED
    BY <1>5, <1>6, <1>7, Inside DEF Due

LEMMA AskedUpstreamTimer ==
    ASSUME IInv, AskedInv, UpstreamTimer
    PROVE  AskedInv'
<1>1. PICK x \in Steps(World, "upstream") :
         inner' = x.engine /\ facade' = x.facade /\ upstream' = x.upstream
    BY DEF UpstreamTimer, Become
<1>2. upstream.at = "timer" /\ host' = host /\ StillAsked({})
    BY DEF UpstreamTimer
<1>3. x \in Worlds
    BY <1>1, Inside, StepsOfUpstream
<1>4. host # "freed" => Due(host, x, asked)
    BY <1>1, <1>2, Inside, UpstreamStepsDue
<1>5. World' = x
    BY <1>1, <1>3, WorldBecomes
<1>6. asked = asked \cup {}
    OBVIOUS
<1> QED
    BY <1>2, <1>4, <1>5, <1>6, AskedAfter

\* The queued vacuum becomes the current one.
LEMMA EndedAttends ==
    ASSUME NEW s \in Scheduler, s.at = "null", NEW e, NEW docs, Attends(s, e, docs)
    PROVE  Attends(Ended(s), e, docs)
<1> DEFINE t == Ended(s)
<1>1. t.at = (IF s.enqueued THEN "queued" ELSE "none") /\ t.conditions = s.conditions
    BY DEF Ended, Scheduler
<1> HIDE DEF t
<1>2. Attends(t, e, docs)
    BY <1>1 DEF Attends
<1> QED
    BY <1>2 DEF t

LEMMA AskedEnds ==
    ASSUME IInv, AskedInv, FacadeEnds \/ UpstreamEnds
    PROVE  AskedInv'
<1>1. Due(host, World, asked) /\ inner' = inner /\ host' = host /\ StillAsked({})
    BY AskedDead DEF FacadeEnds, UpstreamEnds
<1>2. /\ World'.engine = inner' /\ World'.facade = facade' /\ World'.upstream = upstream'
    BY DEF World
<1>3. Due(host, World', asked)
    <2>1. CASE FacadeEnds
        <3>1. facade.at = "null" /\ facade' = Ended(facade) /\ upstream' = upstream
            BY <2>1 DEF FacadeEnds
        <3>2. Attends(facade, inner, asked) => Attends(facade', inner, asked)
            BY <3>1, Inside, EndedAttends
        <3> QED
            BY <1>1, <1>2, <3>1, <3>2, Inside DEF Due
    <2>2. CASE UpstreamEnds
        <3>1. /\ upstream.at = "null" /\ upstream' = Ended(upstream)
              /\ facade' = IF FacadeRun \in upstream.current
                           THEN [facade EXCEPT !.at = "null"] ELSE facade
            BY <2>2 DEF UpstreamEnds
        <3>2. Attends(upstream, inner, asked) => Attends(upstream', inner, asked)
            BY <3>1, Inside, EndedAttends
        <3>3. FacadeRun \in upstream.current => facade.at = "js"
            BY Inside DEF IInv, WorldInv, Waiting
        <3>4. /\ Attends(facade, inner, asked) => Attends(facade', inner, asked)
              /\ facade.at = "timer" => facade'.at = "timer"
            <4>1. CASE FacadeRun \in upstream.current
                <5>1. /\ facade.at = "js" /\ facade'.enqueued = facade.enqueued
                      /\ facade'.conditions = facade.conditions
                    BY <3>1, <3>3, <4>1, Inside DEF Scheduler
                <5> QED
                    BY <5>1 DEF Attends
            <4>2. CASE FacadeRun \notin upstream.current
                BY <3>1, <4>2
            <4> QED
                BY <4>1, <4>2
        <3> QED
            BY <1>1, <1>2, <3>2, <3>4, Inside DEF Due
    <2> QED
        BY <2>1, <2>2
<1>4. asked = asked \cup {}
    OBVIOUS
<1> QED
    BY <1>1, <1>3, <1>4, AskedAfter

\* A queued vacuum is skipped only when it runs on the default condition, or
\* when the condition of the requests has lapsed, and they with it.
LEMMA AskedFacadeQueued ==
    ASSUME IInv, AskedInv, FacadeQueued
    PROVE  AskedInv'
<1> DEFINE f == [facade EXCEPT !.conditions = "default"]
           v == [World EXCEPT !.facade = f]
<1>1. PICK x \in Perform(v, facade.conditions) :
         inner' = x.engine /\ facade' = x.facade /\ upstream' = x.upstream
    <2>1. v = [World EXCEPT !.facade.conditions = "default"]
        BY DEF World
    <2> QED
        BY <2>1 DEF FacadeQueued, Become
<1>2. facade.at = "queued" /\ host' = host /\ StillAsked({}) /\ host \in {"wasm", "js", "freed"}
    BY DEF FacadeQueued, IInv
<1>3. /\ f \in Scheduler /\ f.at = facade.at /\ f.next = facade.next
      /\ f.enqueued = facade.enqueued /\ f.current = facade.current \cup {}
    BY Inside DEF Scheduler
<1> HIDE DEF f
<1>4. v \in Worlds /\ v.engine = inner /\ v.facade = f /\ v.upstream = upstream
    BY <1>3, Inside, PreparedFacade
<1> HIDE DEF v
<1>5. WorldInv(host, World)
    BY DEF IInv
<1>6. asked = asked \cup {}
    OBVIOUS
<1>7. CASE host = "freed"
    BY <1>2, <1>7, AskedAfter
<1>8. CASE host # "freed" /\ ~Met(inner, facade.conditions)
    <2>1. x = [v EXCEPT !.facade.at = "null"]
        BY <1>1, <1>4, <1>8 DEF Perform
    <2>2. x \in Worlds /\ x.engine = inner /\ x.upstream = upstream
        BY <1>4, <2>1 DEF Worlds, Scheduler
    <2>3. World' = x
        BY <1>1, <2>2, WorldBecomes
    <2>4. AutoVacuumRequest(inner') => facade.conditions = "default"
        BY <1>1, <1>8, <2>2, Inside DEF Met, Scheduler
    <2>5. AutoVacuumRequest(inner') => Due(host, x, asked)
        <3>1. Due(host, World, asked)
            BY AskedDead
        <3> QED
            BY <1>2, <2>2, <2>4, <3>1, Inside DEF Due, Attends
    <2> QED
        BY <1>2, <1>6, <2>3, <2>5, AskedAfter
<1>9. CASE host # "freed" /\ Met(inner, facade.conditions)
    <2>1. x \in Run(v)
        BY <1>1, <1>4, <1>9 DEF Perform
    <2>2. asked \in SUBSET (Docs \ World.engine.alive)
        BY AskedDead, Inside
    <2>3. Due(host, x, asked)
        BY <1>2, <1>3, <1>4, <1>5, <1>9, <2>1, <2>2, Inside, RunDue
    <2>4. x \in Worlds
        <3>1. {} \in SUBSET Calls
            OBVIOUS
        <3>2. After(host, World, x, {})
            BY <1>2, <1>3, <1>4, <1>5, <2>1, <3>1, Inside, RunAfter
        <3> QED
            BY <3>2 DEF After, WorldInv
    <2>5. World' = x
        BY <1>1, <2>4, WorldBecomes
    <2> QED
        BY <1>2, <1>6, <2>3, <2>5, AskedAfter
<1> QED
    BY <1>7, <1>8, <1>9

LEMMA AskedUpstreamQueued ==
    ASSUME IInv, AskedInv, UpstreamQueued
    PROVE  AskedInv'
<1> DEFINE u == [upstream EXCEPT !.conditions = "default"]
           v == [World EXCEPT !.upstream = u]
<1>1. PICK x \in (IF Met(inner, upstream.conditions) THEN Steps(v, "upstream")
                  ELSE {[v EXCEPT !.upstream.at = "null"]}) :
         inner' = x.engine /\ facade' = x.facade /\ upstream' = x.upstream
    <2>1. v = [World EXCEPT !.upstream.conditions = "default"]
        BY DEF World
    <2> QED
        BY <2>1 DEF UpstreamQueued, Become
<1>2. upstream.at = "queued" /\ host' = host /\ StillAsked({})
    BY DEF UpstreamQueued
<1>3. /\ u \in Scheduler /\ u.current = upstream.current /\ u.next = upstream.next
      /\ u.enqueued = upstream.enqueued
    BY Inside DEF Scheduler
<1> HIDE DEF u
<1>4. v \in Worlds /\ v.engine = inner /\ v.facade = facade /\ v.upstream = u
    BY <1>3, Inside, PreparedUpstream
<1> HIDE DEF v
<1>5. asked = asked \cup {}
    OBVIOUS
<1>6. CASE ~Met(inner, upstream.conditions)
    <2>1. x = [v EXCEPT !.upstream.at = "null"]
        BY <1>1, <1>6
    <2>2. x \in Worlds /\ x.engine = inner /\ x.facade = facade
        BY <1>4, <2>1 DEF Worlds, Scheduler
    <2>3. World' = x
        BY <1>1, <2>2, WorldBecomes
    <2>4. AutoVacuumRequest(inner') => upstream.conditions = "default"
        BY <1>1, <1>6, <2>2, Inside DEF Met, Scheduler
    <2>5. AutoVacuumRequest(inner') => Due(host, x, asked)
        <3>1. Due(host, World, asked)
            BY AskedDead
        <3> QED
            BY <1>2, <2>2, <2>4, <3>1, Inside DEF Due, Attends
    <2> QED
        BY <1>2, <1>5, <2>3, <2>5, AskedAfter
<1>7. CASE Met(inner, upstream.conditions)
    <2>1. x \in Steps(v, "upstream")
        BY <1>1, <1>7
    <2>2. host # "freed" => Due(host, x, asked)
        BY <1>2, <1>3, <1>4, <2>1, UpstreamStepsDue
    <2>3. EngineInv(v.engine)
        BY <1>4, Inside
    <2>4. x \in Worlds
        BY <1>4, <2>1, <2>3, StepsOfUpstream
    <2>5. World' = x
        BY <1>1, <2>4, WorldBecomes
    <2> QED
        BY <1>2, <1>5, <2>2, <2>5, AskedAfter
<1> QED
    BY <1>6, <1>7

LEMMA AskedNext ==
    ASSUME IInv, AskedInv, [Next]_vars
    PROVE  AskedInv'
<1>1. ASSUME NEW call \in Calls, Vacuum(call) PROVE AskedInv'
    BY <1>1, AskedVacuum
<1>2. ASSUME NEW gone \in SUBSET inner.alive, Discard(gone) PROVE AskedInv'
    BY <1>2, AskedDiscard
<1>3. CASE UNCHANGED vars
    BY <1>3 DEF vars, World, AskedInv, Stale, AutoVacuumRequest
<1> QED
    BY <1>1, <1>2, <1>3, AskedCalls, AskedFacadeTimer, AskedUpstreamTimer, AskedEnds,
       AskedFacadeQueued, AskedUpstreamQueued DEF Next

\* While a document that an automatic request found dead has postings and the
\* condition of the request holds, a vacuum that takes it is ahead: the run in
\* progress, a queued one whose condition is met by then, or the run that the
\* facade starts over in the upstream engine.
AskedIsAnswered == asked # {} => host # "freed" /\ ~Clean(inner, asked) /\ Due(host, World, asked)

\* No automatic request is lost, whichever engine the index is in by then, and
\* wherever the queued vacuums of the two schedulers were when it came.  What is
\* left of AskedIsCleaned is that timers fire and microtasks run.
THEOREM RequestsCorrect == Spec => []AskedIsAnswered
<1>1. Init => AskedInv
    BY DEF Init, AskedInv
<1>2. IInv /\ AskedInv /\ [Next]_vars => AskedInv'
    BY AskedNext
<1>3. AskedInv => AskedIsAnswered
    BY DEF AskedInv, AskedIsAnswered, Clean
<1> QED
    BY <1>1, <1>2, <1>3, Invariance, PTL DEF Spec
=============================================================================
