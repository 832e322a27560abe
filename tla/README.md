# A verification development of minisearch-wasm

minisearch-wasm is an in-memory full-text search engine in Rust
(`src/src/mini_search.rs` and its submodules), compiled to WebAssembly behind a
wrapper (`src/src/lib.rs`) and a JavaScript facade (`src/js/minisearch.js`) that
promises the behaviour of the JavaScript library MiniSearch. This directory
holds TLA+ models of it, TLC configurations that check them on small instances,
and theorems that the TLA+ proof system checks for every instance.

## Inventory

| Part | Source | State | Operations | Correct when |
|---|---|---|---|---|
| Engine | `mini_search.rs`, `external.rs` | id maps, `alive`, field lengths, postings in a radix tree, `dirt_count`, `vacuum_state`, `id_table_version` | add, remove, remove_fields, discard, discard_all, replace, remove_all_documents, begin_vacuum, vacuum_step, compact | it implements a map of documents; dirt pays for stale postings |
| Lazy cleanup | `lazy_cleanup.rs` | the engine's postings | exact search on a dirty index takes stale postings out as it meets them | it answers and cleans as upstream does |
| Expansion cache | `mini_search.rs` | prefix and fuzzy memos with reference-counted posting handles | fill by a query, clear by a mutation | no handle names replaced postings |
| Posting list | `mini_search.rs` | vector of (short id, frequency), tombstone count | increment, decrement, sweep, retain, renumber, lazy visit, reload | it is a map in id order; at most half are tombstones |
| Query evaluation | `mini_search.rs` | dense scratch tables with generation stamps, per-term result maps | fused pass, per-term pass and merge | both give the same results in JavaScript's order |
| Average lengths | `mini_search.rs` | a running average per field | add and remove a length | the average of the live documents |
| Radix tree | `searchable_map.rs` | nodes with ordered edges | insert, delete, prefix view, fuzzy walk | a map; leaf order as in JavaScript |
| Snapshots | `snapshot.rs`, `interop.rs` | bytes, MiniSearch JSON | save, load, validate | what is written can be loaded, and is the same index |
| Wrapper's vacuum | `lib.rs` | `VacuumRuntime` (active, rerun, current promise), one spawned task | vacuum(), automatic requests, timers | every request is honoured, every task ends |
| Facade | `js/minisearch.js` | id maps, stored documents, pending batches, vacuum promises, a JavaScript engine to fall back on | the public API, with callbacks | facade and engine name the same documents; every vacuum ends and has cleaned |
| Tokenizer, options | `separators.rs`, option structs | none | pure functions | the same characters and defaults as JavaScript |

How they interact. The facade numbers documents and sends batches of texts or
terms to the wrapper. The wrapper calls the engine, synchronously, and after a
discard or replace asks it whether the dirt calls for a vacuum; if so it spawns
a task that steps the engine's run, batch by batch, between timers. Everything
runs on one thread: a call is atomic, and what interleaves is the task's
batches, JavaScript's calls and (in the facade) callbacks that call back in.

What is hard here. A vacuum run spans many calls while documents come and go;
short ids are reused after compaction and resets; three fast paths (the clean
index, the expansion cache, the lazily reset scratch tables) are right only
because of what every other operation keeps true; a search on a dirty index has
to answer, and to clean, as upstream's would; the order of the radix tree's edges
shows in every result; a removal trusts the caller to supply the indexed content;
requests, timers and a change of engine race; saved and loaded state must fit. `PROJECT.json` lists these hazards at their lines.

## Modules

| Module | Models | Implements |
|---|---|---|
| `SearchIndex` | the engine, its cache, lazy cleanup and what a snapshot keeps | `Documents` |
| `SearchIndexProofs` | its inductive invariant and theorems | |
| `Postings` | one posting list, entry by entry | `PostingMap` |
| `FusedQuery` | the two evaluations of a query, posting by posting | |
| `FusedQueryProofs` | the soundness of the lazy reset, and that both evaluations agree | |
| `Selections` | what a filter keeps of a sequence; used by `Postings` and `Facade` | |
| `SelectionsProofs` | that a selection keeps order and entries | |
| `PostingsProofs` | its inductive invariant, and the refinement of `PostingMap` | |
| `ExactSearch` | searches on a dirty index, and the average field lengths | `UpstreamSearch` |
| `RadixTree` | the term index, node by node, with its prefix and fuzzy walks | `UpstreamMap` |
| `SnapshotFormats` | what the three file formats write, and what their readers accept | |
| `Persistence` | the life of an index across processes, on `SnapshotFormats` and `RadixTree` | |
| `VacuumEngine` | the engine as the schedulers see it: dirt, run and postings, in one record | |
| `VacuumEngineProofs` | what every scheduler may rely on: the dirt that pays, what a run covers | |
| `VacuumScheduler` | the wrapper's vacuum task on `VacuumEngine` | |
| `VacuumSchedulerProofs` | its inductive invariant: dirt, promises and automatic requests | |
| `FacadeVacuum` | the facade's vacuum scheduler beside upstream's, on `VacuumEngine` | |
| `FacadeVacuumProofs` | its inductive invariant: promises and automatic requests across the transfer | |
| `Facade` | the JavaScript facade's documents, with callbacks in progress | |
| `FacadeProofs` | its inductive invariant: the numbering, and what each id holds | |
| `Documents`, `PostingMap` | what the engine and a posting list promise | |
| `UpstreamSearch`, `UpstreamMap` | upstream's search and its map of terms, which are external | |
| `MC...` | small instances for TLC | |

### SearchIndex

One action per call. The variables are the struct's fields under their names;
`fieldLength` joins `field_length` with `field_present` (`Absent`), `alive` is
the set of set bits, `freq`, `fieldsOf` and `tree` are the three levels of the
index, kept apart so that an empty entry or key can be told from none. A
document's content is what tokenizing gives: unique-token counts per field and
occurrences per term. `vacuumState` holds the terms a run has yet to visit and
the dirt it began with. `expansions` is `Cold` or the postings the handles
name, so a write under a warm cache shows. `Reload` is a save and a load: the
run is lost, the dirt and the postings stay. `discarded`, `changed` and
`vacuumState.covers` are history: they are read by properties only.

Properties: `ImplementsDocuments` (a live document keeps exactly its terms until
an operation names it, and a new document inherits nothing with its short id),
`QueriesFindLiveDocuments` (the fast path that skips the liveness check returns
no dead document, and a query finds every live one in a field whose average
length is not zero), `CleanUnlessChanged` (a zero dirt count means no discarded
document has postings left), `SnapshotLoads` (each reachable state satisfies the
loader's checks of the tables and the tree; its limits, depths, averages and
budget are not in this module), `CachedHandlesCurrent`, `IdTableVersioned`.

The averages are not state here. `Scored` takes the fields whose average is 0.0,
which the code passes over, and the property is about every such set; which sets
are reachable, and that live documents go missing then, `ExactSearch` shows
(`zero_average`).

### ExactSearch

A search runs on the fast path of `term_results`, which changes nothing and
raises a flag when it meets a stale posting; a raised flag throws the answer away
and hands the query to the replica of upstream's search in `lazy_cleanup.rs`.
The module has both (`FastAnswer` and `StaleHit`, `Lazy`) and the entry point
that chooses (`Search`). A query is a wildcard, the terms of a text, or a tree of
queries with options of its own. `Applied` and `Overlaid` are the two ways options
meet: those of the constructor come under the others at the texts alone, so a tree
that nobody gave a `combineWith` is an OR even where the constructor says AND. An
answer is the `RawResult`: documents in the order they entered it, each with the
additions that make its score: term, field, and the document frequency it was
weighed with. The wildcard's addition is the boost, of no term. The order matters,
because the final sort is stable.

`ImplementsUpstream` states that answer and index change as in `UpstreamSearch`,
where a search has no fast path. A later term or subquery sees what an earlier one
has cleaned, also where a combination then drops what the earlier one found, and a
list met half way has a frequency of its own.

An average field length is an exact rational here. `AveragesAreMeans` is about
fields every document has had: the code counts a document without the field in
the divisor and not in the average, as upstream does, so elsewhere the average
is no mean of anything.

Removals in this module give the content the document was added with; changed
content is in `SearchIndex`.

### RadixTree

A key is a sequence of UTF-16 code units. The Rust code works on UTF-8 bytes but
splits edges between characters only, so a character outside the basic plane
stays whole: the model has this as pairs that begin with one of
`HighSurrogates`. A node is its leaf, the leaf's place among the children
(`leaf_pos`), and the children in order. `UpstreamMap` is the JavaScript tree, an
ordered map per node whose empty key holds the leaf; `ImplementsUpstream` maps
each node to one and compares all of the structure, so order is included.

Both fuzzy walks are there: the matrix (`FuzzyGet`), whose rows siblings share,
and the bit vectors (`ForEachFuzzy`). `FuzzyFindsAll` compares both with the edit
distance, and `EachTermOnce` the three passes of a query term with each other.

### SnapshotFormats and Persistence

A file is what its bytes spell: a row per document, a node per radix node. Each
format has a writer (`WriteBinary`, `WriteJSON`, `WriteMiniSearch`), a test of
what its reader accepts, and the index it makes. `Claims` counts the bytes the
binary reader takes from its memory budget.

In `Persistence` an engine takes documents in and out, is saved, and its process
ends; the file may be changed (`Damage`: one plausible fault, such as a missing
row, a short id out of range, a count off by one, a field twice in a leaf); another
process loads it. MiniSearch's JSON is loaded entry by entry between timers, in
any order of its maps, and a load may be abandoned or refused. Exactly one of
`engine` and `file` holds the index. `file.of` is the index the file was written
from, until the file is changed; `damaged` marks an engine read from a changed
file. Values and options are left out.

`EngineIsValid` says that whatever a reader accepts, and whatever is done with it
next, satisfies the full validation: the binary reader decodes without running
it. `LoadRestores` says an unchanged file gives the same index back.

### VacuumScheduler

The engine is `VacuumEngine`, reduced to its dirt: a document indexes every term,
and its short id is used once. Its operations (`Begin`, `VacuumStep`,
`Discarded`, `Added`, `Emptied`) are functions of an engine record, so that the two
schedulers use, and are proved on, the same ones. A JavaScript call is one action, and the task runs from one
await to the next in one action: `FirstTurn` is the microtask in which the
spawned future is first polled, `TimerFires` and `TimerFails` end a
`yield_to_timer`. `HandStep` is a caller of `vacuumStep()`. `compact()` is
refused while the task is active and leaves this state alone otherwise.

`disturbed` is chosen at the start: only then do callers step the engine by hand
and timers fail. `FulfilledMeansCleaned` (about the promise all callers share)
and `AskedIsCleaned` (about automatic requests that arrive during a run) speak of
undisturbed behaviours, since a run that was left half done is continued by the
next request. `DirtCoversStale` (about the subtraction at a run's end) and
`Settles` (the task ends) hold in all.

### FacadeVacuum

The facade does not use the wrapper's task. It ports upstream's scheduler
(`_conditionalVacuum`, `_performVacuum`) over `vacuumStep`, with a current promise
and a queued one that share conditions. An action runs from one await to the
next: `FacadeTimer`, then `FacadeEnds` for the last await, then `FacadeQueued` for
the microtask in which the queued run starts; user code may run between any two.
`host` says whose engine the index is in. `Promote` moves it to upstream, which
has the same scheduler (`UpstreamTimer`, `UpstreamEnds`, `UpstreamQueued`) and
none of the engine's run; the facade's run then waits for upstream's. `Free`
drops the engine.

`NoOrphanRun` says an engine's run in progress has a scheduler behind it. The
rest are as in `VacuumScheduler`: `FulfilledMeansCleaned`, `Settles`,
`AskedIsCleaned`.

### Postings and FusedQuery

`Postings` keeps the vector with its tombstones and refines the map in
`PostingMap`. The liveness set a caller passes to `retain` or to the lazy
visit is any set. `Selected` (in `Selections`) says by counting positions what a
retain keeps: a definition by recursion would be closed to the prover.
`FusedQuery` feeds the same postings to the dense tables and
to the per-term maps. A score is the list of additions that makes it, so equal
means bit-identical in floating point, whatever BM25 yields. Unused slots hold
`Leftover`, a value that no query could have written, so that reading one by
mistake changes a result.

### Facade

`ids`, `shortIds`, `pending`, `version` and `table` are the facade's `_ids`,
`_shortIds`, `_pending`, `_version` and `_idTable`; `rows` is the engine, reduced
to which document is indexed under each short id and in which fields; `js` is
the engine of upstream's MiniSearch once the index has moved there. JavaScript
runs to completion except where the code calls back into the caller, so `stack`
holds the calls in progress and a step works on the innermost one: a field's
callbacks return (`CollectField`, `RemoveField`), throw (`FinishAdd` and
`FinishRemove` before the last field), call the index again (any action that
starts a call), or yield a text only upstream can take (`CollectUnfit`,
`RemoveUnfit`, and then `IndexInJS`, `UnindexInJS`). A field stands for the terms
in it. A call that throws after its flush (a missing id) is the flush of a read,
`DocIdTable`. `replace` and `discardAll` are made of modelled calls.
`addAllAsync` calls `addAll`. The engine's dirt is one flag, since all that
matters here is when compaction is allowed.

`upstream` is history: the fields MiniSearch, which indexes at once and has no
batches, would hold at this point. A frame whose document another call has
removed is no longer `current`: upstream would be working on a short id that
is gone.

Properties: `SameDocumentsAsUpstream` between calls, `SameNumbering` at every
moment (it is why the engine never refuses a batch), `TableIsCurrent` for
callers that join raw results with `docIdTable`.

`CallbackCalls` names the calls callbacks make. In the passing run they add,
add many, remove and discard documents no call in progress is about, read, and
throw. `MayPromote` keeps a document's transfer from happening inside another
document's callback. Callbacks that remove the document being worked on, reset
or compact the index are outside that instance, because upstream is no guide to
what they should mean; callbacks that move the index are `facade_transfer`.

One comment is looser than the code: `_check` says a callback "sees every
document added before", yet a document added by a callback waits in the batch
behind the open one (`Count`) and is in the facade's tables only.

## Runs

| Run | Instance | Shows |
|---|---|---|
| `search_index` | 2 ids, 3 short ids, 2 terms, 2 fields, 2 contents, 2 units of dirt | the engine is a map of documents, its fast paths are right, its dirt pays for stale postings |
| `exact_search` | 3 documents, 3 terms, 2 fields, 5 queries, trees 3 deep | a search on an index in any state of cleaning is upstream's; averages are means |
| `zero_average` | the same, with lengths whose average can be zero | **violated**: live documents go missing |
| `posting_list` | 5 documents, frequencies to 2 | order, tombstone count, refinement |
| `fused_query` | 2 documents, 2 terms, 2 fields, 3 specs, 4 postings | the two evaluations agree for OR, AND, AND_NOT |
| `radix_tree` | 5 keys of 1 to 5 units, 4 queries, distances to 3 | the tree is upstream's, its walks find what they should |
| `persistence` | 2 short ids, 2 fields, 1 unit of dirt, all formats, changed files | what was saved comes back; what was accepted is valid |
| `snapshot_limits` | 10 short ids allowed, a budget in proportion | **violated**: an index within the limits that cannot be loaded |
| `vacuum_tasks` | 3 documents, 2 terms, 2 calls of vacuum(), 2 steps by hand | promises and automatic requests are honoured, the dirt is right, tasks end |
| `facade_vacuum` | 2 documents, 2 terms, 3 calls of vacuum() | the same for the facade, across a transfer and `free()` |
| `facade` | 2 ids, 2 fields, 3 short ids, calls 3 deep, batches of 2 | facade, engine and upstream hold the same documents |
| `facade_transfer` | the same, callbacks that search what only upstream answers | **violated**: the document being added loses its fields |

Bounds, and why they are enough. Three short ids let one id be added, dropped
and added again beside another, and let ids run out (`AddExhausted`,
`ReplaceExhausted`). `MaxVersion` is small, but `Reload` starts the version
over, as in the code, so behaviours of any length continue through it.
`MinDirtCount` 2 makes discards both with and without an automatic vacuum
happen. Two contents share a term in different fields and repeat one, so a
changed removal leaves some postings, part of one, or none. A run of two terms
in batches of one has a point between batches. Five documents in a posting list
let the sweep run with a majority of tombstones and without. `Wrap = 3` wraps
the counters at the third query; `MaskBits = 1` puts the second query term past
the mask (64 in the code); four postings let a document be met by two specs in
two fields.

Three short ids in `facade` are enough for a document, one added by its
callback, and a free slot to compact away; `Batch` 2 (1024 in the code) sends a
batch in the middle of an addAll; `Slack` 1 (1024) lets the index be crowded;
`MaxVersion` 4 bounds the calls that end, and `New` begins again. `Unfit` 2
transfers a document with one field read; a transfer at the first field differs
only in having nothing to carry.

In `exact_search` the terms are made so that one is a prefix of another and a
third is near both ways; one document repeats a term, so a stale posting survives
one visit; document 2 is the one a boost callback refuses. The constructor's AND,
the call's options and those of inner and outer trees disagree, so that each way of
passing them on shows; the trees take a wildcard first, in the middle, and not at
all. No action reads the last answer, so states that differ in it alone are one to
TLC (`VIEW`), and every step to them is still compared with upstream's. Three documents let a
list hold a stale posting before, between and after live ones. The lengths of the
passing instance keep averages from zero; those of `zero_average` are the least
that do not.

The keys of `radix_tree` split and join edges, and two of them hold different
characters of two units with the same second unit. `WordBits = 3` (64 in the code)
sends the query of four units to the matrix and the others to the bit vectors,
and `MaxCells = 34` makes one matrix too large. Distance 3 reaches every key from
some query.

`persistence` has the two contents that make a leaf at an inner node, an absent
field and a repeated term. `MaxShortIds` is 2 and `MaxDepth` 2 so that an engine can
outgrow what may be saved. In `snapshot_limits` ten short ids stand for two
million, and the budget is what the real one would be for ten.

`vacuum_tasks` takes one term a batch, so that a run has a point between its
batches where everything may happen; three documents let one be dead before a
run, one die during it and one be live. `facade_vacuum` needs a third call, to have
a current promise, a queued one and a request that joins; three documents with
two calls were checked as well. Its default conditions have the code's factor, which
two documents always satisfy once their count is reached; the theorems have any
count and factor. `CHECK_DEADLOCK FALSE` there, because all calls may
have been made.

Two ids are symmetric in `search_index` and `facade`, documents and terms in
`fused_query`: nothing in those modules tells them apart, and the runs check
no liveness.

### Three disagreements of comments and code

* `zero_average`. `CHANGELOG.md` says scores are MiniSearch's bit for bit. A
  posting whose field has the average 0.0 is passed over in all three searches;
  upstream divides by the average and keeps the document. An average comes to
  zero with documents left when documents without the field have come and gone.
* `snapshot_limits`. `check_persistable` says it keeps a save from writing what a
  load refuses. It does not ask about the reader's budget, which an index within
  the other limits can exceed.
* `facade_transfer`. The facade promises a transfer of the index that keeps it
  whole. If a callback of `add` makes the index move (a search with options the
  engine lacks), the open entry is neither flushed before the transfer nor
  indexed after it: the document keeps its id and loses its text. By the code,
  the entry then waits for the next call, which tries to flush it to the freed
  engine and throws.

Smaller things the models pass by, for a reader of the code:
* `term_results` says a clean index has no dead postings. A removal with changed
  content leaves some and no dirt. No result is a dead document all the same
  (`QueriesFindLiveDocuments`), because a dead document's field length is zero;
  but such postings count in the document frequency until they are cleaned.
* `schedule_vacuum` says its run accounts for today's dirt. When the engine has a
  run open already (from `vacuumStep()`, or from a task whose timer failed),
  `begin_vacuum` does nothing and the older run is continued.
* `to_minisearch_json` does not call `check_persistable`, and `to_json` does not
  measure the text and the depth of values that `load_json` limits.

## Fairness

Only the two schedulers have liveness: elsewhere everything is a call, and callers
owe nothing.
`VacuumScheduler` assumes weak fairness of `FirstTurn`, because the event loop
runs every microtask, and of `TimerFires \/ TimerFails`, because a timer that
was set fires. Nothing is assumed of callers. Ids being used once, requests are
finite in number: a caller that goes on for ever discarding during every run
would keep the promise pending for ever, and `Settles` says nothing of it.
`FacadeVacuum` assumes the same of the timers and microtasks of its two
schedulers, each by itself: a `setTimeout` fires and the jobs of a settled promise
run, whatever else does.

## Proofs

Theorems hold for every value of the constants under the named assumptions in
the modules, which say what the code's types say: bounds are naturals, a batch
has at least one document (`FacadeAssumption`), short ids are naturals, of which
a list may hold every smaller one and an engine finitely many
(`DocsAssumption`), a field that yields terms has
tokens (`ContentsAssumption`), the sentinels are none of the values they stand
beside. Every invariant below was checked by TLC on the run's instance before it
was proved.

`SearchIndexProofs`. The inductive invariant `IInv` is `TypeOK` and
* `TablesInv`: the id maps are inverse on the live short ids, dead ones have no
  field row, the count counts the live;
* `PostingsInv`: keys and entries are those of the postings, postings are of
  issued ids, and of fields with tokens if the document lives;
* `DirtInv`: every stale posting is of a discarded or changed document. `Paid`:
  the run's initial dirt pays for the documents it covers, and the count beyond
  it for the rest. `Ahead`: a covered document has postings only in terms the
  run has still to visit;
* `CachedHandlesCurrent`.

`CleanUnlessChanged` alone is not inductive: a run's end lowers the dirt, which
is safe only since `Ahead` says the covered postings are gone and `Paid` that
the others keep their dirt. `QueriesCorrect` has the averages as an arbitrary set
of fields that a query passes over. From `IInv` follow `TypeCorrect`, `QueriesCorrect`,
`DirtCorrect`, `CacheCorrect`, `SnapshotsLoad`; the two action properties
(`VersionsCorrect`, and `Implements`, by one lemma per action mapping it to a
step of `Documents` or a stutter) are proved with it.

`FusedQueryProofs`. `StampsAreCurrent` is strengthened with: no stamp exceeds
its counter. So the next generation is no slot's stamp; the wrap-around, which
would break this, clears the stamps. `TypeCorrect` is from the same invariant
and `TablesInv`.

`FusedIsCombined` is `FusedEqualsCombined` for any documents, terms, fields,
postings and bounds. The property speaks of the moment between two specs, where
both sides are folds; `PassInv` speaks of every posting. `SoFar(mode)` are the
maps of the finished specs, combined, and `Ours` is the map of the current one.
* `OrInv`: `touched` is the union's documents in its order and then the new ones
  of `Ours`; the slots of each agree (`Agrees`) with what its entries in the two
  merge into, the score excepted, which `flush_spec` adds; the numbers of specs
  kept with the slots say in which of the two the document is.
* `CountedTerms`: a query term has its bit of the mask, or its pair past the
  mask's width, exactly when it is in the document's list. With a mask alone
  this fails at the 65th term.
* `OthersInv`: AND has the union's entries of the documents that every spec met,
  AND_NOT those that the first spec alone met. `OrderInv`: AND's order is the
  order of the last spec, which is why `spec_touched` is read for it.

The hard step is `Accumulate`. The fused pass writes a term's fields over those of
an earlier spec at the term's first posting and adds to them after that, which it
knows from the spec it notes in the row; the other pushes fields into the spec's
own map, and assigns the map at the end. `AssignPushed` is that the two commute:
the map is assigned again after each posting. The merges are put in terms of
documents, `MergedOrIs` and `MergedAndIs`, and a filter of a filter is a filter,
`SelectedNested`. `combine_results` folds from the left, so one more map is one
more merge, `CombinedAppend`; this is proved of the chain of partial merges,
without induction over an operator.

`PostingsProofs`. `IInv`: the entries ascend strictly by short id, `tombstones`
is the number of entries with frequency zero, and at most half are. The proof
counts: `PositionIn` is where a document is or would be inserted, one more than
the entries below it, which is what binary search finds in an ascending list; a
filter keeps order and the entries it keeps (`Selection`, in `SelectionsProofs`,
by the rank of a position among those kept). `Implements` maps the list to the
map of its frequencies, and each step to one of `PostingMap` or a stutter; the
sweep that a removal may end with is a stutter.

`VacuumEngineProofs`. `Paid`: the dirt is at least the number of stale documents,
and what a run's end will leave of it at least the number of those it will miss.
`Covers(e, docs)`: the run will take every posting of docs. `Keeps(e, f, docs)`:
what engine e has cleaned, and what it will, f has and will. One lemma per
operation of the engine says that it keeps both. Two facts make them inductive:
`begin_vacuum` takes all terms, so a new run covers everything, and a discard
under a run adds the very dirt its miss costs.

`VacuumSchedulerProofs`. `IInv` adds that a pending call is answered by the run in
progress, which covers what it is owed, or by a rerun that nothing can drop
(`Certain`), and that in undisturbed behaviours a run has a task.
`PromisesCorrect` follows, for any number of documents, terms and calls and any
batch size; `DirtCorrect` holds in disturbed behaviours too.

`RequestsCorrect` is the safety in `AskedIsCleaned`. `asked` are the documents that
automatic requests found dead, while they have postings and the condition of the
requests holds. `AskedInv`: the run in progress takes them all, or a rerun is queued.
This is inductive only together with `IInv`: `schedule_vacuum` queues a rerun when a
task is active, whatever its run will take; the task drops one (`Reruns`) only when
the condition has lapsed, and `asked` is empty by then; and a run that ends has
cleaned what it covered. It follows that the task is active while anything is asked
for (`AskedIsAnswered`), so that liveness is left with timers that fire.

`FacadeVacuumProofs`. A world is an engine and the two schedulers. `Answers`: who
waits for a scheduler is answered by its current vacuum, or by the queued one,
which is then unconditional. `Served`: each pending call, by either scheduler,
the facade's run being itself a caller of upstream's after the transfer. `After`
relates worlds: each action is shown to leave a world that comes after, and
every world after serves whom it served. `NoOrphanRun` needs that the engine's
run belongs to whoever waits for a timer.

`RequestsCorrect` is the safety in `AskedIsCleaned` here. `Attends`: a scheduler's run
takes the documents, or one is queued under conditions other than the default, which
hold while the requests count. `Due`: the facade's scheduler attends to them, or after
the transfer upstream's does, or the facade waits for the timer on which it starts the
vacuum over at upstream's. The two queues share conditions with the run before them,
which a queued run resets to the default as it starts, also when another is queued
behind it by then: that one may be skipped, but the run that starts is later than the
request that queued it, and covers what it asked for (`RanAttends`). As `Due` is about
any dead documents, it is proved of requests (`RequestDue`) and runs (`RunDue`) once,
not per action.

`FacadeProofs`. The theorems have a hypothesis, `PlainCallbacks`: callbacks add,
add many, remove and discard (documents that no call in progress is about), read
and throw, as in the `facade` run. It cannot be had for less: with callbacks
that compact, that remove all, that remove the document in progress, or that
move the index, TLC finds one of the properties violated, and the last is the
finding `facade_transfer`. `IInv` before the transfer is
* `Line`: the engine's rows and after them the pending entries are one line of
  documents. A flush moves the boundary and leaves the line (`FlushNative`);
* `Numbered`: `ids` and `shortIds` number the line, both ways, which is
  `SameNumbering`;
* `Framed`: each add in progress has its open entry, at its depth, and each open
  entry its add; a document that is being removed has reached the engine, and its
  call still has its number. So what follows an open entry waits (`Waiting`),
  and no batch is left when no call is in progress;
* `Mirrored`: upstream has of each document what the line has, less what a
  removal in progress has read (`Taken`): upstream takes a field out when it is
  read, the engine at the end;
* `Versions`: the copy under the current version is current unless an add is in
  progress, which changes the ids first and the version as it ends;
and after it that upstream and the JavaScript engine are equal, and only the
innermost call is about a document. `Carried` joins the two: with no add and no
removal left below, what the transfer reads is what upstream has.
`SameDocumentsAsUpstream` alone says nothing in the middle of a call, where all
of the work is.

Model-checked only:
* liveness: `Settles` and `AskedIsCleaned` of the two schedulers, the latter beyond
  the safety in `RequestsCorrect`;
* `RadixTree` (`TypeOK`, `PrefixFindsAll`, `FuzzyFindsAll`, `EachTermOnce`, and that it
  implements `UpstreamMap`): insertion, removal and the walks descend a tree of any
  depth, so that every invariant is an induction over trees;
* `SnapshotFormats` and `Persistence` (`TypeOK`, `EngineIsValid`): what a file holds
  is a tree of terms, rebuilt by inserting its entries;
* `ExactSearch` (`TypeOK`, `PlainSearchIsConverged`, and that it implements
  `UpstreamSearch`): a query is a tree, evaluated by RECURSIVE operators.
  `AveragesAreMeans` needs none, but that the sum over a set that grew by a document
  is the sum and its length, which is an induction over the set.

In general liveness, `ENABLED` and induction over data stay with TLC. Where a
definition could be had without recursion (`Selected`, `Count`, `PositionIn`), it
counts with `Cardinality` instead, of which the library has theorems.

## Not modelled

* BM25, boosts and weights, and the rounding of averages: floats.
* The filter, `fields` and the options per term (`prefix` and `fuzzy` as lists); the
  specs of suggestions, whose last term alone is a prefix.
* The tokenizer, the Unicode tables and the options: pure functions of text.
* Bytes, varints and the encoding of values in snapshots; options in files.
* The wrapper's argument conversions; tests, benchmarks and packaging.
* In the facade: callbacks of `remove` that remove the same document, compact or
  reset; a `setTimeout` that fails; `discardAll([])` in a loop; a `removeAll` of
  upstream's engine in the middle of its run, which is upstream's own affair.
* Stored fields follow `document_ids` everywhere; only `Persistence` has them.

## Plan

1. Done: the modules above, and proofs of every safety invariant whose module
   the prover can read: `SearchIndex`, `Postings`, `VacuumScheduler`,
   `FacadeVacuum`, `Facade` and `FusedQuery`, and of the safety behind the liveness
   of automatic requests.
2. Proofs: the averages of `ExactSearch`, in a module of their own, with the sum of
   the lengths kept beside them; which searches of a dirty index meet stale postings,
   if its queries are put without recursion.
3. The options per term and suggestions, and changed removals, in `ExactSearch`.
