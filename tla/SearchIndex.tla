---------------------------- MODULE SearchIndex ----------------------------
(***************************************************************************)
(* The search engine of src/src/mini_search.rs: the inverted index, the    *)
(* document tables keyed by short id, the dirt accounting and the          *)
(* incremental vacuum.  The wasm wrapper and the JavaScript facade drive   *)
(* the engine through exactly these operations; each call runs to          *)
(* completion, and a vacuum run is the one operation that spans several    *)
(* calls, between which every other operation may happen.                  *)
(*                                                                         *)
(* A document's content is what tokenizing it yields: per field its number *)
(* of unique tokens (Absent for a missing or null field) and per term its  *)
(* number of occurrences.  Scores, average lengths and the order of terms  *)
(* in the radix tree are not kept in this module; of the averages a query  *)
(* asks only which are zero, and here that may be any of them.             *)
(***************************************************************************)
EXTENDS Integers, FiniteSets

CONSTANTS
    Ids,            \* external document ids, by their id_key
    NoId,           \* a short id without a document
    NoDocument,     \* an id without a document, in the abstract map
    Terms,          \* processed terms
    Fields,         \* options.fields
    Contents,       \* the tokenized documents the callers index
    MaxShortId,     \* next_id's limit: u32::MAX in the code
    MaxVersion,     \* bound on id_table_version, a u64 in the code
    MaxDirt,        \* bound on dirt_count, a usize in the code
    AutoVacuum,     \* options.auto_vacuum is not Enabled(false)
    MinDirtCount,   \* auto_vacuum.min_dirt_count
    MinDirtPercent  \* auto_vacuum.min_dirt_factor, in percent

ShortIds == 0 .. MaxShortId - 1

NoShortId == -1       \* an id that is not in the index
Absent == -1          \* a field the document does not have

\* Occurrences of each term in each field.
Frequencies == [Terms -> [Fields -> Nat]]
NoFields == [f \in Fields |-> Absent]

\* A term is processed from a token, so a field that yields terms has tokens.
Content ==
    {c \in [length : [Fields -> Nat \cup {Absent}], freq : Frequencies] :
        \A t \in Terms, f \in Fields : c.freq[t][f] > 0 => c.length[f] > 0}

ASSUME ContentsAssumption == Contents \subseteq Content
ASSUME NoIdAssumption == NoId \notin Ids /\ NoDocument \notin Frequencies
ASSUME BoundsAssumption ==
    /\ MaxShortId \in Nat /\ MaxVersion \in Nat /\ MaxDirt \in Nat
    /\ AutoVacuum \in BOOLEAN
    /\ MinDirtCount \in Nat \ {0} /\ MinDirtPercent \in Nat

VARIABLES
    nextId,         \* next_id
    idToShortId,    \* id_to_short_id
    documentIds,    \* document_ids
    alive,          \* alive, as the set of the live short ids
    documentCount,  \* document_count
    fieldLength,    \* field_length and field_present, Absent when not present
    freq,           \* every Postings: term -> field -> short id -> frequency
    fieldsOf,       \* the fields that have an entry in a term's FieldTermData
    tree,           \* the terms that are keys of the radix tree
    dirtCount,      \* dirt_count
    vacuumState,    \* vacuum_state
    expansions,     \* query_cache: Cold, or the postings its handles name
    idTableVersion, \* id_table_version
    \* History, which only history reads:
    discarded,      \* short ids discarded since the last vacuum run covered them
    changed         \* short ids removed with content they were not indexed with

tables == <<nextId, idToShortId, documentIds, alive, documentCount, fieldLength>>
postings == <<freq, fieldsOf, tree>>
history == <<discarded, changed>>
vars == <<tables, postings, dirtCount, vacuumState, expansions, idTableVersion,
          history>>

\* Cold: neither memo of the ExpansionCache holds an entry.
Cold == <<>>

\* vacuum_state = None.  A run holds the terms not yet visited, the dirt count
\* it will account for and (history) the discarded short ids that count covers.
NoVacuum == [running |-> FALSE, terms |-> {}, initialDirtCount |-> 0, covers |-> {}]

Init ==
    /\ nextId = 0
    /\ idToShortId = [i \in Ids |-> NoShortId]
    /\ documentIds = [d \in ShortIds |-> NoId]
    /\ alive = {}
    /\ documentCount = 0
    /\ fieldLength = [d \in ShortIds |-> NoFields]
    /\ freq = [t \in Terms |-> [f \in Fields |-> [d \in ShortIds |-> 0]]]
    /\ fieldsOf = [t \in Terms |-> {}]
    /\ tree = {}
    /\ dirtCount = 0
    /\ vacuumState = NoVacuum
    /\ expansions = Cold
    /\ idTableVersion = 0
    /\ discarded = {}
    /\ changed = {}

----------------------------------------------------------------------------
(* Operations on the postings, of any postings fr, entries fo and keys tr. *)

\* add_term for every term of a document: the keys and entries it needs are
\* created, and each occurrence increments the document's frequency.
AddFreq(fr, d, words) ==
    [t \in Terms |-> [f \in Fields |->
        [fr[t][f] EXCEPT ![d] = @ + words[t][f]]]]

AddFields(fo, words) ==
    [t \in Terms |-> fo[t] \cup {f \in Fields : words[t][f] > 0}]

AddTree(tr, words) ==
    tr \cup {t \in Terms : \E f \in Fields : words[t][f] > 0}

\* Mutant: a decrement that wraps.
Wrapping(a, b) == a - b

\* Postings::decrement, once per occurrence: a missing posting is a
\* version_conflict, which changes nothing.
Monus(a, b) == IF a > b THEN a - b ELSE 0

RemoveFreq(d, words) ==
    [t \in Terms |-> [f \in Fields |->
        [freq[t][f] EXCEPT ![d] = Monus(@, words[t][f])]]]

\* A posting of d in t and f was there to decrement.
Decremented(d, words, t, f) == words[t][f] > 0 /\ freq[t][f][d] > 0

Empty(fr, t, f) == \A d \in ShortIds : fr[t][f][d] = 0

\* The retain of vacuum_step over the given terms: only postings of documents
\* in keep stay, and the entries and keys this empties go.
RetainFreq(terms, keep) ==
    [t \in Terms |-> [f \in Fields |-> [d \in ShortIds |->
        IF t \in terms /\ d \notin keep THEN 0 ELSE freq[t][f][d]]]]

RetainFields(terms, keep) ==
    [t \in Terms |->
        IF t \in terms
        THEN {f \in fieldsOf[t] : \E d \in keep : freq[t][f][d] > 0}
        ELSE fieldsOf[t]]

\* Mutant: a vacuum that leaves the keys it emptied.
RetainEveryKey(terms, keep) == tree

RetainTree(terms, keep) ==
    {t \in tree : t \in terms => RetainFields(terms, keep)[t] # {}}

Retain(terms, keep) ==
    /\ freq' = RetainFreq(terms, keep)
    /\ fieldsOf' = RetainFields(terms, keep)
    /\ tree' = RetainTree(terms, keep)

----------------------------------------------------------------------------
(* Vacuum.                                                                 *)

\* begin_vacuum: a running vacuum is left alone, otherwise the keys of the
\* tree and the dirt count are captured.
Begun(dirt, disc) ==
    IF vacuumState.running
    THEN vacuumState
    ELSE [running |-> TRUE, terms |-> tree, initialDirtCount |-> dirt, covers |-> disc]

BeginVacuum ==
    /\ vacuumState' = Begun(dirtCount, discarded)
    /\ UNCHANGED <<tables, postings, dirtCount, expansions, idTableVersion, history>>

\* vacuum_step: begins a run when there is none, cleans the next batch, and
\* when no term is left takes the run's dirt off the count (saturating).
VacuumStep(batch) ==
    LET run == Begun(dirtCount, discarded)
        left == run.terms \ batch
    IN  /\ batch \subseteq run.terms
        /\ Retain(batch, alive)
        /\ expansions' = Cold
        /\ IF left # {}
           THEN /\ vacuumState' = [run EXCEPT !.terms = left]
                /\ UNCHANGED <<dirtCount, discarded>>
           ELSE /\ vacuumState' = NoVacuum
                /\ dirtCount' = Monus(dirtCount, run.initialDirtCount)
                /\ discarded' = discarded \ run.covers
        /\ UNCHANGED <<tables, idTableVersion, changed>>

\* auto_vacuum_request, of a dirt count and a document count.
AutoVacuumRequest(dirt, count) ==
    /\ AutoVacuum
    /\ dirt >= MinDirtCount
    /\ 100 * dirt >= MinDirtPercent * (1 + count + dirt)

----------------------------------------------------------------------------
(* Adding and removing documents.                                          *)

\* add, of an id that is not in the index; a duplicate or missing id is an
\* error that changes nothing.
Add(id, doc) ==
    /\ idToShortId[id] = NoShortId
    /\ nextId < MaxShortId
    /\ idTableVersion < MaxVersion
    /\ nextId' = nextId + 1
    /\ idToShortId' = [idToShortId EXCEPT ![id] = nextId]
    /\ documentIds' = [documentIds EXCEPT ![nextId] = id]
    /\ alive' = alive \cup {nextId}
    /\ documentCount' = documentCount + 1
    /\ fieldLength' = [fieldLength EXCEPT ![nextId] = doc.length]
    /\ freq' = AddFreq(freq, nextId, doc.freq)
    /\ fieldsOf' = AddFields(fieldsOf, doc.freq)
    /\ tree' = AddTree(tree, doc.freq)
    /\ expansions' = Cold
    /\ idTableVersion' = idTableVersion + 1
    /\ UNCHANGED <<dirtCount, vacuumState, discarded, changed>>

\* add when no short id is left: the cache is already cleared by then.
AddExhausted(id) ==
    /\ idToShortId[id] = NoShortId
    /\ nextId = MaxShortId
    /\ expansions' = Cold
    /\ UNCHANGED <<tables, postings, dirtCount, vacuumState, idTableVersion, history>>

\* The terms of doc taken out of short id d's postings: remove_term for each.
RemoveTerms(d, doc) ==
    /\ freq' = RemoveFreq(d, doc.freq)
    /\ fieldsOf' = [t \in Terms |->
           {f \in fieldsOf[t] :
               Decremented(d, doc.freq, t, f) => ~Empty(RemoveFreq(d, doc.freq), t, f)}]
    /\ tree' = {t \in tree :
           (\E f \in Fields : Decremented(d, doc.freq, t, f)) => fieldsOf'[t] # {}}
    /\ expansions' = Cold

\* remove_with_warnings, given the document the caller says has this id.
Remove(id, doc) ==
    LET d == idToShortId[id]
    IN  /\ d # NoShortId
        /\ idTableVersion < MaxVersion
        /\ RemoveTerms(d, doc)
        /\ documentIds' = [documentIds EXCEPT ![d] = NoId]
        /\ idToShortId' = [idToShortId EXCEPT ![id] = NoShortId]
        /\ fieldLength' = [fieldLength EXCEPT ![d] = NoFields]
        /\ alive' = alive \ {d}
        /\ documentCount' = documentCount - 1
        /\ idTableVersion' = idTableVersion + 1
        /\ changed' = IF \A t \in Terms, f \in Fields :
                              freq[t][f][d] <= doc.freq[t][f]
                      THEN changed ELSE changed \cup {d}
        /\ UNCHANGED <<nextId, dirtCount, vacuumState, discarded>>

\* remove_fields without finish: the terms go, the document stays.
RemoveFields(id, doc) ==
    LET d == idToShortId[id]
    IN  /\ d # NoShortId
        /\ RemoveTerms(d, doc)
        /\ UNCHANGED <<tables, dirtCount, vacuumState, idTableVersion, discarded, changed>>

\* Mutant: a reset that forgets the posting arena.
KeptPostings == UNCHANGED postings

\* The tables and the postings of a new index.
FreshPostings ==
    /\ freq' = [t \in Terms |-> [f \in Fields |-> [d \in ShortIds |-> 0]]]
    /\ fieldsOf' = [t \in Terms |-> {}]
    /\ tree' = {}

FreshTables ==
    /\ nextId' = 0
    /\ idToShortId' = [i \in Ids |-> NoShortId]
    /\ documentIds' = [d \in ShortIds |-> NoId]
    /\ alive' = {}
    /\ documentCount' = 0
    /\ fieldLength' = [d \in ShortIds |-> NoFields]

\* Mutant: the version of the table starts over with it.
RemoveAllUnversioned ==
    /\ FreshTables /\ FreshPostings
    /\ vacuumState' = NoVacuum /\ expansions' = Cold /\ idTableVersion' = 0
    /\ discarded' = {} /\ changed' = {}
    /\ UNCHANGED dirtCount

\* remove_all_documents: a new index that keeps the dirt count.
RemoveAllDocuments ==
    /\ idTableVersion < MaxVersion
    /\ FreshTables /\ FreshPostings
    /\ vacuumState' = NoVacuum
    /\ expansions' = Cold
    /\ idTableVersion' = idTableVersion + 1
    /\ discarded' = {}
    /\ changed' = {}
    /\ UNCHANGED dirtCount

\* maybe_auto_vacuum once the documents `gone` are discarded.
AutoVacuums(gone, auto) ==
    /\ auto
    /\ AutoVacuumRequest(dirtCount + Cardinality(gone), documentCount - Cardinality(gone))

\* The run it completes before the call returns.
AutoRun(gone) == Begun(dirtCount + Cardinality(gone), discarded \cup gone)

\* The terms it visits: none when there is no request.
AutoVacuumTerms(gone, auto) ==
    IF AutoVacuums(gone, auto) THEN AutoRun(gone).terms ELSE {}

\* Each discarded document adds to the dirt; the vacuum takes its run's off.
DiscardDirt(gone, auto) ==
    IF AutoVacuums(gone, auto)
    THEN /\ dirtCount' = Monus(dirtCount + Cardinality(gone), AutoRun(gone).initialDirtCount)
         /\ discarded' = (discarded \cup gone) \ AutoRun(gone).covers
         /\ vacuumState' = NoVacuum
    ELSE /\ dirtCount' = dirtCount + Cardinality(gone)
         /\ discarded' = discarded \cup gone
         /\ UNCHANGED vacuumState

\* discard_without_auto_vacuum for each of the live documents `gone`, then
\* maybe_auto_vacuum (auto).
DiscardDocuments(gone, auto) ==
    /\ idTableVersion + Cardinality(gone) <= MaxVersion
    /\ dirtCount + Cardinality(gone) <= MaxDirt
    /\ idToShortId' = [i \in Ids |->
           IF idToShortId[i] \in gone THEN NoShortId ELSE idToShortId[i]]
    /\ documentIds' = [d \in ShortIds |-> IF d \in gone THEN NoId ELSE documentIds[d]]
    /\ fieldLength' = [d \in ShortIds |-> IF d \in gone THEN NoFields ELSE fieldLength[d]]
    /\ alive' = alive \ gone
    /\ documentCount' = documentCount - Cardinality(gone)
    /\ DiscardDirt(gone, auto)
    /\ Retain(AutoVacuumTerms(gone, auto), alive \ gone)
    /\ idTableVersion' = idTableVersion + Cardinality(gone)
    /\ UNCHANGED <<nextId, changed>>

\* Mutant: the vacuum of a discard does not clear the cache.
DiscardKeepingCache(gone, auto) ==
    DiscardDocuments(gone, auto) /\ UNCHANGED expansions

\* discard, discard_all and their _deferred forms (~auto).  A discard_all that
\* meets an unknown id has discarded the ids before it and does not vacuum.
\* Discarding leaves the postings, and the handles the cache has on them.
Discard(gone, auto) ==
    /\ DiscardDocuments(gone, auto)
    /\ expansions' = IF AutoVacuums(gone, auto) THEN Cold ELSE expansions

\* replace and replace_deferred: discard (with its vacuum), then add.
Replace(id, doc, auto) ==
    LET d == idToShortId[id]
        terms == AutoVacuumTerms({d}, auto)
        keep == alive \ {d}
    IN  /\ d # NoShortId
        /\ nextId < MaxShortId
        /\ idTableVersion + 2 <= MaxVersion
        /\ dirtCount < MaxDirt
        /\ nextId' = nextId + 1
        /\ idToShortId' = [idToShortId EXCEPT ![id] = nextId]
        /\ documentIds' = [documentIds EXCEPT ![d] = NoId, ![nextId] = id]
        /\ fieldLength' = [fieldLength EXCEPT ![d] = NoFields, ![nextId] = doc.length]
        /\ alive' = keep \cup {nextId}
        /\ DiscardDirt({d}, auto)
        /\ freq' = AddFreq(RetainFreq(terms, keep), nextId, doc.freq)
        /\ fieldsOf' = AddFields(RetainFields(terms, keep), doc.freq)
        /\ tree' = AddTree(RetainTree(terms, keep), doc.freq)
        /\ expansions' = Cold
        /\ idTableVersion' = idTableVersion + 2
        /\ UNCHANGED <<documentCount, changed>>

\* replace when no short id is left: the discard stands, the add fails.
ReplaceExhausted(id, auto) ==
    /\ idToShortId[id] # NoShortId
    /\ nextId = MaxShortId
    /\ DiscardDocuments({idToShortId[id]}, auto)
    /\ expansions' = Cold

----------------------------------------------------------------------------
(* Compaction and snapshots.                                               *)

\* The live short ids in ascending order, by their new short id.
Renumbering ==
    {old \in [0 .. documentCount - 1 -> alive] :
        /\ \A m, n \in 0 .. documentCount - 1 : m < n => old[m] < old[n]
        /\ \A d \in alive : \E n \in 0 .. documentCount - 1 : old[n] = d}

\* compact: refused while stale postings may exist, and nothing to do when the
\* short ids are dense.  Postings of short ids without a document are dropped.
Compact ==
    /\ ~vacuumState.running /\ dirtCount = 0
    /\ nextId # documentCount
    /\ idTableVersion < MaxVersion
    /\ \E old \in Renumbering :
        /\ nextId' = documentCount
        /\ documentIds' = [n \in ShortIds |->
               IF n < documentCount THEN documentIds[old[n]] ELSE NoId]
        /\ idToShortId' = [i \in Ids |->
               IF idToShortId[i] = NoShortId THEN NoShortId
               ELSE CHOOSE n \in DOMAIN old : old[n] = idToShortId[i]]
        /\ fieldLength' = [n \in ShortIds |->
               IF n < documentCount THEN fieldLength[old[n]] ELSE NoFields]
        /\ alive' = 0 .. documentCount - 1
        /\ freq' = [t \in Terms |-> [f \in Fields |-> [n \in ShortIds |->
               IF n < documentCount THEN freq[t][f][old[n]] ELSE 0]]]
        /\ fieldsOf' = RetainFields(tree, alive)
        /\ tree' = RetainTree(tree, alive)
    /\ expansions' = Cold
    /\ idTableVersion' = idTableVersion + 1
    /\ discarded' = {} /\ changed' = {}
    /\ UNCHANGED <<documentCount, dirtCount, vacuumState>>

\* Mutant: a snapshot without the dirt count.
ReloadClean ==
    /\ vacuumState' = NoVacuum /\ expansions' = Cold /\ idTableVersion' = 0
    /\ dirtCount' = 0
    /\ UNCHANGED <<tables, postings, history>>

\* A snapshot written and read back: the vacuum state, the cache and the
\* version of the id table are not in it, the dirt count is.
Reload ==
    /\ vacuumState' = NoVacuum
    /\ expansions' = Cold
    /\ idTableVersion' = 0
    /\ UNCHANGED <<tables, postings, dirtCount, history>>

----------------------------------------------------------------------------
(* Queries.                                                                *)

\* Mutant: a document without a length for the field is scored all the same.
ScoredAnyLength(t, f, zeroAverages) ==
    {d \in ShortIds :
        /\ freq[t][f][d] > 0
        /\ dirtCount = 0 \/ d \in alive
        /\ f \notin zeroAverages}

\* term_results and accumulate_dense, without boostDocument: a clean index
\* skips the liveness check, and a document is passed over when its field has
\* no length or the field is one of those whose average length is 0.0.
Scored(t, f, zeroAverages) ==
    {d \in ShortIds :
        /\ freq[t][f][d] > 0
        /\ dirtCount = 0 \/ d \in alive
        /\ fieldLength[d][f] > 0
        /\ f \notin zeroAverages}

\* The query met a stale posting: the stale flag is raised.
StaleHit(terms, fields) ==
    /\ dirtCount # 0
    /\ \E t \in terms, f \in fields, d \in ShortIds \ alive : freq[t][f][d] > 0

\* prefix_expansions and fuzzy_expansions: a query that misses the memo keeps
\* handles to the postings it walked over.
Search ==
    /\ expansions = Cold
    /\ expansions' = postings
    /\ UNCHANGED <<tables, postings, dirtCount, vacuumState, idTableVersion, history>>

\* term_results_lazy for the derived terms of an exact query: the query is
\* redone when the fast path raised the flag, and with boostDocument it is
\* only done here.  Each stale posting met loses one occurrence.
SearchExact(terms, fields, boosting) ==
    LET Met(t, f, d) == t \in terms /\ f \in fields /\ d \notin alive
    IN  /\ boosting \/ StaleHit(terms, fields)
        /\ freq' = [t \in Terms |-> [f \in Fields |-> [d \in ShortIds |->
               IF Met(t, f, d) THEN Monus(freq[t][f][d], 1) ELSE freq[t][f][d]]]]
        /\ fieldsOf' = [t \in Terms |->
               {f \in fieldsOf[t] :
                   (t \in terms /\ f \in fields) =>
                       \E d \in ShortIds :
                           freq[t][f][d] > IF Met(t, f, d) THEN 1 ELSE 0}]
        /\ tree' = {t \in tree : t \in terms => fieldsOf'[t] # {}}
        /\ expansions' = Cold
        /\ UNCHANGED <<tables, dirtCount, vacuumState, idTableVersion, history>>

----------------------------------------------------------------------------
Next ==
    \/ \E id \in Ids, doc \in Contents : Add(id, doc)
    \/ \E id \in Ids : AddExhausted(id)
    \/ \E id \in Ids, doc \in Contents : Remove(id, doc)
    \/ \E id \in Ids, doc \in Contents : RemoveFields(id, doc)
    \/ RemoveAllDocuments
    \/ \E gone \in SUBSET alive, auto \in BOOLEAN : Discard(gone, auto)
    \/ \E id \in Ids, doc \in Contents, auto \in BOOLEAN : Replace(id, doc, auto)
    \/ \E id \in Ids, auto \in BOOLEAN : ReplaceExhausted(id, auto)
    \/ BeginVacuum
    \/ \E batch \in SUBSET Terms : VacuumStep(batch)
    \/ Compact
    \/ Reload
    \/ Search
    \/ \E terms \in SUBSET Terms \ {{}}, fields \in SUBSET Fields \ {{}},
           boosting \in BOOLEAN : SearchExact(terms, fields, boosting)

Spec == Init /\ [][Next]_vars

----------------------------------------------------------------------------
(* Properties.                                                             *)

\* The types of the variables, and the two bookkeeping records' shapes.
TypeOK ==
    /\ nextId \in 0 .. MaxShortId
    /\ idToShortId \in [Ids -> ShortIds \cup {NoShortId}]
    /\ documentIds \in [ShortIds -> Ids \cup {NoId}]
    /\ alive \subseteq 0 .. nextId - 1
    /\ documentCount \in Nat
    /\ fieldLength \in [ShortIds -> [Fields -> Nat \cup {Absent}]]
    /\ freq \in [Terms -> [Fields -> [ShortIds -> Nat]]]
    /\ fieldsOf \in [Terms -> SUBSET Fields]
    /\ tree \subseteq Terms
    /\ dirtCount \in Nat
    /\ vacuumState \in [running : BOOLEAN, terms : SUBSET Terms,
                        initialDirtCount : Nat, covers : SUBSET ShortIds]
    /\ idTableVersion \in Nat
    /\ discarded \subseteq ShortIds
    /\ changed \subseteq ShortIds

\* The documents the index holds, read off its postings.
IndexedDocuments ==
    [i \in Ids |->
        IF idToShortId[i] = NoShortId
        THEN NoDocument
        ELSE [t \in Terms |-> [f \in Fields |-> freq[t][f][idToShortId[i]]]]]

D == INSTANCE Documents WITH docs <- IndexedDocuments, Words <- {c.freq : c \in Contents}

\* The index implements the map of documents: each document keeps exactly the
\* terms it was indexed with until an operation names it.  No vacuum, lazy
\* cleanup, compaction or reload touches a live document's term frequencies,
\* and no new document inherits a stale posting of its short id.
ImplementsDocuments == D!Spec

\* A query finds no dead document, whichever liveness check it runs: on a clean
\* index the check is skipped, yet no stale posting left by a changed removal
\* comes back as a result.  And it finds every live document that holds the
\* term in a field whose average length is not zero, whatever the averages are.
\* (A field whose average is zero is passed over, live documents included:
\* ExactSearch has the averages and shows when that happens.)
QueriesFindLiveDocuments ==
    \A zeroAverages \in SUBSET Fields, t \in Terms, f \in Fields :
        LET found == Scored(t, f, zeroAverages)
        IN  /\ found \subseteq alive
            /\ f \notin zeroAverages => {d \in alive : freq[t][f][d] > 0} \subseteq found

\* While the dirt count is zero, the only stale postings are those of documents
\* removed with content they were not indexed with (the corruption remove's
\* warning speaks of).  Every other stale posting is paid for in dirt: by a
\* discard that no completed run has covered, however runs, discards during a
\* run, resets and reloads interleave.
CleanUnlessChanged ==
    dirtCount = 0 =>
        \A t \in Terms, f \in Fields, d \in ShortIds :
            freq[t][f][d] > 0 => d \in alive \cup changed

\* What validate_snapshot and the inline checks of from_bytes demand of the
\* tables and the tree holds of every state the engine reaches: document counts
\* and id maps agree, a field row belongs to a live document, no key or entry
\* is empty, postings stay below next_id, and a live document's posting is of a
\* field with tokens.  The loader's limits are outside it: the sizes of the
\* tables, the depth of keys and values, finite averages and the reader's budget
\* (Persistence has the decoder, and shows a snapshot that the budget refuses).
SnapshotLoads ==
    /\ documentCount = Cardinality({d \in ShortIds : documentIds[d] # NoId})
    /\ documentCount = Cardinality({i \in Ids : idToShortId[i] # NoShortId})
    /\ documentCount <= nextId
    /\ \A d \in ShortIds : documentIds[d] # NoId =>
           d < nextId /\ idToShortId[documentIds[d]] = d
    /\ \A d \in ShortIds, f \in Fields :
           fieldLength[d][f] # Absent => documentIds[d] # NoId
    /\ \A t \in tree : fieldsOf[t] # {}
    /\ \A t \in tree : \A f \in fieldsOf[t] : ~Empty(freq, t, f)
    /\ \A t \in Terms, f \in Fields, d \in ShortIds : freq[t][f][d] > 0 =>
           /\ t \in tree /\ f \in fieldsOf[t]
           /\ d < nextId
           /\ documentIds[d] # NoId => fieldLength[d][f] > 0

\* A warm expansion cache names the postings as they are: every operation that
\* writes postings clears it first, so no query scores a replaced posting list.
CachedHandlesCurrent == expansions # Cold => expansions = postings

\* Raw results name documents by short id and carry the version of the id
\* table: whenever the table changes, its version does, so that a consumer who
\* sees an unchanged version may keep its copy.  A reload is a new instance.
IdTableVersioned ==
    [][\/ Reload
       \/ /\ idTableVersion' >= idTableVersion
          /\ documentIds' # documentIds => idTableVersion' > idTableVersion]_vars
============================================================================
