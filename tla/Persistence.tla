----------------------------- MODULE Persistence -----------------------------
(***************************************************************************)
(* The life of an index across processes: an engine takes documents in and *)
(* out, is written to a file, the process ends, the file may come to harm, *)
(* and another process reads it, at once or (MiniSearch's JSON) entry by   *)
(* entry between timers, or finds it unreadable and starts again.          *)
(*                                                                         *)
(* The engine is the one of mini_search.rs as far as it is written: with   *)
(* its radix tree node by node, which SearchIndex takes as a set.          *)
(***************************************************************************)
EXTENDS SnapshotFormats

CONSTANTS
    Ids,            \* the ids documents are added with
    Contents,       \* what a document holds, per field: [length, terms]
    StoredValues,   \* what its stored fields are: functions on subsets of StoreNames
    MaxNext,        \* bounds the short ids handed out
    MaxDirt         \* bounds the discards

VARIABLES
    engine,         \* the index in memory, or None
    file,           \* the file on disk, or None; "of" is the index it was
                    \* written from, None once the file has been changed
    loader,         \* a MiniSearch JSON load in progress, or None
    damaged         \* the index comes from a file that had been changed

vars == <<engine, file, loader, damaged>>

Running == engine # None

-----------------------------------------------------------------------------
(* The engine's operations.                                                *)

Without(function, x) == [y \in DOMAIN function \ {x} |-> function[y]]
With(function, x, value) == [y \in DOMAIN function \cup {x} |-> IF y = x THEN value ELSE function[y]]

\* A posting list without the document, or with its frequency changed by one.
Others(postings, s) == LET Other(p) == p.at # s IN SelectSeq(postings, Other)
FreqIn(postings, s) ==
    LET found == {i \in DOMAIN postings : postings[i].at = s}
    IN IF found = {} THEN 0 ELSE postings[CHOOSE i \in found : TRUE].freq
ByPosition(a, b) == a.at < b.at
WithFreq(postings, s, freq) ==
    IF freq = 0 THEN Others(postings, s)
    ELSE SortSeq(Append(Others(postings, s), [at |-> s, freq |-> freq]), ByPosition)

PostingsIn(leaf, field) ==
    LET found == {i \in DOMAIN leaf : leaf[i].field = field}
    IN IF leaf = None \/ found = {} THEN <<>> ELSE leaf[CHOOSE i \in found : TRUE].postings
ByField(a, b) == a.field < b.field
WithPostings(leaf, field, postings) ==
    LET Other(entry) == entry.field # field
        others == SelectSeq(leaf, Other)
    IN IF postings = <<>> THEN others
       ELSE SortSeq(Append(others, [field |-> field, postings |-> postings]), ByField)

LeafOf(tree, term) == Tree!Lookup(tree, term)

\* add_term: one more occurrence.
AddTerm(tree, s, field, term) ==
    LET old == LeafOf(tree, term)
        leaf == IF old = None THEN <<>> ELSE old
        postings == PostingsIn(leaf, field)
        new == WithPostings(leaf, field, WithFreq(postings, s, FreqIn(postings, s) + 1))
    IN Tree!WritePath(tree, term, [l \in {old} |-> new])

\* A term's leaf is replaced, or the term leaves the tree with its last posting.
WithLeaf(tree, term, leaf) ==
    IF leaf = <<>> THEN Tree!DeletePath(tree, term)
    ELSE Tree!WritePath(tree, term, [l \in {LeafOf(tree, term)} |-> leaf])

\* remove_term: one occurrence less, if it is there.
RemoveTerm(tree, s, field, term) ==
    LET leaf == LeafOf(tree, term)
        postings == PostingsIn(leaf, field)
        freq == FreqIn(postings, s)
    IN IF leaf = None \/ freq = 0 THEN tree
       ELSE WithLeaf(tree, term, WithPostings(leaf, field, WithFreq(postings, s, freq - 1)))

\* The occurrences of a document, field by field.
Occurrences(content) ==
    FlattenSeq([i \in 1..NFields |->
        [j \in DOMAIN content[i - 1].terms |-> [field |-> i - 1, term |-> content[i - 1].terms[j]]]])

HasField(content, f) == content[f].length # Absent

Added(index, id, content, stored) ==
    LET s == index.next
        AddTo(tree, o) == AddTerm(tree, s, o.field, o.term)
    IN [index EXCEPT
           !.count = @ + 1, !.next = @ + 1,
           !.ids = With(@, s, id), !.shortIds = With(@, id, s), !.alive = @ \cup {s},
           !.length = [sf \in (0..s) \X Fields |->
                          IF sf[1] = s THEN content[sf[2]].length ELSE index.length[sf]],
           !.average = [f \in Fields |-> IF HasField(content, f) THEN "some" ELSE @[f]],
           !.stored = IF index.external \/ stored = <<>> THEN @ ELSE With(@, s, stored),
           !.tree = FoldLeft(AddTo, @, Occurrences(content))]

\* remove_field_length: the last document resets an average.
Shrunk(index, present) ==
    [f \in Fields |-> IF f \notin present THEN index.average[f]
                      ELSE IF index.count <= 1 THEN "zero" ELSE "some"]

\* The document leaves the tables.
Gone(index, s) ==
    [index EXCEPT !.count = @ - 1, !.ids = Without(@, s), !.shortIds = Without(@, index.ids[s]),
                  !.alive = @ \ {s}, !.stored = Without(@, s),
                  !.length = [sf \in DOMAIN @ |-> IF sf[1] = s THEN Absent ELSE @[sf]]]

\* A removal goes by the content it is given.
Removed(index, s, content) ==
    LET RemoveFrom(tree, o) == RemoveTerm(tree, s, o.field, o.term)
    IN [Gone(index, s) EXCEPT !.average = Shrunk(index, {f \in Fields : HasField(content, f)}),
                              !.tree = FoldLeft(RemoveFrom, @, Occurrences(content))]

\* A discard leaves the postings for later.
Discarded(index, s) ==
    [Gone(index, s) EXCEPT !.average = Shrunk(index, {f \in Fields : index.length[s, f] # Absent}),
                           !.dirt = @ + 1]

\* The postings of dead documents leave a leaf; compaction renumbers the others.
Kept(leaf, alive, number) ==
    LET Alive(p) == p.at \in alive
        Renumbered(postings) == [i \in DOMAIN postings |-> [postings[i] EXCEPT !.at = number[@]]]
        Live(entry) == [entry EXCEPT !.postings = Renumbered(SelectSeq(@, Alive))]
        NotEmpty(entry) == entry.postings # <<>>
    IN SelectSeq([i \in DOMAIN leaf |-> Live(leaf[i])], NotEmpty)

TermsOf(tree) == LET entries == Tree!Entries(tree, <<>>) IN [i \in DOMAIN entries |-> entries[i].key]

\* A whole vacuum run: each term in the order of the iterator.
Vacuumed(index) ==
    LET same == [s \in index.alive |-> s]
        Clean(tree, term) == WithLeaf(tree, term, Kept(LeafOf(tree, term), index.alive, same))
    IN [index EXCEPT !.tree = FoldLeft(Clean, @, TermsOf(@)), !.dirt = 0]

\* rekey_short_ids: outside the engine a document is known by its short id.
Rekeyed(index) ==
    IF index.external
    THEN [index EXCEPT !.ids = [s \in DOMAIN @ |-> s], !.shortIds = [s \in DOMAIN index.ids |-> s]]
    ELSE index

\* compact: the postings first, then the emptied terms.
Compacted(index) ==
    LET shorts == Ascending(DOMAIN index.ids)
        number == [s \in DOMAIN index.ids |-> (CHOOSE i \in DOMAIN shorts : shorts[i] = s) - 1]
        Moved(function) == [n \in {number[s] : s \in DOMAIN function} |-> function[shorts[n + 1]]]
        Fresh(term) == Kept(LeafOf(index.tree, term), DOMAIN index.ids, number)
        Write(tree, term) == Tree!WritePath(tree, term, [l \in {LeafOf(index.tree, term)} |-> Fresh(term)])
        Emptied(term) == Fresh(term) = <<>>
        Delete(tree, term) == Tree!DeletePath(tree, term)
        terms == TermsOf(index.tree)
    IN [index EXCEPT
           !.next = index.count,
           !.ids = Moved(@), !.stored = Moved(@),
           !.shortIds = [id \in DOMAIN @ |-> number[@[id]]],
           !.alive = 0..index.count - 1,
           !.length = [sf \in (0..index.count - 1) \X Fields |-> @[shorts[sf[1] + 1], sf[2]]],
           !.tree = FoldLeft(Delete, FoldLeft(Write, @, terms), SelectSeq(terms, Emptied))]

\* externalize: ids become the short ids, stored fields leave.
Externalized(index) == Rekeyed([index EXCEPT !.stored = <<>>, !.external = TRUE])

Mutate(index) == engine' = index /\ UNCHANGED <<file, loader, damaged>>

Add(id, content, stored) ==
    /\ Running /\ engine.next < MaxNext
    /\ id \in IF engine.external THEN {engine.next} ELSE Ids
    /\ id \notin DOMAIN engine.shortIds
    /\ Mutate(Added(engine, id, content, stored))

RemoveDocument(s, content) ==
    Running /\ s \in engine.alive /\ Mutate(Removed(engine, s, content))
Discard(s) ==
    Running /\ s \in engine.alive /\ engine.dirt < MaxDirt /\ Mutate(Discarded(engine, s))
RemoveAllDocuments ==
    Running /\ Mutate([NewIndex(engine.external) EXCEPT !.dirt = engine.dirt])
Vacuum == Running /\ Mutate(Vacuumed(engine))
Compact ==
    /\ Running
    /\ engine.dirt = 0 /\ engine.next # engine.count
    /\ Mutate(Rekeyed(Compacted(engine)))
Externalize == Running /\ ~engine.external /\ Mutate(Externalized(engine))

-----------------------------------------------------------------------------
(* Saving: the file holds the index, and the process ends.  The binary and *)
(* the native JSON writer refuse an index beyond the limits.  Version 4    *)
(* files were written by an earlier release, version 1 by an earlier       *)
(* MiniSearch.                                                             *)

Written(format, version) ==
    CASE format = "binary" -> WriteBinary(engine, version)
      [] format = "json" -> WriteJSON(engine)
      [] format = "minisearch" -> WriteMiniSearch(engine, version)

Save(format, version) ==
    /\ Running
    /\ format # "minisearch" => Persistable(engine)
    /\ version = 4 => ~engine.external
    /\ file' = [format |-> format, body |-> Written(format, version), of |-> engine,
                external |-> engine.external]
    /\ engine' = None
    /\ UNCHANGED <<loader, damaged>>

Formats == {<<"binary", 5>>, <<"binary", 4>>, <<"json", 5>>, <<"minisearch", 2>>, <<"minisearch", 1>>}

-----------------------------------------------------------------------------
(* One value of the file is not the one that was written.                  *)

\* "places": what a posting's place in its list may become.
DamagedPosting(p, places) ==
    {[p EXCEPT !.at = at] : at \in places \ {p.at}}
    \cup IF "plain" \in DOMAIN p /\ p.plain
         THEN {[p EXCEPT !.plain = FALSE, !.freq = n] : n \in 0..1}
         ELSE {[p EXCEPT !.freq = 0]}

DamagedLeaf(leaf, places) ==
    {<<>>} \cup UNION {
        {[leaf EXCEPT ![i].field = f] : f \in 0..NFields} \cup {[leaf EXCEPT ![i].postings = <<>>]}
        \cup UNION {{[leaf EXCEPT ![i].postings[j] = p] : p \in DamagedPosting(leaf[i].postings[j], places)}
                    : j \in DOMAIN leaf[i].postings}
        : i \in DOMAIN leaf}

RECURSIVE DamagedNodes(_, _, _)
DamagedNodes(node, noLeaf, places) ==
    {[node EXCEPT !.pos = Len(node.kids) + 1], [node EXCEPT !.leaf = noLeaf]}
    \cup (IF node.leaf = noLeaf THEN {} ELSE {[node EXCEPT !.leaf = l] : l \in DamagedLeaf(node.leaf, places)})
    \cup UNION {
        {[node EXCEPT !.kids[i].edge = e] : e \in {<<>>, node.kids[1].edge}}
        \cup {[node EXCEPT !.kids[i].node = n] : n \in DamagedNodes(node.kids[i].node, noLeaf, places)}
        : i \in DOMAIN node.kids}

\* Numbers and averages in a file's or an index's own fields.
DamagedTables(f) ==
    {[f EXCEPT !.next = n] : n \in {f.next - 1, f.next + 1}} \cup {[f EXCEPT !.dirt = @ + 1]}
    \cup {[f EXCEPT !.average[0] = "nonfinite"]}

DamagedIds(ids) ==
    UNION {{[ids EXCEPT ![s] = id] : id \in Ids \cup {Null}} : s \in DOMAIN ids}

DamagedBinary(b) ==
    {[b EXCEPT !.version = v] : v \in {3, 6}}
    \cup DamagedTables(b)
    \cup UNION {
        {[b EXCEPT !.rows[i].delta = d] : d \in {0, b.next}}
        \cup (IF b.external THEN {} ELSE {[b EXCEPT !.rows[i].id = id] : id \in Ids \cup {Null}})
        \cup {[b EXCEPT !.rows[i].lengths[f] = n] : f \in Fields, n \in 0..2}
        \cup {[b EXCEPT !.rows[i].stored[j].name = Null] : j \in DOMAIN b.rows[i].stored}
        : i \in DOMAIN b.rows}
    \cup {[b EXCEPT !.tree = n] : n \in DamagedNodes(b.tree, <<>>, {0, b.next})}

DamagedJSON(b) ==
    {[b EXCEPT !.version = v] : v \in {3, 6}}
    \cup {[b EXCEPT !.index = x] : x \in DamagedTables(b.index)}
    \cup {[b EXCEPT !.index.count = @ + 1]}
    \cup {[b EXCEPT !.index.ids = ids] : ids \in DamagedIds(b.index.ids)}
    \cup {[b EXCEPT !.index.shortIds[id] = s] : id \in DOMAIN b.index.shortIds, s \in 0..b.index.next}
    \cup {[b EXCEPT !.index.length[sf] = n] : sf \in DOMAIN b.index.length, n \in -1..1}
    \cup {[b EXCEPT !.index.tree = n] : n \in DamagedNodes(b.index.tree, None, {b.index.next})}

DamagedMiniSearch(b) ==
    {[b EXCEPT !.version = 3], [b EXCEPT !.ds = ~@], [b EXCEPT !.count = @ + 1]}
    \cup DamagedTables(b)
    \cup {[b EXCEPT !.ids = ids] : ids \in DamagedIds(b.ids)}
    \cup {[b EXCEPT !.ids = Without(@, s)] : s \in DOMAIN b.ids}
    \cup {[b EXCEPT !.lengths[s] = n] : s \in DOMAIN b.lengths, n \in {<<>>, <<0>>, [i \in 1..NFields + 1 |-> 1]}}
    \cup {[b EXCEPT !.stored[s] = Null :> Null] : s \in DOMAIN b.stored}
    \cup UNION {{[b EXCEPT !.terms[i].value = l] : l \in DamagedLeaf(b.terms[i].value, {b.next})}
                \cup {[b EXCEPT !.terms[i].key = <<>>]} : i \in DOMAIN b.terms}

DamagedBodies ==
    CASE file.format = "binary" -> DamagedBinary(file.body)
      [] file.format = "json" -> DamagedJSON(file.body)
      [] file.format = "minisearch" -> DamagedMiniSearch(file.body)

Damage ==
    /\ file # None /\ loader = None /\ ~damaged
    /\ \E body \in DamagedBodies \ {file.body} : file' = [file EXCEPT !.body = body, !.of = None]
    /\ damaged' = TRUE
    /\ UNCHANGED <<engine, loader>>

-----------------------------------------------------------------------------
(* Loading.  A file that is refused is given up, and its documents indexed *)
(* anew by an empty engine.                                                *)

Open(index) == engine' = index /\ file' = None /\ loader' = None /\ UNCHANGED damaged
Refuse == engine' = NewIndex(FALSE) /\ file' = None /\ loader' = None /\ damaged' = FALSE

LoadBytes ==
    /\ file # None /\ file.format = "binary"
    /\ \/ AcceptsBinary(file.body) /\ Open(ReadBinary(file.body))
       \/ ~AcceptsBinary(file.body) /\ Refuse

LoadJSON ==
    /\ file # None /\ file.format = "json"
    /\ \/ AcceptsJSON(file.body) /\ Open(ReadJSON(file.body))
       \/ ~AcceptsJSON(file.body) /\ Refuse

\* start_minisearch_json.  With "external" the ids and the stored fields are
\* handed to the facade as text.
Started(external) ==
    [index |-> [NewIndex(external) EXCEPT
                   !.count = file.body.count, !.next = file.body.next, !.dirt = file.body.dirt,
                   !.length = [sf \in (0..file.body.next - 1) \X Fields |-> Absent],
                   !.average = [f \in Fields |-> IF file.body.average[f] = "null" THEN "zero"
                                                 ELSE file.body.average[f]]],
     documents |-> DOMAIN file.body.ids,
     lengths |-> DOMAIN file.body.lengths,
     stored |-> IF external THEN {} ELSE DOMAIN file.body.stored,
     terms |-> file.body.terms]

StartLoad(external) ==
    /\ file # None /\ file.format = "minisearch" /\ loader = None
    /\ file.external => external
    /\ \/ AcceptsHeader(file.body) /\ loader' = Started(external) /\ UNCHANGED <<engine, file, damaged>>
       \/ ~AcceptsHeader(file.body) /\ Refuse

Continue(next) == loader' = next /\ UNCHANGED <<engine, file, damaged>>

\* The maps come in the order of a hash table.
ReadDocument(s) ==
    /\ loader # None /\ s \in loader.documents
    /\ LET id == IF loader.index.external THEN s ELSE file.body.ids[s]
           ok == s < loader.index.next /\ id # Null /\ id \notin DOMAIN loader.index.shortIds
       IN \/ ok /\ Continue([loader EXCEPT !.documents = @ \ {s}, !.index.ids = With(@, s, id),
                                           !.index.shortIds = With(@, id, s), !.index.alive = @ \cup {s}])
          \/ ~ok /\ Refuse

ReadLengths(s) ==
    /\ loader # None /\ loader.documents = {} /\ s \in loader.lengths
    /\ LET lengths == file.body.lengths[s]
           ok == s \in loader.index.alive /\ Len(lengths) <= NFields
       IN \/ ok /\ Continue([loader EXCEPT !.lengths = @ \ {s},
                 !.index.length = [sf \in DOMAIN @ |->
                     IF sf[1] = s /\ sf[2] < Len(lengths) THEN lengths[sf[2] + 1] ELSE @[sf]]])
          \/ ~ok /\ Refuse

ReadStored(s) ==
    /\ loader # None /\ loader.documents = {} /\ loader.lengths = {} /\ s \in loader.stored
    /\ \/ /\ s \in loader.index.alive
          /\ Continue([loader EXCEPT !.stored = @ \ {s}, !.index.stored = With(@, s, file.body.stored[s])])
       \/ s \notin loader.index.alive /\ Refuse

MapsRead == loader # None /\ loader.documents = {} /\ loader.lengths = {} /\ loader.stored = {}

ReadTerm ==
    /\ MapsRead /\ loader.terms # <<>>
    /\ LET entry == Head(loader.terms)
           Sorted(field) == [field EXCEPT !.postings = SortSeq(@, ByPosition)]
           leaf == SortSeq([i \in DOMAIN entry.value |-> Sorted(entry.value[i])], ByField)
       IN \/ /\ AcceptsTerm(file.body, entry)
             /\ Continue([loader EXCEPT !.terms = Tail(@),
                    !.index.tree = Tree!WritePath(@, entry.key, [l \in {LeafOf(@, entry.key)} |-> leaf])])
          \/ ~AcceptsTerm(file.body, entry) /\ Refuse

FinishLoad ==
    /\ MapsRead /\ loader.terms = <<>>
    /\ \/ Valid(loader.index) /\ Open(loader.index)
       \/ ~Valid(loader.index) /\ Refuse

\* The process ends, or a timer fails, between two batches.
Abandon == loader # None /\ Continue(None)

-----------------------------------------------------------------------------

Init == engine = NewIndex(FALSE) /\ file = None /\ loader = None /\ damaged = FALSE

Next ==
    \/ \E id \in Ids \cup 0..MaxNext - 1, content \in Contents, stored \in StoredValues :
           Add(id, content, stored)
    \/ \E s \in 0..MaxNext - 1 : Discard(s) \/ \E content \in Contents : RemoveDocument(s, content)
    \/ RemoveAllDocuments \/ Vacuum \/ Compact \/ Externalize
    \/ \E format \in Formats : Save(format[1], format[2])
    \/ Damage
    \/ LoadBytes \/ LoadJSON
    \/ \E external \in BOOLEAN : StartLoad(external)
    \/ \E s \in 0..MaxNext : ReadDocument(s) \/ ReadLengths(s) \/ ReadStored(s)
    \/ ReadTerm \/ FinishLoad \/ Abandon

Spec == Init /\ [][Next]_vars

-----------------------------------------------------------------------------
(* Properties.                                                             *)

\* The tables of an engine, a file or a load agree: one of them holds the
\* index, and an engine's liveness table is that of its ids.
TypeOK ==
    /\ Running <=> file = None
    /\ loader # None => file # None /\ file.format = "minisearch"
    /\ Running => engine.alive = DOMAIN engine.ids /\ engine.next \in 0..MaxNext + 1

\* "In-memory state was built by this engine or validated when loaded": every
\* engine, one read from a changed file that was accepted included, and after
\* whatever it does next, passes the full validation that debug builds run
\* before a write and after a binary load.
EngineIsValid == Running /\ Persistable(engine) => Valid(engine)

\* What a file within the limits gives back: the index as it was written, or,
\* from MiniSearch's JSON, with its terms set again one by one.
Reset(node, entry) == Tree!WritePath(node, entry.key, [l \in {LeafOf(node, entry.key)} |-> entry.value])
Restored(index, format, external) ==
    LET same == IF external /\ ~index.external THEN Externalized(index) ELSE index
    IN IF format # "minisearch" THEN index
       ELSE [same EXCEPT !.tree = FoldLeft(Reset, Tree!EmptyNode, Tree!Entries(@, <<>>))]

\* A file nobody changed is never refused and loads as the index that was
\* saved, whatever the order of its maps and however often a load is given up.
LoadRestores ==
    [][file # None /\ file.of # None /\ Persistable(file.of) /\ file' = None
       => engine' = Restored(file.of, file.format, engine'.external)]_vars

\* The comment on check_persistable: what is saved can be loaded again.
SavedIsLoadable ==
    file # None /\ file.of # None /\ file.format = "binary" => AcceptsBinary(file.body)
=============================================================================
