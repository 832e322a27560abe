------------------------------- MODULE Facade -------------------------------
(***************************************************************************)
(* The identity of documents in the JavaScript facade,                     *)
(* src/js/minisearch.js.  The facade numbers documents and keeps their ids *)
(* and stored fields; the engine holds what is indexed under each number.  *)
(* Texts wait in a pending batch until a call flushes it.  Adding and      *)
(* removing run the caller's callbacks, field by field, and a callback may *)
(* throw, or call the index again: the stack holds the calls in progress.  *)
(* What the engine cannot do moves the whole index, once, to upstream's    *)
(* MiniSearch in JavaScript; what that one does is not modelled further.   *)
(*                                                                         *)
(* A document has every field; a field stands for the terms indexed in it. *)
(***************************************************************************)
EXTENDS Integers, FiniteSets, SequencesExt, Selections

CONSTANTS
    Ids,            \* document ids, as MiniSearch compares them
    NoId,           \* a free short id
    NoDocument,     \* an id without a document
    FieldCount,     \* how many fields the options name
    Unfit,          \* first fields whose text the engine cannot take (0: none)
    MaxShortId,     \* bound on the length of _ids
    MaxVersion,     \* bound on _version
    Batch,          \* BATCH: documents sent to the engine per call
    Slack,          \* free short ids _crowded() allows: 1024 in the code
    MaxDepth,       \* bound on calls within callbacks
    CallbackCalls,  \* the calls that callbacks make
    AnyTarget       \* callbacks also remove documents that are in progress

Fields == 1 .. FieldCount
NoShortId == -1

\* A document, and its first field whose text the engine cannot take.
Documents == [id : Ids, unfit : Unfit]

ASSUME FacadeAssumption ==
    /\ FieldCount \in Nat /\ Unfit \subseteq 0 .. FieldCount
    /\ MaxShortId \in Nat /\ MaxVersion \in Nat
    /\ Batch \in Nat \ {0} /\ Slack \in Nat /\ MaxDepth \in Nat
    /\ NoId \notin Ids /\ \A s \in SUBSET Fields : NoDocument # s
    /\ AnyTarget \in BOOLEAN

VARIABLES
    mode,       \* executionMode: wasm, or javascript after the transfer
    ids,        \* _ids (and _stored, which is written with it)
    shortIds,   \* _shortIds
    rows,       \* the engine: per short id, whose fields are indexed
    dirty,      \* the engine's dirt, or a vacuum under way
    pending,    \* _pending; null has no entries
    version,    \* _version
    table,      \* _idTable: docIdTable's copy
    js,         \* the JavaScript engine: the fields it indexed per id
    stack,      \* the calls in progress, the innermost last
    upstream    \* history: the fields MiniSearch would have indexed by now

facade == <<mode, ids, shortIds, rows, dirty, js>>
vars == <<facade, pending, version, table, stack, upstream>>

Dead == [id |-> NoId, fields |-> {}]
NoPending == [first |-> 0, entries |-> <<>>]
NoTable == [version |-> -1, ids |-> <<>>]

NoShortIds == [i \in Ids |-> NoShortId]
NoDocuments == [i \in Ids |-> NoDocument]

Init ==
    /\ mode = "wasm" /\ ids = <<>> /\ rows = <<>> /\ dirty = FALSE
    /\ shortIds = NoShortIds
    /\ pending = NoPending
    /\ version = 0
    /\ table = NoTable
    /\ js = NoDocuments
    /\ stack = <<>>
    /\ upstream = NoDocuments

Top == Last(stack)
Below == Front(stack)

IsLive(s) == s \in 0 .. Len(rows) - 1 /\ rows[s + 1] # Dead

----------------------------------------------------------------------------
(* The pending batch.                                                      *)

\* The leading entries that are complete.
Count(entries) ==
    Cardinality({n \in DOMAIN entries : \A i \in 1 .. n : ~entries[i].open})

\* _flush, of a pending batch p: the complete leading entries go to the engine,
\* which refuses them when they are not numbered from its next short id.
Flushed(p) ==
    LET count == Count(p.entries)
        sent == [i \in 1 .. count |-> [id |-> p.entries[i].id, fields |-> p.entries[i].fields]]
        left == SubSeq(p.entries, count + 1, Len(p.entries))
        accepted == mode = "wasm" /\ p.first = Len(rows)
    IN  [pending |-> IF left = <<>> THEN NoPending ELSE [first |-> p.first + count, entries |-> left],
         rows |-> IF accepted THEN rows \o sent ELSE rows,
         ok |-> count = 0 \/ accepted]

\* A call may be made, at the top or from a callback.
Callable(call) ==
    /\ mode = "wasm"
    /\ stack # <<>> => call \in CallbackCalls /\ Len(stack) < MaxDepth

\* _check: every call flushes first.  (It throws when that fails; SameNumbering
\* says that it does not.)
Check == Flushed(pending).ok /\ pending' = Flushed(pending).pending

\* Mutant: the version moves when something was left to flush.
SettlePending(p) ==
    IF mode = "wasm"
    THEN /\ pending' = Flushed(p).pending
         /\ rows' = Flushed(p).rows
         /\ version' = IF p.entries # <<>> THEN version + 1 ELSE version
    ELSE pending' = p /\ version' = version + 1 /\ UNCHANGED rows

\* _settle, the end of add and addAll with batch p.
Settle(p) ==
    IF mode = "wasm"
    THEN /\ pending' = Flushed(p).pending
         /\ rows' = Flushed(p).rows
         /\ version' = IF Flushed(p).ok THEN version + 1 ELSE version
    ELSE pending' = p /\ version' = version + 1 /\ UNCHANGED rows

----------------------------------------------------------------------------
(* The transfer to JavaScript, and what upstream has by now.               *)

\* _promote with the engine's rows r: the ids of the facade, the engine's
\* postings.  The facade's own tables go.
Transfer(r) ==
    /\ mode' = "javascript"
    /\ js' = [i \in Ids |->
           IF shortIds[i] = NoShortId THEN NoDocument
           ELSE IF shortIds[i] < Len(r) THEN r[shortIds[i] + 1].fields ELSE {}]
    /\ ids' = <<>> /\ rows' = <<>> /\ shortIds' = NoShortIds /\ dirty' = FALSE

\* A frame's document is still the one upstream works on.
WithoutDocuments(frames, gone) ==
    [i \in DOMAIN frames |->
        IF frames[i].doc.id \in gone THEN [frames[i] EXCEPT !.current = FALSE] ELSE frames[i]]

\* Upstream's copy of a frame's document, changed.
Upstream(frame, fields) ==
    IF frame.current THEN [upstream EXCEPT ![frame.doc.id] = fields] ELSE upstream

Frame(op, doc, shortId, many) ==
    [op |-> op, doc |-> doc, shortId |-> shortId, many |-> many, at |-> 0, current |-> TRUE]

\* The frame of addAll, which has no document of its own.
AllFrame == Frame("all", [id |-> NoId, unfit |-> 0], NoShortId, FALSE)

Resume(frame) == stack' = Append(Below, frame)

----------------------------------------------------------------------------
(* add and addAll.                                                         *)

\* _collect up to its first field, after what precedes it left batch p.
Collect(doc, p, many) ==
    /\ shortIds[doc.id] = NoShortId
    /\ Len(ids) < MaxShortId
    /\ shortIds' = [shortIds EXCEPT ![doc.id] = Len(ids)]
    /\ ids' = Append(ids, doc.id)
    /\ pending' = [first |-> IF p.entries = <<>> THEN Len(ids) ELSE p.first,
                   entries |-> Append(p.entries, [id |-> doc.id, fields |-> {}, open |-> TRUE,
                                                  depth |-> Len(stack) + 1])]
    /\ stack' = Append(stack, Frame("add", doc, Len(ids), many))
    /\ upstream' = [upstream EXCEPT ![doc.id] = {}]
    /\ UNCHANGED <<mode, dirty, version, table, js>>

Add(doc) ==
    /\ Callable("add") /\ version < MaxVersion
    /\ Flushed(pending).ok
    /\ rows' = Flushed(pending).rows
    /\ Collect(doc, Flushed(pending).pending, FALSE)

\* A duplicate id throws; what is pending is settled all the same.
AddDuplicate(doc) ==
    /\ Callable("add") /\ version < MaxVersion
    /\ shortIds[doc.id] # NoShortId
    /\ Flushed(pending).ok
    /\ Settle(pending)
    /\ UNCHANGED <<mode, ids, shortIds, dirty, js, table, stack, upstream>>

AddAll ==
    /\ Callable("addAll") /\ version < MaxVersion
    /\ Check
    /\ rows' = Flushed(pending).rows
    /\ stack' = Append(stack, AllFrame)
    /\ UNCHANGED <<mode, ids, shortIds, dirty, js, version, table, upstream>>

\* The next document of addAll: nothing is flushed in between.
AddNext(doc) ==
    /\ mode = "wasm"
    /\ stack # <<>> /\ Top.op = "all" /\ Len(stack) < MaxDepth
    /\ Collect(doc, pending, TRUE)
    /\ UNCHANGED rows

\* The next document of addAll, after a transfer.
AddNextInJS(doc) ==
    /\ mode = "javascript"
    /\ stack # <<>> /\ Top.op = "all"
    /\ js[doc.id] = NoDocument
    /\ js' = [js EXCEPT ![doc.id] = Fields]
    /\ upstream' = [upstream EXCEPT ![doc.id] = Fields]
    /\ UNCHANGED <<mode, ids, shortIds, rows, dirty, pending, version, table, stack>>

\* The entry of the innermost call, changed by its frame.
Written(entry, fields, open) ==
    IF entry.open /\ entry.depth = Len(stack)
    THEN [entry EXCEPT !.fields = @ \cup fields, !.open = open] ELSE entry

Entry(fields, open) ==
    [first |-> pending.first,
     entries |-> [i \in DOMAIN pending.entries |-> Written(pending.entries[i], fields, open)]]

\* Mutant: the finally that closes the entry is missing.
StaysOpen == pending

Closed == Entry({}, FALSE)

InCall(ops) == stack # <<>> /\ Top.op \in ops
HasField == Top.at < FieldCount
Fit == Top.doc.unfit # Top.at + 1
NextField == Resume([Top EXCEPT !.at = @ + 1])

\* By default, no callback of one document meets a text of another document
\* that moves the index.
MayPromote == "promote" \in CallbackCalls \/ \A i \in DOMAIN Below : Below[i].op = "all"

\* A callback returned a field's text.
CollectField ==
    /\ InCall({"add"}) /\ HasField /\ Fit
    /\ pending' = Entry({Top.at + 1}, TRUE)
    /\ NextField
    /\ upstream' = Upstream(Top, upstream[Top.doc.id] \cup {Top.at + 1})
    /\ UNCHANGED <<facade, version, table>>

\* The text is none the engine can take: the entry is closed, the index moves,
\* and the document goes on in JavaScript.  (Moved already: the flush fails.)
CollectUnfit ==
    /\ InCall({"add"}) /\ HasField /\ ~Fit
    /\ MayPromote
    /\ pending' = Flushed(Closed).pending
    /\ IF Flushed(Closed).ok
       THEN /\ Resume([Top EXCEPT !.op = "addInJS"])
            /\ IF mode = "wasm"
               THEN Transfer(Flushed(Closed).rows)
               ELSE UNCHANGED facade
            /\ UNCHANGED version
       ELSE /\ stack' = Below
            /\ version' = version + 1
            /\ UNCHANGED facade
    /\ UNCHANGED <<table, upstream>>

\* _indexInJS, one field.
IndexInJS ==
    /\ InCall({"addInJS"}) /\ HasField
    /\ js' = [js EXCEPT ![Top.doc.id] = @ \cup {Top.at + 1}]
    /\ NextField
    /\ upstream' = Upstream(Top, upstream[Top.doc.id] \cup {Top.at + 1})
    /\ UNCHANGED <<mode, ids, shortIds, rows, dirty, pending, version, table>>

\* The document is complete, or a callback threw: in addAll a full batch is
\* sent, add settles.
FinishAdd ==
    /\ InCall({"add", "addInJS"})
    /\ stack' = Below
    /\ IF ~Top.many
       THEN Settle(Closed)
       ELSE /\ UNCHANGED version
            /\ IF Len(Closed.entries) >= Batch
               THEN pending' = Flushed(Closed).pending /\ rows' = Flushed(Closed).rows
               ELSE pending' = Closed /\ UNCHANGED rows
    /\ UNCHANGED <<mode, ids, shortIds, dirty, js, table, upstream>>

FinishAddAll ==
    /\ InCall({"all"})
    /\ stack' = Below
    /\ Settle(pending)
    /\ UNCHANGED <<mode, ids, shortIds, dirty, js, table, upstream>>

----------------------------------------------------------------------------
(* remove.                                                                 *)

\* What callbacks may remove: by default a document that the engine has and
\* that no call in progress is about.
Target(id) ==
    \/ AnyTarget
    \/ stack = <<>>
    \/ /\ shortIds[id] < Len(Flushed(pending).rows)
       /\ \A i \in DOMAIN stack : stack[i].doc.id # id

RemoveDocument(doc) ==
    /\ Callable("remove") /\ version < MaxVersion
    /\ shortIds[doc.id] # NoShortId /\ Target(doc.id)
    /\ Check
    /\ rows' = Flushed(pending).rows
    /\ stack' = Append(stack, Frame("remove", doc, shortIds[doc.id], FALSE))
    /\ UNCHANGED <<mode, ids, shortIds, dirty, js, version, table, upstream>>

RemoveField ==
    /\ InCall({"remove"}) /\ HasField /\ Fit
    /\ NextField
    /\ upstream' = Upstream(Top, upstream[Top.doc.id] \ {Top.at + 1})
    /\ UNCHANGED <<facade, pending, version, table>>

\* removeTexts without finish, in rows r: the fields read so far go.
Without(r, s) ==
    IF r[s + 1].id = Top.doc.id
    THEN [r EXCEPT ![s + 1].fields = @ \ (1 .. Top.at)] ELSE r

\* The text is none the engine can take: the fields before it are taken out,
\* the index moves, and the rest of the document goes in JavaScript.
RemoveUnfit ==
    /\ InCall({"remove"}) /\ HasField /\ ~Fit
    /\ mode = "wasm" /\ IsLive(Top.shortId)
    /\ MayPromote
    /\ Check
    /\ Transfer(Without(Flushed(pending).rows, Top.shortId))
    /\ Resume([Top EXCEPT !.op = "removeInJS"])
    /\ UNCHANGED <<version, table, upstream>>

\* _unindexInJS, one field.
UnindexInJS ==
    /\ InCall({"removeInJS"}) /\ HasField
    /\ js' = [js EXCEPT ![Top.doc.id] = @ \ {Top.at + 1}]
    /\ NextField
    /\ upstream' = Upstream(Top, upstream[Top.doc.id] \ {Top.at + 1})
    /\ UNCHANGED <<mode, ids, shortIds, rows, dirty, pending, version, table>>

\* Mutant: a removal that is not finished drops the document from the facade.
RemovedAnyway(s) ==
    /\ rows' = IF HasField THEN Without(rows, s) ELSE [rows EXCEPT ![s + 1] = Dead]
    /\ ids' = [ids EXCEPT ![s + 1] = NoId]
    /\ shortIds' = [shortIds EXCEPT ![Top.doc.id] = NoShortId]

\* _removeTexts of a live short id: the fields, and with all of them read the
\* document, wherever its id is now.
Removed(s) ==
    IF HasField
    THEN rows' = Without(rows, s) /\ UNCHANGED <<ids, shortIds>>
    ELSE /\ rows' = [rows EXCEPT ![s + 1] = Dead]
         /\ ids' = [ids EXCEPT ![s + 1] = NoId]
         /\ shortIds' = [shortIds EXCEPT ![Top.doc.id] = NoShortId]

\* The last field was read, or a callback threw.  The engine refuses a dead
\* short id; after a transfer by a callback nothing is left to call.
FinishRemove ==
    /\ InCall({"remove"})
    /\ IF mode = "wasm" /\ IsLive(Top.shortId)
       THEN Removed(Top.shortId)
       ELSE UNCHANGED <<rows, ids, shortIds>>
    /\ version' = IF mode = "wasm" => IsLive(Top.shortId) THEN version + 1 ELSE version
    /\ upstream' = IF HasField THEN upstream ELSE Upstream(Top, NoDocument)
    /\ stack' = IF HasField THEN Below ELSE WithoutDocuments(Below, {Top.doc.id})
    /\ UNCHANGED <<mode, dirty, js, pending, table>>

FinishRemoveInJS ==
    /\ InCall({"removeInJS"})
    /\ version' = version + 1
    /\ js' = IF HasField THEN js ELSE [js EXCEPT ![Top.doc.id] = NoDocument]
    /\ upstream' = IF HasField THEN upstream ELSE Upstream(Top, NoDocument)
    /\ stack' = IF HasField THEN Below ELSE WithoutDocuments(Below, {Top.doc.id})
    /\ UNCHANGED <<mode, ids, shortIds, rows, dirty, pending, table>>

----------------------------------------------------------------------------
(* Calls without callbacks.                                                *)

\* discard: the facade's tables first, then the engine, which refuses a short
\* id that has not reached it.
Discard(id) ==
    LET s == shortIds[id]
        sent == Flushed(pending).rows
        live == s < Len(sent) /\ sent[s + 1] # Dead
    IN  /\ Callable("discard") /\ version < MaxVersion
        /\ s # NoShortId /\ Target(id)
        /\ Check
        /\ shortIds' = [shortIds EXCEPT ![id] = NoShortId]
        /\ ids' = [ids EXCEPT ![s + 1] = NoId]
        /\ rows' = IF live THEN [sent EXCEPT ![s + 1] = Dead] ELSE sent
        /\ dirty' = (dirty \/ live)
        /\ version' = IF live THEN version + 1 ELSE version
        /\ upstream' = [upstream EXCEPT ![id] = NoDocument]
        /\ stack' = WithoutDocuments(stack, {id})
        /\ UNCHANGED <<mode, js, table>>

\* removeAll(): open entries stay pending, with their numbers.
RemoveAll ==
    /\ Callable("removeAll") /\ version < MaxVersion
    /\ Check
    /\ ids' = <<>> /\ rows' = <<>> /\ shortIds' = NoShortIds
    /\ version' = version + 1
    /\ upstream' = NoDocuments
    /\ stack' = WithoutDocuments(stack, Ids)
    /\ UNCHANGED <<mode, dirty, js, table>>

\* The last batch of a vacuum, and the end of its promise.
VacuumEnds ==
    /\ mode = "wasm" /\ stack = <<>> /\ dirty
    /\ dirty' = FALSE
    /\ UNCHANGED <<mode, ids, shortIds, rows, js, pending, version, table, stack, upstream>>

\* The positions of the live documents.
LivePositions(r) == {s \in DOMAIN r : r[s] # Dead}

\* Mutant: the short ids keep their old values.
CompactedKeeping(r) ==
    /\ rows' = Selected(r, LivePositions(r))
    /\ ids' = Selected(ids, LivePositions(r))
    /\ UNCHANGED shortIds

\* _compact of the engine's rows r: compactExternal returns the old short ids in
\* order, and the facade's tables are renumbered by them.
Compacted(r) ==
    LET new == Selected(ids, LivePositions(r))
    IN  /\ rows' = Selected(r, LivePositions(r))
        /\ ids' = new
        /\ shortIds' = [i \in Ids |-> SelectLastInSeq(new, LAMBDA x : x = i) - 1]

LiveCount(r) == Cardinality(LivePositions(r))

Compact ==
    /\ Callable("compact") /\ version < MaxVersion
    /\ ~dirty
    /\ Check
    /\ IF LiveCount(Flushed(pending).rows) = Len(Flushed(pending).rows)
       THEN rows' = Flushed(pending).rows /\ UNCHANGED <<ids, shortIds>>
       ELSE Compacted(Flushed(pending).rows)
    /\ version' = version + 1
    /\ UNCHANGED <<mode, dirty, js, table, stack, upstream>>

\* The watch of a vacuum's promise: clean and _crowded().
AutoCompact ==
    /\ mode = "wasm" /\ stack = <<>> /\ version < MaxVersion
    /\ ~dirty
    /\ Len(rows) >= 2 * LiveCount(rows) + Slack
    /\ LiveCount(rows) # Len(rows)
    /\ Check
    /\ Compacted(rows)
    /\ version' = version + 1
    /\ UNCHANGED <<mode, dirty, js, table, stack, upstream>>

\* docIdTable, as any other read: it flushes, and copies the ids when its copy is
\* of another version.
DocIdTable ==
    /\ Callable("read")
    /\ Check
    /\ rows' = Flushed(pending).rows
    /\ table' = IF table.version = version THEN table ELSE [version |-> version, ids |-> ids]
    /\ UNCHANGED <<mode, ids, shortIds, dirty, js, version, stack, upstream>>

\* A search that only upstream can answer.
SearchPromotes ==
    /\ Callable("promote")
    /\ Check
    /\ Transfer(Flushed(pending).rows)
    /\ UNCHANGED <<version, table, stack, upstream>>

\* Another index.
New ==
    /\ stack = <<>>
    /\ mode' = "wasm" /\ ids' = <<>> /\ rows' = <<>> /\ dirty' = FALSE
    /\ shortIds' = NoShortIds /\ js' = NoDocuments
    /\ pending' = NoPending /\ version' = 0 /\ table' = NoTable
    /\ stack' = <<>>
    /\ upstream' = NoDocuments

Next ==
    \/ \E doc \in Documents :
           Add(doc) \/ AddDuplicate(doc) \/ AddNext(doc) \/ AddNextInJS(doc)
           \/ RemoveDocument(doc)
    \/ AddAll \/ CollectField \/ CollectUnfit \/ IndexInJS \/ FinishAdd \/ FinishAddAll
    \/ RemoveField \/ RemoveUnfit \/ UnindexInJS \/ FinishRemove \/ FinishRemoveInJS
    \/ \E id \in Ids : Discard(id)
    \/ RemoveAll \/ VacuumEnds \/ Compact \/ AutoCompact
    \/ DocIdTable \/ SearchPromotes \/ New

Spec == Init /\ [][Next]_vars

----------------------------------------------------------------------------
(* Properties.                                                             *)

\* Types; an open entry belongs to a call in progress.
TypeOK ==
    /\ mode \in {"wasm", "javascript"}
    /\ ids \in Seq(Ids \cup {NoId})
    /\ shortIds \in [Ids -> Nat \cup {NoShortId}]
    /\ rows \in Seq([id : Ids \cup {NoId}, fields : SUBSET Fields])
    /\ dirty \in BOOLEAN
    /\ pending.first \in Nat
    /\ \A i \in DOMAIN pending.entries : pending.entries[i].open =>
           pending.entries[i].depth \in DOMAIN stack
    /\ version \in Nat
    /\ js \in [Ids -> {NoDocument} \cup SUBSET Fields]
    /\ upstream \in [Ids -> {NoDocument} \cup SUBSET Fields]

\* What the index holds under an id, found through the facade's tables.
Held(id) ==
    IF mode = "javascript" THEN js[id]
    ELSE IF shortIds[id] = NoShortId THEN NoDocument
    ELSE IF IsLive(shortIds[id]) THEN rows[shortIds[id] + 1].fields ELSE NoId

\* Between two calls the index holds, under each id, what upstream's MiniSearch
\* holds, whatever threw, called back or moved the index in the middle of it:
\* the fields a document had when its callback threw, and no more.
SameDocumentsAsUpstream == stack = <<>> => \A id \in Ids : Held(id) = upstream[id]

\* Facade and engine number documents alike, calls in progress included: each
\* row's short id leads to its own document's id, and what is pending continues
\* the engine's numbering up to the facade's last, so that the engine refuses
\* no batch.
SameNumbering ==
    mode = "wasm" =>
        /\ Len(ids) = Len(rows) + Len(pending.entries)
        /\ pending.entries # <<>> => pending.first = Len(rows)
        /\ \A s \in DOMAIN rows : rows[s].id = ids[s]
        /\ \A i \in DOMAIN pending.entries :
               pending.entries[i].id = ids[Len(rows) + i]
        /\ \A id \in Ids : shortIds[id] # NoShortId =>
               shortIds[id] < Len(ids) /\ ids[shortIds[id] + 1] = id

\* Between two calls, the copy docIdTable keeps under the current version is the
\* id table: a caller that joins raw results with it names no wrong document.
TableIsCurrent ==
    mode = "wasm" /\ stack = <<>> /\ table.version = version => table.ids = ids
=============================================================================
