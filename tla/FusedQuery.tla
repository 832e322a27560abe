----------------------------- MODULE FusedQuery -----------------------------
(***************************************************************************)
(* The two ways src/src/mini_search.rs evaluates a query's terms.  The     *)
(* fused path (run_fused_query_with, accumulate_dense) adds every posting  *)
(* into dense tables indexed by short id, reused from query to query and   *)
(* from index to index, whose slots are reset lazily: a slot belongs to    *)
(* the current query, or query term, when its generation stamp says so.    *)
(* The reference path (execute_query, term_results, combine_results)       *)
(* builds a map per query term and merges the maps as MiniSearch does.     *)
(* Here both run on the same postings, one posting at a time.              *)
(*                                                                         *)
(* A spec is a query term's expansion; several specs may have one query    *)
(* term, so they have a slot that numbers the distinct ones.  A score is   *)
(* kept as the additions that make it: per spec, its postings in order.    *)
(***************************************************************************)
EXTENDS Integers, FiniteSets, SequencesExt, Selections

CONSTANTS
    Docs,           \* short ids
    Terms,          \* derived terms: exact, prefix and fuzzy matches
    Fields,         \* field ids
    Wrap,           \* the counters are modulo Wrap: 2^32 in the code
    MaskBits,       \* bits of term_mask: 64 in the code
    MaxSpecs,       \* bound on the specs of a query
    MaxHits         \* bound on the postings a query meets

ASSUME WrapAssumption == Wrap \in Nat /\ Wrap > 1
ASSUME MaskAssumption == MaskBits \in Nat
ASSUME LimitsAssumption == MaxSpecs \in Nat /\ MaxHits \in Nat

VARIABLES
    queryCounter, specCounter,      \* the generations
    generation, specGeneration,     \* their stamps, per document
    slots,                          \* the other tables, per document
    wideTerms,                      \* wide_terms
    touched, specTouched,           \* documents in the order they were met
    specs,                          \* the slots of the specs begun
    phase,                          \* idle, between specs, or in a spec
    results                         \* the reference path's map for each spec

stamps == <<queryCounter, specCounter, generation, specGeneration>>
tables == <<slots, wideTerms, touched, specTouched>>
vars == <<stamps, tables, specs, phase, results>>

Hit == [doc : Docs, term : Terms, field : Fields]

\* What an earlier query, of any index, left in a document's slots.
Leftover ==
    LET posting == [term |-> "old", field |-> 0]
    IN  [score |-> <<<<posting>>>>, specScore |-> <<posting>>,
         match |-> <<[term |-> "old", spec |-> 0, fields |-> {0}]>>,
         specCount |-> -1, slotMask |-> {-1}, querySlots |-> <<-1>>, firstSpec |-> -1]

Init ==
    /\ queryCounter = 0 /\ specCounter = 0
    /\ generation = [d \in Docs |-> 0]
    /\ specGeneration = [d \in Docs |-> 0]
    /\ slots = [d \in Docs |-> Leftover]
    /\ wideTerms = {}
    /\ touched = <<>> /\ specTouched = <<>>
    /\ specs = <<>>
    /\ phase = "idle"
    /\ results = <<>>

----------------------------------------------------------------------------
(* Counters.                                                               *)

\* Mutant: the counter is not taken modulo its width.
AdvanceUnwrapped(counter, stamp) == [counter |-> counter + 1, stamp |-> stamp]

\* Mutant: the wrapped counter restarts, the stamps stay.
AdvanceUncleared(counter, stamp) ==
    [counter |-> IF counter = Wrap - 1 THEN 1 ELSE counter + 1, stamp |-> stamp]

\* A counter and its stamps, one generation on.  When the counter wraps to
\* 0, the stamps are cleared and 0 is skipped.
Advance(counter, stamp) ==
    IF counter = Wrap - 1
    THEN [counter |-> 1, stamp |-> [d \in Docs |-> 0]]
    ELSE [counter |-> counter + 1, stamp |-> stamp]

\* begin_query.
BeginQuery ==
    /\ phase = "idle"
    /\ phase' = "query"
    /\ LET next == Advance(queryCounter, generation)
       IN  queryCounter' = next.counter /\ generation' = next.stamp
    /\ touched' = <<>>
    /\ wideTerms' = {}
    /\ specs' = <<>>
    /\ results' = <<>>
    /\ UNCHANGED <<specCounter, specGeneration, slots, specTouched>>

\* begin_spec, of the query term with this slot: the slots are numbered in the
\* order the distinct terms appear.
BeginSpec(slot) ==
    /\ phase = "query"
    /\ Len(specs) < MaxSpecs
    /\ slot <= Cardinality(ToSet(specs))
    /\ phase' = "spec"
    /\ specs' = Append(specs, slot)
    /\ LET next == Advance(specCounter, specGeneration)
       IN  specCounter' = next.counter /\ specGeneration' = next.stamp
    /\ specTouched' = <<>>
    /\ results' = Append(results, <<>>)
    /\ UNCHANGED <<queryCounter, generation, slots, wideTerms, touched>>

----------------------------------------------------------------------------
(* One posting.                                                            *)

TermsOf(match) == {match[i].term : i \in DOMAIN match}

\* push_field, for a term's fields in a match.
PushField(match, term, field) ==
    IF term \in TermsOf(match)
    THEN [i \in DOMAIN match |->
            IF match[i].term = term THEN [match[i] EXCEPT !.fields = @ \cup {field}]
            ELSE match[i]]
    ELSE Append(match, [term |-> term, fields |-> {field}])

\* record_term: a term's fields are those of the last spec that reached it,
\* and the spec is noted with them.
RecordTerm(match, hit) ==
    LET spec == Len(specs)
    IN  IF hit.term \in TermsOf(match)
        THEN [i \in DOMAIN match |->
                IF match[i].term # hit.term THEN match[i]
                ELSE [term |-> hit.term, spec |-> spec,
                      fields |-> {hit.field} \cup
                          IF match[i].spec = spec THEN match[i].fields ELSE {}]]
        ELSE Append(match, [term |-> hit.term, spec |-> spec, fields |-> {hit.field}])

\* touch, first part: the slots of a document not met in this query yet.
Fresh(d) ==
    IF generation[d] = queryCounter
    THEN slots[d]
    ELSE [score |-> <<>>, specScore |-> slots[d].specScore, match |-> <<>>,
          specCount |-> 0, slotMask |-> {}, querySlots |-> <<>>,
          firstSpec |-> Len(specs)]

\* Mutant: every spec counts its query term.
FirstMatchAlways(d, slot) == TRUE

\* The query term was not counted for the document: by its bit of the mask, or
\* past the mask's width by wide_terms.
FirstMatch(d, slot) ==
    IF slot < MaskBits THEN slot \notin Fresh(d).slotMask ELSE <<d, slot>> \notin wideTerms

\* touch, second part: the slots of a document not met in this spec yet.
Touched(d, slot) ==
    LET row == Fresh(d)
    IN  IF specGeneration[d] = specCounter
        THEN row
        ELSE [score |-> row.score, specScore |-> <<>>, match |-> row.match,
              specCount |-> row.specCount + 1,
              slotMask |-> row.slotMask \cup IF slot < MaskBits THEN {slot} ELSE {},
              querySlots |-> row.querySlots \o IF FirstMatch(d, slot) THEN <<slot>> ELSE <<>>,
              firstSpec |-> row.firstSpec]

\* The slots with a posting's score and fields.
Scored(row, hit) ==
    [score |-> row.score,
     specScore |-> Append(row.specScore, [term |-> hit.term, field |-> hit.field]),
     match |-> RecordTerm(row.match, hit),
     specCount |-> row.specCount, slotMask |-> row.slotMask,
     querySlots |-> row.querySlots, firstSpec |-> row.firstSpec]

DocsOf(map) == {map[i].doc : i \in DOMAIN map}

EntryOf(map, d) == map[CHOOSE i \in DOMAIN map : map[i].doc = d]

\* The reference path's map of the current spec with the posting added: an
\* entry is inserted at the end, or updated where it is.
WithPosting(map, hit, slot) ==
    LET posting == [term |-> hit.term, field |-> hit.field]
        new == [doc |-> hit.doc, score |-> <<<<posting>>>>, terms |-> <<slot>>,
                match |-> PushField(<<>>, hit.term, hit.field)]
    IN  IF hit.doc \in DocsOf(map)
        THEN [i \in DOMAIN map |->
                IF map[i].doc # hit.doc THEN map[i]
                ELSE [doc |-> hit.doc, score |-> <<Append(map[i].score[1], posting)>>,
                      terms |-> map[i].terms,
                      match |-> PushField(map[i].match, hit.term, hit.field)]]
        ELSE Append(map, new)

Hits == FoldLeft(LAMBDA n, map :
                    FoldLeft(LAMBDA m, entry : m + Len(entry.score[1]), n, map),
                 0, results)

\* The spec has met this posting: an expansion is walked once.
Met(hit) ==
    \E i \in DOMAIN Last(results) :
        LET entry == Last(results)[i]
        IN  /\ entry.doc = hit.doc
            /\ [term |-> hit.term, field |-> hit.field] \in ToSet(entry.score[1])

\* accumulate_dense and term_results, for one posting that scores.
Accumulate(hit) ==
    LET d == hit.doc
        slot == Last(specs)
    IN  /\ phase = "spec"
        /\ Hits < MaxHits
        /\ ~Met(hit)
        /\ generation' = [generation EXCEPT ![d] = queryCounter]
        /\ specGeneration' = [specGeneration EXCEPT ![d] = specCounter]
        /\ touched' = IF generation[d] = queryCounter THEN touched ELSE Append(touched, d)
        /\ specTouched' = IF specGeneration[d] = specCounter
                          THEN specTouched ELSE Append(specTouched, d)
        /\ wideTerms' = IF specGeneration[d] # specCounter /\ slot >= MaskBits
                        THEN wideTerms \cup {<<d, slot>>} ELSE wideTerms
        /\ slots' = [slots EXCEPT ![d] = Scored(Touched(d, slot), hit)]
        /\ results' = [results EXCEPT ![Len(results)] = WithPosting(Last(results), hit, slot)]
        /\ UNCHANGED <<queryCounter, specCounter, specs, phase>>

\* The slots with the spec's score added to the query's.
Summed(row) ==
    [score |-> Append(row.score, row.specScore), specScore |-> row.specScore,
     match |-> row.match, specCount |-> row.specCount, slotMask |-> row.slotMask,
     querySlots |-> row.querySlots, firstSpec |-> row.firstSpec]

\* flush_spec: one addition per document of the spec.
Flush ==
    slots' = [d \in Docs |->
        IF d \in ToSet(specTouched) THEN Summed(slots[d]) ELSE slots[d]]

FlushSpec ==
    /\ phase = "spec"
    /\ phase' = "query"
    /\ Flush
    /\ UNCHANGED <<stamps, wideTerms, touched, specTouched, specs, results>>

----------------------------------------------------------------------------
(* The end of a query.                                                     *)

\* The scratch goes back to its cell; what its slots hold is of no more use.
EndQuery ==
    /\ phase = "query"
    /\ phase' = "idle"
    /\ slots' = [d \in Docs |-> Leftover]
    /\ specs' = <<>> /\ results' = <<>> /\ touched' = <<>> /\ specTouched' = <<>>
    /\ wideTerms' = {}
    /\ UNCHANGED stamps

\* compact drops the scratch between two queries; a query that aborts in the
\* middle leaves its cell with an empty one.
Reset ==
    /\ queryCounter' = 0 /\ specCounter' = 0
    /\ generation' = [d \in Docs |-> 0]
    /\ specGeneration' = [d \in Docs |-> 0]
    /\ slots' = [d \in Docs |-> Leftover]
    /\ specs' = <<>> /\ results' = <<>> /\ touched' = <<>> /\ specTouched' = <<>>
    /\ wideTerms' = {}
    /\ phase' = "idle"

Next ==
    \/ BeginQuery
    \/ \E slot \in 0 .. MaxSpecs : BeginSpec(slot)
    \/ \E hit \in Hit : Accumulate(hit)
    \/ FlushSpec
    \/ EndQuery
    \/ Reset

Spec == Init /\ [][Next]_vars

Combinations == {"OR", "AND", "AND_NOT"}

\* The order of the documents before sorting, which equal scores keep.
Candidates(mode) == IF mode = "AND" /\ Len(specs) > 1 THEN specTouched ELSE touched

\* The documents a combination keeps.
Keeps(mode, d) ==
    CASE mode = "OR" -> TRUE
      [] mode = "AND" -> slots[d].specCount = Len(specs)
      [] mode = "AND_NOT" -> slots[d].firstSpec = 1 /\ slots[d].specCount = 1

\* The fields of each term, without the specs that noted them.
FieldRows(match) ==
    [j \in DOMAIN match |-> [term |-> match[j].term, fields |-> match[j].fields]]

FusedHit(d) ==
    [doc |-> d, score |-> slots[d].score, terms |-> slots[d].querySlots,
     match |-> FieldRows(slots[d].match)]

\* run_fused_query_with: documents, scores, query terms and matches.
FusedHits(mode) ==
    LET from == Candidates(mode)
        kept == Selected(from, {i \in DOMAIN from : Keeps(mode, from[i])})
    IN  [i \in DOMAIN kept |-> FusedHit(kept[i])]

----------------------------------------------------------------------------
(* combine_results.                                                        *)

\* assign_unique_many.
AssignUnique(target, source) ==
    target \o Selected(source, {i \in DOMAIN source :
        source[i] \notin ToSet(target) /\ \A j \in 1 .. i - 1 : source[j] # source[i]})

RowOf(match, term) == match[CHOOSE i \in DOMAIN match : match[i].term = term]

\* MatchInfo::assign, which is JavaScript's Object.assign: incoming terms
\* replace an existing row in place, new ones are added.
Assign(match, source) ==
    [i \in DOMAIN match |->
        IF match[i].term \in TermsOf(source) THEN RowOf(source, match[i].term) ELSE match[i]]
    \o Selected(source, {i \in DOMAIN source : source[i].term \notin TermsOf(match)})

Merged(existing, value) ==
    [doc |-> existing.doc, score |-> existing.score \o value.score,
     terms |-> AssignUnique(existing.terms, value.terms),
     match |-> Assign(existing.match, value.match)]

MergedOr(left, right) ==
    [i \in DOMAIN left |->
        IF left[i].doc \in DocsOf(right)
        THEN Merged(left[i], EntryOf(right, left[i].doc)) ELSE left[i]]
    \o Selected(right, {i \in DOMAIN right : right[i].doc \notin DocsOf(left)})

MergedAnd(left, right) ==
    LET kept == Selected(right, {i \in DOMAIN right : right[i].doc \in DocsOf(left)})
    IN  [i \in DOMAIN kept |-> Merged(EntryOf(left, kept[i].doc), kept[i])]

MergedAndNot(left, right) ==
    Selected(left, {i \in DOMAIN left : left[i].doc \notin DocsOf(right)})

Merge(mode, left, right) ==
    CASE mode = "OR" -> MergedOr(left, right)
      [] mode = "AND" -> MergedAnd(left, right)
      [] mode = "AND_NOT" -> MergedAndNot(left, right)

\* The maps merged in their order.
Combined(mode, maps) ==
    LET merged[n \in 1 .. Len(maps)] ==
            IF n = 1 THEN maps[1] ELSE Merge(mode, merged[n - 1], maps[n])
    IN  IF maps = <<>> THEN <<>> ELSE merged[Len(maps)]

CombineResults(mode) == Combined(mode, results)

----------------------------------------------------------------------------
(* Properties.                                                             *)

\* Types, of the counters and of what a query in progress may read.
TypeOK ==
    /\ queryCounter \in 0 .. Wrap - 1 /\ specCounter \in 0 .. Wrap - 1
    /\ generation \in [Docs -> 0 .. Wrap - 1]
    /\ specGeneration \in [Docs -> 0 .. Wrap - 1]
    /\ DOMAIN slots = Docs
    /\ wideTerms \subseteq Docs \X Nat
    /\ touched \in Seq(Docs) /\ specTouched \in Seq(Docs)
    /\ specs \in Seq(Nat)
    /\ phase \in {"idle", "query", "spec"}
    /\ Len(results) = Len(specs)

\* A stamp of the current generation is one this query, or this spec, has set:
\* across four billion queries of every index, wrap-around and reset included,
\* no slot of an old query passes for the current one.
StampsAreCurrent ==
    /\ phase # "idle" =>
           \A d \in Docs : generation[d] = queryCounter <=> d \in ToSet(touched)
    /\ phase = "spec" =>
           \A d \in Docs : specGeneration[d] = specCounter <=> d \in ToSet(specTouched)

\* "Scores are bit-identical to the old per-spec-map + merge design", and so is
\* all else: whichever way a query's terms are combined, the fused pass returns
\* the documents in MiniSearch's order, their scores as the same additions,
\* each query term once, and the fields of the last term that matched them.
FusedEqualsCombined ==
    phase = "query" => \A mode \in Combinations : FusedHits(mode) = CombineResults(mode)
=============================================================================
