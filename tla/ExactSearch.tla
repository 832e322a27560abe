---------------------------- MODULE ExactSearch ----------------------------
(***************************************************************************)
(* Searches on an index that may hold postings of discarded documents, and *)
(* the average field lengths they are scored with: term_results and the    *)
(* field lengths of src/src/mini_search.rs, and lazy_cleanup.rs.  A search *)
(* is answered by a fast path that changes nothing; only if it has met a   *)
(* stale posting is its answer thrown away and the search done again by a  *)
(* replica of upstream's, which cleans as it goes.                         *)
(*                                                                         *)
(* Calls are actions.  A query is a wildcard, the terms of a text, or a    *)
(* tree of queries with options for all below it; an answer is the Map of  *)
(* UpstreamSearch, and a score the additions it is made of.  An average is *)
(* a rational, numerator and denominator.  Tombstones are Postings', a     *)
(* vacuum's batches SearchIndex's, the order of expansions RadixTree's,    *)
(* and the dense tables a text is combined in FusedQuery's.                *)
(***************************************************************************)
EXTENDS Integers, FiniteSets, SequencesExt, FiniteSetsExt

CONSTANTS
    Docs,           \* short ids, 1 ..
    Terms,
    Fields,         \* field ids, in the order a search takes them
    PrefixOf, FuzzyOf,  \* per term, its expansions in tree order
    Unboosted,      \* documents for which boostDocument returns zero
    GlobalOptions,  \* the search_options of the constructor
    Queries,        \* records of a query and of the options of the call
    NoAnswer,
    Contents,       \* of documents: per field, its length and its terms
    MaxDirt         \* bound on the dirt count

ASSUME DocsAssumption == Docs \in SUBSET (Nat \ {0}) /\ MaxDirt \in Nat
ASSUME OptionsAssumption == {"prefix", "fuzzy", "combineWith"} = DOMAIN GlobalOptions

VARIABLES
    alive,          \* live short ids
    nextId,
    fieldLength,    \* per document and field, 0 without the field
    average,        \* average_field_length
    freq,           \* the index: per term, field and document, 0 for none
    dirtCount,
    answer,         \* what the last call returned, if it was a search
    gaps            \* history: fields some document was added without

vars == <<alive, nextId, fieldLength, average, freq, dirtCount, answer, gaps>>

FieldIds == ToSet(Fields)
NoPostings == [t \in Terms |-> [f \in FieldIds |-> [d \in Docs |-> 0]]]
NoLengths == [d \in Docs |-> [f \in FieldIds |-> 0]]
Count == Cardinality(alive)

Init ==
    /\ alive = {} /\ nextId = 1
    /\ fieldLength = NoLengths
    /\ average = [f \in FieldIds |-> <<0, 1>>]
    /\ freq = NoPostings
    /\ dirtCount = 0
    /\ answer = NoAnswer
    /\ gaps = {}

-----------------------------------------------------------------------------
(* Average field lengths.                                                  *)

\* numerator / denominator, in lowest terms.
Ratio(n, d) ==
    LET g == Max({k \in 1 .. d : d % k = 0 /\ n % k = 0}) IN <<n \div g, d \div g>>

\* add_field_length, of a document that is the count + 1st.
Lengthened(avg, count, length) == Ratio(avg[1] * count + length * avg[2], avg[2] * (count + 1))

\* remove_field_length, of one of count documents.
Shortened(avg, count, length) ==
    IF count <= 1 THEN <<0, 1>> ELSE Ratio(avg[1] * count - length * avg[2], avg[2] * (count - 1))

-----------------------------------------------------------------------------
(* Calls that change documents.                                            *)

Add(content) ==
    /\ nextId \in Docs
    /\ nextId' = nextId + 1
    /\ alive' = alive \cup {nextId}
    /\ fieldLength' = [fieldLength EXCEPT ![nextId] = content.length]
    /\ average' = [f \in FieldIds |->
           IF content.length[f] = 0 THEN average[f] ELSE Lengthened(average[f], Count, content.length[f])]
    /\ freq' = [t \in Terms |-> [f \in FieldIds |-> [freq[t][f] EXCEPT ![nextId] = content.freq[f][t]]]]
    /\ gaps' = gaps \cup {f \in FieldIds : content.length[f] = 0}
    /\ answer' = NoAnswer
    /\ UNCHANGED dirtCount

\* A mutant: the document is taken off the count before its lengths are.
GoneEarly(d) ==
    /\ average' = [f \in FieldIds |->
           IF fieldLength[d][f] = 0 THEN average[f] ELSE Shortened(average[f], Count - 1, fieldLength[d][f])]
    /\ fieldLength' = [fieldLength EXCEPT ![d] = [f \in FieldIds |-> 0]]
    /\ alive' = alive \ {d}
    /\ answer' = NoAnswer
    /\ UNCHANGED <<nextId, gaps>>

\* A mutant: the row of lengths stays.
GoneKeepingRow(d) ==
    /\ average' = [f \in FieldIds |->
           IF fieldLength[d][f] = 0 THEN average[f] ELSE Shortened(average[f], Count, fieldLength[d][f])]
    /\ fieldLength' = fieldLength
    /\ alive' = alive \ {d}
    /\ answer' = NoAnswer
    /\ UNCHANGED <<nextId, gaps>>

\* What discard and remove share, of a document given with the content it has.
Gone(d) ==
    /\ average' = [f \in FieldIds |->
           IF fieldLength[d][f] = 0 THEN average[f] ELSE Shortened(average[f], Count, fieldLength[d][f])]
    /\ fieldLength' = [fieldLength EXCEPT ![d] = [f \in FieldIds |-> 0]]
    /\ alive' = alive \ {d}
    /\ answer' = NoAnswer
    /\ UNCHANGED <<nextId, gaps>>

\* remove, with the terms the document was added with.
RemoveDocument(d) ==
    /\ Gone(d)
    /\ freq' = [t \in Terms |-> [f \in FieldIds |-> [freq[t][f] EXCEPT ![d] = 0]]]
    /\ UNCHANGED dirtCount

Discard(d) ==
    /\ dirtCount < MaxDirt
    /\ Gone(d)
    /\ dirtCount' = dirtCount + 1
    /\ UNCHANGED freq

RemoveAllDocuments ==
    /\ alive' = {} /\ nextId' = 1
    /\ fieldLength' = NoLengths
    /\ average' = [f \in FieldIds |-> <<0, 1>>]
    /\ freq' = NoPostings
    /\ gaps' = {}
    /\ answer' = NoAnswer
    /\ UNCHANGED dirtCount

\* The index without its stale postings.
Cleaned(fr) ==
    [t \in Terms |-> [f \in FieldIds |-> [d \in Docs |-> IF d \in alive THEN fr[t][f][d] ELSE 0]]]

\* A whole run, begun and ended.
Vacuum ==
    /\ freq' = Cleaned(freq)
    /\ dirtCount' = 0
    /\ answer' = NoAnswer
    /\ UNCHANGED <<alive, nextId, fieldLength, average, gaps>>

-----------------------------------------------------------------------------
(* Results and options.                                                    *)

Scored(d, t, f, matching) == [doc |-> d, term |-> t, field |-> f, matching |-> matching]

\* RawResult, a map that keeps the order of insertion.
NoResult == [docs |-> <<>>, adds |-> [d \in Docs |-> <<>>]]

Entered(result, scored) ==
    [docs |-> IF scored.doc \in ToSet(result.docs) THEN result.docs ELSE Append(result.docs, scored.doc),
     adds |-> [result.adds EXCEPT ![scored.doc] = Append(@, scored)]]

Removed(result, d) ==
    [docs |-> SelectSeq(result.docs, LAMBDA e : e # d), adds |-> [result.adds EXCEPT ![d] = <<>>]]

\* Mutant: AND keeps the order of the left result.
AllOfInLeftOrder(left, right) ==
    LET both == SelectSeq(left.docs, LAMBDA d : d \in ToSet(right.docs))
    IN  [docs |-> both,
         adds |-> [d \in Docs |-> IF d \in ToSet(both) THEN left.adds[d] \o right.adds[d] ELSE <<>>]]

\* The three ways of combine_results.
AnyOf(left, right) ==
    [docs |-> left.docs \o SelectSeq(right.docs, LAMBDA d : d \notin ToSet(left.docs)),
     adds |-> [d \in Docs |-> left.adds[d] \o right.adds[d]]]

AllOf(left, right) ==
    LET both == SelectSeq(right.docs, LAMBDA d : d \in ToSet(left.docs))
    IN  [docs |-> both,
         adds |-> [d \in Docs |-> IF d \in ToSet(both) THEN left.adds[d] \o right.adds[d] ELSE <<>>]]

FirstOnly(left, right) == FoldLeft(Removed, left, right.docs)

\* combine_results.
Combined(results, combineWith) ==
    LET Combine(left, right) ==
            CASE combineWith = "OR" -> AnyOf(left, right)
              [] combineWith = "AND" -> AllOf(left, right)
              [] combineWith = "AND_NOT" -> FirstOnly(left, right)
    IN  IF results = <<>> THEN NoResult ELSE FoldLeft(Combine, Head(results), Tail(results))

\* execute_wildcard_query: what it adds, the boost, is of no term.
Everything(boosting) ==
    LET Boost(d) == IF boosting /\ d \in Unboosted THEN 0 ELSE 1
    IN  FoldLeft(LAMBDA r, d : Entered(r, Scored(d, "", 0, Boost(d))), NoResult, SetToSortSeq(alive, <))

\* apply_partial_options and overlay_partial_options.  Partial options are a
\* function on the options that are present.
Applied(base, partial) == partial @@ base
Overlaid(base, over) == over @@ base

\* Of a tree of queries, which has not been given the constructor's.
CombineWith(options) == IF "combineWith" \in DOMAIN options THEN options.combineWith ELSE "OR"

\* query_specs.
QuerySpecs(terms, options) ==
    [i \in DOMAIN terms |-> [term |-> terms[i], prefix |-> options.prefix, fuzzy |-> options.fuzzy]]

-----------------------------------------------------------------------------
(* The fast path.                                                          *)

Listed(fr, t, f) == {d \in Docs : fr[t][f][d] > 0}
Ordered(docs) == SetToSortSeq(docs, <)
Indexed(fr) == {t \in Terms : \E f \in FieldIds : Listed(fr, t, f) # {}}
Clean == dirtCount = 0

\* Mutant: every posting counts, as when the index is clean.
MatchingAll(fr, t, f) == Cardinality(Listed(fr, t, f))

\* matching_fields.
Matching(fr, t, f) ==
    IF Clean THEN Cardinality(Listed(fr, t, f)) ELSE Cardinality(Listed(fr, t, f) \cap alive)

Scores(d, f) == fieldLength[d][f] # 0 /\ average[f][1] # 0

\* The field's part of term_results and accumulate_dense.
FieldResults(fr, t, f) ==
    LET docs == SelectSeq(Ordered(Listed(fr, t, f)), LAMBDA d : (Clean \/ d \in alive) /\ Scores(d, f))
    IN  [k \in DOMAIN docs |-> Scored(docs[k], t, f, Matching(fr, t, f))]

TermResults(fr, t) == FlattenSeq([i \in DOMAIN Fields |-> FieldResults(fr, t, Fields[i])])

\* stale_hit is raised by these terms.
MeetsStale(fr, t) == ~Clean /\ \E f \in FieldIds : Listed(fr, t, f) \ alive # {}

Expanded(fr, list) == SelectSeq(list, LAMBDA t : t \in Indexed(fr))

\* Expansions of a spec: fuzzy ones that are prefix matches are passed over.
Expansions(fr, spec) ==
    LET prefix == IF spec.prefix THEN Expanded(fr, PrefixOf[spec.term]) ELSE <<>>
        fuzzy == IF spec.fuzzy THEN Expanded(fr, FuzzyOf[spec.term]) ELSE <<>>
    IN  prefix \o SelectSeq(fuzzy, LAMBDA t : ~spec.prefix \/ t \notin ToSet(PrefixOf[spec.term]))

SpecTerms(fr, spec) == Expanded(fr, <<spec.term>>) \o Expansions(fr, spec)

\* execute_query_spec.
SpecResults(fr, spec) ==
    FoldLeft(Entered, NoResult,
             FlattenSeq([k \in DOMAIN SpecTerms(fr, spec) |-> TermResults(fr, SpecTerms(fr, spec)[k])]))

\* execute_query_tree.
RECURSIVE Fast(_, _, _)
Fast(fr, query, inherited) ==
    CASE query.kind = "wildcard" -> Everything(FALSE)
      [] query.kind = "text" ->
            LET options == Applied(GlobalOptions, inherited)
                specs == QuerySpecs(query.terms, options)
            IN  Combined([i \in DOMAIN specs |-> SpecResults(fr, specs[i])], options.combineWith)
      [] query.kind = "tree" ->
            LET options == Overlaid(inherited, query.options)
            IN  Combined([i \in DOMAIN query.queries |-> Fast(fr, query.queries[i], options)], CombineWith(options))

FastAnswer(fr, asked) == Fast(fr, asked.query, asked.options)

\* The specs the walk of a tree comes to.
RECURSIVE Specs(_, _)
Specs(query, inherited) ==
    CASE query.kind = "wildcard" -> <<>>
      [] query.kind = "text" -> QuerySpecs(query.terms, Applied(GlobalOptions, inherited))
      [] query.kind = "tree" ->
            FlattenSeq([i \in DOMAIN query.queries |-> Specs(query.queries[i], Overlaid(inherited, query.options))])

StaleHit(fr, asked) ==
    \E spec \in ToSet(Specs(asked.query, asked.options)) : \E t \in ToSet(SpecTerms(fr, spec)) : MeetsStale(fr, t)

-----------------------------------------------------------------------------
(* The replica.  A spec so far: the index, and what it has found.          *)

\* Mutant: a list is scored with the document frequency of its live postings.
VisitLive(r, d, t, f, boosting) ==
    IF d \notin alive
    THEN [r EXCEPT !.freq[t][f][d] = @ - 1]
    ELSE IF (boosting /\ d \in Unboosted) \/ ~Scores(d, f) THEN r
    ELSE [r EXCEPT !.result = Entered(@, Scored(d, t, f, Cardinality(Listed(r.freq, t, f) \cap alive)))]

\* One posting of term_results_lazy.
Visit(r, d, t, f, boosting) ==
    IF d \notin alive
    THEN [r EXCEPT !.freq[t][f][d] = @ - 1, !.matching = @ - 1]
    ELSE IF (boosting /\ d \in Unboosted) \/ ~Scores(d, f) THEN r
    ELSE [r EXCEPT !.result = Entered(@, Scored(d, t, f, r.matching))]

FieldResultsLazy(r, t, f, boosting) ==
    LET docs == Ordered(Listed(r.freq, t, f))
    IN  FoldLeft(LAMBDA s, d : Visit(s, d, t, f, boosting), [r EXCEPT !.matching = Len(docs)], docs)

\* term_results_lazy.
TermResultsLazy(r, t, boosting) == FoldLeft(LAMBDA s, f : FieldResultsLazy(s, t, f, boosting), r, Fields)

\* execute_query_spec_lazy: expansions are read once the exact term is scored.
SpecResultsLazy(fr, spec, boosting) ==
    LET exact == TermResultsLazy([freq |-> fr, matching |-> 0, result |-> NoResult], spec.term, boosting)
    IN  FoldLeft(LAMBDA s, t : TermResultsLazy(s, t, boosting), exact, Expansions(exact.freq, spec))

\* execute_query_tree_lazy, and ranked_lazy for a text.  A walk so far: the
\* index, and the results of what it has been through.
RECURSIVE Lazy(_, _, _, _)
Lazy(fr, query, inherited, boosting) ==
    LET Then(s, r) == [freq |-> r.freq, results |-> Append(s.results, r.result)]
        Closed(s, combineWith) == [freq |-> s.freq, result |-> Combined(s.results, combineWith)]
        start == [freq |-> fr, results |-> <<>>]
    IN  CASE query.kind = "wildcard" -> [freq |-> fr, result |-> Everything(boosting)]
          [] query.kind = "text" ->
                LET options == Applied(GlobalOptions, inherited)
                IN  Closed(FoldLeft(LAMBDA s, spec : Then(s, SpecResultsLazy(s.freq, spec, boosting)),
                                    start, QuerySpecs(query.terms, options)), options.combineWith)
          [] query.kind = "tree" ->
                LET options == Overlaid(inherited, query.options)
                IN  Closed(FoldLeft(LAMBDA s, q : Then(s, Lazy(s.freq, q, options, boosting)),
                                    start, query.queries), CombineWith(options))

\* The ..._exact entry points.  A query with boostDocument goes to the replica
\* at once, so that its callback is called once.
Search(asked, boosting) ==
    /\ LET lazy == Lazy(freq, asked.query, asked.options, boosting)
       IN  IF boosting \/ StaleHit(freq, asked)
           THEN freq' = lazy.freq /\ answer' = lazy.result
           ELSE answer' = FastAnswer(freq, asked) /\ UNCHANGED freq
    /\ UNCHANGED <<alive, nextId, fieldLength, average, dirtCount, gaps>>

Next ==
    \/ \E content \in Contents : Add(content)
    \/ \E d \in alive : RemoveDocument(d) \/ Discard(d)
    \/ RemoveAllDocuments
    \/ Vacuum
    \/ \E asked \in Queries, boosting \in BOOLEAN : Search(asked, boosting)

Spec == Init /\ [][Next]_vars

-----------------------------------------------------------------------------
(* Properties.                                                             *)

\* Types; only a live document has lengths, and postings in a field it has.
TypeOK ==
    /\ alive \subseteq Docs /\ dirtCount \in 0 .. MaxDirt
    /\ freq \in [Terms -> [FieldIds -> [Docs -> Nat]]]
    /\ \A d \in Docs, f \in FieldIds :
           /\ fieldLength[d][f] > 0 => d \in alive
           /\ d \in alive /\ fieldLength[d][f] = 0 => \A t \in Terms : freq[t][f][d] = 0

\* A search answers what upstream answers, scores included, and leaves the
\* index as upstream leaves it: by the fast path when the terms it meets are
\* clean, and otherwise by the replica, whose later subqueries see what its
\* earlier ones have cleaned, also where a combination drops what they found.
Upstream == INSTANCE UpstreamSearch
ImplementsUpstream == Upstream!Spec

\* A core without exact searches scores a dirty index as upstream will once
\* its stale postings are gone: with the live document frequency, at once.
PlainSearchIsConverged ==
    \A asked \in Queries : FastAnswer(freq, asked) = Upstream!Searched(Cleaned(freq), asked, FALSE).result

\* The running average of a field every document has had is the mean over the
\* live documents, however they came and went.
AveragesAreMeans ==
    \A f \in FieldIds \ gaps :
        average[f] = IF alive = {} THEN <<0, 1>> ELSE Ratio(MapThenSumSet(LAMBDA d : fieldLength[d][f], alive), Count)
=============================================================================
