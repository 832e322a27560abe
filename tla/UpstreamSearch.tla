--------------------------- MODULE UpstreamSearch ---------------------------
(***************************************************************************)
(* What a search of upstream's MiniSearch does, executeQuery with the      *)
(* termResults and removeTerm of each of its terms: the abstract           *)
(* specification of ExactSearch.  A posting list is scored with its length *)
(* as the term's document frequency, less one for each stale posting met   *)
(* so far, and a stale posting loses one occurrence when it is met.        *)
(*                                                                         *)
(* A result is a Map: documents in the order they were put in, and what is *)
(* added up to each one's score.                                           *)
(*                                                                         *)
(* The calls that change documents are any change of the index, after      *)
(* which there is no answer to look at: what they do is not this module's. *)
(***************************************************************************)
EXTENDS Integers, FiniteSets, SequencesExt

CONSTANTS
    Docs,           \* short ids, in the order of the posting lists
    Terms,
    Fields,         \* a sequence: the fields of a search, in order
    PrefixOf,       \* per term, the terms it is a prefix of, in tree order
    FuzzyOf,        \* per term, the terms near it, in tree order
    Unboosted,      \* documents for which boostDocument returns zero
    GlobalOptions,  \* the searchOptions of the constructor
    Queries,        \* records of a query and of the options of the call
    NoAnswer

VARIABLES
    alive,          \* _documentIds
    freq,           \* the index: per term, field and document, 0 for none
    answer          \* what the last call returned, if it was a search

Listed(fr, t, f) == {d \in Docs : fr[t][f][d] > 0}
Indexed(fr) == {t \in Terms : \E f \in ToSet(Fields) : Listed(fr, t, f) # {}}
Present(fr, list) == SelectSeq(list, LAMBDA t : t \in Indexed(fr))

\* The document frequency a live document of a posting list is scored with.
Matching(fr, t, f, d) ==
    Cardinality(Listed(fr, t, f)) - Cardinality({e \in Listed(fr, t, f) \ alive : e < d})

\* termResults: what it adds to the scores, field by field.
TermResults(fr, t, boosting) ==
    LET Scored(f) == {d \in Listed(fr, t, f) \cap alive : ~boosting \/ d \notin Unboosted}
    IN  FlattenSeq([i \in DOMAIN Fields |->
            [k \in 1 .. Cardinality(Scored(Fields[i])) |->
                LET d == SetToSortSeq(Scored(Fields[i]), <)[k]
                IN  [doc |-> d, term |-> t, field |-> Fields[i],
                     matching |-> Matching(fr, t, Fields[i], d)]]])

\* removeTerm of each of its stale postings.
Lowered(fr, t) ==
    [fr EXCEPT ![t] = [f \in ToSet(Fields) |-> [d \in Docs |->
        IF d \in Listed(fr, t, f) \ alive THEN fr[t][f][d] - 1 ELSE fr[t][f][d]]]]

\* What one spec adds, in its order, so far, with the index it leaves.
Visited(s, t, boosting) ==
    [freq |-> Lowered(s.freq, t), scored |-> s.scored \o TermResults(s.freq, t, boosting)]

\* The Map that additions come to.
Collected(scored) ==
    [docs |-> FoldLeft(LAMBDA docs, s : IF Contains(docs, s.doc) THEN docs ELSE Append(docs, s.doc), <<>>, scored),
     adds |-> [d \in Docs |-> SelectSeq(scored, LAMBDA s : s.doc = d)]]

\* executeQuerySpec: the exact term, then the expansions found after it.
SpecResults(fr, spec, boosting) ==
    LET exact == Visited([freq |-> fr, scored |-> <<>>], spec.term, boosting)
        prefix == IF spec.prefix THEN Present(exact.freq, PrefixOf[spec.term]) ELSE <<>>
        fuzzy == IF spec.fuzzy
                 THEN SelectSeq(Present(exact.freq, FuzzyOf[spec.term]),
                                LAMBDA t : t \notin ToSet(prefix))
                 ELSE <<>>
        all == FoldLeft(LAMBDA r, t : Visited(r, t, boosting), exact, prefix \o fuzzy)
    IN  [freq |-> all.freq, result |-> Collected(all.scored)]

\* executeWildcardQuery: its addition, the boost, is of no term.
Everything(boosting) ==
    Collected([k \in 1 .. Cardinality(alive) |->
        LET d == SetToSortSeq(alive, <)[k]
        IN  [doc |-> d, term |-> "", field |-> 0, matching |-> IF boosting /\ d \in Unboosted THEN 0 ELSE 1]])

\* The combinators: the documents they keep, in the order they keep them.
Kept(a, b, combineWith) ==
    CASE combineWith = "OR" -> a.docs \o SelectSeq(b.docs, LAMBDA d : d \notin ToSet(a.docs))
      [] combineWith = "AND" -> SelectSeq(b.docs, LAMBDA d : d \in ToSet(a.docs))
      [] combineWith = "AND_NOT" -> SelectSeq(a.docs, LAMBDA d : d \notin ToSet(b.docs))

Combined(a, b, combineWith) ==
    LET docs == Kept(a, b, combineWith)
    IN  [docs |-> docs, adds |-> [d \in Docs |-> IF d \in ToSet(docs) THEN a.adds[d] \o b.adds[d] ELSE <<>>]]

\* combineResults.
CombineResults(results, combineWith) ==
    IF results = <<>> THEN Collected(<<>>)
    ELSE FoldLeft(LAMBDA a, b : Combined(a, b, combineWith), Head(results), Tail(results))

\* executeQuery.  The constructor's options are under the given ones at the
\* texts alone; a tree's own are over those it is given, and its combineWith
\* is OR if none of these say.
RECURSIVE ExecuteQuery(_, _, _, _)
ExecuteQuery(fr, query, given, boosting) ==
    LET text == given @@ GlobalOptions
        own == query.options @@ given
        Then(s, r) == [freq |-> r.freq, results |-> Append(s.results, r.result)]
        Closed(s, combineWith) == [freq |-> s.freq, result |-> CombineResults(s.results, combineWith)]
        Nothing == [freq |-> fr, results |-> <<>>]
    IN  CASE query.kind = "wildcard" -> [freq |-> fr, result |-> Everything(boosting)]
          [] query.kind = "text" ->
                Closed(FoldLeft(LAMBDA s, t :
                           Then(s, SpecResults(s.freq, [term |-> t, prefix |-> text.prefix, fuzzy |-> text.fuzzy], boosting)),
                       Nothing, query.terms), text.combineWith)
          [] query.kind = "tree" ->
                Closed(FoldLeft(LAMBDA s, q : Then(s, ExecuteQuery(s.freq, q, own, boosting)), Nothing, query.queries),
                       IF "combineWith" \in DOMAIN own THEN own.combineWith ELSE "OR")

Searched(fr, asked, boosting) == ExecuteQuery(fr, asked.query, asked.options, boosting)

Search(asked, boosting) ==
    LET s == Searched(freq, asked, boosting)
    IN  freq' = s.freq /\ answer' = s.result /\ UNCHANGED alive

Change == answer' = NoAnswer

Init == answer = NoAnswer
Next == Change \/ \E asked \in Queries, boosting \in BOOLEAN : Search(asked, boosting)
Spec == Init /\ [][Next]_<<alive, freq, answer>>
=============================================================================
