----------------------------- MODULE PostingMap -----------------------------
(***************************************************************************)
(* What a posting list promises its callers: a frequency per document, and *)
(* an answer that says whether a decrement found its document.  This is    *)
(* one term's and one field's share of the freq of SearchIndex.            *)
(***************************************************************************)
EXTENDS Naturals, FiniteSets

CONSTANTS
    Docs,           \* short ids
    MaxFrequency    \* bound on a frequency, a u32 in the code

VARIABLES
    freq,   \* occurrences, 0 for a document without a posting
    answer  \* what the last decrement returned

Init ==
    /\ freq = [d \in Docs |-> 0]
    /\ answer = TRUE

Increment(d) ==
    /\ freq[d] < MaxFrequency
    /\ freq' = [freq EXCEPT ![d] = @ + 1]
    /\ UNCHANGED answer

Decrement(d) ==
    /\ answer' = (freq[d] > 0)
    /\ freq' = [freq EXCEPT ![d] = IF @ > 0 THEN @ - 1 ELSE 0]

\* Only the documents of keep keep their postings.
Retain(keep) ==
    /\ freq' = [d \in Docs |-> IF d \in keep THEN freq[d] ELSE 0]
    /\ UNCHANGED answer

\* The live documents are numbered from 0 on, in their order.
Renumber(live) ==
    LET rank == [d \in live |-> Cardinality({x \in live : x < d})]
    IN  /\ freq' = [n \in Docs |->
               IF \E d \in live : rank[d] = n
               THEN freq[CHOOSE d \in live : rank[d] = n]
               ELSE 0]
        /\ UNCHANGED answer

\* A query that mimics MiniSearch takes one occurrence off each stale posting.
Visit(live) ==
    /\ freq' = [d \in Docs |->
           IF d \notin live /\ freq[d] > 0 THEN freq[d] - 1 ELSE freq[d]]
    /\ UNCHANGED answer

Next ==
    \/ \E d \in Docs : Increment(d) \/ Decrement(d)
    \/ \E live \in SUBSET Docs : Retain(live) \/ Renumber(live) \/ Visit(live)

Spec == Init /\ [][Next]_<<freq, answer>>
=============================================================================
