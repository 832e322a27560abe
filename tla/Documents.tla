----------------------------- MODULE Documents -----------------------------
(***************************************************************************)
(* What the search index promises its callers: a map from document ids to  *)
(* the terms each document was indexed with.  Adding, removing, discarding *)
(* and replacing documents change the map; queries, vacuuming, compaction  *)
(* and snapshots do not.                                                   *)
(***************************************************************************)
EXTENDS Integers

CONSTANTS
    Ids, Terms, Fields,
    Words,          \* the terms of a document: occurrences by term and field
    NoDocument

VARIABLE docs   \* the indexed terms of every document, NoDocument for the others

Init == docs = [i \in Ids |-> NoDocument]

Put(id, words) ==
    /\ docs[id] = NoDocument
    /\ docs' = [docs EXCEPT ![id] = words]

\* A replaced document is indexed anew, whatever it was indexed with.
Replace(id, words) ==
    /\ docs[id] # NoDocument
    /\ docs' = [docs EXCEPT ![id] = words]

\* Every operation that takes documents out: of one id, of several, of all.
Drop(ids) == docs' = [i \in Ids |-> IF i \in ids THEN NoDocument ELSE docs[i]]

\* A document that stays loses the occurrences it has of the given words.
Less(held, words) ==
    [t \in Terms |-> [f \in Fields |->
        IF held[t][f] > words[t][f] THEN held[t][f] - words[t][f] ELSE 0]]

Reduce(id, words) ==
    /\ docs[id] # NoDocument
    /\ docs' = [docs EXCEPT ![id] = Less(@, words)]

\* Queries, vacuuming, compaction and snapshots.
Maintain == UNCHANGED docs

Next ==
    \/ Maintain
    \/ \E id \in Ids, words \in Words :
           Put(id, words) \/ Replace(id, words) \/ Reduce(id, words)
    \/ \E ids \in SUBSET Ids : Drop(ids)

Spec == Init /\ [][Next]_docs
============================================================================
