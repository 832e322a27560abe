------------------------- MODULE SearchIndexProofs -------------------------
(***************************************************************************)
(* The inductive invariant of SearchIndex and the theorems it gives, for   *)
(* every set of ids, terms, fields and documents and every bound.          *)
(***************************************************************************)
EXTENDS SearchIndex, FunctionTheorems, FiniteSetTheorems, TLAPS

\* The two id maps are inverse to each other on the live documents, dead short
\* ids have no field row, and the document count counts the live ones.
TablesInv ==
    /\ \A i \in Ids : idToShortId[i] # NoShortId =>
           idToShortId[i] \in alive /\ documentIds[idToShortId[i]] = i
    /\ \A d \in alive : documentIds[d] \in Ids /\ idToShortId[documentIds[d]] = d
    /\ \A d \in ShortIds \ alive : documentIds[d] = NoId /\ fieldLength[d] = NoFields
    /\ documentCount = Cardinality(alive)

\* The keys and the entries are those of the postings.
Consistent(fr, fo, tr) ==
    /\ \A t \in Terms : t \in tr <=> fo[t] # {}
    /\ \A t \in Terms, f \in Fields : f \in fo[t] <=> ~Empty(fr, t, f)

\* No key or entry is empty or missing, postings are of issued short ids, and a
\* live document has tokens in every field it has a posting for.
PostingsInv ==
    /\ Consistent(freq, fieldsOf, tree)
    /\ \A t \in Terms, f \in Fields, d \in ShortIds : freq[t][f][d] > 0 =>
           d < nextId /\ (d \in alive => fieldLength[d][f] > 0)

\* The dirt count pays for a run's dirt and for the discarded documents the run
\* does not cover, and the run's dirt for those it covers.
Paid(run, dirt, disc) ==
    /\ run.covers \subseteq disc
    /\ Cardinality(run.covers) <= run.initialDirtCount
    /\ run.initialDirtCount + Cardinality(disc \ run.covers) <= dirt

\* The documents a run covers have postings only in the terms it still visits.
Ahead(run, fr) ==
    \A t \in Terms, f \in Fields : \A d \in run.covers :
        fr[t][f][d] > 0 => t \in run.terms

\* Every stale posting is of a discarded or a changed document, and the dirt
\* count pays for the discarded ones.
DirtInv ==
    /\ discarded \cap alive = {} /\ discarded \subseteq 0 .. nextId - 1
    /\ ~vacuumState.running => vacuumState = NoVacuum
    /\ \A t \in Terms, f \in Fields, d \in ShortIds :
           freq[t][f][d] > 0 => d \in alive \cup discarded \cup changed
    /\ Ahead(vacuumState, freq)
    /\ Paid(vacuumState, dirtCount, discarded)

IInv == TypeOK /\ TablesInv /\ PostingsInv /\ DirtInv /\ CachedHandlesCurrent

----------------------------------------------------------------------------
(* Type correctness.                                                       *)

\* The operators on postings keep their types.
LEMMA PostingOperators ==
    ASSUME TypeOK, NEW keep \in SUBSET ShortIds, NEW terms \in SUBSET Terms,
           NEW words \in Frequencies, NEW d \in ShortIds
    PROVE  /\ RetainFreq(terms, keep) \in [Terms -> [Fields -> [ShortIds -> Nat]]]
           /\ RetainFields(terms, keep) \in [Terms -> SUBSET Fields]
           /\ RetainTree(terms, keep) \subseteq Terms
           /\ AddFreq(RetainFreq(terms, keep), d, words)
                  \in [Terms -> [Fields -> [ShortIds -> Nat]]]
           /\ AddFreq(freq, d, words) \in [Terms -> [Fields -> [ShortIds -> Nat]]]
           /\ RemoveFreq(d, words) \in [Terms -> [Fields -> [ShortIds -> Nat]]]
<1>1. RetainFreq(terms, keep) \in [Terms -> [Fields -> [ShortIds -> Nat]]]
    BY DEF TypeOK, RetainFreq
<1>2. /\ RetainFields(terms, keep) \in [Terms -> SUBSET Fields]
      /\ RetainTree(terms, keep) \subseteq Terms
    BY DEF TypeOK, RetainFields, RetainTree
<1>3. ASSUME NEW fr \in [Terms -> [Fields -> [ShortIds -> Nat]]]
      PROVE  AddFreq(fr, d, words) \in [Terms -> [Fields -> [ShortIds -> Nat]]]
    BY DEF AddFreq, Frequencies
<1>4. RemoveFreq(d, words) \in [Terms -> [Fields -> [ShortIds -> Nat]]]
    <2>1. ASSUME NEW t \in Terms, NEW f \in Fields
          PROVE  [freq[t][f] EXCEPT ![d] = Monus(@, words[t][f])] \in [ShortIds -> Nat]
        <3>1. freq[t][f] \in [ShortIds -> Nat] /\ words[t][f] \in Nat
            BY DEF TypeOK, Frequencies
        <3> QED
            BY <3>1 DEF Monus
    <2> QED
        BY <2>1 DEF RemoveFreq
<1> QED
    BY <1>1, <1>2, <1>3, <1>4 DEF TypeOK

\* Facts about short ids and documents that every proof needs.
LEMMA Basics ==
    /\ MaxShortId \in Nat /\ ShortIds \subseteq Nat
    /\ \A d \in ShortIds : d # NoShortId
    /\ IsFiniteSet(ShortIds)
    /\ \A doc \in Contents : /\ doc.freq \in Frequencies
                             /\ doc.length \in [Fields -> Nat \cup {Absent}]
                             /\ \A t \in Terms, f \in Fields :
                                    doc.freq[t][f] > 0 => doc.length[f] > 0
    /\ NoFields \in [Fields -> Nat \cup {Absent}]
<1>1. MaxShortId \in Nat /\ ShortIds \subseteq Nat /\ \A d \in ShortIds : d # NoShortId
    BY BoundsAssumption DEF ShortIds, NoShortId
<1>2. IsFiniteSet(ShortIds)
    BY BoundsAssumption, FS_Interval DEF ShortIds
<1>3. \A doc \in Contents : /\ doc.freq \in Frequencies
                            /\ doc.length \in [Fields -> Nat \cup {Absent}]
                            /\ \A t \in Terms, f \in Fields :
                                   doc.freq[t][f] > 0 => doc.length[f] > 0
    BY ContentsAssumption DEF Content
<1> QED
    BY <1>1, <1>2, <1>3 DEF NoFields

\* Live short ids are among those issued.
LEMMA IssuedIds ==
    ASSUME TypeOK
    PROVE  /\ nextId \in Nat /\ nextId <= MaxShortId
           /\ \A d \in alive : d \in Int /\ 0 <= d /\ d <= nextId - 1
BY Basics DEF TypeOK

LEMMA TypeInit == Init => TypeOK
BY Basics, BoundsAssumption
   DEF Init, TypeOK, ShortIds, NoShortId, NoVacuum, NoFields, Absent

\* The short ids of a set of live documents are finite in number.
LEMMA LiveSetFinite ==
    ASSUME TypeOK, NEW gone \in SUBSET alive
    PROVE  /\ gone \in SUBSET ShortIds
           /\ IsFiniteSet(gone) /\ Cardinality(gone) \in Nat
           /\ IsFiniteSet(alive) /\ Cardinality(gone) <= Cardinality(alive)
<1>1. alive \subseteq ShortIds
    BY Basics DEF TypeOK, ShortIds
<1>2. IsFiniteSet(alive)
    BY <1>1, Basics, FS_Subset
<1> QED
    BY <1>1, <1>2, FS_Subset, FS_CardinalityType

\* A run that begins, or goes on, is a vacuum state of the right type.
LEMMA BegunType ==
    ASSUME TypeOK, NEW dirt \in Nat, NEW disc \in SUBSET ShortIds
    PROVE  /\ Begun(dirt, disc) \in [running : BOOLEAN, terms : SUBSET Terms,
                                     initialDirtCount : Nat, covers : SUBSET ShortIds]
           /\ NoVacuum \in [running : BOOLEAN, terms : SUBSET Terms,
                            initialDirtCount : Nat, covers : SUBSET ShortIds]
BY DEF TypeOK, Begun, NoVacuum

\* Discarding, with the vacuum it may end with, keeps the types.
LEMMA TypeDiscardDirt ==
    ASSUME TypeOK, NEW gone \in SUBSET alive, NEW auto \in BOOLEAN,
           DiscardDirt(gone, auto)
    PROVE  /\ dirtCount' \in Nat
           /\ discarded' \subseteq ShortIds
           /\ vacuumState' \in [running : BOOLEAN, terms : SUBSET Terms,
                                initialDirtCount : Nat, covers : SUBSET ShortIds]
           /\ AutoVacuumTerms(gone, auto) \subseteq Terms
<1>a. gone \in SUBSET ShortIds /\ Cardinality(gone) \in Nat
    BY LiveSetFinite
<1>b. dirtCount + Cardinality(gone) \in Nat
    BY <1>a DEF TypeOK
<1>c. discarded \cup gone \in SUBSET ShortIds
    BY <1>a DEF TypeOK
<1>1. /\ gone \in SUBSET ShortIds /\ Cardinality(gone) \in Nat
      /\ dirtCount + Cardinality(gone) \in Nat
      /\ discarded \cup gone \in SUBSET ShortIds
    BY <1>a, <1>b, <1>c
<1>2. AutoRun(gone) \in [running : BOOLEAN, terms : SUBSET Terms,
                         initialDirtCount : Nat, covers : SUBSET ShortIds]
    BY <1>1, BegunType DEF AutoRun
<1>3. AutoVacuumTerms(gone, auto) \subseteq Terms
    BY <1>2 DEF AutoVacuumTerms
<1>4. CASE AutoVacuums(gone, auto)
    <2>1. /\ dirtCount' = Monus(dirtCount + Cardinality(gone), AutoRun(gone).initialDirtCount)
          /\ discarded' = (discarded \cup gone) \ AutoRun(gone).covers
          /\ vacuumState' = NoVacuum
        BY <1>4 DEF DiscardDirt
    <2>2. AutoRun(gone).initialDirtCount \in Nat
        BY <1>2
    <2>3. dirtCount' \in Nat
        BY <2>1, <2>2, <1>1 DEF Monus
    <2>4. discarded' \subseteq ShortIds
        BY <2>1, <1>1
    <2> QED
        BY <2>1, <2>3, <2>4, <1>1, <1>3, BegunType DEF TypeOK
<1>5. CASE ~AutoVacuums(gone, auto)
    BY <1>1, <1>3, <1>5 DEF DiscardDirt, TypeOK
<1> QED
    BY <1>4, <1>5

\* A run of the invariant's finite counts: discarding lowers the document count.
LEMMA TypeDiscard ==
    ASSUME TypeOK, documentCount = Cardinality(alive),
           NEW gone \in SUBSET alive, NEW auto \in BOOLEAN,
           DiscardDocuments(gone, auto)
    PROVE  TypeOK'
<1>1. /\ gone \in SUBSET ShortIds /\ Cardinality(gone) \in Nat
      /\ documentCount - Cardinality(gone) \in Nat
    BY LiveSetFinite DEF TypeOK
<1>2. /\ dirtCount' \in Nat
      /\ discarded' \subseteq ShortIds
      /\ vacuumState' \in [running : BOOLEAN, terms : SUBSET Terms,
                           initialDirtCount : Nat, covers : SUBSET ShortIds]
      /\ AutoVacuumTerms(gone, auto) \subseteq Terms
    BY TypeDiscardDirt DEF DiscardDocuments
<1>3. alive \ gone \in SUBSET ShortIds
    BY LiveSetFinite
<1>4. /\ freq' \in [Terms -> [Fields -> [ShortIds -> Nat]]]
      /\ fieldsOf' \in [Terms -> SUBSET Fields]
      /\ tree' \subseteq Terms
    BY <1>2, <1>3 DEF DiscardDocuments, Retain, RetainFreq, RetainFields, RetainTree, TypeOK
<1>5. /\ idToShortId' \in [Ids -> ShortIds \cup {NoShortId}]
      /\ documentIds' \in [ShortIds -> Ids \cup {NoId}]
      /\ fieldLength' \in [ShortIds -> [Fields -> Nat \cup {Absent}]]
    BY Basics DEF DiscardDocuments, TypeOK
<1> QED
    BY <1>1, <1>2, <1>4, <1>5 DEF DiscardDocuments, TypeOK

LEMMA TypeAdd ==
    ASSUME TypeOK, NEW id \in Ids, NEW doc \in Contents, Add(id, doc)
    PROVE  TypeOK'
<1>1. nextId \in ShortIds /\ nextId + 1 \in 0 .. MaxShortId
    BY BoundsAssumption DEF Add, TypeOK, ShortIds
<1>2. freq' \in [Terms -> [Fields -> [ShortIds -> Nat]]]
    BY <1>1, Basics DEF Add, AddFreq, TypeOK, Frequencies
<1>3. fieldsOf' \in [Terms -> SUBSET Fields] /\ tree' \subseteq Terms
    BY DEF Add, AddFields, AddTree, TypeOK
<1>4. /\ idToShortId' \in [Ids -> ShortIds \cup {NoShortId}]
      /\ documentIds' \in [ShortIds -> Ids \cup {NoId}]
      /\ fieldLength' \in [ShortIds -> [Fields -> Nat \cup {Absent}]]
    BY <1>1, Basics DEF Add, TypeOK
<1>5. alive' \subseteq 0 .. nextId' - 1 /\ documentCount' \in Nat /\ idTableVersion' \in Nat
    <2>1. /\ alive' = alive \cup {nextId} /\ nextId' = nextId + 1
          /\ documentCount' = documentCount + 1 /\ idTableVersion' = idTableVersion + 1
        BY DEF Add
    <2>2. alive' \subseteq 0 .. nextId' - 1
        BY <2>1, IssuedIds
    <2> QED
        BY <2>1, <2>2 DEF TypeOK
<1>6. /\ dirtCount' \in Nat /\ discarded' \subseteq ShortIds /\ changed' \subseteq ShortIds
      /\ vacuumState' = vacuumState
    BY DEF Add, TypeOK
<1>7. nextId' \in 0 .. MaxShortId
    BY <1>1 DEF Add
<1> QED
    BY <1>2, <1>3, <1>4, <1>5, <1>6, <1>7 DEF TypeOK

LEMMA TypeRemoveTerms ==
    ASSUME TypeOK, NEW d \in ShortIds, NEW doc \in Contents, RemoveTerms(d, doc)
    PROVE  /\ freq' \in [Terms -> [Fields -> [ShortIds -> Nat]]]
           /\ fieldsOf' \in [Terms -> SUBSET Fields]
           /\ tree' \subseteq Terms
<1>1. freq' \in [Terms -> [Fields -> [ShortIds -> Nat]]]
    BY PostingOperators, Basics DEF RemoveTerms
<1> QED
    BY <1>1 DEF RemoveTerms, TypeOK

LEMMA TypeRemove ==
    ASSUME TypeOK, TablesInv, NEW id \in Ids, NEW doc \in Contents, Remove(id, doc)
    PROVE  TypeOK'
<1> DEFINE d == idToShortId[id]
<1>1. d \in alive /\ d \in ShortIds
    BY LiveSetFinite DEF Remove, TablesInv
<1>2. /\ freq' \in [Terms -> [Fields -> [ShortIds -> Nat]]]
      /\ fieldsOf' \in [Terms -> SUBSET Fields]
      /\ tree' \subseteq Terms
    BY <1>1, TypeRemoveTerms DEF Remove
<1>3. documentCount - 1 \in Nat
    <2>1. Cardinality({d}) = 1 /\ {d} \in SUBSET alive
        BY <1>1, FS_Singleton
    <2> QED
        BY <2>1, LiveSetFinite DEF TypeOK, TablesInv
<1>4. /\ idToShortId' \in [Ids -> ShortIds \cup {NoShortId}]
      /\ documentIds' \in [ShortIds -> Ids \cup {NoId}]
      /\ fieldLength' \in [ShortIds -> [Fields -> Nat \cup {Absent}]]
    BY <1>1, Basics DEF Remove, TypeOK
<1>5. alive' \subseteq 0 .. nextId' - 1 /\ documentCount' \in Nat /\ idTableVersion' \in Nat
    <2>1. alive' = alive \ {d} /\ nextId' = nextId
        BY DEF Remove
    <2>2. documentCount' = documentCount - 1 /\ idTableVersion' = idTableVersion + 1
        BY DEF Remove
    <2>3. alive' \subseteq 0 .. nextId' - 1
        BY <2>1, IssuedIds
    <2>4. idTableVersion' \in Nat
        BY <2>2 DEF TypeOK
    <2> QED
        BY <2>2, <2>3, <2>4, <1>3
<1>6. /\ dirtCount' \in Nat /\ discarded' \subseteq ShortIds
      /\ vacuumState' = vacuumState /\ nextId' = nextId
    BY DEF Remove, TypeOK
<1>7. changed' \subseteq ShortIds
    BY <1>1 DEF Remove, TypeOK
<1> QED
    BY <1>2, <1>4, <1>5, <1>6, <1>7 DEF TypeOK

LEMMA TypeReplace ==
    ASSUME TypeOK, TablesInv, NEW id \in Ids, NEW doc \in Contents, NEW auto \in BOOLEAN,
           Replace(id, doc, auto)
    PROVE  TypeOK'
<1> DEFINE d == idToShortId[id]
           terms == AutoVacuumTerms({d}, auto)
<1>1. d \in alive /\ d \in ShortIds /\ {d} \in SUBSET alive
    BY LiveSetFinite DEF Replace, TablesInv
<1>2. nextId \in ShortIds /\ nextId + 1 \in 0 .. MaxShortId
    BY BoundsAssumption DEF Replace, TypeOK, ShortIds
<1>3. /\ dirtCount' \in Nat
      /\ discarded' \subseteq ShortIds
      /\ vacuumState' \in [running : BOOLEAN, terms : SUBSET Terms,
                           initialDirtCount : Nat, covers : SUBSET ShortIds]
      /\ terms \subseteq Terms
    BY <1>1, TypeDiscardDirt DEF Replace
<1>4. alive \ {d} \in SUBSET ShortIds
    BY LiveSetFinite
<1>5. freq' \in [Terms -> [Fields -> [ShortIds -> Nat]]]
    BY <1>2, <1>3, <1>4, PostingOperators, Basics DEF Replace
<1>6. fieldsOf' \in [Terms -> SUBSET Fields] /\ tree' \subseteq Terms
    BY <1>3 DEF Replace, AddFields, AddTree, RetainFields, RetainTree, TypeOK
<1>7. /\ idToShortId' \in [Ids -> ShortIds \cup {NoShortId}]
      /\ documentIds' \in [ShortIds -> Ids \cup {NoId}]
      /\ fieldLength' \in [ShortIds -> [Fields -> Nat \cup {Absent}]]
    BY <1>1, <1>2, Basics DEF Replace, TypeOK
<1>8. alive' \subseteq 0 .. nextId' - 1 /\ documentCount' \in Nat /\ idTableVersion' \in Nat
    <2>1. alive' = (alive \ {d}) \cup {nextId} /\ nextId' = nextId + 1
        BY DEF Replace
    <2>2. documentCount' = documentCount /\ idTableVersion' = idTableVersion + 2
        BY DEF Replace
    <2>3. alive' \subseteq 0 .. nextId' - 1
        BY <2>1, IssuedIds
    <2> QED
        BY <2>2, <2>3 DEF TypeOK
<1>9. changed' \subseteq ShortIds /\ nextId' \in 0 .. MaxShortId
    BY <1>2 DEF Replace, TypeOK
<1> QED
    BY <1>3, <1>5, <1>6, <1>7, <1>8, <1>9 DEF TypeOK

LEMMA TypeReplaceExhausted ==
    ASSUME TypeOK, TablesInv, NEW id \in Ids, NEW auto \in BOOLEAN,
           ReplaceExhausted(id, auto)
    PROVE  TypeOK'
<1>1. {idToShortId[id]} \in SUBSET alive
    BY DEF ReplaceExhausted, TablesInv
<1> QED
    BY <1>1, TypeDiscard DEF ReplaceExhausted, TablesInv

LEMMA TypeRemoveFields ==
    ASSUME TypeOK, NEW id \in Ids, NEW doc \in Contents, RemoveFields(id, doc)
    PROVE  TypeOK'
<1>1. idToShortId[id] \in ShortIds
    BY DEF RemoveFields, TypeOK
<1>2. /\ freq' \in [Terms -> [Fields -> [ShortIds -> Nat]]]
      /\ fieldsOf' \in [Terms -> SUBSET Fields]
      /\ tree' \subseteq Terms
    BY <1>1, TypeRemoveTerms DEF RemoveFields
<1> QED
    BY <1>2 DEF RemoveFields, TypeOK, tables

LEMMA TypeRemoveAll ==
    ASSUME TypeOK, RemoveAllDocuments
    PROVE  TypeOK'
<1>1. /\ nextId' \in 0 .. MaxShortId /\ alive' \subseteq 0 .. nextId' - 1
      /\ documentCount' \in Nat /\ idTableVersion' \in Nat
    BY BoundsAssumption DEF RemoveAllDocuments, FreshTables, FreshPostings, TypeOK
<1>2. /\ idToShortId' \in [Ids -> ShortIds \cup {NoShortId}]
      /\ documentIds' \in [ShortIds -> Ids \cup {NoId}]
      /\ fieldLength' \in [ShortIds -> [Fields -> Nat \cup {Absent}]]
    BY Basics DEF RemoveAllDocuments, FreshTables, FreshPostings
<1>3. /\ freq' \in [Terms -> [Fields -> [ShortIds -> Nat]]]
      /\ fieldsOf' \in [Terms -> SUBSET Fields]
      /\ tree' \subseteq Terms
    BY DEF RemoveAllDocuments, FreshTables, FreshPostings
<1>4. /\ dirtCount' \in Nat /\ discarded' \subseteq ShortIds /\ changed' \subseteq ShortIds
      /\ vacuumState' \in [running : BOOLEAN, terms : SUBSET Terms,
                           initialDirtCount : Nat, covers : SUBSET ShortIds]
    BY BegunType DEF RemoveAllDocuments, FreshTables, FreshPostings, TypeOK
<1> QED
    BY <1>1, <1>2, <1>3, <1>4 DEF TypeOK

LEMMA TypeBeginVacuum ==
    ASSUME TypeOK, BeginVacuum
    PROVE  TypeOK'
<1>1. vacuumState' \in [running : BOOLEAN, terms : SUBSET Terms,
                        initialDirtCount : Nat, covers : SUBSET ShortIds]
    <2>1. dirtCount \in Nat /\ discarded \in SUBSET ShortIds
        BY DEF TypeOK
    <2> QED
        BY <2>1, BegunType DEF BeginVacuum
<1> QED
    BY <1>1 DEF BeginVacuum, TypeOK, tables, postings, history

LEMMA TypeVacuumStep ==
    ASSUME TypeOK, NEW batch \in SUBSET Terms, VacuumStep(batch)
    PROVE  TypeOK'
<1> DEFINE run == Begun(dirtCount, discarded)
<1>1. /\ run \in [running : BOOLEAN, terms : SUBSET Terms,
                  initialDirtCount : Nat, covers : SUBSET ShortIds]
      /\ NoVacuum \in [running : BOOLEAN, terms : SUBSET Terms,
                       initialDirtCount : Nat, covers : SUBSET ShortIds]
    <2>1. dirtCount \in Nat /\ discarded \in SUBSET ShortIds
        BY DEF TypeOK
    <2> QED
        BY <2>1, BegunType
<1>2. /\ freq' \in [Terms -> [Fields -> [ShortIds -> Nat]]]
      /\ fieldsOf' \in [Terms -> SUBSET Fields]
      /\ tree' \subseteq Terms
    <2>1. alive \in SUBSET ShortIds
        BY LiveSetFinite
    <2> QED
        BY <2>1 DEF VacuumStep, Retain, RetainFreq, RetainFields, RetainTree, TypeOK
<1>3. vacuumState' \in [running : BOOLEAN, terms : SUBSET Terms,
                        initialDirtCount : Nat, covers : SUBSET ShortIds]
    <2>1. \/ vacuumState' = [run EXCEPT !.terms = run.terms \ batch]
          \/ vacuumState' = NoVacuum
        BY DEF VacuumStep
    <2> HIDE DEF run
    <2> QED
        BY <1>1, <2>1
<1>4. dirtCount' \in Nat /\ discarded' \subseteq ShortIds
    <2>1. run.initialDirtCount \in Nat
        BY <1>1
    <2>2. CASE run.terms \ batch # {}
        BY <2>2 DEF VacuumStep, TypeOK
    <2>3. CASE run.terms \ batch = {}
        <3>1. /\ dirtCount' = Monus(dirtCount, run.initialDirtCount)
              /\ discarded' \subseteq discarded
            BY <2>3 DEF VacuumStep
        <3> HIDE DEF run
        <3> QED
            BY <3>1, <2>1 DEF TypeOK, Monus
    <2> QED
        BY <2>2, <2>3
<1>5. UNCHANGED <<tables, idTableVersion, changed>>
    BY DEF VacuumStep
<1> QED
    BY <1>2, <1>3, <1>4, <1>5 DEF TypeOK, tables

\* The renumbering of compact: the new short ids 0 .. documentCount - 1 name
\* the live documents, each once.
LEMMA Renumbered ==
    ASSUME TypeOK, TablesInv, NEW old \in Renumbering
    PROVE  /\ documentCount \in Nat /\ documentCount <= nextId
           /\ documentCount \in 0 .. MaxShortId
           /\ 0 .. documentCount - 1 \subseteq ShortIds
           /\ \A n \in 0 .. documentCount - 1 : old[n] \in alive /\ old[n] \in ShortIds
           /\ \A m, n \in 0 .. documentCount - 1 : old[m] = old[n] => m = n
           /\ DOMAIN old = 0 .. documentCount - 1
           /\ \A d \in alive :
                  /\ (CHOOSE n \in DOMAIN old : old[n] = d) \in 0 .. documentCount - 1
                  /\ old[CHOOSE n \in DOMAIN old : old[n] = d] = d
<1>1. documentCount \in Nat /\ documentCount <= nextId
    <2>1. nextId \in Nat /\ alive \subseteq 0 .. nextId - 1
        BY IssuedIds DEF TypeOK
    <2>2. IsFiniteSet(0 .. nextId - 1) /\ Cardinality(0 .. nextId - 1) = nextId
        BY <2>1, FS_Interval
    <2>3. Cardinality(alive) <= Cardinality(0 .. nextId - 1)
        BY <2>1, <2>2, FS_Subset
    <2> QED
        BY <2>2, <2>3 DEF TypeOK, TablesInv
<1>2. documentCount \in 0 .. MaxShortId /\ 0 .. documentCount - 1 \subseteq ShortIds
    BY <1>1, IssuedIds, Basics DEF ShortIds
<1>3. /\ old \in [0 .. documentCount - 1 -> alive]
      /\ \A m, n \in 0 .. documentCount - 1 : m < n => old[m] < old[n]
      /\ \A d \in alive : \E n \in 0 .. documentCount - 1 : old[n] = d
    BY DEF Renumbering
<1>4. \A n \in 0 .. documentCount - 1 : old[n] \in alive /\ old[n] \in ShortIds /\ old[n] \in Int
    BY <1>3, LiveSetFinite, IssuedIds
<1>5. \A m, n \in 0 .. documentCount - 1 : old[m] = old[n] => m = n
    BY <1>3, <1>4
<1>6. ASSUME NEW d \in alive
      PROVE  /\ (CHOOSE n \in DOMAIN old : old[n] = d) \in 0 .. documentCount - 1
             /\ old[CHOOSE n \in DOMAIN old : old[n] = d] = d
    BY <1>3
<1> QED
    BY <1>1, <1>2, <1>3, <1>4, <1>5, <1>6

LEMMA TypeCompact ==
    ASSUME TypeOK, TablesInv, Compact
    PROVE  TypeOK'
<1>1. PICK old \in Renumbering :
        /\ nextId' = documentCount
        /\ documentIds' = [n \in ShortIds |->
               IF n < documentCount THEN documentIds[old[n]] ELSE NoId]
        /\ idToShortId' = [i \in Ids |->
               IF idToShortId[i] = NoShortId THEN NoShortId
               ELSE CHOOSE n \in DOMAIN old : old[n] = idToShortId[i]]
        /\ fieldLength' = [n \in ShortIds |->
               IF n < documentCount THEN fieldLength[old[n]] ELSE NoFields]
        /\ alive' = 0 .. documentCount - 1
        /\ freq' = [t \in Terms |-> [f \in Fields |-> [n \in ShortIds |->
               IF n < documentCount THEN freq[t][f][old[n]] ELSE 0]]]
        /\ fieldsOf' = RetainFields(tree, alive)
        /\ tree' = RetainTree(tree, alive)
    BY DEF Compact
<1>2. \A n \in ShortIds : n < documentCount => n \in 0 .. documentCount - 1
    BY Basics, Renumbered DEF ShortIds
<1>3. /\ idToShortId' \in [Ids -> ShortIds \cup {NoShortId}]
    <2>1. ASSUME NEW i \in Ids, idToShortId[i] # NoShortId
          PROVE  (CHOOSE n \in DOMAIN old : old[n] = idToShortId[i]) \in ShortIds
        <3>1. idToShortId[i] \in alive
            BY <2>1 DEF TablesInv
        <3> QED
            BY <3>1, Renumbered
    <2> QED
        BY <1>1, <2>1
<1>4. /\ documentIds' \in [ShortIds -> Ids \cup {NoId}]
      /\ fieldLength' \in [ShortIds -> [Fields -> Nat \cup {Absent}]]
    BY <1>1, <1>2, Renumbered, Basics DEF TypeOK
<1>5. freq' \in [Terms -> [Fields -> [ShortIds -> Nat]]]
    BY <1>1, <1>2, Renumbered DEF TypeOK
<1>6. fieldsOf' \in [Terms -> SUBSET Fields] /\ tree' \subseteq Terms
    BY <1>1 DEF RetainFields, RetainTree, TypeOK
<1>7. nextId' \in 0 .. MaxShortId /\ alive' \subseteq 0 .. nextId' - 1
    BY <1>1, Renumbered
<1>8. /\ UNCHANGED <<documentCount, dirtCount, vacuumState>>
      /\ discarded' = {} /\ changed' = {} /\ idTableVersion' = idTableVersion + 1
    BY DEF Compact
<1>9. /\ documentCount' \in Nat /\ dirtCount' \in Nat /\ idTableVersion' \in Nat
      /\ vacuumState' \in [running : BOOLEAN, terms : SUBSET Terms,
                           initialDirtCount : Nat, covers : SUBSET ShortIds]
      /\ discarded' \subseteq ShortIds /\ changed' \subseteq ShortIds
    BY <1>8 DEF TypeOK
<1> QED
    BY <1>3, <1>4, <1>5, <1>6, <1>7, <1>9 DEF TypeOK

LEMMA TypeReload ==
    ASSUME TypeOK, Reload
    PROVE  TypeOK'
<1>1. NoVacuum \in [running : BOOLEAN, terms : SUBSET Terms,
                    initialDirtCount : Nat, covers : SUBSET ShortIds]
    BY DEF NoVacuum
<1> QED
    BY <1>1 DEF Reload, TypeOK, tables, postings, history

LEMMA TypeSearchExact ==
    ASSUME TypeOK, NEW terms \in SUBSET Terms, NEW fields \in SUBSET Fields,
           NEW boosting \in BOOLEAN, SearchExact(terms, fields, boosting)
    PROVE  TypeOK'
<1>1. freq' \in [Terms -> [Fields -> [ShortIds -> Nat]]]
    BY DEF SearchExact, TypeOK, Monus
<1>2. fieldsOf' \in [Terms -> SUBSET Fields] /\ tree' \subseteq Terms
    BY DEF SearchExact, TypeOK
<1> QED
    BY <1>1, <1>2 DEF SearchExact, TypeOK, tables, history

\* Every step keeps the types.
LEMMA TypeStep == TypeOK /\ TablesInv /\ [Next]_vars => TypeOK'
<1> SUFFICES ASSUME TypeOK, TablesInv, [Next]_vars PROVE TypeOK'
    OBVIOUS
<1>1. CASE \E id \in Ids, doc \in Contents : Add(id, doc)
    BY <1>1, TypeAdd
<1>2. CASE \E id \in Ids : AddExhausted(id)
    BY <1>2 DEF AddExhausted, TypeOK, tables, postings, history
<1>3. CASE \E id \in Ids, doc \in Contents : Remove(id, doc)
    BY <1>3, TypeRemove
<1>4. CASE \E id \in Ids, doc \in Contents : RemoveFields(id, doc)
    BY <1>4, TypeRemoveFields
<1>5. CASE RemoveAllDocuments
    BY <1>5, TypeRemoveAll
<1>6. CASE \E gone \in SUBSET alive, auto \in BOOLEAN : Discard(gone, auto)
    BY <1>6, TypeDiscard DEF Discard, TablesInv
<1>7. CASE \E id \in Ids, doc \in Contents, auto \in BOOLEAN : Replace(id, doc, auto)
    BY <1>7, TypeReplace
<1>8. CASE \E id \in Ids, auto \in BOOLEAN : ReplaceExhausted(id, auto)
    BY <1>8, TypeReplaceExhausted
<1>9. CASE BeginVacuum
    BY <1>9, TypeBeginVacuum
<1>10. CASE \E batch \in SUBSET Terms : VacuumStep(batch)
    BY <1>10, TypeVacuumStep
<1>11. CASE Compact
    BY <1>11, TypeCompact
<1>12. CASE Reload
    BY <1>12, TypeReload
<1>13. CASE Search
    BY <1>13 DEF Search, TypeOK, tables, postings, history
<1>14. CASE \E terms \in SUBSET Terms \ {{}}, fields \in SUBSET Fields \ {{}},
               boosting \in BOOLEAN : SearchExact(terms, fields, boosting)
    BY <1>14, TypeSearchExact
<1>15. CASE UNCHANGED vars
    BY <1>15 DEF vars, TypeOK, tables, postings, history
<1> QED
    BY <1>1, <1>2, <1>3, <1>4, <1>5, <1>6, <1>7, <1>8, <1>9, <1>10, <1>11, <1>12,
       <1>13, <1>14, <1>15 DEF Next

----------------------------------------------------------------------------
(* The document tables.                                                    *)

LEMMA TablesInit == Init => TablesInv
BY FS_EmptySet DEF Init, TablesInv, NoShortId

LEMMA TablesAdd ==
    ASSUME TypeOK, TablesInv, NEW id \in Ids, NEW doc \in Contents, Add(id, doc)
    PROVE  TablesInv'
<1>1. nextId \in ShortIds /\ nextId \notin alive /\ nextId # NoShortId
    BY IssuedIds, Basics DEF Add, ShortIds
<1>2. /\ idToShortId' = [idToShortId EXCEPT ![id] = nextId]
      /\ documentIds' = [documentIds EXCEPT ![nextId] = id]
      /\ alive' = alive \cup {nextId}
      /\ documentCount' = documentCount + 1
      /\ fieldLength' = [fieldLength EXCEPT ![nextId] = doc.length]
      /\ idToShortId[id] = NoShortId
    BY DEF Add
<1>3. \A i \in Ids : idToShortId'[i] # NoShortId =>
          idToShortId'[i] \in alive' /\ documentIds'[idToShortId'[i]] = i
    BY <1>1, <1>2 DEF TypeOK, TablesInv
<1>4. \A d \in alive' : documentIds'[d] \in Ids /\ idToShortId'[documentIds'[d]] = d
    <2>1. \A d \in alive : d # NoShortId /\ d # nextId /\ d \in ShortIds
        BY <1>1, LiveSetFinite, Basics
    <2>2. \A d \in alive : documentIds[d] # id
        BY <1>2, <2>1 DEF TablesInv
    <2> QED
        BY <1>1, <1>2, <2>1, <2>2 DEF TypeOK, TablesInv
<1>5. \A d \in ShortIds \ alive' : documentIds'[d] = NoId /\ fieldLength'[d] = NoFields
    BY <1>1, <1>2 DEF TypeOK, TablesInv
<1>6. documentCount' = Cardinality(alive')
    <2>1. Cardinality(alive \cup {nextId}) = Cardinality(alive) + 1
        BY <1>1, LiveSetFinite, FS_AddElement
    <2> QED
        BY <1>2, <2>1 DEF TablesInv
<1> QED
    BY <1>3, <1>4, <1>5, <1>6 DEF TablesInv

\* Documents taken out of the tables, by remove or by discard.
LEMMA TablesWithout ==
    ASSUME TypeOK, TablesInv, NEW gone \in SUBSET alive,
           idToShortId' = [i \in Ids |->
               IF idToShortId[i] \in gone THEN NoShortId ELSE idToShortId[i]],
           documentIds' = [d \in ShortIds |-> IF d \in gone THEN NoId ELSE documentIds[d]],
           fieldLength' = [d \in ShortIds |-> IF d \in gone THEN NoFields ELSE fieldLength[d]],
           alive' = alive \ gone,
           documentCount' = documentCount - Cardinality(gone)
    PROVE  TablesInv'
<1>1. gone \in SUBSET ShortIds /\ alive \in SUBSET ShortIds
    BY LiveSetFinite
<1>2. \A i \in Ids : idToShortId'[i] # NoShortId =>
          idToShortId'[i] \in alive' /\ documentIds'[idToShortId'[i]] = i
    BY <1>1 DEF TablesInv
<1>3. \A d \in alive' : documentIds'[d] \in Ids /\ idToShortId'[documentIds'[d]] = d
    BY <1>1 DEF TablesInv
<1>4. \A d \in ShortIds \ alive' : documentIds'[d] = NoId /\ fieldLength'[d] = NoFields
    BY <1>1 DEF TablesInv
<1>5. documentCount' = Cardinality(alive')
    <2>1. alive \cap gone = gone
        OBVIOUS
    <2>2. Cardinality(alive \ gone) = Cardinality(alive) - Cardinality(gone)
        BY <2>1, LiveSetFinite, FS_Difference, ZenonT(30)
    <2> QED
        BY <2>2 DEF TablesInv
<1> QED
    BY <1>2, <1>3, <1>4, <1>5 DEF TablesInv

LEMMA TablesRemove ==
    ASSUME TypeOK, TablesInv, NEW id \in Ids, NEW doc \in Contents, Remove(id, doc)
    PROVE  TablesInv'
<1> DEFINE d == idToShortId[id]
<1>1. d \in alive /\ {d} \in SUBSET alive /\ Cardinality({d}) = 1 /\ d # NoShortId
    BY FS_Singleton DEF Remove, TablesInv
<1>2. \A i \in Ids : idToShortId[i] \in {d} <=> i = id
    BY <1>1 DEF TablesInv
<1>3. /\ documentIds' = [documentIds EXCEPT ![d] = NoId]
      /\ idToShortId' = [idToShortId EXCEPT ![id] = NoShortId]
      /\ fieldLength' = [fieldLength EXCEPT ![d] = NoFields]
      /\ alive' = alive \ {d}
      /\ documentCount' = documentCount - 1
    BY DEF Remove
<1>4. idToShortId' = [i \in Ids |->
          IF idToShortId[i] \in {d} THEN NoShortId ELSE idToShortId[i]]
    BY <1>2, <1>3 DEF TypeOK
<1>5. /\ documentIds' = [e \in ShortIds |-> IF e \in {d} THEN NoId ELSE documentIds[e]]
      /\ fieldLength' = [e \in ShortIds |-> IF e \in {d} THEN NoFields ELSE fieldLength[e]]
    BY <1>3 DEF TypeOK
<1> QED
    BY <1>1, <1>3, <1>4, <1>5, TablesWithout

LEMMA TablesReplace ==
    ASSUME TypeOK, TablesInv, NEW id \in Ids, NEW doc \in Contents, NEW auto \in BOOLEAN,
           Replace(id, doc, auto)
    PROVE  TablesInv'
<1> DEFINE d == idToShortId[id]
<1>1. /\ nextId \in ShortIds /\ nextId \notin alive /\ nextId # NoShortId
      /\ d \in alive /\ d \in ShortIds /\ d # nextId /\ documentIds[d] = id
    BY IssuedIds, Basics, LiveSetFinite DEF Replace, ShortIds, TablesInv
<1>2. /\ idToShortId' = [idToShortId EXCEPT ![id] = nextId]
      /\ documentIds' = [documentIds EXCEPT ![d] = NoId, ![nextId] = id]
      /\ fieldLength' = [fieldLength EXCEPT ![d] = NoFields, ![nextId] = doc.length]
      /\ alive' = (alive \ {d}) \cup {nextId}
      /\ documentCount' = documentCount
    BY DEF Replace
<1> HIDE DEF d
<1>3. \A i \in Ids : idToShortId'[i] # NoShortId =>
          idToShortId'[i] \in alive' /\ documentIds'[idToShortId'[i]] = i
    <2>1. \A i \in Ids \ {id} : idToShortId[i] # d
        <3>1. d # NoShortId
            BY <1>1, Basics
        <3> QED
            BY <1>1, <3>1 DEF TablesInv
    <2>2. \A i \in Ids \ {id} : idToShortId[i] # nextId
        BY <1>1 DEF TablesInv
    <2> QED
        BY <1>1, <1>2, <2>1, <2>2 DEF TypeOK, TablesInv
<1>4. \A e \in alive' : documentIds'[e] \in Ids /\ idToShortId'[documentIds'[e]] = e
    <2>1. \A e \in alive \ {d} : documentIds[e] # id /\ e # nextId /\ e \in ShortIds
        BY <1>1, LiveSetFinite DEF TablesInv, d
    <2> QED
        BY <1>1, <1>2, <2>1 DEF TypeOK, TablesInv
<1>5. \A e \in ShortIds \ alive' : documentIds'[e] = NoId /\ fieldLength'[e] = NoFields
    BY <1>1, <1>2 DEF TypeOK, TablesInv
<1>6. documentCount' = Cardinality(alive')
    <2>1. IsFiniteSet(alive) /\ IsFiniteSet(alive \ {d})
        BY LiveSetFinite, FS_Subset
    <2>2. Cardinality(alive \ {d}) = Cardinality(alive) - 1
        BY <1>1, <2>1, FS_RemoveElement
    <2>3. Cardinality((alive \ {d}) \cup {nextId}) = Cardinality(alive \ {d}) + 1
        BY <1>1, <2>1, FS_AddElement
    <2> QED
        BY <1>2, <2>1, <2>2, <2>3, FS_CardinalityType DEF TablesInv
<1> QED
    BY <1>3, <1>4, <1>5, <1>6 DEF TablesInv

LEMMA TablesCompact ==
    ASSUME TypeOK, TablesInv, Compact
    PROVE  TablesInv'
<1>1. PICK old \in Renumbering :
        /\ documentIds' = [n \in ShortIds |->
               IF n < documentCount THEN documentIds[old[n]] ELSE NoId]
        /\ idToShortId' = [i \in Ids |->
               IF idToShortId[i] = NoShortId THEN NoShortId
               ELSE CHOOSE n \in DOMAIN old : old[n] = idToShortId[i]]
        /\ fieldLength' = [n \in ShortIds |->
               IF n < documentCount THEN fieldLength[old[n]] ELSE NoFields]
        /\ alive' = 0 .. documentCount - 1
        /\ documentCount' = documentCount
    BY DEF Compact
<1>2. \A n \in ShortIds : n < documentCount <=> n \in 0 .. documentCount - 1
    BY Basics, Renumbered DEF ShortIds
<1>3. ASSUME NEW i \in Ids, idToShortId'[i] # NoShortId
      PROVE  idToShortId'[i] \in alive' /\ documentIds'[idToShortId'[i]] = i
    <2>1. idToShortId[i] \in alive /\ documentIds[idToShortId[i]] = i
        BY <1>1, <1>3 DEF TablesInv
    <2>2. /\ idToShortId'[i] \in 0 .. documentCount - 1
          /\ old[idToShortId'[i]] = idToShortId[i]
        BY <1>1, <1>3, <2>1, Renumbered
    <2>3. documentIds'[idToShortId'[i]] = documentIds[old[idToShortId'[i]]]
        BY <1>1, <1>2, <2>2, Renumbered
    <2> QED
        BY <1>1, <2>1, <2>2, <2>3
<1>4. ASSUME NEW n \in alive'
      PROVE  documentIds'[n] \in Ids /\ idToShortId'[documentIds'[n]] = n
    <2>1. n \in 0 .. documentCount - 1 /\ n \in ShortIds /\ n < documentCount
        BY <1>1, <1>2, <1>4, Renumbered
    <2>2. documentIds'[n] = documentIds[old[n]] /\ old[n] \in alive /\ old[n] \in ShortIds
        BY <1>1, <2>1, Renumbered
    <2>3. documentIds[old[n]] \in Ids /\ idToShortId[documentIds[old[n]]] = old[n]
        BY <2>2 DEF TablesInv
    <2>4. idToShortId'[documentIds'[n]] = CHOOSE m \in DOMAIN old : old[m] = old[n]
        BY <1>1, <2>2, <2>3, Basics
    <2> QED
        BY <2>1, <2>2, <2>3, <2>4, Renumbered
<1>5. \A n \in ShortIds \ alive' : documentIds'[n] = NoId /\ fieldLength'[n] = NoFields
    BY <1>1, <1>2
<1>6. documentCount' = Cardinality(alive')
    <2>1. documentCount \in Nat
        BY Renumbered
    <2>2. Cardinality(0 .. documentCount - 1) = documentCount
        BY <2>1, FS_Interval
    <2> QED
        BY <1>1, <2>2
<1> QED
    BY <1>3, <1>4, <1>5, <1>6 DEF TablesInv

LEMMA TablesUnchanged == TablesInv /\ UNCHANGED tables => TablesInv'
BY DEF TablesInv, tables

\* Every step keeps the tables in agreement.
LEMMA TablesStep == TypeOK /\ TablesInv /\ [Next]_vars => TablesInv'
<1> SUFFICES ASSUME TypeOK, TablesInv, [Next]_vars PROVE TablesInv'
    OBVIOUS
<1>1. CASE \E id \in Ids, doc \in Contents : Add(id, doc)
    BY <1>1, TablesAdd
<1>2. CASE \E id \in Ids, doc \in Contents : Remove(id, doc)
    BY <1>2, TablesRemove
<1>3. CASE RemoveAllDocuments
    BY <1>3, FS_EmptySet DEF RemoveAllDocuments, FreshTables, FreshPostings, TablesInv, NoShortId
<1>4. CASE \E gone \in SUBSET alive, auto \in BOOLEAN : Discard(gone, auto)
    BY <1>4, TablesWithout DEF Discard, DiscardDocuments
<1>5. CASE \E id \in Ids, doc \in Contents, auto \in BOOLEAN : Replace(id, doc, auto)
    BY <1>5, TablesReplace
<1>6. CASE \E id \in Ids, auto \in BOOLEAN : ReplaceExhausted(id, auto)
    <2>1. PICK id \in Ids, auto \in BOOLEAN :
              idToShortId[id] # NoShortId /\ DiscardDocuments({idToShortId[id]}, auto)
        BY <1>6 DEF ReplaceExhausted
    <2>2. {idToShortId[id]} \in SUBSET alive
        BY <2>1 DEF TablesInv
    <2> QED
        BY <2>1, <2>2, TablesWithout DEF DiscardDocuments
<1>7. CASE Compact
    BY <1>7, TablesCompact
<1>8. CASE \/ \E id \in Ids : AddExhausted(id)
           \/ \E id \in Ids, doc \in Contents : RemoveFields(id, doc)
           \/ BeginVacuum
           \/ \E batch \in SUBSET Terms : VacuumStep(batch)
           \/ Reload
           \/ Search
           \/ \E terms \in SUBSET Terms \ {{}}, fields \in SUBSET Fields \ {{}},
                  boosting \in BOOLEAN : SearchExact(terms, fields, boosting)
           \/ UNCHANGED vars
    <2>1. UNCHANGED tables
        BY <1>8 DEF AddExhausted, RemoveFields, BeginVacuum, VacuumStep, Reload, Search,
                    SearchExact, vars
    <2> QED
        BY <2>1, TablesUnchanged
<1> QED
    BY <1>1, <1>2, <1>3, <1>4, <1>5, <1>6, <1>7, <1>8 DEF Next

----------------------------------------------------------------------------
(* The postings.                                                           *)

AllFreq == [Terms -> [Fields -> [ShortIds -> Nat]]]

LEMMA NotEmpty ==
    ASSUME NEW fr \in AllFreq, NEW t \in Terms, NEW f \in Fields
    PROVE  ~Empty(fr, t, f) <=> \E d \in ShortIds : fr[t][f][d] > 0
BY DEF Empty, AllFreq

LEMMA AddConsistent ==
    ASSUME NEW fr \in AllFreq, NEW fo \in [Terms -> SUBSET Fields], NEW tr \in SUBSET Terms,
           Consistent(fr, fo, tr), NEW d \in ShortIds, NEW words \in Frequencies
    PROVE  Consistent(AddFreq(fr, d, words), AddFields(fo, words), AddTree(tr, words))
<1> DEFINE fr2 == AddFreq(fr, d, words)
           fo2 == AddFields(fo, words)
<1>1. \A t \in Terms, f \in Fields : f \in fo2[t] <=> f \in fo[t] \/ words[t][f] > 0
    BY DEF AddFields
<1>2. \A t \in Terms, f \in Fields, e \in ShortIds :
          /\ fr[t][f][e] \in Nat /\ words[t][f] \in Nat
          /\ fr2[t][f][e] = IF e = d THEN fr[t][f][e] + words[t][f] ELSE fr[t][f][e]
    BY DEF AllFreq, Frequencies, AddFreq
<1>3. fr2 \in AllFreq
    BY DEF AllFreq, Frequencies, AddFreq
<1>4. ASSUME NEW t \in Terms, NEW f \in Fields
      PROVE  f \in fo2[t] <=> ~Empty(fr2, t, f)
    <2>1. f \in fo[t] <=> \E e \in ShortIds : fr[t][f][e] > 0
        BY NotEmpty DEF Consistent
    <2>2. (\E e \in ShortIds : fr2[t][f][e] > 0)
              <=> (\E e \in ShortIds : fr[t][f][e] > 0) \/ words[t][f] > 0
        BY <1>2
    <2> QED
        BY <1>1, <1>3, <2>1, <2>2, NotEmpty
<1>5. \A t \in Terms : t \in AddTree(tr, words) <=> fo2[t] # {}
    <2>1. \A t \in Terms : t \in tr <=> fo[t] # {}
        BY DEF Consistent
    <2> QED
        BY <2>1 DEF AddTree, AddFields
<1> QED
    BY <1>4, <1>5 DEF Consistent

LEMMA RetainConsistent ==
    ASSUME TypeOK, PostingsInv, NEW keep \in SUBSET ShortIds, NEW terms \in SUBSET Terms
    PROVE  /\ Consistent(RetainFreq(terms, keep), RetainFields(terms, keep),
                         RetainTree(terms, keep))
           /\ \A t \in Terms, f \in Fields, d \in ShortIds :
                  RetainFreq(terms, keep)[t][f][d]
                      = IF t \in terms /\ d \notin keep THEN 0 ELSE freq[t][f][d]
<1> DEFINE fr2 == RetainFreq(terms, keep)
           fo2 == RetainFields(terms, keep)
<1>1. fr2 \in AllFreq /\ freq \in AllFreq
    BY DEF RetainFreq, AllFreq, TypeOK
<1>2. \A t \in Terms, f \in Fields, d \in ShortIds :
          fr2[t][f][d] = IF t \in terms /\ d \notin keep THEN 0 ELSE freq[t][f][d]
    BY DEF RetainFreq
<1>3. ASSUME NEW t \in Terms, NEW f \in Fields
      PROVE  f \in fo2[t] <=> ~Empty(fr2, t, f)
    <2>1. f \in fieldsOf[t] <=> \E d \in ShortIds : freq[t][f][d] > 0
        BY <1>1, NotEmpty DEF PostingsInv, Consistent
    <2>2. fo2[t] = IF t \in terms
                   THEN {g \in fieldsOf[t] : \E d \in keep : freq[t][g][d] > 0}
                   ELSE fieldsOf[t]
        BY DEF RetainFields
    <2>3. f \in fo2[t] <=> \E d \in ShortIds : fr2[t][f][d] > 0
        BY <1>2, <2>1, <2>2
    <2> QED
        BY <1>1, <2>3, NotEmpty
<1>4. \A t \in Terms : t \in RetainTree(terms, keep) <=> fo2[t] # {}
    <2>1. \A t \in Terms : t \in tree <=> fieldsOf[t] # {}
        BY DEF PostingsInv, Consistent
    <2> QED
        BY <2>1 DEF RetainTree, RetainFields
<1> QED
    BY <1>2, <1>3, <1>4 DEF Consistent

LEMMA RetainStep ==
    ASSUME TypeOK, PostingsInv, NEW keep \in SUBSET ShortIds, NEW terms \in SUBSET Terms,
           Retain(terms, keep)
    PROVE  /\ Consistent(freq, fieldsOf, tree)'
           /\ \A t \in Terms, f \in Fields, d \in ShortIds :
                  /\ freq'[t][f][d] = IF t \in terms /\ d \notin keep THEN 0 ELSE freq[t][f][d]
                  /\ freq'[t][f][d] > 0 => freq[t][f][d] > 0
<1>1. /\ freq' = RetainFreq(terms, keep) /\ fieldsOf' = RetainFields(terms, keep)
      /\ tree' = RetainTree(terms, keep)
    BY DEF Retain
<1>2. Consistent(freq', fieldsOf', tree')
    BY <1>1, RetainConsistent
<1>3. ASSUME NEW t \in Terms, NEW f \in Fields, NEW d \in ShortIds
      PROVE  /\ freq'[t][f][d] = IF t \in terms /\ d \notin keep THEN 0 ELSE freq[t][f][d]
             /\ freq'[t][f][d] > 0 => freq[t][f][d] > 0
    BY <1>1, RetainConsistent
<1> QED
    BY <1>2, <1>3 DEF Consistent

LEMMA RemoveConsistent ==
    ASSUME TypeOK, PostingsInv, NEW d \in ShortIds, NEW doc \in Contents, RemoveTerms(d, doc)
    PROVE  /\ Consistent(freq, fieldsOf, tree)'
           /\ \A t \in Terms, f \in Fields, e \in ShortIds :
                  /\ freq'[t][f][e] \in Nat /\ freq'[t][f][e] <= freq[t][f][e]
                  /\ e # d => freq'[t][f][e] = freq[t][f][e]
                  /\ freq'[t][f][d] = Monus(freq[t][f][d], doc.freq[t][f])
<1>1. freq' \in AllFreq /\ freq \in AllFreq /\ freq' = RemoveFreq(d, doc.freq)
    BY PostingOperators, Basics DEF RemoveTerms, AllFreq, TypeOK
<1>2. \A t \in Terms, f \in Fields : doc.freq[t][f] \in Nat
    BY Basics DEF Frequencies
<1>3. \A t \in Terms, f \in Fields, e \in ShortIds :
          freq'[t][f][e] = IF e = d THEN Monus(freq[t][f][e], doc.freq[t][f])
                           ELSE freq[t][f][e]
    BY <1>1 DEF RemoveFreq, AllFreq
<1>4. ASSUME NEW t \in Terms, NEW f \in Fields, NEW e \in ShortIds
      PROVE  freq[t][f][e] \in Nat /\ freq'[t][f][e] \in Nat /\ freq'[t][f][e] <= freq[t][f][e]
    <2>1. freq[t][f][e] \in Nat
        BY <1>1 DEF AllFreq
    <2> QED
        BY <2>1, <1>2, <1>3 DEF Monus
<1>5. ASSUME NEW t \in Terms, NEW f \in Fields
      PROVE  /\ f \in fieldsOf'[t] <=> ~Empty(freq', t, f)
             /\ ~Decremented(d, doc.freq, t, f) => (f \in fieldsOf'[t] <=> f \in fieldsOf[t])
    <2>1. f \in fieldsOf[t] <=> \E e \in ShortIds : freq[t][f][e] > 0
        BY <1>1, NotEmpty DEF PostingsInv, Consistent
    <2>2. f \in fieldsOf'[t] <=>
              /\ f \in fieldsOf[t]
              /\ Decremented(d, doc.freq, t, f) => ~Empty(freq', t, f)
        BY <1>1 DEF RemoveTerms
    <2>3. CASE Decremented(d, doc.freq, t, f)
        <3>1. freq[t][f][d] > 0
            BY <2>3 DEF Decremented
        <3> QED
            BY <2>1, <2>2, <2>3, <3>1
    <2>4. CASE ~Decremented(d, doc.freq, t, f)
        <3>1. \A e \in ShortIds : freq'[t][f][e] = freq[t][f][e]
            BY <1>2, <1>3, <1>4, <2>4 DEF Decremented, Monus
        <3> QED
            BY <1>1, <2>1, <2>2, <2>4, <3>1, NotEmpty
    <2> QED
        BY <2>3, <2>4
<1>6. ASSUME NEW t \in Terms
      PROVE  t \in tree' <=> fieldsOf'[t] # {}
    <2>1. t \in tree <=> fieldsOf[t] # {}
        BY DEF PostingsInv, Consistent
    <2>2. t \in tree' <=>
              /\ t \in tree
              /\ (\E f \in Fields : Decremented(d, doc.freq, t, f)) => fieldsOf'[t] # {}
        BY DEF RemoveTerms
    <2>3. fieldsOf'[t] \subseteq fieldsOf[t] /\ fieldsOf[t] \subseteq Fields
        BY DEF RemoveTerms, TypeOK
    <2> QED
        BY <1>5, <2>1, <2>2, <2>3
<1> QED
    BY <1>3, <1>4, <1>5, <1>6 DEF Consistent

LEMMA PostingsInit == Init => PostingsInv
BY DEF Init, PostingsInv, Consistent, Empty

LEMMA PostingsAdd ==
    ASSUME TypeOK, PostingsInv, NEW id \in Ids, NEW doc \in Contents, Add(id, doc)
    PROVE  PostingsInv'
<1>1. /\ nextId \in ShortIds /\ nextId \in Nat /\ nextId' = nextId + 1
      /\ alive' = alive \cup {nextId} /\ alive \subseteq ShortIds
      /\ fieldLength' = [fieldLength EXCEPT ![nextId] = doc.length]
    BY IssuedIds, LiveSetFinite, Basics DEF Add, ShortIds
<1>2. Consistent(freq, fieldsOf, tree)'
    <2>1. freq \in AllFreq /\ fieldsOf \in [Terms -> SUBSET Fields] /\ tree \in SUBSET Terms
        BY DEF TypeOK, AllFreq
    <2>2. doc.freq \in Frequencies /\ Consistent(freq, fieldsOf, tree)
        BY Basics DEF PostingsInv
    <2>3. Consistent(AddFreq(freq, nextId, doc.freq), AddFields(fieldsOf, doc.freq),
                     AddTree(tree, doc.freq))
        BY <1>1, <2>1, <2>2, AddConsistent
    <2> QED
        BY <2>3 DEF Add, Consistent
<1>3. ASSUME NEW t \in Terms, NEW f \in Fields, NEW d \in ShortIds, freq'[t][f][d] > 0
      PROVE  d < nextId' /\ (d \in alive' => fieldLength'[d][f] > 0)
    <2>1. /\ freq'[t][f][d] = IF d = nextId THEN freq[t][f][d] + doc.freq[t][f] ELSE freq[t][f][d]
          /\ freq[t][f][d] \in Nat /\ doc.freq[t][f] \in Nat /\ d \in Nat
        BY <1>1, Basics DEF Add, AddFreq, TypeOK, Frequencies
    <2>2. CASE d = nextId
        <3>1. ~(freq[t][f][d] > 0)
            BY <1>1, <2>2 DEF PostingsInv
        <3>2. doc.freq[t][f] > 0
            BY <1>3, <2>1, <3>1
        <3>3. fieldLength'[d][f] = doc.length[f]
            BY <1>1, <2>2 DEF TypeOK
        <3> QED
            BY <1>1, <2>2, <3>2, <3>3, Basics
    <2>3. CASE d # nextId
        <3>1. d < nextId /\ (d \in alive => fieldLength[d][f] > 0)
            BY <1>3, <2>1, <2>3 DEF PostingsInv
        <3>2. fieldLength'[d] = fieldLength[d]
            BY <1>1, <2>3 DEF TypeOK
        <3> QED
            BY <1>1, <2>1, <2>3, <3>1, <3>2
    <2> QED
        BY <2>2, <2>3
<1> QED
    BY <1>2, <1>3 DEF PostingsInv

\* Steps that only take postings away, and no length off a live document.
LEMMA PostingsFewer ==
    ASSUME TypeOK, PostingsInv, Consistent(freq, fieldsOf, tree)',
           nextId' = nextId, alive' \subseteq alive,
           \A d \in alive' : fieldLength'[d] = fieldLength[d],
           \A t \in Terms, f \in Fields, d \in ShortIds :
               freq'[t][f][d] > 0 => freq[t][f][d] > 0
    PROVE  PostingsInv'
BY DEF PostingsInv

LEMMA PostingsRemove ==
    ASSUME TypeOK, PostingsInv, NEW id \in Ids, NEW doc \in Contents,
           Remove(id, doc) \/ RemoveFields(id, doc)
    PROVE  PostingsInv'
<1> DEFINE d == idToShortId[id]
<1>1. d \in ShortIds /\ RemoveTerms(d, doc)
    BY DEF Remove, RemoveFields, TypeOK
<1>2. \A t \in Terms, f \in Fields, e \in ShortIds : freq[t][f][e] \in Nat
    BY DEF TypeOK
<1>3. /\ Consistent(freq, fieldsOf, tree)'
      /\ \A t \in Terms, f \in Fields, e \in ShortIds :
             freq'[t][f][e] > 0 => freq[t][f][e] > 0
    BY <1>1, <1>2, RemoveConsistent
<1>4. /\ nextId' = nextId /\ alive' \subseteq alive
      /\ \A e \in alive' : fieldLength'[e] = fieldLength[e]
    <2>1. CASE Remove(id, doc)
        BY <2>1, LiveSetFinite DEF Remove, TypeOK
    <2>2. CASE RemoveFields(id, doc)
        BY <2>2 DEF RemoveFields, tables
    <2> QED
        BY <2>1, <2>2
<1> QED
    BY <1>3, <1>4, PostingsFewer

LEMMA PostingsDiscard ==
    ASSUME TypeOK, PostingsInv, NEW gone \in SUBSET alive, NEW auto \in BOOLEAN,
           DiscardDocuments(gone, auto)
    PROVE  PostingsInv'
<1>1. AutoVacuumTerms(gone, auto) \in SUBSET Terms /\ alive \ gone \in SUBSET ShortIds
    BY TypeDiscardDirt, LiveSetFinite DEF DiscardDocuments
<1>2. /\ Consistent(freq, fieldsOf, tree)'
      /\ \A t \in Terms, f \in Fields, e \in ShortIds :
             freq'[t][f][e] > 0 => freq[t][f][e] > 0
    BY <1>1, RetainStep DEF DiscardDocuments
<1>3. /\ nextId' = nextId /\ alive' \subseteq alive
      /\ \A e \in alive' : fieldLength'[e] = fieldLength[e]
    BY LiveSetFinite DEF DiscardDocuments
<1> QED
    BY <1>2, <1>3, PostingsFewer

LEMMA PostingsVacuumStep ==
    ASSUME TypeOK, PostingsInv, NEW batch \in SUBSET Terms, VacuumStep(batch)
    PROVE  PostingsInv'
<1>1. alive \in SUBSET ShortIds
    BY LiveSetFinite
<1>2. /\ Consistent(freq, fieldsOf, tree)'
      /\ \A t \in Terms, f \in Fields, e \in ShortIds :
             freq'[t][f][e] > 0 => freq[t][f][e] > 0
    BY <1>1, RetainStep DEF VacuumStep
<1>3. UNCHANGED <<nextId, alive, fieldLength>>
    BY DEF VacuumStep, tables
<1> QED
    BY <1>2, <1>3, PostingsFewer

LEMMA PostingsReplace ==
    ASSUME TypeOK, TablesInv, PostingsInv,
           NEW id \in Ids, NEW doc \in Contents, NEW auto \in BOOLEAN, Replace(id, doc, auto)
    PROVE  /\ PostingsInv'
           /\ \A t \in Terms, f \in Fields, e \in ShortIds :
                  freq'[t][f][e] =
                      IF e = nextId THEN doc.freq[t][f]
                      ELSE IF t \in AutoVacuumTerms({idToShortId[id]}, auto)
                              /\ e \notin alive \ {idToShortId[id]}
                           THEN 0 ELSE freq[t][f][e]
<1> DEFINE d == idToShortId[id]
           terms == AutoVacuumTerms({d}, auto)
           keep == alive \ {d}
<1>1. /\ d \in alive /\ d \in ShortIds /\ {d} \in SUBSET alive
      /\ keep \in SUBSET ShortIds /\ alive \in SUBSET ShortIds
    BY LiveSetFinite DEF Replace, TablesInv
<1>2. nextId \in ShortIds /\ nextId \in Nat /\ nextId' = nextId + 1 /\ nextId \notin alive
    BY IssuedIds, Basics DEF Replace, ShortIds
<1>3. /\ alive' = keep \cup {nextId}
      /\ fieldLength' = [fieldLength EXCEPT ![d] = NoFields, ![nextId] = doc.length]
      /\ freq' = AddFreq(RetainFreq(terms, keep), nextId, doc.freq)
      /\ fieldsOf' = AddFields(RetainFields(terms, keep), doc.freq)
      /\ tree' = AddTree(RetainTree(terms, keep), doc.freq)
    BY DEF Replace
<1>4. terms \in SUBSET Terms
    <2>1. DiscardDirt({d}, auto)
        BY DEF Replace
    <2> QED
        BY <1>1, <2>1, TypeDiscardDirt
<1> HIDE DEF terms, keep, d
<1>5. /\ RetainFreq(terms, keep) \in AllFreq
      /\ RetainFields(terms, keep) \in [Terms -> SUBSET Fields]
      /\ RetainTree(terms, keep) \in SUBSET Terms
    BY <1>1, <1>4 DEF AllFreq, RetainFreq, RetainFields, RetainTree, TypeOK
<1>6. Consistent(freq, fieldsOf, tree)'
    <2>1. Consistent(freq', fieldsOf', tree')
        BY <1>1, <1>2, <1>3, <1>4, <1>5, Basics, RetainConsistent, AddConsistent
    <2> QED
        BY <2>1 DEF Consistent
<1>7. \A t \in Terms, f \in Fields, e \in ShortIds :
          /\ RetainFreq(terms, keep)[t][f][e] =
                 IF t \in terms /\ e \notin keep THEN 0 ELSE freq[t][f][e]
          /\ RetainFreq(terms, keep)[t][f][e] \in Nat
          /\ freq[t][f][e] \in Nat /\ doc.freq[t][f] \in Nat
    <2>1. \A t \in Terms, f \in Fields, e \in ShortIds :
              RetainFreq(terms, keep)[t][f][e] =
                  IF t \in terms /\ e \notin keep THEN 0 ELSE freq[t][f][e]
        BY <1>1, <1>4, RetainConsistent
    <2>2. \A t \in Terms, f \in Fields, e \in ShortIds :
              RetainFreq(terms, keep)[t][f][e] \in Nat /\ freq[t][f][e] \in Nat
        BY <1>5 DEF AllFreq, TypeOK
    <2>3. \A t \in Terms, f \in Fields : doc.freq[t][f] \in Nat
        BY Basics DEF Frequencies
    <2> QED
        BY <2>1, <2>2, <2>3
<1>8. \A t \in Terms, f \in Fields, e \in ShortIds :
          freq'[t][f][e] =
              IF e = nextId THEN RetainFreq(terms, keep)[t][f][e] + doc.freq[t][f]
              ELSE RetainFreq(terms, keep)[t][f][e]
    BY <1>2, <1>3, <1>5 DEF AddFreq, AllFreq
<1>9. \A t \in Terms, f \in Fields, e \in ShortIds :
          /\ freq[t][f][nextId] = 0
          /\ freq'[t][f][e] = IF e = nextId THEN doc.freq[t][f]
                              ELSE IF t \in terms /\ e \notin keep THEN 0 ELSE freq[t][f][e]
    <2>1. \A t \in Terms, f \in Fields : freq[t][f][nextId] = 0
        BY <1>2, <1>7 DEF PostingsInv
    <2> QED
        BY <1>2, <1>7, <1>8, <2>1
<1>10. ASSUME NEW t \in Terms, NEW f \in Fields, NEW e \in ShortIds, freq'[t][f][e] > 0
       PROVE  e < nextId' /\ (e \in alive' => fieldLength'[e][f] > 0)
    <2>1. CASE e = nextId
        <3>1. doc.freq[t][f] > 0
            BY <1>9, <1>10, <2>1
        <3>2. fieldLength'[e][f] = doc.length[f]
            BY <1>1, <1>2, <1>3, <2>1 DEF TypeOK
        <3> QED
            BY <1>2, <2>1, <3>1, <3>2, Basics
    <2>2. CASE e # nextId
        <3>1. freq[t][f][e] > 0
            BY <1>9, <1>10, <2>2, <1>7
        <3>2. e < nextId /\ (e \in alive => fieldLength[e][f] > 0)
            BY <3>1 DEF PostingsInv
        <3>3. e \in alive' => e \in alive /\ fieldLength'[e] = fieldLength[e]
            BY <1>3, <2>2 DEF TypeOK, keep
        <3> QED
            BY <1>2, <3>2, <3>3, Basics
    <2> QED
        BY <2>1, <2>2
<1>11. PostingsInv'
    BY <1>6, <1>10 DEF PostingsInv
<1>12. \A t \in Terms, f \in Fields, e \in ShortIds :
           freq'[t][f][e] = IF e = nextId THEN doc.freq[t][f]
                            ELSE IF t \in terms /\ e \notin keep THEN 0 ELSE freq[t][f][e]
    BY <1>9
<1> USE DEF terms, keep, d
<1> QED
    BY <1>11, <1>12

LEMMA PostingsCompact ==
    ASSUME TypeOK, TablesInv, PostingsInv, Compact
    PROVE  PostingsInv' /\ \A t \in Terms, f \in Fields, d \in ShortIds :
                               freq'[t][f][d] > 0 => d \in alive'
<1>1. PICK old \in Renumbering :
        /\ nextId' = documentCount
        /\ fieldLength' = [n \in ShortIds |->
               IF n < documentCount THEN fieldLength[old[n]] ELSE NoFields]
        /\ alive' = 0 .. documentCount - 1
        /\ freq' = [t \in Terms |-> [f \in Fields |-> [n \in ShortIds |->
               IF n < documentCount THEN freq[t][f][old[n]] ELSE 0]]]
        /\ fieldsOf' = RetainFields(tree, alive)
        /\ tree' = RetainTree(tree, alive)
    BY DEF Compact
<1>2. \A n \in ShortIds : n < documentCount <=> n \in 0 .. documentCount - 1
    BY Basics, Renumbered DEF ShortIds
<1>3. alive \in SUBSET ShortIds
    BY LiveSetFinite
<1>4. freq \in AllFreq /\ freq' \in AllFreq
    <2>1. TypeOK'
        BY TypeCompact
    <2> QED
        BY <2>1 DEF TypeOK, AllFreq
<1>5. \A t \in Terms, f \in Fields, n \in ShortIds :
          freq'[t][f][n] = IF n \in 0 .. documentCount - 1 THEN freq[t][f][old[n]] ELSE 0
    BY <1>1, <1>2
<1>6. ASSUME NEW t \in Terms, NEW f \in Fields
      PROVE  (\E n \in ShortIds : freq'[t][f][n] > 0) <=> \E d \in alive : freq[t][f][d] > 0
    <2>1. ASSUME NEW n \in ShortIds, freq'[t][f][n] > 0
          PROVE  \E d \in alive : freq[t][f][d] > 0
        <3>1. n \in 0 .. documentCount - 1
            BY <1>5, <2>1
        <3> QED
            BY <1>5, <2>1, <3>1, Renumbered, SMTT(30)
    <2>2. ASSUME NEW d \in alive, freq[t][f][d] > 0
          PROVE  \E n \in ShortIds : freq'[t][f][n] > 0
        <3>1. PICK n \in 0 .. documentCount - 1 : old[n] = d /\ n \in ShortIds
            BY Renumbered
        <3> QED
            BY <1>5, <2>2, <3>1
    <2> QED
        BY <2>1, <2>2
<1>7. ASSUME NEW t \in Terms, NEW f \in Fields
      PROVE  f \in fieldsOf'[t] <=> ~Empty(freq', t, f)
    <2>1. f \in fieldsOf[t] <=> \E d \in ShortIds : freq[t][f][d] > 0
        BY <1>4, NotEmpty DEF PostingsInv, Consistent
    <2>2. t \in tree <=> fieldsOf[t] # {}
        BY DEF PostingsInv, Consistent
    <2>3. f \in fieldsOf'[t] <=> f \in fieldsOf[t] /\ \E d \in alive : freq[t][f][d] > 0
        BY <1>1, <2>2 DEF RetainFields
    <2> QED
        BY <1>3, <1>4, <1>6, <2>1, <2>3, NotEmpty
<1>8. \A t \in Terms : t \in tree' <=> fieldsOf'[t] # {}
    <2>1. \A t \in Terms : t \in tree <=> fieldsOf[t] # {}
        BY DEF PostingsInv, Consistent
    <2> QED
        BY <1>1, <2>1 DEF RetainTree, RetainFields
<1>9. ASSUME NEW t \in Terms, NEW f \in Fields, NEW n \in ShortIds, freq'[t][f][n] > 0
      PROVE  n < nextId' /\ n \in alive' /\ fieldLength'[n][f] > 0
    <2>1. n \in 0 .. documentCount - 1 /\ freq[t][f][old[n]] > 0
        BY <1>5, <1>9
    <2>2. old[n] \in alive /\ old[n] \in ShortIds
        BY <2>1, Renumbered
    <2>3. fieldLength[old[n]][f] > 0
        BY <2>1, <2>2 DEF PostingsInv
    <2>4. fieldLength'[n][f] = fieldLength[old[n]][f]
        BY <1>1, <1>2, <2>1
    <2> QED
        BY <1>1, <1>2, <2>1, <2>3, <2>4
<1> QED
    BY <1>7, <1>8, <1>9 DEF PostingsInv, Consistent

LEMMA PostingsSearchExact ==
    ASSUME TypeOK, PostingsInv, NEW terms \in SUBSET Terms, NEW fields \in SUBSET Fields,
           NEW boosting \in BOOLEAN, SearchExact(terms, fields, boosting)
    PROVE  /\ PostingsInv'
           /\ \A t \in Terms, f \in Fields, d \in ShortIds :
                  /\ freq'[t][f][d] > 0 => freq[t][f][d] > 0
                  /\ d \in alive => freq'[t][f][d] = freq[t][f][d]
<1> DEFINE Met(t, f, d) == t \in terms /\ f \in fields /\ d \notin alive
<1>1. \A t \in Terms, f \in Fields, d \in ShortIds :
          /\ freq[t][f][d] \in Nat
          /\ freq'[t][f][d] =
                 IF Met(t, f, d) THEN Monus(freq[t][f][d], 1) ELSE freq[t][f][d]
    BY DEF SearchExact, TypeOK
<1>2. \A t \in Terms, f \in Fields, d \in ShortIds :
          /\ freq'[t][f][d] > 0 => freq[t][f][d] > 0
          /\ freq'[t][f][d] > 0 <=> freq[t][f][d] > IF Met(t, f, d) THEN 1 ELSE 0
    BY <1>1 DEF Monus
<1>3. freq \in AllFreq /\ freq' \in AllFreq
    <2>1. TypeOK'
        BY TypeSearchExact
    <2> QED
        BY <2>1 DEF TypeOK, AllFreq
<1>4. ASSUME NEW t \in Terms, NEW f \in Fields
      PROVE  /\ f \in fieldsOf'[t] <=> ~Empty(freq', t, f)
             /\ t \notin terms => (f \in fieldsOf'[t] <=> f \in fieldsOf[t])
    <2>1. f \in fieldsOf[t] <=> \E d \in ShortIds : freq[t][f][d] > 0
        BY <1>3, NotEmpty DEF PostingsInv, Consistent
    <2>2. f \in fieldsOf'[t] <=>
              /\ f \in fieldsOf[t]
              /\ (t \in terms /\ f \in fields) =>
                     \E d \in ShortIds : freq[t][f][d] > IF Met(t, f, d) THEN 1 ELSE 0
        BY DEF SearchExact
    <2>3. f \in fieldsOf'[t] <=> \E d \in ShortIds : freq'[t][f][d] > 0
        <3>1. CASE t \in terms /\ f \in fields
            BY <1>2, <2>1, <2>2, <3>1
        <3>2. CASE ~(t \in terms /\ f \in fields)
            BY <1>1, <2>1, <2>2, <3>2
        <3> QED
            BY <3>1, <3>2
    <2> QED
        BY <1>3, <2>2, <2>3, NotEmpty
<1>5. ASSUME NEW t \in Terms
      PROVE  t \in tree' <=> fieldsOf'[t] # {}
    <2>1. t \in tree <=> fieldsOf[t] # {}
        BY DEF PostingsInv, Consistent
    <2>2. t \in tree' <=> t \in tree /\ (t \in terms => fieldsOf'[t] # {})
        BY DEF SearchExact
    <2>3. fieldsOf'[t] \subseteq fieldsOf[t] /\ fieldsOf[t] \subseteq Fields
        BY DEF SearchExact, TypeOK
    <2> QED
        BY <1>4, <2>1, <2>2, <2>3
<1>6. Consistent(freq, fieldsOf, tree)'
    BY <1>4, <1>5 DEF Consistent
<1>7. UNCHANGED <<nextId, alive, fieldLength>>
    BY DEF SearchExact, tables
<1> QED
    BY <1>1, <1>2, <1>6, <1>7, PostingsFewer

\* Every step keeps the postings, their entries and their keys in agreement.
LEMMA PostingsStep == TypeOK /\ TablesInv /\ PostingsInv /\ [Next]_vars => PostingsInv'
<1> SUFFICES ASSUME TypeOK, TablesInv, PostingsInv, [Next]_vars PROVE PostingsInv'
    OBVIOUS
<1>1. CASE \E id \in Ids, doc \in Contents : Add(id, doc)
    BY <1>1, PostingsAdd
<1>2. CASE \E id \in Ids, doc \in Contents : Remove(id, doc)
    BY <1>2, PostingsRemove
<1>3. CASE \E id \in Ids, doc \in Contents : RemoveFields(id, doc)
    BY <1>3, PostingsRemove
<1>4. CASE RemoveAllDocuments
    BY <1>4 DEF RemoveAllDocuments, FreshTables, FreshPostings, PostingsInv, Consistent, Empty
<1>5. CASE \E gone \in SUBSET alive, auto \in BOOLEAN : Discard(gone, auto)
    BY <1>5, PostingsDiscard DEF Discard
<1>6. CASE \E id \in Ids, doc \in Contents, auto \in BOOLEAN : Replace(id, doc, auto)
    BY <1>6, PostingsReplace
<1>7. CASE \E id \in Ids, auto \in BOOLEAN : ReplaceExhausted(id, auto)
    BY <1>7, PostingsDiscard DEF ReplaceExhausted, TablesInv
<1>8. CASE \E batch \in SUBSET Terms : VacuumStep(batch)
    BY <1>8, PostingsVacuumStep
<1>9. CASE Compact
    BY <1>9, PostingsCompact
<1>10. CASE \E terms \in SUBSET Terms \ {{}}, fields \in SUBSET Fields \ {{}},
                boosting \in BOOLEAN : SearchExact(terms, fields, boosting)
    BY <1>10, PostingsSearchExact
<1>11. CASE \/ \E id \in Ids : AddExhausted(id)
            \/ BeginVacuum
            \/ Reload
            \/ Search
            \/ UNCHANGED vars
    <2>1. UNCHANGED <<tables, postings>>
        BY <1>11 DEF AddExhausted, BeginVacuum, Reload, Search, vars
    <2> QED
        BY <2>1 DEF tables, postings, PostingsInv, Consistent, Empty
<1> QED
    BY <1>1, <1>2, <1>3, <1>4, <1>5, <1>6, <1>7, <1>8, <1>9, <1>10, <1>11 DEF Next

----------------------------------------------------------------------------
(* The dirt count.                                                         *)

Runs == [running : BOOLEAN, terms : SUBSET Terms,
         initialDirtCount : Nat, covers : SUBSET ShortIds]

LEMMA ShortIdSets ==
    ASSUME NEW S \in SUBSET ShortIds
    PROVE  IsFiniteSet(S) /\ Cardinality(S) \in Nat
BY Basics, FS_Subset, FS_CardinalityType

\* A run without documents to cover is paid for by any dirt that pays the rest.
LEMMA NoVacuumPaid ==
    ASSUME NEW dirt \in Nat, NEW disc \in SUBSET ShortIds, Cardinality(disc) <= dirt
    PROVE  Paid(NoVacuum, dirt, disc)
<1>1. disc \ {} = disc
    OBVIOUS
<1>2. Cardinality({}) = 0
    BY FS_EmptySet
<1> QED
    BY <1>1, <1>2, ShortIdSets DEF Paid, NoVacuum

\* Discarding documents on top of a run, before any vacuum, keeps it paid for;
\* and so does beginning a run when there is none.
LEMMA BegunPaid ==
    ASSUME TypeOK, PostingsInv, DirtInv, NEW gone \in SUBSET alive
    PROVE  LET dirt == dirtCount + Cardinality(gone)
               disc == discarded \cup gone
           IN  /\ Begun(dirt, disc) \in Runs
               /\ Begun(dirt, disc).running
               /\ Ahead(Begun(dirt, disc), freq)
               /\ Paid(Begun(dirt, disc), dirt, disc)
               /\ Paid(vacuumState, dirt, disc)
<1> DEFINE dirt == dirtCount + Cardinality(gone)
           disc == discarded \cup gone
           covers == vacuumState.covers
           initial == vacuumState.initialDirtCount
<1>1. /\ gone \in SUBSET ShortIds /\ Cardinality(gone) \in Nat /\ dirtCount \in Nat
      /\ discarded \in SUBSET ShortIds /\ disc \in SUBSET ShortIds
      /\ vacuumState \in Runs
    BY LiveSetFinite DEF TypeOK, Runs
<1>2. dirt \in Nat /\ initial \in Nat
    BY <1>1 DEF Runs
<1>3. /\ covers \subseteq discarded /\ Cardinality(covers) <= initial
      /\ initial + Cardinality(discarded \ covers) <= dirtCount
    BY DEF DirtInv, Paid
<1>4. Cardinality(disc \ covers) <= Cardinality(discarded \ covers) + Cardinality(gone)
    <2>1. disc \ covers \subseteq (discarded \ covers) \cup gone
        OBVIOUS
    <2>2. /\ IsFiniteSet(discarded \ covers) /\ IsFiniteSet(gone)
          /\ Cardinality(discarded \ covers) \in Nat /\ Cardinality(gone) \in Nat
          /\ Cardinality((discarded \ covers) \cap gone) \in Nat
        BY <1>1, ShortIdSets
    <2>3. /\ IsFiniteSet((discarded \ covers) \cup gone)
          /\ Cardinality((discarded \ covers) \cup gone)
                 = Cardinality(discarded \ covers) + Cardinality(gone)
                   - Cardinality((discarded \ covers) \cap gone)
        BY <2>2, FS_Union
    <2>4. Cardinality(disc \ covers) <= Cardinality((discarded \ covers) \cup gone)
        BY <2>1, <2>3, FS_Subset
    <2>5. Cardinality(disc \ covers) \in Nat
        <3>1. disc \ covers \in SUBSET ShortIds
            BY <1>1
        <3> QED
            BY <3>1, ShortIdSets
    <2> QED
        BY <2>2, <2>3, <2>4, <2>5
<1>5. Paid(vacuumState, dirt, disc)
    <2>1. /\ Cardinality(discarded \ covers) \in Nat /\ Cardinality(disc \ covers) \in Nat
        BY <1>1, ShortIdSets
    <2>2. initial + Cardinality(disc \ covers) <= dirt
        BY <1>1, <1>2, <1>3, <1>4, <2>1
    <2> QED
        BY <1>3, <2>2 DEF Paid
<1>6. CASE vacuumState.running
    BY <1>1, <1>5, <1>6 DEF Begun, DirtInv
<1>7. CASE ~vacuumState.running
    <2> DEFINE run == [running |-> TRUE, terms |-> tree, initialDirtCount |-> dirt,
                       covers |-> disc]
    <2>1. Begun(dirt, disc) = run
        BY <1>7 DEF Begun
    <2>2. run \in Runs
        BY <1>1, <1>2 DEF Runs, TypeOK
    <2>3. Ahead(run, freq)
        <3>1. \A t \in Terms, f \in Fields, d \in ShortIds : freq[t][f][d] > 0 => t \in tree
            <4>1. freq \in AllFreq
                BY DEF TypeOK, AllFreq
            <4> QED
                BY <4>1, NotEmpty DEF PostingsInv, Consistent
        <3> QED
            BY <1>1, <3>1 DEF Ahead
    <2>4. Paid(run, dirt, disc)
        <3>1. Cardinality(disc) <= dirt
            <4>1. covers = {} /\ initial = 0
                BY <1>7 DEF DirtInv, NoVacuum
            <4>2. disc \ covers = disc
                BY <4>1
            <4> QED
                BY <1>5, <1>1, <4>1, <4>2, ShortIdSets DEF Paid
        <3>2. disc \ disc = {} /\ Cardinality({}) = 0
            BY FS_EmptySet
        <3> QED
            BY <1>2, <3>1, <3>2 DEF Paid
    <2> QED
        BY <1>5, <2>1, <2>2, <2>3, <2>4
<1> QED
    BY <1>6, <1>7

\* The same without a discard.
LEMMA BegunNow ==
    ASSUME TypeOK, PostingsInv, DirtInv
    PROVE  /\ Begun(dirtCount, discarded) \in Runs
           /\ Begun(dirtCount, discarded).running
           /\ Ahead(Begun(dirtCount, discarded), freq)
           /\ Paid(Begun(dirtCount, discarded), dirtCount, discarded)
<1>1. {} \in SUBSET alive /\ Cardinality({}) = 0 /\ discarded \cup {} = discarded
    BY FS_EmptySet
<1>2. dirtCount + Cardinality({}) = dirtCount
    BY <1>1 DEF TypeOK
<1>3. /\ Begun(dirtCount + Cardinality({}), discarded \cup {}) \in Runs
      /\ Begun(dirtCount + Cardinality({}), discarded \cup {}).running
      /\ Ahead(Begun(dirtCount + Cardinality({}), discarded \cup {}), freq)
      /\ Paid(Begun(dirtCount + Cardinality({}), discarded \cup {}),
              dirtCount + Cardinality({}), discarded \cup {})
    BY <1>1, BegunPaid
<1> QED
    BY <1>1, <1>2, <1>3

\* Completing a run takes off the count what pays for the documents it covers,
\* and no more: the saturating subtraction never saturates.
LEMMA CompletedPaid ==
    ASSUME NEW run \in Runs, NEW dirt \in Nat, NEW disc \in SUBSET ShortIds,
           Paid(run, dirt, disc)
    PROVE  Paid(NoVacuum, Monus(dirt, run.initialDirtCount), disc \ run.covers)
<1>1. run.initialDirtCount \in Nat /\ disc \ run.covers \in SUBSET ShortIds
    BY DEF Runs
<1>2. Cardinality(disc \ run.covers) \in Nat
    BY <1>1, ShortIdSets
<1>3. /\ Monus(dirt, run.initialDirtCount) \in Nat
      /\ Cardinality(disc \ run.covers) <= Monus(dirt, run.initialDirtCount)
    BY <1>1, <1>2 DEF Paid, Monus
<1> QED
    BY <1>1, <1>3, NoVacuumPaid

LEMMA DirtInit == Init => DirtInv
<1> SUFFICES ASSUME Init PROVE DirtInv
    OBVIOUS
<1>1. Paid(NoVacuum, 0, {})
    BY FS_EmptySet, NoVacuumPaid
<1> QED
    BY <1>1 DEF Init, DirtInv, Ahead, NoVacuum

\* A discard, of the postings fr that its vacuum leaves.
LEMMA DirtOfDiscard ==
    ASSUME TypeOK, PostingsInv, DirtInv, NEW gone \in SUBSET alive, NEW auto \in BOOLEAN,
           DiscardDirt(gone, auto), NEW fr,
           \A t \in Terms, f \in Fields, d \in ShortIds :
               fr[t][f][d] > 0 =>
                   /\ freq[t][f][d] > 0
                   /\ t \in AutoVacuumTerms(gone, auto) => d \in alive \ gone
    PROVE  /\ discarded' \cap (alive \ gone) = {} /\ discarded' \subseteq 0 .. nextId - 1
           /\ ~vacuumState'.running => vacuumState' = NoVacuum
           /\ \A t \in Terms, f \in Fields, d \in ShortIds :
                  fr[t][f][d] > 0 => d \in (alive \ gone) \cup discarded' \cup changed
           /\ Ahead(vacuumState', fr)
           /\ Paid(vacuumState', dirtCount', discarded')
<1> DEFINE dirt == dirtCount + Cardinality(gone)
           disc == discarded \cup gone
           run == Begun(dirt, disc)
<1>1. /\ gone \in SUBSET ShortIds /\ dirt \in Nat /\ disc \in SUBSET ShortIds
    <2>1. gone \in SUBSET ShortIds /\ Cardinality(gone) \in Nat
        BY LiveSetFinite
    <2>2. dirtCount \in Nat /\ discarded \in SUBSET ShortIds
        BY DEF TypeOK
    <2> QED
        BY <2>1, <2>2
<1>2. /\ run \in Runs /\ Ahead(run, freq) /\ Paid(run, dirt, disc)
      /\ Paid(vacuumState, dirt, disc)
    BY BegunPaid
<1>3. /\ disc \cap (alive \ gone) = {} /\ disc \subseteq 0 .. nextId - 1
      /\ vacuumState.covers \subseteq disc
    BY DEF DirtInv, TypeOK, Paid
<1>4. \A t \in Terms, f \in Fields, d \in ShortIds :
          fr[t][f][d] > 0 => d \in (alive \ gone) \cup disc \cup changed
    BY DEF DirtInv
<1>5. CASE AutoVacuums(gone, auto)
    <2>1. /\ dirtCount' = Monus(dirt, run.initialDirtCount)
          /\ discarded' = disc \ run.covers
          /\ vacuumState' = NoVacuum
          /\ AutoVacuumTerms(gone, auto) = run.terms
        BY <1>5 DEF DiscardDirt, AutoRun, AutoVacuumTerms
    <2> HIDE DEF run
    <2>2. Paid(vacuumState', dirtCount', discarded')
        BY <1>1, <1>2, <2>1, CompletedPaid
    <2>3. Ahead(vacuumState', fr)
        BY <2>1 DEF Ahead, NoVacuum
    <2>4. ASSUME NEW t \in Terms, NEW f \in Fields, NEW d \in ShortIds, fr[t][f][d] > 0
          PROVE  d \in (alive \ gone) \cup discarded' \cup changed
        <3>1. CASE d \in run.covers
            <4>1. t \in run.terms
                BY <1>2, <2>4, <3>1 DEF Ahead
            <4> QED
                BY <2>1, <2>4, <4>1
        <3>2. CASE d \notin run.covers
            BY <1>4, <2>1, <2>4, <3>2
        <3> QED
            BY <3>1, <3>2
    <2> QED
        BY <1>3, <2>1, <2>2, <2>3, <2>4
<1>6. CASE ~AutoVacuums(gone, auto)
    <2>1. dirtCount' = dirt /\ discarded' = disc /\ vacuumState' = vacuumState
        BY <1>6 DEF DiscardDirt
    <2>2. Ahead(vacuumState', fr)
        <3>1. \A d \in vacuumState.covers : d \in ShortIds
            BY <1>1, <1>3
        <3> QED
            BY <2>1, <3>1 DEF DirtInv, Ahead
    <2>3. ~vacuumState'.running => vacuumState' = NoVacuum
        BY <2>1 DEF DirtInv
    <2>4. Paid(vacuumState', dirtCount', discarded')
        BY <1>2, <2>1
    <2> QED
        BY <1>3, <1>4, <2>1, <2>2, <2>3, <2>4
<1> QED
    BY <1>5, <1>6

LEMMA DirtDiscard ==
    ASSUME TypeOK, PostingsInv, DirtInv, NEW gone \in SUBSET alive, NEW auto \in BOOLEAN,
           DiscardDocuments(gone, auto)
    PROVE  DirtInv'
<1>1. DiscardDirt(gone, auto) /\ nextId' = nextId /\ alive' = alive \ gone /\ changed' = changed
    BY DEF DiscardDocuments
<1>2. AutoVacuumTerms(gone, auto) \in SUBSET Terms /\ alive \ gone \in SUBSET ShortIds
    BY <1>1, TypeDiscardDirt, LiveSetFinite
<1>3. \A t \in Terms, f \in Fields, d \in ShortIds :
          freq'[t][f][d] > 0 =>
              /\ freq[t][f][d] > 0
              /\ t \in AutoVacuumTerms(gone, auto) => d \in alive \ gone
    <2>1. Retain(AutoVacuumTerms(gone, auto), alive \ gone)
        BY DEF DiscardDocuments
    <2>2. \A t \in Terms, f \in Fields, d \in ShortIds :
              /\ freq'[t][f][d] = IF t \in AutoVacuumTerms(gone, auto) /\ d \notin alive \ gone
                                  THEN 0 ELSE freq[t][f][d]
              /\ freq'[t][f][d] > 0 => freq[t][f][d] > 0
        BY <1>2, <2>1, RetainStep
    <2> QED
        BY <2>2
<1>4. /\ discarded' \cap (alive \ gone) = {} /\ discarded' \subseteq 0 .. nextId - 1
      /\ ~vacuumState'.running => vacuumState' = NoVacuum
      /\ \A t \in Terms, f \in Fields, d \in ShortIds :
             freq'[t][f][d] > 0 => d \in (alive \ gone) \cup discarded' \cup changed
      /\ Ahead(vacuumState', freq')
      /\ Paid(vacuumState', dirtCount', discarded')
    BY <1>1, <1>3, DirtOfDiscard
<1> QED
    BY <1>1, <1>4 DEF DirtInv, Ahead

LEMMA DirtAdd ==
    ASSUME TypeOK, PostingsInv, DirtInv, NEW id \in Ids, NEW doc \in Contents, Add(id, doc)
    PROVE  DirtInv'
<1>1. /\ nextId \in ShortIds /\ nextId \in Nat /\ nextId' = nextId + 1
      /\ alive' = alive \cup {nextId} /\ nextId \notin discarded
      /\ UNCHANGED <<vacuumState, dirtCount, discarded, changed>>
    BY IssuedIds, Basics DEF Add, ShortIds, DirtInv
<1>2. \A t \in Terms, f \in Fields, d \in ShortIds :
          d # nextId => freq'[t][f][d] = freq[t][f][d]
    BY <1>1 DEF Add, AddFreq, TypeOK
<1>3. \A t \in Terms, f \in Fields, d \in ShortIds :
          freq'[t][f][d] > 0 => d \in alive' \cup discarded' \cup changed'
    BY <1>1, <1>2 DEF DirtInv
<1>4. Ahead(vacuumState', freq')
    <2>1. \A d \in vacuumState.covers : d \in ShortIds /\ d # nextId
        BY <1>1 DEF DirtInv, Paid, TypeOK
    <2>2. Ahead(vacuumState, freq)
        BY DEF DirtInv
    <2>3. Ahead(vacuumState, freq')
        BY <1>2, <2>1, <2>2 DEF Ahead
    <2> QED
        BY <1>1, <2>3
<1>5. discarded' \cap alive' = {} /\ discarded' \subseteq 0 .. nextId' - 1
    BY <1>1 DEF DirtInv
<1>6. /\ Paid(vacuumState', dirtCount', discarded')
      /\ ~vacuumState'.running => vacuumState' = NoVacuum
    BY <1>1 DEF DirtInv
<1> QED
    BY <1>3, <1>4, <1>5, <1>6 DEF DirtInv, Ahead

\* Steps that only take postings away, and documents with them.
LEMMA DirtFewer ==
    ASSUME DirtInv, UNCHANGED <<nextId, vacuumState, dirtCount, discarded>>,
           vacuumState.covers \subseteq ShortIds, alive' \subseteq alive,
           \A t \in Terms, f \in Fields, d \in ShortIds :
               freq'[t][f][d] > 0 =>
                   freq[t][f][d] > 0 /\ (d \in alive \cup changed => d \in alive' \cup changed')
    PROVE  DirtInv'
<1>1. /\ discarded' \cap alive' = {} /\ discarded' \subseteq 0 .. nextId' - 1
      /\ ~vacuumState'.running => vacuumState' = NoVacuum
      /\ Paid(vacuumState', dirtCount', discarded')
    BY DEF DirtInv
<1>2. Ahead(vacuumState', freq')
    BY DEF DirtInv, Ahead
<1>3. \A t \in Terms, f \in Fields, d \in ShortIds :
          freq'[t][f][d] > 0 => d \in alive' \cup discarded' \cup changed'
    BY DEF DirtInv
<1> QED
    BY <1>1, <1>2, <1>3 DEF DirtInv, Ahead

LEMMA DirtRemove ==
    ASSUME TypeOK, PostingsInv, DirtInv, NEW id \in Ids, NEW doc \in Contents, Remove(id, doc)
    PROVE  DirtInv'
<1> DEFINE d == idToShortId[id]
<1>1. /\ d \in ShortIds /\ RemoveTerms(d, doc) /\ alive' = alive \ {d}
      /\ UNCHANGED <<nextId, vacuumState, dirtCount, discarded>>
      /\ vacuumState.covers \subseteq ShortIds
    BY DEF Remove, TypeOK
<1>2. \A t \in Terms, f \in Fields, e \in ShortIds :
          /\ freq[t][f][e] \in Nat /\ freq'[t][f][e] \in Nat
          /\ freq'[t][f][e] <= freq[t][f][e]
          /\ freq'[t][f][d] = Monus(freq[t][f][d], doc.freq[t][f])
          /\ doc.freq[t][f] \in Nat
    <2>1. \A t \in Terms, f \in Fields, e \in ShortIds : freq[t][f][e] \in Nat
        BY DEF TypeOK
    <2>2. \A t \in Terms, f \in Fields : doc.freq[t][f] \in Nat
        BY Basics DEF Frequencies
    <2> HIDE DEF d
    <2> QED
        BY <1>1, <2>1, <2>2, RemoveConsistent
<1>3. ASSUME NEW t \in Terms, NEW f \in Fields, NEW e \in ShortIds, freq'[t][f][e] > 0
      PROVE  freq[t][f][e] > 0 /\ (e \in alive \cup changed => e \in alive' \cup changed')
    <2>1. freq[t][f][e] > 0
        BY <1>2, <1>3
    <2>2. CASE e = d
        <3>1. ~(freq[t][f][d] <= doc.freq[t][f])
            BY <1>2, <1>3, <2>2 DEF Monus
        <3>2. changed' = changed \cup {d}
            BY <3>1 DEF Remove
        <3> QED
            BY <2>1, <2>2, <3>2
    <2>3. CASE e # d
        <3>1. changed \subseteq changed'
            BY DEF Remove
        <3> QED
            BY <1>1, <2>1, <2>3, <3>1
    <2> QED
        BY <2>2, <2>3
<1> QED
    BY <1>1, <1>3, DirtFewer

LEMMA DirtRemoveFields ==
    ASSUME TypeOK, PostingsInv, DirtInv, NEW id \in Ids, NEW doc \in Contents,
           RemoveFields(id, doc)
    PROVE  DirtInv'
<1>1. /\ idToShortId[id] \in ShortIds /\ RemoveTerms(idToShortId[id], doc)
      /\ UNCHANGED <<nextId, vacuumState, dirtCount, discarded, alive, changed>>
      /\ vacuumState.covers \subseteq ShortIds
    BY DEF RemoveFields, TypeOK, tables
<1>2. \A t \in Terms, f \in Fields, e \in ShortIds :
          /\ freq[t][f][e] \in Nat /\ freq'[t][f][e] \in Nat
          /\ freq'[t][f][e] <= freq[t][f][e]
    BY <1>1, RemoveConsistent DEF TypeOK
<1>3. \A t \in Terms, f \in Fields, e \in ShortIds : freq'[t][f][e] > 0 => freq[t][f][e] > 0
    BY <1>2
<1> QED
    BY <1>1, <1>3, DirtFewer

LEMMA DirtReplace ==
    ASSUME TypeOK, TablesInv, PostingsInv, DirtInv,
           NEW id \in Ids, NEW doc \in Contents, NEW auto \in BOOLEAN, Replace(id, doc, auto)
    PROVE  DirtInv'
<1> DEFINE d == idToShortId[id]
           terms == AutoVacuumTerms({d}, auto)
           keep == alive \ {d}
           fr == RetainFreq(terms, keep)
<1>1. /\ {d} \in SUBSET alive /\ keep \in SUBSET ShortIds /\ DiscardDirt({d}, auto)
      /\ nextId' = nextId + 1 /\ alive' = keep \cup {nextId} /\ changed' = changed
    BY LiveSetFinite DEF Replace, TablesInv
<1>2. nextId \in ShortIds /\ nextId \in Nat
    BY IssuedIds, Basics DEF Replace, ShortIds
<1>3. terms \in SUBSET Terms
    BY <1>1, TypeDiscardDirt
<1>4. \A t \in Terms, f \in Fields, e \in ShortIds :
          fr[t][f][e] = IF t \in terms /\ e \notin keep THEN 0 ELSE freq[t][f][e]
    <2> HIDE DEF terms, keep
    <2> QED
        BY <1>1, <1>3, RetainConsistent
<1>5. \A t \in Terms, f \in Fields, e \in ShortIds :
          e # nextId => freq'[t][f][e] = fr[t][f][e]
    <2>1. \A t \in Terms, f \in Fields, e \in ShortIds :
              freq'[t][f][e] =
                  IF e = nextId THEN doc.freq[t][f]
                  ELSE IF t \in terms /\ e \notin keep THEN 0 ELSE freq[t][f][e]
        BY PostingsReplace
    <2> HIDE DEF fr, terms, keep
    <2> QED
        BY <1>4, <2>1
<1>6. \A t \in Terms, f \in Fields, e \in ShortIds :
          fr[t][f][e] > 0 => freq[t][f][e] > 0 /\ (t \in terms => e \in keep)
    <2> HIDE DEF fr, terms, keep
    <2> QED
        BY <1>4
<1> HIDE DEF fr
<1>7. /\ discarded' \cap keep = {} /\ discarded' \subseteq 0 .. nextId - 1
      /\ ~vacuumState'.running => vacuumState' = NoVacuum
      /\ \A t \in Terms, f \in Fields, e \in ShortIds :
             fr[t][f][e] > 0 => e \in keep \cup discarded' \cup changed
      /\ Ahead(vacuumState', fr)
      /\ Paid(vacuumState', dirtCount', discarded')
    BY <1>1, <1>6, DirtOfDiscard
<1> HIDE DEF terms, keep, d
<1>8. \A e \in discarded' : e \in ShortIds /\ e # nextId
    BY <1>2, <1>7, IssuedIds, Basics DEF ShortIds
<1>9. Ahead(vacuumState', freq')
    <2>1. vacuumState'.covers \subseteq discarded'
        BY <1>7 DEF Paid
    <2>2. \A e \in vacuumState'.covers : e \in ShortIds /\ e # nextId
        BY <1>8, <2>1
    <2> QED
        BY <1>5, <1>7, <2>2 DEF Ahead
<1>10. \A t \in Terms, f \in Fields, e \in ShortIds :
           freq'[t][f][e] > 0 => e \in alive' \cup discarded' \cup changed'
    BY <1>1, <1>5, <1>7
<1>11. discarded' \cap alive' = {} /\ discarded' \subseteq 0 .. nextId' - 1
    BY <1>1, <1>2, <1>7, <1>8
<1> QED
    BY <1>7, <1>9, <1>10, <1>11 DEF DirtInv, Ahead

LEMMA DirtVacuumStep ==
    ASSUME TypeOK, PostingsInv, DirtInv, NEW batch \in SUBSET Terms, VacuumStep(batch)
    PROVE  DirtInv'
<1> DEFINE run == Begun(dirtCount, discarded)
           left == run.terms \ batch
<1>1. /\ run \in Runs /\ run.running /\ Ahead(run, freq) /\ Paid(run, dirtCount, discarded)
      /\ dirtCount \in Nat /\ discarded \in SUBSET ShortIds /\ alive \in SUBSET ShortIds
    BY BegunNow, LiveSetFinite DEF TypeOK
<1>2. \A t \in Terms, f \in Fields, d \in ShortIds :
          freq'[t][f][d] > 0 => freq[t][f][d] > 0 /\ (t \in batch => d \in alive)
    <2>1. Retain(batch, alive)
        BY DEF VacuumStep
    <2>2. \A t \in Terms, f \in Fields, d \in ShortIds :
              /\ freq'[t][f][d] = IF t \in batch /\ d \notin alive THEN 0 ELSE freq[t][f][d]
              /\ freq'[t][f][d] > 0 => freq[t][f][d] > 0
        BY <1>1, <2>1, RetainStep
    <2> QED
        BY <2>2
<1>3. /\ nextId' = nextId /\ alive' = alive /\ changed' = changed
    BY DEF VacuumStep, tables
<1>4. /\ \A d \in run.covers : d \in discarded /\ d \in ShortIds /\ d \notin alive
      /\ discarded \cap alive = {} /\ discarded \subseteq 0 .. nextId - 1
    BY <1>1 DEF DirtInv, Paid
<1>5. CASE left # {}
    <2>1. /\ vacuumState' = [run EXCEPT !.terms = left]
          /\ UNCHANGED <<dirtCount, discarded>>
        BY <1>5 DEF VacuumStep
    <2> HIDE DEF run, left
    <2>2. /\ vacuumState'.covers = run.covers /\ vacuumState'.running
          /\ vacuumState'.initialDirtCount = run.initialDirtCount
          /\ vacuumState'.terms = left
        BY <1>1, <2>1 DEF Runs
    <2>3. Paid(vacuumState', dirtCount', discarded')
        BY <1>1, <2>1, <2>2 DEF Paid
    <2>4. Ahead(vacuumState', freq')
        BY <1>1, <1>2, <1>4, <2>2 DEF Ahead, left
    <2>5. \A t \in Terms, f \in Fields, d \in ShortIds :
              freq'[t][f][d] > 0 => d \in alive' \cup discarded' \cup changed'
        BY <1>2, <1>3, <2>1 DEF DirtInv
    <2> QED
        BY <1>3, <1>4, <2>1, <2>2, <2>3, <2>4, <2>5 DEF DirtInv, Ahead
<1>6. CASE left = {}
    <2>1. /\ vacuumState' = NoVacuum
          /\ dirtCount' = Monus(dirtCount, run.initialDirtCount)
          /\ discarded' = discarded \ run.covers
          /\ run.terms \subseteq batch
        BY <1>6 DEF VacuumStep
    <2> HIDE DEF run, left
    <2>2. Paid(vacuumState', dirtCount', discarded')
        BY <1>1, <2>1, CompletedPaid
    <2>3. Ahead(vacuumState', freq')
        BY <2>1 DEF Ahead, NoVacuum
    <2>4. ASSUME NEW t \in Terms, NEW f \in Fields, NEW d \in ShortIds, freq'[t][f][d] > 0
          PROVE  d \in alive' \cup discarded' \cup changed'
        <3>1. freq[t][f][d] > 0 /\ d \in alive \cup discarded \cup changed
            BY <1>2, <2>4 DEF DirtInv
        <3>2. d \notin run.covers
            BY <1>1, <1>2, <1>4, <2>1, <2>4, <3>1 DEF Ahead
        <3> QED
            BY <1>3, <2>1, <3>1, <3>2
    <2> QED
        BY <1>3, <1>4, <2>1, <2>2, <2>3, <2>4 DEF DirtInv, Ahead
<1> QED
    BY <1>5, <1>6

LEMMA DirtBeginVacuum ==
    ASSUME TypeOK, PostingsInv, DirtInv, BeginVacuum
    PROVE  DirtInv'
<1>1. /\ vacuumState' = Begun(dirtCount, discarded)
      /\ UNCHANGED <<nextId, alive, freq, dirtCount, discarded, changed>>
    BY DEF BeginVacuum, tables, postings, history
<1>2. /\ Begun(dirtCount, discarded).running
      /\ Ahead(Begun(dirtCount, discarded), freq)
      /\ Paid(Begun(dirtCount, discarded), dirtCount, discarded)
    BY BegunNow
<1> QED
    BY <1>1, <1>2 DEF DirtInv

\* Giving up a run keeps the dirt that pays for what it had covered.
LEMMA DirtReload ==
    ASSUME TypeOK, DirtInv, Reload
    PROVE  DirtInv'
<1> DEFINE covers == vacuumState.covers
<1>1. /\ vacuumState' = NoVacuum
      /\ UNCHANGED <<nextId, alive, freq, dirtCount, discarded, changed>>
      /\ covers \in SUBSET ShortIds /\ discarded \in SUBSET ShortIds /\ dirtCount \in Nat
      /\ vacuumState.initialDirtCount \in Nat
    BY DEF Reload, tables, postings, history, TypeOK
<1>2. Cardinality(discarded) <= Cardinality(covers) + Cardinality(discarded \ covers)
    <2>1. covers \subseteq discarded
        BY DEF DirtInv, Paid
    <2>2. discarded \cap covers = covers
        BY <2>1
    <2>3. Cardinality(discarded \ covers) = Cardinality(discarded) - Cardinality(covers)
        <3>1. Cardinality(discarded \ covers)
                  = Cardinality(discarded) - Cardinality(discarded \cap covers)
            BY <1>1, ShortIdSets, FS_Difference
        <3> HIDE DEF covers
        <3> QED
            BY <2>2, <3>1
    <2>4. /\ Cardinality(covers) \in Nat /\ Cardinality(discarded) \in Nat
          /\ Cardinality(discarded \ covers) \in Nat
        BY <1>1, ShortIdSets
    <2> HIDE DEF covers
    <2> QED
        BY <2>3, <2>4
<1>3. Cardinality(discarded) <= dirtCount
    <2>1. /\ Cardinality(covers) <= vacuumState.initialDirtCount
          /\ vacuumState.initialDirtCount + Cardinality(discarded \ covers) <= dirtCount
        BY DEF DirtInv, Paid
    <2>2. /\ Cardinality(covers) \in Nat /\ Cardinality(discarded) \in Nat
          /\ Cardinality(discarded \ covers) \in Nat
        BY <1>1, ShortIdSets
    <2> QED
        BY <1>1, <1>2, <2>1, <2>2
<1>4. Paid(NoVacuum, dirtCount, discarded)
    BY <1>1, <1>3, NoVacuumPaid
<1> QED
    BY <1>1, <1>4 DEF DirtInv, Ahead, NoVacuum

LEMMA DirtRemoveAll ==
    ASSUME TypeOK, RemoveAllDocuments
    PROVE  DirtInv'
<1>1. Paid(NoVacuum, dirtCount, {})
    <2>1. Cardinality({}) <= dirtCount
        BY FS_EmptySet DEF TypeOK
    <2> QED
        BY <2>1, NoVacuumPaid DEF TypeOK
<1> QED
    BY <1>1 DEF RemoveAllDocuments, FreshTables, FreshPostings, DirtInv, Ahead, NoVacuum

LEMMA DirtCompact ==
    ASSUME TypeOK, TablesInv, PostingsInv, DirtInv, Compact
    PROVE  DirtInv'
<1>1. /\ vacuumState' = NoVacuum /\ discarded' = {} /\ dirtCount' = dirtCount
    BY DEF Compact, DirtInv
<1>2. Paid(NoVacuum, dirtCount, {})
    <2>1. Cardinality({}) <= dirtCount
        BY FS_EmptySet DEF TypeOK
    <2> QED
        BY <2>1, NoVacuumPaid DEF TypeOK
<1>3. \A t \in Terms, f \in Fields, d \in ShortIds : freq'[t][f][d] > 0 => d \in alive'
    BY PostingsCompact
<1> QED
    BY <1>1, <1>2, <1>3 DEF DirtInv, Ahead, NoVacuum

LEMMA DirtSearchExact ==
    ASSUME TypeOK, PostingsInv, DirtInv, NEW terms \in SUBSET Terms,
           NEW fields \in SUBSET Fields, NEW boosting \in BOOLEAN,
           SearchExact(terms, fields, boosting)
    PROVE  DirtInv'
<1>1. /\ UNCHANGED <<nextId, vacuumState, dirtCount, discarded, alive, changed>>
      /\ vacuumState.covers \subseteq ShortIds
    BY DEF SearchExact, tables, history, TypeOK
<1>2. \A t \in Terms, f \in Fields, d \in ShortIds : freq'[t][f][d] > 0 => freq[t][f][d] > 0
    BY PostingsSearchExact
<1> QED
    BY <1>1, <1>2, DirtFewer

\* Every step keeps the stale postings paid for.
LEMMA DirtStep ==
    TypeOK /\ TablesInv /\ PostingsInv /\ DirtInv /\ [Next]_vars => DirtInv'
<1> SUFFICES ASSUME TypeOK, TablesInv, PostingsInv, DirtInv, [Next]_vars PROVE DirtInv'
    OBVIOUS
<1>1. CASE \E id \in Ids, doc \in Contents : Add(id, doc)
    BY <1>1, DirtAdd
<1>2. CASE \E id \in Ids, doc \in Contents : Remove(id, doc)
    BY <1>2, DirtRemove
<1>3. CASE \E id \in Ids, doc \in Contents : RemoveFields(id, doc)
    BY <1>3, DirtRemoveFields
<1>4. CASE RemoveAllDocuments
    BY <1>4, DirtRemoveAll
<1>5. CASE \E gone \in SUBSET alive, auto \in BOOLEAN : Discard(gone, auto)
    BY <1>5, DirtDiscard DEF Discard
<1>6. CASE \E id \in Ids, doc \in Contents, auto \in BOOLEAN : Replace(id, doc, auto)
    BY <1>6, DirtReplace
<1>7. CASE \E id \in Ids, auto \in BOOLEAN : ReplaceExhausted(id, auto)
    BY <1>7, DirtDiscard DEF ReplaceExhausted, TablesInv
<1>8. CASE BeginVacuum
    BY <1>8, DirtBeginVacuum
<1>9. CASE \E batch \in SUBSET Terms : VacuumStep(batch)
    BY <1>9, DirtVacuumStep
<1>10. CASE Compact
    BY <1>10, DirtCompact
<1>11. CASE Reload
    BY <1>11, DirtReload
<1>12. CASE \E terms \in SUBSET Terms \ {{}}, fields \in SUBSET Fields \ {{}},
                boosting \in BOOLEAN : SearchExact(terms, fields, boosting)
    BY <1>12, DirtSearchExact
<1>13. CASE \/ \E id \in Ids : AddExhausted(id)
            \/ Search
            \/ UNCHANGED vars
    <2>1. UNCHANGED <<tables, postings, dirtCount, vacuumState, history>>
        BY <1>13 DEF AddExhausted, Search, vars
    <2> QED
        BY <2>1 DEF tables, postings, history, DirtInv, Ahead
<1> QED
    BY <1>1, <1>2, <1>3, <1>4, <1>5, <1>6, <1>7, <1>8, <1>9, <1>10, <1>11, <1>12, <1>13
       DEF Next

----------------------------------------------------------------------------
(* The expansion cache.                                                    *)

\* Retaining over no terms is leaving the postings alone.
LEMMA RetainNothing ==
    ASSUME TypeOK, NEW keep \in SUBSET ShortIds, Retain({}, keep)
    PROVE  UNCHANGED postings
<1>1. freq' = freq
    BY DEF Retain, RetainFreq, TypeOK
<1>2. fieldsOf' = fieldsOf
    BY DEF Retain, RetainFields, TypeOK
<1>3. tree' = tree
    BY DEF Retain, RetainTree
<1> QED
    BY <1>1, <1>2, <1>3 DEF postings

\* Every step that writes postings leaves the cache cold.
LEMMA CacheStep ==
    TypeOK /\ CachedHandlesCurrent /\ [Next]_vars => CachedHandlesCurrent'
<1> SUFFICES ASSUME TypeOK, CachedHandlesCurrent, [Next]_vars PROVE CachedHandlesCurrent'
    OBVIOUS
<1>1. CASE \E gone \in SUBSET alive, auto \in BOOLEAN : Discard(gone, auto)
    <2>1. PICK gone \in SUBSET alive, auto \in BOOLEAN : Discard(gone, auto)
        BY <1>1
    <2>2. CASE AutoVacuums(gone, auto)
        BY <2>1, <2>2 DEF Discard, CachedHandlesCurrent
    <2>3. CASE ~AutoVacuums(gone, auto)
        <3>1. Retain({}, alive \ gone) /\ expansions' = expansions
            BY <2>1, <2>3 DEF Discard, DiscardDocuments, AutoVacuumTerms
        <3>2. UNCHANGED postings
            BY <3>1, RetainNothing, LiveSetFinite
        <3> QED
            BY <3>1, <3>2 DEF CachedHandlesCurrent
    <2> QED
        BY <2>2, <2>3
<1>2. CASE \/ BeginVacuum
           \/ Search
           \/ UNCHANGED vars
    BY <1>2 DEF BeginVacuum, Search, vars, CachedHandlesCurrent, postings
<1>3. CASE \/ \E id \in Ids, doc \in Contents : Add(id, doc)
           \/ \E id \in Ids : AddExhausted(id)
           \/ \E id \in Ids, doc \in Contents : Remove(id, doc)
           \/ \E id \in Ids, doc \in Contents : RemoveFields(id, doc)
           \/ RemoveAllDocuments
           \/ \E id \in Ids, doc \in Contents, auto \in BOOLEAN : Replace(id, doc, auto)
           \/ \E id \in Ids, auto \in BOOLEAN : ReplaceExhausted(id, auto)
           \/ \E batch \in SUBSET Terms : VacuumStep(batch)
           \/ Compact
           \/ Reload
           \/ \E terms \in SUBSET Terms \ {{}}, fields \in SUBSET Fields \ {{}},
                  boosting \in BOOLEAN : SearchExact(terms, fields, boosting)
    <2>1. expansions' = Cold
        BY <1>3 DEF Add, AddExhausted, Remove, RemoveFields, RemoveTerms, RemoveAllDocuments,
                    Replace, ReplaceExhausted, VacuumStep, Compact, Reload, SearchExact
    <2> QED
        BY <2>1 DEF CachedHandlesCurrent
<1> QED
    BY <1>1, <1>2, <1>3 DEF Next

----------------------------------------------------------------------------
(* The theorems.                                                           *)

\* The inductive invariant holds of every state the engine reaches.
THEOREM Invariance == Spec => []IInv
<1>1. Init => IInv
    <2>1. Init => CachedHandlesCurrent
        BY DEF Init, CachedHandlesCurrent
    <2> QED
        BY <2>1, TypeInit, TablesInit, PostingsInit, DirtInit DEF IInv
<1>2. IInv /\ [Next]_vars => IInv'
    BY TypeStep, TablesStep, PostingsStep, DirtStep, CacheStep DEF IInv
<1> QED
    BY <1>1, <1>2, PTL DEF Spec

\* The variables keep their types, whatever the order of operations.
THEOREM TypeCorrect == Spec => []TypeOK
<1>1. IInv => TypeOK
    BY DEF IInv
<1> QED
    BY <1>1, Invariance, PTL

\* A query finds no dead document, also when it skips the liveness check because
\* the index is clean, and every live document that holds the term in a field
\* whose average length is not zero.
THEOREM QueriesCorrect == Spec => []QueriesFindLiveDocuments
<1>1. IInv => QueriesFindLiveDocuments
    <2> SUFFICES ASSUME IInv, NEW zeroAverages \in SUBSET Fields,
                        NEW t \in Terms, NEW f \in Fields
                 PROVE  /\ Scored(t, f, zeroAverages) \subseteq alive
                        /\ f \notin zeroAverages =>
                               {d \in alive : freq[t][f][d] > 0}
                                   \subseteq Scored(t, f, zeroAverages)
        BY DEF QueriesFindLiveDocuments
    <2>1. alive \subseteq ShortIds
        BY LiveSetFinite DEF IInv
    <2>2. \A d \in alive : freq[t][f][d] > 0 => fieldLength[d][f] > 0
        BY <2>1 DEF IInv, PostingsInv
    <2>3. \A d \in ShortIds \ alive : ~(fieldLength[d][f] > 0)
        BY DEF IInv, TablesInv, NoFields, Absent
    <2> QED
        BY <2>1, <2>2, <2>3 DEF Scored
<1> QED
    BY <1>1, Invariance, PTL

\* At dirt count zero every stale posting was left by a removal with changed
\* content; no interleaving of discards and vacuum runs loses dirt.
THEOREM DirtCorrect == Spec => []CleanUnlessChanged
<1>1. IInv => CleanUnlessChanged
    <2> SUFFICES ASSUME IInv, dirtCount = 0 PROVE discarded = {}
        BY DEF CleanUnlessChanged, IInv, DirtInv
    <2> DEFINE covers == vacuumState.covers
    <2>1. /\ vacuumState.initialDirtCount \in Nat /\ covers \in SUBSET ShortIds
          /\ discarded \in SUBSET ShortIds /\ discarded \ covers \in SUBSET ShortIds
        BY DEF IInv, TypeOK
    <2>2. /\ Cardinality(covers) <= vacuumState.initialDirtCount
          /\ vacuumState.initialDirtCount + Cardinality(discarded \ covers) <= 0
        BY DEF IInv, DirtInv, Paid
    <2>3. Cardinality(covers) = 0 /\ Cardinality(discarded \ covers) = 0
        BY <2>1, <2>2, ShortIdSets
    <2>4. covers = {} /\ discarded \ covers = {}
        BY <2>1, <2>3, ShortIdSets, FS_EmptySet
    <2> QED
        BY <2>4
<1> QED
    BY <1>1, Invariance, PTL

\* No query scores a posting list that a write has replaced.
THEOREM CacheCorrect == Spec => []CachedHandlesCurrent
<1>1. IInv => CachedHandlesCurrent
    BY DEF IInv
<1> QED
    BY <1>1, Invariance, PTL

\* Every snapshot written can be loaded again, in the middle of a run too.
THEOREM SnapshotsLoad == Spec => []SnapshotLoads
<1>1. IInv => SnapshotLoads
    <2> SUFFICES ASSUME TypeOK, TablesInv, PostingsInv PROVE SnapshotLoads
        BY DEF IInv
    <2> DEFINE present == {i \in Ids : idToShortId[i] # NoShortId}
               named == {d \in ShortIds : documentIds[d] # NoId}
    <2>1. alive \subseteq ShortIds /\ IsFiniteSet(alive)
        BY LiveSetFinite
    <2>2. named = alive
        BY <2>1, NoIdAssumption DEF TablesInv
    <2>3. Cardinality(present) = Cardinality(alive)
        <3> DEFINE idOf == [d \in alive |-> documentIds[d]]
        <3>1. idOf \in [alive -> present]
            BY <2>1, Basics DEF TablesInv
        <3>2. \A c, d \in alive : idOf[c] = idOf[d] => c = d
            BY DEF TablesInv
        <3>3. \A i \in present : \E d \in alive : idOf[d] = i
            BY DEF TablesInv
        <3> HIDE DEF idOf, present
        <3>4. idOf \in Bijection(alive, present)
            BY <3>1, <3>2, <3>3, Fun_IsBij
        <3>5. ExistsBijection(alive, present)
            BY <3>4 DEF ExistsBijection
        <3> QED
            BY <2>1, <3>5, FS_Bijection
    <2>4. documentCount <= nextId
        <3>1. nextId \in Nat /\ alive \subseteq 0 .. nextId - 1
            BY IssuedIds DEF TypeOK
        <3>2. IsFiniteSet(0 .. nextId - 1) /\ Cardinality(0 .. nextId - 1) = nextId
            BY <3>1, FS_Interval
        <3>3. Cardinality(alive) <= Cardinality(0 .. nextId - 1)
            BY <3>1, <3>2, FS_Subset
        <3> QED
            BY <3>2, <3>3 DEF TablesInv
    <2>5. \A d \in ShortIds : documentIds[d] # NoId =>
              d < nextId /\ idToShortId[documentIds[d]] = d
        <3>1. \A d \in alive : d < nextId
            BY IssuedIds
        <3> QED
            BY <2>2, <3>1 DEF TablesInv
    <2>6. \A d \in ShortIds, f \in Fields : fieldLength[d][f] # Absent => documentIds[d] # NoId
        BY <2>2 DEF TablesInv, NoFields
    <2>7. \A t \in tree : fieldsOf[t] # {} /\ \A f \in fieldsOf[t] : ~Empty(freq, t, f)
        BY DEF PostingsInv, Consistent, TypeOK
    <2>8. \A t \in Terms, f \in Fields, d \in ShortIds : freq[t][f][d] > 0 =>
              /\ t \in tree /\ f \in fieldsOf[t]
              /\ d < nextId
              /\ documentIds[d] # NoId => fieldLength[d][f] > 0
        <3>1. freq \in AllFreq
            BY DEF TypeOK, AllFreq
        <3>2. \A t \in Terms, f \in Fields, d \in ShortIds :
                  freq[t][f][d] > 0 => t \in tree /\ f \in fieldsOf[t]
            BY <3>1, NotEmpty DEF PostingsInv, Consistent
        <3> QED
            BY <2>2, <3>2 DEF PostingsInv
    <2>9. documentCount = Cardinality(named) /\ documentCount = Cardinality(present)
        BY <2>2, <2>3 DEF TablesInv
    <2> QED
        BY <2>4, <2>5, <2>6, <2>7, <2>8, <2>9 DEF SnapshotLoads
<1> QED
    BY <1>1, Invariance, PTL

\* Whoever sees the same version of the id table twice may keep a copy of it.
THEOREM VersionsCorrect == Spec => IdTableVersioned
<1> DEFINE Versioned ==
        \/ Reload
        \/ /\ idTableVersion' >= idTableVersion
           /\ documentIds' # documentIds => idTableVersion' > idTableVersion
<1>1. ASSUME TypeOK, NEW gone \in SUBSET alive, NEW auto \in BOOLEAN,
             DiscardDocuments(gone, auto)
      PROVE  Versioned
    <2>1. Cardinality(gone) \in Nat /\ IsFiniteSet(gone)
        BY <1>1, LiveSetFinite
    <2>2. idTableVersion' = idTableVersion + Cardinality(gone)
        BY <1>1 DEF DiscardDocuments
    <2>3. CASE gone = {}
        <3>1. documentIds' = documentIds
            BY <1>1, <2>3 DEF DiscardDocuments, TypeOK
        <3>2. idTableVersion' >= idTableVersion
            BY <1>1, <2>1, <2>2 DEF TypeOK
        <3> QED
            BY <3>1, <3>2
    <2>4. CASE gone # {}
        <3>1. Cardinality(gone) > 0
            BY <2>1, <2>4, FS_EmptySet
        <3>2. idTableVersion' > idTableVersion /\ idTableVersion' >= idTableVersion
            BY <1>1, <2>1, <2>2, <3>1 DEF TypeOK
        <3> QED
            BY <3>2
    <2> QED
        BY <2>3, <2>4
<1>2. IInv /\ [Next]_vars => [Versioned]_vars
    <2> SUFFICES ASSUME TypeOK, TablesInv, [Next]_vars PROVE [Versioned]_vars
        BY DEF IInv
    <2>1. CASE \/ \E id \in Ids, doc \in Contents : Add(id, doc)
               \/ \E id \in Ids, doc \in Contents : Remove(id, doc)
               \/ RemoveAllDocuments
               \/ Compact
        <3>1. idTableVersion' = idTableVersion + 1
            BY <2>1 DEF Add, Remove, RemoveAllDocuments, Compact
        <3>2. idTableVersion' > idTableVersion /\ idTableVersion' >= idTableVersion
            BY <3>1 DEF TypeOK
        <3> QED
            BY <3>2
    <2>2. CASE \E id \in Ids, doc \in Contents, auto \in BOOLEAN : Replace(id, doc, auto)
        <3>1. idTableVersion' = idTableVersion + 2
            BY <2>2 DEF Replace
        <3>2. idTableVersion' > idTableVersion /\ idTableVersion' >= idTableVersion
            BY <3>1 DEF TypeOK
        <3> QED
            BY <3>2
    <2>3. CASE \E gone \in SUBSET alive, auto \in BOOLEAN : Discard(gone, auto)
        BY <1>1, <2>3 DEF Discard
    <2>4. CASE \E id \in Ids, auto \in BOOLEAN : ReplaceExhausted(id, auto)
        BY <1>1, <2>4 DEF ReplaceExhausted, TablesInv
    <2>5. CASE \/ \E id \in Ids : AddExhausted(id)
               \/ \E id \in Ids, doc \in Contents : RemoveFields(id, doc)
               \/ BeginVacuum
               \/ \E batch \in SUBSET Terms : VacuumStep(batch)
               \/ Search
               \/ \E terms \in SUBSET Terms \ {{}}, fields \in SUBSET Fields \ {{}},
                      boosting \in BOOLEAN : SearchExact(terms, fields, boosting)
        <3>1. UNCHANGED <<documentIds, idTableVersion>>
            BY <2>5 DEF AddExhausted, RemoveFields, BeginVacuum, VacuumStep, Search,
                        SearchExact, tables
        <3>2. idTableVersion' >= idTableVersion
            BY <3>1 DEF TypeOK
        <3> QED
            BY <3>1, <3>2
    <2>6. CASE Reload
        BY <2>6
    <2>7. CASE UNCHANGED vars
        BY <2>7
    <2> QED
        BY <2>1, <2>2, <2>3, <2>4, <2>5, <2>6, <2>7 DEF Next
<1> QED
    BY <1>2, Invariance, PTL DEF Spec, IdTableVersioned

----------------------------------------------------------------------------
(* The index implements the map of documents.                              *)

\* What the index holds of a document, by its short id.
WordsAt(fr, d) == [t \in Terms |-> [f \in Fields |-> fr[t][f][d]]]

LEMMA WordsAtType ==
    ASSUME NEW fr \in AllFreq, NEW d \in ShortIds
    PROVE  WordsAt(fr, d) \in Frequencies /\ WordsAt(fr, d) # NoDocument
<1>1. WordsAt(fr, d) \in Frequencies
    BY DEF AllFreq, WordsAt, Frequencies
<1> QED
    BY <1>1, NoIdAssumption

\* The abstract map, and when two documents' postings agree.
LEMMA IndexedAt ==
    ASSUME TypeOK
    PROVE  /\ \A i \in Ids : IndexedDocuments[i] =
                  IF idToShortId[i] = NoShortId THEN NoDocument
                  ELSE WordsAt(freq, idToShortId[i])
           /\ \A i \in Ids : IndexedDocuments'[i] =
                  IF idToShortId'[i] = NoShortId THEN NoDocument
                  ELSE WordsAt(freq', idToShortId'[i])
           /\ \A i \in Ids : IndexedDocuments[i] # NoDocument <=> idToShortId[i] # NoShortId
           /\ \A i \in Ids : idToShortId[i] # NoShortId => idToShortId[i] \in ShortIds
<1>1. /\ \A i \in Ids : IndexedDocuments[i] =
             IF idToShortId[i] = NoShortId THEN NoDocument
             ELSE WordsAt(freq, idToShortId[i])
      /\ \A i \in Ids : IndexedDocuments'[i] =
             IF idToShortId'[i] = NoShortId THEN NoDocument
             ELSE WordsAt(freq', idToShortId'[i])
    BY DEF IndexedDocuments, WordsAt
<1>2. \A i \in Ids : idToShortId[i] # NoShortId => idToShortId[i] \in ShortIds
    BY DEF TypeOK
<1>3. freq \in AllFreq
    BY DEF TypeOK, AllFreq
<1> QED
    BY <1>1, <1>2, <1>3, WordsAtType

LEMMA SameWords ==
    ASSUME NEW fr1, NEW fr2, NEW d, NEW e,
           \A t \in Terms, f \in Fields : fr1[t][f][d] = fr2[t][f][e]
    PROVE  WordsAt(fr1, d) = WordsAt(fr2, e)
BY DEF WordsAt

\* A step that leaves every live document's postings alone and only takes out
\* the ids of gone drops those ids.
LEMMA Dropped ==
    ASSUME TypeOK, TablesInv, NEW gone \in SUBSET alive,
           idToShortId' = [i \in Ids |->
               IF idToShortId[i] \in gone THEN NoShortId ELSE idToShortId[i]],
           \A t \in Terms, f \in Fields : \A d \in alive \ gone :
               freq'[t][f][d] = freq[t][f][d]
    PROVE  D!Drop({i \in Ids : idToShortId[i] \in gone})
<1> DEFINE ids == {i \in Ids : idToShortId[i] \in gone}
<1>1. ASSUME NEW i \in Ids
      PROVE  IndexedDocuments'[i] = IF i \in ids THEN NoDocument ELSE IndexedDocuments[i]
    <2>1. CASE idToShortId[i] \in gone
        BY <2>1, IndexedAt
    <2>2. CASE idToShortId[i] \notin gone /\ idToShortId[i] # NoShortId
        <3>1. idToShortId[i] \in alive \ gone /\ idToShortId'[i] = idToShortId[i]
            BY <2>2 DEF TablesInv
        <3>2. WordsAt(freq', idToShortId[i]) = WordsAt(freq, idToShortId[i])
            BY <3>1, SameWords
        <3> QED
            BY <2>2, <3>1, <3>2, IndexedAt
    <2>3. CASE idToShortId[i] = NoShortId
        <3>1. idToShortId'[i] = NoShortId
            BY <2>3
        <3>2. idToShortId[i] \notin gone
            BY <2>3, LiveSetFinite, Basics
        <3> QED
            BY <2>3, <3>1, <3>2, IndexedAt
    <2> QED
        BY <2>1, <2>2, <2>3
<1>2. IndexedDocuments' = [i \in Ids |-> IF i \in ids THEN NoDocument ELSE IndexedDocuments[i]]
    <2>1. IndexedDocuments' = [i \in Ids |-> IndexedDocuments'[i]]
        BY DEF IndexedDocuments
    <2> QED
        BY <1>1, <2>1
<1> QED
    BY <1>2 DEF D!Drop

\* A step that leaves the ids and every live document's postings alone.
LEMMA Maintained ==
    ASSUME TypeOK, TablesInv, idToShortId' = idToShortId,
           \A t \in Terms, f \in Fields : \A d \in alive : freq'[t][f][d] = freq[t][f][d]
    PROVE  UNCHANGED IndexedDocuments
<1>1. ASSUME NEW i \in Ids
      PROVE  IndexedDocuments'[i] = IndexedDocuments[i]
    <2>1. CASE idToShortId[i] = NoShortId
        BY <2>1, IndexedAt
    <2>2. CASE idToShortId[i] # NoShortId
        <3>1. idToShortId[i] \in alive
            BY <2>2 DEF TablesInv
        <3>2. WordsAt(freq', idToShortId[i]) = WordsAt(freq, idToShortId[i])
            BY <3>1, SameWords
        <3> QED
            BY <2>2, <3>2, IndexedAt
    <2> QED
        BY <2>1, <2>2
<1>2. /\ IndexedDocuments' = [i \in Ids |-> IndexedDocuments'[i]]
      /\ IndexedDocuments = [i \in Ids |-> IndexedDocuments[i]]
    BY DEF IndexedDocuments
<1> QED
    BY <1>1, <1>2

LEMMA RefineAdd ==
    ASSUME IInv, NEW id \in Ids, NEW doc \in Contents, Add(id, doc)
    PROVE  D!Put(id, doc.freq)
<1> USE DEF IInv
<1>1. /\ idToShortId[id] = NoShortId /\ nextId \in ShortIds
      /\ nextId \notin alive /\ nextId # NoShortId /\ nextId \in Nat
      /\ idToShortId' = [idToShortId EXCEPT ![id] = nextId]
    BY IssuedIds, Basics DEF Add, ShortIds
<1>2. \A t \in Terms, f \in Fields : freq[t][f][nextId] = 0
    BY <1>1 DEF PostingsInv, TypeOK
<1>3. \A t \in Terms, f \in Fields, d \in ShortIds :
          freq'[t][f][d] = IF d = nextId THEN doc.freq[t][f] ELSE freq[t][f][d]
    <2>1. \A t \in Terms, f \in Fields : doc.freq[t][f] \in Nat
        BY Basics DEF Frequencies
    <2>2. \A t \in Terms, f \in Fields, d \in ShortIds :
              freq'[t][f][d] = IF d = nextId THEN freq[t][f][d] + doc.freq[t][f]
                               ELSE freq[t][f][d]
        BY <1>1 DEF Add, AddFreq, TypeOK
    <2> QED
        BY <1>2, <2>1, <2>2
<1>4. WordsAt(freq', nextId) = doc.freq
    <2>1. doc.freq \in Frequencies
        BY Basics
    <2> QED
        BY <1>1, <1>3, <2>1, SMTT(30) DEF WordsAt, Frequencies
<1>5. ASSUME NEW i \in Ids
      PROVE  IndexedDocuments'[i] = IF i = id THEN doc.freq ELSE IndexedDocuments[i]
    <2>1. CASE i = id
        BY <1>1, <1>4, <2>1, IndexedAt DEF TypeOK
    <2>2. CASE i # id /\ idToShortId[i] = NoShortId
        BY <1>1, <2>2, IndexedAt DEF TypeOK
    <2>3. CASE i # id /\ idToShortId[i] # NoShortId
        <3>1. idToShortId[i] \in alive /\ idToShortId[i] \in ShortIds /\ idToShortId[i] # nextId
            BY <1>1, <2>3 DEF TablesInv, TypeOK
        <3>2. WordsAt(freq', idToShortId[i]) = WordsAt(freq, idToShortId[i])
            BY <1>3, <3>1, SameWords
        <3>3. idToShortId'[i] = idToShortId[i]
            BY <1>1, <2>3 DEF TypeOK
        <3> QED
            BY <2>3, <3>2, <3>3, IndexedAt
    <2> QED
        BY <2>1, <2>2, <2>3
<1>6. IndexedDocuments' = [IndexedDocuments EXCEPT ![id] = doc.freq]
    <2>1. /\ IndexedDocuments' = [i \in Ids |-> IndexedDocuments'[i]]
          /\ IndexedDocuments = [i \in Ids |-> IndexedDocuments[i]]
        BY DEF IndexedDocuments
    <2> QED
        BY <1>5, <2>1
<1>7. IndexedDocuments[id] = NoDocument
    BY <1>1, IndexedAt
<1> QED
    BY <1>6, <1>7 DEF D!Put

LEMMA RefineReplace ==
    ASSUME IInv, NEW id \in Ids, NEW doc \in Contents, NEW auto \in BOOLEAN,
           Replace(id, doc, auto)
    PROVE  D!Replace(id, doc.freq)
<1> DEFINE s == idToShortId[id]
<1> USE DEF IInv
<1>1. /\ s # NoShortId /\ s \in alive
      /\ nextId \in ShortIds /\ nextId \notin alive /\ nextId # NoShortId
      /\ idToShortId' = [idToShortId EXCEPT ![id] = nextId]
    BY IssuedIds, Basics DEF Replace, ShortIds, TablesInv
<1>2. \A t \in Terms, f \in Fields, e \in ShortIds :
          freq'[t][f][e] =
              IF e = nextId THEN doc.freq[t][f]
              ELSE IF t \in AutoVacuumTerms({s}, auto) /\ e \notin alive \ {s}
                   THEN 0 ELSE freq[t][f][e]
    BY PostingsReplace
<1>3. WordsAt(freq', nextId) = doc.freq
    <2>1. doc.freq \in Frequencies
        BY Basics
    <2>2. \A t \in Terms, f \in Fields : freq'[t][f][nextId] = doc.freq[t][f]
        BY <1>1, <1>2
    <2> QED
        BY <2>1, <2>2 DEF WordsAt, Frequencies
<1> HIDE DEF s
<1>4. ASSUME NEW i \in Ids
      PROVE  IndexedDocuments'[i] = IF i = id THEN doc.freq ELSE IndexedDocuments[i]
    <2>1. CASE i = id
        BY <1>1, <1>3, <2>1, IndexedAt DEF TypeOK
    <2>2. CASE i # id /\ idToShortId[i] = NoShortId
        BY <1>1, <2>2, IndexedAt DEF TypeOK
    <2>3. CASE i # id /\ idToShortId[i] # NoShortId
        <3>1. /\ idToShortId[i] \in alive \ {s} /\ idToShortId[i] \in ShortIds
              /\ idToShortId[i] # nextId
            BY <1>1, <2>3 DEF TablesInv, TypeOK, s
        <3>2. \A t \in Terms, f \in Fields :
                  freq'[t][f][idToShortId[i]] = freq[t][f][idToShortId[i]]
            BY <1>2, <3>1
        <3>3. WordsAt(freq', idToShortId[i]) = WordsAt(freq, idToShortId[i])
            BY <3>2, SameWords
        <3>4. idToShortId'[i] = idToShortId[i]
            BY <1>1, <2>3 DEF TypeOK
        <3> QED
            BY <2>3, <3>3, <3>4, IndexedAt
    <2> QED
        BY <2>1, <2>2, <2>3
<1>5. IndexedDocuments' = [IndexedDocuments EXCEPT ![id] = doc.freq]
    <2>1. /\ IndexedDocuments' = [i \in Ids |-> IndexedDocuments'[i]]
          /\ IndexedDocuments = [i \in Ids |-> IndexedDocuments[i]]
        BY DEF IndexedDocuments
    <2> QED
        BY <1>4, <2>1
<1>6. IndexedDocuments[id] # NoDocument
    BY <1>1, IndexedAt DEF s
<1> QED
    BY <1>5, <1>6 DEF D!Replace

LEMMA RefineRemove ==
    ASSUME IInv, NEW id \in Ids, NEW doc \in Contents, Remove(id, doc)
    PROVE  \E ids \in SUBSET Ids : D!Drop(ids)
<1> DEFINE d == idToShortId[id]
<1> USE DEF IInv
<1>1. /\ d \in alive /\ d \in ShortIds /\ {d} \in SUBSET alive /\ d # NoShortId
      /\ RemoveTerms(d, doc)
      /\ idToShortId' = [idToShortId EXCEPT ![id] = NoShortId]
    BY LiveSetFinite DEF Remove, TablesInv
<1>2. \A i \in Ids : idToShortId[i] \in {d} <=> i = id
    BY <1>1 DEF TablesInv
<1>3. idToShortId' = [i \in Ids |->
          IF idToShortId[i] \in {d} THEN NoShortId ELSE idToShortId[i]]
    BY <1>1, <1>2 DEF TypeOK
<1>4. \A t \in Terms, f \in Fields : \A e \in alive \ {d} : freq'[t][f][e] = freq[t][f][e]
    <2>1. \A t \in Terms, f \in Fields, e \in ShortIds :
              e # d => freq'[t][f][e] = freq[t][f][e]
        BY <1>1, RemoveConsistent
    <2>2. alive \subseteq ShortIds
        BY LiveSetFinite
    <2> QED
        BY <2>1, <2>2
<1>5. D!Drop({i \in Ids : idToShortId[i] \in {d}})
    <2> HIDE DEF d
    <2> QED
        BY <1>1, <1>3, <1>4, Dropped
<1> QED
    BY <1>5

LEMMA RefineRemoveFields ==
    ASSUME IInv, NEW id \in Ids, NEW doc \in Contents, RemoveFields(id, doc)
    PROVE  D!Reduce(id, doc.freq)
<1> DEFINE d == idToShortId[id]
<1> USE DEF IInv
<1>1. d \in ShortIds /\ d # NoShortId /\ RemoveTerms(d, doc) /\ idToShortId' = idToShortId
    BY DEF RemoveFields, TypeOK, tables
<1>2. \A i \in Ids \ {id} : idToShortId[i] # NoShortId =>
          idToShortId[i] # d /\ idToShortId[i] \in ShortIds
    BY <1>1 DEF TablesInv, TypeOK
<1>3. \A t \in Terms, f \in Fields, e \in ShortIds :
          /\ e # d => freq'[t][f][e] = freq[t][f][e]
          /\ freq'[t][f][d] = Monus(freq[t][f][d], doc.freq[t][f])
    BY <1>1, RemoveConsistent
<1>4. WordsAt(freq', d) = D!Less(WordsAt(freq, d), doc.freq)
    BY <1>1, <1>3 DEF WordsAt, D!Less, Monus
<1> HIDE DEF d
<1>5. ASSUME NEW i \in Ids
      PROVE  IndexedDocuments'[i] = IF i = id THEN D!Less(IndexedDocuments[i], doc.freq)
                                    ELSE IndexedDocuments[i]
    <2>1. CASE i = id
        BY <1>1, <1>4, <2>1, IndexedAt DEF d
    <2>2. CASE i # id /\ idToShortId[i] = NoShortId
        BY <1>1, <2>2, IndexedAt
    <2>3. CASE i # id /\ idToShortId[i] # NoShortId
        <3>1. WordsAt(freq', idToShortId[i]) = WordsAt(freq, idToShortId[i])
            <4>1. \A t \in Terms, f \in Fields :
                      freq'[t][f][idToShortId[i]] = freq[t][f][idToShortId[i]]
                BY <1>2, <1>3, <2>3
            <4> QED
                BY <4>1, SameWords
        <3> QED
            BY <1>1, <2>3, <3>1, IndexedAt
    <2> QED
        BY <2>1, <2>2, <2>3
<1>6. IndexedDocuments' =
          [IndexedDocuments EXCEPT ![id] = D!Less(IndexedDocuments[id], doc.freq)]
    <2>1. /\ IndexedDocuments' = [i \in Ids |-> IndexedDocuments'[i]]
          /\ IndexedDocuments = [i \in Ids |-> IndexedDocuments[i]]
        BY DEF IndexedDocuments
    <2> QED
        BY <1>5, <2>1
<1>7. IndexedDocuments[id] # NoDocument
    BY <1>1, IndexedAt DEF d
<1> QED
    BY <1>6, <1>7 DEF D!Reduce

LEMMA RefineDiscard ==
    ASSUME IInv, NEW gone \in SUBSET alive, NEW auto \in BOOLEAN, DiscardDocuments(gone, auto)
    PROVE  \E ids \in SUBSET Ids : D!Drop(ids)
<1> USE DEF IInv
<1>1. /\ AutoVacuumTerms(gone, auto) \in SUBSET Terms /\ alive \ gone \in SUBSET ShortIds
      /\ Retain(AutoVacuumTerms(gone, auto), alive \ gone)
    BY TypeDiscardDirt, LiveSetFinite DEF DiscardDocuments
<1>2. \A t \in Terms, f \in Fields : \A d \in alive \ gone : freq'[t][f][d] = freq[t][f][d]
    BY <1>1, RetainStep
<1>3. D!Drop({i \in Ids : idToShortId[i] \in gone})
    BY <1>2, Dropped DEF DiscardDocuments
<1> QED
    BY <1>3

LEMMA RefineCompact ==
    ASSUME IInv, Compact
    PROVE  UNCHANGED IndexedDocuments
<1> USE DEF IInv
<1>1. PICK old \in Renumbering :
        /\ idToShortId' = [i \in Ids |->
               IF idToShortId[i] = NoShortId THEN NoShortId
               ELSE CHOOSE n \in DOMAIN old : old[n] = idToShortId[i]]
        /\ freq' = [t \in Terms |-> [f \in Fields |-> [n \in ShortIds |->
               IF n < documentCount THEN freq[t][f][old[n]] ELSE 0]]]
    BY DEF Compact
<1>2. \A n \in 0 .. documentCount - 1 : n \in ShortIds /\ n < documentCount /\ n # NoShortId
    BY Basics, Renumbered DEF ShortIds
<1>3. ASSUME NEW i \in Ids
      PROVE  IndexedDocuments'[i] = IndexedDocuments[i]
    <2>1. CASE idToShortId[i] = NoShortId
        BY <1>1, <2>1, IndexedAt
    <2>2. CASE idToShortId[i] # NoShortId
        <3>1. idToShortId[i] \in alive
            BY <2>2 DEF TablesInv
        <3>2. PICK n \in 0 .. documentCount - 1 :
                  idToShortId'[i] = n /\ old[n] = idToShortId[i]
            BY <1>1, <2>2, <3>1, Renumbered
        <3>3. \A t \in Terms, f \in Fields : freq'[t][f][n] = freq[t][f][old[n]]
            BY <1>1, <1>2
        <3>4. WordsAt(freq', n) = WordsAt(freq, old[n])
            BY <3>3, SameWords
        <3> QED
            BY <1>2, <2>2, <3>2, <3>4, IndexedAt
    <2> QED
        BY <2>1, <2>2
<1>4. /\ IndexedDocuments' = [i \in Ids |-> IndexedDocuments'[i]]
      /\ IndexedDocuments = [i \in Ids |-> IndexedDocuments[i]]
    BY DEF IndexedDocuments
<1> QED
    BY <1>3, <1>4

\* Every operation is one of the map's, or leaves the map as it is.
LEMMA RefineStep == IInv /\ [Next]_vars => [D!Next]_IndexedDocuments
<1> SUFFICES ASSUME IInv, [Next]_vars PROVE D!Next \/ UNCHANGED IndexedDocuments
    OBVIOUS
<1> USE DEF IInv
<1>1. \A doc \in Contents : doc.freq \in {c.freq : c \in Contents}
    OBVIOUS
<1>2. CASE \E id \in Ids, doc \in Contents : Add(id, doc)
    BY <1>1, <1>2, RefineAdd DEF D!Next
<1>3. CASE \E id \in Ids, doc \in Contents : Remove(id, doc)
    BY <1>3, RefineRemove DEF D!Next
<1>4. CASE \E id \in Ids, doc \in Contents : RemoveFields(id, doc)
    BY <1>1, <1>4, RefineRemoveFields DEF D!Next
<1>5. CASE RemoveAllDocuments
    <2>1. IndexedDocuments' = [i \in Ids |-> IF i \in Ids THEN NoDocument ELSE IndexedDocuments[i]]
        <3>1. \A i \in Ids : IndexedDocuments'[i] = NoDocument
            BY <1>5, IndexedAt DEF RemoveAllDocuments, FreshTables, FreshPostings
        <3>2. IndexedDocuments' = [i \in Ids |-> IndexedDocuments'[i]]
            BY DEF IndexedDocuments
        <3> QED
            BY <3>1, <3>2
    <2> QED
        BY <2>1 DEF D!Next, D!Drop
<1>6. CASE \E gone \in SUBSET alive, auto \in BOOLEAN : Discard(gone, auto)
    BY <1>6, RefineDiscard DEF D!Next, Discard
<1>7. CASE \E id \in Ids, doc \in Contents, auto \in BOOLEAN : Replace(id, doc, auto)
    BY <1>1, <1>7, RefineReplace DEF D!Next
<1>8. CASE \E id \in Ids, auto \in BOOLEAN : ReplaceExhausted(id, auto)
    <2>1. PICK id \in Ids, auto \in BOOLEAN :
              idToShortId[id] # NoShortId /\ DiscardDocuments({idToShortId[id]}, auto)
        BY <1>8 DEF ReplaceExhausted
    <2>2. {idToShortId[id]} \in SUBSET alive
        BY <2>1 DEF TablesInv
    <2>3. \E ids \in SUBSET Ids : D!Drop(ids)
        BY <2>1, <2>2, RefineDiscard
    <2> QED
        BY <2>3 DEF D!Next
<1>9. CASE \E batch \in SUBSET Terms : VacuumStep(batch)
    <2>1. PICK batch \in SUBSET Terms : VacuumStep(batch)
        BY <1>9
    <2>2. Retain(batch, alive) /\ idToShortId' = idToShortId /\ alive \in SUBSET ShortIds
        BY <2>1, LiveSetFinite DEF VacuumStep, tables
    <2>3. \A t \in Terms, f \in Fields, d \in ShortIds :
              freq'[t][f][d] = IF t \in batch /\ d \notin alive THEN 0 ELSE freq[t][f][d]
        <3>1. TypeOK /\ PostingsInv
            OBVIOUS
        <3> QED
            BY <2>2, <3>1, RetainStep
    <2>4. \A t \in Terms, f \in Fields : \A d \in alive : freq'[t][f][d] = freq[t][f][d]
        BY <2>2, <2>3
    <2> QED
        BY <2>2, <2>4, Maintained
<1>10. CASE Compact
    BY <1>10, RefineCompact
<1>11. CASE \E terms \in SUBSET Terms \ {{}}, fields \in SUBSET Fields \ {{}},
                boosting \in BOOLEAN : SearchExact(terms, fields, boosting)
    <2>1. idToShortId' = idToShortId
        BY <1>11 DEF SearchExact, tables
    <2>2. \A t \in Terms, f \in Fields : \A d \in alive : freq'[t][f][d] = freq[t][f][d]
        BY <1>11, PostingsSearchExact, LiveSetFinite
    <2> QED
        BY <2>1, <2>2, Maintained
<1>12. CASE \/ \E id \in Ids : AddExhausted(id)
            \/ BeginVacuum
            \/ Reload
            \/ Search
            \/ UNCHANGED vars
    <2>1. UNCHANGED <<idToShortId, freq>>
        BY <1>12 DEF AddExhausted, BeginVacuum, Reload, Search, vars, tables, postings
    <2> QED
        BY <2>1, Maintained
<1> QED
    BY <1>2, <1>3, <1>4, <1>5, <1>6, <1>7, <1>8, <1>9, <1>10, <1>11, <1>12 DEF Next

\* The engine implements the map of documents: no vacuum, lazy cleanup,
\* compaction or reload changes what a live document was indexed with.
THEOREM Implements == Spec => ImplementsDocuments
<1>1. Init => D!Init
    BY DEF Init, D!Init, IndexedDocuments
<1> QED
    BY <1>1, RefineStep, Invariance, PTL DEF Spec, ImplementsDocuments, D!Spec
============================================================================
