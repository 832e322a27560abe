---------------------------- MODULE FacadeProofs ----------------------------
(***************************************************************************)
(* The inductive invariant of Facade and the theorems it gives, for any    *)
(* number of documents, fields and nested calls, and every batch size.     *)
(*                                                                         *)
(* They are about callbacks that add, read, and remove documents no call   *)
(* in progress is about.  Those that empty or compact the index, remove    *)
(* the very document or move the index to JavaScript do mislead it: the    *)
(* facade_transfer run shows one.                                          *)
(*                                                                         *)
(* What is pending and what the engine has are one line of documents: a    *)
(* flush leaves the line as it is, and the facade's tables number it.      *)
(***************************************************************************)
EXTENDS Facade, SelectionsProofs, FiniteSetTheorems, SequenceTheorems, TLAPS

\* The callbacks the theorems are about.
PlainCallbacks ==
    /\ CallbackCalls \subseteq {"add", "addAll", "remove", "discard", "read"}
    /\ AnyTarget = FALSE

----------------------------------------------------------------------------
(* Types.                                                                  *)

Row == [id : Ids \cup {NoId}, fields : SUBSET Fields]

PendingEntry == [id : Ids, fields : SUBSET Fields, open : BOOLEAN, depth : Nat]

PendingBatch == [first : Nat, entries : Seq(PendingEntry)]

Call == [op : {"add", "addInJS", "all", "remove", "removeInJS"},
         doc : Documents \cup {[id |-> NoId, unfit |-> 0]},
         shortId : Nat \cup {NoShortId},
         many : BOOLEAN, at : 0 .. FieldCount, current : BOOLEAN]

Copies == [Ids -> {NoDocument} \cup SUBSET Fields]

Tables == Seq(Ids \cup {NoId})

ShortIds == [Ids -> Nat \cup {NoShortId}]

----------------------------------------------------------------------------
(* The calls in progress.                                                  *)

\* Each is about a document of its own that upstream still works on, and
\* only the innermost has moved to JavaScript.
Calls(frames, m) ==
    /\ \A i \in 1 .. Len(frames) :
           /\ IF frames[i].op = "all" THEN frames[i].doc.id = NoId
              ELSE frames[i].doc \in Documents /\ frames[i].current
           /\ frames[i].many => i > 1 /\ frames[i - 1].op = "all"
           /\ IF m = "wasm" THEN frames[i].op \in {"add", "all", "remove"}
              ELSE /\ frames[i].op \in {"all", "addInJS", "removeInJS"}
                   /\ i < Len(frames) => frames[i].op = "all"
    /\ \A i, j \in 1 .. Len(frames) :
           frames[i].op # "all" /\ frames[i].doc.id = frames[j].doc.id => i = j

----------------------------------------------------------------------------
(* The line of documents.                                                  *)

\* The engine's rows r, and after them the batch p.
Line(r, p) ==
    [s \in 1 .. (Len(r) + Len(p.entries)) |->
        IF s <= Len(r) THEN r[s]
        ELSE [id |-> p.entries[s - Len(r)].id, fields |-> p.entries[s - Len(r)].fields]]

\* The tables number the line, and know a document by one number.
Numbered(table_, short, line) ==
    /\ Len(table_) = Len(line)
    /\ \A s \in 1 .. Len(line) : line[s].id = table_[s]
    /\ \A s \in 1 .. Len(line) : table_[s] # NoId => short[table_[s]] = s - 1
    /\ \A id \in Ids : short[id] # NoShortId =>
           short[id] + 1 \in 1 .. Len(line) /\ table_[short[id] + 1] = id

\* The open entries are those of the adds in progress; a document that is being
\* removed has reached the engine, of length n, under the number its call read.
Framed(frames, p, short, n) ==
    /\ \A k \in 1 .. Len(frames) :
           /\ frames[k].op = "add" =>
                  /\ short[frames[k].doc.id] # NoShortId
                  /\ \E e \in 1 .. Len(p.entries) :
                         /\ p.entries[e].open /\ p.entries[e].depth = k
                         /\ p.entries[e].id = frames[k].doc.id
           /\ frames[k].op = "remove" =>
                  /\ short[frames[k].doc.id] = frames[k].shortId
                  /\ frames[k].shortId \in 0 .. (n - 1)
    /\ \A e \in 1 .. Len(p.entries) : p.entries[e].open =>
           /\ p.entries[e].depth \in 1 .. Len(frames)
           /\ frames[p.entries[e].depth].op = "add"
           /\ frames[p.entries[e].depth].doc.id = p.entries[e].id

\* The fields that removals in progress have read of a document: upstream has
\* taken them out, and the engine will.
Taken(frames, id) ==
    {n \in Fields : \E k \in 1 .. Len(frames) :
        frames[k].op = "remove" /\ frames[k].doc.id = id /\ n <= frames[k].at}

Mirrored(line, short, frames, up) ==
    \A id \in Ids :
        up[id] = IF short[id] = NoShortId THEN NoDocument
                 ELSE line[short[id] + 1].fields \ Taken(frames, id)

\* The index before its transfer.
Native(table_, short, r, p, frames, up) ==
    /\ table_ \in Tables /\ short \in ShortIds /\ r \in Seq(Row) /\ p \in PendingBatch
    /\ frames \in Seq(Call) /\ Calls(frames, "wasm")
    /\ up \in Copies
    /\ p.entries # <<>> => p.first = Len(r)
    /\ Numbered(table_, short, Line(r, p))
    /\ Framed(frames, p, short, Len(r))
    /\ Mirrored(Line(r, p), short, frames, up)

\* The index after it.
Moved ==
    /\ ids \in Tables /\ shortIds \in ShortIds /\ rows \in Seq(Row) /\ pending \in PendingBatch
    /\ stack \in Seq(Call) /\ Calls(stack, "javascript")
    /\ pending.entries = <<>>
    /\ upstream \in Copies /\ js = upstream
    /\ \A k \in 1 .. Len(stack) : stack[k].op # "all" => js[stack[k].doc.id] # NoDocument

\* No add is in progress, which changes the tables before it moves the version.
Steady(frames) == \A k \in 1 .. Len(frames) : frames[k].op \notin {"add", "all"}

Versions ==
    /\ version \in Nat /\ table.version \in Int /\ table.version <= version
    /\ mode = "wasm" /\ table.version = version /\ Steady(stack) => table.ids = ids

\* A complete document only waits behind an open one, or for its batch.
Waiting(p, frames) == p.entries # <<>> => ~Steady(frames)

IInv ==
    /\ dirty \in BOOLEAN /\ js \in Copies /\ Versions
    /\ \/ /\ mode = "wasm"
          /\ Native(ids, shortIds, rows, pending, stack, upstream)
          /\ Waiting(pending, stack)
       \/ mode = "javascript" /\ Moved

----------------------------------------------------------------------------
(* Sequences.                                                              *)

LEMMA Shorter ==
    ASSUME NEW S, NEW seq \in Seq(S), seq # <<>>
    PROVE  /\ Front(seq) \in Seq(S) /\ Len(Front(seq)) = Len(seq) - 1
           /\ \A i \in 1 .. Len(Front(seq)) : Front(seq)[i] = seq[i]
           /\ Last(seq) = seq[Len(seq)] /\ Last(seq) \in S
           /\ Len(seq) \in Nat /\ Len(seq) >= 1
<1>1. Len(seq) \in Nat /\ Len(seq) >= 1 /\ \A i \in 1 .. Len(seq) : seq[i] \in S
    OBVIOUS
<1> DEFINE n == Len(seq) - 1
<1>2. n \in Nat /\ n >= 0
    BY <1>1
<1>3. Front(seq) = SubSeq(seq, 1, n)
    BY DEF Front
<1> HIDE DEF n
<1>4. \A i \in 1 .. n : seq[i] \in S
    BY <1>1, <1>2 DEF n
<1>5. /\ SubSeq(seq, 1, n) \in Seq(S)
      /\ Len(SubSeq(seq, 1, n)) = IF 1 <= n THEN n - 1 + 1 ELSE 0
      /\ \A i \in 1 .. (n - 1 + 1) : SubSeq(seq, 1, n)[i] = seq[1 + i - 1]
    BY <1>2, <1>4, SubSeqProperties
<1>6. Len(Front(seq)) = n
    BY <1>2, <1>3, <1>5
<1>7. \A i \in 1 .. n : Front(seq)[i] = seq[i]
    BY <1>2, <1>3, <1>5
<1>8. Last(seq) = seq[Len(seq)] /\ Last(seq) \in S
    BY <1>1 DEF Last
<1> QED
    BY <1>1, <1>3, <1>5, <1>6, <1>7, <1>8 DEF n

LEMMA Longer ==
    ASSUME NEW S, NEW seq \in Seq(S), NEW e \in S
    PROVE  /\ Append(seq, e) \in Seq(S) /\ Len(Append(seq, e)) = Len(seq) + 1
           /\ Append(seq, e) # <<>> /\ Len(seq) \in Nat
           /\ \A i \in 1 .. Len(seq) : Append(seq, e)[i] = seq[i]
           /\ Append(seq, e)[Len(seq) + 1] = e
BY AppendProperties

\* Resume replaces the innermost call.
LEMMA Resumed ==
    ASSUME NEW frames \in Seq(Call), frames # <<>>, NEW f \in Call
    PROVE  /\ Append(Front(frames), f) \in Seq(Call)
           /\ Append(Front(frames), f) # <<>>
           /\ Len(Append(Front(frames), f)) = Len(frames)
           /\ \A i \in 1 .. (Len(frames) - 1) : Append(Front(frames), f)[i] = frames[i]
           /\ Append(Front(frames), f)[Len(frames)] = f
<1> DEFINE front == Front(frames)
           new == Append(front, f)
<1>1. /\ front \in Seq(Call) /\ Len(front) = Len(frames) - 1 /\ Len(frames) \in Nat
      /\ \A i \in 1 .. Len(front) : front[i] = frames[i]
    BY Shorter
<1> HIDE DEF front
<1>2. /\ new \in Seq(Call) /\ Len(new) = Len(front) + 1 /\ new # <<>>
      /\ \A i \in 1 .. Len(front) : new[i] = front[i]
      /\ new[Len(front) + 1] = f
    BY <1>1, Longer
<1> HIDE DEF new
<1>3. Len(front) + 1 = Len(frames)
    BY <1>1
<1>4. \A i \in 1 .. (Len(frames) - 1) : new[i] = frames[i]
    BY <1>1, <1>2
<1> QED
    BY <1>2, <1>3, <1>4 DEF new, front

LEMMA Entries ==
    ASSUME NEW p \in PendingBatch
    PROVE  /\ p.entries \in Seq(PendingEntry) /\ Len(p.entries) \in Nat /\ p.first \in Nat
           /\ DOMAIN p.entries = 1 .. Len(p.entries)
           /\ \A e \in 1 .. Len(p.entries) :
                  /\ p.entries[e] \in PendingEntry /\ p.entries[e].id \in Ids
                  /\ p.entries[e].fields \in SUBSET Fields
                  /\ p.entries[e].open \in BOOLEAN /\ p.entries[e].depth \in Nat
<1>1. p.entries \in Seq(PendingEntry) /\ p.first \in Nat
    BY DEF PendingBatch
<1>2. /\ Len(p.entries) \in Nat /\ DOMAIN p.entries = 1 .. Len(p.entries)
      /\ \A e \in 1 .. Len(p.entries) : p.entries[e] \in PendingEntry
    BY <1>1
<1>3. \A e \in PendingEntry :
         /\ e.id \in Ids /\ e.fields \in SUBSET Fields
         /\ e.open \in BOOLEAN /\ e.depth \in Nat
    BY DEF PendingEntry
<1> QED
    BY <1>1, <1>2, <1>3

----------------------------------------------------------------------------
(* The line.                                                               *)

LEMMA LineFacts ==
    ASSUME NEW r \in Seq(Row), NEW p \in PendingBatch
    PROVE  /\ Line(r, p) \in Seq(Row)
           /\ Len(Line(r, p)) = Len(r) + Len(p.entries)
           /\ Len(r) \in Nat /\ Len(p.entries) \in Nat
           /\ \A s \in 1 .. Len(r) : Line(r, p)[s] = r[s]
           /\ \A e \in 1 .. Len(p.entries) :
                  /\ Len(r) + e \in 1 .. (Len(r) + Len(p.entries))
                  /\ Line(r, p)[Len(r) + e] =
                         [id |-> p.entries[e].id, fields |-> p.entries[e].fields]
<1> DEFINE n == Len(r)
           m == Len(p.entries)
           at(s) == IF s <= n THEN r[s]
                    ELSE [id |-> p.entries[s - n].id, fields |-> p.entries[s - n].fields]
<1>1. n \in Nat /\ m \in Nat /\ \A s \in 1 .. n : r[s] \in Row
    BY Entries
<1>2. Line(r, p) = [s \in 1 .. (n + m) |-> at(s)]
    BY DEF Line
<1>3. \A e \in 1 .. m : [id |-> p.entries[e].id, fields |-> p.entries[e].fields] \in Row
    BY Entries DEF Row
<1> HIDE DEF n, m
<1>4. \A s \in 1 .. (n + m) : s <= n => at(s) \in Row
    BY <1>1
<1>5. \A s \in 1 .. (n + m) : ~(s <= n) => at(s) \in Row
    <2>1. ASSUME NEW s \in 1 .. (n + m), ~(s <= n)
          PROVE  at(s) \in Row
        <3>1. s - n \in 1 .. m
            BY <1>1, <2>1
        <3> QED
            BY <1>3, <2>1, <3>1
    <2> QED
        BY <2>1
<1>6. \A e \in 1 .. m :
         /\ n + e \in 1 .. (n + m)
         /\ at(n + e) = [id |-> p.entries[e].id, fields |-> p.entries[e].fields]
    <2>1. ASSUME NEW e \in 1 .. m
          PROVE  /\ n + e \in 1 .. (n + m) /\ ~(n + e <= n) /\ (n + e) - n = e
        BY <1>1
    <2> QED
        BY <2>1
<1>7. \A s \in 1 .. n : s \in 1 .. (n + m) /\ at(s) = r[s]
    BY <1>1
<1> HIDE DEF at
<1>8. Line(r, p) \in Seq(Row) /\ Len(Line(r, p)) = n + m
    BY <1>1, <1>2, <1>4, <1>5
<1>9. \A s \in 1 .. (n + m) : Line(r, p)[s] = at(s)
    BY <1>2
<1> QED
    BY <1>1, <1>6, <1>7, <1>8, <1>9 DEF n, m

LEMMA LineParts ==
    ASSUME NEW r \in Seq(Row), NEW p \in PendingBatch
    PROVE  /\ Len(Line(r, p)) = Len(r) + Len(p.entries)
           /\ Len(r) \in Nat /\ Len(p.entries) \in Nat
           /\ \A s \in 1 .. Len(r) : Line(r, p)[s] = r[s]
           /\ \A e \in 1 .. Len(p.entries) :
                  /\ Line(r, p)[Len(r) + e].id = p.entries[e].id
                  /\ Line(r, p)[Len(r) + e].fields = p.entries[e].fields
<1>1. \A e \in 1 .. Len(p.entries) : Line(r, p)[Len(r) + e] =
          [id |-> p.entries[e].id, fields |-> p.entries[e].fields]
    BY LineFacts
<1>2. ASSUME NEW e \in 1 .. Len(p.entries)
      PROVE  /\ Line(r, p)[Len(r) + e].id = p.entries[e].id
             /\ Line(r, p)[Len(r) + e].fields = p.entries[e].fields
    <2> DEFINE here == Line(r, p)[Len(r) + e]
    <2>1. here = [id |-> p.entries[e].id, fields |-> p.entries[e].fields]
        BY <1>1
    <2> HIDE DEF here
    <2>2. here.id = p.entries[e].id /\ here.fields = p.entries[e].fields
        BY <2>1
    <2> QED
        BY <2>2 DEF here
<1>3. /\ Len(Line(r, p)) = Len(r) + Len(p.entries)
      /\ Len(r) \in Nat /\ Len(p.entries) \in Nat
      /\ \A s \in 1 .. Len(r) : Line(r, p)[s] = r[s]
    BY LineFacts
<1> HIDE DEF Line
<1> QED
    BY <1>2, <1>3

\* Two lines of one length whose documents agree are one.
LEMMA SameLine ==
    ASSUME NEW r \in Seq(Row), NEW p \in PendingBatch,
           NEW r2 \in Seq(Row), NEW p2 \in PendingBatch,
           Len(r) + Len(p.entries) = Len(r2) + Len(p2.entries),
           \A s \in 1 .. (Len(r) + Len(p.entries)) : Line(r, p)[s] = Line(r2, p2)[s]
    PROVE  Line(r, p) = Line(r2, p2)
<1>1. /\ Line(r, p) \in Seq(Row) /\ Line(r2, p2) \in Seq(Row)
      /\ Len(Line(r, p)) = Len(r) + Len(p.entries)
      /\ Len(Line(r2, p2)) = Len(r2) + Len(p2.entries)
    BY LineFacts
<1> HIDE DEF Line
<1> QED
    BY <1>1, SeqEqual

----------------------------------------------------------------------------
(* The flush.                                                              *)

\* The engine takes the complete entries ahead of the first open one.
FlushedWell(p) ==
    /\ Flushed(p).ok
    /\ Flushed(p).pending \in PendingBatch /\ Flushed(p).rows \in Seq(Row)
    /\ Line(Flushed(p).rows, Flushed(p).pending) = Line(rows, p)
    /\ Flushed(p).pending.entries # <<>> =>
           /\ Flushed(p).pending.first = Len(Flushed(p).rows)
           /\ Flushed(p).pending.entries[1].open
    /\ Len(rows) <= Len(Flushed(p).rows)
    /\ \A e \in 1 .. Len(p.entries) : p.entries[e].open =>
           \E k \in 1 .. Len(Flushed(p).pending.entries) :
               Flushed(p).pending.entries[k] = p.entries[e]
    /\ \A k \in 1 .. Len(Flushed(p).pending.entries) :
           \E e \in 1 .. Len(p.entries) : Flushed(p).pending.entries[k] = p.entries[e]

LEMMA Counted ==
    ASSUME NEW p \in PendingBatch
    PROVE  /\ Count(p.entries) \in Nat /\ Count(p.entries) <= Len(p.entries)
           /\ \A e \in 1 .. Len(p.entries) : p.entries[e].open => Count(p.entries) < e
           /\ Count(p.entries) < Len(p.entries) => p.entries[Count(p.entries) + 1].open
<1> DEFINE n == Len(p.entries)
           S == {k \in 1 .. n : \A i \in 1 .. k : ~p.entries[i].open}
           c == Cardinality(S)
<1>1. n \in Nat /\ S \in SUBSET (1 .. n)
    BY Entries
<1>2. Count(p.entries) = c
    BY Entries DEF Count
<1>3. \A k \in S : 1 .. k \subseteq S
    <2>1. ASSUME NEW k \in S, NEW j \in 1 .. k
          PROVE  j \in S
        <3>1. /\ k \in 1 .. n /\ k \in Nat /\ j \in Nat /\ 1 <= j /\ j <= k
              /\ \A i \in 1 .. k : ~p.entries[i].open
            BY <1>1
        <3>2. \A i \in 1 .. j : i \in 1 .. k
            BY <3>1
        <3>3. j \in 1 .. n
            BY <1>1, <3>1
        <3> QED
            BY <3>1, <3>2, <3>3
    <2> QED
        BY <2>1
<1>4. \A k \in S : ~p.entries[k].open
    BY <1>1
<1>5. \A k \in 1 .. n : (\A i \in 1 .. k : ~p.entries[i].open) => k \in S
    OBVIOUS
<1> HIDE DEF S, n
<1>6. /\ c \in Nat /\ c <= n
      /\ \A k \in 1 .. n : k \in S <=> k <= c
    BY <1>1, <1>3, Prefix
<1> HIDE DEF c
<1>7. \A e \in 1 .. n : p.entries[e].open => c < e
    <2>1. ASSUME NEW e \in 1 .. n, p.entries[e].open
          PROVE  c < e
        <3>1. e \notin S /\ e \in Nat
            BY <1>4, <2>1
        <3> QED
            BY <1>6, <3>1
    <2> QED
        BY <2>1
<1>8. ASSUME c < n, ~p.entries[c + 1].open
      PROVE  FALSE
    <2>1. c + 1 \in 1 .. n /\ c + 1 \notin S
        BY <1>1, <1>6, <1>8
    <2>2. ASSUME NEW i \in 1 .. (c + 1)
          PROVE  ~p.entries[i].open
        <3>1. CASE i = c + 1
            BY <1>8, <3>1
        <3>2. CASE i # c + 1
            <4>1. i \in 1 .. n /\ i <= c
                BY <1>1, <1>6, <1>8, <3>2
            <4>2. i \in S
                BY <1>6, <4>1
            <4> QED
                BY <1>4, <4>2
        <3> QED
            BY <3>1, <3>2
    <2> QED
        BY <1>5, <2>1, <2>2
<1> QED
    BY <1>2, <1>6, <1>7, <1>8 DEF n

LEMMA Flush ==
    ASSUME mode = "wasm", rows \in Seq(Row), NEW p \in PendingBatch,
           p.entries # <<>> => p.first = Len(rows)
    PROVE  FlushedWell(p)
<1> DEFINE c == Count(p.entries)
           n == Len(p.entries)
           sent == [i \in 1 .. c |-> [id |-> p.entries[i].id, fields |-> p.entries[i].fields]]
           left == SubSeq(p.entries, c + 1, n)
<1>1. /\ c \in Nat /\ n \in Nat /\ c <= n /\ p.first \in Nat
      /\ \A e \in 1 .. n : p.entries[e].open => c < e
      /\ c < n => p.entries[c + 1].open
      /\ \A e \in 1 .. n : p.entries[e] \in PendingEntry
    BY Counted, Entries
<1>2. Len(rows) \in Nat /\ \A s \in 1 .. Len(rows) : rows[s] \in Row
    OBVIOUS
<1>3. sent \in Seq(Row) /\ Len(sent) = c
    <2>1. \A i \in 1 .. c : [id |-> p.entries[i].id, fields |-> p.entries[i].fields] \in Row
        BY <1>1, Entries DEF Row
    <2> QED
        BY <1>1, <2>1
<1>4. \A i \in 1 .. c : sent[i] = [id |-> p.entries[i].id, fields |-> p.entries[i].fields]
    OBVIOUS
<1>5. /\ left \in Seq(PendingEntry) /\ Len(left) = n - c
      /\ \A k \in 1 .. (n - c) : left[k] = p.entries[c + k]
    <2>1. \A i \in (c + 1) .. n : p.entries[i] \in PendingEntry
        BY <1>1
    <2>2. c + 1 \in Int /\ n \in Int
        BY <1>1
    <2>3. /\ left \in Seq(PendingEntry)
          /\ Len(left) = IF c + 1 <= n THEN n - (c + 1) + 1 ELSE 0
          /\ \A k \in 1 .. (n - (c + 1) + 1) : left[k] = p.entries[(c + 1) + k - 1]
        BY <2>1, <2>2, SubSeqProperties
    <2> HIDE DEF left, c, n
    <2> QED
        BY <1>1, <2>3
<1> DEFINE next == Flushed(p).pending
           engine == Flushed(p).rows
<1>6. c # 0 => p.entries # <<>>
    BY <1>1
<1>7. /\ next = IF left = <<>> THEN NoPending ELSE [first |-> p.first + c, entries |-> left]
      /\ engine = IF p.first = Len(rows) THEN rows \o sent ELSE rows
      /\ Flushed(p).ok
    BY <1>6 DEF Flushed
<1> HIDE DEF left, sent, next, engine, c, n
<1>8. next.entries = left /\ next \in PendingBatch
    <2>1. CASE left = <<>>
        BY <1>5, <1>7, <2>1 DEF NoPending, PendingBatch
    <2>2. CASE left # <<>>
        BY <1>1, <1>5, <1>7, <2>2 DEF PendingBatch
    <2> QED
        BY <2>1, <2>2
<1>9. /\ engine \in Seq(Row) /\ Len(engine) = Len(rows) + c
      /\ \A s \in 1 .. (Len(rows) + c) :
             engine[s] = IF s <= Len(rows) THEN rows[s] ELSE sent[s - Len(rows)]
    <2>1. CASE p.first = Len(rows)
        <3>1. /\ rows \o sent \in Seq(Row) /\ Len(rows \o sent) = Len(rows) + Len(sent)
              /\ \A s \in 1 .. Len(rows) + Len(sent) : (rows \o sent)[s] =
                     IF s <= Len(rows) THEN rows[s] ELSE sent[s - Len(rows)]
            BY <1>3, ConcatProperties
        <3> QED
            BY <1>3, <1>7, <2>1, <3>1
    <2>2. CASE p.first # Len(rows)
        <3>1. c = 0 /\ engine = rows
            BY <1>6, <1>7, <2>2
        <3> QED
            BY <1>2, <3>1
    <2> QED
        BY <2>1, <2>2
<1>10. Line(engine, next) = Line(rows, p)
    <2>1. Len(engine) + Len(next.entries) = Len(rows) + Len(p.entries)
        <3>1. Len(next.entries) = n - c /\ Len(engine) = Len(rows) + c /\ Len(p.entries) = n
            BY <1>5, <1>8, <1>9 DEF n
        <3> QED
            BY <1>1, <1>2, <3>1
    <2>2. /\ \A s \in 1 .. Len(rows) : Line(rows, p)[s] = rows[s]
          /\ \A e \in 1 .. n : Line(rows, p)[Len(rows) + e] =
                 [id |-> p.entries[e].id, fields |-> p.entries[e].fields]
          /\ \A s \in 1 .. (Len(rows) + c) : Line(engine, next)[s] = engine[s]
          /\ \A k \in 1 .. (n - c) : Line(engine, next)[(Len(rows) + c) + k] =
                 [id |-> left[k].id, fields |-> left[k].fields]
        <3>1. /\ \A s \in 1 .. Len(rows) : Line(rows, p)[s] = rows[s]
              /\ \A e \in 1 .. Len(p.entries) : Line(rows, p)[Len(rows) + e] =
                     [id |-> p.entries[e].id, fields |-> p.entries[e].fields]
            BY LineFacts
        <3>2. /\ \A s \in 1 .. Len(engine) : Line(engine, next)[s] = engine[s]
              /\ \A e \in 1 .. Len(next.entries) : Line(engine, next)[Len(engine) + e] =
                     [id |-> next.entries[e].id, fields |-> next.entries[e].fields]
            BY <1>8, <1>9, LineFacts
        <3> HIDE DEF Line
        <3> QED
            BY <1>5, <1>8, <1>9, <3>1, <3>2 DEF n
    <2>3. ASSUME NEW s \in 1 .. (Len(rows) + Len(p.entries))
          PROVE  Line(engine, next)[s] = Line(rows, p)[s]
        <3>1. CASE s <= Len(rows)
            <4>1. s \in 1 .. Len(rows) /\ s \in 1 .. (Len(rows) + c)
                BY <1>1, <1>2, <3>1
            <4> QED
                BY <1>9, <2>2, <3>1, <4>1
        <3>2. CASE s > Len(rows) /\ s <= Len(rows) + c
            <4> DEFINE e == s - Len(rows)
            <4>1. /\ e \in 1 .. c /\ e \in 1 .. n /\ s = Len(rows) + e
                  /\ s \in 1 .. (Len(rows) + c) /\ ~(s <= Len(rows))
                BY <1>1, <1>2, <3>2
            <4> HIDE DEF e
            <4>2. Line(rows, p)[s] = [id |-> p.entries[e].id, fields |-> p.entries[e].fields]
                BY <2>2, <4>1
            <4>3. Line(engine, next)[s] = sent[e]
                BY <1>9, <2>2, <4>1 DEF e
            <4> QED
                BY <1>4, <4>1, <4>2, <4>3
        <3>3. CASE s > Len(rows) + c
            <4> DEFINE k == s - (Len(rows) + c)
            <4>1. /\ k \in 1 .. (n - c) /\ c + k \in 1 .. n /\ s = (Len(rows) + c) + k
                  /\ s = Len(rows) + (c + k)
                BY <1>1, <1>2, <3>3 DEF n
            <4> HIDE DEF k
            <4>2. Line(rows, p)[s] =
                      [id |-> p.entries[c + k].id, fields |-> p.entries[c + k].fields]
                BY <2>2, <4>1
            <4>3. Line(engine, next)[s] = [id |-> left[k].id, fields |-> left[k].fields]
                BY <2>2, <4>1
            <4> QED
                BY <1>5, <4>1, <4>2, <4>3
        <3> QED
            BY <1>1, <1>2, <3>1, <3>2, <3>3
    <2>4. \A s \in 1 .. (Len(engine) + Len(next.entries)) : Line(engine, next)[s] = Line(rows, p)[s]
        BY <2>1, <2>3
    <2> QED
        BY <1>8, <1>9, <2>1, <2>4, SameLine
<1>11. next.entries # <<>> => next.first = Len(engine) /\ next.entries[1].open
    <2> SUFFICES ASSUME left # <<>>
                 PROVE  next.first = Len(engine) /\ next.entries[1].open
        BY <1>8
    <2>1. c < n
        BY <1>1, <1>5
    <2>2. p.entries # <<>> /\ next.first = p.first + c
        BY <1>1, <1>7, <2>1 DEF n
    <2>3. left[1] = p.entries[c + 1]
        BY <1>1, <1>5, <2>1
    <2> QED
        BY <1>1, <1>8, <1>9, <2>1, <2>2, <2>3
<1>12. \A e \in 1 .. n : p.entries[e].open =>
           \E k \in 1 .. Len(next.entries) : next.entries[k] = p.entries[e]
    <2>1. ASSUME NEW e \in 1 .. n, p.entries[e].open
          PROVE  \E k \in 1 .. (n - c) : left[k] = p.entries[e]
        <3>1. e - c \in 1 .. (n - c) /\ c + (e - c) = e
            BY <1>1, <2>1
        <3> QED
            BY <1>5, <3>1
    <2> QED
        BY <1>5, <1>8, <2>1
<1>13. \A k \in 1 .. Len(next.entries) :
           \E e \in 1 .. n : next.entries[k] = p.entries[e]
    <2>1. ASSUME NEW k \in 1 .. (n - c)
          PROVE  \E e \in 1 .. n : left[k] = p.entries[e]
        <3>1. c + k \in 1 .. n
            BY <1>1
        <3> QED
            BY <1>5, <3>1
    <2> QED
        BY <1>5, <1>8, <2>1
<1>14. Len(rows) <= Len(engine)
    BY <1>1, <1>2, <1>9
<1> QED
    BY <1>7, <1>8, <1>9, <1>10, <1>11, <1>12, <1>13, <1>14 DEF FlushedWell, next, engine, n

\* A flush keeps the index and its numbering.
LEMMA FlushNative ==
    ASSUME mode = "wasm", NEW p, NEW ids_, NEW short, NEW frames, NEW up,
           Native(ids_, short, rows, p, frames, up)
    PROVE  /\ FlushedWell(p)
           /\ Native(ids_, short, Flushed(p).rows, Flushed(p).pending, frames, up)
<1> DEFINE next == Flushed(p).pending
           engine == Flushed(p).rows
<1>1. /\ ids_ \in Tables /\ short \in ShortIds /\ rows \in Seq(Row) /\ p \in PendingBatch
      /\ frames \in Seq(Call) /\ Calls(frames, "wasm") /\ up \in Copies
      /\ p.entries # <<>> => p.first = Len(rows)
      /\ Numbered(ids_, short, Line(rows, p))
      /\ Framed(frames, p, short, Len(rows))
      /\ Mirrored(Line(rows, p), short, frames, up)
    BY DEF Native
<1>2. FlushedWell(p)
    BY <1>1, Flush
<1>3. /\ next \in PendingBatch /\ engine \in Seq(Row)
      /\ Line(engine, next) = Line(rows, p)
      /\ next.entries # <<>> => next.first = Len(engine)
      /\ Len(rows) <= Len(engine) /\ Len(rows) \in Nat /\ Len(engine) \in Nat
      /\ \A e \in 1 .. Len(p.entries) : p.entries[e].open =>
             \E k \in 1 .. Len(next.entries) : next.entries[k] = p.entries[e]
      /\ \A k \in 1 .. Len(next.entries) :
             \E e \in 1 .. Len(p.entries) : next.entries[k] = p.entries[e]
    BY <1>1, <1>2 DEF FlushedWell
<1> HIDE DEF next, engine
<1>4. Framed(frames, next, short, Len(engine))
    <2>1. ASSUME NEW k \in 1 .. Len(frames), frames[k].op = "add"
          PROVE  /\ short[frames[k].doc.id] # NoShortId
                 /\ \E e \in 1 .. Len(next.entries) :
                        /\ next.entries[e].open /\ next.entries[e].depth = k
                        /\ next.entries[e].id = frames[k].doc.id
        <3>1. /\ short[frames[k].doc.id] # NoShortId
              /\ \E e \in 1 .. Len(p.entries) :
                     /\ p.entries[e].open /\ p.entries[e].depth = k
                     /\ p.entries[e].id = frames[k].doc.id
            BY <1>1, <2>1 DEF Framed
        <3>2. PICK e \in 1 .. Len(p.entries) :
                     /\ p.entries[e].open /\ p.entries[e].depth = k
                     /\ p.entries[e].id = frames[k].doc.id
            BY <3>1
        <3>3. PICK x \in 1 .. Len(next.entries) : next.entries[x] = p.entries[e]
            BY <1>3, <3>2
        <3> QED
            BY <3>1, <3>2, <3>3
    <2>2. ASSUME NEW k \in 1 .. Len(frames), frames[k].op = "remove"
          PROVE  /\ short[frames[k].doc.id] = frames[k].shortId
                 /\ frames[k].shortId \in 0 .. (Len(engine) - 1)
        <3>1. /\ short[frames[k].doc.id] = frames[k].shortId
              /\ frames[k].shortId \in 0 .. (Len(rows) - 1)
            BY <1>1, <2>2 DEF Framed
        <3> QED
            BY <1>3, <3>1
    <2>3. ASSUME NEW e \in 1 .. Len(next.entries), next.entries[e].open
          PROVE  /\ next.entries[e].depth \in 1 .. Len(frames)
                 /\ frames[next.entries[e].depth].op = "add"
                 /\ frames[next.entries[e].depth].doc.id = next.entries[e].id
        <3>1. PICK x \in 1 .. Len(p.entries) : next.entries[e] = p.entries[x]
            BY <1>3
        <3> QED
            BY <1>1, <2>3, <3>1 DEF Framed
    <2> QED
        BY <2>1, <2>2, <2>3 DEF Framed
<1>5. Native(ids_, short, engine, next, frames, up)
    BY <1>1, <1>3, <1>4 DEF Native
<1> QED
    BY <1>2, <1>5 DEF next, engine

----------------------------------------------------------------------------
(* The calls begin and end.                                                *)

LEMMA Frames ==
    ASSUME NEW frames \in Seq(Call), NEW m, Calls(frames, m)
    PROVE  /\ Len(frames) \in Nat
           /\ \A i \in 1 .. Len(frames) :
                  /\ i \in Nat /\ frames[i] \in Call
                  /\ frames[i].at \in 0 .. FieldCount
                  /\ frames[i].many \in BOOLEAN /\ frames[i].current \in BOOLEAN
                  /\ frames[i].op # "all" =>
                         /\ frames[i].doc \in Documents /\ frames[i].doc.id \in Ids
                         /\ frames[i].current
                  /\ frames[i].op = "all" => frames[i].doc.id = NoId
<1>1. /\ Len(frames) \in Nat
      /\ \A i \in 1 .. Len(frames) : i \in Nat /\ frames[i] \in Call
    OBVIOUS
<1>2. \A f \in Call : f.at \in 0 .. FieldCount /\ f.many \in BOOLEAN /\ f.current \in BOOLEAN
    BY DEF Call
<1>3. \A doc \in Documents : doc.id \in Ids
    BY DEF Documents
<1> QED
    BY <1>1, <1>2, <1>3 DEF Calls

\* The calls below the innermost one.
LEMMA CallsBelow ==
    ASSUME NEW frames \in Seq(Call), NEW m, Calls(frames, m), frames # <<>>
    PROVE  Calls(Front(frames), m)
<1>1. /\ Front(frames) \in Seq(Call) /\ Len(Front(frames)) = Len(frames) - 1
      /\ Len(frames) \in Nat /\ Len(frames) >= 1
      /\ \A i \in 1 .. Len(Front(frames)) : Front(frames)[i] = frames[i]
    BY Shorter
<1> DEFINE front == Front(frames)
<1> HIDE DEF front
<1>2. /\ Len(front) = Len(frames) - 1
      /\ \A i \in 1 .. Len(front) : front[i] = frames[i] /\ i \in 1 .. Len(frames) /\ i < Len(frames)
    BY <1>1 DEF front
<1>3. \A i \in 1 .. Len(front) : i > 1 => front[i - 1] = frames[i - 1]
    <2>1. \A i \in 1 .. Len(front) : i > 1 => i - 1 \in 1 .. Len(front)
        BY <1>1, <1>2
    <2> QED
        BY <1>2, <2>1
<1>4. \A i \in 1 .. Len(front) :
           /\ IF front[i].op = "all" THEN front[i].doc.id = NoId
              ELSE front[i].doc \in Documents /\ front[i].current
           /\ front[i].many => i > 1 /\ front[i - 1].op = "all"
           /\ IF m = "wasm" THEN front[i].op \in {"add", "all", "remove"}
              ELSE /\ front[i].op \in {"all", "addInJS", "removeInJS"}
                   /\ i < Len(front) => front[i].op = "all"
    BY <1>2, <1>3 DEF Calls
<1>5. \A i, j \in 1 .. Len(front) :
           front[i].op # "all" /\ front[i].doc.id = front[j].doc.id => i = j
    <2>1. \A i, j \in 1 .. Len(frames) :
           frames[i].op # "all" /\ frames[i].doc.id = frames[j].doc.id => i = j
        BY DEF Calls
    <2> QED
        BY <1>2, <2>1
<1>6. Calls(front, m)
    BY <1>4, <1>5 DEF Calls
<1> QED
    BY <1>6 DEF front

\* A call begins: addAll's, or one about a document no other is about.
LEMMA CallsPushed ==
    ASSUME NEW frames \in Seq(Call), Calls(frames, "wasm"),
           NEW f \in Call, f.op \in {"add", "all", "remove"},
           f.op = "all" => f.doc.id = NoId /\ ~f.many,
           f.op # "all" =>
               /\ f.doc \in Documents /\ f.current
               /\ \A k \in 1 .. Len(frames) : frames[k].doc.id # f.doc.id,
           f.many => Len(frames) > 0 /\ frames[Len(frames)].op = "all"
    PROVE  Calls(Append(frames, f), "wasm")
<1> DEFINE new == Append(frames, f)
<1>1. /\ Len(new) = Len(frames) + 1 /\ Len(frames) \in Nat
      /\ \A i \in 1 .. Len(frames) : new[i] = frames[i]
      /\ new[Len(frames) + 1] = f
    BY Longer
<1> HIDE DEF new
<1>2. \A i \in 1 .. Len(new) : i \in Nat /\ (i \in 1 .. Len(frames) \/ i = Len(frames) + 1)
    BY <1>1
<1>3. \A i \in 1 .. Len(frames) : i > 1 => new[i - 1] = frames[i - 1]
    <2>1. \A i \in 1 .. Len(frames) : i > 1 => i - 1 \in 1 .. Len(frames)
        BY <1>1
    <2> QED
        BY <1>1, <2>1
<1>4. \A i \in 1 .. Len(frames) :
           /\ IF new[i].op = "all" THEN new[i].doc.id = NoId
              ELSE new[i].doc \in Documents /\ new[i].current
           /\ new[i].many => i > 1 /\ new[i - 1].op = "all"
           /\ new[i].op \in {"add", "all", "remove"}
    BY <1>1, <1>3 DEF Calls
<1>5. /\ IF f.op = "all" THEN f.doc.id = NoId ELSE f.doc \in Documents /\ f.current
      /\ f.many => Len(frames) + 1 > 1 /\ new[Len(frames)].op = "all"
    <2>1. Len(frames) > 0 => Len(frames) \in 1 .. Len(frames)
        BY <1>1
    <2> QED
        BY <1>1, <2>1
<1>6. \A i, j \in 1 .. Len(new) :
           new[i].op # "all" /\ new[i].doc.id = new[j].doc.id => i = j
    <2>1. \A i, j \in 1 .. Len(frames) :
           new[i].op # "all" /\ new[i].doc.id = new[j].doc.id => i = j
        BY <1>1 DEF Calls
    <2>2. \A i \in 1 .. Len(frames) : f.op # "all" => new[i].doc.id # f.doc.id
        BY <1>1
    <2>3. \A i \in 1 .. Len(frames) : new[i].op # "all" => new[i].doc.id \in Ids
        BY <1>1, Frames
    <2>4. f.op = "all" => f.doc.id \notin Ids
        BY FacadeAssumption
    <2> QED
        BY <1>1, <1>2, <2>1, <2>2, <2>3, <2>4
<1>7. \A i \in 1 .. Len(new) :
           /\ IF new[i].op = "all" THEN new[i].doc.id = NoId
              ELSE new[i].doc \in Documents /\ new[i].current
           /\ new[i].many => i > 1 /\ new[i - 1].op = "all"
           /\ new[i].op \in {"add", "all", "remove"}
    <2>1. Len(frames) + 1 - 1 = Len(frames)
        BY <1>1
    <2> QED
        BY <1>1, <1>2, <1>4, <1>5, <2>1
<1>8. Calls(new, "wasm")
    BY <1>6, <1>7 DEF Calls
<1> QED
    BY <1>8 DEF new

\* The innermost call goes on with the same document.
LEMMA CallsResumed ==
    ASSUME NEW frames \in Seq(Call), NEW m, Calls(frames, m), frames # <<>>,
           NEW f \in Call, f.op = Last(frames).op, f.doc = Last(frames).doc,
           f.many = Last(frames).many, f.current = Last(frames).current
    PROVE  Calls(Append(Front(frames), f), m)
<1> DEFINE new == Append(Front(frames), f)
           n == Len(frames)
<1>1. /\ new \in Seq(Call) /\ Len(new) = n
      /\ \A i \in 1 .. (n - 1) : new[i] = frames[i]
      /\ new[n] = f /\ n \in Nat /\ n >= 1 /\ Last(frames) = frames[n]
    BY Resumed, Shorter
<1> HIDE DEF new
<1>2. \A i \in 1 .. n :
         /\ new[i].op = frames[i].op /\ new[i].doc = frames[i].doc
         /\ new[i].many = frames[i].many /\ new[i].current = frames[i].current
    <2>1. \A i \in 1 .. n : i \in 1 .. (n - 1) \/ i = n
        BY <1>1
    <2> QED
        BY <1>1, <2>1
<1>3. \A i \in 1 .. n : i > 1 => i - 1 \in 1 .. n
    BY <1>1
<1> HIDE DEF n
<1>4. Calls(new, m)
    <2>1. Calls(frames, m) /\ Len(frames) = n
        BY DEF n
    <2>2. \A i \in 1 .. n : new[i].many => i > 1 /\ new[i - 1].op = "all"
        BY <1>2, <1>3, <2>1 DEF Calls
    <2>3. \A i, j \in 1 .. n :
           new[i].op # "all" /\ new[i].doc.id = new[j].doc.id => i = j
        BY <1>2, <2>1 DEF Calls
    <2>4. \A i \in 1 .. n :
           /\ IF new[i].op = "all" THEN new[i].doc.id = NoId
              ELSE new[i].doc \in Documents /\ new[i].current
           /\ IF m = "wasm" THEN new[i].op \in {"add", "all", "remove"}
              ELSE /\ new[i].op \in {"all", "addInJS", "removeInJS"}
                   /\ i < n => new[i].op = "all"
        BY <1>2, <2>1 DEF Calls
    <2> QED
        BY <1>1, <2>2, <2>3, <2>4 DEF Calls
<1> QED
    BY <1>4 DEF new

----------------------------------------------------------------------------
(* What removals in progress have taken out.                               *)

LEMMA TakenNothing ==
    ASSUME NEW frames, NEW id,
           \A k \in 1 .. Len(frames) : frames[k].op = "remove" => frames[k].doc.id # id
    PROVE  Taken(frames, id) = {}
BY DEF Taken

LEMMA TakenSoFar ==
    ASSUME NEW frames \in Seq(Call), NEW m, Calls(frames, m),
           NEW k \in 1 .. Len(frames), frames[k].op = "remove"
    PROVE  Taken(frames, frames[k].doc.id) = 1 .. frames[k].at
<1>1. \A i \in 1 .. Len(frames) :
         frames[i].op = "remove" /\ frames[i].doc.id = frames[k].doc.id => i = k
    BY DEF Calls
<1>2. frames[k].at \in 0 .. FieldCount /\ FieldCount \in Nat
    BY Frames, FacadeAssumption
<1>3. \A n \in Fields : n \in Taken(frames, frames[k].doc.id) <=> n <= frames[k].at
    BY <1>1 DEF Taken
<1>4. \A n \in Taken(frames, frames[k].doc.id) : n \in Fields
    BY DEF Taken
<1>5. \A n \in 1 .. frames[k].at : n \in Fields
    BY <1>2 DEF Fields
<1>6. \A n \in Fields : n <= frames[k].at => n \in 1 .. frames[k].at
    BY <1>2 DEF Fields
<1>7. \A n \in 1 .. frames[k].at : n <= frames[k].at
    BY <1>2
<1> QED
    BY <1>3, <1>4, <1>5, <1>6, <1>7

\* Frames that differ only in those that are no removals, or of other documents.
LEMMA TakenSame ==
    ASSUME NEW frames, NEW later, NEW id,
           \A k \in 1 .. Len(frames) : frames[k].op = "remove" /\ frames[k].doc.id = id =>
               \E l \in 1 .. Len(later) :
                   /\ later[l].op = "remove" /\ later[l].doc.id = id
                   /\ later[l].at = frames[k].at,
           \A l \in 1 .. Len(later) : later[l].op = "remove" /\ later[l].doc.id = id =>
               later[l].at = 0 \/
               \E k \in 1 .. Len(frames) :
                   /\ frames[k].op = "remove" /\ frames[k].doc.id = id
                   /\ later[l].at = frames[k].at
    PROVE  Taken(frames, id) = Taken(later, id)
<1>1. \A n \in Fields : ~(n <= 0)
    BY FacadeAssumption DEF Fields
<1>2. ASSUME NEW n \in Taken(frames, id)
      PROVE  n \in Taken(later, id)
    BY DEF Taken
<1>3. ASSUME NEW n \in Taken(later, id)
      PROVE  n \in Taken(frames, id)
    BY <1>1 DEF Taken
<1> QED
    BY <1>2, <1>3

LEMMA TakenBelow ==
    ASSUME NEW frames \in Seq(Call), frames # <<>>, NEW id,
           Last(frames).op = "remove" => Last(frames).doc.id # id
    PROVE  Taken(frames, id) = Taken(Front(frames), id)
<1>1. /\ Len(Front(frames)) = Len(frames) - 1 /\ Len(frames) \in Nat
      /\ \A i \in 1 .. Len(Front(frames)) : Front(frames)[i] = frames[i]
      /\ Last(frames) = frames[Len(frames)]
    BY Shorter
<1> DEFINE front == Front(frames)
<1> HIDE DEF front
<1>2. \A k \in 1 .. Len(frames) : k \in 1 .. Len(front) \/ k = Len(frames)
    BY <1>1 DEF front
<1>3. \A k \in 1 .. Len(front) : k \in 1 .. Len(frames) /\ front[k] = frames[k]
    BY <1>1 DEF front
<1>4. \A k \in 1 .. Len(frames) : frames[k].op = "remove" /\ frames[k].doc.id = id =>
          k \in 1 .. Len(front)
    BY <1>1, <1>2
<1>5. Taken(frames, id) = Taken(front, id)
    BY <1>3, <1>4, TakenSame
<1> QED
    BY <1>5 DEF front

LEMMA TakenPushed ==
    ASSUME NEW frames \in Seq(Call), NEW f \in Call, f.op = "remove" => f.at = 0, NEW id
    PROVE  Taken(frames, id) = Taken(Append(frames, f), id)
<1>1. /\ Len(Append(frames, f)) = Len(frames) + 1 /\ Len(frames) \in Nat
      /\ \A i \in 1 .. Len(frames) : Append(frames, f)[i] = frames[i]
      /\ Append(frames, f)[Len(frames) + 1] = f
    BY Longer
<1> DEFINE new == Append(frames, f)
<1> HIDE DEF new
<1>2. \A k \in 1 .. Len(new) : k \in 1 .. Len(frames) \/ k = Len(frames) + 1
    BY <1>1 DEF new
<1>3. \A k \in 1 .. Len(frames) : k \in 1 .. Len(new) /\ new[k] = frames[k]
    BY <1>1 DEF new
<1>4. new[Len(frames) + 1] = f
    BY <1>1 DEF new
<1>5. Taken(frames, id) = Taken(new, id)
    BY <1>2, <1>3, <1>4, TakenSame
<1> QED
    BY <1>5 DEF new

\* The innermost call goes on: only a removal takes out more.
LEMMA TakenResumed ==
    ASSUME NEW frames \in Seq(Call), frames # <<>>, NEW f \in Call, NEW id,
           Last(frames).op = "remove" => Last(frames).doc.id # id,
           f.op = "remove" => f.doc.id # id
    PROVE  Taken(frames, id) = Taken(Append(Front(frames), f), id)
<1>1. Front(frames) \in Seq(Call)
    BY Shorter
<1>2. Taken(frames, id) = Taken(Front(frames), id)
    BY TakenBelow
<1> DEFINE new == Append(Front(frames), f)
<1>3. /\ new \in Seq(Call) /\ new # <<>>
      /\ Last(new) = f /\ Front(new) = Front(frames)
    <2>1. /\ new \in Seq(Call) /\ new # <<>> /\ Len(new) = Len(frames)
          /\ \A i \in 1 .. (Len(frames) - 1) : new[i] = frames[i]
          /\ new[Len(frames)] = f
        BY Resumed
    <2> HIDE DEF new
    <2>2. /\ Front(new) \in Seq(Call) /\ Len(Front(new)) = Len(new) - 1 /\ Len(new) \in Nat
          /\ \A i \in 1 .. Len(Front(new)) : Front(new)[i] = new[i]
          /\ Last(new) = new[Len(new)]
        BY <2>1, Shorter
    <2>3. /\ Len(Front(frames)) = Len(frames) - 1 /\ Len(frames) \in Nat
          /\ \A i \in 1 .. Len(Front(frames)) : Front(frames)[i] = frames[i]
        BY Shorter
    <2>4. \A i \in 1 .. Len(Front(new)) : Front(new)[i] = Front(frames)[i]
        BY <2>1, <2>2, <2>3
    <2>5. Len(Front(new)) = Len(Front(frames))
        BY <2>1, <2>2, <2>3
    <2>6. Front(new) = Front(frames)
        BY <1>1, <2>2, <2>4, <2>5, SeqEqual
    <2> QED
        BY <2>1, <2>2, <2>6
<1> HIDE DEF new
<1>4. Taken(new, id) = Taken(Front(new), id)
    BY <1>3, TakenBelow
<1>5. Taken(frames, id) = Taken(new, id)
    BY <1>2, <1>3, <1>4
<1> QED
    BY <1>5 DEF new

----------------------------------------------------------------------------
(* The calls and what is pending.                                          *)

LEMMA FramedBelow ==
    ASSUME NEW frames \in Seq(Call), frames # <<>>, Last(frames).op # "add",
           NEW p, NEW short, NEW n, Framed(frames, p, short, n)
    PROVE  Framed(Front(frames), p, short, n)
<1>1. /\ Len(Front(frames)) = Len(frames) - 1 /\ Len(frames) \in Nat
      /\ \A i \in 1 .. Len(Front(frames)) : Front(frames)[i] = frames[i]
      /\ Last(frames) = frames[Len(frames)]
    BY Shorter
<1> DEFINE front == Front(frames)
<1> HIDE DEF front
<1>2. \A k \in 1 .. Len(front) : k \in 1 .. Len(frames) /\ front[k] = frames[k]
    BY <1>1 DEF front
<1>3. \A k \in 1 .. Len(frames) : frames[k].op = "add" => k \in 1 .. Len(front)
    BY <1>1 DEF front
<1>4. Framed(front, p, short, n)
    BY <1>2, <1>3, SMTT(30) DEF Framed
<1> QED
    BY <1>4 DEF front

LEMMA FramedPushed ==
    ASSUME NEW frames \in Seq(Call), NEW f \in Call,
           NEW p, NEW short, NEW n, Framed(frames, p, short, n),
           f.op # "add",
           f.op = "remove" => short[f.doc.id] = f.shortId /\ f.shortId \in 0 .. (n - 1)
    PROVE  Framed(Append(frames, f), p, short, n)
<1>1. /\ Len(Append(frames, f)) = Len(frames) + 1 /\ Len(frames) \in Nat
      /\ \A i \in 1 .. Len(frames) : Append(frames, f)[i] = frames[i]
      /\ Append(frames, f)[Len(frames) + 1] = f
    BY Longer
<1> DEFINE new == Append(frames, f)
<1> HIDE DEF new
<1>2. \A k \in 1 .. Len(new) : k \in 1 .. Len(frames) \/ new[k] = f
    BY <1>1 DEF new
<1>3. \A k \in 1 .. Len(frames) : k \in 1 .. Len(new) /\ new[k] = frames[k]
    BY <1>1 DEF new
<1>4. Framed(new, p, short, n)
    BY <1>2, <1>3, SMTT(30) DEF Framed
<1> QED
    BY <1>4 DEF new

LEMMA FramedResumed ==
    ASSUME NEW frames \in Seq(Call), frames # <<>>, NEW f \in Call,
           f.op = Last(frames).op, f.doc = Last(frames).doc,
           f.shortId = Last(frames).shortId,
           NEW p, NEW short, NEW n, Framed(frames, p, short, n)
    PROVE  Framed(Append(Front(frames), f), p, short, n)
<1> DEFINE new == Append(Front(frames), f)
<1>1. /\ Len(new) = Len(frames) /\ Len(frames) \in Nat
      /\ \A i \in 1 .. (Len(frames) - 1) : new[i] = frames[i]
      /\ new[Len(frames)] = f /\ Last(frames) = frames[Len(frames)]
    BY Resumed, Shorter
<1> HIDE DEF new
<1>2. \A k \in 1 .. Len(frames) :
         /\ new[k].op = frames[k].op /\ new[k].doc = frames[k].doc
         /\ new[k].shortId = frames[k].shortId
    <2>1. \A k \in 1 .. Len(frames) : k \in 1 .. (Len(frames) - 1) \/ k = Len(frames)
        BY <1>1
    <2> QED
        BY <1>1, <2>1
<1>3. ASSUME NEW k \in 1 .. Len(frames)
      PROVE  /\ new[k].op = "add" =>
                    /\ short[new[k].doc.id] # NoShortId
                    /\ \E e \in 1 .. Len(p.entries) :
                           /\ p.entries[e].open /\ p.entries[e].depth = k
                           /\ p.entries[e].id = new[k].doc.id
             /\ new[k].op = "remove" =>
                    /\ short[new[k].doc.id] = new[k].shortId
                    /\ new[k].shortId \in 0 .. (n - 1)
    <2>1. /\ new[k].op = frames[k].op /\ new[k].doc = frames[k].doc
          /\ new[k].shortId = frames[k].shortId
        BY <1>2
    <2>2. /\ frames[k].op = "add" =>
                    /\ short[frames[k].doc.id] # NoShortId
                    /\ \E e \in 1 .. Len(p.entries) :
                           /\ p.entries[e].open /\ p.entries[e].depth = k
                           /\ p.entries[e].id = frames[k].doc.id
          /\ frames[k].op = "remove" =>
                    /\ short[frames[k].doc.id] = frames[k].shortId
                    /\ frames[k].shortId \in 0 .. (n - 1)
        BY DEF Framed
    <2> QED
        BY <2>1, <2>2, Zenon
<1>4. ASSUME NEW e \in 1 .. Len(p.entries), p.entries[e].open
      PROVE  /\ p.entries[e].depth \in 1 .. Len(frames)
             /\ new[p.entries[e].depth].op = "add"
             /\ new[p.entries[e].depth].doc.id = p.entries[e].id
    <2>1. /\ p.entries[e].depth \in 1 .. Len(frames)
          /\ frames[p.entries[e].depth].op = "add"
          /\ frames[p.entries[e].depth].doc.id = p.entries[e].id
        BY <1>4 DEF Framed
    <2> QED
        BY <1>2, <2>1
<1>5. Framed(new, p, short, n)
    BY <1>1, <1>3, <1>4 DEF Framed
<1> QED
    BY <1>5 DEF new

----------------------------------------------------------------------------
(* The index, as calls begin, go on and end.                               *)

LEMMA NativeParts ==
    ASSUME NEW ids_, NEW short, NEW r, NEW p, NEW frames, NEW up,
           Native(ids_, short, r, p, frames, up)
    PROVE  /\ ids_ \in Tables /\ short \in ShortIds /\ r \in Seq(Row) /\ p \in PendingBatch
           /\ frames \in Seq(Call) /\ Calls(frames, "wasm") /\ up \in Copies
           /\ p.entries # <<>> => p.first = Len(r)
           /\ Numbered(ids_, short, Line(r, p))
           /\ Framed(frames, p, short, Len(r))
           /\ Mirrored(Line(r, p), short, frames, up)
BY DEF Native

LEMMA AllBelow ==
    ASSUME NEW ids_, NEW short, NEW r, NEW p, NEW frames, NEW up,
           Native(ids_, short, r, p, frames, up),
           frames # <<>>, Last(frames).op = "all"
    PROVE  Native(ids_, short, r, p, Front(frames), up)
<1>1. /\ ids_ \in Tables /\ short \in ShortIds /\ r \in Seq(Row) /\ p \in PendingBatch
      /\ frames \in Seq(Call) /\ Calls(frames, "wasm") /\ up \in Copies
      /\ p.entries # <<>> => p.first = Len(r)
      /\ Numbered(ids_, short, Line(r, p))
      /\ Framed(frames, p, short, Len(r))
      /\ Mirrored(Line(r, p), short, frames, up)
    BY NativeParts
<1>2. Front(frames) \in Seq(Call)
    BY <1>1, Shorter
<1>3. Calls(Front(frames), "wasm")
    BY <1>1, CallsBelow
<1>4. Framed(Front(frames), p, short, Len(r))
    BY <1>1, FramedBelow
<1>5. \A id \in Ids : Taken(frames, id) = Taken(Front(frames), id)
    BY <1>1, TakenBelow
<1>6. Mirrored(Line(r, p), short, Front(frames), up)
    BY <1>1, <1>5 DEF Mirrored
<1> QED
    BY <1>1, <1>2, <1>3, <1>4, <1>6 DEF Native

\* addAll begins, or a removal of a document that the engine has.
LEMMA CallBegins ==
    ASSUME NEW ids_, NEW short, NEW r, NEW p, NEW frames, NEW up,
           Native(ids_, short, r, p, frames, up),
           NEW f \in Call, f.op \in {"all", "remove"}, ~f.many, f.at = 0,
           f.op = "all" => f.doc.id = NoId,
           f.op = "remove" =>
               /\ f.doc \in Documents /\ f.current
               /\ \A k \in 1 .. Len(frames) : frames[k].doc.id # f.doc.id
               /\ short[f.doc.id] = f.shortId /\ f.shortId \in 0 .. (Len(r) - 1)
    PROVE  Native(ids_, short, r, p, Append(frames, f), up)
<1>1. /\ ids_ \in Tables /\ short \in ShortIds /\ r \in Seq(Row) /\ p \in PendingBatch
      /\ frames \in Seq(Call) /\ Calls(frames, "wasm") /\ up \in Copies
      /\ p.entries # <<>> => p.first = Len(r)
      /\ Numbered(ids_, short, Line(r, p))
      /\ Framed(frames, p, short, Len(r))
      /\ Mirrored(Line(r, p), short, frames, up)
    BY NativeParts
<1>2. Append(frames, f) \in Seq(Call)
    BY <1>1
<1>3. Calls(Append(frames, f), "wasm")
    BY <1>1, CallsPushed
<1>4. Framed(Append(frames, f), p, short, Len(r))
    BY <1>1, FramedPushed
<1>5. \A id \in Ids : Taken(frames, id) = Taken(Append(frames, f), id)
    BY <1>1, TakenPushed
<1>6. Mirrored(Line(r, p), short, Append(frames, f), up)
    BY <1>1, <1>5 DEF Mirrored
<1> QED
    BY <1>1, <1>2, <1>3, <1>4, <1>6 DEF Native

\* Where an entry is in the line, and what the tables say of its document.
LineNumbers(short, r, p) ==
    /\ Len(r) \in Nat /\ Len(p.entries) \in Nat
    /\ \A e \in 1 .. Len(p.entries) :
           short[p.entries[e].id] = Len(r) + e - 1
    /\ \A id \in Ids : short[id] # NoShortId =>
           /\ short[id] \in Nat
           /\ short[id] + 1 \in 1 .. (Len(r) + Len(p.entries))
           /\ Line(r, p)[short[id] + 1].id = id
    /\ \A id \in Ids : short[id] # NoShortId /\ short[id] + 1 <= Len(r) =>
           Line(r, p)[short[id] + 1] = r[short[id] + 1]
    /\ \A id \in Ids : short[id] # NoShortId /\ ~(short[id] + 1 <= Len(r)) =>
           \E e \in 1 .. Len(p.entries) :
               /\ p.entries[e].id = id /\ short[id] = Len(r) + e - 1

LEMMA PendingNumbers ==
    ASSUME NEW ids_, NEW short, NEW r, NEW p, NEW frames, NEW up,
           Native(ids_, short, r, p, frames, up)
    PROVE  LineNumbers(short, r, p)
<1>1. /\ short \in ShortIds /\ r \in Seq(Row) /\ p \in PendingBatch
      /\ Numbered(ids_, short, Line(r, p))
    BY NativeParts
<1> DEFINE n == Len(r)
           m == Len(p.entries)
           line == Line(r, p)
<1>2. /\ Len(line) = n + m /\ n \in Nat /\ m \in Nat
      /\ \A s \in 1 .. n : line[s] = r[s]
      /\ \A e \in 1 .. m : line[n + e].id = p.entries[e].id
    BY <1>1, LineParts
<1>3. \A e \in 1 .. m : p.entries[e].id \in Ids /\ e \in Nat
    BY <1>1, Entries
<1>4. \A id \in Ids : short[id] # NoShortId => short[id] \in Nat
    BY <1>1 DEF ShortIds
<1> HIDE DEF n, m, line
<1>5. /\ \A s \in 1 .. (n + m) : line[s].id = ids_[s]
      /\ \A s \in 1 .. (n + m) : ids_[s] # NoId => short[ids_[s]] = s - 1
      /\ \A id \in Ids : short[id] # NoShortId =>
             short[id] + 1 \in 1 .. (n + m) /\ ids_[short[id] + 1] = id
    BY <1>1, <1>2 DEF Numbered, line
<1>6. ASSUME NEW e \in 1 .. m
      PROVE  short[p.entries[e].id] = n + e - 1
    <2> DEFINE s == n + e
    <2>1. s \in 1 .. (n + m) /\ line[s].id = p.entries[e].id
        BY <1>2
    <2>2. p.entries[e].id # NoId
        BY <1>3, FacadeAssumption
    <2> HIDE DEF s
    <2>3. short[p.entries[e].id] = s - 1
        BY <1>5, <2>1, <2>2
    <2> QED
        BY <1>2, <2>3 DEF s
<1>7. ASSUME NEW id \in Ids, short[id] # NoShortId
      PROVE  line[short[id] + 1].id = id
    BY <1>5, <1>7
<1>8. ASSUME NEW id \in Ids, short[id] # NoShortId, short[id] + 1 <= n
      PROVE  line[short[id] + 1] = r[short[id] + 1]
    BY <1>2, <1>4, <1>8
<1>9. ASSUME NEW id \in Ids, short[id] # NoShortId, ~(short[id] + 1 <= n)
      PROVE  \E e \in 1 .. m : p.entries[e].id = id /\ short[id] = n + e - 1
    <2> DEFINE e == short[id] + 1 - n
    <2>1. short[id] \in Nat /\ short[id] + 1 \in 1 .. (n + m)
        BY <1>4, <1>5, <1>9
    <2>2. e \in 1 .. m /\ n + e = short[id] + 1 /\ short[id] = n + e - 1
        BY <1>2, <1>9, <2>1
    <2> HIDE DEF e
    <2>3. line[n + e].id = p.entries[e].id
        BY <1>2, <2>2
    <2>4. line[short[id] + 1].id = id
        BY <1>7, <1>9
    <2>5. p.entries[e].id = id
        BY <2>2, <2>3, <2>4
    <2> QED
        BY <2>2, <2>5
<1> QED
    BY <1>2, <1>4, <1>5, <1>6, <1>7, <1>8, <1>9 DEF LineNumbers, n, m, line

\* An add begins: its document is the last of the line.
LEMMA AddBegins ==
    ASSUME NEW ids_, NEW short, NEW r, NEW p, NEW frames, NEW up,
           Native(ids_, short, r, p, frames, up),
           NEW doc \in Documents, short[doc.id] = NoShortId, NEW many \in BOOLEAN,
           many => Len(frames) > 0 /\ frames[Len(frames)].op = "all",
           NEW next, next \in PendingBatch,
           next.first = IF p.entries = <<>> THEN Len(ids_) ELSE p.first,
           next.entries = Append(p.entries,
                                 [id |-> doc.id, fields |-> {}, open |-> TRUE,
                                  depth |-> Len(frames) + 1])
    PROVE  Native(Append(ids_, doc.id), [short EXCEPT ![doc.id] = Len(ids_)], r, next,
                  Append(frames, Frame("add", doc, Len(ids_), many)),
                  [up EXCEPT ![doc.id] = {}])
<1>1. /\ ids_ \in Tables /\ short \in ShortIds /\ r \in Seq(Row) /\ p \in PendingBatch
      /\ frames \in Seq(Call) /\ Calls(frames, "wasm") /\ up \in Copies
      /\ p.entries # <<>> => p.first = Len(r)
      /\ Numbered(ids_, short, Line(r, p))
      /\ Framed(frames, p, short, Len(r))
      /\ Mirrored(Line(r, p), short, frames, up)
    BY NativeParts
<1> DEFINE d == doc.id
           n == Len(r)
           m == Len(p.entries)
           f == Frame("add", doc, Len(ids_), many)
           entry == [id |-> d, fields |-> {}, open |-> TRUE, depth |-> Len(frames) + 1]
           table2 == Append(ids_, d)
           short2 == [short EXCEPT ![d] = Len(ids_)]
           frames2 == Append(frames, f)
           up2 == [up EXCEPT ![d] = {}]
<1>2. /\ d \in Ids /\ d # NoId /\ n \in Nat /\ m \in Nat /\ Len(frames) \in Nat
      /\ Len(ids_) = n + m
    <2>1. d \in Ids /\ d # NoId
        BY FacadeAssumption DEF Documents
    <2>2. Len(ids_) = Len(Line(r, p))
        BY <1>1 DEF Numbered
    <2>3. Len(Line(r, p)) = n + m /\ n \in Nat /\ m \in Nat
        BY <1>1, LineParts
    <2> QED
        BY <1>1, <2>1, <2>2, <2>3
<1>3. f \in Call /\ f.op = "add" /\ f.doc = doc /\ f.many = many /\ f.current
    <2>1. Len(ids_) \in Nat /\ 0 \in 0 .. FieldCount
        BY <1>2, FacadeAssumption
    <2> QED
        BY <2>1 DEF Frame, Call
<1>4. entry \in PendingEntry
    BY <1>2 DEF PendingEntry
<1>5. /\ Len(next.entries) = m + 1 /\ next.entries[m + 1] = entry
      /\ \A e \in 1 .. m : next.entries[e] = p.entries[e]
      /\ next.entries # <<>>
    BY <1>1, <1>4, Longer, Entries
<1>6. next.first = n
    <2>1. p.entries = <<>> => m = 0
        OBVIOUS
    <2> QED
        BY <1>1, <1>2, <2>1
<1>7. /\ frames2 \in Seq(Call) /\ Len(frames2) = Len(frames) + 1
      /\ \A k \in 1 .. Len(frames) : frames2[k] = frames[k]
      /\ frames2[Len(frames) + 1] = f
    BY <1>1, <1>3, Longer
<1>8. table2 \in Tables /\ Len(table2) = n + m + 1 /\ table2[n + m + 1] = d
      /\ \A s \in 1 .. (n + m) : table2[s] = ids_[s]
    <2>1. /\ table2 \in Tables /\ Len(table2) = Len(ids_) + 1
          /\ \A s \in 1 .. Len(ids_) : table2[s] = ids_[s]
          /\ table2[Len(ids_) + 1] = d
        <3> DEFINE S == Ids \cup {NoId}
        <3>1. ids_ \in Seq(S) /\ d \in S
            BY <1>1, <1>2 DEF Tables
        <3> HIDE DEF S, d
        <3>2. /\ table2 \in Seq(S) /\ Len(table2) = Len(ids_) + 1
              /\ \A s \in 1 .. Len(ids_) : table2[s] = ids_[s]
              /\ table2[Len(ids_) + 1] = d
            BY <3>1, Longer
        <3> QED
            BY <3>2 DEF Tables, S
    <2> QED
        BY <1>2, <2>1
<1>9. /\ short2 \in ShortIds /\ short2[d] = n + m
      /\ \A id \in Ids : id # d => short2[id] = short[id]
    BY <1>1, <1>2 DEF ShortIds
<1>10. /\ up2 \in Copies /\ up2[d] = {}
       /\ \A id \in Ids : id # d => up2[id] = up[id]
    BY <1>1, <1>2 DEF Copies
<1> HIDE DEF d, f, entry, table2, short2, frames2, up2, n, m
<1>11. \A k \in 1 .. Len(frames) : frames[k].doc.id # d
    <2>1. ASSUME NEW k \in 1 .. Len(frames), frames[k].doc.id = d
          PROVE  FALSE
        <3>1. frames[k].op \in {"add", "remove"}
            BY <1>1, <1>2, <2>1 DEF Calls
        <3>2. short[d] # NoShortId
            BY <1>1, <2>1, <3>1 DEF Framed, NoShortId
        <3> QED
            BY <3>2 DEF d
    <2> QED
        BY <2>1
<1>12. Calls(frames2, "wasm")
    <2>1. f.op # "all" =>
               /\ f.doc \in Documents /\ f.current
               /\ \A k \in 1 .. Len(frames) : frames[k].doc.id # f.doc.id
        BY <1>3, <1>11 DEF d
    <2> QED
        BY <1>1, <1>3, <2>1, CallsPushed DEF frames2
<1>13. Framed(frames2, next, short2, n)
    <2>1. ASSUME NEW k \in 1 .. Len(frames), frames[k].op = "add"
          PROVE  /\ short2[frames[k].doc.id] # NoShortId
                 /\ \E e \in 1 .. (m + 1) :
                        /\ next.entries[e].open /\ next.entries[e].depth = k
                        /\ next.entries[e].id = frames[k].doc.id
        <3>1. /\ short[frames[k].doc.id] # NoShortId
              /\ \E e \in 1 .. m :
                     /\ p.entries[e].open /\ p.entries[e].depth = k
                     /\ p.entries[e].id = frames[k].doc.id
            BY <1>1, <2>1 DEF Framed, m
        <3>2. frames[k].doc.id \in Ids
            BY <1>1, <2>1, Frames
        <3>3. \A e \in 1 .. m : e \in 1 .. (m + 1)
            BY <1>2
        <3> QED
            BY <1>5, <1>9, <1>11, <3>1, <3>2, <3>3
    <2>2. ASSUME NEW k \in 1 .. Len(frames), frames[k].op = "remove"
          PROVE  /\ short2[frames[k].doc.id] = frames[k].shortId
                 /\ frames[k].shortId \in 0 .. (n - 1)
        <3>1. /\ short[frames[k].doc.id] = frames[k].shortId
              /\ frames[k].shortId \in 0 .. (n - 1)
            BY <1>1, <2>2 DEF Framed, n
        <3>2. frames[k].doc.id \in Ids
            BY <1>1, <2>2, Frames
        <3> QED
            BY <1>9, <1>11, <3>1, <3>2
    <2>3. /\ short2[f.doc.id] # NoShortId
          /\ next.entries[m + 1].open /\ next.entries[m + 1].depth = Len(frames) + 1
          /\ next.entries[m + 1].id = f.doc.id /\ m + 1 \in 1 .. (m + 1)
        BY <1>2, <1>3, <1>5, <1>9 DEF entry, d, NoShortId
    <2>4. \A k \in 1 .. Len(frames2) : k \in 1 .. Len(frames) \/ k = Len(frames) + 1
        BY <1>2, <1>7
    <2>5. ASSUME NEW k \in 1 .. Len(frames2)
          PROVE  /\ frames2[k].op = "add" =>
                        /\ short2[frames2[k].doc.id] # NoShortId
                        /\ \E e \in 1 .. Len(next.entries) :
                               /\ next.entries[e].open /\ next.entries[e].depth = k
                               /\ next.entries[e].id = frames2[k].doc.id
                 /\ frames2[k].op = "remove" =>
                        /\ short2[frames2[k].doc.id] = frames2[k].shortId
                        /\ frames2[k].shortId \in 0 .. (n - 1)
        <3>1. CASE k \in 1 .. Len(frames)
            BY <1>5, <1>7, <2>1, <2>2, <3>1
        <3>2. CASE k = Len(frames) + 1
            BY <1>3, <1>5, <1>7, <2>3, <3>2
        <3> QED
            BY <2>4, <3>1, <3>2
    <2>6. ASSUME NEW e \in 1 .. Len(next.entries), next.entries[e].open
          PROVE  /\ next.entries[e].depth \in 1 .. Len(frames2)
                 /\ frames2[next.entries[e].depth].op = "add"
                 /\ frames2[next.entries[e].depth].doc.id = next.entries[e].id
        <3>1. CASE e = m + 1
            BY <1>2, <1>3, <1>7, <2>3, <3>1
        <3>2. CASE e \in 1 .. m
            <4>1. /\ p.entries[e].depth \in 1 .. Len(frames)
                  /\ frames[p.entries[e].depth].op = "add"
                  /\ frames[p.entries[e].depth].doc.id = p.entries[e].id
                BY <1>1, <1>5, <2>6, <3>2 DEF Framed, m
            <4>2. \A k \in 1 .. Len(frames) : k \in 1 .. Len(frames2)
                BY <1>2, <1>7
            <4> QED
                BY <1>5, <1>7, <3>2, <4>1, <4>2
        <3>3. e = m + 1 \/ e \in 1 .. m
            BY <1>2, <1>5
        <3> QED
            BY <3>1, <3>2, <3>3
    <2> QED
        BY <2>5, <2>6 DEF Framed
<1> DEFINE line == Line(r, p)
           line2 == Line(r, next)
<1>14. /\ Len(line2) = n + m + 1
       /\ line2[n + m + 1].id = d /\ line2[n + m + 1].fields = {}
       /\ \A s \in 1 .. (n + m) : line2[s] = line[s]
    <2>1. /\ Len(line2) = n + (m + 1)
          /\ \A s \in 1 .. n : line2[s] = r[s]
          /\ \A e \in 1 .. (m + 1) : line2[n + e] =
                 [id |-> next.entries[e].id, fields |-> next.entries[e].fields]
        <3>1. /\ Len(line2) = Len(r) + Len(next.entries)
              /\ \A s \in 1 .. Len(r) : line2[s] = r[s]
              /\ \A e \in 1 .. Len(next.entries) : line2[Len(r) + e] =
                     [id |-> next.entries[e].id, fields |-> next.entries[e].fields]
            BY <1>1, LineFacts
        <3> HIDE DEF line2
        <3> QED
            BY <1>5, <3>1 DEF n
    <2>2. /\ \A s \in 1 .. n : line[s] = r[s]
          /\ \A e \in 1 .. m : line[n + e] =
                 [id |-> p.entries[e].id, fields |-> p.entries[e].fields]
        BY <1>1, LineFacts DEF n, m
    <2> HIDE DEF line, line2
    <2>3. line2[n + (m + 1)] = [id |-> d, fields |-> {}]
        BY <1>2, <1>5, <2>1 DEF entry
    <2>4. n + (m + 1) = n + m + 1
        BY <1>2
    <2>5. ASSUME NEW s \in 1 .. (n + m)
          PROVE  line2[s] = line[s]
        <3>1. CASE s <= n
            BY <1>2, <2>1, <2>2, <3>1
        <3>2. CASE ~(s <= n)
            <4> DEFINE e == s - n
            <4>1. e \in 1 .. m /\ e \in 1 .. (m + 1) /\ s = n + e
                BY <1>2, <3>2
            <4> HIDE DEF e
            <4>2. line2[n + e] = [id |-> next.entries[e].id, fields |-> next.entries[e].fields]
                BY <2>1, <4>1
            <4>3. line[n + e] = [id |-> p.entries[e].id, fields |-> p.entries[e].fields]
                BY <2>2, <4>1
            <4>4. next.entries[e] = p.entries[e]
                BY <1>5, <4>1
            <4> QED
                BY <4>1, <4>2, <4>3, <4>4
        <3> QED
            BY <3>1, <3>2
    <2> QED
        BY <2>1, <2>3, <2>4, <2>5
<1>15. /\ Len(line) = n + m
       /\ \A s \in 1 .. (n + m) : line[s].id = ids_[s]
       /\ \A s \in 1 .. (n + m) : ids_[s] # NoId => short[ids_[s]] = s - 1
       /\ \A id \in Ids : short[id] # NoShortId =>
              short[id] + 1 \in 1 .. (n + m) /\ ids_[short[id] + 1] = id
    BY <1>1, LineFacts DEF Numbered, n, m
<1>16. \A id \in Ids : up[id] = IF short[id] = NoShortId THEN NoDocument
                               ELSE line[short[id] + 1].fields \ Taken(frames, id)
    BY <1>1 DEF Mirrored
<1>17. \A s \in 1 .. (n + m + 1) : s \in 1 .. (n + m) \/ s = n + m + 1
    BY <1>2
<1>18. \A s \in 1 .. (n + m) : s \in 1 .. (n + m + 1)
    BY <1>2
<1>19. \A s \in 1 .. (n + m) : ids_[s] \in Ids \cup {NoId}
    BY <1>1, <1>2 DEF Tables
<1>20. short[d] = NoShortId
    BY DEF d
<1> HIDE DEF line, line2
<1>21. Numbered(table2, short2, line2)
    <2>1. \A s \in 1 .. (n + m + 1) : line2[s].id = table2[s]
        BY <1>8, <1>14, <1>15, <1>17
    <2>2. ASSUME NEW s \in 1 .. (n + m + 1), table2[s] # NoId
          PROVE  short2[table2[s]] = s - 1
        <3>1. CASE s = n + m + 1
            BY <1>2, <1>8, <1>9, <3>1
        <3>2. CASE s \in 1 .. (n + m)
            <4>1. table2[s] = ids_[s] /\ short[ids_[s]] = s - 1 /\ ids_[s] \in Ids
                BY <1>8, <1>15, <1>19, <2>2, <3>2
            <4>2. ids_[s] # d
                BY <1>20, <3>2, <4>1 DEF NoShortId
            <4> QED
                BY <1>9, <4>1, <4>2
        <3> QED
            BY <1>17, <3>1, <3>2
    <2>3. ASSUME NEW id \in Ids, short2[id] # NoShortId
          PROVE  short2[id] + 1 \in 1 .. (n + m + 1) /\ table2[short2[id] + 1] = id
        <3>1. CASE id = d
            <4>1. n + m + 1 \in 1 .. (n + m + 1)
                BY <1>2
            <4> QED
                BY <1>8, <1>9, <3>1, <4>1
        <3>2. CASE id # d
            BY <1>8, <1>9, <1>15, <1>18, <2>3, <3>2
        <3> QED
            BY <3>1, <3>2
    <2> QED
        BY <1>8, <1>14, <2>1, <2>2, <2>3 DEF Numbered
<1>22. Mirrored(line2, short2, frames2, up2)
    <2>1. \A id \in Ids : Taken(frames, id) = Taken(frames2, id)
        BY <1>1, <1>3, TakenPushed DEF frames2
    <2>2. ASSUME NEW id \in Ids
          PROVE  up2[id] = IF short2[id] = NoShortId THEN NoDocument
                           ELSE line2[short2[id] + 1].fields \ Taken(frames2, id)
        <3>1. CASE id = d
            <4>1. short2[id] # NoShortId /\ short2[id] + 1 = n + m + 1
                BY <1>2, <1>9, <3>1 DEF NoShortId
            <4>2. line2[short2[id] + 1].fields = {}
                BY <1>14, <4>1
            <4>3. up2[id] = line2[short2[id] + 1].fields \ Taken(frames2, id)
                BY <1>10, <3>1, <4>2
            <4> QED
                BY <4>1, <4>3
        <3>2. CASE id # d
            <4>1. short2[id] = short[id] /\ up2[id] = up[id]
                BY <1>9, <1>10, <3>2
            <4>2. short[id] # NoShortId => line2[short[id] + 1] = line[short[id] + 1]
                BY <1>14, <1>15
            <4>3. short[id] # NoShortId =>
                      up[id] = line[short[id] + 1].fields \ Taken(frames2, id)
                BY <1>16, <2>1
            <4>4. short[id] = NoShortId => up[id] = NoDocument
                BY <1>16
            <4>5. CASE short[id] = NoShortId
                BY <4>1, <4>4, <4>5
            <4>6. CASE short[id] # NoShortId
                BY <4>1, <4>2, <4>3, <4>6
            <4> QED
                BY <4>5, <4>6
        <3> QED
            BY <3>1, <3>2
    <2> QED
        BY <2>2 DEF Mirrored
<1>23. Native(table2, short2, r, next, frames2, up2)
    BY <1>1, <1>6, <1>7, <1>8, <1>9, <1>10, <1>12, <1>13, <1>21, <1>22 DEF Native, line2, n
<1> QED
    BY <1>23 DEF table2, short2, frames2, up2, d, f

----------------------------------------------------------------------------
(* The documents of the line change, and keep their numbers.               *)

LEMMA Renumbered ==
    ASSUME NEW table_, NEW short, NEW line, NEW later, Len(later) = Len(line),
           \A s \in 1 .. Len(line) : later[s].id = line[s].id,
           Numbered(table_, short, line)
    PROVE  Numbered(table_, short, later)
BY DEF Numbered

\* What Entry changes: the open entry of the innermost call.
EntryWritten(fields, open) ==
    /\ Entry(fields, open) \in PendingBatch
    /\ Entry(fields, open).first = pending.first
    /\ Len(Entry(fields, open).entries) = Len(pending.entries)
    /\ Len(pending.entries) \in Nat
    /\ \A e \in 1 .. Len(pending.entries) :
           /\ Entry(fields, open).entries[e].id = pending.entries[e].id
           /\ Entry(fields, open).entries[e].depth = pending.entries[e].depth
           /\ pending.entries[e].open /\ pending.entries[e].depth = Len(stack) =>
                  /\ Entry(fields, open).entries[e].open = open
                  /\ Entry(fields, open).entries[e].fields =
                         pending.entries[e].fields \cup fields
           /\ ~(pending.entries[e].open /\ pending.entries[e].depth = Len(stack)) =>
                  Entry(fields, open).entries[e] = pending.entries[e]

LEMMA EntryFacts ==
    ASSUME pending \in PendingBatch, NEW fields \in SUBSET Fields, NEW open \in BOOLEAN
    PROVE  EntryWritten(fields, open)
<1> DEFINE m == Len(pending.entries)
           old(e) == pending.entries[e]
           mine(e) == old(e).open /\ old(e).depth = Len(stack)
           new(e) == IF mine(e)
                     THEN [old(e) EXCEPT !.fields = @ \cup fields, !.open = open]
                     ELSE old(e)
           entries == [e \in 1 .. m |-> new(e)]
<1>1. /\ m \in Nat /\ DOMAIN pending.entries = 1 .. m /\ pending.first \in Nat
      /\ pending.entries \in Seq(PendingEntry)
      /\ \A e \in 1 .. m : old(e) \in PendingEntry
    BY Entries
<1>2. ASSUME NEW e \in 1 .. m, mine(e)
      PROVE  /\ new(e) \in PendingEntry
             /\ new(e).id = old(e).id /\ new(e).depth = old(e).depth
             /\ new(e).open = open /\ new(e).fields = old(e).fields \cup fields
    <2> DEFINE o == old(e)
    <2>1. o \in PendingEntry
        BY <1>1
    <2>2. new(e) = [o EXCEPT !.fields = @ \cup fields, !.open = open]
        BY <1>2
    <2> HIDE DEF o, new
    <2>3. o.fields \cup fields \in SUBSET Fields
        BY <2>1 DEF PendingEntry
    <2>4. /\ new(e) \in PendingEntry
          /\ new(e).id = o.id /\ new(e).depth = o.depth
          /\ new(e).open = open /\ new(e).fields = o.fields \cup fields
        BY <2>1, <2>2, <2>3 DEF PendingEntry
    <2> QED
        BY <2>4 DEF o
<1>3. \A e \in 1 .. m : ~mine(e) => new(e) = old(e)
    OBVIOUS
<1>4. Entry(fields, open) = [first |-> pending.first, entries |-> entries]
    BY <1>1 DEF Entry, Written
<1>5. \A e \in 1 .. m : entries[e] = new(e)
    OBVIOUS
<1> HIDE DEF new, mine
<1>6. \A e \in 1 .. m : new(e) \in PendingEntry
    BY <1>1, <1>2, <1>3
<1>7. entries \in Seq(PendingEntry) /\ Len(entries) = m
    BY <1>1, <1>6
<1> HIDE DEF entries, old, m
<1>8. /\ Entry(fields, open).entries = entries /\ Entry(fields, open).first = pending.first
      /\ Entry(fields, open) \in PendingBatch
    BY <1>1, <1>4, <1>7 DEF PendingBatch
<1>9. ASSUME NEW e \in 1 .. m
      PROVE  /\ entries[e].id = old(e).id /\ entries[e].depth = old(e).depth
             /\ mine(e) => entries[e].open = open /\ entries[e].fields = old(e).fields \cup fields
             /\ ~mine(e) => entries[e] = old(e)
    <2>1. CASE mine(e)
        BY <1>2, <1>5, <2>1
    <2>2. CASE ~mine(e)
        BY <1>3, <1>5, <2>2
    <2> QED
        BY <2>1, <2>2
<1> QED
    BY <1>1, <1>7, <1>8, <1>9 DEF EntryWritten, old, m, mine

\* The entry of the innermost add, and the number of its document.
LEMMA EntryOfTop ==
    ASSUME NEW table_, NEW short, NEW r, NEW up,
           Native(table_, short, r, pending, stack, up),
           stack # <<>>, Top.op = "add"
    PROVE  /\ Top.doc \in Documents /\ Top.doc.id \in Ids /\ Top.current
           /\ short[Top.doc.id] # NoShortId
           /\ \A id \in Ids : Taken(stack, id) = Taken(Front(stack), id)
           /\ Taken(stack, Top.doc.id) = {}
           /\ \E e \in 1 .. Len(pending.entries) :
                  /\ pending.entries[e].open /\ pending.entries[e].depth = Len(stack)
                  /\ short[Top.doc.id] = Len(r) + e - 1
           /\ \A e \in 1 .. Len(pending.entries) :
                  pending.entries[e].open /\ pending.entries[e].depth = Len(stack) =>
                      pending.entries[e].id = Top.doc.id
<1> DEFINE n == Len(stack)
<1>1. stack \in Seq(Call) /\ Calls(stack, "wasm") /\ Framed(stack, pending, short, Len(r))
    BY NativeParts
<1>2. n \in Nat /\ n >= 1 /\ n \in 1 .. n /\ Top = stack[n]
    <2>1. Len(stack) \in Nat /\ Len(stack) >= 1 /\ Last(stack) = stack[Len(stack)]
        BY <1>1, Shorter
    <2> QED
        BY <2>1 DEF Top
<1>3. /\ stack[n].doc \in Documents /\ stack[n].doc.id \in Ids /\ stack[n].current
      /\ stack[n].op = "add"
    BY <1>1, <1>2, Frames
<1>4. /\ short[stack[n].doc.id] # NoShortId
      /\ \E e \in 1 .. Len(pending.entries) :
             /\ pending.entries[e].open /\ pending.entries[e].depth = n
             /\ pending.entries[e].id = stack[n].doc.id
    BY <1>1, <1>2, <1>3 DEF Framed
<1>5. \A e \in 1 .. Len(pending.entries) :
          pending.entries[e].open /\ pending.entries[e].depth = n =>
              pending.entries[e].id = stack[n].doc.id
    BY <1>1 DEF Framed
<1>6. \A e \in 1 .. Len(pending.entries) :
          short[pending.entries[e].id] = Len(r) + e - 1
    BY PendingNumbers DEF LineNumbers
<1>7. \A id \in Ids : Taken(stack, id) = Taken(Front(stack), id)
    BY <1>1, TakenBelow DEF Top
<1>8. Taken(stack, stack[n].doc.id) = {}
    <2>1. \A k \in 1 .. n : stack[k].op = "remove" /\ stack[k].doc.id = stack[n].doc.id => k = n
        BY <1>1, <1>2 DEF Calls
    <2> QED
        BY <1>3, <2>1, TakenNothing
<1>9. \E e \in 1 .. Len(pending.entries) :
             /\ pending.entries[e].open /\ pending.entries[e].depth = n
             /\ short[stack[n].doc.id] = Len(r) + e - 1
    BY <1>4, <1>6
<1> QED
    BY <1>2, <1>3, <1>4, <1>5, <1>7, <1>8, <1>9

\* The line, when the entry of the innermost add takes a field or is closed:
\* only that document changes.
LineWritten(table_, short, r, fields, open) ==
    /\ Numbered(table_, short, Line(r, Entry(fields, open)))
    /\ \A id \in Ids : short[id] # NoShortId =>
           Line(r, Entry(fields, open))[short[id] + 1].fields =
               Line(r, pending)[short[id] + 1].fields \cup
                   (IF id = Top.doc.id THEN fields ELSE {})

LEMMA LineOfEntry ==
    ASSUME NEW table_, NEW short, NEW r, NEW up,
           Native(table_, short, r, pending, stack, up),
           stack # <<>>, Top.op = "add",
           NEW fields \in SUBSET Fields, NEW open \in BOOLEAN
    PROVE  LineWritten(table_, short, r, fields, open)
<1> DEFINE n == Len(r)
           m == Len(pending.entries)
           next == Entry(fields, open)
           line == Line(r, pending)
           later == Line(r, next)
           d == Top.doc.id
<1>1. r \in Seq(Row) /\ pending \in PendingBatch /\ Numbered(table_, short, line)
    BY NativeParts
<1>2. /\ Len(line) = n + m /\ n \in Nat /\ m \in Nat
      /\ \A s \in 1 .. n : line[s] = r[s]
      /\ \A e \in 1 .. m : line[n + e].id = pending.entries[e].id
                           /\ line[n + e].fields = pending.entries[e].fields
    BY <1>1, LineParts
<1>3. /\ next \in PendingBatch /\ Len(next.entries) = m
      /\ \A e \in 1 .. m :
             /\ next.entries[e].id = pending.entries[e].id
             /\ pending.entries[e].open /\ pending.entries[e].depth = Len(stack) =>
                    next.entries[e].fields = pending.entries[e].fields \cup fields
             /\ ~(pending.entries[e].open /\ pending.entries[e].depth = Len(stack)) =>
                    next.entries[e] = pending.entries[e]
    <2>1. EntryWritten(fields, open)
        BY <1>1, EntryFacts
    <2> QED
        BY <2>1 DEF EntryWritten
<1>4. /\ Len(later) = n + m
      /\ \A s \in 1 .. n : later[s] = r[s]
      /\ \A e \in 1 .. m : later[n + e].id = next.entries[e].id
                           /\ later[n + e].fields = next.entries[e].fields
    <2>1. /\ Len(later) = Len(r) + Len(next.entries)
          /\ \A s \in 1 .. Len(r) : later[s] = r[s]
          /\ \A e \in 1 .. Len(next.entries) :
                 /\ later[Len(r) + e].id = next.entries[e].id
                 /\ later[Len(r) + e].fields = next.entries[e].fields
        BY <1>1, <1>3, LineParts
    <2> HIDE DEF later, next
    <2> QED
        BY <1>3, <2>1
<1>5. /\ d \in Ids
      /\ \E e \in 1 .. m :
             /\ pending.entries[e].open /\ pending.entries[e].depth = Len(stack)
             /\ short[d] = n + e - 1
      /\ \A e \in 1 .. m :
             pending.entries[e].open /\ pending.entries[e].depth = Len(stack) =>
                 pending.entries[e].id = d
    BY EntryOfTop
<1>6. /\ \A id \in Ids : short[id] # NoShortId =>
             short[id] \in Nat /\ short[id] + 1 \in 1 .. (n + m)
      /\ \A id \in Ids : short[id] # NoShortId /\ ~(short[id] + 1 <= n) =>
             \E e \in 1 .. m : pending.entries[e].id = id /\ short[id] = n + e - 1
    <2>1. LineNumbers(short, r, pending)
        BY PendingNumbers
    <2> HIDE DEF line, later, next
    <2>2. \A id \in Ids : short[id] # NoShortId =>
             short[id] \in Nat /\ short[id] + 1 \in 1 .. (n + m)
        BY <2>1 DEF LineNumbers
    <2>3. \A id \in Ids : short[id] # NoShortId /\ ~(short[id] + 1 <= n) =>
             \E e \in 1 .. m : pending.entries[e].id = id /\ short[id] = n + e - 1
        BY <2>1 DEF LineNumbers
    <2> QED
        BY <2>2, <2>3
<1> HIDE DEF n, m, next, line, later, d
<1>7. \A s \in 1 .. (n + m) : s \in 1 .. n \/ \E e \in 1 .. m : s = n + e
    <2>1. ASSUME NEW s \in 1 .. (n + m), s \notin 1 .. n
          PROVE  s - n \in 1 .. m /\ s = n + (s - n)
        BY <1>2, <2>1
    <2> QED
        BY <2>1
<1>8. ASSUME NEW s \in 1 .. (n + m)
      PROVE  later[s].id = line[s].id
    <2>1. CASE s \in 1 .. n
        BY <1>2, <1>4, <2>1
    <2>2. CASE s \notin 1 .. n
        <3>1. PICK e \in 1 .. m : s = n + e
            BY <1>7, <2>2
        <3> QED
            BY <1>2, <1>3, <1>4, <3>1, ZenonT(30)
    <2> QED
        BY <2>1, <2>2
<1>9. Numbered(table_, short, later)
    BY <1>1, <1>2, <1>4, <1>8, Renumbered
<1>10. ASSUME NEW id \in Ids, short[id] # NoShortId
       PROVE  later[short[id] + 1].fields =
                  line[short[id] + 1].fields \cup (IF id = d THEN fields ELSE {})
    <2>1. CASE id = d
        <3>1. PICK e \in 1 .. m :
                  /\ pending.entries[e].open /\ pending.entries[e].depth = Len(stack)
                  /\ short[d] = n + e - 1
            BY <1>5
        <3>2. short[d] + 1 = n + e
            BY <1>2, <3>1
        <3>3. later[n + e].fields = line[n + e].fields \cup fields
            <4>1. later[n + e].fields = next.entries[e].fields
                BY <1>4
            <4>2. line[n + e].fields = pending.entries[e].fields
                BY <1>2
            <4>3. next.entries[e].fields = pending.entries[e].fields \cup fields
                BY <1>3, <3>1
            <4> QED
                BY <4>1, <4>2, <4>3
        <3> QED
            BY <2>1, <3>2, <3>3
    <2>2. CASE id # d
        <3>1. later[short[id] + 1] = line[short[id] + 1] \/
              later[short[id] + 1].fields = line[short[id] + 1].fields
            <4>1. CASE short[id] + 1 <= n
                <5>1. short[id] + 1 \in 1 .. n
                    BY <1>2, <1>6, <1>10, <4>1
                <5> QED
                    BY <1>2, <1>4, <5>1
            <4>2. CASE ~(short[id] + 1 <= n)
                <5>1. PICK e \in 1 .. m : pending.entries[e].id = id /\ short[id] = n + e - 1
                    BY <1>6, <1>10, <4>2
                <5>2. short[id] + 1 = n + e
                    BY <1>2, <5>1
                <5>3. ~(pending.entries[e].open /\ pending.entries[e].depth = Len(stack))
                    BY <1>5, <2>2, <5>1
                <5>4. later[n + e].fields = line[n + e].fields
                    BY <1>2, <1>3, <1>4, <5>3
                <5> QED
                    BY <5>2, <5>4
            <4> QED
                BY <4>1, <4>2
        <3>2. later[short[id] + 1].fields = line[short[id] + 1].fields
            BY <3>1
        <3> QED
            BY <2>2, <3>2
    <2> QED
        BY <2>1, <2>2
<1> QED
    BY <1>9, <1>10 DEF LineWritten, later, line, next, d

\* A call that goes on to its next field.
LEMMA NextOf ==
    ASSUME NEW f \in Call, f.at < FieldCount
    PROVE  /\ [f EXCEPT !.at = @ + 1] \in Call
           /\ [f EXCEPT !.at = @ + 1].op = f.op /\ [f EXCEPT !.at = @ + 1].doc = f.doc
           /\ [f EXCEPT !.at = @ + 1].shortId = f.shortId
           /\ [f EXCEPT !.at = @ + 1].many = f.many
           /\ [f EXCEPT !.at = @ + 1].current = f.current
           /\ [f EXCEPT !.at = @ + 1].at = f.at + 1
<1>1. f.at \in 0 .. FieldCount /\ FieldCount \in Nat
    BY FacadeAssumption DEF Call
<1>2. f.at + 1 \in 0 .. FieldCount
    BY <1>1
<1> QED
    BY <1>2 DEF Call

LEMMA FieldNative ==
    ASSUME NEW table_, NEW short, NEW r, NEW up,
           Native(table_, short, r, pending, stack, up),
           stack # <<>>, Top.op = "add", Top.at < FieldCount
    PROVE  Native(table_, short, r, Entry({Top.at + 1}, TRUE),
                  Append(Front(stack), [Top EXCEPT !.at = @ + 1]),
                  [up EXCEPT ![Top.doc.id] = up[Top.doc.id] \cup {Top.at + 1}])
<1> DEFINE n == Len(r)
           d == Top.doc.id
           new == {Top.at + 1}
           next == Entry(new, TRUE)
           f == [Top EXCEPT !.at = @ + 1]
           frames == Append(Front(stack), f)
           up2 == [up EXCEPT ![d] = up[d] \cup new]
<1>1. /\ table_ \in Tables /\ short \in ShortIds /\ r \in Seq(Row) /\ pending \in PendingBatch
      /\ stack \in Seq(Call) /\ Calls(stack, "wasm") /\ up \in Copies
      /\ pending.entries # <<>> => pending.first = n
      /\ Framed(stack, pending, short, n)
      /\ Mirrored(Line(r, pending), short, stack, up)
    BY NativeParts
<1>2. Top \in Call /\ Top = Last(stack)
    BY <1>1, Shorter DEF Top
<1>3. /\ f \in Call /\ f.op = Top.op /\ f.doc = Top.doc /\ f.shortId = Top.shortId
      /\ f.many = Top.many /\ f.current = Top.current
    BY <1>2, NextOf
<1>4. new \in SUBSET Fields /\ TRUE \in BOOLEAN
    <2>1. Top.at \in 0 .. FieldCount /\ FieldCount \in Nat
        BY <1>2, FacadeAssumption DEF Call
    <2> QED
        BY <2>1 DEF Fields
<1>5. /\ d \in Ids /\ short[d] # NoShortId
      /\ \A id \in Ids : Taken(stack, id) = Taken(Front(stack), id)
      /\ Taken(stack, d) = {}
    BY EntryOfTop
<1> HIDE DEF f
<1>6. frames \in Seq(Call) /\ Calls(frames, "wasm")
    BY <1>1, <1>2, <1>3, Resumed, CallsResumed
<1>7. \A id \in Ids : Taken(stack, id) = Taken(frames, id)
    BY <1>1, <1>2, <1>3, TakenResumed
<1>8. EntryWritten(new, TRUE)
    BY <1>1, <1>4, EntryFacts
<1>9. /\ Numbered(table_, short, Line(r, next))
      /\ \A id \in Ids : short[id] # NoShortId =>
             Line(r, next)[short[id] + 1].fields =
                 Line(r, pending)[short[id] + 1].fields \cup (IF id = d THEN new ELSE {})
    <2>1. LineWritten(table_, short, r, new, TRUE)
        BY <1>4, LineOfEntry
    <2> QED
        BY <2>1 DEF LineWritten
<1> HIDE DEF new, next, frames, up2, d, n
<1>10. /\ next \in PendingBatch /\ next.first = pending.first
       /\ Len(next.entries) = Len(pending.entries) /\ Len(pending.entries) \in Nat
       /\ \A e \in 1 .. Len(pending.entries) :
              /\ next.entries[e].id = pending.entries[e].id
              /\ next.entries[e].depth = pending.entries[e].depth
              /\ pending.entries[e].open => next.entries[e].open
              /\ next.entries[e].open => pending.entries[e].open
    <2>1. /\ next \in PendingBatch /\ next.first = pending.first
          /\ Len(next.entries) = Len(pending.entries) /\ Len(pending.entries) \in Nat
        BY <1>8 DEF EntryWritten, next
    <2>2. ASSUME NEW e \in 1 .. Len(pending.entries)
          PROVE  /\ next.entries[e].id = pending.entries[e].id
                 /\ next.entries[e].depth = pending.entries[e].depth
                 /\ pending.entries[e].open => next.entries[e].open
                 /\ next.entries[e].open => pending.entries[e].open
        <3>1. CASE pending.entries[e].open /\ pending.entries[e].depth = Len(stack)
            BY <1>8, <2>2, <3>1 DEF EntryWritten, next
        <3>2. CASE ~(pending.entries[e].open /\ pending.entries[e].depth = Len(stack))
            <4>1. next.entries[e] = pending.entries[e]
                BY <1>8, <2>2, <3>2 DEF EntryWritten, next
            <4> QED
                BY <4>1
        <3> QED
            BY <3>1, <3>2
    <2> QED
        BY <2>1, <2>2
<1>11. Framed(stack, next, short, n)
    <2>1. ASSUME NEW k \in 1 .. Len(stack), stack[k].op = "add"
          PROVE  /\ short[stack[k].doc.id] # NoShortId
                 /\ \E e \in 1 .. Len(next.entries) :
                        /\ next.entries[e].open /\ next.entries[e].depth = k
                        /\ next.entries[e].id = stack[k].doc.id
        <3>1. /\ short[stack[k].doc.id] # NoShortId
              /\ \E e \in 1 .. Len(pending.entries) :
                     /\ pending.entries[e].open /\ pending.entries[e].depth = k
                     /\ pending.entries[e].id = stack[k].doc.id
            BY <1>1, <2>1 DEF Framed
        <3>2. PICK e \in 1 .. Len(pending.entries) :
                     /\ pending.entries[e].open /\ pending.entries[e].depth = k
                     /\ pending.entries[e].id = stack[k].doc.id
            BY <3>1
        <3> QED
            BY <1>10, <3>1, <3>2
    <2>2. ASSUME NEW e \in 1 .. Len(next.entries), next.entries[e].open
          PROVE  /\ next.entries[e].depth \in 1 .. Len(stack)
                 /\ stack[next.entries[e].depth].op = "add"
                 /\ stack[next.entries[e].depth].doc.id = next.entries[e].id
        BY <1>1, <1>10, <2>2, SMTT(30) DEF Framed
    <2>3. \A k \in 1 .. Len(stack) : stack[k].op = "remove" =>
              /\ short[stack[k].doc.id] = stack[k].shortId
              /\ stack[k].shortId \in 0 .. (n - 1)
        BY <1>1 DEF Framed
    <2> QED
        BY <2>1, <2>2, <2>3 DEF Framed
<1>12. Framed(frames, next, short, n)
    BY <1>1, <1>2, <1>3, <1>11, FramedResumed DEF frames
<1>13. next.entries # <<>> => next.first = n
    <2>1. next.entries # <<>> => pending.entries # <<>>
        BY <1>1, <1>10, Entries
    <2> QED
        BY <1>1, <1>10, <2>1
<1>14. /\ up2 \in Copies /\ up2[d] = up[d] \cup new
       /\ \A id \in Ids : id # d => up2[id] = up[id]
    <2>1. up[d] = Line(r, pending)[short[d] + 1].fields \ Taken(stack, d)
        BY <1>1, <1>5 DEF Mirrored
    <2>2. Line(r, pending)[short[d] + 1].fields \in SUBSET Fields
        <3>1. Line(r, pending) \in Seq(Row) /\ Len(Line(r, pending)) = Len(r) + Len(pending.entries)
            BY <1>1, LineFacts
        <3>2. short[d] + 1 \in 1 .. (Len(r) + Len(pending.entries))
            <4>1. LineNumbers(short, r, pending)
                BY PendingNumbers
            <4> QED
                BY <1>5, <4>1 DEF LineNumbers
        <3> DEFINE line == Line(r, pending)
        <3> HIDE DEF line
        <3>3. line[short[d] + 1] \in Row
            BY <3>1, <3>2 DEF line
        <3> QED
            BY <3>3 DEF Row, line
    <2>3. up[d] \cup new \in SUBSET Fields
        BY <1>4, <2>1, <2>2
    <2> QED
        BY <1>1, <1>5, <2>3 DEF Copies, up2
<1>15. Mirrored(Line(r, next), short, frames, up2)
    <2>1. ASSUME NEW id \in Ids
          PROVE  up2[id] = IF short[id] = NoShortId THEN NoDocument
                           ELSE Line(r, next)[short[id] + 1].fields \ Taken(frames, id)
        <3>1. up[id] = IF short[id] = NoShortId THEN NoDocument
                       ELSE Line(r, pending)[short[id] + 1].fields \ Taken(frames, id)
            BY <1>1, <1>7 DEF Mirrored
        <3>2. CASE id = d
            <4>1. up[d] = Line(r, pending)[short[d] + 1].fields
                BY <1>1, <1>5 DEF Mirrored
            <4>2. Line(r, next)[short[d] + 1].fields =
                      Line(r, pending)[short[d] + 1].fields \cup new
                BY <1>5, <1>9
            <4>3. Taken(frames, d) = {}
                BY <1>5, <1>7
            <4>4. up2[d] = Line(r, next)[short[d] + 1].fields \ Taken(frames, d)
                BY <1>14, <4>1, <4>2, <4>3
            <4> QED
                BY <1>5, <3>2, <4>4
        <3>3. CASE id # d
            <4>1. CASE short[id] = NoShortId
                BY <1>14, <3>1, <3>3, <4>1
            <4>2. CASE short[id] # NoShortId
                <5>1. Line(r, next)[short[id] + 1].fields = Line(r, pending)[short[id] + 1].fields
                    BY <1>9, <3>3, <4>2
                <5> QED
                    BY <1>14, <3>1, <3>3, <4>2, <5>1
            <4> QED
                BY <4>1, <4>2
        <3> QED
            BY <3>2, <3>3
    <2> QED
        BY <2>1 DEF Mirrored
<1>16. Native(table_, short, r, next, frames, up2)
    BY <1>1, <1>6, <1>9, <1>10, <1>12, <1>13, <1>14, <1>15 DEF Native, n
<1> QED
    BY <1>16 DEF next, frames, up2, f, d, new

\* An add ends: its entry is closed, and its document stays in the line.
LEMMA CloseNative ==
    ASSUME NEW table_, NEW short, NEW r, NEW up,
           Native(table_, short, r, pending, stack, up),
           stack # <<>>, Top.op = "add"
    PROVE  Native(table_, short, r, Closed, Front(stack), up)
<1> DEFINE n == Len(r)
           d == Top.doc.id
           next == Entry({}, FALSE)
           frames == Front(stack)
<1>1. /\ table_ \in Tables /\ short \in ShortIds /\ r \in Seq(Row) /\ pending \in PendingBatch
      /\ stack \in Seq(Call) /\ Calls(stack, "wasm") /\ up \in Copies
      /\ pending.entries # <<>> => pending.first = n
      /\ Framed(stack, pending, short, n)
      /\ Mirrored(Line(r, pending), short, stack, up)
    BY NativeParts
<1>2. {} \in SUBSET Fields /\ FALSE \in BOOLEAN
    OBVIOUS
<1>3. \A id \in Ids : Taken(stack, id) = Taken(Front(stack), id)
    BY EntryOfTop
<1>4. /\ frames \in Seq(Call) /\ Len(frames) = Len(stack) - 1 /\ Len(stack) \in Nat
      /\ \A i \in 1 .. Len(frames) : frames[i] = stack[i]
    BY <1>1, Shorter
<1>5. Calls(frames, "wasm")
    BY <1>1, CallsBelow
<1>6. EntryWritten({}, FALSE)
    BY <1>1, <1>2, EntryFacts
<1>7. /\ Numbered(table_, short, Line(r, next))
      /\ \A id \in Ids : short[id] # NoShortId =>
             Line(r, next)[short[id] + 1].fields =
                 Line(r, pending)[short[id] + 1].fields \cup (IF id = d THEN {} ELSE {})
    <2>1. LineWritten(table_, short, r, {}, FALSE)
        BY <1>2, LineOfEntry
    <2> QED
        BY <2>1 DEF LineWritten
<1> HIDE DEF next, frames, d, n
<1>8. /\ next \in PendingBatch /\ next.first = pending.first
      /\ Len(next.entries) = Len(pending.entries) /\ Len(pending.entries) \in Nat
    BY <1>6 DEF EntryWritten, next
<1>9. ASSUME NEW e \in 1 .. Len(pending.entries)
      PROVE  /\ next.entries[e].id = pending.entries[e].id
             /\ next.entries[e].depth = pending.entries[e].depth
             /\ pending.entries[e].open /\ pending.entries[e].depth # Len(stack) =>
                    next.entries[e].open
             /\ next.entries[e].open =>
                    pending.entries[e].open /\ pending.entries[e].depth # Len(stack)
    <2>1. CASE pending.entries[e].open /\ pending.entries[e].depth = Len(stack)
        BY <1>6, <1>9, <2>1 DEF EntryWritten, next
    <2>2. CASE ~(pending.entries[e].open /\ pending.entries[e].depth = Len(stack))
        <3>1. next.entries[e] = pending.entries[e]
            BY <1>6, <1>9, <2>2 DEF EntryWritten, next
        <3> QED
            BY <2>2, <3>1
    <2> QED
        BY <2>1, <2>2
<1>10. \A k \in 1 .. Len(frames) : k \in 1 .. Len(stack) /\ k # Len(stack)
    BY <1>4
<1>11. \A k \in 1 .. Len(stack) : k # Len(stack) => k \in 1 .. Len(frames)
    BY <1>4
<1>12. Framed(frames, next, short, n)
    <2>1. ASSUME NEW k \in 1 .. Len(frames), frames[k].op = "add"
          PROVE  /\ short[frames[k].doc.id] # NoShortId
                 /\ \E e \in 1 .. Len(next.entries) :
                        /\ next.entries[e].open /\ next.entries[e].depth = k
                        /\ next.entries[e].id = frames[k].doc.id
        <3>1. /\ short[stack[k].doc.id] # NoShortId
              /\ \E e \in 1 .. Len(pending.entries) :
                     /\ pending.entries[e].open /\ pending.entries[e].depth = k
                     /\ pending.entries[e].id = stack[k].doc.id
            BY <1>1, <1>4, <1>10, <2>1 DEF Framed
        <3>2. PICK e \in 1 .. Len(pending.entries) :
                     /\ pending.entries[e].open /\ pending.entries[e].depth = k
                     /\ pending.entries[e].id = stack[k].doc.id
            BY <3>1
        <3> QED
            BY <1>4, <1>8, <1>9, <1>10, <3>1, <3>2, ZenonT(30)
    <2>2. ASSUME NEW e \in 1 .. Len(next.entries), next.entries[e].open
          PROVE  /\ next.entries[e].depth \in 1 .. Len(frames)
                 /\ frames[next.entries[e].depth].op = "add"
                 /\ frames[next.entries[e].depth].doc.id = next.entries[e].id
        <3>1. e \in 1 .. Len(pending.entries)
            BY <1>8
        <3>2. /\ next.entries[e].id = pending.entries[e].id
              /\ next.entries[e].depth = pending.entries[e].depth
              /\ pending.entries[e].open /\ pending.entries[e].depth # Len(stack)
            BY <1>9, <2>2, <3>1
        <3>3. /\ pending.entries[e].depth \in 1 .. Len(stack)
              /\ stack[pending.entries[e].depth].op = "add"
              /\ stack[pending.entries[e].depth].doc.id = pending.entries[e].id
            BY <1>1, <3>1, <3>2 DEF Framed
        <3> QED
            BY <1>4, <1>11, <3>2, <3>3
    <2>3. ASSUME NEW k \in 1 .. Len(frames), frames[k].op = "remove"
          PROVE  /\ short[frames[k].doc.id] = frames[k].shortId
                 /\ frames[k].shortId \in 0 .. (n - 1)
        <3>1. k \in 1 .. Len(stack) /\ frames[k] = stack[k]
            BY <1>4, <1>10
        <3> QED
            BY <1>1, <2>3, <3>1 DEF Framed
    <2> QED
        BY <2>1, <2>2, <2>3 DEF Framed
<1>13. next.entries # <<>> => next.first = n
    <2>1. next.entries # <<>> => pending.entries # <<>>
        BY <1>1, <1>8, Entries
    <2> QED
        BY <1>1, <1>8, <2>1
<1>14. Mirrored(Line(r, next), short, frames, up)
    <2>1. ASSUME NEW id \in Ids
          PROVE  up[id] = IF short[id] = NoShortId THEN NoDocument
                          ELSE Line(r, next)[short[id] + 1].fields \ Taken(frames, id)
        <3>1. up[id] = IF short[id] = NoShortId THEN NoDocument
                       ELSE Line(r, pending)[short[id] + 1].fields \ Taken(frames, id)
            BY <1>1, <1>3 DEF Mirrored, frames
        <3>2. CASE short[id] = NoShortId
            BY <3>1, <3>2
        <3>3. CASE short[id] # NoShortId
            <4>1. Line(r, next)[short[id] + 1].fields = Line(r, pending)[short[id] + 1].fields
                BY <1>7, <3>3
            <4> QED
                BY <3>1, <3>3, <4>1
        <3> QED
            BY <3>2, <3>3
    <2> QED
        BY <2>1 DEF Mirrored
<1>15. Native(table_, short, r, next, frames, up)
    BY <1>1, <1>4, <1>5, <1>7, <1>8, <1>12, <1>13, <1>14 DEF Native, n
<1> QED
    BY <1>15 DEF next, frames, Closed

\* A removal in progress: of which document, and what it has read.
LEMMA RemovalOnTop ==
    ASSUME NEW table_, NEW short, NEW r, NEW p, NEW frames, NEW up,
           Native(table_, short, r, p, frames, up),
           frames # <<>>, Last(frames).op = "remove"
    PROVE  /\ Last(frames) \in Call /\ Last(frames).at \in 0 .. FieldCount
           /\ Last(frames).doc \in Documents /\ Last(frames).doc.id \in Ids
           /\ Last(frames).current
           /\ short[Last(frames).doc.id] = Last(frames).shortId
           /\ Last(frames).shortId \in 0 .. (Len(r) - 1)
           /\ Taken(frames, Last(frames).doc.id) = 1 .. Last(frames).at
           /\ \A k \in 1 .. Len(Front(frames)) :
                  Front(frames)[k].doc.id # Last(frames).doc.id
<1>1. frames \in Seq(Call) /\ Calls(frames, "wasm") /\ Framed(frames, p, short, Len(r))
    BY NativeParts
<1>2. /\ Len(Front(frames)) = Len(frames) - 1 /\ Len(frames) \in Nat /\ Len(frames) >= 1
      /\ \A i \in 1 .. Len(Front(frames)) : Front(frames)[i] = frames[i]
      /\ Last(frames) = frames[Len(frames)] /\ Last(frames) \in Call
    BY <1>1, Shorter
<1> DEFINE front == Front(frames)
           f == Last(frames)
           n == Len(frames)
<1> HIDE DEF front, f, n
<1>3. n \in 1 .. n /\ f = frames[n] /\ frames[n].op = "remove"
    BY <1>2 DEF f, n
<1>4. /\ f.at \in 0 .. FieldCount /\ f.doc \in Documents /\ f.doc.id \in Ids /\ f.current
    BY <1>1, <1>3, Frames DEF n
<1>5. short[f.doc.id] = f.shortId /\ f.shortId \in 0 .. (Len(r) - 1)
    BY <1>1, <1>3 DEF Framed, n
<1>6. Taken(frames, f.doc.id) = 1 .. f.at
    BY <1>1, <1>3, TakenSoFar DEF n
<1>7. ASSUME NEW k \in 1 .. Len(front), front[k].doc.id = f.doc.id
      PROVE  FALSE
    <2>1. k \in 1 .. n /\ k # n /\ front[k] = frames[k]
        BY <1>2 DEF front, n
    <2>2. k = n
        BY <1>1, <1>3, <1>7, <2>1 DEF Calls, n
    <2> QED
        BY <2>1, <2>2
<1> QED
    BY <1>2, <1>4, <1>5, <1>6, <1>7 DEF f, front

\* The document with a short id in the engine.
LEMMA RowOf ==
    ASSUME NEW table_, NEW short, NEW r, NEW p, NEW frames, NEW up,
           Native(table_, short, r, p, frames, up),
           NEW id \in Ids, short[id] \in 0 .. (Len(r) - 1)
    PROVE  /\ short[id] # NoShortId /\ short[id] + 1 \in 1 .. Len(r)
           /\ r[short[id] + 1] \in Row /\ r[short[id] + 1].id = id
           /\ r[short[id] + 1].fields \in SUBSET Fields
           /\ Line(r, p)[short[id] + 1] = r[short[id] + 1]
           /\ table_[short[id] + 1] = id
           /\ up[id] = r[short[id] + 1].fields \ Taken(frames, id)
<1> DEFINE s == short[id]
<1>1. /\ r \in Seq(Row) /\ p \in PendingBatch /\ Len(r) \in Nat
      /\ Numbered(table_, short, Line(r, p))
      /\ Mirrored(Line(r, p), short, frames, up)
    BY NativeParts
<1>2. s # NoShortId /\ s + 1 \in 1 .. Len(r) /\ s + 1 <= Len(r)
    BY <1>1 DEF NoShortId
<1>3. LineNumbers(short, r, p)
    BY PendingNumbers
<1>4. Line(r, p)[s + 1].id = id
    BY <1>2, <1>3 DEF LineNumbers
<1>5. Line(r, p)[s + 1] = r[s + 1]
    BY <1>1, <1>2, LineParts
<1>6. r[s + 1] \in Row /\ r[s + 1].fields \in SUBSET Fields
    <2>1. r[s + 1] \in Row
        BY <1>1, <1>2
    <2> DEFINE row == r[s + 1]
    <2> HIDE DEF row
    <2>2. row \in Row => row.fields \in SUBSET Fields
        BY DEF Row
    <2> QED
        BY <2>1, <2>2 DEF row
<1>7. table_[s + 1] = id
    BY <1>1, <1>2 DEF Numbered
<1>8. up[id] = Line(r, p)[s + 1].fields \ Taken(frames, id)
    BY <1>1, <1>2 DEF Mirrored
<1> QED
    BY <1>2, <1>4, <1>5, <1>6, <1>7, <1>8

\* A removal reads its next field.
LEMMA TakeNative ==
    ASSUME NEW table_, NEW short, NEW r, NEW p, NEW frames, NEW up,
           Native(table_, short, r, p, frames, up),
           frames # <<>>, Last(frames).op = "remove", Last(frames).at < FieldCount
    PROVE  Native(table_, short, r, p,
                  Append(Front(frames), [Last(frames) EXCEPT !.at = @ + 1]),
                  [up EXCEPT ![Last(frames).doc.id] =
                      up[Last(frames).doc.id] \ {Last(frames).at + 1}])
<1> DEFINE top == Last(frames)
           d == top.doc.id
           f == [top EXCEPT !.at = @ + 1]
           later == Append(Front(frames), f)
           up2 == [up EXCEPT ![d] = up[d] \ {top.at + 1}]
<1>1. /\ table_ \in Tables /\ short \in ShortIds /\ r \in Seq(Row) /\ p \in PendingBatch
      /\ frames \in Seq(Call) /\ Calls(frames, "wasm") /\ up \in Copies
      /\ p.entries # <<>> => p.first = Len(r)
      /\ Numbered(table_, short, Line(r, p))
      /\ Framed(frames, p, short, Len(r))
      /\ Mirrored(Line(r, p), short, frames, up)
    BY NativeParts
<1>2. /\ top \in Call /\ top.at \in 0 .. FieldCount /\ d \in Ids
      /\ short[d] \in 0 .. (Len(r) - 1)
      /\ Taken(frames, d) = 1 .. top.at
    BY RemovalOnTop
<1>3. /\ f \in Call /\ f.op = top.op /\ f.doc = top.doc /\ f.shortId = top.shortId
      /\ f.many = top.many /\ f.current = top.current /\ f.at = top.at + 1
    BY <1>2, NextOf
<1>4. /\ up[d] = r[short[d] + 1].fields \ (1 .. top.at)
      /\ r[short[d] + 1].fields \in SUBSET Fields
    BY <1>2, RowOf
<1> HIDE DEF f, top
<1>5. later \in Seq(Call) /\ later[Len(frames)] = f /\ Len(later) = Len(frames)
    BY <1>1, <1>3, Resumed
<1>6. Calls(later, "wasm")
    BY <1>1, <1>3, CallsResumed DEF top
<1>7. Framed(later, p, short, Len(r))
    BY <1>1, <1>3, FramedResumed DEF top
<1>8. \A id \in Ids : id # d => Taken(frames, id) = Taken(later, id)
    <2>1. ASSUME NEW id \in Ids, id # d
          PROVE  Taken(frames, id) = Taken(later, id)
        <3>1. Last(frames).doc.id # id /\ f.doc.id # id
            BY <1>3, <2>1 DEF top
        <3> QED
            BY <1>1, <1>3, <3>1, TakenResumed
    <2> QED
        BY <2>1
<1>9. Taken(later, d) = 1 .. (top.at + 1)
    <2>1. Len(frames) \in 1 .. Len(later)
        BY <1>1, <1>5
    <2>2. later[Len(frames)].op = "remove" /\ later[Len(frames)].doc.id = d
          /\ later[Len(frames)].at = top.at + 1
        BY <1>3, <1>5 DEF top
    <2> HIDE DEF later, d
    <2>3. Taken(later, later[Len(frames)].doc.id) = 1 .. later[Len(frames)].at
        BY <1>5, <1>6, <2>1, <2>2, TakenSoFar
    <2> QED
        BY <2>2, <2>3
<1>10. \A X : (X \ (1 .. top.at)) \ {top.at + 1} = X \ (1 .. (top.at + 1))
    <2>1. top.at \in Nat
        BY <1>2, FacadeAssumption
    <2>2. \A x : x \in 1 .. (top.at + 1) <=> x \in 1 .. top.at \/ x = top.at + 1
        BY <2>1
    <2> QED
        BY <2>2
<1>11. /\ up2 \in Copies /\ up2[d] = up[d] \ {top.at + 1}
       /\ \A id \in Ids : id # d => up2[id] = up[id]
    BY <1>1, <1>2, <1>4 DEF Copies
<1> HIDE DEF later, up2, d
<1>12. Mirrored(Line(r, p), short, later, up2)
    <2>1. ASSUME NEW id \in Ids
          PROVE  up2[id] = IF short[id] = NoShortId THEN NoDocument
                           ELSE Line(r, p)[short[id] + 1].fields \ Taken(later, id)
        <3>1. up[id] = IF short[id] = NoShortId THEN NoDocument
                       ELSE Line(r, p)[short[id] + 1].fields \ Taken(frames, id)
            BY <1>1 DEF Mirrored
        <3>2. CASE id = d
            <4>1. short[d] # NoShortId /\ Line(r, p)[short[d] + 1] = r[short[d] + 1]
                BY <1>2, RowOf
            <4>2. up2[d] = r[short[d] + 1].fields \ Taken(later, d)
                BY <1>4, <1>9, <1>10, <1>11
            <4> QED
                BY <3>2, <4>1, <4>2
        <3>3. CASE id # d
            BY <1>8, <1>11, <3>1, <3>3
        <3> QED
            BY <3>2, <3>3
    <2> QED
        BY <2>1 DEF Mirrored
<1>13. Native(table_, short, r, p, later, up2)
    BY <1>1, <1>5, <1>6, <1>7, <1>11, <1>12 DEF Native
<1> QED
    BY <1>13 DEF later, up2, d, f, top

\* A removal ends, and leaves the document as the engine has it.
LEMMA PopNative ==
    ASSUME NEW table_, NEW short, NEW r, NEW p, NEW frames, NEW up,
           Native(table_, short, r, p, frames, up),
           frames # <<>>, Last(frames).op = "remove"
    PROVE  Native(table_, short, r, p, Front(frames),
                  [up EXCEPT ![Last(frames).doc.id] =
                      r[short[Last(frames).doc.id] + 1].fields])
<1> DEFINE d == Last(frames).doc.id
           later == Front(frames)
           up2 == [up EXCEPT ![d] = r[short[d] + 1].fields]
<1>1. /\ table_ \in Tables /\ short \in ShortIds /\ r \in Seq(Row) /\ p \in PendingBatch
      /\ frames \in Seq(Call) /\ Calls(frames, "wasm") /\ up \in Copies
      /\ p.entries # <<>> => p.first = Len(r)
      /\ Numbered(table_, short, Line(r, p))
      /\ Framed(frames, p, short, Len(r))
      /\ Mirrored(Line(r, p), short, frames, up)
    BY NativeParts
<1>2. /\ d \in Ids /\ short[d] \in 0 .. (Len(r) - 1)
      /\ \A k \in 1 .. Len(later) : later[k].doc.id # d
    BY RemovalOnTop
<1>3. /\ r[short[d] + 1].fields \in SUBSET Fields /\ short[d] # NoShortId
      /\ Line(r, p)[short[d] + 1] = r[short[d] + 1]
    BY <1>2, RowOf
<1>4. later \in Seq(Call)
    BY <1>1, Shorter
<1>5. Calls(later, "wasm")
    BY <1>1, CallsBelow
<1>6. Framed(later, p, short, Len(r))
    BY <1>1, FramedBelow
<1>7. \A id \in Ids : id # d => Taken(frames, id) = Taken(later, id)
    BY <1>1, TakenBelow
<1>8. Taken(later, d) = {}
    BY <1>2, TakenNothing
<1>9. /\ up2 \in Copies /\ up2[d] = r[short[d] + 1].fields
      /\ \A id \in Ids : id # d => up2[id] = up[id]
    BY <1>1, <1>2, <1>3 DEF Copies
<1> HIDE DEF later, up2, d
<1>10. Mirrored(Line(r, p), short, later, up2)
    <2>1. ASSUME NEW id \in Ids
          PROVE  up2[id] = IF short[id] = NoShortId THEN NoDocument
                           ELSE Line(r, p)[short[id] + 1].fields \ Taken(later, id)
        <3>1. up[id] = IF short[id] = NoShortId THEN NoDocument
                       ELSE Line(r, p)[short[id] + 1].fields \ Taken(frames, id)
            BY <1>1 DEF Mirrored
        <3>2. CASE id = d
            BY <1>3, <1>8, <1>9, <3>2
        <3>3. CASE id # d
            BY <1>7, <1>9, <3>1, <3>3
        <3> QED
            BY <3>2, <3>3
    <2> QED
        BY <2>1 DEF Mirrored
<1>11. Native(table_, short, r, p, later, up2)
    BY <1>1, <1>4, <1>5, <1>6, <1>9, <1>10 DEF Native
<1> QED
    BY <1>11 DEF later, up2, d

----------------------------------------------------------------------------
(* The engine changes a document.                                          *)

RowReplaced(r, p, s, row) ==
    /\ [r EXCEPT ![s] = row] \in Seq(Row)
    /\ Len([r EXCEPT ![s] = row]) = Len(r)
    /\ Len(Line([r EXCEPT ![s] = row], p)) = Len(Line(r, p))
    /\ Line([r EXCEPT ![s] = row], p)[s] = row
    /\ \A t \in 1 .. Len(Line(r, p)) :
           t # s => Line([r EXCEPT ![s] = row], p)[t] = Line(r, p)[t]

LEMMA LineOfRow ==
    ASSUME NEW r \in Seq(Row), NEW p \in PendingBatch, NEW s \in 1 .. Len(r), NEW row \in Row
    PROVE  RowReplaced(r, p, s, row)
<1> DEFINE n == Len(r)
           m == Len(p.entries)
           r2 == [r EXCEPT ![s] = row]
           line == Line(r, p)
           later == Line(r2, p)
<1>1. /\ r2 \in Seq(Row) /\ Len(r2) = n /\ r2[s] = row
      /\ \A t \in 1 .. n : t # s => r2[t] = r[t]
    OBVIOUS
<1> HIDE DEF r2
<1>2. /\ Len(line) = n + m /\ n \in Nat /\ m \in Nat
      /\ \A t \in 1 .. n : line[t] = r[t]
      /\ \A e \in 1 .. m : line[n + e] = [id |-> p.entries[e].id, fields |-> p.entries[e].fields]
    BY LineFacts
<1>3. /\ Len(later) = n + m
      /\ \A t \in 1 .. n : later[t] = r2[t]
      /\ \A e \in 1 .. m : later[n + e] = [id |-> p.entries[e].id, fields |-> p.entries[e].fields]
    <2>1. /\ Len(later) = Len(r2) + m
          /\ \A t \in 1 .. Len(r2) : later[t] = r2[t]
          /\ \A e \in 1 .. m : later[Len(r2) + e] =
                 [id |-> p.entries[e].id, fields |-> p.entries[e].fields]
        BY <1>1, LineFacts
    <2> HIDE DEF later, n, m
    <2> QED
        BY <1>1, <2>1
<1> HIDE DEF line, later, n, m
<1>4. ASSUME NEW t \in 1 .. (n + m), t # s
      PROVE  later[t] = line[t]
    <2>1. CASE t <= n
        <3>1. t \in 1 .. n
            BY <1>2, <2>1
        <3> QED
            BY <1>1, <1>2, <1>3, <1>4, <3>1
    <2>2. CASE ~(t <= n)
        <3> DEFINE e == t - n
        <3>1. e \in 1 .. m /\ t = n + e
            BY <1>2, <2>2
        <3> HIDE DEF e
        <3> QED
            BY <1>2, <1>3, <3>1
    <2> QED
        BY <2>1, <2>2
<1>5. s \in 1 .. n
    BY DEF n
<1>6. /\ Len(later) = Len(line) /\ later[s] = row
      /\ \A t \in 1 .. Len(line) : t # s => later[t] = line[t]
    BY <1>1, <1>2, <1>3, <1>4, <1>5
<1> QED
    BY <1>1, <1>6 DEF RowReplaced, r2, later, line, n

\* The fields of a document that no call is about change, upstream's with them.
LEMMA RewriteNative ==
    ASSUME NEW table_, NEW short, NEW r, NEW p, NEW frames, NEW up,
           Native(table_, short, r, p, frames, up),
           NEW id \in Ids, short[id] \in 0 .. (Len(r) - 1),
           \A k \in 1 .. Len(frames) : frames[k].doc.id # id,
           NEW fields \in SUBSET Fields
    PROVE  Native(table_, short, [r EXCEPT ![short[id] + 1].fields = fields], p, frames,
                  [up EXCEPT ![id] = fields])
<1> DEFINE s == short[id] + 1
           row == [id |-> id, fields |-> fields]
           r2 == [r EXCEPT ![s] = row]
           up2 == [up EXCEPT ![id] = fields]
           line == Line(r, p)
           later == Line(r2, p)
<1>1. /\ table_ \in Tables /\ short \in ShortIds /\ r \in Seq(Row) /\ p \in PendingBatch
      /\ frames \in Seq(Call) /\ Calls(frames, "wasm") /\ up \in Copies
      /\ p.entries # <<>> => p.first = Len(r)
      /\ Numbered(table_, short, line)
      /\ Framed(frames, p, short, Len(r))
      /\ Mirrored(line, short, frames, up)
    BY NativeParts
<1>2. /\ short[id] # NoShortId /\ s \in 1 .. Len(r) /\ r[s] \in Row /\ r[s].id = id
      /\ line[s] = r[s]
    BY RowOf
<1>3. row \in Row
    BY DEF Row
<1>4. [r EXCEPT ![s].fields = fields] = r2
    <2> DEFINE old == r[s]
    <2>1. old \in Row /\ old.id = id
        BY <1>2
    <2> HIDE DEF old
    <2>2. [old EXCEPT !.fields = fields] = row
        BY <2>1 DEF Row
    <2>3. [r EXCEPT ![s].fields = fields] = [r EXCEPT ![s] = [r[s] EXCEPT !.fields = fields]]
        OBVIOUS
    <2>4. [r[s] EXCEPT !.fields = fields] = row
        BY <2>2 DEF old
    <2> HIDE DEF row, s
    <2> QED
        BY <2>3, <2>4
<1>5. row.id = id /\ row.fields = fields
    OBVIOUS
<1> HIDE DEF row, s
<1>6. /\ r2 \in Seq(Row) /\ Len(r2) = Len(r)
      /\ Len(later) = Len(line) /\ later[s] = row
      /\ \A t \in 1 .. Len(line) : t # s => later[t] = line[t]
    <2>1. RowReplaced(r, p, s, row)
        BY <1>1, <1>2, <1>3, LineOfRow
    <2> QED
        BY <2>1 DEF RowReplaced
<1> HIDE DEF r2, line, later
<1>7. Numbered(table_, short, later)
    <2>1. \A t \in 1 .. Len(line) : later[t].id = line[t].id
        BY <1>2, <1>5, <1>6
    <2> QED
        BY <1>1, <1>6, <2>1, Renumbered
<1>8. Taken(frames, id) = {}
    BY TakenNothing
<1>9. /\ up2 \in Copies /\ up2[id] = fields
      /\ \A i \in Ids : i # id => up2[i] = up[i]
    BY <1>1 DEF Copies
<1> HIDE DEF up2
<1>10. \A i \in Ids : short[i] # NoShortId =>
           /\ short[i] + 1 \in 1 .. Len(line) /\ table_[short[i] + 1] = i
           /\ short[i] \in Nat
    BY <1>1 DEF Numbered, ShortIds
<1>11. Mirrored(later, short, frames, up2)
    <2>1. ASSUME NEW i \in Ids
          PROVE  up2[i] = IF short[i] = NoShortId THEN NoDocument
                          ELSE later[short[i] + 1].fields \ Taken(frames, i)
        <3>1. up[i] = IF short[i] = NoShortId THEN NoDocument
                      ELSE line[short[i] + 1].fields \ Taken(frames, i)
            BY <1>1 DEF Mirrored
        <3>2. CASE i = id
            BY <1>2, <1>5, <1>6, <1>8, <1>9, <3>2 DEF s
        <3>3. CASE i # id /\ short[i] = NoShortId
            BY <1>9, <3>1, <3>3
        <3>4. CASE i # id /\ short[i] # NoShortId
            <4>1. short[i] + 1 # s
                BY <1>2, <1>10, <3>4 DEF s
            <4>2. later[short[i] + 1] = line[short[i] + 1]
                BY <1>6, <1>10, <3>4, <4>1
            <4> QED
                BY <1>9, <3>1, <3>4, <4>2
        <3> QED
            BY <3>2, <3>3, <3>4
    <2> QED
        BY <2>1 DEF Mirrored
<1>12. Native(table_, short, r2, p, frames, up2)
    BY <1>1, <1>6, <1>7, <1>9, <1>11 DEF Native, later
<1> QED
    BY <1>4, <1>12 DEF r2, up2, s

\* A document that no call is about leaves the engine and the tables.
LEMMA DropNative ==
    ASSUME NEW table_, NEW short, NEW r, NEW p, NEW frames, NEW up,
           Native(table_, short, r, p, frames, up),
           NEW id \in Ids, short[id] \in 0 .. (Len(r) - 1),
           \A k \in 1 .. Len(frames) : frames[k].doc.id # id
    PROVE  Native([table_ EXCEPT ![short[id] + 1] = NoId], [short EXCEPT ![id] = NoShortId],
                  [r EXCEPT ![short[id] + 1] = Dead], p, frames,
                  [up EXCEPT ![id] = NoDocument])
<1> DEFINE s == short[id] + 1
           table2 == [table_ EXCEPT ![s] = NoId]
           short2 == [short EXCEPT ![id] = NoShortId]
           r2 == [r EXCEPT ![s] = Dead]
           up2 == [up EXCEPT ![id] = NoDocument]
           line == Line(r, p)
           later == Line(r2, p)
<1>1. /\ table_ \in Tables /\ short \in ShortIds /\ r \in Seq(Row) /\ p \in PendingBatch
      /\ frames \in Seq(Call) /\ Calls(frames, "wasm") /\ up \in Copies
      /\ p.entries # <<>> => p.first = Len(r)
      /\ Numbered(table_, short, line)
      /\ Framed(frames, p, short, Len(r))
      /\ Mirrored(line, short, frames, up)
    BY NativeParts
<1>2. /\ short[id] # NoShortId /\ s \in 1 .. Len(r) /\ table_[s] = id
      /\ s \in Nat /\ s = short[id] + 1
    BY RowOf
<1>3. Dead \in Row /\ Dead.id = NoId
    BY DEF Dead, Row
<1>4. /\ Len(table_) = Len(line)
      /\ \A t \in 1 .. Len(line) : line[t].id = table_[t]
      /\ \A t \in 1 .. Len(line) : table_[t] # NoId => short[table_[t]] = t - 1
      /\ \A i \in Ids : short[i] # NoShortId =>
             /\ short[i] + 1 \in 1 .. Len(line) /\ table_[short[i] + 1] = i
             /\ short[i] \in Nat
    BY <1>1 DEF Numbered, ShortIds
<1>5. s \in 1 .. Len(line)
    BY <1>2, <1>4
<1>6. /\ table2 \in Tables /\ Len(table2) = Len(line) /\ table2[s] = NoId
      /\ \A t \in 1 .. Len(line) : t # s => table2[t] = table_[t]
    BY <1>1, <1>4, <1>5 DEF Tables
<1>7. /\ short2 \in ShortIds /\ short2[id] = NoShortId
      /\ \A i \in Ids : i # id => short2[i] = short[i]
    BY <1>1 DEF ShortIds
<1>8. /\ up2 \in Copies /\ up2[id] = NoDocument
      /\ \A i \in Ids : i # id => up2[i] = up[i]
    BY <1>1 DEF Copies
<1> HIDE DEF s, table2, short2, up2
<1>9. /\ r2 \in Seq(Row) /\ Len(r2) = Len(r)
      /\ Len(later) = Len(line) /\ later[s] = Dead
      /\ \A t \in 1 .. Len(line) : t # s => later[t] = line[t]
    <2>1. RowReplaced(r, p, s, Dead)
        BY <1>1, <1>2, <1>3, LineOfRow
    <2> QED
        BY <2>1 DEF RowReplaced
<1> HIDE DEF r2, line, later
<1>10. Numbered(table2, short2, later)
    <2>1. \A t \in 1 .. Len(line) : later[t].id = table2[t]
        BY <1>3, <1>4, <1>6, <1>9
    <2>2. ASSUME NEW t \in 1 .. Len(line), table2[t] # NoId
          PROVE  short2[table2[t]] = t - 1
        <3>1. t # s /\ table2[t] = table_[t]
            BY <1>6, <2>2
        <3>2. table_[t] \in Ids /\ short[table_[t]] = t - 1
            BY <1>1, <1>4, <2>2, <3>1 DEF Tables
        <3>3. table_[t] # id
            <4>1. ASSUME table_[t] = id
                  PROVE  FALSE
                <5>1. short[id] = t - 1 /\ t \in Int
                    BY <3>2, <4>1
                <5> QED
                    BY <1>2, <3>1, <5>1
            <4> QED
                BY <4>1
        <3> QED
            BY <1>7, <3>1, <3>2, <3>3
    <2>3. ASSUME NEW i \in Ids, short2[i] # NoShortId
          PROVE  short2[i] + 1 \in 1 .. Len(line) /\ table2[short2[i] + 1] = i
        <3>1. i # id /\ short2[i] = short[i]
            BY <1>7, <2>3
        <3>2. short[i] + 1 \in 1 .. Len(line) /\ table_[short[i] + 1] = i
            BY <1>4, <2>3, <3>1
        <3>3. short[i] + 1 # s
            BY <1>2, <3>1, <3>2
        <3> QED
            BY <1>6, <3>1, <3>2, <3>3
    <2> QED
        BY <1>6, <1>9, <2>1, <2>2, <2>3 DEF Numbered
<1>11. Framed(frames, p, short2, Len(r2))
    <2>1. \A k \in 1 .. Len(frames) : frames[k].op \in {"add", "remove"} =>
              short2[frames[k].doc.id] = short[frames[k].doc.id]
        BY <1>1, <1>7, Frames
    <2> QED
        BY <1>1, <1>9, <2>1 DEF Framed
<1>12. Mirrored(later, short2, frames, up2)
    <2>1. ASSUME NEW i \in Ids
          PROVE  up2[i] = IF short2[i] = NoShortId THEN NoDocument
                          ELSE later[short2[i] + 1].fields \ Taken(frames, i)
        <3>1. up[i] = IF short[i] = NoShortId THEN NoDocument
                      ELSE line[short[i] + 1].fields \ Taken(frames, i)
            BY <1>1 DEF Mirrored
        <3>2. CASE i = id
            BY <1>7, <1>8, <3>2
        <3>3. CASE i # id /\ short[i] = NoShortId
            BY <1>7, <1>8, <3>1, <3>3
        <3>4. CASE i # id /\ short[i] # NoShortId
            <4>1. short[i] + 1 # s
                BY <1>2, <1>4, <3>4
            <4>2. later[short[i] + 1] = line[short[i] + 1]
                BY <1>4, <1>9, <3>4, <4>1
            <4> QED
                BY <1>7, <1>8, <3>1, <3>4, <4>2
        <3> QED
            BY <3>2, <3>3, <3>4
    <2> QED
        BY <2>1 DEF Mirrored
<1>13. Native(table2, short2, r2, p, frames, up2)
    BY <1>1, <1>6, <1>7, <1>8, <1>9, <1>10, <1>11, <1>12 DEF Native, later
<1> QED
    BY <1>13 DEF table2, short2, r2, up2, s

----------------------------------------------------------------------------
(* The whole index.                                                        *)

\* Without a batch, the line is what the engine has.
LEMMA LineAlone ==
    ASSUME NEW r \in Seq(Row), NEW p \in PendingBatch, p.entries = <<>>
    PROVE  Line(r, p) = r
<1>1. /\ Line(r, p) \in Seq(Row) /\ Len(Line(r, p)) = Len(r) + Len(p.entries)
      /\ \A s \in 1 .. Len(r) : Line(r, p)[s] = r[s]
    BY LineFacts
<1>2. Len(p.entries) = 0 /\ Len(r) \in Nat
    OBVIOUS
<1> DEFINE line == Line(r, p)
<1> HIDE DEF line
<1>3. line \in Seq(Row) /\ Len(line) = Len(r) /\ \A s \in 1 .. Len(line) : line[s] = r[s]
    BY <1>1, <1>2 DEF line
<1>4. line = r
    BY <1>3, SeqEqual
<1> QED
    BY <1>4 DEF line

LEMMA LastOf ==
    ASSUME NEW S, NEW seq \in Seq(S), NEW x
    PROVE  /\ (\A i \in 1 .. Len(seq) : seq[i] # x) =>
                  SelectLastInSeq(seq, LAMBDA y : y = x) = 0
           /\ \A i \in 1 .. Len(seq) :
                  seq[i] = x /\ (\A j \in 1 .. Len(seq) : seq[j] = x => j = i) =>
                      SelectLastInSeq(seq, LAMBDA y : y = x) = i
<1> DEFINE I == {i \in 1 .. Len(seq) : seq[i] = x}
<1>1. SelectLastInSeq(seq, LAMBDA y : y = x) = IF I # {} THEN Max(I) ELSE 0
    BY DEF SelectLastInSeq
<1>2. ASSUME NEW i \in 1 .. Len(seq), seq[i] = x, \A j \in 1 .. Len(seq) : seq[j] = x => j = i
      PROVE  SelectLastInSeq(seq, LAMBDA y : y = x) = i
    <2>1. I = {i} /\ i \in Int
        BY <1>2
    <2>2. Max(I) = i
        BY <2>1 DEF Max
    <2> QED
        BY <1>1, <2>1, <2>2
<1>3. (\A i \in 1 .. Len(seq) : seq[i] # x) => I = {}
    OBVIOUS
<1> QED
    BY <1>1, <1>2, <1>3

\* An empty index.
LEMMA EmptyNative ==
    ASSUME NEW p \in PendingBatch, p.entries = <<>>
    PROVE  Native(<<>>, NoShortIds, <<>>, p, <<>>, NoDocuments)
<1>1. /\ <<>> \in Tables /\ NoShortIds \in ShortIds /\ <<>> \in Seq(Row) /\ <<>> \in Seq(Call)
      /\ NoDocuments \in Copies /\ Len(<<>>) = 0
    BY DEF Tables, NoShortIds, ShortIds, NoDocuments, Copies
<1>2. Line(<<>>, p) = <<>>
    BY <1>1, LineAlone
<1>3. Numbered(<<>>, NoShortIds, <<>>)
    BY <1>1 DEF Numbered, NoShortIds
<1>4. Calls(<<>>, "wasm")
    BY DEF Calls
<1>5. Len(p.entries) = 0
    OBVIOUS
<1>6. Framed(<<>>, p, NoShortIds, 0)
    BY <1>1, <1>5 DEF Framed
<1>7. Mirrored(<<>>, NoShortIds, <<>>, NoDocuments)
    BY DEF Mirrored, NoShortIds, NoDocuments
<1> QED
    BY <1>1, <1>2, <1>3, <1>4, <1>6, <1>7 DEF Native

\* The tables and rows after a compaction.
NewShortIds(table_) == [i \in Ids |-> SelectLastInSeq(table_, LAMBDA x : x = i) - 1]

\* A compaction keeps every document, and renumbers them.
LEMMA CompactNative ==
    ASSUME NEW table_, NEW short, NEW r, NEW p, NEW up,
           Native(table_, short, r, p, <<>>, up), p.entries = <<>>
    PROVE  Native(Selected(table_, LivePositions(r)),
                  NewShortIds(Selected(table_, LivePositions(r))),
                  Selected(r, LivePositions(r)), p, <<>>, up)
<1> DEFINE n == Len(r)
           at == LivePositions(r)
           c == Cardinality(at)
           table2 == Selected(table_, at)
           r2 == Selected(r, at)
           short2 == NewShortIds(table2)
<1>1. /\ table_ \in Tables /\ short \in ShortIds /\ r \in Seq(Row) /\ p \in PendingBatch
      /\ <<>> \in Seq(Call) /\ Calls(<<>>, "wasm") /\ up \in Copies
      /\ Numbered(table_, short, Line(r, p)) /\ Mirrored(Line(r, p), short, <<>>, up)
    BY NativeParts
<1>2. Line(r, p) = r
    BY <1>1, LineAlone
<1>3. n \in Nat /\ at \in SUBSET (1 .. n) /\ \A s \in 1 .. n : s \in at <=> r[s] # Dead
    BY <1>1 DEF LivePositions
<1>4. /\ Len(table_) = n
      /\ \A s \in 1 .. n : r[s].id = table_[s] /\ s \in Nat
      /\ \A s \in 1 .. n : table_[s] # NoId => short[table_[s]] = s - 1
      /\ \A id \in Ids : short[id] # NoShortId =>
             short[id] + 1 \in 1 .. n /\ table_[short[id] + 1] = id
    BY <1>1, <1>2 DEF Numbered
<1>5. \A s \in 1 .. n : table_[s] \in Ids \cup {NoId} /\ r[s] \in Row
    BY <1>1, <1>4 DEF Tables
<1>6. c \in Nat
    BY <1>3, PositionSets
<1>7. PICK pos : Picks(at, pos)
    BY <1>3, Selection
<1> HIDE DEF at, n, c
<1>8. /\ \A k \in 1 .. c : pos[k] \in 1 .. n /\ pos[k] \in at
      /\ \A k, l \in 1 .. c : k < l => pos[k] < pos[l]
      /\ \A s \in at : \E k \in 1 .. c : pos[k] = s
    BY <1>3, <1>7 DEF Picks, c
<1>9. /\ table2 = [k \in 1 .. c |-> table_[pos[k]]]
      /\ r2 = [k \in 1 .. c |-> r[pos[k]]]
    BY <1>7 DEF Picks, c
<1> HIDE DEF table2, r2, short2
<1>10. /\ table2 \in Tables /\ Len(table2) = c
       /\ \A k \in 1 .. c : table2[k] = table_[pos[k]]
    BY <1>5, <1>6, <1>8, <1>9 DEF Tables
<1>11. /\ r2 \in Seq(Row) /\ Len(r2) = c
       /\ \A k \in 1 .. c : r2[k] = r[pos[k]]
    BY <1>5, <1>6, <1>8, <1>9
<1>12. \A k, l \in 1 .. c : pos[k] = pos[l] => k = l
    <2>1. ASSUME NEW k \in 1 .. c, NEW l \in 1 .. c, pos[k] = pos[l]
          PROVE  k = l
        <3>1. pos[k] \in Nat /\ ~(pos[k] < pos[l]) /\ ~(pos[l] < pos[k])
            BY <1>3, <1>8, <2>1
        <3>2. k \in Int /\ l \in Int
            OBVIOUS
        <3> QED
            BY <1>8, <3>1, <3>2
    <2> QED
        BY <2>1
<1>13. \A k \in 1 .. c : table2[k] # NoId => \A l \in 1 .. c : table2[l] = table2[k] => l = k
    <2>1. ASSUME NEW k \in 1 .. c, table2[k] # NoId, NEW l \in 1 .. c, table2[l] = table2[k]
          PROVE  l = k
        <3>1. /\ pos[k] \in 1 .. n /\ pos[l] \in 1 .. n
              /\ table_[pos[k]] # NoId /\ table_[pos[l]] = table_[pos[k]]
            BY <1>8, <1>10, <2>1
        <3>2. short[table_[pos[k]]] = pos[k] - 1 /\ short[table_[pos[k]]] = pos[l] - 1
            BY <1>4, <3>1
        <3>3. pos[k] = pos[l]
            BY <3>1, <3>2
        <3> QED
            BY <1>12, <3>3
    <2> QED
        BY <2>1
<1>14. ASSUME NEW id \in Ids, NEW k \in 1 .. c, table2[k] = id
       PROVE  short2[id] = k - 1
    <2>1. id # NoId
        BY FacadeAssumption
    <2>2. \A l \in 1 .. Len(table2) : table2[l] = id => l = k
        BY <1>10, <1>13, <1>14, <2>1
    <2>3. table2 \in Seq(Ids \cup {NoId}) /\ k \in 1 .. Len(table2)
        BY <1>10 DEF Tables
    <2>4. SelectLastInSeq(table2, LAMBDA y : y = id) = k
        <3> DEFINE S == Ids \cup {NoId}
        <3>1. table2 \in Seq(S)
            BY <2>3
        <3> HIDE DEF S
        <3>2. \A i \in 1 .. Len(table2) :
                  table2[i] = id /\ (\A j \in 1 .. Len(table2) : table2[j] = id => j = i) =>
                      SelectLastInSeq(table2, LAMBDA y : y = id) = i
            BY <3>1, LastOf
        <3> QED
            BY <1>14, <2>2, <2>3, <3>2, Zenon
    <2>5. short2[id] = SelectLastInSeq(table2, LAMBDA y : y = id) - 1
        BY DEF short2, NewShortIds
    <2> QED
        BY <2>4, <2>5
<1>15. ASSUME NEW id \in Ids, \A k \in 1 .. c : table2[k] # id
       PROVE  short2[id] = NoShortId
    <2>1. table2 \in Seq(Ids \cup {NoId}) /\ \A k \in 1 .. Len(table2) : table2[k] # id
        BY <1>10, <1>15 DEF Tables
    <2>2. SelectLastInSeq(table2, LAMBDA y : y = id) = 0
        BY <2>1, LastOf
    <2>3. short2[id] = SelectLastInSeq(table2, LAMBDA y : y = id) - 1
        BY DEF short2, NewShortIds
    <2> QED
        BY <2>2, <2>3 DEF NoShortId
<1>16. short2 \in ShortIds
    <2>1. ASSUME NEW id \in Ids
          PROVE  short2[id] \in Nat \cup {NoShortId}
        <3>1. CASE \E k \in 1 .. c : table2[k] = id
            <4>1. PICK k \in 1 .. c : table2[k] = id
                BY <3>1
            <4>2. short2[id] = k - 1 /\ k - 1 \in Nat
                BY <1>6, <1>14, <4>1
            <4> QED
                BY <4>2
        <3>2. CASE \A k \in 1 .. c : table2[k] # id
            BY <1>15, <3>2
        <3> QED
            BY <3>1, <3>2
    <2>2. short2 = [i \in Ids |-> short2[i]]
        BY DEF short2, NewShortIds
    <2> QED
        BY <2>1, <2>2 DEF ShortIds
<1>17. Numbered(table2, short2, r2)
    <2>1. \A k \in 1 .. c : r2[k].id = table2[k]
        BY <1>4, <1>8, <1>10, <1>11
    <2>2. ASSUME NEW k \in 1 .. c, table2[k] # NoId
          PROVE  short2[table2[k]] = k - 1
        <3>1. table2[k] \in Ids
            BY <1>5, <1>8, <1>10, <2>2
        <3> QED
            BY <1>14, <3>1
    <2>3. ASSUME NEW id \in Ids, short2[id] # NoShortId
          PROVE  short2[id] + 1 \in 1 .. c /\ table2[short2[id] + 1] = id
        <3>1. PICK k \in 1 .. c : table2[k] = id
            BY <1>15, <2>3
        <3>2. short2[id] = k - 1 /\ k - 1 + 1 = k
            BY <1>6, <1>14, <3>1
        <3> QED
            BY <3>1, <3>2
    <2> QED
        BY <1>10, <1>11, <2>1, <2>2, <2>3 DEF Numbered
<1>18. Mirrored(r2, short2, <<>>, up)
    <2>1. ASSUME NEW id \in Ids
          PROVE  up[id] = IF short2[id] = NoShortId THEN NoDocument
                          ELSE r2[short2[id] + 1].fields \ Taken(<<>>, id)
        <3>1. up[id] = IF short[id] = NoShortId THEN NoDocument
                       ELSE r[short[id] + 1].fields \ Taken(<<>>, id)
            BY <1>1, <1>2 DEF Mirrored
        <3>2. CASE short[id] = NoShortId
            <4>1. ASSUME NEW k \in 1 .. c, table2[k] = id
                  PROVE  FALSE
                <5>1. pos[k] \in 1 .. n /\ table_[pos[k]] = id /\ id # NoId /\ n \in Nat
                    BY <1>3, <1>8, <1>10, <4>1, FacadeAssumption
                <5>2. short[id] = pos[k] - 1
                    BY <1>4, <5>1
                <5> QED
                    BY <3>2, <5>1, <5>2 DEF NoShortId
            <4>2. short2[id] = NoShortId
                BY <1>15, <4>1
            <4> QED
                BY <3>1, <3>2, <4>2
        <3>3. CASE short[id] # NoShortId
            <4> DEFINE s == short[id] + 1
            <4>1. s \in 1 .. n /\ table_[s] = id /\ id # NoId
                BY <1>4, <3>3, FacadeAssumption
            <4>2. r[s] # Dead
                BY <1>4, <4>1 DEF Dead
            <4>3. s \in at
                BY <1>3, <4>1, <4>2
            <4>4. PICK k \in 1 .. c : pos[k] = s
                BY <1>8, <4>3
            <4>5. table2[k] = id /\ r2[k] = r[s]
                BY <1>10, <1>11, <4>1, <4>4
            <4>6. short2[id] = k - 1 /\ short2[id] # NoShortId /\ k - 1 + 1 = k
                BY <1>6, <1>14, <4>5 DEF NoShortId
            <4>7. r2[short2[id] + 1] = r[s]
                BY <4>5, <4>6
            <4> QED
                BY <3>1, <3>3, <4>6, <4>7
        <3> QED
            BY <3>2, <3>3
    <2> QED
        BY <2>1 DEF Mirrored
<1>19. Line(r2, p) = r2
    BY <1>1, <1>11, LineAlone
<1>20. Framed(<<>>, p, short2, Len(r2))
    <2>1. Len(<<>>) = 0 /\ Len(p.entries) = 0
        OBVIOUS
    <2> QED
        BY <2>1 DEF Framed
<1>21. Native(table2, short2, r2, p, <<>>, up)
    BY <1>1, <1>10, <1>11, <1>16, <1>17, <1>18, <1>19, <1>20 DEF Native
<1> QED
    BY <1>21 DEF table2, short2, r2, at

\* What a transfer reads from the engine and the tables is what upstream has.
LEMMA Carried ==
    ASSUME NEW table_, NEW short, NEW r, NEW p, NEW frames, NEW up,
           Native(table_, short, r, p, frames, up), p.entries = <<>>,
           \A k \in 1 .. Len(frames) : frames[k].op # "remove"
    PROVE  up = [i \in Ids |->
                    IF short[i] = NoShortId THEN NoDocument
                    ELSE IF short[i] < Len(r) THEN r[short[i] + 1].fields ELSE {}]
<1>1. /\ up \in Copies /\ r \in Seq(Row) /\ p \in PendingBatch /\ short \in ShortIds
      /\ Numbered(table_, short, Line(r, p))
      /\ Mirrored(Line(r, p), short, frames, up)
    BY NativeParts
<1>2. Line(r, p) = r
    BY <1>1, LineAlone
<1>3. \A id \in Ids : Taken(frames, id) = {}
    BY TakenNothing
<1>4. ASSUME NEW id \in Ids
      PROVE  up[id] = IF short[id] = NoShortId THEN NoDocument
                      ELSE IF short[id] < Len(r) THEN r[short[id] + 1].fields ELSE {}
    <2>1. up[id] = IF short[id] = NoShortId THEN NoDocument
                   ELSE r[short[id] + 1].fields \ {}
        BY <1>1, <1>2, <1>3 DEF Mirrored
    <2>2. short[id] # NoShortId => short[id] < Len(r)
        <3>1. short[id] # NoShortId => short[id] + 1 \in 1 .. Len(r) /\ short[id] \in Nat
            BY <1>1, <1>2 DEF Numbered, ShortIds
        <3> QED
            BY <1>1, <3>1
    <2>3. r[short[id] + 1].fields \ {} = r[short[id] + 1].fields
        OBVIOUS
    <2> QED
        BY <2>1, <2>2, <2>3
<1> QED
    BY <1>1, <1>4 DEF Copies

\* Frames that no call of a gone document is among stay as they are.
LEMMA SameFrames ==
    ASSUME NEW frames \in Seq(Call), NEW gone,
           \A k \in 1 .. Len(frames) : frames[k].doc.id \notin gone
    PROVE  WithoutDocuments(frames, gone) = frames
BY DEF WithoutDocuments

----------------------------------------------------------------------------
(* Every step keeps the invariant.                                         *)

\* Before the transfer.
InWasm ==
    /\ mode = "wasm" /\ dirty \in BOOLEAN /\ js \in Copies /\ Versions
    /\ Native(ids, shortIds, rows, pending, stack, upstream)
    /\ Waiting(pending, stack)

\* After it.
InJS == mode = "javascript" /\ dirty \in BOOLEAN /\ js \in Copies /\ Versions /\ Moved

LEMMA Modes == IInv <=> InWasm \/ InJS
BY DEF IInv, InWasm, InJS

\* A batch that starts with an open entry waits for a call in progress.
LEMMA WaitsForCall ==
    ASSUME NEW table_, NEW short, NEW r, NEW p, NEW frames, NEW up,
           Native(table_, short, r, p, frames, up),
           p.entries # <<>> => p.entries[1].open
    PROVE  Waiting(p, frames)
<1>1. p \in PendingBatch /\ Framed(frames, p, short, Len(r))
    BY NativeParts
<1>2. SUFFICES ASSUME p.entries # <<>>
               PROVE  ~Steady(frames)
    BY DEF Waiting
<1>3. 1 \in 1 .. Len(p.entries) /\ p.entries[1].open
    BY <1>1, <1>2, Entries
<1>4. p.entries[1].depth \in 1 .. Len(frames) /\ frames[p.entries[1].depth].op = "add"
    BY <1>1, <1>3 DEF Framed
<1> QED
    BY <1>4 DEF Steady

\* What every call does first.
LEMMA Flushing ==
    ASSUME InWasm
    PROVE  /\ FlushedWell(pending) /\ Flushed(pending).ok
           /\ Native(ids, shortIds, Flushed(pending).rows, Flushed(pending).pending, stack, upstream)
           /\ Waiting(Flushed(pending).pending, stack)
           /\ stack = <<>> =>
                  /\ Flushed(pending).pending.entries = <<>> /\ pending.entries = <<>>
<1>1. mode = "wasm" /\ Native(ids, shortIds, rows, pending, stack, upstream)
    BY DEF InWasm
<1>2. /\ FlushedWell(pending)
      /\ Native(ids, shortIds, Flushed(pending).rows, Flushed(pending).pending, stack, upstream)
    BY <1>1, FlushNative
<1>3. Flushed(pending).ok /\
      (Flushed(pending).pending.entries # <<>> => Flushed(pending).pending.entries[1].open)
    BY <1>2 DEF FlushedWell
<1>4. Waiting(Flushed(pending).pending, stack)
    BY <1>2, <1>3, WaitsForCall
<1>5. stack = <<>> => Steady(stack)
    BY DEF Steady
<1>6. stack = <<>> => /\ Flushed(pending).pending.entries = <<>> /\ pending.entries = <<>>
    BY <1>4, <1>5 DEF InWasm, Waiting
<1> QED
    BY <1>2, <1>3, <1>4, <1>6

\* The add or addAll that a call begins.
LEMMA Unsteady ==
    ASSUME NEW frames \in Seq(Call), NEW f \in Call, f.op \in {"add", "all"}
    PROVE  ~Steady(Append(frames, f))
<1>1. /\ Len(Append(frames, f)) = Len(frames) + 1 /\ Len(frames) \in Nat
      /\ Append(frames, f)[Len(frames) + 1] = f
    BY Longer
<1>2. Len(frames) + 1 \in 1 .. Len(Append(frames, f))
    BY <1>1
<1> QED
    BY <1>1, <1>2 DEF Steady

LEMMA CollectStep ==
    ASSUME InWasm, NEW doc \in Documents, NEW p, NEW many \in BOOLEAN,
           many => Len(stack) > 0 /\ stack[Len(stack)].op = "all",
           Native(ids, shortIds, rows', p, stack, upstream),
           Collect(doc, p, many)
    PROVE  InWasm'
<1> DEFINE f == Frame("add", doc, Len(ids), many)
           entry == [id |-> doc.id, fields |-> {}, open |-> TRUE, depth |-> Len(stack) + 1]
<1>1. /\ shortIds[doc.id] = NoShortId
      /\ shortIds' = [shortIds EXCEPT ![doc.id] = Len(ids)]
      /\ ids' = Append(ids, doc.id)
      /\ pending' = [first |-> IF p.entries = <<>> THEN Len(ids) ELSE p.first,
                     entries |-> Append(p.entries, entry)]
      /\ stack' = Append(stack, f)
      /\ upstream' = [upstream EXCEPT ![doc.id] = {}]
      /\ mode' = mode /\ dirty' = dirty /\ version' = version /\ table' = table /\ js' = js
    BY DEF Collect
<1>2. ids \in Tables /\ stack \in Seq(Call) /\ p \in PendingBatch /\ doc.id \in Ids
    BY NativeParts DEF Documents
<1>3. Len(ids) \in Nat /\ Len(stack) \in Nat
    BY <1>2 DEF Tables
<1>4. f \in Call /\ f.op = "add"
    <2>1. 0 \in 0 .. FieldCount
        BY FacadeAssumption
    <2> QED
        BY <1>3, <2>1 DEF Frame, Call
<1>5. entry \in PendingEntry
    BY <1>2, <1>3 DEF PendingEntry
<1> HIDE DEF f, entry
<1>6. pending' \in PendingBatch
    <2>1. Append(p.entries, entry) \in Seq(PendingEntry) /\ p.first \in Nat
        BY <1>2, <1>5, Longer, Entries
    <2> QED
        BY <1>1, <1>3, <2>1 DEF PendingBatch
<1>7. /\ pending'.first = IF p.entries = <<>> THEN Len(ids) ELSE p.first
      /\ pending'.entries = Append(p.entries, entry)
    BY <1>1
<1>8. Native(ids', shortIds', rows', pending', stack', upstream')
    BY <1>1, <1>6, <1>7, AddBegins DEF f, entry
<1>9. ~Steady(stack')
    BY <1>1, <1>2, <1>4, Unsteady
<1>10. Versions' /\ Waiting(pending', stack')
    BY <1>1, <1>9 DEF InWasm, Versions, Waiting
<1> QED
    BY <1>1, <1>8, <1>10 DEF InWasm

LEMMA AddStep ==
    ASSUME InWasm, NEW doc \in Documents, Add(doc)
    PROVE  InWasm'
<1>1. Native(ids, shortIds, rows', Flushed(pending).pending, stack, upstream)
    BY Flushing DEF Add
<1>2. Collect(doc, Flushed(pending).pending, FALSE)
    BY DEF Add
<1> QED
    BY <1>1, <1>2, CollectStep

LEMMA AddNextStep ==
    ASSUME InWasm, NEW doc \in Documents, AddNext(doc)
    PROVE  InWasm'
<1>1. /\ stack # <<>> /\ Top.op = "all" /\ rows' = rows /\ Collect(doc, pending, TRUE)
      /\ Native(ids, shortIds, rows, pending, stack, upstream)
    BY DEF AddNext, InWasm
<1>2. stack \in Seq(Call)
    BY <1>1, NativeParts
<1>3. Last(stack) = stack[Len(stack)] /\ Len(stack) \in Nat /\ Len(stack) >= 1
    BY <1>1, <1>2, Shorter
<1>4. Len(stack) > 0 /\ stack[Len(stack)].op = "all"
    BY <1>1, <1>3 DEF Top
<1>5. Native(ids, shortIds, rows', pending, stack, upstream)
    BY <1>1
<1> QED
    BY <1>1, <1>4, <1>5, CollectStep

LEMMA Settled ==
    ASSUME mode = "wasm", NEW p, NEW frames, NEW up,
           Native(ids, shortIds, rows, p, frames, up), Settle(p)
    PROVE  /\ Native(ids, shortIds, rows', pending', frames, up)
           /\ Waiting(pending', frames) /\ version' = version + 1
<1>1. FlushedWell(p) /\
      Native(ids, shortIds, Flushed(p).rows, Flushed(p).pending, frames, up)
    BY FlushNative
<1>2. Flushed(p).ok /\ (Flushed(p).pending.entries # <<>> => Flushed(p).pending.entries[1].open)
    BY <1>1 DEF FlushedWell
<1>3. Waiting(Flushed(p).pending, frames)
    BY <1>1, <1>2, WaitsForCall
<1>4. /\ pending' = Flushed(p).pending /\ rows' = Flushed(p).rows /\ version' = version + 1
    BY <1>2 DEF Settle
<1> QED
    BY <1>1, <1>3, <1>4

LEMMA Newer ==
    ASSUME Versions, version' = version + 1, table' = table
    PROVE  Versions'
BY DEF Versions

LEMMA AddDuplicateStep ==
    ASSUME InWasm, NEW doc \in Documents, AddDuplicate(doc)
    PROVE  InWasm'
<1>1. /\ mode = "wasm" /\ Settle(pending) /\ Versions
      /\ Native(ids, shortIds, rows, pending, stack, upstream)
      /\ UNCHANGED <<mode, ids, shortIds, dirty, js, table, stack, upstream>>
    BY DEF AddDuplicate, InWasm
<1>2. /\ Native(ids, shortIds, rows', pending', stack, upstream)
      /\ Waiting(pending', stack) /\ version' = version + 1
    BY <1>1, Settled
<1>3. Versions'
    BY <1>1, <1>2, Newer
<1> QED
    BY <1>1, <1>2, <1>3 DEF InWasm

LEMMA AddAllStep ==
    ASSUME InWasm, AddAll
    PROVE  InWasm'
<1>1. /\ pending' = Flushed(pending).pending /\ rows' = Flushed(pending).rows
      /\ stack' = Append(stack, AllFrame)
      /\ UNCHANGED <<mode, ids, shortIds, dirty, js, version, table, upstream>>
    BY DEF AddAll, Check
<1>2. Native(ids, shortIds, rows', pending', stack, upstream)
    BY <1>1, Flushing
<1>3. /\ AllFrame \in Call /\ AllFrame.op = "all" /\ ~AllFrame.many /\ AllFrame.at = 0
      /\ AllFrame.doc.id = NoId
    <2>1. 0 \in 0 .. FieldCount
        BY FacadeAssumption
    <2> QED
        BY <2>1 DEF AllFrame, Frame, Call
<1>4. Native(ids, shortIds, rows', pending', Append(stack, AllFrame), upstream)
    BY <1>2, <1>3, CallBegins
<1>5. ~Steady(Append(stack, AllFrame))
    <2>1. stack \in Seq(Call)
        BY <1>2, NativeParts
    <2> QED
        BY <1>3, <2>1, Unsteady
<1>6. Versions' /\ Waiting(pending', stack')
    BY <1>1, <1>5 DEF InWasm, Versions, Waiting
<1> QED
    BY <1>1, <1>4, <1>6 DEF InWasm

LEMMA CollectFieldStep ==
    ASSUME InWasm, CollectField
    PROVE  InWasm'
<1> DEFINE f == [Top EXCEPT !.at = @ + 1]
<1>1. /\ stack # <<>> /\ Top.op = "add" /\ Top.at < FieldCount
      /\ pending' = Entry({Top.at + 1}, TRUE)
      /\ stack' = Append(Front(stack), f)
      /\ upstream' = Upstream(Top, upstream[Top.doc.id] \cup {Top.at + 1})
      /\ mode' = mode /\ ids' = ids /\ shortIds' = shortIds /\ rows' = rows
      /\ dirty' = dirty /\ js' = js /\ version' = version /\ table' = table
    BY DEF CollectField, InCall, HasField, NextField, Resume, Below, facade
<1>2. Native(ids, shortIds, rows, pending, stack, upstream)
    BY DEF InWasm
<1>3. Top.current
    BY <1>1, <1>2, EntryOfTop
<1>4. upstream' = [upstream EXCEPT ![Top.doc.id] = upstream[Top.doc.id] \cup {Top.at + 1}]
    BY <1>1, <1>3 DEF Upstream
<1>5. Native(ids', shortIds', rows', pending', stack', upstream')
    <2>1. Native(ids, shortIds, rows, Entry({Top.at + 1}, TRUE), Append(Front(stack), f),
                 [upstream EXCEPT ![Top.doc.id] = upstream[Top.doc.id] \cup {Top.at + 1}])
        BY <1>1, <1>2, FieldNative
    <2> HIDE DEF f
    <2> QED
        BY <1>1, <1>4, <2>1
<1>6. ~Steady(stack')
    <2>1. stack \in Seq(Call)
        BY <1>2, NativeParts
    <2>2. Front(stack) \in Seq(Call) /\ Top \in Call
        BY <1>1, <2>1, Shorter DEF Top
    <2>3. f \in Call /\ f.op = "add"
        BY <1>1, <2>2, NextOf
    <2> QED
        BY <1>1, <2>2, <2>3, Unsteady
<1>7. Versions' /\ Waiting(pending', stack')
    BY <1>1, <1>6 DEF InWasm, Versions, Waiting
<1> QED
    BY <1>1, <1>5, <1>7 DEF InWasm

LEMMA FinishAddStep ==
    ASSUME InWasm, FinishAdd
    PROVE  InWasm'
<1>1. /\ stack # <<>> /\ Top.op \in {"add", "addInJS"} /\ stack' = Front(stack)
      /\ mode = "wasm" /\ Versions /\ dirty \in BOOLEAN /\ js \in Copies
      /\ UNCHANGED <<mode, ids, shortIds, dirty, js, table, upstream>>
      /\ Native(ids, shortIds, rows, pending, stack, upstream)
    BY DEF FinishAdd, InCall, InWasm, Below
<1>2. stack \in Seq(Call) /\ Calls(stack, "wasm")
    BY <1>1, NativeParts
<1>3. /\ Top = stack[Len(stack)] /\ Len(stack) \in Nat /\ Len(stack) >= 1
      /\ Front(stack) \in Seq(Call) /\ Len(Front(stack)) = Len(stack) - 1
      /\ \A i \in 1 .. Len(Front(stack)) : Front(stack)[i] = stack[i]
    <2>1. /\ Last(stack) = stack[Len(stack)] /\ Len(stack) \in Nat /\ Len(stack) >= 1
          /\ Front(stack) \in Seq(Call) /\ Len(Front(stack)) = Len(stack) - 1
          /\ \A i \in 1 .. Len(Front(stack)) : Front(stack)[i] = stack[i]
        BY <1>1, <1>2, Shorter
    <2> QED
        BY <2>1 DEF Top
<1>4. Top.op = "add"
    <2>1. Len(stack) \in 1 .. Len(stack)
        BY <1>3
    <2>2. stack[Len(stack)].op \in {"add", "all", "remove"}
        BY <1>2, <2>1 DEF Calls
    <2> QED
        BY <1>1, <1>3, <2>2
<1>5. Native(ids, shortIds, rows, Closed, Front(stack), upstream)
    BY <1>1, <1>4, CloseNative
<1>6. CASE ~Top.many
    <2>1. Settle(Closed)
        BY <1>6 DEF FinishAdd
    <2>2. /\ Native(ids, shortIds, rows', pending', Front(stack), upstream)
          /\ Waiting(pending', Front(stack)) /\ version' = version + 1
        BY <1>1, <1>5, <2>1, Settled
    <2>3. Versions'
        BY <1>1, <2>2, Newer
    <2> QED
        BY <1>1, <2>2, <2>3 DEF InWasm
<1>7. CASE Top.many
    <2>1. /\ version' = version
          /\ \/ pending' = Flushed(Closed).pending /\ rows' = Flushed(Closed).rows
             \/ pending' = Closed /\ rows' = rows
        BY <1>7 DEF FinishAdd
    <2>2. Native(ids, shortIds, rows', pending', Front(stack), upstream)
        <3>1. CASE pending' = Flushed(Closed).pending /\ rows' = Flushed(Closed).rows
            <4>1. Native(ids, shortIds, Flushed(Closed).rows, Flushed(Closed).pending,
                         Front(stack), upstream)
                BY <1>1, <1>5, FlushNative
            <4> QED
                BY <3>1, <4>1
        <3>2. CASE pending' = Closed /\ rows' = rows
            BY <1>5, <3>2
        <3> QED
            BY <2>1, <3>1, <3>2
    <2>3. ~Steady(Front(stack))
        <3>1. Len(stack) > 1 /\ stack[Len(stack) - 1].op = "all"
            <4>1. Len(stack) \in 1 .. Len(stack) /\ stack[Len(stack)].many
                BY <1>3, <1>7
            <4> QED
                BY <1>2, <4>1 DEF Calls
        <3>2. Len(stack) - 1 \in 1 .. Len(Front(stack))
            BY <1>3, <3>1
        <3>3. Front(stack)[Len(stack) - 1].op = "all"
            BY <1>3, <3>1, <3>2
        <3> QED
            BY <3>2, <3>3 DEF Steady
    <2>4. Versions' /\ Waiting(pending', stack')
        BY <1>1, <2>1, <2>3 DEF Versions, Waiting
    <2> QED
        BY <1>1, <2>2, <2>4 DEF InWasm
<1> QED
    BY <1>6, <1>7

LEMMA FinishAddAllStep ==
    ASSUME InWasm, FinishAddAll
    PROVE  InWasm'
<1>1. /\ mode = "wasm" /\ Settle(pending) /\ Versions /\ dirty \in BOOLEAN /\ js \in Copies
      /\ stack # <<>> /\ Last(stack).op = "all" /\ stack' = Front(stack)
      /\ Native(ids, shortIds, rows, pending, stack, upstream)
      /\ UNCHANGED <<mode, ids, shortIds, dirty, js, table, upstream>>
    BY DEF FinishAddAll, InCall, InWasm, Below, Top
<1>2. Native(ids, shortIds, rows, pending, Front(stack), upstream)
    BY <1>1, AllBelow
<1>3. /\ Native(ids, shortIds, rows', pending', Front(stack), upstream)
      /\ Waiting(pending', Front(stack)) /\ version' = version + 1
    BY <1>1, <1>2, Settled
<1>4. Versions'
    BY <1>1, <1>3, Newer
<1> QED
    BY <1>1, <1>3, <1>4 DEF InWasm

\* A document that may be removed has reached the engine, and no call is about it.
LEMMA Targeted ==
    ASSUME PlainCallbacks, InWasm, NEW id \in Ids, shortIds[id] # NoShortId, Target(id)
    PROVE  /\ shortIds[id] \in 0 .. (Len(Flushed(pending).rows) - 1)
           /\ \A k \in 1 .. Len(stack) : stack[k].doc.id # id
<1> DEFINE r == Flushed(pending).rows
           p == Flushed(pending).pending
<1>1. Native(ids, shortIds, r, p, stack, upstream)
    BY Flushing
<1>2. /\ stack \in Seq(Call) /\ r \in Seq(Row) /\ p \in PendingBatch
      /\ Numbered(ids, shortIds, Line(r, p)) /\ shortIds \in ShortIds
    BY <1>1, NativeParts
<1>3. stack = <<>> => p.entries = <<>>
    BY Flushing
<1> HIDE DEF r, p
<1>4. shortIds[id] \in Nat /\ Len(r) \in Nat
    BY <1>2 DEF ShortIds
<1>5. CASE stack = <<>>
    <2>1. Line(r, p) = r
        BY <1>2, <1>3, <1>5, LineAlone
    <2>2. shortIds[id] + 1 \in 1 .. Len(r)
        BY <1>2, <2>1 DEF Numbered
    <2>3. Len(stack) = 0
        BY <1>5
    <2> QED
        BY <1>4, <2>2, <2>3 DEF r
<1>6. CASE stack # <<>>
    <2>1. shortIds[id] < Len(r) /\ \A i \in DOMAIN stack : stack[i].doc.id # id
        BY <1>6 DEF Target, PlainCallbacks, r
    <2>2. DOMAIN stack = 1 .. Len(stack)
        BY <1>2
    <2> QED
        BY <1>4, <2>1, <2>2 DEF r
<1> QED
    BY <1>5, <1>6

LEMMA RemoveDocumentStep ==
    ASSUME PlainCallbacks, InWasm, NEW doc \in Documents, RemoveDocument(doc)
    PROVE  InWasm'
<1> DEFINE f == Frame("remove", doc, shortIds[doc.id], FALSE)
<1>1. /\ shortIds[doc.id] # NoShortId /\ Target(doc.id)
      /\ pending' = Flushed(pending).pending /\ rows' = Flushed(pending).rows
      /\ stack' = Append(stack, f)
      /\ UNCHANGED <<mode, ids, shortIds, dirty, js, version, table, upstream>>
    BY DEF RemoveDocument, Check
<1>2. doc.id \in Ids
    BY DEF Documents
<1>3. /\ shortIds[doc.id] \in 0 .. (Len(rows') - 1)
      /\ \A k \in 1 .. Len(stack) : stack[k].doc.id # doc.id
    BY <1>1, <1>2, Targeted
<1>4. Native(ids, shortIds, rows', pending', stack, upstream) /\ Waiting(pending', stack)
    BY <1>1, Flushing
<1>5. /\ f \in Call /\ f.op = "remove" /\ ~f.many /\ f.at = 0 /\ f.doc = doc /\ f.current
      /\ f.shortId = shortIds[doc.id]
    <2>1. 0 \in 0 .. FieldCount
        BY FacadeAssumption
    <2>2. shortIds[doc.id] \in Nat \cup {NoShortId}
        BY <1>2, <1>4, NativeParts DEF ShortIds
    <2> QED
        BY <2>1, <2>2 DEF Frame, Call
<1> HIDE DEF f
<1>6. Native(ids, shortIds, rows', pending', Append(stack, f), upstream)
    BY <1>3, <1>4, <1>5, CallBegins
<1>7. Steady(stack') => Steady(stack)
    <2>1. stack \in Seq(Call)
        BY <1>4, NativeParts
    <2>2. /\ Len(Append(stack, f)) = Len(stack) + 1 /\ Len(stack) \in Nat
          /\ \A i \in 1 .. Len(stack) : Append(stack, f)[i] = stack[i]
        BY <1>5, <2>1, Longer
    <2>3. \A k \in 1 .. Len(stack) : k \in 1 .. Len(Append(stack, f))
        BY <2>2
    <2> QED
        BY <1>1, <2>2, <2>3 DEF Steady
<1>8. Versions' /\ Waiting(pending', stack')
    BY <1>1, <1>4, <1>7 DEF InWasm, Versions, Waiting
<1> QED
    BY <1>1, <1>6, <1>8 DEF InWasm

LEMMA RemoveFieldStep ==
    ASSUME InWasm, RemoveField
    PROVE  InWasm'
<1> DEFINE f == [Last(stack) EXCEPT !.at = @ + 1]
<1>1. /\ stack # <<>> /\ Last(stack).op = "remove" /\ Last(stack).at < FieldCount
      /\ stack' = Append(Front(stack), f)
      /\ upstream' = Upstream(Last(stack), upstream[Last(stack).doc.id] \ {Last(stack).at + 1})
      /\ mode' = mode /\ ids' = ids /\ shortIds' = shortIds /\ rows' = rows
      /\ dirty' = dirty /\ js' = js /\ version' = version /\ table' = table
      /\ pending' = pending
    BY DEF RemoveField, InCall, HasField, NextField, Resume, Below, facade, Top
<1>2. Native(ids, shortIds, rows, pending, stack, upstream)
    BY DEF InWasm
<1>3. Last(stack).current /\ Last(stack) \in Call
    BY <1>1, <1>2, RemovalOnTop
<1>4. upstream' = [upstream EXCEPT ![Last(stack).doc.id] =
                       upstream[Last(stack).doc.id] \ {Last(stack).at + 1}]
    BY <1>1, <1>3 DEF Upstream
<1>5. Native(ids', shortIds', rows', pending', stack', upstream')
    <2>1. Native(ids, shortIds, rows, pending, Append(Front(stack), f),
                 [upstream EXCEPT ![Last(stack).doc.id] =
                     upstream[Last(stack).doc.id] \ {Last(stack).at + 1}])
        BY <1>1, <1>2, TakeNative
    <2> HIDE DEF f
    <2> QED
        BY <1>1, <1>4, <2>1
<1>6. Steady(stack') => Steady(stack)
    <2>1. stack \in Seq(Call)
        BY <1>2, NativeParts
    <2>2. f \in Call /\ f.op = Last(stack).op
        BY <1>1, <1>3, NextOf
    <2> HIDE DEF f
    <2>3. /\ Len(Append(Front(stack), f)) = Len(stack)
          /\ \A i \in 1 .. (Len(stack) - 1) : Append(Front(stack), f)[i] = stack[i]
          /\ Append(Front(stack), f)[Len(stack)] = f
        BY <1>1, <2>1, <2>2, Resumed
    <2>4. Last(stack) = stack[Len(stack)] /\ Len(stack) \in Nat
        BY <1>1, <2>1, Shorter
    <2>5. \A k \in 1 .. Len(stack) : k \in 1 .. (Len(stack) - 1) \/ k = Len(stack)
        BY <2>4
    <2>6. \A k \in 1 .. Len(stack) : Append(Front(stack), f)[k].op = stack[k].op
        BY <2>2, <2>3, <2>4, <2>5
    <2> QED
        BY <1>1, <2>3, <2>6 DEF Steady
<1>7. Versions' /\ Waiting(pending', stack')
    BY <1>1, <1>6 DEF InWasm, Versions, Waiting
<1> QED
    BY <1>1, <1>5, <1>7 DEF InWasm

\* A removal that is not finished takes out of the engine what upstream has lost.
LEMMA UnreadNative ==
    ASSUME NEW table_, NEW short, NEW r, NEW p, NEW up,
           Native(table_, short, r, p, stack, up),
           stack # <<>>, Top.op = "remove"
    PROVE  Native(table_, short, Without(r, Top.shortId), p, Front(stack), up)
<1> DEFINE d == Top.doc.id
           s == Top.shortId
           held == r[s + 1].fields
           left == held \ (1 .. Top.at)
           up1 == [up EXCEPT ![d] = held]
<1>1. Last(stack).op = "remove" /\ Top = Last(stack)
    BY DEF Top
<1>2. /\ d \in Ids /\ short[d] = s /\ s \in 0 .. (Len(r) - 1)
      /\ Taken(stack, d) = 1 .. Top.at
      /\ \A k \in 1 .. Len(Front(stack)) : Front(stack)[k].doc.id # d
    BY <1>1, RemovalOnTop
<1>3. /\ r[s + 1].id = d /\ held \in SUBSET Fields
      /\ up[d] = held \ Taken(stack, d)
    <2>1. d \in Ids /\ short[d] \in 0 .. (Len(r) - 1)
        BY <1>2
    <2>2. /\ r[short[d] + 1].id = d /\ r[short[d] + 1].fields \in SUBSET Fields
          /\ up[d] = r[short[d] + 1].fields \ Taken(stack, d)
        <3> HIDE DEF d
        <3> QED
            BY <2>1, RowOf
    <2>3. r[short[d] + 1] = r[s + 1]
        BY <1>2
    <2> QED
        BY <2>2, <2>3
<1>4. Native(table_, short, r, p, Front(stack), up1)
    <2>1. Native(table_, short, r, p, Front(stack),
                 [up EXCEPT ![Last(stack).doc.id] = r[short[Last(stack).doc.id] + 1].fields])
        BY <1>1, PopNative
    <2> QED
        BY <1>1, <1>2, <2>1
<1>5. left \in SUBSET Fields /\ up[d] = left
    BY <1>2, <1>3
<1>6. up \in Copies
    BY NativeParts
<1>7. Without(r, s) = [r EXCEPT ![s + 1].fields = left]
    BY <1>3 DEF Without
<1> HIDE DEF held, left, d, s, up1
<1>8. Native(table_, short, [r EXCEPT ![short[d] + 1].fields = left], p, Front(stack),
             [up1 EXCEPT ![d] = left])
    BY <1>2, <1>4, <1>5, RewriteNative
<1>9. [up1 EXCEPT ![d] = left] = up
    BY <1>2, <1>5, <1>6 DEF up1, Copies
<1>10. Native(table_, short, Without(r, s), p, Front(stack), up)
    BY <1>2, <1>7, <1>8, <1>9
<1> QED
    BY <1>10 DEF s

LEMMA FinishRemoveStep ==
    ASSUME InWasm, FinishRemove
    PROVE  InWasm'
<1> DEFINE d == Top.doc.id
           s == Top.shortId
<1>1. /\ stack # <<>> /\ Top.op = "remove" /\ Top = Last(stack) /\ mode = "wasm"
      /\ mode' = mode /\ dirty' = dirty /\ js' = js /\ pending' = pending /\ table' = table
      /\ dirty \in BOOLEAN /\ js \in Copies /\ Versions /\ Waiting(pending, stack)
      /\ Native(ids, shortIds, rows, pending, stack, upstream)
    BY DEF FinishRemove, InCall, InWasm, Top
<1>2. /\ d \in Ids /\ shortIds[d] = s /\ s \in 0 .. (Len(rows) - 1) /\ Top.current
      /\ \A k \in 1 .. Len(Front(stack)) : Front(stack)[k].doc.id # d
    BY <1>1, RemovalOnTop
<1>3. rows[s + 1].id = d /\ rows[s + 1].fields \in SUBSET Fields
    BY <1>1, <1>2, RowOf
<1>4. IsLive(s)
    <2>1. rows[s + 1] # Dead
        BY <1>2, <1>3, FacadeAssumption DEF Dead
    <2> QED
        BY <1>2, <2>1 DEF IsLive
<1>5. Removed(s) /\ version' = version + 1
    BY <1>1, <1>4 DEF FinishRemove
<1>6. stack \in Seq(Call) /\ upstream \in Copies
    BY <1>1, NativeParts
<1>7. /\ Front(stack) \in Seq(Call) /\ Len(Front(stack)) = Len(stack) - 1 /\ Len(stack) \in Nat
      /\ \A i \in 1 .. Len(Front(stack)) : Front(stack)[i] = stack[i]
      /\ Last(stack) = stack[Len(stack)]
    BY <1>1, <1>6, Shorter
<1>8. stack' = Front(stack)
    <2>1. CASE HasField
        BY <2>1 DEF FinishRemove, Below
    <2>2. CASE ~HasField
        <3>1. stack' = WithoutDocuments(Front(stack), {d})
            BY <2>2 DEF FinishRemove, Below
        <3>2. \A k \in 1 .. Len(Front(stack)) : Front(stack)[k].doc.id \notin {d}
            BY <1>2
        <3> HIDE DEF d
        <3>3. WithoutDocuments(Front(stack), {d}) = Front(stack)
            BY <1>7, <3>2, SameFrames
        <3> QED
            BY <3>1, <3>3
    <2> QED
        BY <2>1, <2>2
<1>9. Native(ids', shortIds', rows', pending, Front(stack), upstream')
    <2>1. CASE HasField
        <3>1. /\ rows' = Without(rows, s) /\ ids' = ids /\ shortIds' = shortIds
              /\ upstream' = upstream
            BY <1>5, <2>1 DEF Removed, FinishRemove
        <3>2. Native(ids, shortIds, Without(rows, s), pending, Front(stack), upstream)
            BY <1>1, UnreadNative
        <3> QED
            BY <3>1, <3>2
    <2>2. CASE ~HasField
        <3>1. /\ rows' = [rows EXCEPT ![s + 1] = Dead]
              /\ ids' = [ids EXCEPT ![s + 1] = NoId]
              /\ shortIds' = [shortIds EXCEPT ![d] = NoShortId]
            BY <1>5, <2>2 DEF Removed
        <3>2. upstream' = [upstream EXCEPT ![d] = NoDocument]
            BY <1>2, <2>2 DEF FinishRemove, Upstream
        <3> DEFINE up1 == [upstream EXCEPT ![d] = rows[shortIds[d] + 1].fields]
        <3>3. Native(ids, shortIds, rows, pending, Front(stack), up1)
            BY <1>1, PopNative
        <3>4. [up1 EXCEPT ![d] = NoDocument] = [upstream EXCEPT ![d] = NoDocument]
            BY <1>2, <1>6 DEF Copies
        <3> HIDE DEF up1, d, s
        <3>5. Native([ids EXCEPT ![shortIds[d] + 1] = NoId],
                     [shortIds EXCEPT ![d] = NoShortId],
                     [rows EXCEPT ![shortIds[d] + 1] = Dead], pending, Front(stack),
                     [up1 EXCEPT ![d] = NoDocument])
            BY <1>2, <3>3, DropNative
        <3> QED
            BY <1>2, <3>1, <3>2, <3>4, <3>5
    <2> QED
        BY <2>1, <2>2
<1>10. Steady(Front(stack)) => Steady(stack)
    <2>1. \A k \in 1 .. Len(stack) : k \in 1 .. Len(Front(stack)) \/ k = Len(stack)
        BY <1>7
    <2> QED
        BY <1>1, <1>7, <2>1 DEF Steady
<1>11. Waiting(pending', stack')
    BY <1>1, <1>8, <1>10 DEF Waiting
<1>12. Versions'
    BY <1>1, <1>5, Newer
<1> QED
    BY <1>1, <1>8, <1>9, <1>11, <1>12 DEF InWasm

LEMMA DiscardStep ==
    ASSUME PlainCallbacks, InWasm, NEW id \in Ids, Discard(id)
    PROVE  InWasm'
<1> DEFINE s == shortIds[id]
           sent == Flushed(pending).rows
<1>1. /\ s # NoShortId /\ Target(id) /\ pending' = Flushed(pending).pending
      /\ mode' = mode /\ js' = js /\ table' = table
      /\ shortIds' = [shortIds EXCEPT ![id] = NoShortId]
      /\ ids' = [ids EXCEPT ![s + 1] = NoId]
      /\ upstream' = [upstream EXCEPT ![id] = NoDocument]
      /\ stack' = WithoutDocuments(stack, {id})
    BY DEF Discard, Check
<1>2. Native(ids, shortIds, sent, pending', stack, upstream) /\ Waiting(pending', stack)
    BY <1>1, Flushing
<1>3. s \in 0 .. (Len(sent) - 1) /\ \A k \in 1 .. Len(stack) : stack[k].doc.id # id
    BY <1>1, Targeted
<1>4. sent[s + 1].id = id
    BY <1>2, <1>3, RowOf
<1>5. s < Len(sent) /\ sent[s + 1] # Dead
    <2>1. sent \in Seq(Row)
        BY <1>2, NativeParts
    <2>2. s < Len(sent)
        BY <1>3, <2>1
    <2>3. Dead.id = NoId /\ id # NoId
        BY FacadeAssumption DEF Dead
    <2> QED
        BY <1>4, <2>2, <2>3
<1>6. /\ rows' = [sent EXCEPT ![s + 1] = Dead] /\ version' = version + 1
      /\ dirty' \in BOOLEAN
    BY <1>5 DEF Discard, InWasm
<1>7. stack' = stack
    <2>1. stack \in Seq(Call)
        BY <1>2, NativeParts
    <2>2. \A k \in 1 .. Len(stack) : stack[k].doc.id \notin {id}
        BY <1>3
    <2> QED
        BY <1>1, <2>1, <2>2, SameFrames
<1> HIDE DEF sent
<1>8. Native(ids', shortIds', rows', pending', stack', upstream')
    <2>1. Native([ids EXCEPT ![shortIds[id] + 1] = NoId], [shortIds EXCEPT ![id] = NoShortId],
                 [sent EXCEPT ![shortIds[id] + 1] = Dead], pending', stack,
                 [upstream EXCEPT ![id] = NoDocument])
        BY <1>2, <1>3, DropNative
    <2> QED
        BY <1>1, <1>6, <1>7, <2>1
<1>9. Versions'
    BY <1>1, <1>6, Newer DEF InWasm
<1> QED
    BY <1>1, <1>2, <1>6, <1>7, <1>8, <1>9 DEF InWasm

\* With no call in progress nothing is pending, and a flush does nothing.
LEMMA FlushIdle ==
    ASSUME InWasm, stack = <<>>
    PROVE  /\ Native(ids, shortIds, rows, Flushed(pending).pending, <<>>, upstream)
           /\ Flushed(pending).rows = rows
           /\ Flushed(pending).pending \in PendingBatch
           /\ Flushed(pending).pending.entries = <<>>
<1> DEFINE r == Flushed(pending).rows
           p == Flushed(pending).pending
<1>1. /\ FlushedWell(pending) /\ p.entries = <<>> /\ pending.entries = <<>>
      /\ Native(ids, shortIds, r, p, stack, upstream)
    BY Flushing
<1>2. /\ r \in Seq(Row) /\ p \in PendingBatch /\ rows \in Seq(Row) /\ pending \in PendingBatch
    BY <1>1, NativeParts DEF InWasm
<1>3. Line(r, p) = Line(rows, pending)
    BY <1>1 DEF FlushedWell
<1>4. Line(r, p) = r /\ Line(rows, pending) = rows
    <2> HIDE DEF r, p
    <2> QED
        BY <1>1, <1>2, LineAlone
<1>5. r = rows
    BY <1>3, <1>4
<1> QED
    BY <1>1, <1>2, <1>5

\* With no call in progress: of an index that keeps no batch.
LEMMA Idle ==
    ASSUME NEW p, p.entries = <<>>, NEW frames
    PROVE  Waiting(p, frames)
BY DEF Waiting

LEMMA RemoveAllStep ==
    ASSUME PlainCallbacks, InWasm, RemoveAll
    PROVE  InWasm'
<1>1. /\ stack = <<>> /\ pending' = Flushed(pending).pending
      /\ ids' = <<>> /\ rows' = <<>> /\ shortIds' = NoShortIds
      /\ version' = version + 1 /\ upstream' = NoDocuments
      /\ stack' = WithoutDocuments(stack, Ids)
      /\ mode' = mode /\ dirty' = dirty /\ js' = js /\ table' = table
    BY DEF RemoveAll, Callable, PlainCallbacks, Check
<1>2. pending' \in PendingBatch /\ pending'.entries = <<>>
    BY <1>1, FlushIdle
<1>3. stack' = <<>>
    <2>1. stack \in Seq(Call) /\ Len(stack) = 0
        BY <1>1
    <2>2. \A k \in 1 .. Len(stack) : stack[k].doc.id \notin Ids
        BY <2>1
    <2> QED
        BY <1>1, <2>1, <2>2, SameFrames
<1>4. Native(ids', shortIds', rows', pending', stack', upstream')
    <2>1. Native(<<>>, NoShortIds, <<>>, pending', <<>>, NoDocuments)
        BY <1>2, EmptyNative
    <2> QED
        BY <1>1, <1>3, <2>1
<1>5. Versions' /\ Waiting(pending', stack')
    BY <1>1, <1>2, Newer, Idle DEF InWasm
<1> QED
    BY <1>1, <1>4, <1>5 DEF InWasm

LEMMA VacuumEndsStep ==
    ASSUME InWasm, VacuumEnds
    PROVE  InWasm'
<1>1. /\ dirty' = FALSE
      /\ UNCHANGED <<mode, ids, shortIds, rows, js, pending, version, table, stack, upstream>>
    BY DEF VacuumEnds
<1> QED
    BY <1>1 DEF InWasm, Versions

\* A compaction with no call in progress.
LEMMA CompactedStep ==
    ASSUME InWasm, stack = <<>>, Check, Compacted(rows), version' = version + 1,
           UNCHANGED <<mode, dirty, js, table, stack, upstream>>
    PROVE  InWasm'
<1>1. pending' = Flushed(pending).pending
    BY DEF Check
<1>2. /\ Native(ids, shortIds, rows, pending', <<>>, upstream) /\ pending'.entries = <<>>
    BY <1>1, FlushIdle
<1>3. /\ rows' = Selected(rows, LivePositions(rows))
      /\ ids' = Selected(ids, LivePositions(rows))
      /\ shortIds' = NewShortIds(Selected(ids, LivePositions(rows)))
    BY DEF Compacted, NewShortIds
<1>4. Native(ids', shortIds', rows', pending', <<>>, upstream)
    <2>1. Native(Selected(ids, LivePositions(rows)),
                 NewShortIds(Selected(ids, LivePositions(rows))),
                 Selected(rows, LivePositions(rows)), pending', <<>>, upstream)
        BY <1>2, CompactNative
    <2> QED
        BY <1>3, <2>1
<1>5. Versions' /\ Waiting(pending', stack')
    BY <1>2, Newer, Idle DEF InWasm
<1> QED
    BY <1>4, <1>5 DEF InWasm

LEMMA AutoCompactStep ==
    ASSUME InWasm, AutoCompact
    PROVE  InWasm'
BY CompactedStep DEF AutoCompact

LEMMA CompactStep ==
    ASSUME PlainCallbacks, InWasm, Compact
    PROVE  InWasm'
<1>1. /\ stack = <<>> /\ Check /\ version' = version + 1
      /\ UNCHANGED <<mode, dirty, js, table, stack, upstream>>
    BY DEF Compact, Callable, PlainCallbacks
<1>2. Flushed(pending).rows = rows
    BY <1>1, FlushIdle
<1>3. CASE Compacted(rows)
    BY <1>1, <1>3, CompactedStep
<1>4. CASE rows' = rows /\ UNCHANGED <<ids, shortIds>>
    <2>1. pending' = Flushed(pending).pending
        BY <1>1 DEF Check
    <2>2. Native(ids, shortIds, rows, pending', <<>>, upstream) /\ pending'.entries = <<>>
        BY <1>1, <2>1, FlushIdle
    <2>3. Versions' /\ Waiting(pending', stack')
        BY <1>1, <2>2, Newer, Idle DEF InWasm
    <2> QED
        BY <1>1, <1>4, <2>2, <2>3 DEF InWasm
<1> QED
    BY <1>2, <1>3, <1>4 DEF Compact

LEMMA DocIdTableStep ==
    ASSUME InWasm, DocIdTable
    PROVE  InWasm'
<1>1. /\ pending' = Flushed(pending).pending /\ rows' = Flushed(pending).rows
      /\ table' = IF table.version = version THEN table ELSE [version |-> version, ids |-> ids]
      /\ UNCHANGED <<mode, ids, shortIds, dirty, js, version, stack, upstream>>
    BY DEF DocIdTable, Check
<1>2. Native(ids, shortIds, rows', pending', stack, upstream) /\ Waiting(pending', stack)
    BY <1>1, Flushing
<1>3. Versions'
    <2>1. CASE table.version = version
        BY <1>1, <2>1 DEF InWasm, Versions
    <2>2. CASE table.version # version
        <3>1. table'.version = version /\ table'.ids = ids
            BY <1>1, <2>2
        <3> QED
            BY <1>1, <3>1 DEF InWasm, Versions
    <2> QED
        BY <2>1, <2>2
<1> QED
    BY <1>1, <1>2, <1>3 DEF InWasm

----------------------------------------------------------------------------
(* The transfer.                                                           *)

\* Upstream has every document that has a number.
LEMMA Known ==
    ASSUME NEW table_, NEW short, NEW r, NEW p, NEW frames, NEW up,
           Native(table_, short, r, p, frames, up),
           NEW id \in Ids, short[id] # NoShortId
    PROVE  up[id] # NoDocument
<1>1. /\ r \in Seq(Row) /\ p \in PendingBatch
      /\ Numbered(table_, short, Line(r, p))
      /\ Mirrored(Line(r, p), short, frames, up)
    BY NativeParts
<1> DEFINE line == Line(r, p)
           row == line[short[id] + 1]
<1>2. line \in Seq(Row)
    BY <1>1, LineFacts
<1> HIDE DEF line
<1>3. short[id] + 1 \in 1 .. Len(line)
    BY <1>1 DEF Numbered, line
<1>4. row \in Row
    BY <1>2, <1>3
<1> HIDE DEF row
<1>5. row.fields \in SUBSET Fields
    BY <1>4 DEF Row
<1>6. up[id] = row.fields \ Taken(frames, id)
    BY <1>1 DEF Mirrored, line, row
<1>7. up[id] \in SUBSET Fields
    BY <1>5, <1>6
<1> QED
    BY <1>7, FacadeAssumption

\* With no add in progress, what a flush leaves is nothing.
LEMMA NothingLeft ==
    ASSUME NEW table_, NEW short, NEW r, NEW p, NEW frames, NEW up,
           Native(table_, short, r, p, frames, up),
           p.entries # <<>> => p.entries[1].open,
           \A k \in 1 .. Len(frames) : frames[k].op # "add"
    PROVE  p.entries = <<>>
<1>1. p \in PendingBatch /\ Framed(frames, p, short, Len(r))
    BY NativeParts
<1>2. SUFFICES ASSUME p.entries # <<>>
               PROVE  FALSE
    OBVIOUS
<1>3. 1 \in 1 .. Len(p.entries) /\ p.entries[1].open
    BY <1>1, <1>2, Entries
<1>4. p.entries[1].depth \in 1 .. Len(frames) /\ frames[p.entries[1].depth].op = "add"
    BY <1>1, <1>3 DEF Framed
<1> QED
    BY <1>4

\* The innermost call goes on in JavaScript, below it only addAll.
LEMMA CallsMoved ==
    ASSUME NEW frames \in Seq(Call), Calls(frames, "wasm"), frames # <<>>,
           Last(frames).op # "all",
           \A k \in 1 .. Len(Front(frames)) : Front(frames)[k].op = "all",
           NEW f \in Call, f.op \in {"addInJS", "removeInJS"}, f.doc = Last(frames).doc,
           f.many = Last(frames).many, f.current = Last(frames).current
    PROVE  Calls(Append(Front(frames), f), "javascript")
<1> DEFINE new == Append(Front(frames), f)
           n == Len(frames)
<1>1. /\ new \in Seq(Call) /\ Len(new) = n
      /\ \A i \in 1 .. (n - 1) : new[i] = frames[i] /\ frames[i].op = "all"
      /\ new[n] = f /\ n \in Nat /\ n >= 1 /\ Last(frames) = frames[n]
    <2>1. /\ new \in Seq(Call) /\ Len(new) = n /\ new[n] = f
          /\ \A i \in 1 .. (n - 1) : new[i] = frames[i]
        BY Resumed
    <2>2. /\ Len(Front(frames)) = n - 1 /\ n \in Nat /\ n >= 1 /\ Last(frames) = frames[n]
          /\ \A i \in 1 .. Len(Front(frames)) : Front(frames)[i] = frames[i]
        BY Shorter
    <2> HIDE DEF new, n
    <2>3. \A i \in 1 .. (n - 1) : frames[i].op = "all"
        BY <2>2
    <2> QED
        BY <2>1, <2>2, <2>3
<1> HIDE DEF new
<1>2. \A i \in 1 .. n :
         /\ new[i].doc = frames[i].doc
         /\ new[i].many = frames[i].many /\ new[i].current = frames[i].current
         /\ i = n \/ (i < n /\ new[i].op = "all" /\ frames[i].op = "all")
    <2>1. \A i \in 1 .. n : i \in 1 .. (n - 1) \/ i = n
        BY <1>1
    <2>2. \A i \in 1 .. (n - 1) : i < n
        BY <1>1
    <2> QED
        BY <1>1, <2>1, <2>2
<1>3. \A i \in 1 .. n : i > 1 => i - 1 \in 1 .. (n - 1)
    BY <1>1
<1>4. frames[n].op # "all" /\ new[n].op \in {"addInJS", "removeInJS"}
    BY <1>1
<1> HIDE DEF n
<1>5. Calls(new, "javascript")
    <2>1. Calls(frames, "wasm") /\ Len(frames) = n
        BY DEF n
    <2>2. \A i \in 1 .. n : new[i].many => i > 1 /\ new[i - 1].op = "all"
        <3>1. \A i \in 1 .. n : new[i].many => i > 1
            BY <1>2, <2>1 DEF Calls
        <3> QED
            BY <1>1, <1>3, <3>1
    <2>3. \A i, j \in 1 .. n :
           new[i].op # "all" /\ new[i].doc.id = new[j].doc.id => i = j
        BY <1>2, <1>4, <2>1 DEF Calls
    <2>4. \A i \in 1 .. n :
           IF new[i].op = "all" THEN new[i].doc.id = NoId
           ELSE new[i].doc \in Documents /\ new[i].current
        BY <1>2, <1>4, <2>1 DEF Calls
    <2>5. \A i \in 1 .. n :
           /\ new[i].op \in {"all", "addInJS", "removeInJS"}
           /\ i < n => new[i].op = "all"
        BY <1>2, <1>4
    <2> QED
        BY <1>1, <2>2, <2>3, <2>4, <2>5 DEF Calls
<1> QED
    BY <1>5 DEF new

\* The index moves with the engine's rows r, under calls that are addAll's.
LEMMA Transferred ==
    ASSUME InWasm, NEW r, NEW frames,
           Native(ids, shortIds, r, pending', frames, upstream), pending'.entries = <<>>,
           \A k \in 1 .. Len(frames) : frames[k].op = "all",
           Transfer(r),
           stack' \in Seq(Call), Calls(stack', "javascript"),
           \A k \in 1 .. Len(stack') :
               stack'[k].op # "all" => upstream[stack'[k].doc.id] # NoDocument,
           UNCHANGED <<version, table, upstream>>
    PROVE  InJS'
<1>1. /\ mode' = "javascript" /\ ids' = <<>> /\ rows' = <<>> /\ dirty' = FALSE
      /\ shortIds' = NoShortIds
    BY DEF Transfer
<1>2. js' = upstream
    <2>1. upstream = [i \in Ids |->
                    IF shortIds[i] = NoShortId THEN NoDocument
                    ELSE IF shortIds[i] < Len(r) THEN r[shortIds[i] + 1].fields ELSE {}]
        BY Carried
    <2> QED
        BY <2>1 DEF Transfer
<1>3. upstream \in Copies /\ pending' \in PendingBatch
    BY NativeParts
<1>4. ids' \in Tables /\ rows' \in Seq(Row) /\ shortIds' \in ShortIds /\ dirty' \in BOOLEAN
    <2>1. <<>> \in Tables /\ <<>> \in Seq(Row) /\ NoShortIds \in ShortIds
        BY DEF Tables, ShortIds, NoShortIds
    <2> QED
        BY <1>1, <2>1
<1>5. Moved'
    BY <1>2, <1>3, <1>4 DEF Moved
<1>6. Versions'
    BY <1>1 DEF InWasm, Versions
<1> QED
    BY <1>1, <1>2, <1>3, <1>4, <1>5, <1>6 DEF InJS

\* Plain callbacks meet a text that moves the index only in addAll.
LEMMA OnlyAddAll ==
    ASSUME PlainCallbacks, MayPromote, stack \in Seq(Call), stack # <<>>
    PROVE  \A k \in 1 .. Len(Front(stack)) : Front(stack)[k].op = "all"
<1>1. Front(stack) \in Seq(Call)
    BY Shorter
<1> QED
    BY <1>1 DEF MayPromote, PlainCallbacks, Below

\* The innermost call is the only one about a document.
LEMMA OnlyTop ==
    ASSUME NEW frames \in Seq(Call), frames # <<>>, NEW f \in Call,
           \A k \in 1 .. Len(Front(frames)) : Front(frames)[k].op = "all"
    PROVE  \A k \in 1 .. Len(Append(Front(frames), f)) :
               Append(Front(frames), f)[k].op # "all" => Append(Front(frames), f)[k] = f
<1> DEFINE new == Append(Front(frames), f)
           n == Len(frames)
<1>1. /\ Len(new) = n /\ n \in Nat
      /\ \A i \in 1 .. (n - 1) : new[i] = frames[i] /\ frames[i].op = "all"
      /\ new[n] = f
    BY Resumed, Shorter
<1> HIDE DEF new, n
<1>2. \A i \in 1 .. n : i \in 1 .. (n - 1) \/ i = n
    BY <1>1
<1>3. \A k \in 1 .. Len(new) : new[k].op # "all" => new[k] = f
    BY <1>1, <1>2
<1> QED
    BY <1>3 DEF new

LEMMA MovedCall ==
    ASSUME NEW f \in Call, NEW o \in {"addInJS", "removeInJS"}
    PROVE  /\ [f EXCEPT !.op = o] \in Call /\ [f EXCEPT !.op = o].op = o
           /\ [f EXCEPT !.op = o].doc = f.doc /\ [f EXCEPT !.op = o].many = f.many
           /\ [f EXCEPT !.op = o].current = f.current
BY DEF Call

LEMMA SearchPromotesStep ==
    ASSUME PlainCallbacks, InWasm, SearchPromotes
    PROVE  InJS'
<1>1. /\ stack = <<>> /\ pending' = Flushed(pending).pending
      /\ Transfer(Flushed(pending).rows)
      /\ UNCHANGED <<version, table, stack, upstream>>
    BY DEF SearchPromotes, Callable, PlainCallbacks, Check
<1>2. Native(ids, shortIds, rows, pending', <<>>, upstream) /\ pending'.entries = <<>>
      /\ Flushed(pending).rows = rows
    BY <1>1, FlushIdle
<1>3. Len(<<>>) = 0 /\ <<>> \in Seq(Call) /\ Calls(<<>>, "javascript")
    BY DEF Calls
<1>4. stack' = <<>> /\ Transfer(rows)
    BY <1>1, <1>2
<1>5. \A k \in 1 .. Len(<<>>) : FALSE
    BY <1>3
<1> QED
    BY <1>1, <1>2, <1>3, <1>4, <1>5, Transferred

LEMMA RemoveUnfitStep ==
    ASSUME PlainCallbacks, InWasm, RemoveUnfit
    PROVE  InJS'
<1> DEFINE f == [Last(stack) EXCEPT !.op = "removeInJS"]
           sent == Flushed(pending).rows
           r == Without(sent, Top.shortId)
<1>1. /\ stack # <<>> /\ Top.op = "remove" /\ Top = Last(stack) /\ MayPromote
      /\ pending' = Flushed(pending).pending
      /\ Transfer(r) /\ stack' = Append(Front(stack), f)
      /\ UNCHANGED <<version, table, upstream>>
    BY DEF RemoveUnfit, InCall, Check, Resume, Below, Top
<1>2. /\ Native(ids, shortIds, sent, pending', stack, upstream) /\ FlushedWell(pending)
    BY <1>1, Flushing
<1>3. /\ stack \in Seq(Call) /\ Calls(stack, "wasm")
    BY <1>2, NativeParts
<1>4. \A k \in 1 .. Len(Front(stack)) : Front(stack)[k].op = "all"
    BY <1>1, <1>3, OnlyAddAll
<1>5. Native(ids, shortIds, r, pending', Front(stack), upstream)
    <2> HIDE DEF sent
    <2> QED
        BY <1>1, <1>2, UnreadNative
<1>6. pending'.entries # <<>> => pending'.entries[1].open
    BY <1>1, <1>2 DEF FlushedWell
<1>7. pending'.entries = <<>>
    <2>1. \A k \in 1 .. Len(Front(stack)) : Front(stack)[k].op # "add"
        BY <1>4
    <2> HIDE DEF r
    <2> QED
        BY <1>5, <1>6, <2>1, NothingLeft
<1>8. /\ Last(stack) \in Call /\ Last(stack).doc.id \in Ids
      /\ shortIds[Last(stack).doc.id] = Last(stack).shortId
      /\ Last(stack).shortId \in 0 .. (Len(sent) - 1)
    <2> HIDE DEF sent
    <2> QED
        BY <1>1, <1>2, RemovalOnTop
<1>9. upstream[Last(stack).doc.id] # NoDocument
    <2>1. shortIds[Last(stack).doc.id] # NoShortId
        BY <1>8 DEF NoShortId
    <2> HIDE DEF sent
    <2> QED
        BY <1>2, <1>8, <2>1, Known
<1>10. /\ f \in Call /\ f.op = "removeInJS" /\ f.doc = Last(stack).doc
       /\ f.many = Last(stack).many /\ f.current = Last(stack).current
    BY <1>8, MovedCall
<1> HIDE DEF f, r
<1>11. stack' \in Seq(Call) /\ Calls(stack', "javascript")
    BY <1>1, <1>3, <1>4, <1>10, Resumed, CallsMoved
<1>12. \A k \in 1 .. Len(stack') :
           stack'[k].op # "all" => upstream[stack'[k].doc.id] # NoDocument
    <2>1. \A k \in 1 .. Len(stack') : stack'[k].op # "all" => stack'[k] = f
        BY <1>1, <1>3, <1>4, <1>10, OnlyTop
    <2> QED
        BY <1>9, <1>10, <2>1
<1> QED
    BY <1>1, <1>4, <1>5, <1>7, <1>11, <1>12, Transferred

LEMMA CollectUnfitStep ==
    ASSUME PlainCallbacks, InWasm, CollectUnfit
    PROVE  InJS'
<1> DEFINE f == [Last(stack) EXCEPT !.op = "addInJS"]
           r == Flushed(Closed).rows
<1>1. /\ stack # <<>> /\ Last(stack).op = "add" /\ Top = Last(stack) /\ MayPromote
      /\ mode = "wasm" /\ Native(ids, shortIds, rows, pending, stack, upstream)
    BY DEF CollectUnfit, InCall, Top, InWasm
<1>2. stack \in Seq(Call) /\ Calls(stack, "wasm") /\ Framed(stack, pending, shortIds, Len(rows))
    BY <1>1, NativeParts
<1>3. Native(ids, shortIds, rows, Closed, Front(stack), upstream)
    BY <1>1, CloseNative
<1>4. FlushedWell(Closed) /\ Native(ids, shortIds, r, Flushed(Closed).pending, Front(stack), upstream)
    BY <1>1, <1>3, FlushNative
<1>5. Flushed(Closed).ok
    BY <1>4 DEF FlushedWell
<1>6. /\ pending' = Flushed(Closed).pending /\ stack' = Append(Front(stack), f) /\ Transfer(r)
      /\ UNCHANGED <<version, table, upstream>>
    BY <1>1, <1>5 DEF CollectUnfit, Resume, Below
<1>7. \A k \in 1 .. Len(Front(stack)) : Front(stack)[k].op = "all"
    BY <1>1, <1>2, OnlyAddAll
<1>8. pending'.entries # <<>> => pending'.entries[1].open
    BY <1>4, <1>6 DEF FlushedWell
<1> HIDE DEF r
<1>9. pending'.entries = <<>>
    <2>1. \A k \in 1 .. Len(Front(stack)) : Front(stack)[k].op # "add"
        BY <1>7
    <2> QED
        BY <1>4, <1>6, <1>8, <2>1, NothingLeft
<1>10. /\ Last(stack) \in Call /\ Last(stack) = stack[Len(stack)]
       /\ Len(stack) \in 1 .. Len(stack)
    BY <1>1, <1>2, Shorter
<1>11. upstream[Last(stack).doc.id] # NoDocument
    <2>1. shortIds[Last(stack).doc.id] # NoShortId
        BY <1>1, <1>2, <1>10 DEF Framed
    <2>2. Last(stack).doc.id \in Ids
        BY <1>1, <1>2, <1>10, Frames
    <2> QED
        BY <1>1, <2>1, <2>2, Known
<1>12. /\ f \in Call /\ f.op = "addInJS" /\ f.doc = Last(stack).doc
       /\ f.many = Last(stack).many /\ f.current = Last(stack).current
    BY <1>10, MovedCall
<1> HIDE DEF f
<1>13. stack' \in Seq(Call) /\ Calls(stack', "javascript")
    BY <1>1, <1>2, <1>6, <1>7, <1>12, Resumed, CallsMoved
<1>14. \A k \in 1 .. Len(stack') :
           stack'[k].op # "all" => upstream[stack'[k].doc.id] # NoDocument
    <2>1. \A k \in 1 .. Len(stack') : stack'[k].op # "all" => stack'[k] = f
        BY <1>1, <1>2, <1>6, <1>7, <1>12, OnlyTop
    <2> QED
        BY <1>11, <1>12, <2>1
<1> QED
    BY <1>4, <1>6, <1>7, <1>9, <1>13, <1>14, Transferred

----------------------------------------------------------------------------
(* In JavaScript.                                                          *)

LEMMA MovedParts ==
    ASSUME InJS
    PROVE  /\ ids \in Tables /\ shortIds \in ShortIds /\ rows \in Seq(Row)
           /\ pending \in PendingBatch /\ pending.entries = <<>>
           /\ stack \in Seq(Call) /\ Calls(stack, "javascript")
           /\ upstream \in Copies /\ js = upstream /\ js \in Copies
           /\ mode = "javascript" /\ dirty \in BOOLEAN /\ Versions
           /\ \A k \in 1 .. Len(stack) : stack[k].op # "all" => js[stack[k].doc.id] # NoDocument
BY DEF InJS, Moved

\* Below the innermost call there is only addAll.
LEMMA AllInJS ==
    ASSUME InJS, stack # <<>>
    PROVE  /\ \A k \in 1 .. Len(Front(stack)) :
                  Front(stack)[k].op = "all" /\ Front(stack)[k].doc.id = NoId
           /\ Front(stack) \in Seq(Call) /\ Calls(Front(stack), "javascript")
<1>1. stack \in Seq(Call) /\ Calls(stack, "javascript")
    BY MovedParts
<1> DEFINE front == Front(stack)
           n == Len(stack)
<1>2. /\ front \in Seq(Call) /\ Len(front) = n - 1 /\ n \in Nat
      /\ \A i \in 1 .. Len(front) : front[i] = stack[i]
    BY <1>1, Shorter
<1>3. Calls(front, "javascript")
    BY <1>1, CallsBelow
<1> HIDE DEF front, n
<1>4. \A i \in 1 .. Len(front) : i \in 1 .. n /\ i < n
    BY <1>2
<1>5. \A i \in 1 .. Len(front) : stack[i].op = "all" /\ stack[i].doc.id = NoId
    BY <1>1, <1>4 DEF Calls, n
<1>6. \A i \in 1 .. Len(front) : front[i].op = "all" /\ front[i].doc.id = NoId
    BY <1>2, <1>5
<1> QED
    BY <1>2, <1>3, <1>6 DEF front

\* A call in JavaScript ends.
LEMMA EndsInJS ==
    ASSUME InJS, stack # <<>>, stack' = Front(stack),
           UNCHANGED <<mode, ids, shortIds, rows, dirty, table>>,
           pending' \in PendingBatch, pending'.entries = <<>>,
           version' \in {version, version + 1},
           js' \in Copies, upstream' = js'
    PROVE  InJS'
<1>1. /\ ids \in Tables /\ shortIds \in ShortIds /\ rows \in Seq(Row)
      /\ mode = "javascript" /\ dirty \in BOOLEAN /\ Versions
    BY MovedParts
<1>2. stack' \in Seq(Call) /\ Calls(stack', "javascript")
    BY AllInJS
<1>3. \A k \in 1 .. Len(stack') : stack'[k].op # "all" => js'[stack'[k].doc.id] # NoDocument
    BY AllInJS
<1>4. Moved'
    BY <1>1, <1>2, <1>3 DEF Moved
<1>5. Versions'
    BY <1>1 DEF Versions
<1> QED
    BY <1>1, <1>4, <1>5 DEF InJS

\* The innermost call, of a document that JavaScript has.
LEMMA TopInJS ==
    ASSUME InJS, stack # <<>>, Top.op # "all"
    PROVE  /\ Top = Last(stack) /\ Top \in Call /\ Top.current /\ Top.doc.id \in Ids
           /\ upstream[Top.doc.id] \in SUBSET Fields /\ js[Top.doc.id] = upstream[Top.doc.id]
           /\ Top.at \in 0 .. FieldCount
<1>1. /\ stack \in Seq(Call) /\ Calls(stack, "javascript") /\ upstream \in Copies /\ js = upstream
      /\ \A k \in 1 .. Len(stack) : stack[k].op # "all" => js[stack[k].doc.id] # NoDocument
    BY MovedParts
<1>2. /\ Top = Last(stack) /\ Top = stack[Len(stack)] /\ Len(stack) \in 1 .. Len(stack)
      /\ Top \in Call
    BY <1>1, Shorter DEF Top
<1>3. Top.current /\ Top.doc.id \in Ids /\ Top.at \in 0 .. FieldCount
    BY <1>1, <1>2, Frames
<1>4. upstream[Top.doc.id] # NoDocument
    BY <1>1, <1>2
<1>5. upstream[Top.doc.id] \in {NoDocument} \cup SUBSET Fields
    BY <1>1, <1>3 DEF Copies
<1> QED
    BY <1>1, <1>2, <1>3, <1>4, <1>5

\* The innermost call indexes or takes out its next field.
LEMMA FieldInJS ==
    ASSUME InJS, stack # <<>>, Top.op # "all", HasField, NextField,
           NEW g \in SUBSET Fields,
           js' = [js EXCEPT ![Top.doc.id] = g], upstream' = [upstream EXCEPT ![Top.doc.id] = g],
           UNCHANGED <<mode, ids, shortIds, rows, dirty, pending, version, table>>
    PROVE  InJS'
<1> DEFINE f == [Last(stack) EXCEPT !.at = @ + 1]
           d == Top.doc.id
<1>1. /\ ids \in Tables /\ shortIds \in ShortIds /\ rows \in Seq(Row)
      /\ pending \in PendingBatch /\ pending.entries = <<>>
      /\ stack \in Seq(Call) /\ Calls(stack, "javascript")
      /\ upstream \in Copies /\ js = upstream /\ js \in Copies
      /\ mode = "javascript" /\ dirty \in BOOLEAN /\ Versions
    BY MovedParts
<1>2. /\ Top = Last(stack) /\ Top \in Call /\ d \in Ids
    BY TopInJS
<1>3. stack' = Append(Front(stack), f)
    BY <1>2 DEF NextField, Resume, Below
<1>4. /\ f \in Call /\ f.op = Last(stack).op /\ f.doc = Last(stack).doc
      /\ f.many = Last(stack).many /\ f.current = Last(stack).current
    BY <1>2, NextOf DEF HasField
<1> HIDE DEF f
<1>5. stack' \in Seq(Call) /\ Calls(stack', "javascript")
    BY <1>1, <1>3, <1>4, Resumed, CallsResumed
<1>6. js' = upstream' /\ js' \in Copies /\ js'[d] = g
    <2>1. g # NoDocument /\ g \in {NoDocument} \cup SUBSET Fields
        BY FacadeAssumption
    <2> HIDE DEF d
    <2> QED
        BY <1>1, <1>2, <2>1 DEF Copies, d
<1>7. \A k \in 1 .. Len(stack') : stack'[k].op # "all" => js'[stack'[k].doc.id] # NoDocument
    <2>1. \A k \in 1 .. Len(stack') : stack'[k].op # "all" => stack'[k] = f
        BY <1>1, <1>3, <1>4, AllInJS, OnlyTop
    <2>2. f.doc.id = d /\ g # NoDocument
        BY <1>2, <1>4, FacadeAssumption
    <2> HIDE DEF d
    <2> QED
        BY <1>6, <2>1, <2>2
<1>8. Moved'
    BY <1>1, <1>5, <1>6, <1>7 DEF Moved
<1>9. Versions'
    BY <1>1 DEF Versions
<1> QED
    BY <1>1, <1>6, <1>8, <1>9 DEF InJS

LEMMA IndexInJSStep ==
    ASSUME InJS, IndexInJS
    PROVE  InJS'
<1>1. /\ stack # <<>> /\ Top.op # "all" /\ HasField /\ NextField
      /\ js' = [js EXCEPT ![Top.doc.id] = @ \cup {Top.at + 1}]
      /\ upstream' = Upstream(Top, upstream[Top.doc.id] \cup {Top.at + 1})
      /\ UNCHANGED <<mode, ids, shortIds, rows, dirty, pending, version, table>>
    BY DEF IndexInJS, InCall
<1> DEFINE g == upstream[Top.doc.id] \cup {Top.at + 1}
<1>2. /\ Top.current /\ upstream[Top.doc.id] \in SUBSET Fields
      /\ js[Top.doc.id] = upstream[Top.doc.id] /\ Top.at \in 0 .. FieldCount
    BY <1>1, TopInJS
<1>3. Top.at + 1 \in Fields
    BY <1>1, <1>2, FacadeAssumption DEF HasField, Fields
<1>4. g \in SUBSET Fields
    BY <1>2, <1>3
<1>5. /\ js' = [js EXCEPT ![Top.doc.id] = g] /\ upstream' = [upstream EXCEPT ![Top.doc.id] = g]
    BY <1>1, <1>2 DEF Upstream
<1> HIDE DEF g
<1> QED
    BY <1>1, <1>4, <1>5, FieldInJS

LEMMA UnindexInJSStep ==
    ASSUME InJS, UnindexInJS
    PROVE  InJS'
<1>1. /\ stack # <<>> /\ Top.op # "all" /\ HasField /\ NextField
      /\ js' = [js EXCEPT ![Top.doc.id] = @ \ {Top.at + 1}]
      /\ upstream' = Upstream(Top, upstream[Top.doc.id] \ {Top.at + 1})
      /\ UNCHANGED <<mode, ids, shortIds, rows, dirty, pending, version, table>>
    BY DEF UnindexInJS, InCall
<1> DEFINE g == upstream[Top.doc.id] \ {Top.at + 1}
<1>2. /\ Top.current /\ upstream[Top.doc.id] \in SUBSET Fields
      /\ js[Top.doc.id] = upstream[Top.doc.id]
    BY <1>1, TopInJS
<1>3. g \in SUBSET Fields
    BY <1>2
<1>4. /\ js' = [js EXCEPT ![Top.doc.id] = g] /\ upstream' = [upstream EXCEPT ![Top.doc.id] = g]
    BY <1>1, <1>2 DEF Upstream
<1> HIDE DEF g
<1> QED
    BY <1>1, <1>3, <1>4, FieldInJS

LEMMA AddNextInJSStep ==
    ASSUME InJS, NEW doc \in Documents, AddNextInJS(doc)
    PROVE  InJS'
<1>1. /\ js' = [js EXCEPT ![doc.id] = Fields] /\ upstream' = [upstream EXCEPT ![doc.id] = Fields]
      /\ UNCHANGED <<mode, ids, shortIds, rows, dirty, pending, version, table, stack>>
    BY DEF AddNextInJS
<1>2. /\ ids \in Tables /\ shortIds \in ShortIds /\ rows \in Seq(Row)
      /\ pending \in PendingBatch /\ pending.entries = <<>>
      /\ stack \in Seq(Call) /\ Calls(stack, "javascript")
      /\ upstream \in Copies /\ js = upstream /\ js \in Copies
      /\ mode = "javascript" /\ dirty \in BOOLEAN /\ Versions
      /\ \A k \in 1 .. Len(stack) : stack[k].op # "all" => js[stack[k].doc.id] # NoDocument
    BY MovedParts
<1>3. doc.id \in Ids /\ Fields # NoDocument
    BY FacadeAssumption DEF Documents
<1>4. js' \in Copies /\ js' = upstream'
    BY <1>1, <1>2, <1>3 DEF Copies
<1>5. \A id \in Ids : js[id] # NoDocument => js'[id] # NoDocument
    BY <1>1, <1>2, <1>3 DEF Copies
<1>6. \A k \in 1 .. Len(stack) : stack[k].op # "all" => stack[k].doc.id \in Ids
    BY <1>2, Frames
<1>7. \A k \in 1 .. Len(stack) : stack[k].op # "all" => js'[stack[k].doc.id] # NoDocument
    BY <1>2, <1>5, <1>6
<1>8. Moved'
    BY <1>1, <1>2, <1>4, <1>7 DEF Moved
<1>9. Versions'
    BY <1>1, <1>2 DEF Versions
<1> QED
    BY <1>1, <1>2, <1>4, <1>8, <1>9 DEF InJS

LEMMA FinishAddInJSStep ==
    ASSUME InJS, FinishAdd
    PROVE  InJS'
<1>1. /\ stack # <<>> /\ stack' = Front(stack)
      /\ UNCHANGED <<mode, ids, shortIds, dirty, js, table, upstream>>
    BY DEF FinishAdd, InCall, Below
<1>2. /\ mode = "javascript" /\ pending \in PendingBatch /\ pending.entries = <<>>
      /\ js = upstream /\ js \in Copies
    BY MovedParts
<1>3. DOMAIN pending.entries = {} /\ pending.first \in Nat
    BY <1>2, Entries
<1>4. Closed = [first |-> pending.first, entries |-> <<>>]
    <2>1. [i \in DOMAIN pending.entries |-> Written(pending.entries[i], {}, FALSE)] = <<>>
        BY <1>3
    <2> QED
        BY <2>1 DEF Closed, Entry
<1>5. Closed \in PendingBatch /\ Closed.entries = <<>> /\ Len(Closed.entries) = 0
    BY <1>3, <1>4 DEF PendingBatch
<1>6. pending' = Closed /\ rows' = rows /\ version' \in {version, version + 1}
    <2>1. ~(0 >= Batch)
        BY FacadeAssumption
    <2> QED
        BY <1>2, <1>5, <2>1 DEF FinishAdd, Settle
<1> QED
    BY <1>1, <1>2, <1>5, <1>6, EndsInJS

LEMMA FinishAddAllInJSStep ==
    ASSUME InJS, FinishAddAll
    PROVE  InJS'
<1>1. mode = "javascript" /\ pending \in PendingBatch /\ pending.entries = <<>>
      /\ js = upstream /\ js \in Copies
    BY MovedParts
<1>2. /\ stack # <<>> /\ stack' = Front(stack) /\ version' = version + 1
      /\ pending' = pending /\ rows' = rows
      /\ UNCHANGED <<mode, ids, shortIds, dirty, js, table, upstream>>
    BY <1>1 DEF FinishAddAll, InCall, Below, Settle
<1> QED
    BY <1>1, <1>2, EndsInJS

LEMMA FinishRemoveInJSStep ==
    ASSUME InJS, FinishRemoveInJS
    PROVE  InJS'
<1>1. /\ stack # <<>> /\ Top.op # "all" /\ version' = version + 1
      /\ js' = IF HasField THEN js ELSE [js EXCEPT ![Top.doc.id] = NoDocument]
      /\ upstream' = IF HasField THEN upstream ELSE Upstream(Top, NoDocument)
      /\ stack' = IF HasField THEN Front(stack)
                  ELSE WithoutDocuments(Front(stack), {Top.doc.id})
      /\ UNCHANGED <<mode, ids, shortIds, rows, dirty, pending, table>>
    BY DEF FinishRemoveInJS, InCall, Below
<1>2. Top.current /\ Top.doc.id \in Ids
    BY <1>1, TopInJS
<1>3. js = upstream /\ js \in Copies /\ pending \in PendingBatch /\ pending.entries = <<>>
    BY MovedParts
<1>4. js' \in Copies /\ upstream' = js'
    BY <1>1, <1>2, <1>3 DEF Copies, Upstream
<1>5. WithoutDocuments(Front(stack), {Top.doc.id}) = Front(stack)
    <2>1. /\ Front(stack) \in Seq(Call)
          /\ \A k \in 1 .. Len(Front(stack)) : Front(stack)[k].doc.id = NoId
        BY <1>1, AllInJS
    <2>2. \A k \in 1 .. Len(Front(stack)) : Front(stack)[k].doc.id \notin {Top.doc.id}
        BY <1>2, <2>1, FacadeAssumption
    <2> QED
        BY <2>1, <2>2, SameFrames
<1>6. stack' = Front(stack)
    BY <1>1, <1>5
<1> QED
    BY <1>1, <1>3, <1>4, <1>6, EndsInJS

----------------------------------------------------------------------------
(* The invariant.                                                          *)

\* A new index.
LEMMA NewNative ==
    /\ Native(<<>>, NoShortIds, <<>>, NoPending, <<>>, NoDocuments)
    /\ NoDocuments \in Copies /\ NoTable.version = -1 /\ Waiting(NoPending, <<>>)
<1>1. NoPending \in PendingBatch /\ NoPending.entries = <<>>
    BY DEF NoPending, PendingBatch
<1>2. Native(<<>>, NoShortIds, <<>>, NoPending, <<>>, NoDocuments)
    BY <1>1, EmptyNative
<1>3. NoDocuments \in Copies /\ NoTable.version = -1
    BY DEF NoDocuments, Copies, NoTable
<1>4. Waiting(NoPending, <<>>)
    BY <1>1, Idle
<1> QED
    BY <1>2, <1>3, <1>4

LEMMA InitInWasm ==
    ASSUME Init
    PROVE  InWasm
<1>1. Versions
    BY NewNative DEF Init, Versions
<1> QED
    BY <1>1, NewNative DEF Init, InWasm

LEMMA NewStep ==
    ASSUME New
    PROVE  InWasm'
<1>1. Versions'
    BY NewNative DEF New, Versions
<1> QED
    BY <1>1, NewNative DEF New, InWasm

\* The operations of which calls are in progress, by mode.
LEMMA Ops ==
    /\ InWasm /\ stack # <<>> => Top.op \in {"add", "all", "remove"}
    /\ InJS /\ stack # <<>> => Top.op \in {"all", "addInJS", "removeInJS"}
<1>1. ASSUME NEW m, stack \in Seq(Call), Calls(stack, m), stack # <<>>
      PROVE  IF m = "wasm" THEN Top.op \in {"add", "all", "remove"}
             ELSE Top.op \in {"all", "addInJS", "removeInJS"}
    <2>1. /\ Last(stack) = stack[Len(stack)] /\ Len(stack) \in Nat /\ Len(stack) >= 1
        BY <1>1, Shorter
    <2>2. Top = stack[Len(stack)] /\ Len(stack) \in 1 .. Len(stack)
        BY <2>1 DEF Top
    <2> QED
        BY <1>1, <2>2 DEF Calls
<1>2. ASSUME InWasm, stack # <<>>
      PROVE  Top.op \in {"add", "all", "remove"}
    <2>1. stack \in Seq(Call) /\ Calls(stack, "wasm")
        BY <1>2, NativeParts DEF InWasm
    <2> QED
        BY <1>1, <1>2, <2>1
<1>3. ASSUME InJS, stack # <<>>
      PROVE  Top.op \in {"all", "addInJS", "removeInJS"}
    <2>1. stack \in Seq(Call) /\ Calls(stack, "javascript")
        BY <1>3, MovedParts
    <2> QED
        BY <1>1, <1>3, <2>1
<1> QED
    BY <1>2, <1>3

LEMMA NextInWasm ==
    ASSUME PlainCallbacks, InWasm, Next
    PROVE  InWasm' \/ InJS'
<1>1. mode = "wasm"
    BY DEF InWasm
<1>2. ASSUME NEW doc \in Documents,
             Add(doc) \/ AddDuplicate(doc) \/ AddNext(doc) \/ AddNextInJS(doc)
             \/ RemoveDocument(doc)
      PROVE  InWasm'
    <2>1. ~AddNextInJS(doc)
        BY <1>1 DEF AddNextInJS
    <2> QED
        BY <1>2, <2>1, AddStep, AddDuplicateStep, AddNextStep, RemoveDocumentStep
<1>3. ~IndexInJS /\ ~UnindexInJS /\ ~FinishRemoveInJS
    BY Ops DEF IndexInJS, UnindexInJS, FinishRemoveInJS, InCall
<1>4. ASSUME NEW id \in Ids, Discard(id)
      PROVE  InWasm'
    BY <1>4, DiscardStep
<1> QED
    BY <1>2, <1>3, <1>4, NewStep, AddAllStep, CollectFieldStep, CollectUnfitStep, FinishAddStep,
       FinishAddAllStep, RemoveFieldStep, RemoveUnfitStep, FinishRemoveStep, RemoveAllStep,
       VacuumEndsStep, CompactStep, AutoCompactStep, DocIdTableStep, SearchPromotesStep DEF Next

LEMMA NextInJS ==
    ASSUME InJS, Next
    PROVE  InWasm' \/ InJS'
<1>1. mode = "javascript" /\ ~(mode = "wasm")
    BY DEF InJS
<1>2. ASSUME NEW doc \in Documents,
             Add(doc) \/ AddDuplicate(doc) \/ AddNext(doc) \/ AddNextInJS(doc)
             \/ RemoveDocument(doc)
      PROVE  InJS'
    <2>1. ~Add(doc) /\ ~AddDuplicate(doc) /\ ~AddNext(doc) /\ ~RemoveDocument(doc)
        BY <1>1 DEF Add, AddDuplicate, AddNext, RemoveDocument, Callable
    <2> QED
        BY <1>2, <2>1, AddNextInJSStep
<1>3. ~CollectField /\ ~CollectUnfit /\ ~RemoveField /\ ~RemoveUnfit /\ ~FinishRemove
    BY Ops DEF CollectField, CollectUnfit, RemoveField, RemoveUnfit, FinishRemove, InCall
<1>4. \A id \in Ids : ~Discard(id)
    BY <1>1 DEF Discard, Callable
<1>5. ~AddAll /\ ~RemoveAll /\ ~VacuumEnds /\ ~Compact /\ ~AutoCompact /\ ~DocIdTable
      /\ ~SearchPromotes
    BY <1>1 DEF AddAll, RemoveAll, VacuumEnds, Compact, AutoCompact, DocIdTable,
                SearchPromotes, Callable
<1> QED
    BY <1>2, <1>3, <1>4, <1>5, NewStep, IndexInJSStep, UnindexInJSStep, FinishRemoveInJSStep,
       FinishAddInJSStep, FinishAddAllInJSStep DEF Next

\* Every call of the facade, callback and transfer keeps the invariant.
LEMMA NextInv ==
    ASSUME PlainCallbacks, IInv, [Next]_vars
    PROVE  IInv'
<1>1. InWasm \/ InJS
    BY Modes
<1>2. CASE Next
    <2>1. InWasm' \/ InJS'
        BY <1>1, <1>2, NextInWasm, NextInJS
    <2> QED
        BY <2>1 DEF IInv, InWasm, InJS
<1>3. CASE UNCHANGED vars
    BY <1>3 DEF vars, facade, IInv, Versions, Moved
<1> QED
    BY <1>2, <1>3

----------------------------------------------------------------------------
(* The theorems.                                                           *)

\* The inductive invariant: rows and pending batch are one line of documents,
\* which the tables number and upstream mirrors; open entries and calls in
\* progress belong to each other; after a transfer the JavaScript engine is
\* what upstream is.
THEOREM Invariance ==
    ASSUME PlainCallbacks
    PROVE  Spec => []IInv
<1>1. Init => IInv
    BY InitInWasm, Modes
<1>2. IInv /\ [Next]_vars => IInv'
    BY NextInv
<1> QED
    BY <1>1, <1>2, PTL DEF Spec

LEMMA TypesHold ==
    ASSUME IInv
    PROVE  TypeOK
<1>1. CASE InWasm
    <2>1. /\ ids \in Tables /\ shortIds \in ShortIds /\ rows \in Seq(Row)
          /\ pending \in PendingBatch /\ upstream \in Copies /\ stack \in Seq(Call)
          /\ Framed(stack, pending, shortIds, Len(rows))
          /\ mode = "wasm" /\ dirty \in BOOLEAN /\ js \in Copies /\ Versions
        BY <1>1, NativeParts DEF InWasm
    <2>2. /\ pending.first \in Nat /\ DOMAIN pending.entries = 1 .. Len(pending.entries)
        BY <2>1, Entries
    <2>3. DOMAIN stack = 1 .. Len(stack)
        BY <2>1
    <2>4. \A i \in DOMAIN pending.entries : pending.entries[i].open =>
              pending.entries[i].depth \in DOMAIN stack
        BY <2>1, <2>2, <2>3 DEF Framed
    <2> QED
        BY <2>1, <2>2, <2>4 DEF TypeOK, Tables, ShortIds, Row, Copies, Versions
<1>2. CASE InJS
    <2>1. /\ ids \in Tables /\ shortIds \in ShortIds /\ rows \in Seq(Row)
          /\ pending \in PendingBatch /\ pending.entries = <<>>
          /\ upstream \in Copies /\ js \in Copies
          /\ mode = "javascript" /\ dirty \in BOOLEAN /\ Versions
        BY <1>2, MovedParts
    <2>2. pending.first \in Nat /\ DOMAIN pending.entries = {}
        BY <2>1, Entries
    <2> QED
        BY <2>1, <2>2 DEF TypeOK, Tables, ShortIds, Row, Copies, Versions
<1> QED
    BY <1>1, <1>2, Modes

\* The facade's tables, batches and calls keep their types: _collect, _settle,
\* _compact and _promote of src/js/minisearch.js.
THEOREM TypeCorrect ==
    ASSUME PlainCallbacks
    PROVE  Spec => []TypeOK
<1>1. Spec => []IInv
    BY Invariance
<1>2. IInv => TypeOK
    BY TypesHold
<1> QED
    BY <1>1, <1>2, PTL

LEMMA NumberingHolds ==
    ASSUME IInv
    PROVE  SameNumbering
<1>1. SUFFICES ASSUME mode = "wasm"
               PROVE  SameNumbering
    BY DEF SameNumbering
<1>2. Native(ids, shortIds, rows, pending, stack, upstream)
    BY <1>1 DEF IInv
<1> DEFINE n == Len(rows)
           m == Len(pending.entries)
           line == Line(rows, pending)
<1>3. /\ ids \in Tables /\ shortIds \in ShortIds /\ rows \in Seq(Row) /\ pending \in PendingBatch
      /\ pending.entries # <<>> => pending.first = n
      /\ Numbered(ids, shortIds, line)
    BY <1>2, NativeParts
<1>4. /\ Len(line) = n + m /\ n \in Nat /\ m \in Nat
      /\ \A s \in 1 .. n : line[s] = rows[s]
      /\ \A e \in 1 .. m : line[n + e].id = pending.entries[e].id
    BY <1>3, LineParts
<1>5. DOMAIN rows = 1 .. n /\ DOMAIN pending.entries = 1 .. m
    BY <1>3, Entries
<1> HIDE DEF n, m, line
<1>6. Len(ids) = n + m /\ \A s \in 1 .. (n + m) : line[s].id = ids[s]
    BY <1>3, <1>4 DEF Numbered
<1>7. \A s \in 1 .. n : rows[s].id = ids[s]
    <2>1. \A s \in 1 .. n : s \in 1 .. (n + m)
        BY <1>4
    <2> QED
        BY <1>4, <1>6, <2>1
<1>8. \A e \in 1 .. m : pending.entries[e].id = ids[n + e]
    <2>1. \A e \in 1 .. m : n + e \in 1 .. (n + m)
        BY <1>4
    <2> QED
        BY <1>4, <1>6, <2>1
<1>9. ASSUME NEW id \in Ids, shortIds[id] # NoShortId
      PROVE  shortIds[id] < Len(ids) /\ ids[shortIds[id] + 1] = id
    <2>1. shortIds[id] + 1 \in 1 .. Len(line) /\ ids[shortIds[id] + 1] = id
        BY <1>3, <1>9 DEF Numbered
    <2>2. shortIds[id] \in Nat
        BY <1>3, <1>9 DEF ShortIds
    <2> QED
        BY <1>4, <1>6, <2>1, <2>2
<1> QED
    BY <1>3, <1>5, <1>6, <1>7, <1>8, <1>9 DEF SameNumbering, n, m

\* Facade and engine number documents alike, in the middle of nested calls too:
\* no batch that _flush sends is refused, if callbacks do no more than
\* PlainCallbacks lets them.
THEOREM NumberingCorrect ==
    ASSUME PlainCallbacks
    PROVE  Spec => []SameNumbering
<1>1. Spec => []IInv
    BY Invariance
<1>2. IInv => SameNumbering
    BY NumberingHolds
<1> QED
    BY <1>1, <1>2, PTL

\* The copy docIdTable hands out is never stale between two calls: each change
\* of the ids moves _version, by the time its call returns.
THEOREM TableCorrect ==
    ASSUME PlainCallbacks
    PROVE  Spec => []TableIsCurrent
<1>1. Spec => []IInv
    BY Invariance
<1>2. IInv => TableIsCurrent
    <2>1. stack = <<>> => Steady(stack)
        BY DEF Steady
    <2> QED
        BY <2>1 DEF IInv, Versions, TableIsCurrent
<1> QED
    BY <1>1, <1>2, PTL

LEMMA DocumentsHold ==
    ASSUME IInv
    PROVE  SameDocumentsAsUpstream
<1>1. SUFFICES ASSUME stack = <<>>, NEW id \in Ids
               PROVE  Held(id) = upstream[id]
    BY DEF SameDocumentsAsUpstream
<1>2. CASE InWasm
    <2>1. /\ mode = "wasm" /\ Native(ids, shortIds, rows, pending, stack, upstream)
          /\ pending.entries = <<>>
        BY <1>1, <1>2, Flushing DEF InWasm
    <2>2. /\ rows \in Seq(Row) /\ pending \in PendingBatch /\ shortIds \in ShortIds
          /\ Numbered(ids, shortIds, Line(rows, pending))
          /\ Mirrored(Line(rows, pending), shortIds, stack, upstream)
        BY <2>1, NativeParts
    <2>3. Line(rows, pending) = rows
        BY <2>1, <2>2, LineAlone
    <2>4. CASE shortIds[id] = NoShortId
        BY <2>1, <2>2, <2>4 DEF Held, Mirrored
    <2>5. CASE shortIds[id] # NoShortId
        <3>1. shortIds[id] \in 0 .. (Len(rows) - 1)
            <4>1. shortIds[id] + 1 \in 1 .. Len(rows) /\ shortIds[id] \in Nat
                BY <2>2, <2>3, <2>5 DEF Numbered, ShortIds
            <4> QED
                BY <2>2, <4>1
        <3>2. /\ rows[shortIds[id] + 1].id = id
              /\ rows[shortIds[id] + 1].fields \in SUBSET Fields
              /\ upstream[id] = rows[shortIds[id] + 1].fields \ Taken(stack, id)
            BY <2>1, <3>1, RowOf
        <3>3. Taken(stack, id) = {}
            BY <1>1, TakenNothing
        <3>4. rows[shortIds[id] + 1] # Dead
            BY <3>2, FacadeAssumption DEF Dead
        <3>5. IsLive(shortIds[id])
            BY <3>1, <3>4 DEF IsLive
        <3>6. Held(id) = rows[shortIds[id] + 1].fields
            BY <2>1, <2>5, <3>5 DEF Held
        <3> QED
            BY <3>2, <3>3, <3>6
    <2> QED
        BY <2>4, <2>5
<1>3. CASE InJS
    BY <1>3, MovedParts DEF Held
<1> QED
    BY <1>2, <1>3, Modes

\* Between two calls of add, addAll, remove, discard, removeAll or _compact, a
\* search that moves the index included, the index holds under each id what
\* upstream's MiniSearch would, if callbacks do no more than PlainCallbacks lets
\* them: one that moves the index in the middle of an add breaks it.
THEOREM DocumentsCorrect ==
    ASSUME PlainCallbacks
    PROVE  Spec => []SameDocumentsAsUpstream
<1>1. Spec => []IInv
    BY Invariance
<1>2. IInv => SameDocumentsAsUpstream
    BY DocumentsHold
<1> QED
    BY <1>1, <1>2, PTL
=============================================================================
