---------------------------- MODULE TableBuildProofs ----------------------------
(***************************************************************************)
(* The merge loop of compact leaves the merge of its inputs in the file,   *)
(* and both callers of the writer keep its contract.                       *)
(***************************************************************************)
EXTENDS TableBuild, SSTableProofs

\* The last record of input i that was read, and whether it is in the heap.
At(i) == Len(inputs[i]) - Len(rest[i])
Live(i) == \E e \in heap : e.idx = i

\* The records that the heap has popped, and the keys it has popped one of.
Taken(i, j) == j < At(i) \/ ~Live(i)
Decided(k) ==
    \E i \in DOMAIN inputs : \E j \in DOMAIN inputs[i] : Taken(i, j) /\ inputs[i][j].key = k

---------------------------------------------------------------------------
(* The inductive invariant *)

\* The heap holds the record each iterator yielded last, buffered its value.
CursorInv ==
    /\ inputs \in Inputs \cup {<<>>}
    /\ DOMAIN rest = DOMAIN inputs
    /\ \A i \in DOMAIN inputs :
        /\ rest[i] \in Seq(Record)
        /\ Len(rest[i]) <= Len(inputs[i])
        /\ \A j \in DOMAIN rest[i] : rest[i][j] = inputs[i][At(i) + j]
        /\ ~Live(i) => rest[i] = <<>>
    /\ \A e \in heap :
        /\ e.idx \in DOMAIN inputs
        /\ At(e.idx) \in DOMAIN inputs[e.idx]
        /\ e = Entry(inputs[e.idx][At(e.idx)], e.idx)
        /\ buffered[e.idx] = inputs[e.idx][At(e.idx)].val
    /\ buffered \in [DOMAIN inputs -> Value \cup {None}]

\* What was popped precedes what was not.
PoppedInOrder ==
    \A i, ii \in DOMAIN inputs : \A j \in DOMAIN inputs[i], jj \in DOMAIN inputs[ii] :
        Taken(i, j) /\ ~Taken(ii, jj)
            => Precedes(Entry(inputs[i][j], i), Entry(inputs[ii][jj], ii))

\* last_emitted_key is the greatest key a version of which was popped.
LastIsGreatest ==
    /\ lastEmitted # None => Decided(lastEmitted)
    /\ \A i \in DOMAIN inputs : \A j \in DOMAIN inputs[i] :
        Taken(i, j) => lastEmitted # None /\ inputs[i][j].key <= lastEmitted

\* The file holds the merge, as far as it is decided.
OutputSoFar ==
    job = "compact" =>
        /\ Run = {r \in Merge(Sets(inputs), isLastLevel) : Decided(r.key)}
        /\ finished => heap = {}

JobInv ==
    /\ job \in {"flush", "compact"}
    /\ isLastLevel \in BOOLEAN
    /\ lastEmitted \in Key \cup {None}
    /\ job = "flush" => inputs = <<>>

MergeInv == JobInv /\ CursorInv /\ PoppedInOrder /\ LastIsGreatest /\ OutputSoFar

BuildInv == WriterInv /\ MergeInv
---------------------------------------------------------------------------
(* The heap *)

LEMMA RecordParts ==
    ASSUME NEW r \in Record
    PROVE  /\ r.key \in Key /\ r.key \in Int /\ r.seq \in SeqNum /\ r.seq \in Int
           /\ r.val \in Value /\ r.val # None
           /\ r = [key |-> r.key, seq |-> r.seq, val |-> r.val]
<1>1. r.key \in Key /\ r.seq \in SeqNum /\ r.val \in Value
    BY DEF Record
<1>2. r = [key |-> r.key, seq |-> r.seq, val |-> r.val]
    BY DEF Record
<1>3. r.key \in Int
    BY <1>1, SSTableAssumption
<1>4. r.seq \in Int /\ r.val # None
    BY <1>1, MVCCAssumption DEF SeqNum, Value
<1> QED BY <1>1, <1>2, <1>3, <1>4

LEMMA Typed ==
    ASSUME CursorInv
    PROVE  /\ DOMAIN inputs \subseteq Nat
           /\ \A i \in DOMAIN inputs :
                /\ inputs[i] \in Seq(Record)
                /\ Len(inputs[i]) \in Nat /\ DOMAIN inputs[i] = 1 .. Len(inputs[i])
                /\ InOrder(inputs[i])
                /\ Len(rest[i]) \in Nat /\ DOMAIN rest[i] = 1 .. Len(rest[i])
                /\ At(i) \in Nat /\ At(i) <= Len(inputs[i])
                /\ \A j \in DOMAIN inputs[i] : inputs[i][j] \in Record
<1>1. inputs \in Seq(Seq(Record)) /\ \A i \in DOMAIN inputs : InOrder(inputs[i])
    <2>1. CASE inputs = <<>>
        BY <2>1
    <2>2. CASE inputs \in Inputs
        BY <2>2, TableBuildAssumption
    <2> QED BY <2>1, <2>2 DEF CursorInv
<1>2. DOMAIN inputs \subseteq Nat /\ \A i \in DOMAIN inputs : inputs[i] \in Seq(Record)
    <2> HIDE DEF CursorInv
    <2>1. DOMAIN inputs = 1 .. Len(inputs) /\ Len(inputs) \in Nat
        BY <1>1
    <2> QED BY <1>1, <2>1
<1> SUFFICES ASSUME NEW i \in DOMAIN inputs
             PROVE  /\ Len(inputs[i]) \in Nat /\ DOMAIN inputs[i] = 1 .. Len(inputs[i])
                    /\ Len(rest[i]) \in Nat /\ DOMAIN rest[i] = 1 .. Len(rest[i])
                    /\ At(i) \in Nat /\ At(i) <= Len(inputs[i])
                    /\ \A j \in DOMAIN inputs[i] : inputs[i][j] \in Record
    BY <1>1, <1>2
<1>3. inputs[i] \in Seq(Record) /\ rest[i] \in Seq(Record) /\ Len(rest[i]) <= Len(inputs[i])
    BY <1>2 DEF CursorInv
<1> DEFINE a == inputs[i]
           b == rest[i]
<1> HIDE DEF a, b
<1>4. a \in Seq(Record) /\ b \in Seq(Record) /\ Len(b) <= Len(a)
    BY <1>3 DEF a, b
<1>5. /\ Len(a) \in Nat /\ DOMAIN a = 1 .. Len(a)
      /\ Len(b) \in Nat /\ DOMAIN b = 1 .. Len(b)
      /\ Len(a) - Len(b) \in Nat /\ Len(a) - Len(b) <= Len(a)
      /\ \A j \in DOMAIN a : a[j] \in Record
    BY <1>4
<1> QED BY <1>5 DEF At, a, b

\* An entry of the heap is the first record of its input that was not popped.
LEMMA EntryNotTaken ==
    ASSUME CursorInv, NEW e \in heap
    PROVE  LET r == inputs[e.idx][At(e.idx)]
           IN  /\ e.idx \in DOMAIN inputs
               /\ At(e.idx) \in DOMAIN inputs[e.idx]
               /\ ~Taken(e.idx, At(e.idx))
               /\ r \in Record
               /\ e.key = r.key /\ e.seq = r.seq /\ buffered[e.idx] = r.val
               /\ e.key \in Key /\ e.seq \in SeqNum
               /\ e = Entry(r, e.idx)
<1>1. /\ e.idx \in DOMAIN inputs
      /\ At(e.idx) \in DOMAIN inputs[e.idx]
      /\ e = Entry(inputs[e.idx][At(e.idx)], e.idx)
      /\ buffered[e.idx] = inputs[e.idx][At(e.idx)].val
    BY DEF CursorInv
<1>2. inputs[e.idx][At(e.idx)] \in Record /\ At(e.idx) \in Nat
    BY <1>1, Typed
<1>3. ~Taken(e.idx, At(e.idx))
    BY <1>2 DEF Taken, Live
<1> DEFINE r == inputs[e.idx][At(e.idx)]
<1> HIDE DEF r
<1>4. e.key = r.key /\ e.seq = r.seq
    <2>1. e = [key |-> r.key, seq |-> r.seq, idx |-> e.idx]
        BY <1>1 DEF Entry, r
    <2> QED BY <2>1
<1>5. r \in Record
    BY <1>2 DEF r
<1> QED BY <1>1, <1>3, <1>4, <1>5, RecordParts DEF r

\* A pop takes the record of its entry, and no other.
LEMMA PopTakes ==
    ASSUME CursorInv, NEW e \in heap, Pop(e), UNCHANGED inputs
    PROVE  /\ CursorInv'
           /\ \A i \in DOMAIN inputs : \A j \in DOMAIN inputs[i] :
                Taken(i, j)' <=> Taken(i, j) \/ (i = e.idx /\ j = At(e.idx))
<1> DEFINE i0 == e.idx
           a == inputs[i0]
           b == rest[i0]
<1>0. /\ i0 \in DOMAIN inputs /\ At(i0) \in DOMAIN inputs[i0]
      /\ e = Entry(inputs[i0][At(i0)], i0)
    BY EntryNotTaken
<1>1. /\ a \in Seq(Record) /\ Len(a) \in Nat /\ DOMAIN a = 1 .. Len(a)
      /\ b \in Seq(Record) /\ Len(b) \in Nat /\ DOMAIN b = 1 .. Len(b)
      /\ At(i0) = Len(a) - Len(b) /\ At(i0) \in 1 .. Len(a)
      /\ \A j \in DOMAIN b : b[j] = a[At(i0) + j]
    BY <1>0, Typed DEF CursorInv, At
<1>2. /\ rest' = [rest EXCEPT ![i0] = IF b = <<>> THEN <<>> ELSE Tail(b)]
      /\ heap' = (heap \ {e}) \cup (IF b = <<>> THEN {} ELSE {Entry(b[1], i0)})
      /\ buffered' = [buffered EXCEPT ![i0] = IF b = <<>> THEN None ELSE b[1].val]
      /\ inputs' = inputs
      /\ DOMAIN rest = DOMAIN inputs
      /\ buffered \in [DOMAIN inputs -> Value \cup {None}]
    BY DEF Pop, CursorInv
<1>3. \A f \in heap : f.idx = i0 => f = e
    <2>1. \A f \in heap : f = Entry(inputs[f.idx][At(f.idx)], f.idx)
        BY DEF CursorInv
    <2> QED BY <1>0, <2>1
<1>4. \A r, i : Entry(r, i).idx = i
    BY DEF Entry
<1>5. ASSUME NEW i \in DOMAIN inputs, i # i0
      PROVE  /\ rest'[i] = rest[i] /\ buffered'[i] = buffered[i]
             /\ At(i)' = At(i) /\ Live(i)' = Live(i)
    <2>1. rest'[i] = rest[i] /\ buffered'[i] = buffered[i]
        BY <1>2, <1>5
    <2>2. Live(i)' = Live(i)
        BY <1>2, <1>4, <1>5 DEF Live
    <2> QED BY <1>2, <2>1, <2>2 DEF At
<1>6. /\ rest'[i0] \in Seq(Record)
      /\ Len(rest'[i0]) <= Len(a)
      /\ \A j \in DOMAIN rest'[i0] : rest'[i0][j] = a[At(i0)' + j]
      /\ ~Live(i0)' => rest'[i0] = <<>>
      /\ buffered'[i0] \in Value \cup {None}
      /\ \A f \in heap' : f.idx = i0 =>
            /\ At(i0)' \in DOMAIN a
            /\ f = Entry(a[At(i0)'], i0)
            /\ buffered'[i0] = a[At(i0)'].val
      /\ \A j \in DOMAIN a : Taken(i0, j)' <=> Taken(i0, j) \/ j = At(i0)
    <2>1. CASE b = <<>>
        <3>1. rest'[i0] = <<>> /\ buffered'[i0] = None /\ heap' = heap \ {e}
            BY <1>0, <1>2, <2>1
        <3>2. ~Live(i0)'
            BY <1>3, <3>1 DEF Live
        <3>3. At(i0) = Len(a)
            BY <1>1, <2>1
        <3>4. \A j \in DOMAIN a : j < At(i0) \/ j = At(i0)
            <4> SUFFICES ASSUME NEW j \in DOMAIN a PROVE j < At(i0) \/ j = At(i0)
                OBVIOUS
            <4>1. j \in 1 .. Len(a)
                BY <1>1
            <4> HIDE DEF a
            <4> QED BY <1>1, <3>3, <4>1
        <3>5. \A f \in heap' : f.idx # i0
            BY <3>2 DEF Live
        <3>6. <<>> \in Seq(Record) /\ Len(<<>>) = 0 /\ DOMAIN <<>> = {}
            OBVIOUS
        <3>7. \A j \in DOMAIN a : Taken(i0, j)' /\ (Taken(i0, j) \/ j = At(i0))
            BY <3>2, <3>4 DEF Taken
        <3>8. rest'[i0] \in Seq(Record) /\ Len(rest'[i0]) <= Len(a) /\ DOMAIN rest'[i0] = {}
            BY <1>1, <3>1, <3>6
        <3>9. \A j \in DOMAIN a : Taken(i0, j)' <=> Taken(i0, j) \/ j = At(i0)
            BY <3>7
        <3> HIDE DEF a, b, i0
        <3> QED BY <3>1, <3>5, <3>8, <3>9
    <2>2. CASE b # <<>>
        <3>1. /\ rest'[i0] = Tail(b) /\ buffered'[i0] = b[1].val
              /\ heap' = (heap \ {e}) \cup {Entry(b[1], i0)}
            BY <1>0, <1>2, <2>2
        <3> HIDE DEF a, b
        <3>2. /\ Tail(b) \in Seq(Record) /\ Len(Tail(b)) = Len(b) - 1
              /\ Len(b) >= 1 /\ DOMAIN Tail(b) = 1 .. Len(b) - 1
              /\ \A j \in 1 .. Len(b) - 1 : Tail(b)[j] = b[j + 1]
            BY <1>1, <2>2
        <3>3. At(i0)' = At(i0) + 1
            BY <1>1, <1>2, <3>1, <3>2 DEF At, a
        <3>4. Live(i0)'
            BY <1>4, <3>1 DEF Live
        <3>5. Live(i0)
            BY DEF Live
        <3>6. At(i0) + 1 \in DOMAIN a /\ b[1] = a[At(i0) + 1] /\ b[1] \in Record
            BY <1>1, <3>2
        <3>7. \A f \in heap' : f.idx = i0 => f = Entry(b[1], i0)
            BY <1>3, <3>1
        <3>8. \A j \in 1 .. Len(b) - 1 : Tail(b)[j] = a[At(i0) + 1 + j]
            <4>1. ASSUME NEW j \in 1 .. Len(b) - 1 PROVE Tail(b)[j] = a[At(i0) + 1 + j]
                <5>1. j + 1 \in DOMAIN b /\ At(i0) + (j + 1) = At(i0) + 1 + j
                    BY <1>1
                <5> QED BY <1>1, <3>2, <5>1
            <4> QED BY <4>1
        <3>9. \A j \in DOMAIN a : j < At(i0) + 1 <=> j < At(i0) \/ j = At(i0)
            <4>1. \A j \in DOMAIN a : j \in Int
                BY <1>1
            <4>2. At(i0) \in Int
                BY <1>1
            <4> HIDE DEF a, b, i0
            <4> QED BY <4>1, <4>2
        <3>10. \A j \in DOMAIN a : Taken(i0, j)' <=> Taken(i0, j) \/ j = At(i0)
            BY <3>3, <3>4, <3>5, <3>9 DEF Taken
        <3>11. Len(Tail(b)) <= Len(a)
            BY <1>1, <3>2
        <3>12. b[1].val \in Value \cup {None}
            BY <3>6, RecordParts
        <3> QED BY <3>1, <3>2, <3>3, <3>4, <3>6, <3>7, <3>8, <3>10, <3>11, <3>12
    <2> QED BY <2>1, <2>2
<1>7. CursorInv'
    <2>1. inputs' \in Inputs \cup {<<>>} /\ DOMAIN rest' = DOMAIN inputs'
        BY <1>2 DEF CursorInv
    <2>2. ASSUME NEW i \in DOMAIN inputs
          PROVE  /\ rest'[i] \in Seq(Record)
                 /\ Len(rest'[i]) <= Len(inputs[i])
                 /\ \A j \in DOMAIN rest'[i] : rest'[i][j] = inputs[i][At(i)' + j]
                 /\ ~Live(i)' => rest'[i] = <<>>
        <3>1. CASE i = i0
            BY <1>6, <3>1
        <3>2. CASE i # i0
            <4>1. /\ rest[i] \in Seq(Record)
                  /\ Len(rest[i]) <= Len(inputs[i])
                  /\ \A j \in DOMAIN rest[i] : rest[i][j] = inputs[i][At(i) + j]
                  /\ ~Live(i) => rest[i] = <<>>
                BY DEF CursorInv
            <4> QED BY <1>5, <3>2, <4>1
        <3> QED BY <3>1, <3>2
    <2>3. ASSUME NEW f \in heap'
          PROVE  /\ f.idx \in DOMAIN inputs
                 /\ At(f.idx)' \in DOMAIN inputs[f.idx]
                 /\ f = Entry(inputs[f.idx][At(f.idx)'], f.idx)
                 /\ buffered'[f.idx] = inputs[f.idx][At(f.idx)'].val
        <3>1. CASE f.idx = i0
            BY <1>0, <1>6, <3>1
        <3>2. CASE f.idx # i0
            <4>1. f \in heap
                BY <1>2, <1>4, <3>2
            <4>2. /\ f.idx \in DOMAIN inputs
                  /\ At(f.idx) \in DOMAIN inputs[f.idx]
                  /\ f = Entry(inputs[f.idx][At(f.idx)], f.idx)
                  /\ buffered[f.idx] = inputs[f.idx][At(f.idx)].val
                BY <4>1 DEF CursorInv
            <4> QED BY <1>5, <3>2, <4>2
        <3> QED BY <3>1, <3>2
    <2>4. buffered' \in [DOMAIN inputs -> Value \cup {None}]
        BY <1>2, <1>5, <1>6
    <2> QED BY <1>2, <2>1, <2>2, <2>3, <2>4 DEF CursorInv
<1>8. ASSUME NEW i \in DOMAIN inputs, NEW j \in DOMAIN inputs[i]
      PROVE  Taken(i, j)' <=> Taken(i, j) \/ (i = i0 /\ j = At(i0))
    <2>1. CASE i = i0
        BY <1>6, <2>1
    <2>2. CASE i # i0
        BY <1>5, <2>2 DEF Taken
    <2> QED BY <2>1, <2>2
<1> QED BY <1>7, <1>8
\* What is behind an entry is behind all that the entry is behind.
LEMMA PrecedesBefore ==
    ASSUME NEW e, NEW f, NEW x,
           e.key \in Int, f.key \in Int, x.key \in Int, e.seq \in Int, f.seq \in Int, x.seq \in Int,
           Precedes(e, f), Before(f, x)
    PROVE  Precedes(e, x)
BY DEF Precedes, Before

\* The entry BinaryHeap::pop returns.
IsLeast(e) == e \in heap /\ \A f \in heap \ {e} : Precedes(e, f)

\* The least entry precedes every record that was not popped.
LEMMA LeastPrecedes ==
    ASSUME CursorInv, NEW e, IsLeast(e),
           NEW i \in DOMAIN inputs, NEW j \in DOMAIN inputs[i], ~Taken(i, j),
           ~ (i = e.idx /\ j = At(e.idx))
    PROVE  Precedes(e, Entry(inputs[i][j], i))
<1> DEFINE x == Entry(inputs[i][j], i)
<1>0. e \in heap /\ \A f \in heap \ {e} : Precedes(e, f)
    BY DEF IsLeast
<1>1. PICK f \in heap : f.idx = i
    BY DEF Taken, Live
<1>2. /\ f.key \in Int /\ f.seq \in Int /\ e.key \in Int /\ e.seq \in Int
      /\ f = Entry(inputs[i][At(i)], i)
      /\ At(i) \in DOMAIN inputs[i] /\ inputs[i][At(i)] \in Record
      /\ f.key = inputs[i][At(i)].key /\ f.seq = inputs[i][At(i)].seq
    BY <1>0, <1>1, EntryNotTaken, RecordParts
<1>3. /\ inputs[i][j] \in Record /\ j \in Int /\ At(i) \in Int
      /\ InOrder(inputs[i])
    BY Typed
<1>4. x.key \in Int /\ x.seq \in Int /\ x.key = inputs[i][j].key /\ x.seq = inputs[i][j].seq
    BY <1>3, RecordParts DEF Entry
<1>5. j = At(i) \/ At(i) < j
    BY <1>3 DEF Taken
<1>6. CASE j = At(i)
    <2>1. f # e /\ x = f
        BY <1>1, <1>2, <1>6
    <2> QED BY <1>0, <2>1
<1>7. CASE At(i) < j
    <2>1. Before(inputs[i][At(i)], inputs[i][j])
        BY <1>2, <1>3, <1>7 DEF InOrder
    <2>2. Before(f, x)
        BY <1>2, <1>4, <2>1 DEF Before
    <2> HIDE DEF x
    <2>3. Precedes(e, x)
        <3>1. CASE f = e
            BY <2>2, <3>1 DEF Precedes
        <3>2. CASE f # e
            <4>1. Precedes(e, f)
                BY <1>0, <3>2
            <4> QED BY <1>2, <1>4, <2>2, <4>1, PrecedesBefore
        <3> QED BY <3>1, <3>2
    <2> QED BY <2>3 DEF x
<1> QED BY <1>5, <1>6, <1>7

\* A key is decided before its least entry is popped only if it is the last one
\* that was.
LEMMA DecidedIsLast ==
    ASSUME MergeInv, NEW e, IsLeast(e)
    PROVE  /\ Decided(e.key) <=> lastEmitted = e.key
           /\ \A k : Decided(k) => k \in Int /\ k <= e.key /\ e.key \in Int
<1> USE DEF MergeInv
<1>0. e \in heap /\ e.key \in Key /\ e.key \in Int /\ e.seq \in Int
    BY EntryNotTaken, RecordParts DEF IsLeast
<1>1. ASSUME NEW k, Decided(k)
      PROVE  k \in Int /\ k <= e.key /\ lastEmitted # None /\ k <= lastEmitted
    <2>1. PICK i \in DOMAIN inputs : \E j \in DOMAIN inputs[i] :
             Taken(i, j) /\ inputs[i][j].key = k
        BY <1>1 DEF Decided
    <2>2. PICK j \in DOMAIN inputs[i] : Taken(i, j) /\ inputs[i][j].key = k
        BY <2>1
    <2> DEFINE r == inputs[e.idx][At(e.idx)]
    <2>3. /\ e.idx \in DOMAIN inputs /\ At(e.idx) \in DOMAIN inputs[e.idx]
          /\ ~Taken(e.idx, At(e.idx)) /\ e = Entry(r, e.idx)
        BY <1>0, EntryNotTaken
    <2>4. Precedes(Entry(inputs[i][j], i), e)
        BY <2>2, <2>3 DEF PoppedInOrder
    <2>5. inputs[i][j] \in Record
        BY Typed
    <2>6. k \in Int
        BY <2>2, <2>5, RecordParts
    <2>7. Entry(inputs[i][j], i).key = k
        BY <2>2 DEF Entry
    <2>8. k <= e.key
        BY <1>0, <2>4, <2>6, <2>7 DEF Precedes, Before
    <2> QED BY <2>2, <2>6, <2>8 DEF LastIsGreatest
<1>2. Decided(e.key) => lastEmitted = e.key
    <2> SUFFICES ASSUME Decided(e.key) PROVE lastEmitted = e.key
        OBVIOUS
    <2>1. lastEmitted # None /\ e.key <= lastEmitted
        BY <1>1
    <2>2. lastEmitted \in Int /\ lastEmitted <= e.key
        BY <1>1, <2>1 DEF LastIsGreatest
    <2> QED BY <1>0, <2>1, <2>2
<1>3. lastEmitted = e.key => Decided(e.key)
    BY <1>0, TableBuildAssumption DEF LastIsGreatest
<1> QED BY <1>0, <1>1, <1>2, <1>3

\* A key has one winner.
LEMMA OneWinner ==
    ASSUME CursorInv, NEW w \in Winners(Sets(inputs)), NEW x \in Winners(Sets(inputs)),
           w.key = x.key
    PROVE  w = x
<1> DEFINE runs == Sets(inputs)
<1>1. /\ DOMAIN runs = DOMAIN inputs /\ DOMAIN inputs \subseteq Nat
      /\ \A i \in DOMAIN inputs : runs[i] = {inputs[i][j] : j \in DOMAIN inputs[i]}
    BY Typed DEF Sets
<1>2. \A i \in DOMAIN inputs : InOrder(inputs[i]) /\ DOMAIN inputs[i] \subseteq Int
        /\ \A j \in DOMAIN inputs[i] : inputs[i][j] \in Record
    BY Typed
<1> HIDE DEF runs
<1>3. PICK i \in DOMAIN inputs : IsWinner(runs, i, w)
    BY <1>1 DEF Winners, runs
<1>4. PICK j \in DOMAIN inputs : IsWinner(runs, j, x)
    BY <1>1 DEF Winners, runs
<1>5. w \in runs[i] /\ x \in runs[j]
    BY <1>3, <1>4 DEF IsWinner
<1>6. PICK p \in DOMAIN inputs[i] : w = inputs[i][p]
    BY <1>1, <1>5
<1>7. PICK q \in DOMAIN inputs[j] : x = inputs[j][q]
    BY <1>1, <1>5
<1>8. w \in Record /\ x \in Record /\ i \in Int /\ j \in Int
    BY <1>1, <1>2, <1>6, <1>7
<1>9. w.seq \in Int /\ x.seq \in Int /\ w.key \in Int
    BY <1>8, RecordParts
<1>10. x.seq < w.seq \/ (x.seq = w.seq /\ i <= j)
    BY <1>1, <1>3, <1>5 DEF IsWinner
<1>11. w.seq < x.seq \/ (w.seq = x.seq /\ j <= i)
    BY <1>1, <1>4, <1>5 DEF IsWinner
<1>12. w.seq = x.seq /\ i = j
    BY <1>8, <1>9, <1>10, <1>11
<1>13. ~Before(w, x) /\ ~Before(x, w)
    BY <1>9, <1>12 DEF Before
<1>14. q \in DOMAIN inputs[i] /\ x = inputs[i][q] /\ InOrder(inputs[i])
       /\ p \in Int /\ q \in Int
    BY <1>2, <1>6, <1>7, <1>12
<1>15. ~ (p < q) /\ ~ (q < p)
    BY <1>6, <1>13, <1>14 DEF InOrder
<1>16. p = q
    BY <1>14, <1>15
<1> QED BY <1>6, <1>14, <1>16

\* The least entry of a key that is not decided is its winner.
LEMMA LeastWins ==
    ASSUME MergeInv, NEW e, IsLeast(e), lastEmitted # e.key
    PROVE  LET r == inputs[e.idx][At(e.idx)]
           IN  /\ r \in Winners(Sets(inputs))
               /\ \A w \in Winners(Sets(inputs)) : w.key = r.key => w = r
<1> USE DEF MergeInv
<1> DEFINE i0 == e.idx
           p == At(e.idx)
           r == inputs[i0][p]
           runs == Sets(inputs)
<1>1. /\ i0 \in DOMAIN inputs /\ p \in DOMAIN inputs[i0] /\ r \in Record
      /\ e.key = r.key /\ e.seq = r.seq /\ e.idx = i0
    BY EntryNotTaken DEF IsLeast
<1>2. /\ DOMAIN runs = DOMAIN inputs /\ DOMAIN inputs \subseteq Nat
      /\ \A i \in DOMAIN inputs : runs[i] = {inputs[i][j] : j \in DOMAIN inputs[i]}
    BY Typed DEF Sets
<1>3. \A i \in DOMAIN inputs : InOrder(inputs[i]) /\ DOMAIN inputs[i] \subseteq Int
        /\ \A j \in DOMAIN inputs[i] : inputs[i][j] \in Record
    BY Typed
<1>4. ~Decided(e.key)
    BY DecidedIsLast
<1>5. ASSUME NEW i \in DOMAIN inputs, NEW x \in runs[i], x.key = r.key
      PROVE  x.seq < r.seq \/ (x.seq = r.seq /\ i0 <= i)
    <2>1. PICK j \in DOMAIN inputs[i] : x = inputs[i][j]
        BY <1>2
    <2>2. x \in Record /\ x.seq \in Int /\ r.seq \in Int /\ i \in Int /\ i0 \in Int
        BY <1>1, <1>2, <1>3, <2>1, RecordParts
    <2>3. ~Taken(i, j)
        BY <1>1, <1>4, <1>5, <2>1 DEF Decided
    <2>4. CASE i = i0 /\ j = p
        BY <2>1, <2>2, <2>4
    <2>5. CASE ~ (i = i0 /\ j = p)
        <3>1. Precedes(e, Entry(x, i))
            BY <2>1, <2>3, <2>5, LeastPrecedes
        <3>2. Entry(x, i).key = x.key /\ Entry(x, i).seq = x.seq /\ Entry(x, i).idx = i
            BY DEF Entry
        <3>3. x.key \in Int
            BY <2>2, RecordParts
        <3> QED BY <1>1, <1>5, <2>2, <3>1, <3>2, <3>3 DEF Precedes, Before
    <2> QED BY <2>4, <2>5
<1>6. r \in runs[i0]
    BY <1>1, <1>2
<1> HIDE DEF runs
<1>7. IsWinner(runs, i0, r)
    BY <1>1, <1>2, <1>5, <1>6 DEF IsWinner
<1>8. r \in Winners(runs)
    BY <1>1, <1>2, <1>6, <1>7 DEF Winners
<1>9. \A w \in Winners(runs) : w.key = r.key => w = r
    BY <1>8, OneWinner DEF runs
<1> QED BY <1>8, <1>9 DEF runs

---------------------------------------------------------------------------
(* The steps *)

\* What a pop leaves of the invariant, whatever the loop does with the record.
LEMMA PopKeeps ==
    ASSUME MergeInv, NEW e, Popped(e)
    PROVE  /\ IsLeast(e)
           /\ CursorInv'
           /\ PoppedInOrder'
           /\ \A k : Decided(k)' <=> Decided(k) \/ k = e.key
           /\ lastEmitted' = e.key => LastIsGreatest'
           /\ job = "compact"
<1> USE DEF MergeInv
<1>1. IsLeast(e) /\ e \in heap /\ inputs' = inputs
    BY DEF Popped, IsLeast
<1> DEFINE i0 == e.idx
           p == At(e.idx)
<1>2. /\ i0 \in DOMAIN inputs /\ p \in DOMAIN inputs[i0]
      /\ e.key = inputs[i0][p].key /\ e = Entry(inputs[i0][p], i0)
      /\ e.key \in Key /\ e.key \in Int
    BY <1>1, EntryNotTaken, RecordParts
<1>3. /\ CursorInv'
      /\ \A i \in DOMAIN inputs : \A j \in DOMAIN inputs[i] :
            Taken(i, j)' <=> Taken(i, j) \/ (i = i0 /\ j = p)
    BY <1>1, PopTakes DEF Popped
<1>4. PoppedInOrder'
    <2> SUFFICES ASSUME NEW i \in DOMAIN inputs, NEW ii \in DOMAIN inputs,
                        NEW j \in DOMAIN inputs[i], NEW jj \in DOMAIN inputs[ii],
                        Taken(i, j)', ~Taken(ii, jj)'
                 PROVE  Precedes(Entry(inputs[i][j], i), Entry(inputs[ii][jj], ii))
        BY <1>1 DEF PoppedInOrder
    <2>1. ~Taken(ii, jj) /\ ~ (ii = i0 /\ jj = p)
        BY <1>3
    <2>2. CASE Taken(i, j)
        BY <2>1, <2>2 DEF PoppedInOrder
    <2>3. CASE i = i0 /\ j = p
        <3>1. Precedes(e, Entry(inputs[ii][jj], ii))
            BY <1>1, <2>1, LeastPrecedes
        <3> QED BY <1>2, <2>3, <3>1
    <2> QED BY <1>3, <2>2, <2>3
<1>5. \A k : Decided(k)' <=> Decided(k) \/ k = e.key
    <2> SUFFICES ASSUME NEW k PROVE Decided(k)' <=> Decided(k) \/ k = e.key
        OBVIOUS
    <2>1. Decided(k)' <=> \E i \in DOMAIN inputs : \E j \in DOMAIN inputs[i] :
                             Taken(i, j)' /\ inputs[i][j].key = k
        BY <1>1 DEF Decided
    <2> HIDE DEF i0, p
    <2> QED BY <1>2, <1>3, <2>1 DEF Decided
<1>6. ASSUME lastEmitted' = e.key PROVE LastIsGreatest'
    <2>1. ASSUME NEW i \in DOMAIN inputs, NEW j \in DOMAIN inputs[i], Taken(i, j)'
          PROVE  inputs[i][j].key <= e.key
        <3>1. Decided(inputs[i][j].key) \/ inputs[i][j].key = e.key
            BY <1>2, <1>3, <2>1 DEF Decided
        <3> QED BY <1>1, <1>2, <3>1, DecidedIsLast
    <2>2. e.key # None /\ Decided(e.key)'
        BY <1>2, <1>5, TableBuildAssumption
    <2>3. Decided(lastEmitted)'
        BY <1>1, <1>6, <2>2 DEF Decided
    <2> QED BY <1>1, <1>6, <2>1, <2>2, <2>3 DEF LastIsGreatest
<1>7. job = "compact"
    BY <1>2 DEF JobInv
<1> QED BY <1>1, <1>3, <1>4, <1>5, <1>6, <1>7
\* What the file holds once a record is added.
LEMMA AddedToRun ==
    ASSUME TypeOK, NEW r, AddEntry(r)
    PROVE  Run' = Run \cup {r}
<1>1. /\ data \in Seq(Record) /\ Len(data) \in Nat /\ data' = Append(data, r)
    BY DEF AddEntry, TypeOK
<1>2. /\ DOMAIN data = 1 .. Len(data) /\ DOMAIN data' = 1 .. Len(data) + 1
      /\ data'[Len(data) + 1] = r
      /\ \A i \in 1 .. Len(data) : data'[i] = data[i]
    BY <1>1
<1>3. \A i : i \in 1 .. Len(data) + 1 <=> i \in 1 .. Len(data) \/ i = Len(data) + 1
    BY <1>1
<1> QED BY <1>2, <1>3 DEF Run

LEMMA BufferedRecord ==
    ASSUME CursorInv, NEW e \in heap
    PROVE  LET r == inputs[e.idx][At(e.idx)]
           IN  /\ r = [key |-> e.key, seq |-> e.seq, val |-> buffered[e.idx]]
               /\ r \in Record
               /\ r.key = e.key
               /\ r.val = buffered[e.idx]
BY EntryNotTaken, RecordParts

\* A step that pops an entry keeps the output what is decided of the merge.
LEMMA PopStep ==
    ASSUME WriterInv, MergeInv, NEW e, SkipShadowed(e) \/ DropTombstone(e) \/ Emit(e)
    PROVE  MergeInv' /\ [WriterNext]_writerVars
<1> DEFINE r == inputs[e.idx][At(e.idx)]
           M == Merge(Sets(inputs), isLastLevel)
<1>1. /\ Popped(e) /\ e \in heap
      /\ UNCHANGED <<job, isLastLevel, inputs>> /\ ~finished
    BY DEF SkipShadowed, DropTombstone, Emit, Popped
<1>2. /\ IsLeast(e) /\ CursorInv' /\ PoppedInOrder'
      /\ \A k : Decided(k)' <=> Decided(k) \/ k = e.key
      /\ lastEmitted' = e.key => LastIsGreatest'
      /\ job = "compact"
    BY <1>1, PopKeeps
<1>3. lastEmitted' = e.key
    BY DEF SkipShadowed, DropTombstone, Emit
<1>4. e.key \in Key /\ JobInv'
    <2>1. e.key \in Key
        BY <1>1, EntryNotTaken DEF MergeInv
    <2> QED BY <1>1, <1>3, <2>1 DEF MergeInv, JobInv
<1>5. r = [key |-> e.key, seq |-> e.seq, val |-> buffered[e.idx]]
      /\ r \in Record /\ r.key = e.key /\ r.val = buffered[e.idx]
    BY <1>1, BufferedRecord DEF MergeInv
<1>6. ASSUME lastEmitted # e.key
      PROVE  /\ r \in Winners(Sets(inputs))
             /\ \A w \in Winners(Sets(inputs)) : w.key = e.key => w = r
             /\ ~Decided(e.key)
    BY <1>2, <1>5, <1>6, LeastWins, DecidedIsLast
<1>7. Run = {w \in M : Decided(w.key)}
    BY <1>2 DEF MergeInv, OutputSoFar
<1> HIDE DEF r
<1>8. Run' = {w \in M : Decided(w.key) \/ w.key = e.key}
      /\ finished' = finished /\ [WriterNext]_writerVars
    <2>1. CASE SkipShadowed(e)
        <3>1. Decided(e.key) /\ UNCHANGED writerVars
            BY <1>2, <2>1, DecidedIsLast DEF SkipShadowed
        <3>2. Run' = Run
            BY <3>1 DEF Run, writerVars
        <3> HIDE DEF M
        <3>3. Run' = {w \in M : Decided(w.key) \/ w.key = e.key}
            BY <1>7, <3>1, <3>2
        <3> QED BY <3>1, <3>3 DEF writerVars
    <2>2. CASE DropTombstone(e)
        <3>1. lastEmitted # e.key /\ isLastLevel /\ r.val = Delete /\ UNCHANGED writerVars
            BY <1>5, <2>2 DEF DropTombstone
        <3>2. Run' = Run
            BY <3>1 DEF Run, writerVars
        <3>3. \A w \in M : w.key # e.key
            BY <1>6, <3>1 DEF Merge
        <3> HIDE DEF M
        <3>4. Run' = {w \in M : Decided(w.key) \/ w.key = e.key}
            BY <1>7, <3>2, <3>3
        <3> QED BY <3>1, <3>4 DEF writerVars
    <2>3. CASE Emit(e)
        <3>1. /\ lastEmitted # e.key /\ ~ (isLastLevel /\ r.val = Delete)
              /\ AddEntry(r)
            BY <1>5, <2>3 DEF Emit
        <3>2. Run' = Run \cup {r}
            BY <3>1, AddedToRun DEF WriterInv
        <3>3. r \in M /\ \A w \in M : w.key = e.key => w = r
            BY <1>6, <3>1 DEF Merge
        <3>4. \A i \in DOMAIN data : data[i].key \in Int /\ data[i].key < e.key
            <4> SUFFICES ASSUME NEW i \in DOMAIN data
                         PROVE  data[i].key \in Int /\ data[i].key < e.key
                OBVIOUS
            <4>1. Decided(data[i].key)
                BY <1>7 DEF Run
            <4>2. data[i].key # e.key
                BY <1>6, <3>1, <4>1
            <4> QED BY <1>2, <4>1, <4>2, DecidedIsLast
        <3>5. data # <<>> => Before(data[Len(data)], r)
            <4>1. data # <<>> => Len(data) \in DOMAIN data
                BY DEF WriterInv, TypeOK
            <4> QED BY <1>5, <3>4, <4>1 DEF Before
        <3>6. Cardinality({i \in DOMAIN data : data[i].key = r.key}) < MaxVersions
            <4>1. {i \in DOMAIN data : data[i].key = r.key} = {}
                BY <1>5, <3>4, <1>4, SSTableAssumption
            <4> QED BY <4>1, FS_EmptySet, SSTableAssumption
        <3>7. WriterNext
            BY <1>5, <3>1, <3>5, <3>6 DEF WriterNext, Add
        <3>8. finished' = finished
            BY <3>1 DEF AddEntry
        <3> HIDE DEF M
        <3>9. Run' = {w \in M : Decided(w.key) \/ w.key = e.key}
            BY <1>5, <1>7, <3>2, <3>3
        <3> QED BY <3>7, <3>8, <3>9
    <2> QED BY <2>1, <2>2, <2>3
<1>9. OutputSoFar'
    <2>1. M' = M
        BY <1>1
    <2> HIDE DEF M
    <2>2. Run' = {w \in M : Decided(w.key)'}
        BY <1>2, <1>8
    <2> QED BY <1>1, <1>8, <2>1, <2>2 DEF OutputSoFar, M
<1> QED BY <1>2, <1>3, <1>4, <1>8, <1>9 DEF MergeInv

\* The steps that leave the loop of compact as it is.
LEMMA MergeUnchanged ==
    ASSUME MergeInv, UNCHANGED <<job, isLastLevel, inputs, mergeVars>>,
           job = "compact" => Run' = Run /\ (finished' => heap = {})
    PROVE  MergeInv'
<1>1. /\ UNCHANGED <<job, isLastLevel, inputs, rest, heap, buffered, lastEmitted>>
    BY DEF mergeVars
<1>2. \A i : At(i)' = At(i) /\ Live(i)' = Live(i)
    BY <1>1 DEF At, Live
<1>3. \A i, j : Taken(i, j)' = Taken(i, j)
    BY <1>2 DEF Taken
<1>4. \A k : Decided(k)' = Decided(k)
    BY <1>1, <1>3 DEF Decided
<1>5. CursorInv'
    BY <1>1, <1>2 DEF MergeInv, CursorInv
<1>6. JobInv' /\ PoppedInOrder' /\ LastIsGreatest'
    <2>1. JobInv'
        BY <1>1 DEF MergeInv, JobInv
    <2>2. PoppedInOrder'
        BY <1>1, <1>3 DEF MergeInv, PoppedInOrder
    <2>3. Decided(lastEmitted)' = Decided(lastEmitted)
        BY <1>1, <1>3 DEF Decided
    <2>4. LastIsGreatest'
        BY <1>1, <1>3, <2>3 DEF MergeInv, LastIsGreatest
    <2> QED BY <2>1, <2>2, <2>4
<1>7. OutputSoFar'
    BY <1>1, <1>4 DEF MergeInv, OutputSoFar
<1> QED BY <1>5, <1>6, <1>7 DEF MergeInv

\* Every step is one the writer allows, and keeps the invariant.
LEMMA NextBuild ==
    ASSUME BuildInv, [Next]_vars
    PROVE  BuildInv' /\ [WriterNext]_writerVars
<1> USE DEF BuildInv
<1>1. MergeInv' /\ [WriterNext]_writerVars
    <2>1. ASSUME NEW e \in heap, SkipShadowed(e) \/ DropTombstone(e) \/ Emit(e)
          PROVE  MergeInv' /\ [WriterNext]_writerVars
        BY <2>1, PopStep
    <2>2. CASE CompactFinish
        <3>1. UNCHANGED data /\ heap = {} /\ WriterNext
            BY <2>2 DEF CompactFinish, Finish, WriterNext
        <3>2. Run' = Run
            BY <3>1 DEF Run
        <3> QED BY <2>2, <3>1, <3>2, MergeUnchanged DEF CompactFinish
    <2>3. ASSUME NEW r \in Record, FlushEntry(r)
          PROVE  MergeInv' /\ [WriterNext]_writerVars
        BY <2>3, MergeUnchanged DEF FlushEntry, WriterNext
    <2>4. CASE FlushFinish
        BY <2>4, MergeUnchanged DEF FlushFinish, WriterNext
    <2>5. CASE UNCHANGED vars
        <3>1. UNCHANGED writerVars /\ UNCHANGED <<job, isLastLevel, inputs, mergeVars>>
            BY <2>5 DEF vars
        <3>2. Run' = Run /\ finished' = finished
            BY <3>1 DEF Run, writerVars
        <3> QED BY <3>1, <3>2, MergeUnchanged DEF MergeInv, OutputSoFar
    <2> QED BY <2>1, <2>2, <2>3, <2>4, <2>5 DEF Next
<1> QED BY <1>1, NextWriter
\* After OpenInputs nothing was popped.
LEMMA OpenedInputs ==
    ASSUME NEW list \in Inputs \cup {<<>>}, OpenInputs(list)
    PROVE  CursorInv /\ \A i \in DOMAIN inputs : \A j \in DOMAIN inputs[i] : ~Taken(i, j)
<1>1. /\ inputs = list
      /\ rest = [i \in DOMAIN list |-> IF list[i] = <<>> THEN <<>> ELSE Tail(list[i])]
      /\ heap = {Entry(list[i][1], i) : i \in {i \in DOMAIN list : list[i] # <<>>}}
      /\ buffered = [i \in DOMAIN list |-> IF list[i] = <<>> THEN None ELSE list[i][1].val]
    BY DEF OpenInputs
<1>2. list \in Seq(Seq(Record))
    <2>1. CASE list = <<>>
        BY <2>1
    <2>2. CASE list \in Inputs
        BY <2>2, TableBuildAssumption
    <2> QED BY <2>1, <2>2
<1>3. \A i \in DOMAIN list : list[i] \in Seq(Record)
    <2>1. DOMAIN list = 1 .. Len(list) /\ Len(list) \in Nat
        BY <1>2
    <2> QED BY <1>2, <2>1
<1>4. \A r, i : Entry(r, i).idx = i
    BY DEF Entry
<1>5. ASSUME NEW i \in DOMAIN list
      PROVE  /\ rest[i] \in Seq(Record)
             /\ Len(rest[i]) <= Len(list[i])
             /\ \A j \in DOMAIN rest[i] : rest[i][j] = list[i][At(i) + j]
             /\ ~Live(i) => rest[i] = <<>>
             /\ buffered[i] \in Value \cup {None}
             /\ \A j \in DOMAIN list[i] : ~Taken(i, j)
             /\ list[i] # <<>> => At(i) = 1 /\ 1 \in DOMAIN list[i]
    <2> DEFINE a == list[i]
    <2>1. a \in Seq(Record)
        BY <1>3
    <2>2. CASE a = <<>>
        <3>1. rest[i] = <<>> /\ buffered[i] = None
            BY <1>1, <2>2
        <3>2. <<>> \in Seq(Record) /\ Len(<<>>) = 0 /\ DOMAIN <<>> = {}
            OBVIOUS
        <3> QED BY <2>2, <3>1, <3>2
    <2>3. CASE a # <<>>
        <3>1. rest[i] = Tail(a) /\ buffered[i] = a[1].val
            BY <1>1, <2>3
        <3>2. Live(i)
            <4>1. Entry(list[i][1], i) \in heap
                BY <1>1, <2>3
            <4> QED BY <1>4, <4>1 DEF Live
        <3>3. At(i) = Len(a) - Len(Tail(a))
            BY <1>1, <3>1 DEF At
        <3> HIDE DEF a
        <3>4. /\ Tail(a) \in Seq(Record) /\ Len(Tail(a)) = Len(a) - 1 /\ Len(a) \in Nat
              /\ DOMAIN Tail(a) = 1 .. Len(a) - 1 /\ DOMAIN a = 1 .. Len(a) /\ 1 \in DOMAIN a
              /\ \A j \in 1 .. Len(a) - 1 : Tail(a)[j] = a[1 + j]
            BY <2>1, <2>3
        <3>5. At(i) = 1 /\ Len(Tail(a)) <= Len(a)
            BY <3>3, <3>4
        <3>6. a[1] \in Record
            BY <2>1, <3>4
        <3>7. a[1].val \in Value \cup {None}
            BY <3>6, RecordParts
        <3>8. \A j \in DOMAIN a : ~ (j < 1)
            BY <3>4
        <3>9. \A j \in DOMAIN a : ~Taken(i, j)
            BY <3>2, <3>5, <3>8 DEF Taken
        <3>10. /\ rest[i] \in Seq(Record)
               /\ Len(rest[i]) <= Len(a)
               /\ \A j \in DOMAIN rest[i] : rest[i][j] = a[At(i) + j]
            BY <3>1, <3>4, <3>5
        <3> QED BY <3>1, <3>2, <3>4, <3>5, <3>7, <3>9, <3>10 DEF a
    <2> QED BY <2>2, <2>3
<1>6. ASSUME NEW e \in heap
      PROVE  /\ e.idx \in DOMAIN list
             /\ At(e.idx) \in DOMAIN list[e.idx]
             /\ e = Entry(list[e.idx][At(e.idx)], e.idx)
             /\ buffered[e.idx] = list[e.idx][At(e.idx)].val
    <2>1. PICK i \in DOMAIN list : list[i] # <<>> /\ e = Entry(list[i][1], i)
        BY <1>1
    <2>2. e.idx = i
        BY <1>4, <2>1
    <2>3. At(i) = 1 /\ 1 \in DOMAIN list[i]
        BY <1>5, <2>1
    <2>4. buffered[i] = list[i][1].val
        BY <1>1, <2>1
    <2> QED BY <2>1, <2>2, <2>3, <2>4
<1>7. buffered \in [DOMAIN inputs -> Value \cup {None}] /\ DOMAIN rest = DOMAIN inputs
    BY <1>1, <1>5
<1> QED BY <1>1, <1>5, <1>6, <1>7 DEF CursorInv

LEMMA InitBuild ==
    ASSUME Init
    PROVE  BuildInv /\ WriterInit
<1>1. /\ job \in {"flush", "compact"} /\ isLastLevel \in BOOLEAN /\ lastEmitted = None
      /\ \E expected \in Expected : Create(expected)
      /\ \E list \in Inputs \cup {<<>>} : OpenInputs(list)
      /\ job = "flush" => inputs = <<>>
    BY TableBuildAssumption DEF Init, InitFlush, InitCompact, OpenInputs
<1>2. WriterInit /\ WriterInv /\ data = <<>> /\ finished = FALSE
    <2>1. WriterInit
        BY <1>1 DEF WriterInit
    <2> QED BY <1>1, <2>1, InitWriter DEF Create
<1>3. CursorInv /\ \A i \in DOMAIN inputs : \A j \in DOMAIN inputs[i] : ~Taken(i, j)
    BY <1>1, OpenedInputs
<1>4. \A k : ~Decided(k)
    BY <1>3 DEF Decided
<1>5. Run = {}
    BY <1>2 DEF Run
<1> QED BY <1>1, <1>2, <1>3, <1>4, <1>5
        DEF BuildInv, MergeInv, JobInv, PoppedInOrder, LastIsGreatest, OutputSoFar

LEMMA BuildInvariance == Spec => []BuildInv
<1>1. Init => BuildInv
    BY InitBuild
<1>2. BuildInv /\ [Next]_vars => BuildInv'
    BY NextBuild
<1> QED BY <1>1, <1>2, PTL DEF Spec

---------------------------------------------------------------------------
(* Theorems *)

\* The loops of flush and compact are writers that keep to the contract of
\* SSTableWriter::add: every entry follows the last in InternalKey order
\* (sstable.rs: "caller MUST supply entries in InternalKey order").
THEOREM ContractKept == Spec => WriterContract
<1>1. Init => WriterInit
    BY InitBuild
<1>2. BuildInv /\ [Next]_vars => [WriterNext]_writerVars
    BY NextBuild
<1> QED BY <1>1, <1>2, BuildInvariance, PTL DEF Spec, WriterSpec, WriterContract

\* The variables of the two loops stay in their types.
THEOREM BuildTypeCorrect == Spec => []BuildTypeOK
<1>1. BuildInv => BuildTypeOK
    <2> SUFFICES ASSUME BuildInv PROVE BuildTypeOK
        OBVIOUS
    <2>1. CursorInv
        BY DEF BuildInv, MergeInv
    <2>2. heap \subseteq [key : Key, seq : SeqNum, idx : DOMAIN inputs]
        <3> SUFFICES ASSUME NEW e \in heap
                     PROVE  e \in [key : Key, seq : SeqNum, idx : DOMAIN inputs]
            OBVIOUS
        <3>1. /\ e.idx \in DOMAIN inputs /\ e.key \in Key /\ e.seq \in SeqNum
              /\ e = Entry(inputs[e.idx][At(e.idx)], e.idx)
            BY <2>1, EntryNotTaken
        <3> QED BY <3>1 DEF Entry
    <2> QED BY <2>1, <2>2
            DEF BuildTypeOK, BuildInv, WriterInv, MergeInv, JobInv, CursorInv
<1> QED BY <1>1, BuildInvariance, PTL

\* Whatever the inputs, every heap entry is the record its iterator yielded last
\* and has that record's value in `buffered`, and an input without an entry has
\* nothing left: the expect in the loop of compact never fails (compaction.rs:
\* "heap entry without buffered value").
THEOREM HeapAlwaysBuffered == Spec => []HeapIsBuffered
<1>1. BuildInv => HeapIsBuffered
    <2> SUFFICES ASSUME BuildInv PROVE HeapIsBuffered
        OBVIOUS
    <2>1. CursorInv
        BY DEF BuildInv, MergeInv
    <2>2. ASSUME NEW e \in heap
          PROVE  LET last == inputs[e.idx][Len(inputs[e.idx]) - Len(rest[e.idx])]
                 IN  e = Entry(last, e.idx) /\ buffered[e.idx] = last.val
        BY <2>1 DEF CursorInv, At
    <2>3. ASSUME NEW i \in DOMAIN inputs, \A e \in heap : e.idx # i
          PROVE  rest[i] = <<>>
        BY <2>1, <2>3 DEF CursorInv, Live
    <2> QED BY <2>2, <2>3 DEF HeapIsBuffered
<1> QED BY <1>1, BuildInvariance, PTL

\* When compact is done, its heap and its refills have left in the file exactly
\* the newest version of each key, of the first input when two hold the same, and
\* no tombstone on the last level (compaction.rs: compact).
THEOREM OutputMerged == Spec => []OutputIsMerge
<1>1. BuildInv => OutputIsMerge
    <2> SUFFICES ASSUME BuildInv, finished, job = "compact"
                 PROVE  Run = Merge(Sets(inputs), isLastLevel)
        BY DEF OutputIsMerge
    <2> DEFINE M == Merge(Sets(inputs), isLastLevel)
    <2>1. /\ Run = {w \in M : Decided(w.key)} /\ heap = {}
        BY DEF BuildInv, MergeInv, OutputSoFar
    <2>2. ASSUME NEW w \in M PROVE Decided(w.key)
        <3>1. PICK i \in DOMAIN inputs : w \in Sets(inputs)[i]
            BY <2>2 DEF Merge, Winners, Sets
        <3>2. PICK j \in DOMAIN inputs[i] : w = inputs[i][j]
            BY <3>1 DEF Sets
        <3>3. Taken(i, j)
            BY <2>1 DEF Taken, Live
        <3> QED BY <3>2, <3>3 DEF Decided
    <2> HIDE DEF M
    <2>3. Run = M
        BY <2>1, <2>2
    <2> QED BY <2>3 DEF M
<1> QED BY <1>1, BuildInvariance, PTL

\* A current read of the output of compact answers as the search through its
\* inputs did, and above the last level a deleted key stays a tombstone
\* (compaction.rs: lookup_in_tiers, compact).
THEOREM ReadsKept == Spec => []MergeKeepsReads
<1>1. BuildInv /\ OutputIsMerge => MergeKeepsReads
    <2> SUFFICES ASSUME BuildInv, Run = Merge(Sets(inputs), isLastLevel),
                        Layered(Sets(inputs)), NEW k \in Key
                 PROVE  LET before == FirstHit(Sets(inputs), k, SeqMax)
                            after == ReadAt(Run, k, SeqMax)
                        IN  IF isLastLevel THEN AsPut(after) = AsPut(before)
                            ELSE after = before
        BY DEF OutputIsMerge, MergeKeepsReads
    <2> DEFINE runs == Sets(inputs)
    <2>1. CursorInv /\ isLastLevel \in BOOLEAN
        BY DEF BuildInv, MergeInv, JobInv
    <2>2. /\ DOMAIN runs = DOMAIN inputs /\ DOMAIN runs \subseteq Nat
          /\ \A i \in DOMAIN inputs : runs[i] = {inputs[i][j] : j \in DOMAIN inputs[i]}
        BY <2>1, Typed DEF Sets
    <2>3. \A i \in DOMAIN inputs : /\ runs[i] \subseteq Record
                                   /\ InOrder(inputs[i]) /\ DOMAIN inputs[i] \subseteq Int
        BY <2>1, <2>2, Typed
    <2>4. All(runs) \subseteq Record
        BY <2>2, <2>3 DEF All
    <2>5. \A r \in Record : r.key \in Int /\ r.seq \in Int
        BY RecordParts
    <2>6. NewerFirst(runs)
        BY <2>2, <2>3, <2>5 DEF NewerFirst, Shadows, Layered
    <2>7. OnePerVersion(All(runs))
        <3> SUFFICES ASSUME NEW r \in All(runs), NEW x \in All(runs), SameVersion(r, x)
                     PROVE  r = x
            BY DEF OnePerVersion
        <3>1. PICK i \in DOMAIN inputs : r \in runs[i]
            BY <2>2 DEF All
        <3>2. PICK j \in DOMAIN inputs : x \in runs[j]
            BY <2>2 DEF All
        <3>3. r \in Record /\ x \in Record /\ i \in Int /\ j \in Int
            BY <2>2, <2>3, <3>1, <3>2
        <3>4. CASE i # j
            <4>1. i < j \/ j < i
                BY <3>3, <3>4
            <4>2. r.key = x.key /\ r.seq = x.seq
                BY DEF SameVersion
            <4>3. x.seq < r.seq \/ r.seq < x.seq
                BY <2>2, <3>1, <3>2, <4>1, <4>2 DEF Layered
            <4> QED BY <2>5, <3>3, <4>2, <4>3
        <3>5. CASE i = j
            <4>1. PICK p \in DOMAIN inputs[i] : r = inputs[i][p]
                BY <2>2, <3>1
            <4>2. PICK q \in DOMAIN inputs[i] : x = inputs[i][q]
                BY <2>2, <3>2, <3>5
            <4>3. ~Before(r, x) /\ ~Before(x, r)
                BY <2>5, <3>3 DEF Before, SameVersion
            <4>4. ~ (p < q) /\ ~ (q < p) /\ p \in Int /\ q \in Int
                BY <2>3, <4>1, <4>2, <4>3 DEF InOrder
            <4>5. p = q
                BY <4>4
            <4> QED BY <4>1, <4>2, <4>5
        <3> QED BY <3>4, <3>5
    <2>8. SeqMax \in Int
        BY MVCCAssumption
    <2> HIDE DEF runs
    <2>9. FirstHit(runs, k, SeqMax) = ReadAt(All(runs), k, SeqMax)
        BY <2>2, <2>4, <2>6, <2>7, <2>8, FirstHitReadsAll
    <2>10. LET before == ReadAt(All(runs), k, SeqMax)
               after == ReadAt(Merge(runs, isLastLevel), k, SeqMax)
           IN  IF isLastLevel THEN AsPut(after) = AsPut(before) ELSE after = before
        BY <2>1, <2>2, <2>4, <2>7, MergeReadsAll
    <2> QED BY <2>9, <2>10 DEF runs
<1> QED BY <1>1, BuildInvariance, OutputMerged, PTL

\* A lookup in a file that flush or compact wrote is a lookup in the set of its
\* records, when no key has more than SPARSE_INTERVAL + 1 versions in the memtable
\* (sstable.rs: get, block_start_offset).
THEOREM BuiltLookupExact ==
    ASSUME MaxVersions <= SPARSE_INTERVAL + 1
    PROVE  Spec => []LookupIsExact
BY LookupExact, ContractKept, PTL DEF WriterContract

\* What compact writes has one version of a key, so a lookup in it is exact
\* without that condition (compaction.rs: compact).
THEOREM CompactedLookupExact == Spec => [](job = "compact" => LookupIsExact)
<1>1. BuildInv => (job = "compact" => LookupIsExact)
    <2> SUFFICES ASSUME BuildInv, job = "compact" PROVE LookupIsExact
        OBVIOUS
    <2>1. /\ WriterInv /\ CursorInv
          /\ Run = {w \in Merge(Sets(inputs), isLastLevel) : Decided(w.key)}
        BY DEF BuildInv, MergeInv, OutputSoFar
    <2>2. ASSUME NEW i \in DOMAIN data, NEW j \in DOMAIN data, data[i].key = data[j].key
          PROVE  i = j
        <3>1. data[i] \in Run /\ data[j] \in Run
            BY DEF Run
        <3>2. data[i] = data[j]
            BY <2>1, <2>2, <3>1, OneWinner DEF Merge
        <3>3. ~Before(data[i], data[j]) /\ ~Before(data[j], data[i])
            BY <2>1, <3>2, Ordered DEF Before
        <3>4. ~ (i < j) /\ ~ (j < i) /\ i \in Int /\ j \in Int
            BY <2>1, <3>3, Ordered DEF WriterInv, InOrder
        <3> QED BY <3>4
    <2>3. FewVersions
        <3> SUFFICES ASSUME NEW k \in Key
                     PROVE  Cardinality(Positions(k)) <= SPARSE_INTERVAL + 1
            BY DEF FewVersions
        <3>1. CASE Positions(k) = {}
            BY <3>1, FS_EmptySet, SSTableAssumption
        <3>2. CASE Positions(k) # {}
            <4>1. PICK p : p \in Positions(k)
                BY <3>2
            <4>2. Positions(k) = {p}
                BY <2>2, <4>1 DEF Positions
            <4>3. Cardinality(Positions(k)) = 1
                BY <4>2, FS_Singleton
            <4> QED BY <4>3, SSTableAssumption
        <3> QED BY <3>1, <3>2
    <2> QED BY <2>1, <2>3, LookupReads
<1> QED BY <1>1, BuildInvariance, PTL
=================================================================================
