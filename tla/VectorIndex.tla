------------------------------- MODULE VectorIndex -------------------------------
(***************************************************************************)
(* VectorIndex: ids beside one flat array of rows, the distance kernels,   *)
(* and the bounded heap of search.  An index is a record [ids, data]; a    *)
(* vector is a sequence of components, integers or NaN.                    *)
(***************************************************************************)
EXTENDS Ranking

CONSTANTS
    Id,        \* document ids
    Vector,    \* vectors callers pass, of any length
    Dim,       \* the dimension of the index
    Lanes,     \* accumulators of a kernel, 8 in the code
    Scale,     \* units of cosine in 1
    NaN

ASSUME VectorIndexAssumption ==
    /\ Dim \in Nat \ {0}
    /\ Lanes \in Nat \ {0}
    /\ Scale \in Nat \ {0}
    /\ Vector \subseteq Seq(Int \cup {NaN})

Metric == {"Dot", "L2", "Cosine"}

NewVectorIndex == [ids |-> <<>>, data |-> <<>>]

Row(index, i) == SubSeq(index.data, (i - 1) * Dim + 1, i * Dim)

\* iter().position(): the first place that holds id, 0 for none.
Position(index, id) ==
    LET at == {i \in DOMAIN index.ids : index.ids[i] = id}
    IN  IF at = {} THEN 0 ELSE CHOOSE i \in at : \A j \in at : i <= j

\* VectorIndex::insert of a vector of the right dimension.
Insert(index, id, v) ==
    LET pos == Position(index, id)
        slice == (pos - 1) * Dim + 1 .. pos * Dim
    IN  IF pos # 0
        THEN [index EXCEPT !.data = [j \in DOMAIN @ |->
                IF j \in slice THEN v[j - (pos - 1) * Dim] ELSE @[j]]]
        ELSE [ids |-> Append(index.ids, id), data |-> index.data \o v]

\* Mutant of Remove: the ids are swapped, the rows are not.
RemoveTruncates(index, id) ==
    LET pos == Position(index, id)
        last == Len(index.ids)
    IN  IF pos = 0 THEN index
        ELSE [ids |-> SubSeq([index.ids EXCEPT ![pos] = index.ids[last]], 1, last - 1),
              data |-> SubSeq(index.data, 1, (last - 1) * Dim)]

\* Mutant of Remove: the last row is left at the end of data.
RemoveKeepsRow(index, id) ==
    LET pos == Position(index, id)
        last == Len(index.ids)
    IN  IF pos = 0 THEN index
        ELSE [index EXCEPT !.ids = SubSeq([@ EXCEPT ![pos] = index.ids[last]], 1, last - 1)]

\* VectorIndex::remove: the last id and row take the place of those removed.
Remove(index, id) ==
    LET pos == Position(index, id)
        last == Len(index.ids)
        slice == (pos - 1) * Dim + 1 .. pos * Dim
        swapped == [j \in DOMAIN index.data |->
            IF j \in slice THEN index.data[j + (last - pos) * Dim] ELSE index.data[j]]
    IN  IF pos = 0 THEN index
        ELSE [ids |-> SubSeq([index.ids EXCEPT ![pos] = index.ids[last]], 1, last - 1),
              data |-> SubSeq(swapped, 1, (last - 1) * Dim)]

---------------------------------------------------------------------------
(* std::collections::BinaryHeap<Reverse<Scored>>, as an array *)

\* Reverse(a) <= Reverse(b), by Scored's cmp: with a NaN on either side Less.
AtMost(a, b) == NaN \in {a.score, b.score} \/ b.score <= a.score

\* sift_up of the element at n: it moves up to the first ancestor whose parent
\* it is not above, and the parents it passes move down.
SiftUp(heap, n) ==
    LET above[i \in 1 .. n] == IF i = 1 THEN {1} ELSE {i} \cup above[i \div 2]
        stops == {i \in above[n] : i = 1 \/ AtMost(heap[n], heap[i \div 2])}
        stop == CHOOSE i \in stops : \A j \in stops : j <= i
    IN  [i \in DOMAIN heap |->
            IF i = stop THEN heap[n]
            ELSE IF i \in above[n] /\ i > stop THEN heap[i \div 2]
            ELSE heap[i]]

\* BinaryHeap::push.
Push(heap, x) == SiftUp(Append(heap, x), Len(heap) + 1)

\* BinaryHeap::pop: the last element goes to the root, from there down along
\* the greater children to the bottom, and up again.
Pop(heap) ==
    LET size == Len(heap) - 1
        child(i) == IF 2 * i + 1 <= size /\ AtMost(heap[2 * i], heap[2 * i + 1])
                    THEN 2 * i + 1 ELSE 2 * i
        below[i \in 1 .. size] == IF 2 * i > size THEN {i} ELSE {i} \cup below[child(i)]
        bottom == CHOOSE i \in below[1] : \A j \in below[1] : j <= i
        sunk == [i \in 1 .. size |->
                    IF i = bottom THEN heap[size + 1]
                    ELSE IF i \in below[1] THEN heap[child(i)]
                    ELSE heap[i]]
    IN  IF size = 0 THEN <<>> ELSE SiftUp(sunk, bottom)

---------------------------------------------------------------------------
(* search *)

\* Mutant of Kernel: the components after the last chunk are left out.
KernelWithoutTail(term, n) ==
    LET chunks == n \div Lanes
        acc == [l \in 1 .. Lanes |->
                    Sum([c \in 0 .. chunks - 1 |-> term[c * Lanes + l]])]
    IN  Sum(acc)

\* The sum dot and l2_sq make of n terms: chunks of Lanes terms go to one
\* accumulator each, and the rest is added one by one.
Kernel(term, n) ==
    LET chunks == n \div Lanes
        acc == [l \in 1 .. Lanes |->
                    Sum([c \in 0 .. chunks - 1 |-> term[c * Lanes + l]])]
    IN  Sum(acc) + Sum([i \in chunks * Lanes + 1 .. n |-> term[i]])

Dot(a, b) == Kernel([i \in DOMAIN a |-> a[i] * b[i]], Len(a))
L2Sq(a, b) == Kernel([i \in DOMAIN a |-> (a[i] - b[i]) * (a[i] - b[i])], Len(a))

Abs(n) == IF n < 0 THEN -n ELSE n

\* dot / (norm * norm), squared with its sign kept, which orders as it does and
\* needs no root; 0 where a norm is 0.
Cosine(a, b) ==
    LET denom == Dot(a, a) * Dot(b, b)
    IN  IF denom = 0 THEN 0 ELSE (Scale * Dot(a, b) * Abs(Dot(a, b))) \div denom

\* The score of a row: NaN when a component is, in every metric.
Score(metric, query, row) ==
    CASE \E i \in 1 .. Dim : NaN \in {query[i], row[i]} -> NaN
      [] metric = "Dot" -> Dot(query, row)
      [] metric = "L2" -> -L2Sq(query, row)
      [] metric = "Cosine" -> Cosine(query, row)

Scored(index, i, query, metric) ==
    [id |-> index.ids[i], score |-> Score(metric, query, Row(index, i))]

\* candidate.score > worst.score, false when one is NaN.
Beats(a, b) == NaN \notin {a.score, b.score} /\ a.score > b.score

\* Mutant of Offer: a better candidate is added, nothing is evicted.
OfferKeepsWorst(heap, x, k) ==
    IF Len(heap) < k \/ Beats(x, heap[1]) THEN Push(heap, x) ELSE heap

\* One candidate of the scan, with at most k kept.
Offer(heap, x, k) ==
    IF Len(heap) < k THEN Push(heap, x)
    ELSE IF Beats(x, heap[1]) THEN Push(Pop(heap), x)
    ELSE heap

\* The heap after the scan, as its array.
Kept(index, query, k, metric) ==
    LET heap[i \in 0 .. Len(index.ids)] ==
            IF i = 0 THEN <<>> ELSE Offer(heap[i - 1], Scored(index, i, query, metric), k)
    IN  IF k = 0 THEN <<>> ELSE heap[Len(index.ids)]

\* sort_by of scores none of which is NaN: descending, and stable.
SortByScore(s) ==
    LET first(i, j) == s[i].score > s[j].score \/ (s[i].score = s[j].score /\ i <= j)
        place(j) == Cardinality({i \in DOMAIN s : first(i, j)})
    IN  [n \in DOMAIN s |-> s[CHOOSE j \in DOMAIN s : place(j) = n]]

\* VectorIndex::search for a query of the right dimension.
VectorSearch(index, query, k, metric) == SortByScore(Kept(index, query, k, metric))
=================================================================================
