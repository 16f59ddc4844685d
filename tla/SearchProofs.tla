------------------------------ MODULE SearchProofs ------------------------------
(***************************************************************************)
(* What the searches return: the scores of the inverted index are those of *)
(* the documents in the store, a vector search returns the best rows, and  *)
(* a query fuses the two without losing a document or the order.           *)
(***************************************************************************)
EXTENDS EngineProofs

---------------------------------------------------------------------------
(* Text scores *)

\* Two texts with the same frequencies are as long as each other.
LEMMA SameFrequenciesSameLength ==
    ASSUME NEW x \in Seq(Term), NEW y \in Seq(Term),
           \A t \in Term : Frequency(x, t) = Frequency(y, t)
    PROVE  Len(x) = Len(y)
<1> DEFINE T == {x[i] : i \in DOMAIN x}
           U == {y[i] : i \in DOMAIN y}
<1>1. IsFiniteSet(T) /\ T \subseteq Term /\ U \subseteq Term
      /\ (\A t : Frequency(x, t) = 0 <=> t \notin T)
      /\ (\A t : Frequency(y, t) = 0 <=> t \notin U)
    BY WordsOf
<1>2. U \subseteq T
    BY <1>1
<1>3. Sum([t \in T |-> Frequency(x, t)]) = Len(x)
    BY <1>1, SumOfFrequencies
<1>4. Sum([t \in T |-> Frequency(y, t)]) = Len(y)
    BY <1>1, <1>2, SumOfFrequencies
<1>5. [t \in T |-> Frequency(x, t)] = [t \in T |-> Frequency(y, t)]
    BY <1>1
<1> QED BY <1>3, <1>4, <1>5

\* BM25 of a term that a document has is a positive number.
LEMMA Bm25Positive ==
    ASSUME IdfIsFine, NEW docs \in SUBSET Id, IsFiniteSet(docs),
           NEW df \in 1 .. Cardinality(docs), NEW total \in Nat,
           NEW tf \in Nat \ {0}, NEW dl \in Nat, dl <= total
    PROVE  /\ Bm25(Cardinality(docs), total, df, tf, dl) \in Nat
           /\ Bm25(Cardinality(docs), total, df, tf, dl) > 0
<1> DEFINE n == Cardinality(docs)
           w == Idf[<<n, df>>]
           l == IF total >= n THEN total ELSE n
           m == tf * l
           a == w * 22 * tf * l
           b == 10 * tf * l + 3 * l + 9 * dl * n
<1>1. n \in Nat /\ n >= 1
    BY FS_CardinalityType
<1>2. w \in Nat /\ 22 * w >= 13 + 9 * n
    BY TextIndexAssumption DEF IdfIsFine
<1>3. l \in Nat /\ l >= 1 /\ dl <= l
    BY <1>1
<1>4. Bm25(n, total, df, tf, dl) = a \div b
    BY DEF Bm25
<1> HIDE DEF n, w, l
<1>5. m \in Nat /\ l <= m /\ dl <= m
    <2>1. 1 * l <= tf * l /\ tf * l \in Nat
        BY <1>3, ProductMonotone
    <2> QED BY <1>3, <2>1
<1>6. a = (22 * w) * m
    BY <1>2, <1>3
<1>7. b = 10 * m + 3 * l + 9 * (dl * n)
    BY <1>1, <1>3
<1> HIDE DEF m, a, b
<1> DEFINE p == dl * n
           q == m * n
<1>8. p <= q /\ p \in Nat /\ q \in Nat
    BY <1>1, <1>5, ProductMonotone
<1>9. (13 + 9 * n) * m = 13 * m + 9 * q
    BY <1>1, <1>5
<1>10. (13 + 9 * n) * m <= (22 * w) * m /\ (22 * w) * m \in Nat
    <2> DEFINE u == 13 + 9 * n
               v == 22 * w
    <2>1. u \in Nat /\ v \in Nat /\ u <= v
        BY <1>1, <1>2
    <2> HIDE DEF u, v
    <2>2. u * m <= v * m /\ v * m \in Nat
        BY <1>5, <2>1, ProductMonotone
    <2> QED BY <2>2 DEF u, v
<1> HIDE DEF p, q
<1>11. a \in Nat /\ b \in Nat /\ b > 0 /\ b <= a
    <2>1. b = 10 * m + 3 * l + 9 * p
        BY <1>7 DEF p
    <2>2. a \in Nat /\ 13 * m + 9 * q <= a
        BY <1>6, <1>9, <1>10
    <2> QED BY <1>3, <1>5, <1>8, <2>1, <2>2
<1>12. a \div b \in Nat /\ a \div b >= 1
    BY <1>11
<1> QED BY <1>4, <1>12 DEF n

\* The index holds the texts x of docs and nothing else.
Reflects(index, docs, x) ==
    /\ TextShape(index)
    /\ DOMAIN index.docLengths = docs
    /\ index.totalDocLength = Sum(index.docLengths)
    /\ \A d \in docs :
        /\ x[d] \in Seq(Term)
        /\ index.docLengths[d] = Len(x[d])
        /\ \A t \in Term : Own(index, d, t) = OwnOf(x[d], d, t)

\* The documents that have a term.
Having(docs, x, t) == {d \in docs : Frequency(x[d], t) > 0}

\* The list of a term is as long as there are documents that have it.
LEMMA ListLength ==
    ASSUME NEW index, NEW docs, NEW x, Reflects(index, docs, x),
           NEW t \in DOMAIN index.postings
    PROVE  /\ Len(index.postings[t]) = Cardinality(Having(docs, x, t))
           /\ Len(index.postings[t]) \in 1 .. Cardinality(docs)
           /\ {p.docId : p \in In(index.postings[t])} = Having(docs, x, t)
<1> DEFINE list == index.postings[t]
           n == Len(list)
           f == [i \in 1 .. n |-> list[i].docId]
           S == Having(docs, x, t)
<1>1. /\ t \in Term /\ list \in Seq(Posting) /\ list # <<>> /\ OnePerDoc(list)
      /\ IsFiniteSet(docs)
      /\ \A p \in In(list) : p.docId \in docs
      /\ ListOf(index, t) = list
    BY DEF Reflects, TextShape, ListShape, ListOf
<1>2. \A d \in docs : /\ Frequency(x[d], t) \in Nat
                      /\ {p \in In(list) : p.docId = d} = OwnOf(x[d], d, t)
    BY <1>1, WordsOf DEF Reflects, Own
<1> HIDE DEF list
<1>3. n \in Nat /\ n # 0 /\ DOMAIN list = 1 .. n
    BY <1>1
<1>4. \A d \in docs : d \in S <=> \E p \in In(list) : p.docId = d
    <2> SUFFICES ASSUME NEW d \in docs PROVE d \in S <=> \E p \in In(list) : p.docId = d
        OBVIOUS
    <2>1. Frequency(x[d], t) \in Nat
          /\ {p \in In(list) : p.docId = d} = OwnOf(x[d], d, t)
        BY <1>2
    <2>2. d \in S <=> Frequency(x[d], t) # 0
        BY <2>1 DEF Having
    <2>3. Frequency(x[d], t) # 0 <=> OwnOf(x[d], d, t) # {}
        BY DEF OwnOf
    <2> QED BY <2>1, <2>2, <2>3
<1>5. {p.docId : p \in In(list)} = S
    <2>1. ASSUME NEW p \in In(list) PROVE p.docId \in S
        BY <1>1, <1>4
    <2>2. ASSUME NEW d \in S PROVE d \in {p.docId : p \in In(list)}
        <3>1. d \in docs
            BY DEF Having
        <3>2. PICK p \in In(list) : p.docId = d
            BY <1>4, <3>1
        <3> QED BY <3>2
    <2> QED BY <2>1, <2>2
<1>6. f \in Bijection(1 .. n, S)
    <2>1. \A i \in 1 .. n : list[i] \in In(list) /\ f[i] = list[i].docId /\ f[i] \in S
        BY <1>3, <1>5 DEF In
    <2>2. \A d \in S : \E i \in 1 .. n : f[i] = d
        <3> SUFFICES ASSUME NEW d \in S PROVE \E i \in 1 .. n : f[i] = d
            OBVIOUS
        <3>1. PICK p \in In(list) : p.docId = d
            BY <1>5
        <3>2. PICK i \in 1 .. n : list[i] = p
            BY <1>3 DEF In
        <3> QED BY <3>1, <3>2
    <2>3. \A i, j \in 1 .. n : f[i] = f[j] => i = j
        BY <1>1, <1>3 DEF OnePerDoc
    <2>4. f \in [1 .. n -> S]
        BY <2>1
    <2> HIDE DEF f, S
    <2> QED BY <2>2, <2>3, <2>4 DEF Bijection, Injection, Surjection, IsInjective
<1> HIDE DEF f
<1>7. IsFiniteSet(1 .. n) /\ Cardinality(1 .. n) = n
    <2>1. n \in Int
        BY <1>3
    <2>2. Cardinality(1 .. n) = IF 1 > n THEN 0 ELSE n - 1 + 1
        BY <2>1, FS_Interval
    <2> HIDE DEF n
    <2> QED BY <1>3, <2>1, <2>2, FS_Interval
<1>8. n = Cardinality(S)
    <2>1. ExistsBijection(1 .. n, S)
        BY <1>6 DEF ExistsBijection
    <2> QED BY <1>7, <2>1, FS_Bijection
<1>9. n <= Cardinality(docs) /\ Cardinality(docs) \in Nat
    <2>1. S \subseteq docs
        BY DEF Having
    <2> HIDE DEF n, S
    <2> QED BY <1>1, <1>8, <2>1, FS_Subset, FS_CardinalityType
<1> HIDE DEF n, S
<1>10. n \in 1 .. Cardinality(docs)
    BY <1>3, <1>9
<1> QED BY <1>5, <1>8, <1>10 DEF n, S, list

\* The length of a document is at most the total.
LEMMA LengthInTotal ==
    ASSUME NEW index, NEW docs, NEW x, Reflects(index, docs, x), NEW d \in docs
    PROVE  /\ index.totalDocLength \in Nat
           /\ Len(x[d]) \in Nat
           /\ Len(x[d]) <= index.totalDocLength
<1> DEFINE f == index.docLengths
<1>1. /\ DOMAIN f = docs /\ IsFiniteSet(docs) /\ (\A e \in docs : f[e] \in Nat)
      /\ f[d] = Len(x[d])
      /\ index.totalDocLength = Sum(f)
    BY DEF Reflects, TextShape
<1> HIDE DEF f
<1>2. Sum(f) = f[d] + Sum(Without(f, d)) /\ Sum(Without(f, d)) \in Nat /\ f[d] \in Nat
    BY <1>1, SumTakesAny
<1> QED BY <1>1, <1>2

\* A term adds BM25 of its frequency in a document to its score, or nothing.
LEMMA TermScoreIs ==
    ASSUME IdfIsFine, NEW index, NEW docs \in SUBSET Id, NEW x, Reflects(index, docs, x),
           NEW t \in DOMAIN index.postings, NEW doc \in docs
    PROVE  /\ Frequency(x[doc], t) = 0 => TermScore(index, t, doc) = 0
           /\ Frequency(x[doc], t) # 0 =>
                /\ TermScore(index, t, doc) =
                       Bm25(Cardinality(docs), index.totalDocLength,
                            Cardinality(Having(docs, x, t)),
                            Frequency(x[doc], t), Len(x[doc]))
                /\ TermScore(index, t, doc) \in Nat /\ TermScore(index, t, doc) > 0
<1> DEFINE list == index.postings[t]
           own == {i \in DOMAIN list : list[i].docId = doc}
           total == index.totalDocLength
           value(i) == Bm25(index.docCount, total, Len(list), list[i].termFreq,
                            index.docLengths[doc])
           freq == Frequency(x[doc], t)
<1>1. TermScore(index, t, doc) = Sum([i \in own |-> value(i)])
    BY DEF TermScore
<1>2. /\ index.docCount = Cardinality(docs)
      /\ index.docLengths[doc] = Len(x[doc])
      /\ IsFiniteSet(docs)
      /\ list \in Seq(Posting) /\ OnePerDoc(list) /\ t \in Term
      /\ ListOf(index, t) = list
    BY DEF Reflects, TextShape, ListShape, ListOf
<1>3. /\ Len(list) = Cardinality(Having(docs, x, t))
      /\ Len(list) \in 1 .. Cardinality(docs)
    BY ListLength
<1>4. total \in Nat /\ Len(x[doc]) \in Nat /\ Len(x[doc]) <= total
    BY LengthInTotal
<1>5. freq \in Nat /\ {p \in In(list) : p.docId = doc} = OwnOf(x[doc], doc, t)
    BY <1>2, WordsOf DEF Reflects, Own
<1> HIDE DEF list, total
<1>6. CASE freq = 0
    <2>1. {p \in In(list) : p.docId = doc} = {}
        BY <1>5, <1>6 DEF OwnOf
    <2>2. own = {}
        BY <2>1 DEF In
    <2> DEFINE g == [i \in own |-> value(i)]
    <2>3. DOMAIN g = {} /\ IsFiniteSet({}) /\ \A i \in {} : g[i] \in Nat
        BY <2>2, FS_EmptySet
    <2> HIDE DEF g
    <2>4. Sum(g) = 0
        BY <2>3, SumTakesAny
    <2> QED BY <1>1, <1>6, <2>4 DEF g
<1>7. CASE freq # 0
    <2>1. {p \in In(list) : p.docId = doc} = {[docId |-> doc, termFreq |-> freq]}
        BY <1>5, <1>7 DEF OwnOf
    <2>2. PICK i \in DOMAIN list : list[i] = [docId |-> doc, termFreq |-> freq]
        BY <2>1 DEF In
    <2>3. list[i].docId = doc /\ list[i].termFreq = freq
        BY <2>2
    <2>4. own = {i}
        BY <1>2, <2>3 DEF OnePerDoc
    <2> DEFINE v == Bm25(Cardinality(docs), total, Cardinality(Having(docs, x, t)), freq,
                         Len(x[doc]))
               g == [j \in {i} |-> v]
    <2>5. value(i) = v
        BY <1>2, <1>3, <2>3
    <2>6. v \in Nat /\ v > 0
        <3>1. freq \in Nat \ {0}
            BY <1>5, <1>7
        <3> HIDE DEF freq
        <3> QED BY <1>2, <1>3, <1>4, <3>1, Bm25Positive
    <2>7. [j \in own |-> value(j)] = g
        BY <2>4, <2>5
    <2>8. Sum(g) = v
        <3> HIDE DEF v, own, value
        <3>1. g[i] = v
            OBVIOUS
        <3>2. Sum(Only(g, {i})) = g[i]
            <4> HIDE DEF g
            <4> QED BY <2>6, <3>1, SumOfOne
        <3>3. Only(g, {i}) = g
            BY DEF Only
        <3> HIDE DEF g
        <3> QED BY <3>1, <3>2, <3>3
    <2>9. TermScore(index, t, doc) = v
        <3> HIDE DEF v, own, value, g
        <3> QED BY <1>1, <2>7, <2>8
    <2> QED BY <1>7, <2>6, <2>9 DEF total
<1> QED BY <1>6, <1>7

\* The terms a query and a text share.
Matching(query, x) == {t \in Term : Frequency(query, t) > 0 /\ Frequency(x, t) > 0}

\* What a term adds to the score of d, and what the score is.
Weight(total, docs, x, d, t) ==
    Bm25(Cardinality(docs), total, Cardinality(Having(docs, x, t)), Frequency(x[d], t),
         Len(x[d]))

Score25(total, docs, x, query, d) ==
    Sum([t \in Matching(query, x[d]) |-> Weight(total, docs, x, d, t)])

\* The documents with a score.
Scored25(total, docs, x, query) == {d \in docs : Score25(total, docs, x, query, d) > 0}

\* search scores the documents that have a term of the query, each term once.
LEMMA TextScoresAre ==
    ASSUME IdfIsFine, NEW index, NEW docs \in SUBSET Id, NEW x, Reflects(index, docs, x),
           NEW query \in Seq(Term)
    PROVE  /\ DOMAIN TextScores(index, query) =
                  Scored25(index.totalDocLength, docs, x, query)
           /\ \A d \in DOMAIN TextScores(index, query) :
                  TextScores(index, query)[d] =
                      Score25(index.totalDocLength, docs, x, query, d)
           /\ \A d \in docs : Score25(index.totalDocLength, docs, x, query, d) \in Nat
<1> DEFINE score == TextScores(index, query)
           total == index.totalDocLength
           by(d) == Score25(total, docs, x, query, d)
           found == {t \in DOMAIN index.postings : Counted(query, t) > 0}
           hits == UNION {{p.docId : p \in {index.postings[t][i] : i \in DOMAIN index.postings[t]}}
                             : t \in found}
           value(d, t) == Counted(query, t) * TermScore(index, t, d)
<1>1. score = [d \in hits |-> Sum([t \in found |-> value(d, t)])]
    BY DEF TextScores
<1>2. /\ \A t : Frequency(query, t) \in Nat
      /\ \A d \in docs : \A t : Frequency(x[d], t) \in Nat
    BY WordsOf DEF Reflects
<1>3. /\ IsFiniteSet(DOMAIN index.postings) /\ DOMAIN index.postings \subseteq Term
      /\ found = {t \in DOMAIN index.postings : Frequency(query, t) > 0}
      /\ \A t \in found : Counted(query, t) = 1
    BY <1>2 DEF Reflects, TextShape, Counted
<1>4. IsFiniteSet(found)
    BY <1>3, FS_Subset
<1>5. ASSUME NEW d \in docs
      PROVE  Matching(query, x[d]) = {t \in found : Frequency(x[d], t) # 0}
    <2>1. ASSUME NEW t \in Matching(query, x[d])
          PROVE  t \in found /\ Frequency(x[d], t) # 0
        <3>1. t \in Term /\ Frequency(query, t) > 0 /\ Frequency(x[d], t) # 0
            BY <1>2 DEF Matching
        <3>2. Own(index, d, t) # {}
            BY <3>1 DEF Reflects, OwnOf
        <3>3. t \in DOMAIN index.postings
            BY <3>2 DEF Own, ListOf, In
        <3> QED BY <1>3, <3>1, <3>3
    <2>2. ASSUME NEW t \in found, Frequency(x[d], t) # 0
          PROVE  t \in Matching(query, x[d])
        <3>1. t \in Term /\ Frequency(query, t) > 0
            BY <1>3
        <3>2. Frequency(x[d], t) \in Nat
            BY <1>2
        <3>3. Frequency(x[d], t) > 0
            BY <2>2, <3>2
        <3> QED BY <3>1, <3>3 DEF Matching
    <2> HIDE DEF found
    <2> QED BY <2>1, <2>2
<1>6. ASSUME NEW d \in docs, NEW t \in found
      PROVE  /\ value(d, t) \in Nat
             /\ Frequency(x[d], t) = 0 => value(d, t) = 0
             /\ Frequency(x[d], t) # 0 =>
                    value(d, t) = Weight(total, docs, x, d, t) /\ value(d, t) > 0
    <2> DEFINE v == TermScore(index, t, d)
    <2>1. t \in DOMAIN index.postings
        OBVIOUS
    <2>2. /\ Frequency(x[d], t) = 0 => v = 0
          /\ Frequency(x[d], t) # 0 =>
                v = Weight(total, docs, x, d, t) /\ v \in Nat /\ v > 0
        BY <2>1, TermScoreIs DEF Weight
    <2>3. v \in Nat
        BY <1>2, <2>2
    <2> HIDE DEF v
    <2>4. Counted(query, t) * v = v
        BY <1>3, <2>3
    <2> QED BY <2>2, <2>3, <2>4 DEF v
<1> HIDE DEF found, value, total
<1>7. ASSUME NEW d \in docs
      PROVE  by(d) = Sum([t \in found |-> value(d, t)])
    <2> DEFINE M == Matching(query, x[d])
               f == [t \in found |-> value(d, t)]
    <2>1. M \in SUBSET found
        BY <1>5
    <2>2. /\ \A t \in found : f[t] \in Nat
          /\ \A t \in found \ M : f[t] = 0
        BY <1>5, <1>6
    <2>3. [t \in M |-> Weight(total, docs, x, d, t)] = Only(f, M)
        BY <1>5, <1>6 DEF Only
    <2>4. Only(f, found) = f
        BY DEF Only
    <2> HIDE DEF M, f
    <2>5. Sum(Only(f, found)) = Sum(Only(f, M))
        BY <1>4, <2>1, <2>2, SumOnSupport
    <2>6. by(d) = Sum([t \in M |-> Weight(total, docs, x, d, t)])
        BY DEF Score25, M
    <2>7. by(d) = Sum(f)
        BY <2>3, <2>4, <2>5, <2>6
    <2> QED BY <2>7 DEF f
<1>8. ASSUME NEW d \in docs
      PROVE  (by(d) > 0 <=> Matching(query, x[d]) # {}) /\ by(d) \in Nat
    <2> DEFINE M == Matching(query, x[d])
               g == [t \in M |-> Weight(total, docs, x, d, t)]
    <2>1. M \subseteq found /\ IsFiniteSet(M)
        BY <1>4, <1>5, FS_Subset
    <2>2. DOMAIN g = M /\ \A t \in M : g[t] \in Nat /\ g[t] > 0
        BY <1>5, <1>6
    <2>3. by(d) = Sum(g)
        BY DEF Score25
    <2> HIDE DEF M, g
    <2>4. /\ Sum(g) \in Nat
          /\ M = {} => Sum(g) = 0
          /\ \A t \in M : Sum(g) = g[t] + Sum(Without(g, t)) /\ Sum(Without(g, t)) \in Nat
        BY <2>1, <2>2, SumTakesAny
    <2>5. M # {} => Sum(g) > 0
        <3> SUFFICES ASSUME NEW t \in M PROVE Sum(g) > 0
            OBVIOUS
        <3>1. /\ g[t] \in Nat /\ g[t] > 0 /\ Sum(Without(g, t)) \in Nat
              /\ Sum(g) = g[t] + Sum(Without(g, t))
            BY <2>2, <2>4
        <3> QED BY <3>1
    <2>6. (Sum(g) > 0) <=> M # {}
        BY <2>4, <2>5
    <2> HIDE DEF by
    <2> QED BY <2>3, <2>4, <2>6 DEF M
<1>9. hits = {d \in docs : Matching(query, x[d]) # {}}
    <2>1. \A t \in found : t \in Term /\ t \in DOMAIN index.postings
        BY <1>3
    <2>2. ASSUME NEW t \in found
          PROVE  {p.docId : p \in {index.postings[t][i] : i \in DOMAIN index.postings[t]}} =
                     Having(docs, x, t)
        BY <2>1, ListLength DEF In
    <2>3. hits = UNION {Having(docs, x, t) : t \in found}
        BY <2>2
    <2>4. \A d \in docs : \A t : d \in Having(docs, x, t) <=> Frequency(x[d], t) # 0
        BY <1>2 DEF Having
    <2>5. \A t : Having(docs, x, t) \subseteq docs
        BY DEF Having
    <2> HIDE DEF hits
    <2>6. ASSUME NEW d \in hits PROVE d \in docs /\ Matching(query, x[d]) # {}
        BY <1>5, <2>3, <2>4, <2>5
    <2>7. ASSUME NEW d \in docs, Matching(query, x[d]) # {} PROVE d \in hits
        BY <1>5, <2>3, <2>4, <2>7
    <2> QED BY <2>6, <2>7
<1> HIDE DEF hits, score, by
<1>10. DOMAIN score = {d \in docs : by(d) > 0}
    BY <1>1, <1>8, <1>9
<1>11. \A d \in DOMAIN score : score[d] = by(d)
    BY <1>1, <1>7, <1>9
<1>12. \A d \in docs : by(d) \in Nat
    BY <1>8
<1> QED BY <1>10, <1>11, <1>12 DEF score, by, total, Scored25

\* Between calls, when no write has failed, the inverted index has the texts of
\* the documents in the store.
LEMMA ReflectsStore ==
    ASSUME EngineInv, TextCounts(text), Idle, failed = {}
    PROVE  Reflects(text, Live, [d \in Live |-> store[d].text])
<1> DEFINE x == [d \in Live |-> store[d].text]
<1>1. \A d \in Id : Holds(vectors, text, d, store[d])
    BY DEF EngineInv, FollowInv, ModeInv, Idle, Unsettled
<1>2. Live \subseteq Id /\ \A d \in Id : d \in Live <=> store[d] # None
    BY DEF Live
<1>3. TextShape(text) /\ DOMAIN text.docLengths \subseteq Id
    BY DEF EngineInv, IndexInv, TextShape
<1>4. DOMAIN text.docLengths = Live
    BY <1>1, <1>2, <1>3 DEF Holds
<1>5. ASSUME NEW d \in Live
      PROVE  /\ x[d] \in Seq(Term)
             /\ text.docLengths[d] = Len(x[d])
             /\ \A t \in Term : Own(text, d, t) = OwnOf(x[d], d, t)
    <2>1. store[d] \in Doc
        BY <1>2 DEF EngineInv, CallInv
    <2>2. x[d] \in Seq(Term) /\ x[d] = store[d].text
        BY <2>1, EngineAssumption, TextIndexAssumption
    <2> HIDE DEF x
    <2>3. \A t \in Term : Own(text, d, t) = OwnOf(x[d], d, t)
        BY <1>1, <1>2, <2>2 DEF Holds
    <2>4. PICK y \in Seq(Term) : /\ text.docLengths[d] = Len(y)
                                 /\ \A t : Own(text, d, t) = OwnOf(y, d, t)
        BY <1>4 DEF TextCounts, Indexes
    <2>5. ASSUME NEW t \in Term PROVE Frequency(x[d], t) = Frequency(y, t)
        <3> DEFINE n == Frequency(x[d], t)
                   m == Frequency(y, t)
        <3>1. OwnOf(x[d], d, t) = OwnOf(y, d, t)
            BY <2>3, <2>4
        <3>2. /\ OwnOf(x[d], d, t) = IF n = 0 THEN {} ELSE {[docId |-> d, termFreq |-> n]}
              /\ OwnOf(y, d, t) = IF m = 0 THEN {} ELSE {[docId |-> d, termFreq |-> m]}
            BY DEF OwnOf
        <3> HIDE DEF n, m
        <3>3. n = 0 <=> m = 0
            BY <3>1, <3>2
        <3>4. n # 0 => n = m
            <4> SUFFICES ASSUME n # 0 PROVE n = m
                OBVIOUS
            <4>1. [docId |-> d, termFreq |-> n] \in {[docId |-> d, termFreq |-> m]}
                BY <3>1, <3>2, <3>3
            <4> QED BY <4>1
        <3> QED BY <3>3, <3>4 DEF n, m
    <2>6. Len(x[d]) = Len(y)
        BY <2>2, <2>5, SameFrequenciesSameLength
    <2> QED BY <2>2, <2>3, <2>4, <2>6
<1> HIDE DEF x
<1> QED BY <1>3, <1>4, <1>5 DEF Reflects, TextCounts, x

\* Then a document's text score is BM25 of what the store holds.
LEMMA ScoresFollowStore ==
    ASSUME IdfIsFine, EngineInv, TextCounts(text), Idle, failed = {}, NEW q \in Query
    PROVE  /\ DOMAIN TextScores(text, q.text) =
                  {id \in Live : StoredTextScore(q.text, id) > 0}
           /\ \A id \in DOMAIN TextScores(text, q.text) :
                  TextScores(text, q.text)[id] = StoredTextScore(q.text, id)
           /\ \A id \in Live : StoredTextScore(q.text, id) \in Nat
<1> DEFINE x == [d \in Live |-> store[d].text]
           total == text.totalDocLength
<1>1. Reflects(text, Live, x)
    BY ReflectsStore
<1>2. q.text \in Seq(Term) /\ Live \in SUBSET Id
    BY EngineAssumption DEF Live
<1>3. text.docLengths = [d \in Live |-> Len(store[d].text)]
    <2>1. /\ text.docLengths = [d \in DOMAIN text.docLengths |-> text.docLengths[d]]
          /\ DOMAIN text.docLengths = Live
          /\ \A d \in Live : text.docLengths[d] = Len(x[d]) /\ x[d] = store[d].text
        BY <1>1 DEF Reflects, TextShape
    <2> QED BY <2>1
<1>4. total = Sum([d \in Live |-> Len(store[d].text)])
    BY <1>1, <1>3 DEF Reflects
<1>5. ASSUME NEW id \in Live
      PROVE  StoredTextScore(q.text, id) = Score25(total, Live, x, q.text, id)
    <2>1. x[id] = store[id].text
        OBVIOUS
    <2>2. \A t : Having(Live, x, t) =
              {d \in Live : Frequency(store[d].text, t) > 0}
        BY DEF Having
    <2> HIDE DEF x, total
    <2>3. Matching(q.text, x[id]) =
              {t \in Term : Frequency(q.text, t) > 0 /\ Frequency(store[id].text, t) > 0}
        BY <2>1 DEF Matching
    <2> QED BY <1>4, <2>1, <2>2, <2>3 DEF StoredTextScore, Score25, Weight
<1> HIDE DEF x
<1>6. /\ DOMAIN TextScores(text, q.text) =
            {d \in Live : Score25(total, Live, x, q.text, d) > 0}
      /\ \A d \in DOMAIN TextScores(text, q.text) :
            TextScores(text, q.text)[d] = Score25(total, Live, x, q.text, d)
      /\ \A d \in Live : Score25(total, Live, x, q.text, d) \in Nat
    <2> DEFINE words == q.text
    <2>1. words \in Seq(Term) /\ IdfIsFine
        BY <1>2
    <2> HIDE DEF words
    <2>2. /\ DOMAIN TextScores(text, words) =
                Scored25(text.totalDocLength, Live, x, words)
          /\ \A d \in DOMAIN TextScores(text, words) :
                TextScores(text, words)[d] =
                    Score25(text.totalDocLength, Live, x, words, d)
          /\ \A d \in Live : Score25(text.totalDocLength, Live, x, words, d) \in Nat
        BY <1>1, <1>2, <2>1, TextScoresAre
    <2> QED BY <2>2 DEF words, total, Scored25
<1> HIDE DEF total
<1> QED BY <1>5, <1>6

\* A text score is what BM25 makes of the documents in the store, however they
\* came to be indexed (text.rs: index_document, remove_document, search).
THEOREM TextScoresExact ==
    ASSUME IdfIsFine
    PROVE  Spec => []TextScoresFollowStore
<1>1. EngineInv /\ TextCounts(text) => TextScoresFollowStore
    BY ScoresFollowStore DEF TextScoresFollowStore
<1> QED BY <1>1, EngineInvariance, CountsInvariance, PTL

---------------------------------------------------------------------------
(* The heap *)

\* Half of a place, the place of its parent.
LEMMA Parent ==
    ASSUME NEW i \in Nat, i > 1
    PROVE  i \div 2 \in Nat /\ i \div 2 >= 1 /\ i \div 2 < i
           /\ (i = 2 * (i \div 2) \/ i = 2 * (i \div 2) + 1)
OBVIOUS

\* The function SiftUp finds the ancestors by.
AboveStep(f, i) == IF i = 1 THEN {1} ELSE {i} \cup f[i \div 2]

\* There is such a function.
LEMMA AboveExists ==
    ASSUME NEW n \in Nat
    PROVE  \E f : f = [i \in 1 .. n |-> AboveStep(f, i)]
<1> DEFINE good == {m \in 0 .. n : \E f : f = [i \in 1 .. m |-> AboveStep(f, i)]}
<1>1. 0 \in good
    <2> DEFINE none == [i \in 1 .. 0 |-> {}]
    <2>1. none = [i \in 1 .. 0 |-> AboveStep(none, i)]
        OBVIOUS
    <2>2. \E f : f = [i \in 1 .. 0 |-> AboveStep(f, i)]
        <3> HIDE DEF none
        <3> QED BY <2>1, Zenon
    <2>3. 0 \in 0 .. n
        OBVIOUS
    <2> QED BY <2>2, <2>3, Zenon
<1>2. ASSUME NEW m \in 0 .. n - 1, m \in good PROVE m + 1 \in good
    <2>1. PICK f : f = [i \in 1 .. m |-> AboveStep(f, i)]
        BY <1>2
    <2> DEFINE g == [i \in 1 .. m + 1 |-> IF i = m + 1 THEN AboveStep(f, m + 1) ELSE f[i]]
    <2>2. \A i \in 1 .. m : g[i] = f[i]
        OBVIOUS
    <2>3. \A i \in 1 .. m + 1 : i # 1 => i \div 2 \in 1 .. m
        BY Parent
    <2>4. \A i \in 1 .. m + 1 : AboveStep(g, i) = AboveStep(f, i)
        <3> HIDE DEF g
        <3> QED BY <2>2, <2>3 DEF AboveStep
    <2>5. \A i \in 1 .. m + 1 : g[i] = AboveStep(f, i)
        <3>1. \A i \in 1 .. m : f[i] = AboveStep(f, i)
            BY <2>1
        <3>2. \A i \in 1 .. m + 1 : i # m + 1 => i \in 1 .. m
            OBVIOUS
        <3> QED BY <3>1, <3>2
    <2>6. g = [i \in 1 .. m + 1 |-> AboveStep(g, i)]
        <3>1. \A i \in 1 .. m + 1 : g[i] = AboveStep(g, i)
            BY <2>4, <2>5
        <3>2. g = [i \in 1 .. m + 1 |-> g[i]]
            OBVIOUS
        <3> HIDE DEF g
        <3> QED BY <3>1, <3>2
    <2> HIDE DEF g
    <2>7. m + 1 \in 0 .. n
        OBVIOUS
    <2> QED BY <2>6, <2>7
<1> HIDE DEF good
<1>3. \A m \in 0 .. n : m \in good
    BY <1>1, <1>2, UpTo
<1>4. n \in good
    BY <1>3
<1> QED BY <1>4 DEF good

\* The places from n up to the root.
Path(A, n) ==
    /\ A \subseteq 1 .. n /\ 1 \in A /\ n \in A
    /\ \A i \in A : i # 1 => i \div 2 \in A
    /\ \A i \in A : i # n => \E j \in A : j # 1 /\ j \div 2 = i
    /\ \A i, j \in A : i < j => i <= j \div 2

\* It gives the way from each place up to the root.
LEMMA AboveIsPath ==
    ASSUME NEW n \in Nat, NEW f, f = [i \in 1 .. n |-> AboveStep(f, i)]
    PROVE  \A i \in 1 .. n : Path(f[i], i)
<1> DEFINE good == {m \in 0 .. n : \A i \in 1 .. m : Path(f[i], i)}
<1>1. 0 \in good
    OBVIOUS
<1>2. ASSUME NEW m \in 0 .. n - 1, m \in good PROVE m + 1 \in good
    <2> DEFINE k == m + 1
               p == k \div 2
               A == f[k]
               B == f[p]
    <2>1. k \in 1 .. n /\ k \in 0 .. n
        OBVIOUS
    <2>2. A = AboveStep(f, k)
        BY <2>1
    <2>3. ASSUME k = 1 PROVE Path(A, k)
        <3>1. A = {1}
            BY <2>2, <2>3 DEF AboveStep
        <3> HIDE DEF A
        <3> QED BY <2>3, <3>1 DEF Path
    <2>4. ASSUME k # 1 PROVE Path(A, k)
        <3>1. p \in 1 .. m /\ p < k /\ k \in Nat
            BY <2>1, <2>4, Parent
        <3>2. Path(B, p)
            BY <1>2, <3>1
        <3>3. A = {k} \cup B
            BY <2>2, <2>4 DEF AboveStep
        <3>4. k \div 2 = p
            OBVIOUS
        <3> HIDE DEF A, B, p, k
        <3>5. \A i \in B : i \in 1 .. p /\ i < k
            BY <3>1, <3>2 DEF Path
        <3>6. A \subseteq 1 .. k /\ 1 \in A /\ k \in A
            BY <3>1, <3>2, <3>3, <3>5 DEF Path
        <3>7. \A i \in A : i # 1 => i \div 2 \in A
            BY <3>2, <3>3, <3>4 DEF Path
        <3>8. \A i \in A : i # k => \E j \in A : j # 1 /\ j \div 2 = i
            BY <2>4, <3>2, <3>3, <3>4 DEF Path
        <3>9. \A i, j \in A : i < j => i <= j \div 2
            BY <3>1, <3>2, <3>3, <3>4, <3>5 DEF Path
        <3> QED BY <3>6, <3>7, <3>8, <3>9 DEF Path
    <2>5. Path(A, k)
        BY <2>3, <2>4
    <2>6. \A i \in 1 .. m + 1 : i = m + 1 \/ i \in 1 .. m
        OBVIOUS
    <2> QED BY <1>2, <2>1, <2>5, <2>6
<1> HIDE DEF good
<1>3. \A m \in 0 .. n : m \in good
    BY <1>1, <1>2, UpTo
<1>4. n \in good
    BY <1>3
<1> QED BY <1>4 DEF good

\* What search keeps of a row whose score is no NaN.
Entry == [id : Id, score : Int]

\* No entry is before its parent; that of n may be.
OrderedBut(heap, n) ==
    \A i \in 2 .. Len(heap) : i # n => heap[i \div 2].score <= heap[i].score

\* The order of a heap: the worst entry at the root.
Ordered(heap) == OrderedBut(heap, 0)

\* Where the entries of SiftUp come from.
Source(A, n, stop, i) ==
    IF i = stop THEN n ELSE IF i \in A /\ i > stop THEN i \div 2 ELSE i

\* A one-to-one map of the places 1 to n to the places S, and the heap of the
\* entries it finds there.
OneToOne(from, n, S) ==
    /\ \A i \in 1 .. n : from[i] \in S
    /\ \A i, j \in 1 .. n : from[i] = from[j] => i = j
    /\ \A y \in S : \E i \in 1 .. n : from[i] = y

Moved(heap, from, n) == [i \in 1 .. n |-> heap[from[i]]]

Sources(A, n, stop, len) == [i \in 1 .. len |-> Source(A, n, stop, i)]

\* A sift-up moves entries, and neither loses nor doubles one.
LEMMA SourceOneToOne ==
    ASSUME NEW len \in Nat, NEW n \in 1 .. len, NEW A, Path(A, n), NEW stop \in A
    PROVE  OneToOne(Sources(A, n, stop, len), len, 1 .. len)
<1> DEFINE s(i) == Source(A, n, stop, i)
<1>1. /\ \A i \in A : i \in 1 .. n /\ i \in 1 .. len
      /\ n \in A
      /\ \A i \in A : i > stop => i \div 2 \in A /\ i \div 2 < i /\ stop <= i \div 2
      /\ \A i, j \in A : i < j => i <= j \div 2
      /\ \A i \in A : i # n => \E j \in A : j # 1 /\ j \div 2 = i
    <2>1. \A i \in A : i \in 1 .. n
        BY DEF Path
    <2>2. \A i \in A : i > stop => i # 1
        BY <2>1
    <2>3. \A i \in A : i > stop => i \div 2 < i
        BY <2>1, <2>2, Parent
    <2> QED BY <2>1, <2>2, <2>3 DEF Path
<1>2. \A i \in 1 .. len : s(i) \in 1 .. len
    BY <1>1 DEF Source
<1>3. ASSUME NEW i \in 1 .. len, NEW j \in 1 .. len, i < j PROVE s(i) # s(j)
    <2>1. CASE i = stop
        <3>1. s(i) = n
            BY <2>1 DEF Source
        <3>2. CASE j \in A
            <4>1. s(j) = j \div 2 /\ j \div 2 < j /\ j <= n
                BY <1>1, <1>3, <2>1, <3>2 DEF Source
            <4> QED BY <1>1, <3>1, <3>2, <4>1
        <3>3. CASE j \notin A
            BY <1>1, <1>3, <2>1, <3>1, <3>3 DEF Source
        <3> QED BY <3>2, <3>3
    <2>2. CASE j = stop
        <3>1. s(j) = n /\ i # stop /\ ~ (i > stop)
            BY <1>1, <1>3, <2>2 DEF Source
        <3>2. s(i) = i
            BY <3>1 DEF Source
        <3> QED BY <1>1, <1>3, <2>2, <3>1, <3>2
    <2>3. CASE i # stop /\ j # stop /\ i \in A /\ i > stop
        <3>1. s(i) = i \div 2 /\ i \div 2 \in A /\ i \div 2 < i
            BY <1>1, <2>3 DEF Source
        <3>2. CASE j \in A
            <4>1. s(j) = j \div 2 /\ i <= j \div 2 /\ j \div 2 \in A
                BY <1>1, <1>3, <2>3, <3>2 DEF Source
            <4> QED BY <1>1, <3>1, <4>1
        <3>3. CASE j \notin A
            BY <2>3, <3>1, <3>3 DEF Source
        <3> QED BY <3>2, <3>3
    <2>4. CASE i # stop /\ j # stop /\ ~ (i \in A /\ i > stop)
        <3>1. s(i) = i
            BY <2>4 DEF Source
        <3>2. CASE j \in A /\ j > stop
            <4>1. s(j) = j \div 2 /\ j \div 2 \in A /\ stop <= j \div 2
                BY <1>1, <2>4, <3>2 DEF Source
            <4> DEFINE h == j \div 2
            <4>2. h \in A /\ stop <= h /\ h \in Int /\ stop \in Int /\ i \in Int
                BY <1>1, <4>1
            <4> HIDE DEF h, s
            <4>3. h # i
                BY <2>4, <4>2
            <4> QED BY <3>1, <4>1, <4>3 DEF h
        <3>3. CASE ~ (j \in A /\ j > stop)
            BY <1>3, <2>4, <3>1, <3>3 DEF Source
        <3> QED BY <3>2, <3>3
    <2> QED BY <2>1, <2>2, <2>3, <2>4
<1>4. ASSUME NEW y \in 1 .. len PROVE \E i \in 1 .. len : s(i) = y
    <2>1. CASE y \notin A \/ y < stop
        <3>1. s(y) = y
            BY <1>1, <2>1 DEF Source
        <3> QED BY <3>1
    <2>2. CASE y = n
        <3>1. s(stop) = y /\ stop \in 1 .. len
            BY <1>1, <2>2 DEF Source
        <3> QED BY <3>1
    <2>3. CASE y \in A /\ y >= stop /\ y # n
        <3>1. PICK j \in A : j # 1 /\ j \div 2 = y
            BY <1>1, <2>3
        <3>2. j \in 1 .. len /\ y < j
            BY <1>1, <3>1, Parent
        <3>3. s(j) = y
            BY <1>1, <2>3, <3>1, <3>2 DEF Source
        <3> QED BY <3>2, <3>3
    <2>4. y \in A /\ ~ (y < stop) => y >= stop
        BY <1>1
    <2> QED BY <2>1, <2>2, <2>3, <2>4
<1>5. ASSUME NEW i \in 1 .. len, NEW j \in 1 .. len, s(i) = s(j) PROVE i = j
    <2>1. i < j \/ j < i \/ i = j
        OBVIOUS
    <2> HIDE DEF s
    <2> QED BY <1>3, <1>5, <2>1
<1> QED BY <1>2, <1>4, <1>5 DEF OneToOne, Sources

\* The places a sift-up can stop at, and the heap when it stops at one.
Stops(heap, n, A) == {i \in A : i = 1 \/ AtMost(heap[n], heap[i \div 2])}

Sifted(heap, n, A, stop) ==
    [i \in DOMAIN heap |->
        IF i = stop THEN heap[n]
        ELSE IF i \in A /\ i > stop THEN heap[i \div 2]
        ELSE heap[i]]

\* The last of a set of places.
LEMMA LastOf ==
    ASSUME NEW n \in Nat, NEW S, S \subseteq 1 .. n, S # {}
    PROVE  LET last == CHOOSE i \in S : \A j \in S : j <= i
           IN  last \in S /\ \A j \in S : j <= last
<1> DEFINE T == {m \in Nat : n - m \in S}
           R == {ss \in Nat \X Nat : ss[1] < ss[2]}
<1>1. PICK x \in S : TRUE
    OBVIOUS
<1>2. n - x \in T
    <2>1. x \in 1 .. n
        OBVIOUS
    <2>2. n - x \in Nat /\ n - (n - x) = x
        BY <2>1
    <2> QED BY <1>1, <2>2
<1>3. PICK m \in T : \A y \in T : ~ (<<y, m>> \in R)
    <2>1. IsWellFoundedOn(R, Nat)
        BY NatLessThanWellFounded DEF OpToRel
    <2>2. T \subseteq Nat /\ T # {}
        BY <1>2
    <2> HIDE DEF R, T
    <2> QED BY <2>1, <2>2, WFMin
<1>4. n - m \in S
    OBVIOUS
<1>5. ASSUME NEW j \in S PROVE j <= n - m
    <2>1. j \in 1 .. n /\ n - m \in 1 .. n
        BY <1>4
    <2>2. n - j \in Nat /\ n - (n - j) = j
        BY <2>1
    <2>3. n - j \in T
        BY <2>2
    <2>4. ~ (n - j < m)
        BY <1>3, <2>2, <2>3
    <2> QED BY <2>1, <2>4
<1>6. \E i \in S : \A j \in S : j <= i
    BY <1>4, <1>5
<1> HIDE DEF T, R
<1> QED BY <1>6

\* sift_up stops at the place nearest to where it began that it can stop at.
LEMMA SiftUpIs ==
    ASSUME NEW heap, Len(heap) \in Nat, NEW n \in 1 .. Len(heap)
    PROVE  \E A : \E stop \in Stops(heap, n, A) :
               /\ Path(A, n)
               /\ \A j \in Stops(heap, n, A) : j <= stop
               /\ SiftUp(heap, n) = Sifted(heap, n, A, stop)
<1> DEFINE above == CHOOSE f : f = [i \in 1 .. n |-> AboveStep(f, i)]
           A == above[n]
           S == Stops(heap, n, A)
           stop == CHOOSE i \in S : \A j \in S : j <= i
<1>1. n \in Nat /\ above = [i \in 1 .. n |-> AboveStep(above, i)]
    <2>1. n \in Nat
        OBVIOUS
    <2>2. \E f : f = [i \in 1 .. n |-> AboveStep(f, i)]
        BY <2>1, AboveExists
    <2> QED BY <2>1, <2>2, Zenon
<1>2. SiftUp(heap, n) = Sifted(heap, n, A, stop)
    BY DEF SiftUp, AboveStep, Stops, Sifted
<1> HIDE DEF above
<1>3. Path(A, n)
    BY <1>1, AboveIsPath
<1> HIDE DEF A
<1>4. S \subseteq 1 .. n /\ S # {}
    BY <1>3 DEF Path, Stops
<1> HIDE DEF S
<1>5. stop \in S /\ \A j \in S : j <= stop
    BY <1>1, <1>4, LastOf
<1> HIDE DEF stop
<1> QED BY <1>2, <1>3, <1>5 DEF S

\* new has n entries, those of heap at the places S.
Holding(new, n, heap, S) ==
    /\ new \in Seq(Entry) /\ Len(new) = n
    /\ In(new) = {heap[y] : y \in S}
    /\ Distinct(heap) => Distinct(new)

\* Moving entries changes nothing but their order.
LEMMA MovedHolds ==
    ASSUME NEW heap \in Seq(Entry), NEW n \in Nat, NEW S, S \subseteq 1 .. Len(heap),
           NEW from, OneToOne(from, n, S)
    PROVE  Holding(Moved(heap, from, n), n, heap, S)
<1> DEFINE new == Moved(heap, from, n)
<1>1. /\ DOMAIN heap = 1 .. Len(heap)
      /\ \A y \in S : heap[y] \in Entry /\ y \in DOMAIN heap
      /\ \A i \in 1 .. n : from[i] \in S /\ new[i] = heap[from[i]]
      /\ \A i, j \in 1 .. n : from[i] = from[j] => i = j
      /\ \A y \in S : \E i \in 1 .. n : from[i] = y
      /\ DOMAIN new = 1 .. n /\ new = [i \in 1 .. n |-> new[i]]
    BY ElementOfSeq DEF OneToOne, Moved
<1> HIDE DEF new
<1>2. \A i \in 1 .. n : new[i] \in Entry
    BY <1>1
<1>3. new \in Seq(Entry) /\ Len(new) = n
    <2>1. new \in [1 .. n -> Entry]
        BY <1>1, <1>2
    <2> QED BY <1>1, <2>1, SeqDef, LenProperties
<1>4. In(new) = {heap[y] : y \in S}
    <2>1. ASSUME NEW x \in In(new) PROVE x \in {heap[y] : y \in S}
        <3>1. PICK i \in 1 .. n : x = new[i]
            BY <1>1 DEF In
        <3> QED BY <1>1, <3>1
    <2>2. ASSUME NEW y \in S PROVE heap[y] \in In(new)
        <3>1. PICK i \in 1 .. n : from[i] = y
            BY <1>1
        <3>2. new[i] = heap[y]
            BY <1>1, <3>1
        <3> QED BY <1>1, <3>2 DEF In
    <2> QED BY <2>1, <2>2
<1>5. ASSUME Distinct(heap) PROVE Distinct(new)
    <2> SUFFICES ASSUME NEW i \in 1 .. n, NEW j \in 1 .. n, new[i] = new[j] PROVE i = j
        BY <1>1 DEF Distinct
    <2>1. from[i] \in DOMAIN heap /\ from[j] \in DOMAIN heap /\ heap[from[i]] = heap[from[j]]
        BY <1>1
    <2>2. from[i] = from[j]
        BY <1>5, <2>1 DEF Distinct
    <2> QED BY <1>1, <2>2
<1> QED BY <1>3, <1>4, <1>5 DEF Holding, new

\* sift_up of a leaf: the same entries, in the order of a heap.
LEMMA SiftUpOrders ==
    ASSUME NaN \notin Int, NEW heap \in Seq(Entry), NEW n \in 1 .. Len(heap),
           2 * n > Len(heap), OrderedBut(heap, n)
    PROVE  /\ Holding(SiftUp(heap, n), Len(heap), heap, 1 .. Len(heap))
           /\ Ordered(SiftUp(heap, n))
<1> DEFINE len == Len(heap)
           new == SiftUp(heap, n)
           sc(i) == heap[i].score
<1>1. len \in Nat /\ DOMAIN heap = 1 .. len /\ \A i \in 1 .. len : heap[i] \in Entry
    BY ElementOfSeq
<1>2. \A i \in 1 .. len : sc(i) \in Int
    BY <1>1 DEF Entry
<1>3. PICK A : \E stop \in Stops(heap, n, A) :
               /\ Path(A, n)
               /\ \A j \in Stops(heap, n, A) : j <= stop
               /\ SiftUp(heap, n) = Sifted(heap, n, A, stop)
    BY <1>1, SiftUpIs
<1>4. PICK stop \in Stops(heap, n, A) :
               /\ Path(A, n)
               /\ \A j \in Stops(heap, n, A) : j <= stop
               /\ SiftUp(heap, n) = Sifted(heap, n, A, stop)
    BY <1>3
<1>5. /\ stop \in A /\ \A i \in A : i \in 1 .. n /\ i \in 1 .. len
      /\ n \in A
      /\ \A i \in A : i # 1 => i \div 2 \in A /\ i \div 2 < i
      /\ \A i, j \in A : i < j => i <= j \div 2
      /\ \A i \in A : i # n => \E j \in A : j # 1 /\ j \div 2 = i
    <2>1. \A i \in A : i \in 1 .. n
        BY <1>4 DEF Path
    <2>2. \A i \in A : i # 1 => i \div 2 < i
        BY <2>1, Parent
    <2> QED BY <1>1, <1>4, <2>1, <2>2 DEF Path, Stops
<1> DEFINE from == Sources(A, n, stop, len)
<1>6. new = Moved(heap, from, len)
    BY <1>1, <1>4 DEF Sifted, Sources, Source, Moved
<1>7. OneToOne(from, len, 1 .. len)
    <2>1. Path(A, n) /\ stop \in A /\ n \in 1 .. len
        BY <1>4, <1>5
    <2> HIDE DEF len
    <2> QED BY <1>1, <2>1, SourceOneToOne
<1>8. Holding(new, len, heap, 1 .. len)
    <2> HIDE DEF from
    <2> QED BY <1>1, <1>6, <1>7, MovedHolds
\* Where it stops, and the places it passes.
<1>9. stop # 1 => sc(stop \div 2) <= sc(n)
    BY <1>1, <1>2, <1>4, <1>5 DEF Stops, AtMost
<1>10. \A j \in A : j > stop => sc(n) < sc(j \div 2)
    <2> SUFFICES ASSUME NEW j \in A, j > stop PROVE sc(n) < sc(j \div 2)
        OBVIOUS
    <2>1. j # 1 /\ j \div 2 \in 1 .. len /\ n \in 1 .. len
        BY <1>1, <1>5
    <2>2. j \notin Stops(heap, n, A)
        BY <1>4, <1>5
    <2>3. ~ AtMost(heap[n], heap[j \div 2])
        BY <2>1, <2>2 DEF Stops
    <2> HIDE DEF sc
    <2>4. ~ (sc(j \div 2) <= sc(n))
        BY <2>3 DEF AtMost, sc
    <2>5. sc(n) \in Int /\ sc(j \div 2) \in Int
        BY <1>2, <2>1
    <2> QED BY <2>4, <2>5
<1>11. \A i \in 2 .. len : i # n => sc(i \div 2) <= sc(i)
    BY DEF OrderedBut
<1>12. ASSUME NEW i \in 2 .. len PROVE new[i \div 2].score <= new[i].score
    <2> DEFINE p == i \div 2
    <2>1. p \in 1 .. len /\ p < i /\ i \in 1 .. len /\ (i = 2 * p \/ i = 2 * p + 1)
        BY <1>1, Parent
    <2>2. /\ new[i].score = sc(Source(A, n, stop, i))
          /\ new[p].score = sc(Source(A, n, stop, p))
        BY <1>6, <2>1 DEF Moved, Sources
    <2>3. i \in A => p \in A
        BY <1>5
    <2>4. stop \in 1 .. n /\ stop \in Int /\ n \in Int
        BY <1>5
    <2>5. i # n => sc(p) <= sc(i)
        BY <1>11
    <2>6. i = stop => sc(p) <= sc(n)
        BY <1>9
    <2>7. i \in A /\ i > stop => sc(n) < sc(p)
        BY <1>10
    <2>8. p \in A /\ p > stop => sc(p \div 2) <= sc(p) \/ p = n
        <3>1. p \in A /\ p > stop => p \in 2 .. len
            BY <2>1, <2>4
        <3> QED BY <1>11, <3>1
    <2>9. p # n
        BY <1>1, <2>1
    <2>10. stop = p => sc(n) < sc(p)
        <3> SUFFICES ASSUME stop = p PROVE sc(n) < sc(p)
            OBVIOUS
        <3>1. PICK j \in A : j # 1 /\ j \div 2 = p
            BY <1>5, <2>9
        <3>2. j > stop
            BY <1>5, <3>1
        <3> QED BY <1>10, <3>1, <3>2
    <2>11. /\ sc(p) \in Int /\ sc(i) \in Int /\ sc(n) \in Int
           /\ p \in A /\ p > stop => sc(p \div 2) \in Int
        <3>1. p \in A /\ p > stop => p \div 2 \in 1 .. len
            BY <1>5
        <3> QED BY <1>1, <1>2, <2>1, <3>1
    <2> HIDE DEF sc, new, p, len
    <2>12. CASE i = stop
        <3>1. new[i].score = sc(n)
            BY <2>2, <2>12 DEF Source
        <3>2. new[p].score = sc(p)
            BY <2>1, <2>2, <2>12 DEF Source
        <3> QED BY <2>6, <2>12, <3>1, <3>2 DEF p
    <2>13. CASE i \in A /\ i > stop
        <3>1. new[i].score = sc(p)
            BY <2>2, <2>4, <2>13 DEF Source, p
        <3>2. p >= stop
            BY <1>5, <2>13 DEF p
        <3>3. CASE p = stop
            BY <2>2, <2>7, <2>11, <2>13, <3>1, <3>3 DEF Source, p
        <3>4. CASE p > stop
            <4>1. new[p].score = sc(p \div 2)
                BY <2>2, <2>3, <2>4, <2>13, <3>4 DEF Source
            <4> QED BY <2>3, <2>8, <2>9, <2>13, <3>1, <3>4, <4>1 DEF p
        <3>5. p = stop \/ p > stop
            BY <2>1, <2>4, <3>2
        <3> QED BY <3>3, <3>4, <3>5
    <2>14. CASE i \in A /\ i < stop
        <3>1. new[i].score = sc(i) /\ new[p].score = sc(p)
            BY <2>1, <2>2, <2>4, <2>14 DEF Source
        <3>2. i # n
            BY <2>4, <2>14
        <3> QED BY <2>5, <3>1, <3>2 DEF p
    <2>15. CASE i \notin A
        <3>1. new[i].score = sc(i) /\ i # n
            BY <1>5, <2>2, <2>15 DEF Source
        <3>2. sc(p) <= sc(i)
            BY <2>5, <3>1
        <3>3. CASE p = stop
            <4>1. new[p].score = sc(n)
                BY <2>2, <3>3 DEF Source
            <4> QED BY <2>10, <2>11, <3>1, <3>2, <3>3, <4>1 DEF p
        <3>4. CASE p \in A /\ p > stop
            <4>1. new[p].score = sc(p \div 2)
                BY <2>2, <2>4, <3>4 DEF Source
            <4> QED BY <2>8, <2>9, <2>11, <3>1, <3>2, <3>4, <4>1 DEF p
        <3>5. CASE p # stop /\ ~ (p \in A /\ p > stop)
            <4>1. new[p].score = sc(p)
                BY <2>2, <3>5 DEF Source
            <4> QED BY <3>1, <3>2, <4>1 DEF p
        <3> QED BY <3>3, <3>4, <3>5
    <2>16. i = stop \/ i < stop \/ i > stop
        BY <2>1, <2>4
    <2> QED BY <2>12, <2>13, <2>14, <2>15, <2>16
<1>13. Len(new) = len
    BY <1>8 DEF Holding
<1> HIDE DEF new
<1>14. Ordered(new)
    BY <1>12, <1>13 DEF Ordered, OrderedBut
<1> QED BY <1>8, <1>14 DEF new

\* A bounded heap of search: entries that differ, in the order of a heap.
HeapShape(heap) == heap \in Seq(Entry) /\ Distinct(heap) /\ Ordered(heap)

\* BinaryHeap::push adds its entry to the heap.
LEMMA PushKeeps ==
    ASSUME NaN \notin Int, NEW heap, HeapShape(heap), NEW x \in Entry, x \notin In(heap)
    PROVE  /\ HeapShape(Push(heap, x))
           /\ Len(Push(heap, x)) = Len(heap) + 1
           /\ In(Push(heap, x)) = In(heap) \cup {x}
<1> DEFINE n == Len(heap) + 1
           more == Append(heap, x)
           new == SiftUp(more, n)
<1>1. heap \in Seq(Entry) /\ Distinct(heap) /\ Ordered(heap) /\ Len(heap) \in Nat
      /\ DOMAIN heap = 1 .. Len(heap)
    BY DEF HeapShape
<1>2. /\ more \in Seq(Entry) /\ Len(more) = n /\ DOMAIN more = 1 .. n
      /\ \A i \in 1 .. Len(heap) : more[i] = heap[i]
      /\ more[n] = x
    BY <1>1, AppendProperties
<1>3. /\ n \in Nat /\ n >= 1
      /\ \A i \in 1 .. n : i = n \/ i \in 1 .. Len(heap)
      /\ \A i \in 1 .. Len(heap) : i \in 1 .. n
    BY <1>1
<1>4. new = Push(heap, x)
    BY DEF Push
<1> HIDE DEF more
<1>5. In(more) = In(heap) \cup {x}
    <2>1. \A y \in In(more) : y \in In(heap) \cup {x}
        BY <1>1, <1>2, <1>3 DEF In
    <2>2. \A y \in In(heap) : y \in In(more)
        BY <1>1, <1>2, <1>3 DEF In
    <2>3. x \in In(more)
        BY <1>2, <1>3 DEF In
    <2> QED BY <2>1, <2>2, <2>3
<1>6. Distinct(more)
    <2> SUFFICES ASSUME NEW i \in 1 .. n, NEW j \in 1 .. n, more[i] = more[j] PROVE i = j
        BY <1>2 DEF Distinct
    <2>1. \A y \in 1 .. Len(heap) : heap[y] # x
        BY <1>1 DEF In
    <2>2. i = n <=> j = n
        BY <1>2, <1>3, <2>1
    <2>3. i # n => i = j
        BY <1>1, <1>2, <1>3, <2>2 DEF Distinct
    <2> QED BY <2>2, <2>3
<1>7. OrderedBut(more, n)
    <2> SUFFICES ASSUME NEW i \in 2 .. n, i # n PROVE more[i \div 2].score <= more[i].score
        BY <1>2 DEF OrderedBut
    <2>1. i \in 2 .. Len(heap) /\ i \div 2 \in 1 .. Len(heap) /\ i # 0
        BY <1>1, Parent
    <2>2. heap[i \div 2].score <= heap[i].score
        BY <1>1, <2>1 DEF Ordered, OrderedBut
    <2> QED BY <1>2, <2>1, <2>2
<1>8. n \in 1 .. Len(more) /\ 2 * n > Len(more)
    BY <1>2, <1>3
<1> HIDE DEF n
<1>9. Holding(new, n, more, 1 .. n) /\ Ordered(new)
    BY <1>2, <1>7, <1>8, SiftUpOrders
<1>10. {more[y] : y \in 1 .. n} = In(more)
    BY <1>2 DEF In
<1> QED BY <1>4, <1>5, <1>6, <1>9, <1>10 DEF HeapShape, Holding, n

\* The greater child, and the function Pop finds the way to the bottom by.
Child(heap, size, i) ==
    IF 2 * i + 1 <= size /\ AtMost(heap[2 * i], heap[2 * i + 1]) THEN 2 * i + 1 ELSE 2 * i

BelowStep(heap, size, f, i) ==
    IF 2 * i > size THEN {i} ELSE {i} \cup f[Child(heap, size, i)]

\* The greater child is a child.
LEMMA ChildOf ==
    ASSUME NEW heap, NEW size \in Nat, NEW i \in 1 .. size, 2 * i <= size
    PROVE  /\ Child(heap, size, i) \in 1 .. size
           /\ Child(heap, size, i) > i
           /\ Child(heap, size, i) \div 2 = i
<1>1. (2 * i) \div 2 = i /\ (2 * i + 1) \div 2 = i
    OBVIOUS
<1> QED BY <1>1 DEF Child

\* There is such a function.
LEMMA BelowExists ==
    ASSUME NEW heap, NEW size \in Nat
    PROVE  \E f : f = [i \in 1 .. size |-> BelowStep(heap, size, f, i)]
<1> DEFINE dom(m) == size - m + 1 .. size
           on(m, f) == f = [i \in dom(m) |-> BelowStep(heap, size, f, i)]
           good == {m \in 0 .. size : \E f : on(m, f)}
<1>1. 0 \in good
    <2> DEFINE none == [i \in {} |-> {}]
    <2>1. dom(0) = {}
        OBVIOUS
    <2>2. none = [i \in {} |-> BelowStep(heap, size, none, i)]
        OBVIOUS
    <2>3. \E f : on(0, f)
        <3> HIDE DEF none, dom
        <3> QED BY <2>1, <2>2, Zenon
    <2>4. 0 \in 0 .. size
        OBVIOUS
    <2> HIDE DEF on
    <2> QED BY <2>3, <2>4
<1>2. ASSUME NEW m \in 0 .. size - 1, m \in good PROVE m + 1 \in good
    <2>1. PICK f : on(m, f)
        BY <1>2
    <2> DEFINE k == size - m
               g == [i \in dom(m + 1) |-> IF i = k THEN BelowStep(heap, size, f, k) ELSE f[i]]
    <2>2. /\ k \in 1 .. size /\ k \in Nat
          /\ \A i \in dom(m + 1) : i = k \/ i \in dom(m)
          /\ \A i \in dom(m) : i # k /\ i \in dom(m + 1)
          /\ \A i \in dom(m + 1) : i \in 1 .. size /\ k <= i
          /\ k \in dom(m + 1)
          /\ \A i \in 1 .. size : k < i => i \in dom(m)
        OBVIOUS
    <2>3. \A i \in dom(m) : g[i] = f[i] /\ f[i] = BelowStep(heap, size, f, i)
        BY <2>1, <2>2
    <2>4. \A i \in dom(m + 1) : 2 * i <= size => Child(heap, size, i) \in dom(m)
        <3> HIDE DEF dom, k, g
        <3> SUFFICES ASSUME NEW i \in dom(m + 1), 2 * i <= size
                     PROVE  Child(heap, size, i) \in dom(m)
            OBVIOUS
        <3>1. i \in 1 .. size /\ k <= i /\ k \in Nat
            BY <2>2
        <3>2. Child(heap, size, i) \in 1 .. size /\ Child(heap, size, i) > i
            BY <3>1, ChildOf
        <3>3. Child(heap, size, i) > k
            BY <3>1, <3>2
        <3> QED BY <2>2, <3>2, <3>3
    <2>5. g[k] = BelowStep(heap, size, f, k) /\ DOMAIN g = dom(m + 1)
          /\ g = [i \in dom(m + 1) |-> g[i]]
        BY <2>2
    <2> HIDE DEF g, k, dom
    <2>6. \A i \in dom(m + 1) : BelowStep(heap, size, g, i) = BelowStep(heap, size, f, i)
        <3> SUFFICES ASSUME NEW i \in dom(m + 1)
                     PROVE  BelowStep(heap, size, g, i) = BelowStep(heap, size, f, i)
            OBVIOUS
        <3>1. i \in 1 .. size
            BY <2>2
        <3>2. 2 * i <= size \/ 2 * i > size
            BY <3>1
        <3>3. 2 * i <= size => g[Child(heap, size, i)] = f[Child(heap, size, i)]
            BY <2>3, <2>4
        <3> QED BY <3>2, <3>3 DEF BelowStep
    <2>7. \A i \in dom(m + 1) : g[i] = BelowStep(heap, size, g, i)
        BY <2>2, <2>3, <2>5, <2>6
    <2>8. on(m + 1, g)
        BY <2>5, <2>7
    <2>9. m + 1 \in 0 .. size
        OBVIOUS
    <2> HIDE DEF on
    <2> QED BY <2>8, <2>9
<1>3. \A m \in 0 .. size : m \in good
    <2> HIDE DEF good
    <2> QED BY <1>1, <1>2, UpTo
<1>4. PICK f : on(size, f)
    <2>1. size \in good
        <3> HIDE DEF good
        <3> QED BY <1>3
    <2> HIDE DEF on
    <2> QED BY <2>1
<1>5. dom(size) = 1 .. size
    OBVIOUS
<1> HIDE DEF dom
<1>6. f = [i \in 1 .. size |-> BelowStep(heap, size, f, i)]
    BY <1>4, <1>5
<1> QED BY <1>6, Zenon

\* The places from i down to the bottom along the greater children.
WayDown(B, heap, size, i) ==
    /\ B \subseteq i .. size /\ i \in B
    /\ \A j \in B : 2 * j <= size => Child(heap, size, j) \in B
    /\ \A j \in B : j # i => /\ j \div 2 \in B
                             /\ 2 * (j \div 2) <= size
                             /\ Child(heap, size, j \div 2) = j
    /\ \A j \in B : 2 * j > size => \A k \in B : k <= j

\* It gives the way from each place to the bottom.
LEMMA BelowIsWayDown ==
    ASSUME NEW heap, NEW size \in Nat,
           NEW f, f = [i \in 1 .. size |-> BelowStep(heap, size, f, i)]
    PROVE  \A i \in 1 .. size : WayDown(f[i], heap, size, i)
<1> DEFINE good == {m \in 0 .. size :
                        \A i \in size - m + 1 .. size : WayDown(f[i], heap, size, i)}
<1>1. 0 \in good
    OBVIOUS
<1>2. ASSUME NEW m \in 0 .. size - 1, m \in good PROVE m + 1 \in good
    <2> DEFINE k == size - m
               c == Child(heap, size, k)
               B == f[k]
               C == f[c]
    <2>1. /\ k \in 1 .. size /\ k \in Nat /\ k >= 1
          /\ \A i \in size - (m + 1) + 1 .. size : i = k \/ i \in size - m + 1 .. size
          /\ \A i \in 1 .. size : k < i => i \in size - m + 1 .. size
          /\ m + 1 \in 0 .. size
        OBVIOUS
    <2>2. B = BelowStep(heap, size, f, k)
        BY <2>1
    <2>3. ASSUME 2 * k > size PROVE WayDown(B, heap, size, k)
        <3>1. B = {k}
            BY <2>2, <2>3 DEF BelowStep
        <3> HIDE DEF B, k
        <3> QED BY <2>1, <2>3, <3>1 DEF WayDown
    <2>4. ASSUME 2 * k <= size PROVE WayDown(B, heap, size, k)
        <3> HIDE DEF k, B, C
        <3>1. c \in 1 .. size /\ c > k /\ c \div 2 = k
            BY <2>1, <2>4, ChildOf
        <3> HIDE DEF c
        <3>2. WayDown(C, heap, size, c)
            <4>1. c \in size - m + 1 .. size
                BY <2>1, <3>1
            <4>2. WayDown(f[c], heap, size, c)
                BY <1>2, <4>1
            <4> QED BY <4>2 DEF C
        <3>3. B = {k} \cup C
            <4>1. ~ (2 * k > size)
                BY <2>1, <2>4
            <4> QED BY <2>2, <4>1 DEF BelowStep, C, c
        <3>4. \A j \in C : j \in c .. size /\ j \in k .. size /\ j > k
            BY <2>1, <3>1, <3>2 DEF WayDown
        <3>5. B \subseteq k .. size /\ k \in B
            BY <2>1, <3>3, <3>4
        <3>6. \A j \in B : 2 * j <= size => Child(heap, size, j) \in B
            BY <3>2, <3>3 DEF WayDown, c
        <3>7. \A j \in B : j # k => /\ j \div 2 \in B
                                    /\ 2 * (j \div 2) <= size
                                    /\ Child(heap, size, j \div 2) = j
            <4> SUFFICES ASSUME NEW j \in B, j # k
                         PROVE  /\ j \div 2 \in B
                                /\ 2 * (j \div 2) <= size
                                /\ Child(heap, size, j \div 2) = j
                OBVIOUS
            <4>1. CASE j = c
                BY <2>4, <3>1, <3>3, <4>1 DEF c
            <4>2. CASE j # c
                BY <3>2, <3>3, <4>2 DEF WayDown
            <4> QED BY <4>1, <4>2
        <3>8. \A j \in B : 2 * j > size => \A i \in B : i <= j
            <4>1. ASSUME NEW j \in C, 2 * j > size, NEW i \in B PROVE i <= j
                <5>1. i \in C => i <= j
                    BY <3>2, <4>1 DEF WayDown
                <5>2. i = k => i <= j
                    BY <2>1, <3>4
                <5> QED BY <3>3, <5>1, <5>2
            <4> QED BY <2>1, <2>4, <3>3, <4>1
        <3> QED BY <3>5, <3>6, <3>7, <3>8 DEF WayDown
    <2>5. WayDown(B, heap, size, k)
        BY <2>1, <2>3, <2>4
    <2> QED BY <1>2, <2>1, <2>5
<1>3. \A m \in 0 .. size : m \in good
    <2> HIDE DEF good
    <2> QED BY <1>1, <1>2, UpTo
<1>4. size \in good
    <2> HIDE DEF good
    <2> QED BY <1>3
<1>5. size - size + 1 = 1
    OBVIOUS
<1> QED BY <1>4, <1>5

\* The heap before the sift-up of Pop: the last entry at the bottom of the way B
\* down, and the entries on the way one place further up.
Sunk(heap, size, B, bottom) ==
    [i \in 1 .. size |->
        IF i = bottom THEN heap[size + 1]
        ELSE IF i \in B THEN heap[Child(heap, size, i)]
        ELSE heap[i]]

\* Where its entries come from.
Below(heap, size, B, bottom) ==
    [i \in 1 .. size |->
        IF i = bottom THEN size + 1
        ELSE IF i \in B THEN Child(heap, size, i)
        ELSE i]

\* pop moves the last entry to the bottom of the way down from the root, and up.
LEMMA PopIs ==
    ASSUME NEW heap \in Seq(Entry), Len(heap) > 1
    PROVE  \E B : \E bottom \in B :
               /\ WayDown(B, heap, Len(heap) - 1, 1)
               /\ \A j \in B : j <= bottom
               /\ Pop(heap) = SiftUp(Sunk(heap, Len(heap) - 1, B, bottom), bottom)
<1> DEFINE size == Len(heap) - 1
<1>1. size \in Nat /\ size # 0 /\ 1 \in 1 .. size
    <2> DEFINE len == Len(heap)
    <2>1. len \in Nat /\ len > 1
        OBVIOUS
    <2> HIDE DEF len
    <2>2. len - 1 \in Nat /\ len - 1 # 0 /\ 1 \in 1 .. len - 1
        BY <2>1
    <2> QED BY <2>2 DEF len
<1> DEFINE below == CHOOSE f : f = [i \in 1 .. size |-> BelowStep(heap, size, f, i)]
           B == below[1]
           bottom == CHOOSE i \in B : \A j \in B : j <= i
<1>2. below = [i \in 1 .. size |-> BelowStep(heap, size, below, i)]
    <2>1. \E f : f = [i \in 1 .. size |-> BelowStep(heap, size, f, i)]
        BY <1>1, BelowExists
    <2> HIDE DEF size
    <2> QED BY <2>1, Zenon
<1>3. Pop(heap) = SiftUp(Sunk(heap, size, B, bottom), bottom)
    BY <1>1 DEF Pop, BelowStep, Child, Sunk
<1> HIDE DEF below, size
<1>4. WayDown(B, heap, size, 1)
    BY <1>1, <1>2, BelowIsWayDown
<1> HIDE DEF B
<1>5. B \subseteq 1 .. size /\ B # {}
    BY <1>4 DEF WayDown
<1>6. bottom \in B /\ \A j \in B : j <= bottom
    BY <1>1, <1>5, LastOf
<1> HIDE DEF bottom
<1> QED BY <1>3, <1>4, <1>6 DEF size

\* The entries on that way but the root stay, each in one place.
LEMMA BelowOneToOne ==
    ASSUME NEW heap, NEW size \in Nat, NEW B, WayDown(B, heap, size, 1),
           NEW bottom \in B, \A j \in B : j <= bottom
    PROVE  /\ OneToOne(Below(heap, size, B, bottom), size, 2 .. size + 1)
           /\ 2 * bottom > size
           /\ \A j \in B : j # bottom => 2 * j <= size
<1> DEFINE from == Below(heap, size, B, bottom)
           child(j) == Child(heap, size, j)
<1>1. /\ 1 \in B /\ \A j \in B : j \in 1 .. size /\ j \in Nat
      /\ \A j \in B : j # 1 => /\ j \div 2 \in B
                               /\ 2 * (j \div 2) <= size
                               /\ child(j \div 2) = j
      /\ \A j \in B : 2 * j <= size => child(j) \in B
      /\ \A j \in B : 2 * j > size => \A k \in B : k <= j
    BY DEF WayDown
<1>2. \A j \in B : 2 * j <= size => child(j) \in 1 .. size /\ child(j) > j /\ child(j) \div 2 = j
    BY <1>1, ChildOf
<1>3. 2 * bottom > size
    <2>1. 2 * bottom <= size => child(bottom) \in B /\ child(bottom) > bottom
        BY <1>1, <1>2
    <2>2. 2 * bottom <= size => child(bottom) <= bottom /\ child(bottom) \in Nat
        BY <1>1, <2>1
    <2>3. bottom \in Nat
        BY <1>1
    <2> HIDE DEF child
    <2> QED BY <2>1, <2>2, <2>3
<1>4. ASSUME NEW j \in B, j # bottom PROVE 2 * j <= size
    <2>1. j <= bottom /\ j \in Nat /\ bottom \in Nat
        BY <1>1
    <2>2. 2 * j > size => bottom <= j
        BY <1>1
    <2> QED BY <1>4, <2>1, <2>2
<1>5. \A i \in 1 .. size : from[i] = IF i = bottom THEN size + 1
                                    ELSE IF i \in B THEN child(i) ELSE i
    BY DEF Below
<1> HIDE DEF from, child
<1>6. \A i \in 1 .. size : from[i] \in 2 .. size + 1
    <2> SUFFICES ASSUME NEW i \in 1 .. size PROVE from[i] \in 2 .. size + 1
        OBVIOUS
    <2>1. i \in B /\ i # bottom => child(i) \in 1 .. size /\ child(i) > i
        BY <1>2, <1>4
    <2>2. i \notin B => i # 1
        BY <1>1
    <2> QED BY <1>5, <2>1, <2>2
<1>7. \A i, j \in 1 .. size : from[i] = from[j] => i = j
    <2> SUFFICES ASSUME NEW i \in 1 .. size, NEW j \in 1 .. size, from[i] = from[j]
                 PROVE  i = j
        OBVIOUS
    <2>1. \A x \in 1 .. size : x # bottom => from[x] \in 1 .. size
        BY <1>2, <1>4, <1>5
    <2>2. i = bottom <=> j = bottom
        BY <1>5, <2>1
    <2>3. \A x \in 1 .. size : x # bottom =>
              IF x \in B THEN from[x] \in B /\ from[x] \div 2 = x ELSE from[x] = x
        BY <1>1, <1>2, <1>4, <1>5
    <2> QED BY <2>2, <2>3
<1>8. \A y \in 2 .. size + 1 : \E i \in 1 .. size : from[i] = y
    <2> SUFFICES ASSUME NEW y \in 2 .. size + 1 PROVE \E i \in 1 .. size : from[i] = y
        OBVIOUS
    <2>1. CASE y = size + 1
        BY <1>1, <1>5, <2>1
    <2>2. CASE y \in 2 .. size /\ y \in B
        <3> DEFINE h == y \div 2
        <3>1. h \in B /\ 2 * h <= size /\ child(h) = y /\ h \in 1 .. size
            BY <1>1, <2>2
        <3> HIDE DEF h
        <3>2. h # bottom
            BY <1>3, <3>1
        <3> QED BY <1>5, <3>1, <3>2
    <2>3. CASE y \in 2 .. size /\ y \notin B
        BY <1>5, <2>3
    <2> QED BY <2>1, <2>2, <2>3
<1> QED BY <1>3, <1>4, <1>6, <1>7, <1>8 DEF OneToOne, from

\* BinaryHeap::pop takes the root and leaves the others.
LEMMA PopTakesRoot ==
    ASSUME NaN \notin Int, NEW heap, HeapShape(heap), Len(heap) > 0
    PROVE  /\ HeapShape(Pop(heap))
           /\ Len(Pop(heap)) = Len(heap) - 1
           /\ In(Pop(heap)) = In(heap) \ {heap[1]}
<1> DEFINE size == Len(heap) - 1
<1>1. /\ heap \in Seq(Entry) /\ Distinct(heap) /\ Ordered(heap) /\ Len(heap) \in Nat
      /\ DOMAIN heap = 1 .. size + 1 /\ size \in Nat
      /\ \A i \in 1 .. size + 1 : heap[i] \in Entry
    <2>1. heap \in Seq(Entry)
        BY DEF HeapShape
    <2> QED BY <2>1, ElementOfSeq DEF HeapShape
<1>2. CASE size = 0
    <2>1. Pop(heap) = <<>>
        BY <1>2 DEF Pop
    <2>2. In(<<>>) = {} /\ HeapShape(<<>>) /\ Len(<<>>) = 0
        BY DEF In, HeapShape, Distinct, Ordered, OrderedBut
    <2>3. DOMAIN heap = {1}
        <3> HIDE DEF size
        <3>1. DOMAIN heap = 1 .. 1
            BY <1>1, <1>2
        <3> QED BY <3>1
    <2>4. In(heap) = {heap[1]}
        BY <2>3 DEF In
    <2> QED BY <1>2, <2>1, <2>2, <2>4
<1>3. CASE size # 0
    <2>1. Len(heap) > 1
        BY <1>1, <1>3
    <2>2. PICK B : \E bottom \in B :
               /\ WayDown(B, heap, size, 1)
               /\ \A j \in B : j <= bottom
               /\ Pop(heap) = SiftUp(Sunk(heap, size, B, bottom), bottom)
        BY <1>1, <2>1, PopIs
    <2>3. PICK bottom \in B :
               /\ WayDown(B, heap, size, 1)
               /\ \A j \in B : j <= bottom
               /\ Pop(heap) = SiftUp(Sunk(heap, size, B, bottom), bottom)
        BY <2>2
    <2> DEFINE from == Below(heap, size, B, bottom)
               sunk == Sunk(heap, size, B, bottom)
               S == 2 .. size + 1
               sc(i) == heap[i].score
    <2> HIDE DEF size
    <2>4. /\ OneToOne(from, size, S)
          /\ 2 * bottom > size
          /\ \A j \in B : j # bottom => 2 * j <= size
        BY <1>1, <2>3, BelowOneToOne
    <2>5. sunk = Moved(heap, from, size)
        BY DEF Sunk, Below, Moved
    <2>6. S \subseteq 1 .. Len(heap)
        BY <1>1 DEF size
    <2>7. Holding(sunk, size, heap, S)
        <3> HIDE DEF from, sunk, S
        <3> QED BY <1>1, <2>4, <2>5, <2>6, MovedHolds
    <2>8. sunk \in Seq(Entry) /\ Len(sunk) = size /\ Distinct(sunk)
          /\ In(sunk) = {heap[y] : y \in S}
        BY <1>1, <2>7 DEF Holding
    <2>9. In(sunk) = In(heap) \ {heap[1]}
        <3>1. \A y \in S : heap[y] \in In(heap) /\ heap[y] # heap[1]
            BY <1>1 DEF In, Distinct
        <3>2. \A x \in In(heap) \ {heap[1]} : \E y \in S : x = heap[y]
            <4> SUFFICES ASSUME NEW x \in In(heap) \ {heap[1]}
                         PROVE  \E y \in S : x = heap[y]
                OBVIOUS
            <4>1. PICK y \in 1 .. size + 1 : x = heap[y]
                BY <1>1 DEF In
            <4>2. y # 1
                BY <4>1
            <4>3. y \in S
                BY <1>1, <4>2
            <4> QED BY <4>1, <4>3
        <3> HIDE DEF S
        <3> QED BY <2>8, <3>1, <3>2
    <2>10. /\ bottom \in 1 .. size /\ \A j \in B : j \in 1 .. size
           /\ \A j \in B : j # 1 => /\ j \div 2 \in B
                                    /\ Child(heap, size, j \div 2) = j
        BY <2>3 DEF WayDown
    <2>11. OrderedBut(sunk, bottom)
        <3> SUFFICES ASSUME NEW i \in 2 .. size, i # bottom
                     PROVE  sunk[i \div 2].score <= sunk[i].score
            BY <2>8 DEF OrderedBut
        <3> DEFINE p == i \div 2
                   c == Child(heap, size, i)
        <3>1. p \in 1 .. size /\ p < i /\ i \in 1 .. size /\ (i = 2 * p \/ i = 2 * p + 1)
            BY <1>1, Parent
        <3>2. p # bottom
            BY <1>1, <2>4, <3>1
        <3>3. \A j \in 2 .. size + 1 : sc(j \div 2) <= sc(j)
            <4>1. \A j \in 2 .. size + 1 : j \in 2 .. Len(heap) /\ j # 0
                BY <1>1 DEF size
            <4> QED BY <1>1, <4>1 DEF Ordered, OrderedBut
        <3>4. \A j \in 1 .. size + 1 : sc(j) \in Int
            BY <1>1 DEF Entry
        <3>5. /\ i \in B => sunk[i] = heap[c]
              /\ i \notin B => sunk[i] = heap[i]
              /\ p \in B => sunk[p] = heap[Child(heap, size, p)]
              /\ p \notin B => sunk[p] = heap[p]
            BY <3>1, <3>2 DEF Sunk
        <3> HIDE DEF sunk, p, from, S
        <3>6. CASE i \in B
            <4>1. p \in B /\ Child(heap, size, p) = i
                BY <2>10, <3>1, <3>6 DEF p
            <4>2. c \in 1 .. size /\ c > i /\ c \div 2 = i
                BY <1>1, <2>4, <3>1, <3>6, ChildOf
            <4> HIDE DEF c
            <4>3. sc(i) <= sc(c)
                <5>1. c \in 2 .. size + 1
                    BY <1>1, <3>1, <4>2
                <5> QED BY <3>3, <4>2, <5>1
            <4> QED BY <3>5, <3>6, <4>1, <4>3 DEF p
        <3>7. CASE i \notin B /\ p \in B
            <4> DEFINE d == Child(heap, size, p)
            <4>1. 2 * p <= size
                BY <2>4, <3>2, <3>7
            <4>2. d \in B
                BY <2>3, <3>7, <4>1 DEF WayDown
            <4>3. d # i
                BY <3>7, <4>2
            <4>4. sc(d) <= sc(i)
                <5>1. d = IF 2 * p + 1 <= size /\ sc(2 * p + 1) <= sc(2 * p)
                          THEN 2 * p + 1 ELSE 2 * p
                    <6>1. 2 * p + 1 <= size => sc(2 * p + 1) \in Int /\ sc(2 * p) \in Int
                        BY <1>1, <3>1, <3>4
                    <6>2. 2 * p + 1 <= size =>
                              (AtMost(heap[2 * p], heap[2 * p + 1])
                                  <=> sc(2 * p + 1) <= sc(2 * p))
                        BY <6>1 DEF AtMost
                    <6> HIDE DEF sc
                    <6> QED BY <6>2 DEF Child
                <5> HIDE DEF d
                <5>2. CASE i = 2 * p
                    <6>1. d = 2 * p + 1 /\ sc(2 * p + 1) <= sc(2 * p)
                        BY <4>3, <5>1, <5>2
                    <6> QED BY <5>2, <6>1
                <5>3. CASE i = 2 * p + 1
                    <6>1. d = 2 * p /\ 2 * p + 1 <= size /\ ~ (sc(2 * p + 1) <= sc(2 * p))
                        BY <3>1, <4>3, <5>1, <5>3
                    <6>2. 2 * p \in 1 .. size + 1 /\ 2 * p + 1 \in 1 .. size + 1
                        BY <1>1, <3>1, <6>1
                    <6>3. sc(2 * p) \in Int /\ sc(2 * p + 1) \in Int
                        BY <3>4, <6>2
                    <6> HIDE DEF sc
                    <6>4. sc(2 * p) <= sc(2 * p + 1)
                        BY <6>1, <6>3
                    <6> QED BY <5>3, <6>1, <6>4
                <5> QED BY <3>1, <5>2, <5>3
            <4> QED BY <3>5, <3>7, <4>4 DEF p
        <3>8. CASE i \notin B /\ p \notin B
            <4>1. sc(p) <= sc(i)
                BY <1>1, <3>1, <3>3 DEF p
            <4> QED BY <3>5, <3>8, <4>1 DEF p
        <3> QED BY <3>6, <3>7, <3>8
    <2>12. Holding(SiftUp(sunk, bottom), size, sunk, 1 .. size) /\ Ordered(SiftUp(sunk, bottom))
        <3> HIDE DEF sunk
        <3> QED BY <2>4, <2>8, <2>10, <2>11, SiftUpOrders
    <2>13. {sunk[y] : y \in 1 .. size} = In(sunk)
        BY <2>8 DEF In
    <2> DEFINE new == SiftUp(sunk, bottom)
    <2>14. Pop(heap) = new
        BY <2>3
    <2> HIDE DEF sunk, new
    <2> QED BY <2>8, <2>9, <2>12, <2>13, <2>14 DEF HeapShape, Holding, size, new
<1> QED BY <1>2, <1>3

---------------------------------------------------------------------------
(* The scan *)

\* No entry of a heap is worse than its root.
LEMMA RootIsLeast ==
    ASSUME NEW heap \in Seq(Entry), Ordered(heap)
    PROVE  \A i \in 1 .. Len(heap) : heap[1].score <= heap[i].score
<1> DEFINE n == Len(heap)
           sc(i) == heap[i].score
           good == {m \in 0 .. n : \A i \in 1 .. m : sc(1) <= sc(i)}
<1>1. n \in Nat /\ \A i \in 1 .. n : sc(i) \in Int
    <2>1. \A i \in 1 .. n : heap[i] \in Entry
        BY ElementOfSeq
    <2> QED BY <2>1 DEF Entry
<1>2. \A i \in 2 .. n : sc(i \div 2) <= sc(i)
    <2>1. \A i \in 2 .. n : i # 0
        OBVIOUS
    <2> QED BY <2>1 DEF Ordered, OrderedBut
<1> HIDE DEF sc, n
<1>3. 0 \in good
    BY <1>1
<1>4. ASSUME NEW m \in 0 .. n - 1, m \in good PROVE m + 1 \in good
    <2> DEFINE k == m + 1
    <2>1. k \in 1 .. n /\ k \in 0 .. n /\ \A i \in 1 .. k : i = k \/ i \in 1 .. m
        BY <1>1
    <2>2. sc(1) <= sc(k)
        <3>1. CASE k = 1
            BY <1>1, <2>1, <3>1
        <3>2. CASE k # 1
            <4>1. k \in 2 .. n /\ k \div 2 \in 1 .. m /\ k \div 2 \in 1 .. n /\ 1 \in 1 .. n
                BY <1>1, <2>1, <3>2, Parent
            <4> HIDE DEF k
            <4>2. sc(k \div 2) <= sc(k) /\ sc(1) <= sc(k \div 2)
                BY <1>2, <1>4, <4>1
            <4> DEFINE p == k \div 2
            <4>3. sc(1) \in Int /\ sc(p) \in Int /\ sc(k) \in Int
                BY <1>1, <2>1, <4>1
            <4> HIDE DEF p
            <4> QED BY <4>2, <4>3 DEF p
        <3> QED BY <3>1, <3>2
    <2> HIDE DEF k
    <2>3. k \in good
        BY <1>4, <2>1, <2>2
    <2> QED BY <2>3 DEF k
<1>5. \A m \in 0 .. n : m \in good
    <2> HIDE DEF good
    <2> QED BY <1>1, <1>3, <1>4, UpTo
<1>6. n \in good
    <2> HIDE DEF good
    <2> QED BY <1>1, <1>5
<1> QED BY <1>6 DEF n, sc

\* The heap of the scan.
OfferStep(cand, k, heap, i) ==
    IF i = 0 THEN <<>> ELSE Offer(heap[i - 1], cand[i], k)

\* There is such a function.
LEMMA ScanExists ==
    ASSUME NEW n \in Nat, NEW cand, NEW k
    PROVE  \E heap : heap = [i \in 0 .. n |-> OfferStep(cand, k, heap, i)]
<1> DEFINE on(m, f) == f = [i \in 0 .. m |-> OfferStep(cand, k, f, i)]
           good == {m \in 0 .. n : \E f : on(m, f)}
<1>1. 0 \in good
    <2> DEFINE one == [i \in 0 .. 0 |-> <<>>]
    <2>1. on(0, one)
        BY DEF OfferStep
    <2>2. 0 \in 0 .. n
        OBVIOUS
    <2> HIDE DEF one, on
    <2> QED BY <2>1, <2>2
<1>2. ASSUME NEW m \in 0 .. n - 1, m \in good PROVE m + 1 \in good
    <2>1. PICK f : on(m, f)
        BY <1>2
    <2> DEFINE g == [i \in 0 .. m + 1 |->
                        IF i = m + 1 THEN OfferStep(cand, k, f, m + 1) ELSE f[i]]
    <2>2. \A i \in 0 .. m : g[i] = f[i] /\ f[i] = OfferStep(cand, k, f, i)
        <3>1. \A i \in 0 .. m : g[i] = f[i]
            OBVIOUS
        <3> HIDE DEF g
        <3>2. \A i \in 0 .. m : f[i] = OfferStep(cand, k, f, i)
            BY <2>1
        <3> QED BY <3>1, <3>2
    <2>3. /\ \A i \in 0 .. m + 1 : i # 0 => i - 1 \in 0 .. m
          /\ \A i \in 0 .. m + 1 : i # m + 1 => i \in 0 .. m
          /\ g = [i \in 0 .. m + 1 |-> g[i]]
          /\ g[m + 1] = OfferStep(cand, k, f, m + 1)
        OBVIOUS
    <2> HIDE DEF g
    <2>4. \A i \in 0 .. m + 1 : OfferStep(cand, k, g, i) = OfferStep(cand, k, f, i)
        BY <2>2, <2>3 DEF OfferStep
    <2>5. \A i \in 0 .. m + 1 : g[i] = OfferStep(cand, k, g, i)
        BY <2>2, <2>3, <2>4
    <2>6. on(m + 1, g)
        BY <2>3, <2>5
    <2>7. m + 1 \in 0 .. n
        OBVIOUS
    <2> HIDE DEF on
    <2> QED BY <2>6, <2>7
<1>3. \A m \in 0 .. n : m \in good
    <2> HIDE DEF good
    <2> QED BY <1>1, <1>2, UpTo
<1>4. PICK f : on(n, f)
    <2>1. n \in good
        <3> HIDE DEF good
        <3> QED BY <1>3
    <2> HIDE DEF on
    <2> QED BY <2>1
<1> QED BY <1>4, Zenon

\* The first m candidates, none of which is another.
Candidates(cand, n) ==
    /\ cand \in [1 .. n -> Entry]
    /\ \A i, j \in 1 .. n : cand[i] = cand[j] => i = j

\* heap has as many of the first m candidates as there is room for, and none
\* that it has not is better than one it has.
HasBest(heap, cand, k, m) ==
    /\ HeapShape(heap) /\ Len(heap) = Least(m, k)
    /\ \A x \in In(heap) : \E j \in 1 .. m : cand[j] = x
    /\ \A j \in 1 .. m : cand[j] \notin In(heap) =>
          Len(heap) = k /\ \A x \in In(heap) : cand[j].score <= x.score

\* One candidate of the scan: it takes a free place, or that of the worst entry if
\* it beats it.
LEMMA OfferKeepsBest ==
    ASSUME NaN \notin Int, NEW n \in Nat, NEW cand, Candidates(cand, n),
           NEW k \in Nat, k > 0, NEW m \in 1 .. n, NEW heap, HasBest(heap, cand, k, m - 1)
    PROVE  HasBest(Offer(heap, cand[m], k), cand, k, m)
<1> DEFINE x == cand[m]
           len == Len(heap)
           new == Offer(heap, x, k)
<1>1. /\ HeapShape(heap) /\ len = Least(m - 1, k)
      /\ \A y \in In(heap) : \E j \in 1 .. m - 1 : cand[j] = y
      /\ \A j \in 1 .. m - 1 : cand[j] \notin In(heap) =>
            len = k /\ \A y \in In(heap) : cand[j].score <= y.score
    BY DEF HasBest
<1>2. /\ \A j \in 1 .. m : cand[j] \in Entry /\ j \in 1 .. n
      /\ \A j \in 1 .. m : j = m \/ j \in 1 .. m - 1
      /\ \A j \in 1 .. m - 1 : j # m /\ j \in 1 .. m
      /\ m \in 1 .. m /\ m \in Nat
      /\ x \in Entry
    BY DEF Candidates
<1>3. x \notin In(heap)
    <2>1. \A j \in 1 .. m - 1 : cand[j] # x
        BY <1>2 DEF Candidates
    <2> QED BY <1>1, <2>1
<1>4. /\ heap \in Seq(Entry) /\ Ordered(heap) /\ Distinct(heap)
      /\ len \in Nat /\ DOMAIN heap = 1 .. len
      /\ \A y \in In(heap) : y \in Entry
    <2>1. heap \in Seq(Entry)
        BY <1>1 DEF HeapShape
    <2>2. \A i \in DOMAIN heap : heap[i] \in Entry
        BY <2>1, ElementOfSeq
    <2> QED BY <1>1, <2>1, <2>2 DEF HeapShape, In
<1>5. \A j \in 1 .. m : cand[j].score \in Int
    BY <1>2 DEF Entry
<1>6. \A y \in In(heap) : y.score \in Int
    BY <1>4 DEF Entry
<1> HIDE DEF x, new, len
<1>7. CASE len < k
    <2>1. new = Push(heap, x)
        BY <1>7 DEF Offer, new, len
    <2>2. HeapShape(new) /\ Len(new) = len + 1 /\ In(new) = In(heap) \cup {x}
        BY <1>1, <1>2, <1>3, <2>1, PushKeeps DEF len
    <2>3. Len(new) = Least(m, k)
        BY <1>1, <1>2, <1>7, <2>2 DEF Least
    <2>4. \A y \in In(new) : \E j \in 1 .. m : cand[j] = y
        BY <1>1, <1>2, <2>2 DEF x
    <2>5. \A j \in 1 .. m : cand[j] \in In(new)
        <3>1. len # k
            BY <1>4, <1>7
        <3> QED BY <1>1, <1>2, <2>2, <3>1 DEF x
    <2> QED BY <2>2, <2>3, <2>4, <2>5 DEF HasBest, new, x
<1>8. CASE ~ (len < k)
    <2>1. len = k /\ Least(m, k) = k /\ len > 0 /\ 1 \in DOMAIN heap
        BY <1>1, <1>2, <1>4, <1>8 DEF Least
    <2> DEFINE root == heap[1]
    <2>2. root \in In(heap) /\ \A y \in In(heap) : root.score <= y.score
        <3>1. \A i \in 1 .. len : heap[1].score <= heap[i].score
            BY <1>4, RootIsLeast DEF len
        <3> QED BY <1>4, <2>1, <3>1 DEF In
    <2>3. root.score \in Int /\ x.score \in Int
        BY <1>2, <1>5, <1>6, <2>2 DEF x
    <2>4. Beats(x, root) <=> x.score > root.score
        BY <2>3 DEF Beats
    <2>5. CASE Beats(x, root)
        <3> DEFINE popped == Pop(heap)
        <3>1. new = Push(popped, x)
            BY <1>8, <2>5 DEF Offer, new, len
        <3>2. /\ HeapShape(popped) /\ Len(popped) = len - 1
              /\ In(popped) = In(heap) \ {root}
            BY <1>1, <2>1, PopTakesRoot DEF len
        <3> HIDE DEF popped
        <3>3. /\ HeapShape(new) /\ Len(new) = Len(popped) + 1
              /\ In(new) = In(popped) \cup {x}
            BY <1>2, <1>3, <3>1, <3>2, PushKeeps
        <3>4. Len(new) = k
            BY <1>4, <2>1, <3>2, <3>3
        <3>5. In(new) = (In(heap) \ {root}) \cup {x}
            BY <3>2, <3>3
        <3>6. \A y \in In(new) : \E j \in 1 .. m : cand[j] = y
            BY <1>1, <1>2, <3>5 DEF x
        <3>7. ASSUME NEW j \in 1 .. m, cand[j] \notin In(new), NEW y \in In(new)
              PROVE  cand[j].score <= y.score
            <4> DEFINE c == cand[j].score
            <4>1. j \in 1 .. m - 1
                BY <1>2, <3>5, <3>7 DEF x
            <4>2. cand[j] = root \/ cand[j] \notin In(heap)
                BY <3>5, <3>7
            <4>3. \A z \in In(heap) : c <= z.score
                BY <1>1, <2>2, <4>1, <4>2
            <4>4. c <= root.score /\ c \in Int
                BY <1>5, <2>2, <4>3
            <4> HIDE DEF c, root
            <4>5. c <= x.score
                BY <2>3, <2>4, <2>5, <4>4
            <4>6. y \in In(heap) \/ y = x
                BY <3>5, <3>7
            <4> QED BY <4>3, <4>5, <4>6 DEF c
        <3> HIDE DEF root
        <3> QED BY <2>1, <3>3, <3>4, <3>6, <3>7 DEF HasBest, new, x
    <2>6. CASE ~ Beats(x, root)
        <3>1. new = heap
            BY <1>8, <2>6 DEF Offer, new, len
        <3>2. ASSUME NEW j \in 1 .. m, cand[j] \notin In(heap), NEW y \in In(heap)
              PROVE  cand[j].score <= y.score
            <4>1. CASE j = m
                <5>1. x.score <= root.score /\ root.score <= y.score /\ y.score \in Int
                    BY <1>6, <2>2, <2>3, <2>4, <2>6
                <5> HIDE DEF root
                <5>2. x.score <= y.score
                    BY <2>3, <5>1
                <5> QED BY <4>1, <5>2 DEF x
            <4>2. CASE j # m
                BY <1>1, <1>2, <3>2, <4>2
            <4> QED BY <4>1, <4>2
        <3>3. \A y \in In(heap) : \E j \in 1 .. m : cand[j] = y
            BY <1>1, <1>2
        <3> HIDE DEF root
        <3> QED BY <1>1, <2>1, <3>1, <3>2, <3>3 DEF HasBest, new, x, len
    <2> QED BY <2>5, <2>6
<1> QED BY <1>7, <1>8

\* After the scan the heap has the best k candidates.
LEMMA ScanKeepsBest ==
    ASSUME NaN \notin Int, NEW n \in Nat, NEW cand, Candidates(cand, n),
           NEW k \in Nat, k > 0,
           NEW heap, heap = [i \in 0 .. n |-> OfferStep(cand, k, heap, i)]
    PROVE  HasBest(heap[n], cand, k, n)
<1> DEFINE good == {m \in 0 .. n : HasBest(heap[m], cand, k, m)}
<1>1. 0 \in good
    <2>1. heap[0] = <<>>
        BY DEF OfferStep
    <2>2. In(<<>>) = {} /\ HeapShape(<<>>) /\ Len(<<>>) = 0
        BY DEF In, HeapShape, Distinct, Ordered, OrderedBut
    <2>3. Least(0, k) = 0
        BY DEF Least
    <2>4. HasBest(<<>>, cand, k, 0)
        BY <2>2, <2>3 DEF HasBest
    <2> QED BY <2>1, <2>4
<1>2. ASSUME NEW m \in 0 .. n - 1, m \in good PROVE m + 1 \in good
    <2> DEFINE i == m + 1
    <2>1. i \in 1 .. n /\ i \in 0 .. n /\ i # 0 /\ i - 1 = m
        OBVIOUS
    <2> HIDE DEF i
    <2>2. heap[i] = Offer(heap[m], cand[i], k)
        BY <2>1 DEF OfferStep
    <2>3. HasBest(heap[m], cand, k, i - 1)
        BY <1>2, <2>1
    <2>4. HasBest(heap[i], cand, k, i)
        BY <2>1, <2>2, <2>3, OfferKeepsBest
    <2> QED BY <2>1, <2>4 DEF i
<1>3. \A m \in 0 .. n : m \in good
    <2> HIDE DEF good
    <2> QED BY <1>1, <1>2, UpTo
<1>4. n \in good
    <2> HIDE DEF good
    <2> QED BY <1>3
<1> QED BY <1>4

---------------------------------------------------------------------------
(* The sort *)

\* The entries SortByScore puts before that of j, itself included.
First(s, i, j) == s[i].score > s[j].score \/ (s[i].score = s[j].score /\ i <= j)
Before(s, j) == {i \in DOMAIN s : First(s, i, j)}

\* The place of each entry, and the entry of each place.
Places(s) == [j \in DOMAIN s |-> Cardinality(Before(s, j))]
EntryAt(s) == [n \in DOMAIN s |-> CHOOSE j \in DOMAIN s : Cardinality(Before(s, j)) = n]

\* The places of the entries are 1 to their number, in the order of the sort.
LEMMA PlacesOneToOne ==
    ASSUME NEW s \in Seq(Entry)
    PROVE  /\ \A i, j \in DOMAIN s : First(s, i, j) /\ i # j => Places(s)[i] < Places(s)[j]
           /\ \A i, j \in DOMAIN s : First(s, i, j) \/ First(s, j, i)
           /\ \A i, j \in DOMAIN s : Places(s)[i] = Places(s)[j] => i = j
           /\ \A n \in DOMAIN s : \E j \in DOMAIN s : Places(s)[j] = n
           /\ \A j \in DOMAIN s : Places(s)[j] \in DOMAIN s
<1> DEFINE D == DOMAIN s
           p == Places(s)
           len == Len(s)
           sc(i) == s[i].score
<1>1. D = 1 .. len /\ len \in Nat /\ \A i \in D : sc(i) \in Int
    <2>1. \A i \in D : s[i] \in Entry
        BY ElementOfSeq
    <2> QED BY <2>1 DEF Entry
<1>2. \A i \in D : i \in Nat
    BY <1>1
<1>3. \A i, j \in D : First(s, i, j) <=> (sc(i) > sc(j) \/ (sc(i) = sc(j) /\ i <= j))
    BY DEF First
<1>4. IsFiniteSet(D) /\ Cardinality(D) = len
    <2>1. 1 \in Int /\ len \in Int
        BY <1>1
    <2>2. IsFiniteSet(1 .. len) /\ Cardinality(1 .. len) = IF 1 > len THEN 0 ELSE len - 1 + 1
        BY <2>1, FS_Interval
    <2> HIDE DEF len, D
    <2> QED BY <1>1, <2>2
<1> HIDE DEF D, len, sc
<1>5. \A j \in D : /\ Before(s, j) \subseteq D /\ IsFiniteSet(Before(s, j))
                   /\ p[j] = Cardinality(Before(s, j)) /\ p[j] \in Nat
                   /\ p[j] <= len
    <2> SUFFICES ASSUME NEW j \in D
                 PROVE  /\ Before(s, j) \subseteq D /\ IsFiniteSet(Before(s, j))
                        /\ p[j] = Cardinality(Before(s, j)) /\ p[j] \in Nat
                        /\ p[j] <= len
        OBVIOUS
    <2>1. Before(s, j) \in SUBSET D
        BY DEF Before, D
    <2>2. IsFiniteSet(Before(s, j)) /\ Cardinality(Before(s, j)) <= len
        BY <1>4, <2>1, FS_Subset
    <2>3. p[j] = Cardinality(Before(s, j))
        BY DEF Places, D
    <2> QED BY <2>1, <2>2, <2>3, FS_CardinalityType
<1>6. \A i, j \in D : First(s, i, j) \/ First(s, j, i)
    <2> SUFFICES ASSUME NEW i \in D, NEW j \in D PROVE First(s, i, j) \/ First(s, j, i)
        OBVIOUS
    <2>1. sc(i) \in Int /\ sc(j) \in Int /\ i \in Nat /\ j \in Nat
        BY <1>1, <1>2
    <2> QED BY <1>3, <2>1
<1>7. ASSUME NEW i \in D, NEW j \in D, First(s, i, j), i # j PROVE p[i] < p[j]
    <2>1. ASSUME NEW m \in Before(s, i) PROVE m \in Before(s, j)
        <3>1. m \in D /\ First(s, m, i)
            BY <2>1 DEF Before, D
        <3>2. /\ sc(m) \in Int /\ sc(i) \in Int /\ sc(j) \in Int
              /\ m \in Nat /\ i \in Nat /\ j \in Nat
            BY <1>1, <1>2, <3>1
        <3>3. First(s, m, j)
            BY <1>3, <1>7, <3>1, <3>2
        <3> QED BY <3>1, <3>3 DEF Before, D
    <2>2. j \in Before(s, j) /\ j \notin Before(s, i)
        <3>1. sc(i) \in Int /\ sc(j) \in Int /\ i \in Nat /\ j \in Nat
            BY <1>1, <1>2
        <3>2. First(s, j, j) /\ ~ First(s, j, i)
            BY <1>3, <1>7, <3>1
        <3> QED BY <3>2 DEF Before, D
    <2>3. Before(s, i) \in SUBSET Before(s, j) /\ Before(s, i) # Before(s, j)
        BY <2>1, <2>2
    <2>4. /\ Cardinality(Before(s, i)) <= Cardinality(Before(s, j))
          /\ Cardinality(Before(s, i)) # Cardinality(Before(s, j))
        BY <1>5, <2>3, FS_Subset
    <2> DEFINE a == p[i]
               b == p[j]
    <2>5. a <= b /\ a # b /\ a \in Nat /\ b \in Nat
        BY <1>5, <2>4
    <2> HIDE DEF a, b
    <2>6. a < b
        BY <2>5
    <2> QED BY <2>6 DEF a, b
<1> HIDE DEF p
<1>8. ASSUME NEW i \in D, NEW j \in D, p[i] = p[j] PROVE i = j
    <2>1. p[i] \in Nat /\ p[j] \in Nat
        BY <1>5
    <2> QED BY <1>6, <1>7, <1>8, <2>1
<1>9. \A j \in D : p[j] \in D
    <2> SUFFICES ASSUME NEW j \in D PROVE p[j] \in D
        OBVIOUS
    <2>1. j \in Before(s, j)
        <3>1. First(s, j, j)
            BY <1>6
        <3> QED BY <3>1 DEF Before, D
    <2>2. p[j] # 0
        <3>1. Cardinality(Before(s, j)) # 0
            BY <1>5, <2>1, FS_EmptySet
        <3> QED BY <1>5, <3>1
    <2> QED BY <1>1, <1>5, <2>2
<1>10. \A n \in D : \E j \in D : p[j] = n
    <2>1. p \in [D -> D]
        <3>1. p = [j \in D |-> p[j]]
            BY DEF p, Places, D
        <3> QED BY <1>9, <3>1
    <2>2. p \in Injection(D, D)
        BY <1>8, <2>1 DEF Injection, IsInjective
    <2>3. p \in Surjection(D, D)
        BY <1>4, <2>2, FS_Injection
    <2> QED BY <2>3 DEF Surjection
<1> QED BY <1>6, <1>7, <1>8, <1>9, <1>10 DEF D, p

\* sort_by: the same entries, best first.
LEMMA SortSorts ==
    ASSUME NEW s \in Seq(Entry)
    PROVE  /\ SortByScore(s) \in Seq(Entry)
           /\ Len(SortByScore(s)) = Len(s)
           /\ In(SortByScore(s)) = In(s)
           /\ Distinct(s) => Distinct(SortByScore(s))
           /\ \A i, j \in 1 .. Len(s) :
                 i < j => SortByScore(s)[i].score >= SortByScore(s)[j].score
<1> DEFINE len == Len(s)
           from == EntryAt(s)
           p == Places(s)
           new == SortByScore(s)
<1>1. DOMAIN s = 1 .. len /\ len \in Nat /\ \A i \in 1 .. len : s[i].score \in Int
    <2>1. \A i \in DOMAIN s : s[i] \in Entry
        BY ElementOfSeq
    <2> QED BY <2>1 DEF Entry
<1>2. /\ \A i, j \in 1 .. len : First(s, i, j) /\ i # j => p[i] < p[j]
      /\ \A i, j \in 1 .. len : First(s, i, j) \/ First(s, j, i)
      /\ \A i, j \in 1 .. len : p[i] = p[j] => i = j
      /\ \A n \in 1 .. len : \E j \in 1 .. len : p[j] = n
      /\ \A j \in 1 .. len : p[j] \in 1 .. len
    BY <1>1, PlacesOneToOne
<1>3. new = Moved(s, from, len)
    BY <1>1 DEF SortByScore, Moved, EntryAt, Before, First
<1>4. /\ \A n \in 1 .. len : from[n] = CHOOSE j \in 1 .. len : Cardinality(Before(s, j)) = n
      /\ \A j \in 1 .. len : p[j] = Cardinality(Before(s, j))
    BY <1>1 DEF EntryAt, Places
<1> HIDE DEF from, p, len, new
<1>5. \A n \in 1 .. len : from[n] \in 1 .. len /\ p[from[n]] = n
    <2> SUFFICES ASSUME NEW n \in 1 .. len PROVE from[n] \in 1 .. len /\ p[from[n]] = n
        OBVIOUS
    <2>1. PICK j \in 1 .. len : p[j] = n
        BY <1>2
    <2>2. \E i \in 1 .. len : Cardinality(Before(s, i)) = n
        BY <1>4, <2>1
    <2>3. from[n] \in 1 .. len /\ Cardinality(Before(s, from[n])) = n
        BY <1>4, <2>2
    <2> QED BY <1>4, <2>3
<1>6. OneToOne(from, len, 1 .. len)
    <2>1. \A i, j \in 1 .. len : from[i] = from[j] => i = j
        BY <1>5
    <2>2. \A y \in 1 .. len : p[y] \in 1 .. len /\ from[p[y]] = y
        BY <1>2, <1>5
    <2> QED BY <1>5, <2>1, <2>2 DEF OneToOne
<1>7. Holding(new, len, s, 1 .. len)
    BY <1>1, <1>3, <1>6, MovedHolds DEF len
<1>8. {s[y] : y \in 1 .. len} = In(s)
    BY <1>1 DEF In
<1>9. ASSUME NEW i \in 1 .. len, NEW j \in 1 .. len, i < j
      PROVE  new[i].score >= new[j].score
    <2> DEFINE a == from[i]
               b == from[j]
    <2>1. a \in 1 .. len /\ b \in 1 .. len /\ p[a] = i /\ p[b] = j
        BY <1>5
    <2>2. new[i] = s[a] /\ new[j] = s[b]
        BY <1>3 DEF Moved
    <2> HIDE DEF a, b
    <2>3. a # b /\ ~ (p[b] < p[a])
        BY <1>9, <2>1
    <2>4. First(s, a, b)
        BY <1>2, <2>1, <2>3
    <2>5. s[a].score \in Int /\ s[b].score \in Int
        BY <1>1, <2>1
    <2> QED BY <2>2, <2>4, <2>5 DEF First
<1> QED BY <1>7, <1>8, <1>9 DEF Holding, len, new

---------------------------------------------------------------------------
(* The kernels *)

\* The sum of n terms after the first a.
SumAfter(f, a, n) == Sum([i \in a + 1 .. a + n |-> f[i]])

\* No term.
LEMMA SumAfterNone ==
    ASSUME NEW a \in Int, NEW f
    PROVE  SumAfter(f, a, 0) = 0
<1> DEFINE g == [i \in a + 1 .. a + 0 |-> f[i]]
<1>1. a + 1 .. a + 0 = {}
    OBVIOUS
<1>2. DOMAIN g = {} /\ IsFiniteSet({}) /\ \A d \in {} : g[d] \in Nat
    BY <1>1, FS_EmptySet
<1> HIDE DEF g
<1>3. Sum(g) = 0
    BY <1>2, SumTakesAny
<1> QED BY <1>3 DEF SumAfter, g

\* The sum of integers is one.
LEMMA SumAfterType ==
    ASSUME NEW a \in Int, NEW n \in Nat, NEW f, \A i \in a + 1 .. a + n : f[i] \in Int
    PROVE  SumAfter(f, a, n) \in Int
<1> DEFINE D == a + 1 .. a + n
           g == [i \in D |-> f[i]]
<1>1. IsFiniteSet(D)
    <2>1. a + 1 \in Int /\ a + n \in Int
        OBVIOUS
    <2> QED BY <2>1, FS_Interval
<1>2. DOMAIN g = D /\ \A d \in D : g[d] \in Int
    OBVIOUS
<1>3. SumAfter(f, a, n) = Sum(g)
    BY DEF SumAfter
<1> HIDE DEF g, D
<1> QED BY <1>1, <1>2, <1>3, SumOfAny

\* One term more.
LEMMA SumAfterNext ==
    ASSUME NEW a \in Int, NEW n \in Nat, NEW f, \A i \in a + 1 .. a + n + 1 : f[i] \in Int
    PROVE  /\ SumAfter(f, a, n) \in Int
           /\ f[a + n + 1] \in Int
           /\ SumAfter(f, a, n + 1) = SumAfter(f, a, n) + f[a + n + 1]
<1> DEFINE k == a + n + 1
           D == a + 1 .. a + (n + 1)
           E == a + 1 .. a + n
           g == [i \in D |-> f[i]]
           h == [i \in E |-> f[i]]
<1>2. k \in D /\ (\A d \in D : f[d] \in Int) /\ D \ {k} = E /\ \A d \in E : d \in D
    OBVIOUS
<1>3. IsFiniteSet(D)
    <2>1. a + 1 \in Int /\ a + (n + 1) \in Int
        OBVIOUS
    <2> QED BY <2>1, FS_Interval
<1> HIDE DEF D, E, k
<1>4. DOMAIN g = D /\ (\A d \in D : g[d] \in Int) /\ g[k] = f[k] /\ Without(g, k) = h
    BY <1>2 DEF Without
<1> HIDE DEF g, h
<1>5. Sum(g) = g[k] + Sum(Without(g, k)) /\ Sum(Without(g, k)) \in Int
    BY <1>2, <1>3, <1>4, SumOfAny
<1>6. Sum(h) \in Int /\ f[k] \in Int /\ Sum(g) = Sum(h) + f[k]
    BY <1>2, <1>4, <1>5
<1>7. SumAfter(f, a, n + 1) = Sum(g) /\ SumAfter(f, a, n) = Sum(h)
    BY DEF SumAfter, g, h, D, E
<1> QED BY <1>6, <1>7 DEF k

\* Sums that grow by the same terms, step by step, are equal.
LEMMA SameSums ==
    ASSUME NEW n \in Nat, NEW s, NEW t, NEW d,
           s[0] = t[0], s[0] \in Int,
           \A m \in 0 .. n - 1 : /\ d[m] \in Int
                                 /\ s[m + 1] = s[m] + d[m]
                                 /\ t[m + 1] = t[m] + d[m]
    PROVE  s[n] = t[n]
<1> DEFINE good == {m \in 0 .. n : s[m] = t[m]}
<1>1. 0 \in good
    OBVIOUS
<1>2. ASSUME NEW m \in 0 .. n - 1, m \in good PROVE m + 1 \in good
    <2>1. s[m] = t[m] /\ s[m + 1] = s[m] + d[m] /\ t[m + 1] = t[m] + d[m]
        BY <1>2
    <2>2. m + 1 \in 0 .. n
        OBVIOUS
    <2> QED BY <2>1, <2>2
<1>3. \A m \in 0 .. n : m \in good
    <2> HIDE DEF good
    <2> QED BY <1>1, <1>2, UpTo
<1>4. n \in good
    <2> HIDE DEF good
    <2> QED BY <1>3
<1> QED BY <1>4

\* A sum in two parts.
LEMMA SumInTwo ==
    ASSUME NEW a \in Nat, NEW n \in Nat, NEW f, \A i \in 1 .. a + n : f[i] \in Int
    PROVE  SumAfter(f, 0, a + n) = SumAfter(f, 0, a) + SumAfter(f, a, n)
<1> DEFINE s == [m \in 0 .. n |-> SumAfter(f, 0, a + m)]
           t == [m \in 0 .. n |-> SumAfter(f, 0, a) + SumAfter(f, a, m)]
           d == [m \in 0 .. n |-> f[a + m + 1]]
<1>1. SumAfter(f, 0, a) \in Int
    <2>1. \A i \in 0 + 1 .. 0 + a : f[i] \in Int
        OBVIOUS
    <2> QED BY <2>1, SumAfterType
<1>2. a + 0 = a /\ SumAfter(f, a, 0) = 0
    BY SumAfterNone
<1>3. s[0] = t[0] /\ s[0] \in Int
    BY <1>1, <1>2
<1>4. ASSUME NEW m \in 0 .. n - 1
      PROVE  d[m] \in Int /\ s[m + 1] = s[m] + d[m] /\ t[m + 1] = t[m] + d[m]
    <2> DEFINE e == a + m
    <2>1. /\ m \in Nat /\ e \in Nat /\ m \in 0 .. n /\ m + 1 \in 0 .. n
          /\ a + (m + 1) = e + 1 /\ 0 + e + 1 = a + m + 1
        OBVIOUS
    <2>2. \A i \in 0 + 1 .. 0 + e + 1 : f[i] \in Int
        OBVIOUS
    <2>3. \A i \in a + 1 .. a + m + 1 : f[i] \in Int
        OBVIOUS
    <2> HIDE DEF e
    <2>4. /\ SumAfter(f, 0, e) \in Int /\ f[0 + e + 1] \in Int
          /\ SumAfter(f, 0, e + 1) = SumAfter(f, 0, e) + f[0 + e + 1]
        BY <2>1, <2>2, SumAfterNext
    <2>5. /\ SumAfter(f, a, m) \in Int
          /\ SumAfter(f, a, m + 1) = SumAfter(f, a, m) + f[a + m + 1]
        BY <2>1, <2>3, SumAfterNext
    <2>6. d[m] = f[a + m + 1] /\ d[m] \in Int
        BY <2>1, <2>4
    <2>7. s[m + 1] = SumAfter(f, 0, e + 1) /\ s[m] = SumAfter(f, 0, e)
        BY <2>1 DEF e
    <2>8. /\ t[m + 1] = SumAfter(f, 0, a) + SumAfter(f, a, m + 1)
          /\ t[m] = SumAfter(f, 0, a) + SumAfter(f, a, m)
        BY <2>1
    <2> HIDE DEF s, t, d
    <2>9. s[m + 1] = s[m] + d[m]
        BY <2>1, <2>4, <2>6, <2>7
    <2>10. t[m + 1] = t[m] + d[m]
        BY <1>1, <2>5, <2>6, <2>8
    <2> QED BY <2>6, <2>9, <2>10
<1>5. s[n] = t[n]
    <2> HIDE DEF s, t, d
    <2> QED BY <1>3, <1>4, SameSums
<1> QED BY <1>5

\* The sum of h, where each term is one of f and one of g further on.
LEMMA SumOfBoth ==
    ASSUME NEW a \in Nat, NEW n \in Nat, NEW f, NEW g, NEW h,
           \A l \in 1 .. n : f[l] \in Int /\ g[a + l] \in Int /\ h[l] = f[l] + g[a + l]
    PROVE  SumAfter(h, 0, n) = SumAfter(f, 0, n) + SumAfter(g, a, n)
<1> DEFINE s == [m \in 0 .. n |-> SumAfter(h, 0, m)]
           t == [m \in 0 .. n |-> SumAfter(f, 0, m) + SumAfter(g, a, m)]
           d == [m \in 0 .. n |-> h[m + 1]]
<1>1. s[0] = t[0] /\ s[0] \in Int
    <2>1. SumAfter(h, 0, 0) = 0 /\ SumAfter(f, 0, 0) = 0 /\ SumAfter(g, a, 0) = 0
        BY SumAfterNone
    <2> QED BY <2>1
<1>2. ASSUME NEW m \in 0 .. n - 1
      PROVE  d[m] \in Int /\ s[m + 1] = s[m] + d[m] /\ t[m + 1] = t[m] + d[m]
    <2>1. /\ m \in Nat /\ m \in 0 .. n /\ m + 1 \in 0 .. n /\ m + 1 \in 1 .. n
          /\ 0 + m + 1 = m + 1 /\ a + m + 1 = a + (m + 1)
        OBVIOUS
    <2>2. /\ \A i \in 0 + 1 .. 0 + m + 1 : f[i] \in Int /\ h[i] \in Int
          /\ \A i \in a + 1 .. a + m + 1 : g[i] \in Int
        <3>1. \A i \in 0 + 1 .. 0 + m + 1 : i \in 1 .. n
            OBVIOUS
        <3>2. \A i \in a + 1 .. a + m + 1 : i - a \in 1 .. n /\ a + (i - a) = i
            OBVIOUS
        <3>3. \A l \in 1 .. n : h[l] \in Int
            OBVIOUS
        <3> QED BY <3>1, <3>2, <3>3
    <2>3. /\ SumAfter(f, 0, m) \in Int /\ f[m + 1] \in Int
          /\ SumAfter(f, 0, m + 1) = SumAfter(f, 0, m) + f[m + 1]
        BY <2>1, <2>2, SumAfterNext
    <2>4. /\ SumAfter(h, 0, m) \in Int /\ h[m + 1] \in Int
          /\ SumAfter(h, 0, m + 1) = SumAfter(h, 0, m) + h[m + 1]
        BY <2>1, <2>2, SumAfterNext
    <2>5. /\ SumAfter(g, a, m) \in Int /\ g[a + m + 1] \in Int
          /\ SumAfter(g, a, m + 1) = SumAfter(g, a, m) + g[a + m + 1]
        BY <2>1, <2>2, SumAfterNext
    <2>6. h[m + 1] = f[m + 1] + g[a + m + 1]
        BY <2>1
    <2>7. d[m] = h[m + 1] /\ s[m + 1] = s[m] + d[m]
        BY <2>1, <2>4
    <2>8. /\ t[m + 1] = SumAfter(f, 0, m + 1) + SumAfter(g, a, m + 1)
          /\ t[m] = SumAfter(f, 0, m) + SumAfter(g, a, m)
        BY <2>1
    <2> HIDE DEF s, t, d
    <2>9. t[m + 1] = t[m] + d[m]
        BY <2>3, <2>5, <2>6, <2>7, <2>8
    <2> QED BY <2>4, <2>7, <2>9
<1>3. s[n] = t[n]
    <2> HIDE DEF s, t, d
    <2> QED BY <1>1, <1>2, SameSums
<1> QED BY <1>3

\* The terms that one accumulator takes, and all accumulators after c chunks.
Column(term, l) == [c \in Nat |-> term[c * Lanes + l]]
Accumulators(term, c) == [l \in 1 .. Lanes |-> SumAfter(Column(term, l), -1, c)]

\* The terms of a chunk.
LEMMA ChunkBounds ==
    ASSUME NEW n \in Nat, NEW c \in Nat, c < n \div Lanes
    PROVE  /\ c * Lanes \in Nat /\ (c + 1) * Lanes = c * Lanes + Lanes
           /\ c * Lanes + Lanes <= n
<1> DEFINE q == n \div Lanes
           p == c * Lanes
           d == c + 1
           r == d * Lanes
<1>1. Lanes \in Nat /\ Lanes > 0
    BY VectorIndexAssumption
<1>2. q \in Nat /\ q * Lanes <= n
    BY <1>1
<1>3. c < q
    OBVIOUS
<1> HIDE DEF q
<1>4. d \in Nat /\ d <= q
    BY <1>2, <1>3
<1>5. p \in Nat /\ r = p + Lanes
    BY <1>1
<1> HIDE DEF d, p
<1>6. r <= q * Lanes /\ q * Lanes \in Nat
    BY <1>1, <1>2, <1>4, ProductMonotone
<1> HIDE DEF r
<1> QED BY <1>1, <1>2, <1>5, <1>6 DEF p, r, d

\* The accumulators hold the sum of the chunks so far.
LEMMA AccumulatorsSum ==
    ASSUME NEW n \in Nat, NEW term, \A i \in 1 .. n : term[i] \in Int
    PROVE  \A c \in 0 .. n \div Lanes :
              SumAfter(Accumulators(term, c), 0, Lanes) = SumAfter(term, 0, c * Lanes)
<1> DEFINE q == n \div Lanes
           good == {c \in 0 .. q :
                SumAfter(Accumulators(term, c), 0, Lanes) = SumAfter(term, 0, c * Lanes)}
<1>1. Lanes \in Nat /\ Lanes > 0
    BY VectorIndexAssumption
<1>2. q \in Nat
    BY <1>1
<1>3. 0 \in good
    <2>1. Accumulators(term, 0) = [l \in 1 .. Lanes |-> 0]
        BY SumAfterNone DEF Accumulators
    <2>2. SumAfter(term, 0, 0) = 0 /\ 0 * Lanes = 0
        BY <1>1, SumAfterNone
    <2> DEFINE z == [l \in 1 .. Lanes |-> 0]
               y == [i \in 0 + 1 .. 0 + Lanes |-> z[i]]
    <2>3. y = [l \in 1 .. Lanes |-> 0]
        BY <1>1
    <2>4. IsFiniteSet(1 .. Lanes)
        BY <1>1, FS_Interval
    <2>5. Sum(y) = 0
        BY <2>3, <2>4, SumOfZeros
    <2>6. SumAfter(z, 0, Lanes) = 0
        BY <2>5 DEF SumAfter
    <2>7. 0 \in 0 .. q
        BY <1>2
    <2> HIDE DEF q, z
    <2> QED BY <2>1, <2>2, <2>6, <2>7 DEF z
<1>4. ASSUME NEW c \in 0 .. q - 1, c \in good PROVE c + 1 \in good
    <2> DEFINE a == c * Lanes
               f == Accumulators(term, c)
               h == Accumulators(term, c + 1)
    <2>1. c \in Nat /\ c < q /\ c + 1 \in 0 .. q
        BY <1>2
    <2>2. a \in Nat /\ (c + 1) * Lanes = a + Lanes /\ a + Lanes <= n
        BY <2>1, ChunkBounds
    <2>3. ASSUME NEW l \in 1 .. Lanes
          PROVE  f[l] \in Int /\ term[a + l] \in Int /\ h[l] = f[l] + term[a + l]
        <3> DEFINE col == Column(term, l)
        <3>1. \A i \in -1 + 1 .. -1 + c + 1 : col[i] \in Int
            <4> SUFFICES ASSUME NEW i \in -1 + 1 .. -1 + c + 1 PROVE col[i] \in Int
                OBVIOUS
            <4> HIDE DEF q
            <4>1. i \in Nat /\ i < q
                BY <1>2, <2>1
            <4>2. i * Lanes \in Nat /\ i * Lanes + Lanes <= n
                BY <4>1, ChunkBounds DEF q
            <4> DEFINE b == i * Lanes
            <4> HIDE DEF b
            <4>3. b + l \in 1 .. n
                BY <1>1, <4>2 DEF b
            <4>4. col[i] = term[b + l]
                BY <4>1 DEF Column, b
            <4> QED BY <4>3, <4>4
        <3>2. /\ SumAfter(col, -1, c) \in Int /\ col[-1 + c + 1] \in Int
              /\ SumAfter(col, -1, c + 1) = SumAfter(col, -1, c) + col[-1 + c + 1]
            <4> HIDE DEF col
            <4> QED BY <2>1, <3>1, SumAfterNext
        <3>3. -1 + c + 1 = c
            BY <2>1
        <3>4. col[c] = term[a + l]
            BY <2>1 DEF Column
        <3>5. f[l] = SumAfter(col, -1, c) /\ h[l] = SumAfter(col, -1, c + 1)
            BY DEF Accumulators
        <3> HIDE DEF col, f, h, a
        <3> QED BY <3>2, <3>3, <3>4, <3>5
    <2>4. \A i \in 1 .. a + Lanes : term[i] \in Int
        BY <1>1, <2>2
    <2> HIDE DEF a, f, h
    <2>5. SumAfter(h, 0, Lanes) = SumAfter(f, 0, Lanes) + SumAfter(term, a, Lanes)
        BY <1>1, <2>2, <2>3, SumOfBoth
    <2>6. SumAfter(term, 0, a + Lanes) = SumAfter(term, 0, a) + SumAfter(term, a, Lanes)
        BY <1>1, <2>2, <2>4, SumInTwo
    <2>7. SumAfter(f, 0, Lanes) = SumAfter(term, 0, a)
        BY <1>4 DEF f, a
    <2>8. SumAfter(h, 0, Lanes) = SumAfter(term, 0, (c + 1) * Lanes)
        BY <2>2, <2>5, <2>6, <2>7
    <2> HIDE DEF q
    <2> QED BY <2>1, <2>8 DEF h
<1>5. \A c \in 0 .. q : c \in good
    <2> HIDE DEF good, q
    <2> QED BY <1>2, <1>3, <1>4, UpTo
<1> QED BY <1>5

\* A kernel adds up its terms, each once.
LEMMA KernelIsSum ==
    ASSUME NEW n \in Nat, NEW term, \A i \in 1 .. n : term[i] \in Int
    PROVE  Kernel(term, n) = SumAfter(term, 0, n) /\ Kernel(term, n) \in Int
<1> DEFINE q == n \div Lanes
           a == q * Lanes
           acc == [l \in 1 .. Lanes |->
                       Sum([c \in 0 .. q - 1 |-> term[c * Lanes + l]])]
           tail == Sum([i \in a + 1 .. n |-> term[i]])
<1>1. Lanes \in Nat /\ Lanes > 0
    BY VectorIndexAssumption
<1>2. q \in Nat /\ a \in Nat /\ a <= n
    BY <1>1
<1>3. Kernel(term, n) = Sum(acc) + tail
    BY DEF Kernel
<1>4. acc = Accumulators(term, q)
    <2> SUFFICES ASSUME NEW l \in 1 .. Lanes
                 PROVE  Sum([c \in 0 .. q - 1 |-> term[c * Lanes + l]])
                            = SumAfter(Column(term, l), -1, q)
        BY DEF Accumulators
    <2>1. -1 + 1 .. -1 + q = 0 .. q - 1 /\ \A c \in 0 .. q - 1 : c \in Nat
        BY <1>2
    <2>2. [c \in 0 .. q - 1 |-> term[c * Lanes + l]]
            = [c \in -1 + 1 .. -1 + q |-> Column(term, l)[c]]
        BY <2>1 DEF Column
    <2> QED BY <2>2 DEF SumAfter
<1>5. Sum(acc) = SumAfter(acc, 0, Lanes)
    <2>1. [i \in 0 + 1 .. 0 + Lanes |-> acc[i]] = acc
        BY <1>1
    <2> HIDE DEF acc
    <2> QED BY <2>1 DEF SumAfter
<1>6. SumAfter(acc, 0, Lanes) = SumAfter(term, 0, a)
    <2>1. q \in 0 .. n \div Lanes
        BY <1>2
    <2> QED BY <1>4, <2>1, AccumulatorsSum
<1> DEFINE m == n - a
<1>7. m \in Nat /\ a + m = n
    BY <1>2
<1>8. tail = SumAfter(term, a, m)
    BY <1>7 DEF SumAfter
<1> HIDE DEF q, a, acc, tail, m
<1>9. SumAfter(term, 0, a + m) = SumAfter(term, 0, a) + SumAfter(term, a, m)
    BY <1>2, <1>7, SumInTwo
<1>10. SumAfter(term, 0, n) \in Int
    <2>1. \A i \in 0 + 1 .. 0 + n : term[i] \in Int
        OBVIOUS
    <2> QED BY <2>1, SumAfterType
<1> QED BY <1>3, <1>5, <1>6, <1>7, <1>8, <1>9, <1>10

\* A vector of the right dimension none of whose components is NaN.
Numeric(v) == v \in Seq(Int) /\ Len(v) = Dim

\* A square is not negative.
LEMMA SquareIsNat ==
    ASSUME NEW x \in Int
    PROVE  x * x \in Nat
<1>1. CASE x >= 0
    BY <1>1
<1>2. CASE x < 0
    <2> DEFINE y == -x
    <2>1. y \in Nat /\ x * x = y * y
        BY <1>2
    <2> HIDE DEF y
    <2> QED BY <2>1
<1> QED BY <1>1, <1>2

\* dot and l2_sq are the sums they are defined by.
LEMMA KernelsAre ==
    ASSUME NEW a, Numeric(a), NEW b, Numeric(b)
    PROVE  /\ Dot(a, b) = Inner(a, b) /\ Dot(a, b) \in Int
           /\ L2Sq(a, b) = Sum([i \in 1 .. Dim |-> (a[i] - b[i]) * (a[i] - b[i])])
           /\ L2Sq(a, b) \in Int
           /\ Dot(a, a) \in Nat
<1> DEFINE f == [i \in DOMAIN a |-> a[i] * b[i]]
           g == [i \in DOMAIN a |-> (a[i] - b[i]) * (a[i] - b[i])]
           h == [i \in DOMAIN a |-> a[i] * a[i]]
<1>1. Dim \in Nat /\ DOMAIN a = 1 .. Dim /\ DOMAIN b = 1 .. Dim /\ 0 + 1 .. 0 + Dim = 1 .. Dim
    BY VectorIndexAssumption DEF Numeric
<1>2. \A i \in 1 .. Dim : a[i] \in Int /\ b[i] \in Int
    BY <1>1, ElementOfSeq DEF Numeric
<1>3. \A i \in 1 .. Dim : f[i] \in Int /\ g[i] \in Int /\ h[i] \in Nat
    BY <1>1, <1>2, SquareIsNat
<1>4. /\ f = [i \in 0 + 1 .. 0 + Dim |-> f[i]]
      /\ g = [i \in 0 + 1 .. 0 + Dim |-> g[i]]
      /\ h = [i \in 0 + 1 .. 0 + Dim |-> h[i]]
    BY <1>1
<1>5. /\ Dot(a, b) = Kernel(f, Dim) /\ L2Sq(a, b) = Kernel(g, Dim)
      /\ Dot(a, a) = Kernel(h, Dim)
    BY DEF Dot, L2Sq, Numeric
<1>6. /\ Inner(a, b) = Sum(f)
      /\ Sum([i \in 1 .. Dim |-> (a[i] - b[i]) * (a[i] - b[i])]) = Sum(g)
    BY <1>1 DEF Inner
<1>7. DOMAIN h = 1 .. Dim /\ IsFiniteSet(1 .. Dim)
    BY <1>1, FS_Interval
<1> HIDE DEF f, g, h
<1>8. SumAfter(f, 0, Dim) = Sum(f) /\ SumAfter(g, 0, Dim) = Sum(g)
      /\ SumAfter(h, 0, Dim) = Sum(h)
    BY <1>4 DEF SumAfter
<1>9. /\ Kernel(f, Dim) = Sum(f) /\ Kernel(f, Dim) \in Int
      /\ Kernel(g, Dim) = Sum(g) /\ Kernel(g, Dim) \in Int
    BY <1>1, <1>3, <1>8, KernelIsSum
<1>10. Kernel(h, Dim) = Sum(h)
    <2>1. \A i \in 1 .. Dim : h[i] \in Int
        BY <1>3
    <2> QED BY <1>1, <1>8, <2>1, KernelIsSum
<1>11. Sum(h) \in Nat
    BY <1>3, <1>7, SumTakesAny
<1> QED BY <1>5, <1>6, <1>9, <1>10, <1>11

\* What search computes for a row is the metric it names.
LEMMA ScoreIsSimilarity ==
    ASSUME NaN \notin Int, NEW a, Numeric(a), NEW b, Numeric(b), NEW metric \in Metric
    PROVE  Score(metric, a, b) = Similarity(metric, a, b) /\ Score(metric, a, b) \in Int
<1>1. \A i \in 1 .. Dim : NaN \notin {a[i], b[i]}
    <2>1. DOMAIN a = 1 .. Dim /\ DOMAIN b = 1 .. Dim
        BY VectorIndexAssumption DEF Numeric
    <2>2. \A i \in 1 .. Dim : a[i] \in Int /\ b[i] \in Int
        BY <2>1, ElementOfSeq DEF Numeric
    <2> QED BY <2>2
<1>2. /\ Dot(a, b) = Inner(a, b) /\ Dot(a, b) \in Int
      /\ L2Sq(a, b) = Sum([i \in 1 .. Dim |-> (a[i] - b[i]) * (a[i] - b[i])])
      /\ L2Sq(a, b) \in Int
      /\ Dot(a, a) = Inner(a, a) /\ Dot(a, a) \in Nat
      /\ Dot(b, b) = Inner(b, b) /\ Dot(b, b) \in Nat
    BY KernelsAre
<1>3. CASE metric = "Dot"
    <2>1. Score(metric, a, b) = Dot(a, b) /\ Similarity(metric, a, b) = Inner(a, b)
        BY <1>1, <1>3 DEF Score, Similarity
    <2> QED BY <1>2, <2>1
<1>4. CASE metric = "L2"
    <2>1. /\ Score(metric, a, b) = -L2Sq(a, b)
          /\ Similarity(metric, a, b) = -Sum([i \in 1 .. Dim |-> (a[i] - b[i]) * (a[i] - b[i])])
        BY <1>1, <1>4 DEF Score, Similarity
    <2> QED BY <1>2, <2>1
<1>5. CASE metric = "Cosine"
    <2> DEFINE x == Dot(a, b)
               denom == Dot(a, a) * Dot(b, b)
               y == Scale * x * Abs(x)
    <2>1. /\ Score(metric, a, b) = Cosine(a, b)
          /\ Cosine(a, b) = IF denom = 0 THEN 0 ELSE y \div denom
        BY <1>1, <1>5 DEF Score, Cosine
    <2>2. Similarity(metric, a, b) = IF denom = 0 THEN 0 ELSE y \div denom
        BY <1>2, <1>5 DEF Similarity
    <2>3. denom \in Nat
        BY <1>2
    <2>4. y \in Int
        <3>1. Abs(x) \in Int
            BY <1>2 DEF Abs
        <3>2. Scale \in Int /\ x \in Int
            BY <1>2, VectorIndexAssumption
        <3> HIDE DEF x
        <3> QED BY <3>1, <3>2
    <2> HIDE DEF x, denom, y
    <2>5. denom # 0 => y \div denom \in Int
        BY <2>3, <2>4
    <2> QED BY <2>1, <2>2, <2>5
<1> QED BY <1>3, <1>4, <1>5 DEF Metric

---------------------------------------------------------------------------
(* The rows *)

\* Every row is the vector of a document.
RowsAreVectors(index) == \A p \in VectorsOf(index) : \E d \in Doc : p[2] = d.vec /\ Fits(d.vec)

\* They are, whatever was inserted and removed.
LEMMA RowsInvariance == Spec => []RowsAreVectors(vectors)
<1>1. ASSUME vectors' = NewVectorIndex PROVE RowsAreVectors(vectors')
    BY <1>1 DEF RowsAreVectors, VectorsOf, NewVectorIndex
<1>2. Init => RowsAreVectors(vectors)
    BY DEF Init, RowsAreVectors, VectorsOf, NewVectorIndex
<1>3. ASSUME EngineInv, RowsAreVectors(vectors), NEW id \in Id, NEW d \in Doc, Fits(d.vec),
             vectors' = Insert(vectors, id, d.vec)
      PROVE  RowsAreVectors(vectors')
    <2>1. d.vec \in Seq(Component) /\ Len(d.vec) = Dim
        BY <1>3, EngineAssumption, VectorIndexAssumption DEF Fits, Component
    <2>2. VectorsOf(vectors') = {p \in VectorsOf(vectors) : p[1] # id} \cup {<<id, d.vec>>}
        BY <1>3, <2>1, InsertSets DEF EngineInv, IndexInv
    <2>3. ASSUME NEW p \in VectorsOf(vectors') PROVE \E e \in Doc : p[2] = e.vec /\ Fits(e.vec)
        <3>1. CASE p \in VectorsOf(vectors)
            BY <1>3, <3>1 DEF RowsAreVectors
        <3>2. CASE p = <<id, d.vec>>
            BY <1>3, <3>2
        <3> QED BY <2>2, <3>1, <3>2
    <2> QED BY <2>3 DEF RowsAreVectors
<1>4. EngineInv /\ RowsAreVectors(vectors) /\ [Next]_vars => RowsAreVectors(vectors)'
    <2> SUFFICES ASSUME EngineInv, RowsAreVectors(vectors), [Next]_vars
                 PROVE  RowsAreVectors(vectors')
        OBVIOUS
    <2>1. CASE UpsertDone
        <3>1. req.key \in Id /\ req.val \in Doc
            BY <2>1 DEF EngineInv, CallInv, UpsertDone, Docs!ReturnOk, Docs!Request
        <3> QED BY <1>3, <2>1, <3>1 DEF UpsertDone
    <2>2. CASE DeleteDone
        <3>1. VectorsOf(vectors') = {p \in VectorsOf(vectors) : p[1] # req.key}
            BY <2>2, RemoveLeaves DEF DeleteDone, EngineInv, IndexInv
        <3> QED BY <3>1 DEF RowsAreVectors
    <2>3. ASSUME NEW id \in Id, OpenIndex(id) PROVE RowsAreVectors(vectors')
        <3>1. store[id] \in Doc
            BY <2>3 DEF EngineInv, CallInv, ModeInv, Live, OpenIndex
        <3> QED BY <1>3, <2>3, <3>1 DEF OpenIndex
    <2>4. ASSUME vectors' = vectors PROVE RowsAreVectors(vectors')
        BY <2>4
    <2> QED
        BY <1>1, <2>1, <2>2, <2>3, <2>4
        DEF Next, Upsert, DeleteDoc, Begin, StoreEffect, StoreError, UpsertMismatch, Stop,
            Open, OpenDone, OpenMismatch, vars, indexes
<1> QED BY <1>2, <1>4, InitEngine, NextEngine, PTL DEF Spec

\* The values in the first m places.
Values(f, m) == {f[i] : i \in 1 .. m}

\* There are as many as places, if none is in two.
LEMMA CountOfDistinct ==
    ASSUME NEW m \in Nat, NEW f, \A i, j \in 1 .. m : f[i] = f[j] => i = j
    PROVE  IsFiniteSet(Values(f, m)) /\ Cardinality(Values(f, m)) = m
<1> DEFINE S == {f[i] : i \in 1 .. m}
           g == [i \in 1 .. m |-> f[i]]
<1>1. g \in Bijection(1 .. m, S)
    <2>1. g \in [1 .. m -> S]
        OBVIOUS
    <2>2. \A i \in 1 .. m : g[i] = f[i]
        OBVIOUS
    <2>3. \A x \in S : \E i \in 1 .. m : g[i] = x
        OBVIOUS
    <2> HIDE DEF g, S
    <2> QED BY <2>1, <2>2, <2>3 DEF Bijection, Injection, Surjection, IsInjective
<1>2. IsFiniteSet(1 .. m) /\ Cardinality(1 .. m) = m
    <2>1. IsFiniteSet(1 .. m) /\ Cardinality(1 .. m) = IF 1 > m THEN 0 ELSE m - 1 + 1
        BY FS_Interval
    <2> QED BY <2>1
<1>3. ExistsBijection(1 .. m, S)
    BY <1>1 DEF ExistsBijection
<1> HIDE DEF S
<1>4. IsFiniteSet(S) /\ Cardinality(S) = m
    BY <1>2, <1>3, FS_Bijection
<1> QED BY <1>4 DEF S, Values

---------------------------------------------------------------------------
(* Vector search *)

\* What search scans: the rows in order, each with its score.
Scan(index, query, metric) ==
    [i \in 1 .. Len(index.ids) |-> Scored(index, i, query, metric)]

\* The heap after the scan of search has the best k rows.
LEMMA KeptIsBest ==
    ASSUME NaN \notin Int, NEW index, Len(index.ids) \in Nat, NEW query, NEW metric,
           Candidates(Scan(index, query, metric), Len(index.ids)),
           NEW k \in Nat, k > 0
    PROVE  HasBest(Kept(index, query, k, metric), Scan(index, query, metric), k,
                   Len(index.ids))
<1> DEFINE n == Len(index.ids)
           cand == Scan(index, query, metric)
           offered(h) == [i \in 0 .. n |-> OfferStep(cand, k, h, i)]
           kept(h) == [i \in 0 .. Len(index.ids) |->
                            IF i = 0 THEN <<>>
                            ELSE Offer(h[i - 1], Scored(index, i, query, metric), k)]
           heap == CHOOSE h : h = kept(h)
<1>1. \A h : offered(h) = kept(h)
    <2>1. \A i \in 0 .. n : i # 0 => cand[i] = Scored(index, i, query, metric)
        BY DEF Scan
    <2> HIDE DEF cand
    <2> QED BY <2>1 DEF OfferStep
<1>2. \E h : h = offered(h)
    <2>1. n \in Nat
        OBVIOUS
    <2> HIDE DEF n, cand
    <2>2. \E h : h = [i \in 0 .. n |-> OfferStep(cand, k, h, i)]
        BY <2>1, ScanExists, Zenon
    <2> QED BY <2>2, Zenon
<1>3. heap = kept(heap)
    <2> HIDE DEF offered, kept
    <2> QED BY <1>1, <1>2, Zenon
<1>4. Kept(index, query, k, metric) = heap[n]
    BY DEF Kept
<1> HIDE DEF heap, n, cand
<1>5. heap = [i \in 0 .. n |-> OfferStep(cand, k, heap, i)]
    <2>1. heap = offered(heap)
        <3> HIDE DEF offered, kept
        <3> QED BY <1>1, <1>3
    <2> QED BY <2>1
<1>6. HasBest(heap[n], cand, k, n)
    BY <1>5, ScanKeepsBest DEF n, cand
<1> QED BY <1>4, <1>6 DEF n, cand

\* The entries of a search: as many of the rows as there is room for, none twice,
\* best first, and none better left out.
Best(found, cand, k, n) ==
    /\ found \in Seq(Entry) /\ Len(found) = Least(k, n)
    /\ Distinct(found)
    /\ \A x \in In(found) : \E j \in 1 .. n : cand[j] = x
    /\ \A i, j \in DOMAIN found : i < j => found[i].score >= found[j].score
    /\ \A j \in 1 .. n, x \in In(found) : cand[j] \notin In(found) => cand[j].score <= x.score

\* search returns the best k rows, sorted.
LEMMA SearchIsBest ==
    ASSUME NaN \notin Int, NEW index, Len(index.ids) \in Nat, NEW query, NEW metric,
           Candidates(Scan(index, query, metric), Len(index.ids)),
           NEW k \in Nat, k > 0
    PROVE  Best(VectorSearch(index, query, k, metric), Scan(index, query, metric), k,
                Len(index.ids))
<1> DEFINE n == Len(index.ids)
           cand == Scan(index, query, metric)
           kept == Kept(index, query, k, metric)
           found == VectorSearch(index, query, k, metric)
<1>1. HasBest(kept, cand, k, n)
    BY KeptIsBest
<1>2. found = SortByScore(kept)
    BY DEF VectorSearch
<1> HIDE DEF kept, cand, found, n
<1>3. kept \in Seq(Entry) /\ Distinct(kept) /\ Len(kept) \in Nat
    BY <1>1 DEF HasBest, HeapShape
<1>4. /\ found \in Seq(Entry) /\ Len(found) = Len(kept) /\ In(found) = In(kept)
      /\ Distinct(found)
      /\ \A i, j \in 1 .. Len(kept) : i < j => found[i].score >= found[j].score
    BY <1>2, <1>3, SortSorts
<1>5. DOMAIN found = 1 .. Len(kept)
    BY <1>4
<1>6. Len(found) = Least(k, n)
    <2>1. Len(kept) = Least(n, k)
        BY <1>1 DEF HasBest
    <2>2. n \in Nat
        BY DEF n
    <2>3. Least(n, k) = Least(k, n)
        BY <2>2 DEF Least
    <2> QED BY <1>4, <2>1, <2>3
<1>7. Best(found, cand, k, n)
    BY <1>1, <1>4, <1>5, <1>6 DEF Best, HasBest
<1> QED BY <1>7 DEF found, cand, n

\* The rows of the index are candidates, with the scores they have by definition.
LEMMA RowsAreCandidates ==
    ASSUME NoNaN, EngineInv, RowsAreVectors(vectors), NEW q \in Query, NEW metric \in Metric
    PROVE  /\ Candidates(Scan(vectors, q.vec, metric), Len(vectors.ids))
           /\ \A i \in 1 .. Len(vectors.ids) :
                 Scan(vectors, q.vec, metric)[i] =
                    [id |-> vectors.ids[i],
                     score |-> Similarity(metric, q.vec, Row(vectors, i))]
<1> DEFINE n == Len(vectors.ids)
           cand == Scan(vectors, q.vec, metric)
<1>1. /\ n \in Nat /\ DOMAIN vectors.ids = 1 .. n /\ Distinct(vectors.ids)
      /\ VectorShape(vectors)
      /\ \A i \in 1 .. n : vectors.ids[i] \in Id
    <2>1. VectorShape(vectors)
        BY DEF EngineInv, IndexInv
    <2>2. vectors.ids \in Seq(Id)
        BY <2>1 DEF VectorShape
    <2>3. \A i \in DOMAIN vectors.ids : vectors.ids[i] \in Id
        BY <2>2, ElementOfSeq
    <2> QED BY <2>1, <2>2, <2>3 DEF VectorShape
<1>2. NaN \notin Int /\ Numeric(q.vec)
    BY EngineAssumption DEF NoNaN, Numeric
<1> HIDE DEF n
<1>3. ASSUME NEW i \in 1 .. n
      PROVE  /\ cand[i] = [id |-> vectors.ids[i],
                           score |-> Similarity(metric, q.vec, Row(vectors, i))]
             /\ cand[i].id = vectors.ids[i]
             /\ cand[i] \in Entry
    <2> DEFINE row == Row(vectors, i)
    <2>1. Numeric(row)
        <3>1. <<vectors.ids[i], row>> \in VectorsOf(vectors)
            BY <1>1 DEF VectorsOf
        <3>2. PICK d \in Doc : row = d.vec /\ Fits(d.vec)
            BY <3>1 DEF RowsAreVectors
        <3> QED BY <3>2 DEF NoNaN, Numeric, Fits
    <2>2. cand[i] = [id |-> vectors.ids[i], score |-> Score(metric, q.vec, row)]
        BY DEF Scan, Scored, n
    <2> HIDE DEF row, cand
    <2>3. /\ Score(metric, q.vec, row) = Similarity(metric, q.vec, row)
          /\ Score(metric, q.vec, row) \in Int
        BY <1>2, <2>1, ScoreIsSimilarity
    <2> QED BY <1>1, <2>2, <2>3 DEF Entry, row
<1>4. cand = [i \in 1 .. n |-> cand[i]]
    BY DEF Scan, n
<1> HIDE DEF cand
<1>5. cand \in [1 .. n -> Entry]
    BY <1>3, <1>4
<1>6. ASSUME NEW i \in 1 .. n, NEW j \in 1 .. n, cand[i] = cand[j] PROVE i = j
    <2>1. cand[i].id = vectors.ids[i] /\ cand[j].id = vectors.ids[j]
        BY <1>3
    <2> QED BY <1>1, <1>6, <2>1 DEF Distinct
<1>7. Candidates(cand, n)
    BY <1>5, <1>6 DEF Candidates
<1> QED BY <1>3, <1>7 DEF cand, n

\* How near the row of an id is to a query.
Near(q, metric, id) == Similarity(metric, q.vec, Row(vectors, Position(vectors, id)))

\* The k nearest ids of the index or all there are, none twice, nearest first.
Nearest(list, q, metric, k) ==
    /\ IsFiniteSet(Indexed)
    /\ list \in [1 .. Least(k, Cardinality(Indexed)) -> Indexed]
    /\ \A i, j \in DOMAIN list : list[i] = list[j] => i = j
    /\ \A i, j \in DOMAIN list : i < j => Near(q, metric, list[i]) >= Near(q, metric, list[j])
    /\ \A i \in DOMAIN list, id \in Indexed :
          (\A j \in DOMAIN list : list[j] # id) => Near(q, metric, list[i]) >= Near(q, metric, id)

\* The ids of the best rows are the nearest.
LEMMA BestAreNearest ==
    ASSUME NEW q \in Query, NEW metric \in Metric, NEW k \in Nat, VectorShape(vectors),
           NEW cand, Candidates(cand, Len(vectors.ids)),
           \A i \in 1 .. Len(vectors.ids) :
                 cand[i] = [id |-> vectors.ids[i],
                            score |-> Similarity(metric, q.vec, Row(vectors, i))],
           NEW found, Best(found, cand, k, Len(vectors.ids))
    PROVE  Nearest([i \in DOMAIN found |-> found[i].id], q, metric, k)
<1> DEFINE n == Len(vectors.ids)
           ids == vectors.ids
           m == Len(found)
           near(id) == Near(q, metric, id)
           list == [i \in DOMAIN found |-> found[i].id]
<1>1. /\ n \in Nat /\ DOMAIN ids = 1 .. n
      /\ \A i, j \in 1 .. n : ids[i] = ids[j] => i = j
    BY DEF VectorShape, Distinct
<1>2. /\ m \in Nat /\ DOMAIN found = 1 .. m /\ m = Least(k, n)
      /\ \A i, j \in 1 .. m : found[i] = found[j] => i = j
      /\ \A x \in In(found) : \E j \in 1 .. n : cand[j] = x
      /\ \A i, j \in 1 .. m : i < j => found[i].score >= found[j].score
      /\ \A j \in 1 .. n, x \in In(found) : cand[j] \notin In(found) => cand[j].score <= x.score
      /\ \A i \in 1 .. m : found[i] \in In(found)
    <2>1. /\ m \in Nat /\ DOMAIN found = 1 .. m /\ m = Least(k, n)
          /\ \A i, j \in 1 .. m : found[i] = found[j] => i = j
        BY DEF Best, Distinct
    <2>2. /\ \A x \in In(found) : \E j \in 1 .. n : cand[j] = x
          /\ \A i, j \in 1 .. m : i < j => found[i].score >= found[j].score
          /\ \A j \in 1 .. n, x \in In(found) :
                cand[j] \notin In(found) => cand[j].score <= x.score
        BY DEF Best
    <2>3. \A i \in 1 .. m : found[i] \in In(found)
        BY <2>1 DEF In
    <2> QED BY <2>1, <2>2, <2>3
<1>3. Indexed = {ids[i] : i \in 1 .. n}
    BY <1>1 DEF Indexed
<1>4. \A j \in 1 .. n : ids[j] \in Indexed /\ Position(vectors, ids[j]) = j
    <2> SUFFICES ASSUME NEW j \in 1 .. n
                 PROVE  ids[j] \in Indexed /\ Position(vectors, ids[j]) = j
        OBVIOUS
    <2> DEFINE p == Position(vectors, ids[j])
    <2>1. /\ p \in 0 .. n /\ (p # 0 => ids[p] = ids[j])
          /\ (p = 0 => \A i \in DOMAIN ids : ids[i] # ids[j])
        BY PositionFinds
    <2> HIDE DEF p
    <2>2. p # 0 /\ p \in 1 .. n
        BY <1>1, <2>1
    <2>3. p = j
        BY <1>1, <2>1, <2>2
    <2> QED BY <1>3, <2>3 DEF p
<1>5. \A j \in 1 .. n : cand[j].id = ids[j] /\ cand[j].score = near(ids[j])
    <2> SUFFICES ASSUME NEW j \in 1 .. n
                 PROVE  cand[j].id = ids[j] /\ cand[j].score = near(ids[j])
        OBVIOUS
    <2> DEFINE s == Similarity(metric, q.vec, Row(vectors, j))
    <2>1. cand[j] = [id |-> ids[j], score |-> s]
        OBVIOUS
    <2>2. near(ids[j]) = s
        BY <1>4 DEF Near
    <2> HIDE DEF s, near
    <2> QED BY <2>1, <2>2
<1> HIDE DEF near, n, ids, m
<1>6. \A x \in In(found) : x.id \in Indexed /\ x.score = near(x.id)
    BY <1>2, <1>4, <1>5
<1>7. IsFiniteSet(Indexed) /\ Cardinality(Indexed) = n
    <2>1. Indexed = Values(ids, n)
        BY <1>3 DEF Values
    <2> QED BY <1>1, <2>1, CountOfDistinct
<1>8. list \in [1 .. Least(k, Cardinality(Indexed)) -> Indexed] /\ DOMAIN list = 1 .. m
    BY <1>2, <1>6, <1>7
<1>9. \A i \in 1 .. m : list[i] = found[i].id
    BY <1>2
<1> HIDE DEF list
<1>10. ASSUME NEW i \in 1 .. m, NEW j \in 1 .. m, list[i] = list[j] PROVE i = j
    <2>1. PICK a \in 1 .. n : cand[a] = found[i]
        BY <1>2
    <2>2. PICK b \in 1 .. n : cand[b] = found[j]
        BY <1>2
    <2>3. ids[a] = ids[b]
        BY <1>5, <1>9, <1>10, <2>1, <2>2
    <2>4. a = b
        BY <1>1, <2>3
    <2> QED BY <1>2, <2>1, <2>2, <2>4
<1>11. \A i, j \in 1 .. m : i < j => near(list[i]) >= near(list[j])
    BY <1>2, <1>6, <1>9
<1>12. ASSUME NEW i \in 1 .. m, NEW id \in Indexed, \A j \in 1 .. m : list[j] # id
       PROVE  near(list[i]) >= near(id)
    <2> DEFINE x == found[i]
    <2>1. x \in In(found)
        BY <1>2
    <2>2. PICK j \in 1 .. n : ids[j] = id
        BY <1>3
    <2>3. cand[j] \notin In(found)
        <3>1. ASSUME cand[j] \in In(found) PROVE FALSE
            <4>1. PICK l \in 1 .. m : found[l] = cand[j]
                BY <1>2, <3>1 DEF In
            <4>2. list[l] = id
                BY <1>5, <1>9, <2>2, <4>1
            <4> QED BY <1>12, <4>2
        <3> QED BY <3>1
    <2> HIDE DEF x
    <2>4. cand[j].score <= x.score
        BY <1>2, <2>1, <2>3
    <2>5. PICK l \in 1 .. n : cand[l] = x
        BY <1>2, <2>1
    <2>6. cand[j].score \in Int /\ x.score \in Int
        <3>1. cand[j] \in Entry /\ cand[l] \in Entry
            BY DEF Candidates, n
        <3> QED BY <2>5, <3>1 DEF Entry
    <2>7. cand[j].score = near(id) /\ x.score = near(x.id)
        BY <1>5, <1>6, <2>1, <2>2
    <2>8. x.id = list[i]
        BY <1>9 DEF x
    <2> QED BY <2>4, <2>6, <2>7, <2>8
<1>13. Nearest(list, q, metric, k)
    BY <1>7, <1>8, <1>10, <1>11, <1>12 DEF Nearest, near
<1> QED BY <1>13 DEF list

\* search returns the nearest ids.
LEMMA SearchFindsNearest ==
    ASSUME NoNaN, EngineInv, RowsAreVectors(vectors),
           NEW q \in Query, NEW metric \in Metric, NEW k \in Nat
    PROVE  LET found == VectorSearch(vectors, q.vec, k, metric)
           IN  /\ Nearest([i \in DOMAIN found |-> found[i].id], q, metric, k)
               /\ Len(found) = Least(k, Cardinality(Indexed))
<1> DEFINE cand == Scan(vectors, q.vec, metric)
           found == VectorSearch(vectors, q.vec, k, metric)
           n == Len(vectors.ids)
<1>1. VectorShape(vectors) /\ n \in Nat /\ NaN \notin Int
    BY DEF EngineInv, IndexInv, VectorShape, NoNaN
<1>2. /\ Candidates(cand, n)
      /\ \A i \in 1 .. n :
             cand[i] = [id |-> vectors.ids[i],
                        score |-> Similarity(metric, q.vec, Row(vectors, i))]
    BY RowsAreCandidates
<1>3. Best(found, cand, k, n)
    <2>1. CASE k > 0
        BY <1>1, <1>2, <2>1, SearchIsBest
    <2>2. CASE k = 0
        <3>1. Kept(vectors, q.vec, k, metric) = <<>>
            BY <2>2 DEF Kept
        <3>2. found \in Seq(Entry) /\ Len(found) = 0
            <4>1. <<>> \in Seq(Entry) /\ Len(<<>>) = 0
                OBVIOUS
            <4>2. found = SortByScore(<<>>)
                BY <3>1 DEF VectorSearch
            <4> HIDE DEF found
            <4> QED BY <4>1, <4>2, SortSorts
        <3>3. Least(k, n) = 0
            BY <1>1, <2>2 DEF Least
        <3> HIDE DEF found
        <3> QED BY <3>2, <3>3 DEF Best, Distinct, In
    <2> QED BY <2>1, <2>2
<1> HIDE DEF cand, found
<1>4. Nearest([i \in DOMAIN found |-> found[i].id], q, metric, k)
    BY <1>1, <1>2, <1>3, BestAreNearest DEF n
<1>5. found \in Seq(Entry)
    BY <1>3 DEF Best
<1>6. Len(found) = Least(k, Cardinality(Indexed))
    <2> DEFINE list == [i \in DOMAIN found |-> found[i].id]
               m == Least(k, Cardinality(Indexed))
    <2>1. DOMAIN list = 1 .. m /\ DOMAIN list = 1 .. Len(found) /\ Len(found) \in Nat
        BY <1>4, <1>5 DEF Nearest
    <2>2. m \in Nat
        BY <1>4, FS_CardinalityType DEF Nearest, Least
    <2> HIDE DEF list, m
    <2> QED BY <2>1, <2>2 DEF m
<1> QED BY <1>4, <1>6 DEF found

\* In every metric a vector search returns the k best rows, or all there are,
\* best first, for any number of rows in any order: the lanes of dot and l2_sq
\* add up every component, the rows offered to the bounded heap keep the best k,
\* and the sort orders them (vector.rs: search, dot, l2_sq).
THEOREM SearchExact == ASSUME NoNaN PROVE Spec => []SearchIsTopK
<1>1. EngineInv /\ RowsAreVectors(vectors) => SearchIsTopK
    <2> SUFFICES ASSUME EngineInv, RowsAreVectors(vectors),
                        NEW q \in Query, NEW metric \in Metric,
                        NEW k \in 1 .. Cardinality(Id)
                 PROVE  LET found == VectorSearch(vectors, q.vec, k, metric)
                            score == [id \in Indexed |->
                                Similarity(metric, q.vec, Row(vectors, Position(vectors, id)))]
                            left == Indexed \ {found[i].id : i \in DOMAIN found}
                        IN  /\ Len(found) = Least(k, Cardinality(Indexed))
                            /\ Cardinality(left) = Cardinality(Indexed) - Len(found)
                            /\ \A i, j \in DOMAIN found :
                                  i < j => score[found[i].id] >= score[found[j].id]
                            /\ \A i \in DOMAIN found, id \in left :
                                  score[found[i].id] >= score[id]
        BY DEF SearchIsTopK
    <2> DEFINE found == VectorSearch(vectors, q.vec, k, metric)
               score == [id \in Indexed |->
                            Similarity(metric, q.vec, Row(vectors, Position(vectors, id)))]
               list == [i \in DOMAIN found |-> found[i].id]
               F == {found[i].id : i \in DOMAIN found}
               m == Least(k, Cardinality(Indexed))
    <2>1. Nearest(list, q, metric, k) /\ Len(found) = m
        <3>1. k \in Nat
            OBVIOUS
        <3> QED BY <3>1, SearchFindsNearest
    <2>2. \A id \in Indexed : score[id] = Near(q, metric, id)
        BY DEF Near
    <2>3. /\ DOMAIN found = DOMAIN list
          /\ \A i \in DOMAIN list : list[i] = found[i].id
          /\ F = {list[i] : i \in DOMAIN list}
        OBVIOUS
    <2> HIDE DEF found, score, list, F
    <2>4. /\ IsFiniteSet(Indexed) /\ DOMAIN list = 1 .. m
          /\ \A i \in 1 .. m : list[i] \in Indexed
          /\ \A i, j \in 1 .. m : list[i] = list[j] => i = j
        BY <2>1 DEF Nearest
    <2>5. m \in Nat
        BY <2>4, FS_CardinalityType DEF Least
    <2> HIDE DEF m
    <2>6. Cardinality(Indexed \ F) = Cardinality(Indexed) - m
        <3>1. F = Values(list, m) /\ F \subseteq Indexed
            BY <2>3, <2>4 DEF Values
        <3>2. Cardinality(F) = m
            BY <2>4, <2>5, <3>1, CountOfDistinct
        <3>3. Indexed \cap F = F
            BY <3>1
        <3>4. Cardinality(Indexed \ F) = Cardinality(Indexed) - Cardinality(Indexed \cap F)
            BY <2>4, FS_Difference
        <3> QED BY <3>2, <3>3, <3>4
    <2>7. \A i, j \in DOMAIN found : i < j => score[found[i].id] >= score[found[j].id]
        BY <2>1, <2>2, <2>3, <2>4 DEF Nearest
    <2>8. \A i \in DOMAIN found, id \in Indexed \ F : score[found[i].id] >= score[id]
        BY <2>1, <2>2, <2>3, <2>4 DEF Nearest
    <2> QED BY <2>1, <2>6, <2>7, <2>8 DEF found, score, F, m
<1> QED BY <1>1, EngineInvariance, RowsInvariance, PTL

---------------------------------------------------------------------------
(* Queries *)

\* list has no value twice, and those of S only.
ListOver(list, m, S) ==
    /\ list \in [1 .. m -> S]
    /\ \A i, j \in 1 .. m : list[i] = list[j] => i = j

\* A function on 1 .. m is a sequence of that length.
LEMMA LengthOf ==
    ASSUME NEW m \in Nat, NEW S, NEW list \in [1 .. m -> S]
    PROVE  list \in Seq(S) /\ Len(list) = m
OBVIOUS

\* truncate and take keep the first k.
LEMMA FirstOfIs ==
    ASSUME NEW m \in Nat, NEW S, NEW list, ListOver(list, m, S), NEW k \in Nat
    PROVE  /\ Least(k, m) \in Nat /\ Least(k, m) <= m
           /\ ListOver(FirstOf(list, k), Least(k, m), S)
           /\ \A i \in 1 .. Least(k, m) : FirstOf(list, k)[i] = list[i]
<1> DEFINE l == Least(k, m)
           new == FirstOf(list, k)
<1>1. list \in Seq(S) /\ Len(list) = m /\ list \in [1 .. m -> S]
    BY LengthOf DEF ListOver
<1>2. l \in Nat /\ l <= m /\ l = IF k < m THEN k ELSE m
    BY DEF Least
<1>3. new \in [1 .. l -> S] /\ \A i \in 1 .. l : new[i] = list[i]
    <2>1. CASE k < m
        <3>1. new = SubSeq(list, 1, k) /\ l = k
            BY <1>1, <1>2, <2>1 DEF FirstOf
        <3>2. \A i \in 1 .. k : list[i] \in S
            BY <1>1, <2>1
        <3>3. /\ SubSeq(list, 1, k) \in Seq(S)
              /\ Len(SubSeq(list, 1, k)) = IF 1 <= k THEN k - 1 + 1 ELSE 0
              /\ \A i \in 1 .. k - 1 + 1 : SubSeq(list, 1, k)[i] = list[1 + i - 1]
            BY <3>2, SubSeqProperties
        <3>4. Len(SubSeq(list, 1, k)) = k
            BY <3>3
        <3>5. SubSeq(list, 1, k) \in [1 .. k -> S]
            <4> DEFINE t == SubSeq(list, 1, k)
            <4>1. t \in Seq(S) /\ Len(t) = k
                BY <3>3, <3>4
            <4> HIDE DEF t
            <4>2. t = [i \in 1 .. k |-> t[i]] /\ \A i \in 1 .. k : t[i] \in S
                BY <4>1, ElementOfSeq
            <4>3. t \in [1 .. k -> S]
                BY <4>2
            <4> QED BY <4>3 DEF t
        <3>6. \A i \in 1 .. k : i \in 1 .. k - 1 + 1 /\ 1 + i - 1 = i
            OBVIOUS
        <3> QED BY <3>1, <3>3, <3>5, <3>6
    <2>2. CASE ~ (k < m)
        <3>1. new = list /\ l = m
            BY <1>1, <1>2, <2>2 DEF FirstOf
        <3> QED BY <1>1, <3>1
    <2> QED BY <2>1, <2>2
<1>4. \A i \in 1 .. l : i \in 1 .. m
    BY <1>2
<1> HIDE DEF new, l
<1>5. \A i, j \in 1 .. l : new[i] = new[j] => i = j
    BY <1>3, <1>4 DEF ListOver
<1> QED BY <1>2, <1>3, <1>5 DEF new, l, ListOver

\* A ranking has every id of a finite map once, best first.
LEMMA RankingIs ==
    ASSUME NEW score, IsFiniteSet(DOMAIN score), NEW s \in Rankings(score)
    PROVE  /\ Cardinality(DOMAIN score) \in Nat
           /\ ListOver(s, Cardinality(DOMAIN score), DOMAIN score)
           /\ \A id \in DOMAIN score : \E i \in 1 .. Cardinality(DOMAIN score) : s[i] = id
           /\ \A i, j \in 1 .. Cardinality(DOMAIN score) : i < j => score[s[i]] >= score[s[j]]
<1> DEFINE D == DOMAIN score
           n == Cardinality(D)
<1>1. n \in Nat
    BY FS_CardinalityType
<1>2. s \in Injection(1 .. n, D) /\ \A i, j \in DOMAIN s : i < j => score[s[i]] >= score[s[j]]
    BY DEF Rankings
<1> HIDE DEF D
<1>3. s \in [1 .. n -> D] /\ \A i, j \in 1 .. n : s[i] = s[j] => i = j
    BY <1>2 DEF Injection, IsInjective
<1>4. IsFiniteSet(D)
    BY DEF D
<1>5. Cardinality(1 .. n) = n
    <2>1. Cardinality(1 .. n) = IF 1 > n THEN 0 ELSE n - 1 + 1
        BY <1>1, FS_Interval
    <2> HIDE DEF n
    <2> QED BY <1>1, <2>1
<1>6. s \in Surjection(1 .. n, D)
    <2>1. Cardinality(1 .. n) = Cardinality(D)
        BY <1>5
    <2> QED BY <1>2, <1>4, <2>1, FS_Injection
<1>7. \A id \in D : \E i \in 1 .. n : s[i] = id
    BY <1>6 DEF Surjection
<1> HIDE DEF n
<1> QED BY <1>1, <1>2, <1>3, <1>7 DEF n, D, ListOver

\* The pool has room for the answer.
LEMMA PoolCovers ==
    ASSUME NEW k \in Nat
    PROVE  Pool(k) \in Nat /\ Pool(k) >= k
<1> DEFINE wide == k * CANDIDATE_POOL_MULTIPLIER
<1>1. wide \in Nat /\ wide >= k
    <2>1. CANDIDATE_POOL_MULTIPLIER \in Nat /\ 1 <= CANDIDATE_POOL_MULTIPLIER
        BY EngineAssumption
    <2>2. 1 * k <= CANDIDATE_POOL_MULTIPLIER * k /\ CANDIDATE_POOL_MULTIPLIER * k \in Nat
        BY <2>1, ProductMonotone
    <2> QED BY <2>1, <2>2
<1>2. MIN_CANDIDATE_POOL \in Nat
    BY EngineAssumption
<1>3. Pool(k) = IF wide >= MIN_CANDIDATE_POOL THEN wide ELSE MIN_CANDIDATE_POOL
    BY DEF Pool
<1> HIDE DEF wide
<1> QED BY <1>1, <1>2, <1>3

\* The two lists a query fuses, and what it returns of their ids.
ByVector(q, k) ==
    LET found == VectorSearch(vectors, q.vec, Pool(k), "Cosine")
    IN  [i \in DOMAIN found |-> found[i].id]

Hits(ids) == [i \in DOMAIN ids |-> [id |-> ids[i], doc |-> GetBlob(ids[i])]]

AnswerFrom(hits, q, k, byText, ids) ==
    /\ byText \in TextSearch(text, q.text, Pool(k))
    /\ ids \in Rankings(Fused(<<ByVector(q, k), byText>>))
    /\ hits = Hits(FirstOf(ids, k))

\* Every answer is made so.
LEMMA AnswersAre ==
    ASSUME NEW q, NEW k, NEW hits \in Answers(q, k)
    PROVE  \E byText, ids : AnswerFrom(hits, q, k, byText, ids)
<1> DEFINE byVector == ByVector(q, k)
           texts == TextSearch(text, q.text, Pool(k))
           fused == UNION {ReciprocalRankFusion(<<byVector, byText>>) : byText \in texts}
<1>1. hits \in {Hits(FirstOf(ids, k)) : ids \in fused}
    BY DEF Answers, ByVector, Hits
<1> HIDE DEF byVector, texts
<1>2. PICK ids \in fused : hits = Hits(FirstOf(ids, k))
    BY <1>1
<1>3. PICK byText \in texts : ids \in ReciprocalRankFusion(<<byVector, byText>>)
    BY <1>2
<1> QED BY <1>2, <1>3 DEF ReciprocalRankFusion, AnswerFrom, byVector, texts

\* A text search finds documents of the index only.
LEMMA TextHitsIndexed ==
    ASSUME NEW index, TextShape(index), NEW query
    PROVE  DOMAIN TextScores(index, query) \subseteq DOMAIN index.docLengths
<1> DEFINE found == {t \in DOMAIN index.postings : Counted(query, t) > 0}
           docs(t) == {p.docId : p \in {index.postings[t][i] : i \in DOMAIN index.postings[t]}}
           all == UNION {docs(t) : t \in found}
<1>1. DOMAIN TextScores(index, query) = all
    BY DEF TextScores
<1>2. ASSUME NEW d \in all PROVE d \in DOMAIN index.docLengths
    <2>1. PICK t \in found : d \in docs(t)
        BY <1>2
    <2>2. PICK i \in DOMAIN index.postings[t] : d = index.postings[t][i].docId
        BY <2>1
    <2>3. ListShape(index, index.postings[t])
        BY DEF TextShape
    <2> QED BY <2>2, <2>3 DEF ListShape, In
<1> HIDE DEF all
<1> QED BY <1>1, <1>2

\* And so are the hits it returns.
LEMMA TextListIndexed ==
    ASSUME NEW index, TextShape(index), NEW query, NEW k \in Nat,
           NEW list \in TextSearch(index, query, k)
    PROVE  IdsOf(list) \subseteq DOMAIN index.docLengths
<1>1. CASE list = <<>>
    BY <1>1 DEF IdsOf
<1>2. CASE list # <<>>
    <2> DEFINE score == TextScores(index, query)
               n == Cardinality(DOMAIN score)
    <2>1. PICK r \in Rankings(score) : list = FirstOf(r, k)
        BY <1>2 DEF TextSearch
    <2>2. DOMAIN score \subseteq DOMAIN index.docLengths /\ IsFiniteSet(DOMAIN score)
        BY TextHitsIndexed, FS_Subset DEF TextShape
    <2> HIDE DEF score
    <2>3. n \in Nat /\ ListOver(r, n, DOMAIN score)
        BY <2>1, <2>2, RankingIs
    <2> HIDE DEF n
    <2>4. ListOver(list, Least(k, n), DOMAIN score)
        BY <2>1, <2>3, FirstOfIs
    <2> QED BY <2>2, <2>4 DEF ListOver, IdsOf
<1> QED BY <1>1, <1>2

\* What fusing two lists scores: the ids of either.
LEMMA FusedIds ==
    ASSUME NEW a, NEW b
    PROVE  DOMAIN Fused(<<a, b>>) = IdsOf(a) \cup IdsOf(b)
<1> DEFINE lists == <<a, b>>
<1>1. DOMAIN Fused(lists) = UNION {IdsOf(lists[n]) : n \in DOMAIN lists}
    BY DEF Fused
<1>2. DOMAIN lists = {1, 2} /\ lists[1] = a /\ lists[2] = b
    OBVIOUS
<1> HIDE DEF lists
<1>3. UNION {IdsOf(lists[n]) : n \in DOMAIN lists} = IdsOf(a) \cup IdsOf(b)
    BY <1>2
<1> QED BY <1>1, <1>3 DEF lists

\* The ids of an answer: the first k, in the order of the fused scores, of those that
\* one of the lists has.
Answered(hits, ids, k, D, fused) ==
    /\ D \subseteq Indexed /\ IsFiniteSet(D) /\ Cardinality(D) \in Nat
    /\ ListOver(ids, Cardinality(D), D)
    /\ \A id \in D : \E i \in 1 .. Cardinality(D) : ids[i] = id
    /\ \A i, j \in 1 .. Cardinality(D) : i < j => fused[ids[i]] >= fused[ids[j]]
    /\ DOMAIN hits = 1 .. Least(k, Cardinality(D))
    /\ Len(hits) = Least(k, Cardinality(D))
    /\ \A i \in DOMAIN hits : hits[i] = [id |-> ids[i], doc |-> store[ids[i]]]

\* That is what an answer is.
LEMMA AnswerIs ==
    ASSUME NoNaN, EngineInv, RowsAreVectors(vectors), NEW q \in Query, NEW k \in Nat,
           NEW hits, NEW byText, NEW ids, AnswerFrom(hits, q, k, byText, ids)
    PROVE  /\ Nearest(ByVector(q, k), q, "Cosine", Pool(k))
           /\ Answered(hits, ids, k, IdsOf(ByVector(q, k)) \cup IdsOf(byText),
                       Fused(<<ByVector(q, k), byText>>))
<1> DEFINE byVector == ByVector(q, k)
           fused == Fused(<<byVector, byText>>)
           D == IdsOf(byVector) \cup IdsOf(byText)
           n == Cardinality(D)
           m == Least(k, n)
           first == FirstOf(ids, k)
<1>1. Pool(k) \in Nat
    BY PoolCovers
<1>2. Nearest(byVector, q, "Cosine", Pool(k))
    BY <1>1, SearchFindsNearest DEF ByVector, Metric
<1> HIDE DEF byVector
<1>3. IsFiniteSet(Indexed) /\ IdsOf(byVector) \subseteq Indexed
    BY <1>2 DEF Nearest, IdsOf
<1>4. IdsOf(byText) \subseteq Indexed
    <2>1. TextShape(text) /\ Indexed = DOMAIN text.docLengths
        BY IdsOfVectors DEF EngineInv, IndexInv
    <2> QED BY <1>1, <2>1, TextListIndexed DEF AnswerFrom
<1>5. D \subseteq Indexed /\ IsFiniteSet(D)
    <2>1. D \in SUBSET Indexed
        BY <1>3, <1>4
    <2> HIDE DEF D
    <2> QED BY <1>3, <2>1, FS_Subset
<1>6. DOMAIN fused = D
    BY FusedIds
<1>7. ids \in Rankings(fused) /\ hits = Hits(first)
    BY DEF AnswerFrom, byVector
<1> HIDE DEF fused, D
<1>8. /\ n \in Nat /\ ListOver(ids, n, D)
      /\ \A id \in D : \E i \in 1 .. n : ids[i] = id
      /\ \A i, j \in 1 .. n : i < j => fused[ids[i]] >= fused[ids[j]]
    BY <1>5, <1>6, <1>7, RankingIs
<1> HIDE DEF n
<1>9. m \in Nat /\ ListOver(first, m, D) /\ \A i \in 1 .. m : first[i] = ids[i]
    BY <1>8, FirstOfIs
<1> HIDE DEF m, first
<1>10. /\ DOMAIN hits = 1 .. m
       /\ \A i \in 1 .. m : hits[i] = [id |-> ids[i], doc |-> store[ids[i]]]
    <2>1. DOMAIN first = 1 .. m
        BY <1>9 DEF ListOver
    <2> QED BY <1>7, <1>9, <2>1 DEF Hits, GetBlob
<1>11. Len(hits) = m
    <2>1. hits = [i \in 1 .. m |-> [id |-> ids[i], doc |-> store[ids[i]]]]
        BY <1>7, <1>9, <1>10 DEF Hits
    <2>2. hits \in [1 .. m -> {[id |-> ids[i], doc |-> store[ids[i]]] : i \in 1 .. m}]
        BY <2>1
    <2> QED BY <1>9, <2>2, LengthOf
<1>12. Answered(hits, ids, k, D, fused)
    BY <1>5, <1>8, <1>10, <1>11 DEF Answered, m, n
<1> QED BY <1>2, <1>12 DEF D, fused, byVector

\* A query returns k documents if there are as many, none of them twice, each with
\* what the store holds of it, and no deleted one: the pool is never too small for
\* the answer, and fusing loses and doubles no id (engine.rs: query; fusion.rs).
THEOREM QueriesAnswered == ASSUME NoNaN PROVE Spec => []QueryAnswers
<1>1. EngineInv /\ RowsAreVectors(vectors) /\ IndexesFollowStore => QueryAnswers
    <2> SUFFICES ASSUME EngineInv, RowsAreVectors(vectors), IndexesFollowStore, Idle,
                        NEW q \in Query, NEW k \in 0 .. Cardinality(Id),
                        NEW hits \in Answers(q, k)
                 PROVE  /\ Len(hits) <= k
                        /\ failed = {} => Len(hits) = Least(k, Cardinality(Live))
                        /\ \A i, j \in DOMAIN hits : hits[i].id = hits[j].id => i = j
                        /\ \A i \in DOMAIN hits : hits[i].id \notin failed => hits[i].doc # None
        BY DEF QueryAnswers
    <2>1. k \in Nat
        OBVIOUS
    <2>2. PICK byText, ids : AnswerFrom(hits, q, k, byText, ids)
        BY AnswersAre
    <2> DEFINE byVector == ByVector(q, k)
               fused == Fused(<<byVector, byText>>)
               D == IdsOf(byVector) \cup IdsOf(byText)
               n == Cardinality(D)
               m == Least(k, n)
               all == Cardinality(Indexed)
    <2>3. Nearest(byVector, q, "Cosine", Pool(k)) /\ Answered(hits, ids, k, D, fused)
        BY <2>1, <2>2, AnswerIs
    <2> HIDE DEF byVector, fused
    <2>4. IdsOf(byVector) \subseteq D
        OBVIOUS
    <2> HIDE DEF D
    <2>5. /\ D \subseteq Indexed /\ IsFiniteSet(D) /\ n \in Nat
          /\ ListOver(ids, n, D)
          /\ DOMAIN hits = 1 .. m /\ Len(hits) = m
          /\ \A i \in 1 .. m : hits[i] = [id |-> ids[i], doc |-> store[ids[i]]]
        BY <2>3 DEF Answered
    <2> HIDE DEF n
    <2>6. m \in Nat /\ m <= k /\ m <= n /\ \A i \in 1 .. m : i \in 1 .. n
        BY <2>1, <2>5 DEF Least
    <2>7. \A i \in 1 .. m : hits[i].id = ids[i] /\ ids[i] \in D /\ hits[i].doc = store[ids[i]]
        BY <2>5, <2>6 DEF ListOver
    <2> HIDE DEF m
    <2>8. \A i, j \in 1 .. m : hits[i].id = hits[j].id => i = j
        BY <2>5, <2>6, <2>7 DEF ListOver
    <2>9. ASSUME NEW i \in 1 .. m, hits[i].id \notin failed PROVE hits[i].doc # None
        <3> DEFINE id == ids[i]
        <3>1. id \in Indexed /\ id \in Id \ failed
            <4>1. vectors.ids \in Seq(Id)
                BY DEF EngineInv, IndexInv, VectorShape
            <4>2. Indexed \subseteq Id
                BY <4>1, ElementOfSeq DEF Indexed
            <4> QED BY <2>5, <2>7, <2>9, <4>2
        <3> HIDE DEF id
        <3>2. Indexed \cap (Id \ failed) = Live \cap (Id \ failed)
            BY DEF IndexesFollowStore, VectorsFollow
        <3>3. id \in Live
            BY <3>1, <3>2
        <3> QED BY <2>7, <3>3 DEF Live, id
    <2>10. ASSUME failed = {} PROVE Len(hits) = Least(k, Cardinality(Live))
        <3>1. Indexed = Live
            <4>1. vectors.ids \in Seq(Id)
                BY DEF EngineInv, IndexInv, VectorShape
            <4>2. Indexed \subseteq Id
                BY <4>1, ElementOfSeq DEF Indexed
            <4>3. Indexed \cap (Id \ failed) = Live \cap (Id \ failed)
                BY DEF IndexesFollowStore, VectorsFollow
            <4> QED BY <2>10, <4>2, <4>3 DEF Live
        <3>2. IsFiniteSet(Indexed) /\ all \in Nat
            BY <2>3, FS_CardinalityType DEF Nearest
        <3> DEFINE p == Pool(k)
                   l == Least(p, all)
        <3>3. p \in Nat /\ p >= k
            BY <2>1, PoolCovers
        <3>4. l \in Nat /\ l = IF p <= all THEN p ELSE all
            BY <3>2, <3>3 DEF Least
        <3>5. n <= all
            BY <2>5, <3>2, FS_Subset DEF n
        <3>6. l <= n
            <4>1. /\ byVector \in [1 .. l -> Indexed]
                  /\ \A i, j \in 1 .. l : byVector[i] = byVector[j] => i = j
                BY <2>3 DEF Nearest
            <4> HIDE DEF l
            <4>2. Cardinality(Values(byVector, l)) = l
                BY <3>4, <4>1, CountOfDistinct
            <4>3. Values(byVector, l) \in SUBSET D
                BY <2>4, <4>1 DEF Values, IdsOf
            <4> QED BY <2>5, <4>2, <4>3, FS_Subset DEF n
        <3> HIDE DEF all, p, l
        <3>7. m = Least(k, all)
            BY <2>1, <2>5, <3>2, <3>3, <3>4, <3>5, <3>6 DEF Least, m
        <3> QED BY <2>5, <3>1, <3>7 DEF all
    <2> QED BY <2>5, <2>6, <2>8, <2>9, <2>10
<1> QED BY <1>1, EngineInvariance, RowsInvariance, StoreFollowed, PTL

---------------------------------------------------------------------------
(* What fusing keeps of the order *)

\* A list with each id once adds to an id the contribution of its rank, or nothing.
LEMMA GainIs ==
    ASSUME NEW m \in Nat, NEW S, NEW list, ListOver(list, m, S), NEW id
    PROVE  /\ Gain(list, id) \in Nat
           /\ id \notin IdsOf(list) => Gain(list, id) = 0
           /\ \A i \in 1 .. m : list[i] = id => Gain(list, id) = Contribution(i)
<1> DEFINE at == {i \in DOMAIN list : list[i] = id}
           c == [i \in 1 .. m |-> Contribution(i)]
           g == [i \in at |-> Contribution(i)]
<1>1. DOMAIN list = 1 .. m /\ \A i, j \in 1 .. m : list[i] = list[j] => i = j
    BY DEF ListOver
<1>2. ASSUME NEW i \in 1 .. m PROVE Contribution(i) \in Nat
    <2>1. KConst \in Nat /\ Unit \in Nat
        BY FusionAssumption
    <2>2. KConst + i \in Nat /\ KConst + i > 0
        BY <2>1
    <2> DEFINE d == KConst + i
    <2> HIDE DEF d
    <2>3. Unit \div d \in Nat
        BY <2>1, <2>2 DEF d
    <2> QED BY <2>3 DEF Contribution, d
<1>3. Gain(list, id) = Sum(g)
    BY DEF Gain
<1>4. ASSUME NEW i \in 1 .. m, list[i] = id PROVE Sum(g) = Contribution(i)
    <2>1. at = {i}
        BY <1>1, <1>4
    <2>2. c[i] = Contribution(i) /\ c[i] \in Nat
        BY <1>2
    <2>3. g = Only(c, {i})
        BY <2>1 DEF Only
    <2> HIDE DEF c, g
    <2>4. Sum(Only(c, {i})) = c[i]
        BY <2>2, SumOfOne
    <2> QED BY <2>2, <2>3, <2>4
<1>5. ASSUME id \notin IdsOf(list) PROVE Sum(g) = 0
    <2>1. at = {}
        BY <1>5 DEF IdsOf
    <2>2. DOMAIN g = {} /\ IsFiniteSet({}) /\ \A i \in {} : g[i] \in Nat
        BY <2>1, FS_EmptySet
    <2> HIDE DEF g
    <2> QED BY <2>2, SumTakesAny
<1>6. ASSUME id \in IdsOf(list) PROVE \E i \in 1 .. m : list[i] = id
    BY <1>1, <1>6 DEF IdsOf
<1> HIDE DEF g, at
<1>7. Sum(g) \in Nat
    BY <1>2, <1>4, <1>5, <1>6
<1> QED BY <1>3, <1>4, <1>5, <1>7

\* The score of an id is what the two lists add.
LEMMA FusedOfTwo ==
    ASSUME NEW a, NEW b, NEW id \in IdsOf(a) \cup IdsOf(b),
           Gain(a, id) \in Nat, Gain(b, id) \in Nat
    PROVE  Fused(<<a, b>>)[id] = Gain(a, id) + Gain(b, id)
<1> DEFINE lists == <<a, b>>
           f == [n \in DOMAIN lists |-> Gain(lists[n], id)]
<1>1. DOMAIN lists = {1, 2} /\ lists[1] = a /\ lists[2] = b
    OBVIOUS
<1>2. Fused(lists)[id] = Sum(f)
    <2>1. id \in UNION {IdsOf(lists[n]) : n \in DOMAIN lists}
        <3> HIDE DEF lists
        <3> QED BY <1>1
    <2> HIDE DEF f
    <2> QED BY <2>1 DEF Fused, f
<1> HIDE DEF lists
<1>3. DOMAIN f = {1, 2} /\ f[1] = Gain(a, id) /\ f[2] = Gain(b, id)
    BY <1>1
<1>4. IsFiniteSet({1, 2})
    <2>1. IsFiniteSet({1})
        BY FS_Singleton
    <2>2. IsFiniteSet({1} \cup {2})
        BY <2>1, FS_AddElement
    <2>3. {1, 2} = {1} \cup {2}
        OBVIOUS
    <2> QED BY <2>2, <2>3
<1> DEFINE h == Without(f, 1)
<1>5. /\ Sum(f) = f[1] + Sum(h) /\ Sum(h) \in Nat
    <2>1. \A d \in {1, 2} : f[d] \in Nat
        BY <1>3
    <2> HIDE DEF f
    <2> QED BY <1>3, <1>4, <2>1, SumTakesAny
<1>6. h = Only(f, {2})
    BY <1>3 DEF Without, Only
<1> HIDE DEF f, h
<1>7. Sum(h) = f[2]
    BY <1>3, <1>6, SumOfOne
<1> QED BY <1>2, <1>3, <1>5, <1>7 DEF lists

\* Where a list has y, it has x before it.
Ahead(list, x, y) ==
    \A j \in DOMAIN list : list[j] = y => \E i \in DOMAIN list : i < j /\ list[i] = x

\* Then it adds more to x, or nothing to y.
LEMMA AheadGains ==
    ASSUME UnitIsFine, NEW docs \in SUBSET Id, IsFiniteSet(docs),
           NEW m \in Nat, m <= Cardinality(docs), NEW S, NEW list, ListOver(list, m, S),
           NEW x, NEW y, Ahead(list, x, y)
    PROVE  /\ Gain(list, x) >= Gain(list, y)
           /\ y \in IdsOf(list) => Gain(list, x) > Gain(list, y) /\ x \in IdsOf(list)
<1>1. DOMAIN list = 1 .. m
    BY DEF ListOver
<1>2. Gain(list, x) \in Nat /\ Gain(list, y) \in Nat
    BY GainIs
<1>3. CASE y \notin IdsOf(list)
    <2>1. Gain(list, y) = 0
        BY <1>3, GainIs
    <2> QED BY <1>2, <1>3, <2>1
<1>4. CASE y \in IdsOf(list)
    <2>1. PICK j \in 1 .. m : list[j] = y
        BY <1>1, <1>4 DEF IdsOf
    <2>2. PICK i \in 1 .. m : i < j /\ list[i] = x
        BY <1>1, <2>1 DEF Ahead
    <2>3. Gain(list, x) = Contribution(i) /\ Gain(list, y) = Contribution(j)
        BY <2>1, <2>2, GainIs
    <2>4. Contribution(i) > Contribution(j)
        <3>1. Cardinality(docs) \in Nat
            BY FS_CardinalityType
        <3>2. i \in 1 .. Cardinality(docs) /\ j \in 1 .. Cardinality(docs)
            BY <3>1
        <3> QED BY <2>2, <3>2 DEF UnitIsFine
    <2>5. x \in IdsOf(list)
        BY <1>1, <2>2 DEF IdsOf
    <2> QED BY <1>2, <2>3, <2>4, <2>5
<1> QED BY <1>3, <1>4

\* A list in the order of a score that is higher for x than for y, and that is not
\* without x where it has y, has x before y.
LEMMA HigherIsAhead ==
    ASSUME NEW m \in Nat, NEW list, DOMAIN list = 1 .. m, NEW score,
           \A i, j \in 1 .. m : i < j => score[list[i]] >= score[list[j]],
           NEW x, NEW y, score[x] \in Int, score[y] \in Int, score[x] > score[y],
           (\E j \in 1 .. m : list[j] = y) => \E i \in 1 .. m : list[i] = x
    PROVE  Ahead(list, x, y)
<1> SUFFICES ASSUME NEW j \in 1 .. m, list[j] = y
             PROVE  \E i \in 1 .. m : i < j /\ list[i] = x
    BY DEF Ahead
<1>1. PICK i \in 1 .. m : list[i] = x
    OBVIOUS
<1>2. i # j
    BY <1>1
<1>3. ~ (j < i)
    <2>1. j < i => score[y] >= score[x]
        BY <1>1
    <2> QED BY <2>1
<1> QED BY <1>1, <1>2, <1>3

\* What a vector search finds has the nearer of two documents first.
LEMMA NearerIsAhead ==
    ASSUME NoNaN, EngineInv, RowsAreVectors(vectors), VectorsFollow(Id),
           NEW q \in Query, NEW k \in Nat, NEW x \in Live, NEW y \in Live,
           Similarity("Cosine", q.vec, store[x].vec) > Similarity("Cosine", q.vec, store[y].vec)
    PROVE  /\ Ahead(ByVector(q, k), x, y)
           /\ \E m \in Nat : m <= Cardinality(Live) /\ ListOver(ByVector(q, k), m, Live)
<1> DEFINE list == ByVector(q, k)
           m == Least(Pool(k), Cardinality(Live))
           near(id) == Similarity("Cosine", q.vec, store[id].vec)
           score == [id \in Live |-> near(id)]
<1>1. "Cosine" \in Metric /\ Pool(k) \in Nat /\ VectorShape(vectors)
    BY PoolCovers DEF Metric, EngineInv, IndexInv
<1>2. Indexed = Live
    <2>1. vectors.ids \in Seq(Id)
        BY <1>1 DEF VectorShape
    <2>2. Indexed \subseteq Id
        BY <2>1, ElementOfSeq DEF Indexed
    <2> QED BY <2>2 DEF VectorsFollow, Live
<1>3. Nearest(list, q, "Cosine", Pool(k))
    BY <1>1, SearchFindsNearest DEF ByVector
<1>4. ASSUME NEW id \in Live
      PROVE  Near(q, "Cosine", id) = near(id) /\ near(id) \in Int
    <2> DEFINE p == Position(vectors, id)
               n == Len(vectors.ids)
    <2>1. n \in Nat /\ DOMAIN vectors.ids = 1 .. n
        BY <1>1 DEF VectorShape
    <2>2. p \in 1 .. n /\ vectors.ids[p] = id
        <3>1. \E i \in DOMAIN vectors.ids : vectors.ids[i] = id
            BY <1>2 DEF Indexed
        <3>2. /\ p \in 0 .. n
              /\ p # 0 => vectors.ids[p] = id
              /\ p = 0 => \A i \in DOMAIN vectors.ids : vectors.ids[i] # id
            BY <1>1, PositionFinds
        <3> HIDE DEF p
        <3> QED BY <2>1, <3>1, <3>2
    <2> HIDE DEF p
    <2>3. Row(vectors, p) = store[id].vec
        BY <2>1, <2>2 DEF VectorsFollow, Live
    <2> DEFINE cand == Scan(vectors, q.vec, "Cosine")
               s == Similarity("Cosine", q.vec, Row(vectors, p))
    <2>4. cand[p] = [id |-> vectors.ids[p], score |-> s] /\ cand[p] \in Entry
        <3>1. /\ Candidates(cand, n)
              /\ \A i \in 1 .. n :
                     cand[i] = [id |-> vectors.ids[i],
                                score |-> Similarity("Cosine", q.vec, Row(vectors, i))]
            BY <1>1, RowsAreCandidates
        <3> HIDE DEF cand, n
        <3> QED BY <2>2, <3>1 DEF Candidates
    <2> HIDE DEF cand, s
    <2>5. s \in Int
        BY <2>4 DEF Entry
    <2> QED BY <2>3, <2>5 DEF Near, s, p
<1> HIDE DEF list, near
<1>5. /\ IsFiniteSet(Live)
      /\ list \in [1 .. m -> Live]
      /\ \A i, j \in 1 .. m : list[i] = list[j] => i = j
      /\ \A i, j \in 1 .. m : i < j => Near(q, "Cosine", list[i]) >= Near(q, "Cosine", list[j])
      /\ \A i \in 1 .. m, id \in Live :
            (\A j \in 1 .. m : list[j] # id) => Near(q, "Cosine", list[i]) >= Near(q, "Cosine", id)
    <2>1. list \in [1 .. m -> Live]
        BY <1>2, <1>3 DEF Nearest
    <2> HIDE DEF m
    <2>2. DOMAIN list = 1 .. m
        BY <2>1
    <2> QED BY <1>2, <1>3, <2>1, <2>2 DEF Nearest
<1>6. m \in Nat /\ m <= Cardinality(Live)
    BY <1>1, <1>5, FS_CardinalityType DEF Least
<1> HIDE DEF m
<1>7. /\ DOMAIN list = 1 .. m /\ \A i \in 1 .. m : list[i] \in Live
      /\ \A id \in Live : score[id] = near(id) /\ Near(q, "Cosine", id) = near(id)
      /\ score[x] \in Int /\ score[y] \in Int /\ score[x] > score[y]
    BY <1>4, <1>5 DEF near
<1> HIDE DEF score
<1>8. \A i, j \in 1 .. m : i < j => score[list[i]] >= score[list[j]]
    BY <1>5, <1>7
<1>9. (\E j \in 1 .. m : list[j] = y) => \E i \in 1 .. m : list[i] = x
    <2> SUFFICES ASSUME NEW j \in 1 .. m, list[j] = y, \A i \in 1 .. m : list[i] # x
                 PROVE  FALSE
        OBVIOUS
    <2>1. Near(q, "Cosine", list[j]) >= Near(q, "Cosine", x)
        BY <1>5
    <2>2. score[y] >= score[x]
        BY <1>7, <2>1
    <2> QED BY <1>7, <2>2
<1>10. Ahead(list, x, y)
    BY <1>6, <1>7, <1>8, <1>9, HigherIsAhead
<1>11. ListOver(list, m, Live)
    BY <1>5 DEF ListOver
<1> QED BY <1>6, <1>10, <1>11 DEF list

\* What a text search finds has the better match first.
LEMMA BetterMatchIsAhead ==
    ASSUME IdfIsFine, EngineInv, TextCounts(text), Idle, failed = {}, IsFiniteSet(Live),
           NEW q \in Query, NEW k \in Nat, NEW list \in TextSearch(text, q.text, k),
           NEW x \in Live, NEW y \in Live,
           \/ StoredTextScore(q.text, x) > StoredTextScore(q.text, y)
           \/ StoredTextScore(q.text, y) = 0
    PROVE  /\ Ahead(list, x, y)
           /\ \E m \in Nat : m <= Cardinality(Live) /\ ListOver(list, m, Live)
<1> DEFINE score == TextScores(text, q.text)
           match == [id \in Live |-> StoredTextScore(q.text, id)]
           n == Cardinality(DOMAIN score)
           m == Least(k, n)
<1>1. CASE list = <<>>
    <2>1. DOMAIN list = {} /\ ListOver(list, 0, Live)
        BY <1>1 DEF ListOver
    <2>2. Cardinality(Live) \in Nat
        BY FS_CardinalityType
    <2> QED BY <2>1, <2>2 DEF Ahead
<1>2. CASE list # <<>>
    <2>1. /\ DOMAIN score = {id \in Live : match[id] > 0}
          /\ \A id \in DOMAIN score : score[id] = match[id]
          /\ \A id \in Live : match[id] \in Nat
          /\ match[x] > match[y] \/ match[y] = 0
        BY ScoresFollowStore
    <2>2. PICK r \in Rankings(score) : list = FirstOf(r, k)
        BY <1>2 DEF TextSearch
    <2> HIDE DEF score, match
    <2>3. DOMAIN score \in SUBSET Live
        BY <2>1
    <2>4. IsFiniteSet(DOMAIN score) /\ n \in Nat /\ n <= Cardinality(Live)
        BY <2>3, FS_Subset, FS_CardinalityType
    <2>5. /\ ListOver(r, n, DOMAIN score)
          /\ \A id \in DOMAIN score : \E i \in 1 .. n : r[i] = id
          /\ \A i, j \in 1 .. n : i < j => score[r[i]] >= score[r[j]]
        BY <2>2, <2>4, RankingIs
    <2> HIDE DEF n
    <2>6. /\ m \in Nat /\ m <= n
          /\ ListOver(list, m, DOMAIN score)
          /\ \A i \in 1 .. m : list[i] = r[i]
        <3> DEFINE D == DOMAIN score
        <3>1. n \in Nat /\ ListOver(r, n, D)
            BY <2>4, <2>5
        <3> HIDE DEF D, n
        <3>2. /\ Least(k, n) \in Nat /\ Least(k, n) <= n
              /\ ListOver(FirstOf(r, k), Least(k, n), D)
              /\ \A i \in 1 .. Least(k, n) : FirstOf(r, k)[i] = r[i]
            BY <3>1, FirstOfIs
        <3> QED BY <2>2, <3>2 DEF D
    <2> HIDE DEF m
    <2>7. ListOver(list, m, Live) /\ m <= Cardinality(Live)
        BY <2>3, <2>4, <2>6, FS_CardinalityType DEF ListOver
    <2>8. ASSUME NEW j \in DOMAIN list, list[j] = y
          PROVE  \E i \in DOMAIN list : i < j /\ list[i] = x
        <3>1. j \in 1 .. m /\ DOMAIN list = 1 .. m /\ y \in DOMAIN score
            BY <2>6, <2>8 DEF ListOver
        <3>2. match[y] > 0 /\ match[x] > match[y] /\ match[x] \in Nat /\ match[y] \in Nat
            BY <2>1, <3>1
        <3>3. x \in DOMAIN score
            BY <2>1, <3>2
        <3>4. /\ DOMAIN r = 1 .. n
              /\ score[x] \in Int /\ score[y] \in Int /\ score[x] > score[y]
              /\ \E i \in 1 .. n : r[i] = x
            BY <2>1, <2>5, <3>1, <3>2, <3>3 DEF ListOver
        <3>5. Ahead(r, x, y)
            BY <2>4, <2>5, <3>4, HigherIsAhead
        <3>6. j \in 1 .. n /\ r[j] = y
            BY <2>4, <2>6, <2>8, <3>1
        <3>7. PICK i \in 1 .. n : i < j /\ r[i] = x
            BY <3>4, <3>5, <3>6 DEF Ahead
        <3>8. i \in 1 .. m
            BY <2>6, <3>1, <3>7
        <3> QED BY <2>6, <3>1, <3>7, <3>8
    <2> QED BY <2>6, <2>7, <2>8 DEF Ahead
<1> QED BY <1>1, <1>2

\* Fusing two lists that have x before y gives x the greater score.
LEMMA FusedAhead ==
    ASSUME UnitIsFine, NEW docs \in SUBSET Id, IsFiniteSet(docs),
           NEW a, NEW b, NEW x, NEW y, Ahead(a, x, y), Ahead(b, x, y),
           NEW m \in Nat, m <= Cardinality(docs), ListOver(a, m, docs),
           NEW n \in Nat, n <= Cardinality(docs), ListOver(b, n, docs),
           y \in IdsOf(a) \cup IdsOf(b)
    PROVE  /\ x \in IdsOf(a) \cup IdsOf(b)
           /\ Fused(<<a, b>>)[x] \in Nat /\ Fused(<<a, b>>)[y] \in Nat
           /\ Fused(<<a, b>>)[x] > Fused(<<a, b>>)[y]
<1>1. /\ Gain(a, x) \in Nat /\ Gain(a, y) \in Nat
      /\ Gain(b, x) \in Nat /\ Gain(b, y) \in Nat
    BY GainIs
<1>2. /\ Gain(a, x) >= Gain(a, y)
      /\ y \in IdsOf(a) => Gain(a, x) > Gain(a, y) /\ x \in IdsOf(a)
    BY AheadGains
<1>3. /\ Gain(b, x) >= Gain(b, y)
      /\ y \in IdsOf(b) => Gain(b, x) > Gain(b, y) /\ x \in IdsOf(b)
    BY AheadGains
<1>4. x \in IdsOf(a) \cup IdsOf(b)
    BY <1>2, <1>3
<1>5. /\ Fused(<<a, b>>)[x] = Gain(a, x) + Gain(b, x)
      /\ Fused(<<a, b>>)[y] = Gain(a, y) + Gain(b, y)
    BY <1>1, <1>4, FusedOfTwo
<1>6. Gain(a, x) + Gain(b, x) > Gain(a, y) + Gain(b, y)
    BY <1>1, <1>2, <1>3
<1> QED BY <1>1, <1>4, <1>5, <1>6

\* A document that is nearer to the query than another, and matches it better or where
\* the other does not match, comes first of the two: the pool, ties and the ranks of
\* other documents change nothing about it (engine.rs: query; fusion.rs).
THEOREM BetterComesFirst ==
    ASSUME NoNaN, IdfIsFine, UnitIsFine
    PROVE  Spec => []BetterInBothComesFirst
<1>1. /\ EngineInv /\ RowsAreVectors(vectors)
      /\ IndexesFollowStore /\ TextCounts(text)
      => BetterInBothComesFirst
    <2> SUFFICES ASSUME EngineInv, RowsAreVectors(vectors), IndexesFollowStore,
                        TextCounts(text), Idle, failed = {},
                        NEW q \in Query, NEW x \in Live, NEW y \in Live,
                        Similarity("Cosine", q.vec, store[x].vec) >
                            Similarity("Cosine", q.vec, store[y].vec),
                        \/ StoredTextScore(q.text, x) > StoredTextScore(q.text, y)
                        \/ StoredTextScore(q.text, y) = 0,
                        NEW k \in 1 .. Cardinality(Id), NEW hits \in Answers(q, k),
                        NEW j \in DOMAIN hits, hits[j].id = y
                 PROVE  \E i \in 1 .. j - 1 : hits[i].id = x
        BY DEF BetterInBothComesFirst
    <2>1. k \in Nat
        OBVIOUS
    <2>2. VectorsFollow(Id)
        <3>1. Id \ failed = Id
            OBVIOUS
        <3> QED BY <3>1 DEF IndexesFollowStore
    <2>3. PICK byText, ids : AnswerFrom(hits, q, k, byText, ids)
        BY AnswersAre
    <2> DEFINE byVector == ByVector(q, k)
               fused == Fused(<<byVector, byText>>)
               D == IdsOf(byVector) \cup IdsOf(byText)
               n == Cardinality(D)
               m == Least(k, n)
    <2>4. Nearest(byVector, q, "Cosine", Pool(k)) /\ Answered(hits, ids, k, D, fused)
        BY <2>1, <2>3, AnswerIs
    <2>5. IsFiniteSet(Live) /\ Live \in SUBSET Id
        <3>1. Reflects(text, Live, [d \in Live |-> store[d].text])
            BY ReflectsStore
        <3> QED BY <3>1 DEF Reflects, TextShape, Live
    <2>6. /\ Ahead(byVector, x, y)
          /\ \E l \in Nat : l <= Cardinality(Live) /\ ListOver(byVector, l, Live)
        BY <2>1, <2>2, NearerIsAhead
    <2>7. /\ Ahead(byText, x, y)
          /\ \E l \in Nat : l <= Cardinality(Live) /\ ListOver(byText, l, Live)
        <3>1. Pool(k) \in Nat /\ byText \in TextSearch(text, q.text, Pool(k))
            BY <2>1, <2>3, PoolCovers DEF AnswerFrom
        <3> QED BY <2>5, <3>1, BetterMatchIsAhead
    <2> HIDE DEF byVector
    <2>8. /\ n \in Nat /\ ListOver(ids, n, D)
          /\ \A id \in D : \E i \in 1 .. n : ids[i] = id
          /\ \A i, l \in 1 .. n : i < l => fused[ids[i]] >= fused[ids[l]]
          /\ DOMAIN hits = 1 .. m
          /\ \A i \in DOMAIN hits : hits[i] = [id |-> ids[i], doc |-> store[ids[i]]]
        BY <2>4 DEF Answered
    <2> HIDE DEF fused, D, n
    <2>9. m \in Nat /\ m <= n
        BY <2>1, <2>8 DEF Least
    <2> HIDE DEF m
    <2>10. j \in 1 .. m /\ j \in 1 .. n /\ ids[j] = y /\ y \in D
        BY <2>8, <2>9 DEF ListOver
    <2>11. /\ x \in D
           /\ fused[x] \in Nat /\ fused[y] \in Nat /\ fused[x] > fused[y]
        BY <2>5, <2>6, <2>7, <2>10, FusedAhead DEF fused, D
    <2>12. Ahead(ids, x, y) /\ DOMAIN ids = 1 .. n
        <3>1. DOMAIN ids = 1 .. n
            BY <2>8 DEF ListOver
        <3>2. \A i, l \in 1 .. n : i < l => fused[ids[i]] >= fused[ids[l]]
            BY <2>8
        <3>3. /\ fused[x] \in Int /\ fused[y] \in Int
              /\ \E i \in 1 .. n : ids[i] = x
            BY <2>8, <2>11
        <3> QED BY <2>8, <2>11, <3>1, <3>2, <3>3, HigherIsAhead
    <2>13. PICK i \in 1 .. n : i < j /\ ids[i] = x
        BY <2>10, <2>12 DEF Ahead
    <2>14. i \in 1 .. m /\ i \in 1 .. j - 1
        BY <2>9, <2>10, <2>13
    <2>15. hits[i].id = x
        BY <2>8, <2>13, <2>14
    <2> QED BY <2>14, <2>15
<1> QED BY <1>1, EngineInvariance, RowsInvariance, StoreFollowed, CountsInvariance, PTL
=================================================================================
