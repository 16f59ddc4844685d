-------------------------------- MODULE TextIndex --------------------------------
(***************************************************************************)
(* InvertedIndex: postings per term and the aggregates BM25 divides by.    *)
(* A text is the sequence of terms tokenize makes of it.                   *)
(***************************************************************************)
EXTENDS Ranking

CONSTANTS
    Term,   \* lower-case alphanumeric words
    Text,   \* texts of documents, as sequences of terms
    Idf     \* ln((n - df + 0.5) / (df + 0.5) + 1) by n and df, scaled to an integer

ASSUME TextIndexAssumption ==
    /\ Text \subseteq Seq(Term)
    /\ \A p \in DOMAIN Idf : Idf[p] \in Nat

\* InvertedIndex::new.  A term without postings has no entry.
NewTextIndex ==
    [postings |-> <<>>, docLengths |-> <<>>, totalDocLength |-> 0, docCount |-> 0]

Frequency(text, t) == Cardinality({i \in DOMAIN text : text[i] = t})

SaturatingSub(a, b) == IF a >= b THEN a - b ELSE 0

\* retain on a posting list.
OtherDocs(list, doc) ==
    LET kept[i \in 0 .. Len(list)] ==
            IF i = 0 THEN <<>>
            ELSE IF list[i].docId # doc THEN Append(kept[i - 1], list[i])
            ELSE kept[i - 1]
    IN  kept[Len(list)]

\* InvertedIndex::remove_document, which drops the lists it empties.
RemoveDocument(index, doc) ==
    LET left == [t \in DOMAIN index.postings |-> OtherDocs(index.postings[t], doc)]
    IN  IF doc \notin DOMAIN index.docLengths THEN index
        ELSE [postings |-> [t \in {t \in DOMAIN left : left[t] # <<>>} |-> left[t]],
              docLengths |-> [d \in DOMAIN index.docLengths \ {doc} |-> index.docLengths[d]],
              totalDocLength |-> SaturatingSub(index.totalDocLength, index.docLengths[doc]),
              docCount |-> SaturatingSub(index.docCount, 1)]

\* What index_document adds once the document's prior terms are gone.
AddDocument(index, doc, text) ==
    LET terms == {text[i] : i \in DOMAIN text}
        list(t) == IF t \in DOMAIN index.postings THEN index.postings[t] ELSE <<>>
        posting(t) == [docId |-> doc, termFreq |-> Frequency(text, t)]
    IN  [postings |-> [t \in DOMAIN index.postings \cup terms |->
                          IF t \in terms THEN Append(list(t), posting(t)) ELSE list(t)],
         docLengths |-> [d \in DOMAIN index.docLengths \cup {doc} |->
                            IF d = doc THEN Len(text) ELSE index.docLengths[d]],
         totalDocLength |-> index.totalDocLength + Len(text),
         docCount |-> index.docCount + 1]

\* Mutant of IndexDocument: the prior version is not removed first.
IndexDocumentAppends(index, doc, text) == AddDocument(index, doc, text)

\* InvertedIndex::index_document.
IndexDocument(index, doc, text) == AddDocument(RemoveDocument(index, doc), doc, text)

---------------------------------------------------------------------------
(* search *)

\* One term's score: K1 = 1.2 and B = 0.75, over the average length total / n,
\* which max(1.0) keeps from below 1.  The fraction is widened to integers.
Bm25(n, total, df, tf, dl) ==
    LET length == IF total >= n THEN total ELSE n
    IN  (Idf[<<n, df>>] * 22 * tf * length) \div (10 * tf * length + 3 * length + 9 * dl * n)

\* Mutant of Counted: a word counts as often as the query repeats it.
CountedRepeatedly(query, t) == Frequency(query, t)

\* seen_terms: a word of the query counts once.
Counted(query, t) == IF Frequency(query, t) = 0 THEN 0 ELSE 1

\* What the postings of a term, if it has any, add to the score of doc.
TermScore(index, t, doc) ==
    LET list == index.postings[t]
        own == {i \in DOMAIN list : list[i].docId = doc}
    IN  Sum([i \in own |-> Bm25(index.docCount, index.totalDocLength, Len(list),
                                list[i].termFreq, index.docLengths[doc])])

\* The map of scores of InvertedIndex::search.
TextScores(index, query) ==
    LET found == {t \in DOMAIN index.postings : Counted(query, t) > 0}
        docs == UNION {{p.docId : p \in {index.postings[t][i] : i \in DOMAIN index.postings[t]}}
                          : t \in found}
    IN  [doc \in docs |->
            Sum([t \in found |-> Counted(query, t) * TermScore(index, t, doc)])]

\* The lists of ids InvertedIndex::search may return.
TextSearch(index, query, k) ==
    IF index.docCount = 0 THEN {<<>>}
    ELSE {FirstOf(r, k) : r \in Rankings(TextScores(index, query))}
=================================================================================
