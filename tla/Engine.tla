--------------------------------- MODULE Engine ---------------------------------
(***************************************************************************)
(* Engine: documents in the LSM store, and a vector index and an inverted  *)
(* index in memory that are derived from them.                             *)
(*                                                                         *)
(* The store is what KVStore promises, and Lsm shows where it is kept: a   *)
(* call takes effect and returns Ok, fails before or after it took effect, *)
(* or is cut off by a stop.  get_blob and query read and change nothing;   *)
(* a query is the set of what it may return.                               *)
(***************************************************************************)
EXTENDS VectorIndex, TextIndex, Fusion

CONSTANTS
    Doc,         \* the documents upserted, records [vec, text]
    Delete,      \* Value::Delete
    None,        \* no document, no call
    Query,       \* the queries asked, records [vec, text]
    CANDIDATE_POOL_MULTIPLIER,
    MIN_CANDIDATE_POOL,
    IoErrors,    \* whether calls of the store may fail
    MaxWrites    \* bound on the upserts and deletes of a behaviour

ASSUME EngineAssumption ==
    /\ Doc \subseteq [vec : Vector, text : Text]
    /\ Delete \notin Doc
    /\ None \notin Doc \cup {Delete}
    /\ \A q \in Query : Len(q.vec) = Dim /\ q.text \in Seq(Term)
    /\ CANDIDATE_POOL_MULTIPLIER \in Nat \ {0}
    /\ MIN_CANDIDATE_POOL \in Nat
    /\ IoErrors \in BOOLEAN
    /\ MaxWrites \in Nat

VARIABLES
    (* docs, the LsmEngine, as KVStore *)
    store, req, done, doubt,
    (* In memory *)
    vectors, text,
    (* Control *)
    mode,       \* "closed", "opening" while open rebuilds the indexes, "ready"
    pending,    \* the documents of iter_all that open has still to index
    (* History *)
    failed,     \* ids whose last write since open returned an error
    writes

storeVars == <<store, req, done, doubt>>
indexes == <<vectors, text>>
vars == <<storeVars, indexes, mode, pending, failed, writes>>

Docs == INSTANCE KVStore WITH Key <- Id, Val <- Doc

Live == {id \in Id : store[id] # None}
Fits(v) == Len(v) = Dim

TypeOK ==
    /\ store \in [Id -> Doc \cup {None}]
    /\ req \in Docs!Request \cup {None}
    /\ done \in BOOLEAN
    /\ doubt \in [Id -> SUBSET (Doc \cup {None})]
    /\ vectors.ids \in Seq(Id)
    /\ Len(vectors.data) = Len(vectors.ids) * Dim
    /\ text.totalDocLength \in Nat
    /\ text.docCount \in Nat
    /\ DOMAIN text.docLengths \subseteq Id
    /\ DOMAIN text.postings \subseteq Term
    /\ mode \in {"closed", "opening", "ready"}
    /\ pending \subseteq Id
    /\ failed \subseteq Id
    /\ writes \in 0 .. MaxWrites

---------------------------------------------------------------------------
(* upsert and delete *)

\* docs.put or docs.delete begins.
Begin(id, val) ==
    /\ mode = "ready"
    /\ writes < MaxWrites
    /\ writes' = writes + 1
    /\ req' = [key |-> id, val |-> val]
    /\ Docs!Call
    /\ UNCHANGED <<indexes, mode, pending, failed>>

Upsert(id, doc) == doc \in Doc /\ Begin(id, doc)
DeleteDoc(id) == Begin(id, Delete)

\* The write becomes visible in the store.
StoreEffect ==
    /\ Docs!Effect
    /\ UNCHANGED <<indexes, mode, pending, failed, writes>>

\* The `?` of upsert and delete on an error of the store.
StoreError ==
    /\ IoErrors
    /\ Docs!ReturnErr
    /\ failed' = failed \cup {req.key}
    /\ UNCHANGED <<indexes, mode, pending, writes>>

\* upsert goes on to both indexes and returns Ok.
UpsertDone ==
    /\ Docs!ReturnOk
    /\ req.val # Delete
    /\ Fits(req.val.vec)
    /\ vectors' = Insert(vectors, req.key, req.val.vec)
    /\ text' = IndexDocument(text, req.key, req.val.text)
    /\ failed' = failed \ {req.key}
    /\ UNCHANGED <<mode, pending, writes>>

\* Mutant of UpsertMismatch: the text is indexed before the vector.
UpsertMismatchIndexesText ==
    /\ Docs!ReturnOk
    /\ req.val # Delete
    /\ ~Fits(req.val.vec)
    /\ text' = IndexDocument(text, req.key, req.val.text)
    /\ failed' = failed \cup {req.key}
    /\ UNCHANGED <<vectors, mode, pending, writes>>

\* vectors.insert fails: the document is stored, and upsert returns its error.
UpsertMismatch ==
    /\ Docs!ReturnOk
    /\ req.val # Delete
    /\ ~Fits(req.val.vec)
    /\ failed' = failed \cup {req.key}
    /\ UNCHANGED <<indexes, mode, pending, writes>>

\* delete goes on to both indexes and returns Ok.
DeleteDone ==
    /\ Docs!ReturnOk
    /\ req.val = Delete
    /\ vectors' = Remove(vectors, req.key)
    /\ text' = RemoveDocument(text, req.key)
    /\ failed' = failed \ {req.key}
    /\ UNCHANGED <<mode, pending, writes>>

---------------------------------------------------------------------------
(* Stop and open *)

\* The process stops or the engine is dropped; the indexes are gone.
Stop ==
    /\ mode # "closed"
    /\ Docs!Restart
    /\ vectors' = NewVectorIndex
    /\ text' = NewTextIndex
    /\ mode' = "closed"
    /\ pending' = {}
    /\ failed' = {}
    /\ UNCHANGED writes

\* LsmEngine::open, empty indexes, and iter_all.
Open ==
    /\ mode = "closed"
    /\ mode' = "opening"
    /\ pending' = Live
    /\ UNCHANGED <<storeVars, indexes, failed, writes>>

\* One turn of the loop, in the order iter_all's map happens to have.
OpenIndex(id) ==
    /\ mode = "opening"
    /\ id \in pending
    /\ Fits(store[id].vec)
    /\ vectors' = Insert(vectors, id, store[id].vec)
    /\ text' = IndexDocument(text, id, store[id].text)
    /\ pending' = pending \ {id}
    /\ UNCHANGED <<storeVars, mode, failed, writes>>

\* The vector of a stored document does not fit: open returns the error.
OpenMismatch(id) ==
    /\ mode = "opening"
    /\ id \in pending
    /\ ~Fits(store[id].vec)
    /\ vectors' = NewVectorIndex
    /\ text' = NewTextIndex
    /\ mode' = "closed"
    /\ pending' = {}
    /\ UNCHANGED <<storeVars, failed, writes>>

OpenDone ==
    /\ mode = "opening"
    /\ pending = {}
    /\ mode' = "ready"
    /\ UNCHANGED <<storeVars, indexes, pending, failed, writes>>

---------------------------------------------------------------------------
(* get_blob and query *)

\* The document get_blob decodes: its blob is part of it.
GetBlob(id) == store[id]

\* Mutant of Pool: the smaller of the two bounds.
PoolIsMin(k) ==
    LET wide == k * CANDIDATE_POOL_MULTIPLIER
    IN  IF wide <= MIN_CANDIDATE_POOL THEN wide ELSE MIN_CANDIDATE_POOL

\* How many candidates each index is asked for.
Pool(k) ==
    LET wide == k * CANDIDATE_POOL_MULTIPLIER
    IN  IF wide >= MIN_CANDIDATE_POOL THEN wide ELSE MIN_CANDIDATE_POOL

\* What Engine::query may return, each answer a sequence of hits.
Answers(q, k) ==
    LET found == VectorSearch(vectors, q.vec, Pool(k), "Cosine")
        byVector == [i \in DOMAIN found |-> found[i].id]
        fused == UNION {ReciprocalRankFusion(<<byVector, byText>>)
                           : byText \in TextSearch(text, q.text, Pool(k))}
        hits(ids) == [i \in DOMAIN ids |-> [id |-> ids[i], doc |-> GetBlob(ids[i])]]
    IN  {hits(FirstOf(ids, k)) : ids \in fused}

---------------------------------------------------------------------------
(* Specification *)

Init ==
    /\ Docs!Init
    /\ vectors = NewVectorIndex
    /\ text = NewTextIndex
    /\ mode = "closed"
    /\ pending = {}
    /\ failed = {}
    /\ writes = 0

Next ==
    \/ \E id \in Id : (\E doc \in Doc : Upsert(id, doc)) \/ DeleteDoc(id)
    \/ StoreEffect \/ StoreError
    \/ UpsertDone \/ UpsertMismatch \/ DeleteDone
    \/ Stop
    \/ Open \/ OpenDone
    \/ \E id \in Id : OpenIndex(id) \/ OpenMismatch(id)

Spec == Init /\ [][Next]_vars

---------------------------------------------------------------------------
(* Properties *)

Idle == mode = "ready" /\ req = None

Indexed == {vectors.ids[i] : i \in DOMAIN vectors.ids}

\* The vector index has the vector of every live document of docs, in the row
\* of its id, and no other document of docs.
VectorsFollow(docs) ==
    /\ \A i, j \in DOMAIN vectors.ids : vectors.ids[i] = vectors.ids[j] => i = j
    /\ Indexed \cap docs = Live \cap docs
    /\ \A i \in DOMAIN vectors.ids :
          vectors.ids[i] \in docs => Row(vectors, i) = store[vectors.ids[i]].vec

\* The inverted index has each live document of docs, and no other of them,
\* once in the list of each of its terms.
TextFollows(docs) ==
    /\ DOMAIN text.docLengths \cap docs = Live \cap docs
    /\ \A id \in Live \cap docs, t \in Term :
        LET list == IF t \in DOMAIN text.postings THEN text.postings[t] ELSE <<>>
            own == {list[i] : i \in {i \in DOMAIN list : list[i].docId = id}}
            n == Frequency(store[id].text, t)
        IN  own = IF n = 0 THEN {} ELSE {[docId |-> id, termFreq |-> n]}

\* Between calls, whatever failed or stopped before, a document whose last write
\* returned Ok is indexed by its stored vector and text, and a deleted one is not
\* (engine.rs: upsert, delete, open).
IndexesFollowStore ==
    Idle => VectorsFollow(Id \ failed) /\ TextFollows(Id \ failed)

\* Both indexes hold the same documents between calls, those of failed writes
\* included: no error leaves one index ahead of the other (engine.rs: upsert).
SameDocuments == Idle => Indexed = DOMAIN text.docLengths

\* What BM25 divides by matches the postings, in every order of upserts and
\* deletes: the count and total length of the documents, one posting of a
\* document per term, each document's frequencies adding up to its length, and
\* no list that is empty (text.rs: index_document, remove_document).
AggregatesMatch ==
    /\ text.docCount = Cardinality(DOMAIN text.docLengths)
    /\ text.totalDocLength = Sum(text.docLengths)
    /\ \A t \in DOMAIN text.postings :
        LET list == text.postings[t]
        IN  /\ list # <<>>
            /\ \A i, j \in DOMAIN list : list[i].docId = list[j].docId => i = j
            /\ \A i \in DOMAIN list : list[i].docId \in DOMAIN text.docLengths
    /\ \A id \in DOMAIN text.docLengths :
        text.docLengths[id] = Sum([t \in DOMAIN text.postings |->
            Sum([i \in DOMAIN text.postings[t] |->
                IF text.postings[t][i].docId = id THEN text.postings[t][i].termFreq ELSE 0])])

\* What a score is by its definition, the sums in one piece.
Inner(a, b) == Sum([i \in 1 .. Dim |-> a[i] * b[i]])
Similarity(metric, a, b) ==
    CASE metric = "Dot" -> Inner(a, b)
      [] metric = "L2" -> -Sum([i \in 1 .. Dim |-> (a[i] - b[i]) * (a[i] - b[i])])
      [] metric = "Cosine" ->
            LET denom == Inner(a, a) * Inner(b, b)
            IN  IF denom = 0 THEN 0 ELSE (Scale * Inner(a, b) * Abs(Inner(a, b))) \div denom

Least(m, n) == IF m <= n THEN m ELSE n

\* No document or query has a component that is NaN.
NoNaN ==
    /\ NaN \notin Int
    /\ \A d \in Doc : d.vec \in Seq(Int)
    /\ \A q \in Query : q.vec \in Seq(Int)

\* In every metric, the lane kernels and the bounded heap return k different
\* rows, or all there are, best first, and none that is left out is better, for
\* any order of the rows (vector.rs: search, dot, l2_sq).
SearchIsTopK ==
    \A q \in Query, metric \in Metric, k \in 1 .. Cardinality(Id) :
        LET found == VectorSearch(vectors, q.vec, k, metric)
            score == [id \in Indexed |->
                Similarity(metric, q.vec, Row(vectors, Position(vectors, id)))]
            left == Indexed \ {found[i].id : i \in DOMAIN found}
        IN  /\ Len(found) = Least(k, Cardinality(Indexed))
            /\ Cardinality(left) = Cardinality(Indexed) - Len(found)
            /\ \A i, j \in DOMAIN found :
                  i < j => score[found[i].id] >= score[found[j].id]
            /\ \A i \in DOMAIN found, id \in left : score[found[i].id] >= score[id]

\* A NaN score takes no place that a real one could have (vector.rs: "so it never
\* wins in the bounded heap").
NaNNeverWins ==
    \A q \in Query, metric \in Metric, k \in 1 .. Cardinality(Id) :
        LET kept == Kept(vectors, q.vec, k, metric)
            all == {Scored(vectors, i, q.vec, metric) : i \in DOMAIN vectors.ids}
            found == {kept[i] : i \in DOMAIN kept}
        IN  (\E x \in found : x.score = NaN) => \A y \in all \ found : y.score = NaN

\* The BM25 score of a live document by what the store holds, 0 for no match.
StoredTextScore(query, id) ==
    LET total == Sum([d \in Live |-> Len(store[d].text)])
        df(t) == Cardinality({d \in Live : Frequency(store[d].text, t) > 0})
        terms == {t \in Term : Frequency(query, t) > 0 /\ Frequency(store[id].text, t) > 0}
    IN  Sum([t \in terms |->
            Bm25(Cardinality(Live), total, df(t), Frequency(store[id].text, t),
                 Len(store[id].text))])

\* The table of weights, of whole units where the code has fractions, is fine
\* enough that no term of a document adds 0 to its score.
IdfIsFine ==
    \A docs \in SUBSET Id : IsFiniteSet(docs) =>
        \A df \in 1 .. Cardinality(docs) :
            /\ <<Cardinality(docs), df>> \in DOMAIN Idf
            /\ 22 * Idf[<<Cardinality(docs), df>>] >= 13 + 9 * Cardinality(docs)

\* The unit of fused scores is fine enough that a later rank adds less, as it does in
\* fractions.  However many ids there are, if finitely many, some unit is.
UnitIsFine ==
    \A docs \in SUBSET Id : IsFiniteSet(docs) =>
        \A i, j \in 1 .. Cardinality(docs) : i < j => Contribution(i) > Contribution(j)

\* No history of replaced, removed and rebuilt documents changes a text score: it
\* is that of the documents the store holds now (text.rs: search).
TextScoresFollowStore ==
    Idle /\ failed = {} => \A q \in Query :
        LET score == TextScores(text, q.text)
        IN  /\ DOMAIN score = {id \in Live : StoredTextScore(q.text, id) > 0}
            /\ \A id \in DOMAIN score : score[id] = StoredTextScore(q.text, id)

\* A query returns k documents if there are as many, none of them twice, and
\* each with what the store holds of it: a document whose last write returned Ok
\* is no hit once it is deleted, and no hit has an empty blob in place of its
\* document, whatever was cut off or rebuilt before (engine.rs: query).
QueryAnswers ==
    Idle => \A q \in Query, k \in 0 .. Cardinality(Id) : \A hits \in Answers(q, k) :
        /\ Len(hits) <= k
        /\ failed = {} => Len(hits) = Least(k, Cardinality(Live))
        /\ \A i, j \in DOMAIN hits : hits[i].id = hits[j].id => i = j
        /\ \A i \in DOMAIN hits : hits[i].id \notin failed => hits[i].doc # None

\* A document closer to the query than another, and above it by its text or equal
\* where neither matches, comes first: neither the pool, nor ties, nor the ranks
\* of others put the other one in its place (engine.rs: query; fusion.rs).
BetterInBothComesFirst ==
    Idle /\ failed = {} => \A q \in Query, x, y \in Live :
        LET near(id) == Similarity("Cosine", q.vec, store[id].vec)
            match(id) == StoredTextScore(q.text, id)
        IN  near(x) > near(y) /\ (match(x) > match(y) \/ match(y) = 0) =>
                \A k \in 1 .. Cardinality(Id) : \A hits \in Answers(q, k) :
                    \A j \in DOMAIN hits : hits[j].id = y =>
                        \E i \in 1 .. j - 1 : hits[i].id = x

\* After an error of the store both indexes still follow it (engine.rs: upsert,
\* "on a non-crash IO failure the engine remains consistent").
ErrorsLeaveEngineConsistent == Idle => VectorsFollow(Id) /\ TextFollows(Id)
=================================================================================
