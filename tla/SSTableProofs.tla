----------------------------- MODULE SSTableProofs -----------------------------
(***************************************************************************)
(* A lookup in an sstable is a lookup in the set of its records, as long   *)
(* as no key has more than SPARSE_INTERVAL + 1 versions in it.             *)
(***************************************************************************)
EXTENDS SSTable, MVCCProofs, FiniteSetTheorems, SequenceTheorems, TLAPS

\* Where the versions of a key are.
Positions(k) == {i \in DOMAIN data : data[i].key = k}

\* How far the newest entry of the sparse index is from the next record.
Gap == IF sinceIndex = 0 THEN SPARSE_INTERVAL ELSE sinceIndex

\* The sparse index names positions of the data, SPARSE_INTERVAL or more apart.
IndexInv ==
    /\ \A i \in DOMAIN sparseIndex :
        /\ sparseIndex[i].offset \in DOMAIN data
        /\ sparseIndex[i].key = data[sparseIndex[i].offset].key
        /\ sparseIndex[i].offset + Gap <= Len(data) + 1
    /\ \A i, j \in DOMAIN sparseIndex :
        i < j => sparseIndex[i].offset + SPARSE_INTERVAL <= sparseIndex[j].offset

\* No key of the data misses one of its bits.
BloomInv == \A i \in DOMAIN data : Bits(data[i].key, numBits) \subseteq bits

VersionsInv == \A k \in Key : Cardinality(Positions(k)) <= MaxVersions

WriterInv == TypeOK /\ InOrder(data) /\ IndexInv /\ BloomInv /\ VersionsInv

---------------------------------------------------------------------------
(* The writer *)

\* A remainder by a positive number, and the counter that wraps at one.
LEMMA Wrap ==
    ASSUME NEW n \in Nat \ {0}
    PROVE  /\ \A x \in Int : x % n \in 0 .. n - 1
           /\ \A x \in 0 .. n - 1 : (x + 1) % n = IF x + 1 = n THEN 0 ELSE x + 1
OBVIOUS

\* A probe is a bit of the filter.
LEMMA BitsInFilter ==
    ASSUME NEW k \in Key, NEW size \in Nat \ {0}
    PROVE  Bits(k, size) \subseteq 0 .. size - 1
<1> SUFFICES ASSUME NEW i \in 0 .. NumHashes - 1 PROVE Probe(k, i, size) \in 0 .. size - 1
    BY DEF Bits
<1>1. /\ Hash1[k] \in Int /\ Hash2[k] \in Int
      /\ HashSize \in Nat \ {0}
    BY SSTableAssumption
<1>2. i * Hash2[k] \in Int
    BY <1>1
<1>3. (i * Hash2[k]) % HashSize \in Int
    BY <1>1, <1>2, Wrap
<1>4. (Hash1[k] + ((i * Hash2[k]) % HashSize)) % HashSize \in Int
    <2>1. Hash1[k] + ((i * Hash2[k]) % HashSize) \in Int
        BY <1>1, <1>3
    <2>2. \A x \in Int : x % HashSize \in Int
        BY <1>1, Wrap
    <2> QED BY <2>1, <2>2
<1> QED BY <1>4, Wrap DEF Probe

\* The positions of a key are finitely many.
LEMMA PositionsFinite ==
    ASSUME data \in Seq(Record), NEW k
    PROVE  IsFiniteSet(Positions(k)) /\ Cardinality(Positions(k)) \in Nat
<1>1. DOMAIN data = 1 .. Len(data) /\ Len(data) \in Int
    OBVIOUS
<1>2. IsFiniteSet(DOMAIN data) /\ Positions(k) \subseteq DOMAIN data
    BY <1>1, FS_Interval DEF Positions
<1>3. IsFiniteSet(Positions(k))
    BY <1>2, FS_Subset
<1> QED BY <1>3, FS_CardinalityType

LEMMA InitWriter ==
    ASSUME WriterInit
    PROVE  WriterInv
<1> PICK expected \in Expected : Create(expected)
    BY DEF WriterInit
<1>1. /\ data = <<>> /\ sparseIndex = <<>> /\ sinceIndex = 0 /\ bits = {} /\ finished = FALSE
    BY DEF Create
<1>2. numBits \in Nat \ {0}
    <2>1. expected \in Nat /\ BITS_PER_KEY \in Nat \ {0} /\ MinBits \in Nat \ {0}
        BY SSTableAssumption
    <2>2. (IF expected >= 1 THEN expected ELSE 1) * BITS_PER_KEY \in Nat
        BY <2>1
    <2> QED BY <2>1, <2>2 DEF Create
<1>3. TypeOK
    <2>1. data \in Seq(Record) /\ sparseIndex \in Seq([key : Key, offset : Nat])
        BY <1>1
    <2>2. sinceIndex \in 0 .. SPARSE_INTERVAL - 1
        BY <1>1, SSTableAssumption
    <2> QED BY <1>1, <1>2, <2>1, <2>2 DEF TypeOK
<1>4. VersionsInv
    <2>1. \A k : Positions(k) = {}
        BY <1>1 DEF Positions
    <2> QED BY <2>1, FS_EmptySet, SSTableAssumption DEF VersionsInv
<1> QED BY <1>1, <1>3, <1>4 DEF WriterInv, InOrder, IndexInv, BloomInv

\* The type and the parts of the file that any records leave true.
LEMMA AddEntryKeeps ==
    ASSUME TypeOK, IndexInv, BloomInv, NEW r \in Record, AddEntry(r)
    PROVE  TypeOK' /\ IndexInv' /\ BloomInv'
<1> DEFINE n == Len(data)
<1>1. /\ n \in Nat /\ DOMAIN data = 1 .. n /\ data \in Seq(Record)
      /\ data' \in Seq(Record) /\ Len(data') = n + 1 /\ DOMAIN data' = 1 .. n + 1
      /\ data'[n + 1] = r
      /\ \A i \in 1 .. n : data'[i] = data[i]
    BY DEF AddEntry, TypeOK
<1>2. /\ SPARSE_INTERVAL \in Nat \ {0} /\ sinceIndex \in 0 .. SPARSE_INTERVAL - 1
      /\ sinceIndex' = IF sinceIndex + 1 = SPARSE_INTERVAL THEN 0 ELSE sinceIndex + 1
    BY SSTableAssumption, Wrap DEF AddEntry, TypeOK
<1>3. r.key \in Key
    BY DEF Record
<1>4. numBits' = numBits /\ finished' = finished /\ bits' = bits \cup Bits(r.key, numBits)
    BY DEF AddEntry
<1>9. numBits' \in Nat \ {0} /\ bits' \subseteq 0 .. numBits' - 1 /\ finished' \in BOOLEAN
    <2>1. Bits(r.key, numBits) \subseteq 0 .. numBits - 1
        BY <1>3, BitsInFilter DEF TypeOK
    <2> QED BY <1>4, <2>1 DEF TypeOK
<1>10. sinceIndex' \in 0 .. SPARSE_INTERVAL - 1
    BY <1>2
<1>5. /\ Gap \in Nat /\ Gap' \in Nat /\ Gap <= SPARSE_INTERVAL
      /\ sinceIndex # 0 => Gap' = Gap + 1
      /\ sinceIndex = 0 => Gap = SPARSE_INTERVAL /\ Gap' = 1
    BY <1>2 DEF Gap
<1>6. BloomInv'
    BY <1>1, <1>4 DEF BloomInv
<1>7. sparseIndex \in Seq([key : Key, offset : Nat])
    BY DEF TypeOK
<1>8. /\ TypeOK'
      /\ IndexInv'
    <2>1. CASE sinceIndex # 0
        <3>1. sparseIndex' = sparseIndex
            BY <2>1 DEF AddEntry
        <3>2. TypeOK'
            BY <1>1, <1>9, <1>10, <3>1 DEF TypeOK
        <3>3. IndexInv'
            <4>1. \A i \in DOMAIN sparseIndex : sparseIndex[i].offset \in 1 .. n
                BY <1>1 DEF IndexInv
            <4>2. \A i \in DOMAIN sparseIndex : sparseIndex[i].offset + Gap' <= n + 2
                BY <1>1, <1>5, <2>1, <4>1 DEF IndexInv
            <4>3. \A i \in DOMAIN sparseIndex :
                    /\ sparseIndex[i].offset \in 1 .. n + 1
                    /\ sparseIndex[i].key = data'[sparseIndex[i].offset].key
                BY <1>1, <4>1 DEF IndexInv
            <4>4. Len(data') + 1 = n + 2
                BY <1>1
            <4> HIDE DEF n
            <4> QED BY <1>1, <3>1, <4>2, <4>3, <4>4 DEF IndexInv
        <3> QED BY <3>2, <3>3
    <2>2. CASE sinceIndex = 0
        <3> DEFINE e == [key |-> r.key, offset |-> n + 1]
                   m == Len(sparseIndex)
        <3>1. sparseIndex' = Append(sparseIndex, e) /\ e \in [key : Key, offset : Nat]
            BY <1>1, <1>3, <2>2 DEF AddEntry
        <3>2. /\ sparseIndex' \in Seq([key : Key, offset : Nat])
              /\ m \in Nat /\ DOMAIN sparseIndex = 1 .. m /\ DOMAIN sparseIndex' = 1 .. m + 1
              /\ sparseIndex'[m + 1] = e
              /\ \A i \in 1 .. m : sparseIndex'[i] = sparseIndex[i]
            <4> HIDE DEF e
            <4> QED BY <1>7, <3>1
        <3>3. TypeOK'
            BY <1>1, <1>9, <1>10, <3>2 DEF TypeOK
        <3>4. \A i \in 1 .. m :
                /\ sparseIndex[i].offset \in 1 .. n
                /\ sparseIndex[i].key = data[sparseIndex[i].offset].key
                /\ sparseIndex[i].offset + SPARSE_INTERVAL <= n + 1
            <4>1. \A i \in 1 .. m : sparseIndex[i].offset \in 1 .. n
                BY <1>1, <3>2 DEF IndexInv
            <4>2. \A i \in 1 .. m : sparseIndex[i].offset + SPARSE_INTERVAL <= n + 1
                BY <1>1, <1>5, <2>2, <3>2 DEF IndexInv
            <4> QED BY <3>2, <4>1, <4>2 DEF IndexInv
        <3>5. \A i \in 1 .. m + 1 :
                /\ sparseIndex'[i].offset \in 1 .. n + 1
                /\ sparseIndex'[i].key = data'[sparseIndex'[i].offset].key
                /\ sparseIndex'[i].offset + Gap' <= n + 2
            <4>1. ASSUME NEW i \in 1 .. m
                  PROVE  /\ sparseIndex'[i].offset \in 1 .. n + 1
                         /\ sparseIndex'[i].key = data'[sparseIndex'[i].offset].key
                         /\ sparseIndex'[i].offset + Gap' <= n + 2
                <5>1. /\ sparseIndex'[i] = sparseIndex[i]
                      /\ sparseIndex[i].offset \in 1 .. n
                      /\ sparseIndex[i].key = data[sparseIndex[i].offset].key
                      /\ sparseIndex[i].offset + SPARSE_INTERVAL <= n + 1
                    BY <3>2, <3>4
                <5>2. data'[sparseIndex[i].offset] = data[sparseIndex[i].offset]
                    BY <1>1, <5>1
                <5>3. sparseIndex[i].offset + 1 <= n + 2
                    BY <1>1, <5>1
                <5> QED BY <1>1, <1>5, <2>2, <5>1, <5>2, <5>3
            <4>2. /\ sparseIndex'[m + 1].offset = n + 1
                  /\ sparseIndex'[m + 1].key = data'[n + 1].key
                  /\ n + 1 \in 1 .. n + 1
                  /\ n + 1 + Gap' <= n + 2
                BY <1>1, <1>5, <2>2, <3>2
            <4>3. \A i \in 1 .. m + 1 : i \in 1 .. m \/ i = m + 1
                <5> HIDE DEF m
                <5> QED BY <3>2
            <4> HIDE DEF m, n, e
            <4> QED BY <4>1, <4>2, <4>3
        <3>6. \A i, j \in 1 .. m + 1 :
                i < j => sparseIndex'[i].offset + SPARSE_INTERVAL <= sparseIndex'[j].offset
            <4> SUFFICES ASSUME NEW i \in 1 .. m + 1, NEW j \in 1 .. m + 1, i < j
                         PROVE  sparseIndex'[i].offset + SPARSE_INTERVAL
                                   <= sparseIndex'[j].offset
                OBVIOUS
            <4> HIDE DEF m, n, e
            <4>1. m \in Nat /\ i \in 1 .. m /\ (j = m + 1 \/ j \in 1 .. m)
                BY <3>2
            <4>2. sparseIndex'[i] = sparseIndex[i]
                BY <3>2, <4>1
            <4>3. CASE j = m + 1
                <5>1. sparseIndex'[j].offset = n + 1
                    BY <3>2, <4>3 DEF e
                <5> QED BY <3>4, <4>1, <4>2, <5>1
            <4>4. CASE j \in 1 .. m
                <5>1. sparseIndex'[j] = sparseIndex[j]
                    BY <3>2, <4>4
                <5> QED BY <3>2, <4>1, <4>2, <4>4, <5>1 DEF IndexInv
            <4> QED BY <4>1, <4>3, <4>4
        <3> HIDE DEF m, e, n
        <3>7. /\ DOMAIN data' = 1 .. n + 1 /\ Len(data') + 1 = n + 2
              /\ DOMAIN sparseIndex' = 1 .. m + 1
            BY <1>1, <3>2
        <3>8. IndexInv'
            BY <3>5, <3>6, <3>7 DEF IndexInv
        <3> QED BY <3>3, <3>8
    <2> QED BY <2>1, <2>2
<1> QED BY <1>6, <1>8

\* A record that follows the last one keeps the order.
LEMMA AddKeepsOrder ==
    ASSUME TypeOK, InOrder(data), NEW r \in Record, Add(r)
    PROVE  InOrder(data')
<1> DEFINE n == Len(data)
<1>1. /\ n \in Nat /\ DOMAIN data = 1 .. n /\ data \in Seq(Record)
      /\ DOMAIN data' = 1 .. n + 1 /\ data'[n + 1] = r
      /\ \A i \in 1 .. n : data'[i] = data[i]
    BY DEF Add, AddEntry, TypeOK
<1> HIDE DEF n
<1> SUFFICES ASSUME NEW i \in 1 .. n + 1, NEW j \in 1 .. n + 1, i < j
             PROVE  Before(data'[i], data'[j])
    BY <1>1 DEF InOrder
<1>2. i \in 1 .. n
    BY <1>1
<1>3. CASE j \in 1 .. n
    BY <1>1, <1>2, <1>3 DEF InOrder
<1>4. CASE j = n + 1
    <2>1. data # <<>> /\ n \in 1 .. n /\ i <= n
        BY <1>1, <1>2
    <2>2. Before(data[n], r)
        BY <2>1 DEF Add, n
    <2>3. i = n \/ Before(data[i], data[n])
        BY <1>1, <1>2, <2>1 DEF InOrder
    <2>4. /\ data[i].key \in Int /\ data[n].key \in Int /\ r.key \in Int
          /\ data[i].seq \in Int /\ data[n].seq \in Int /\ r.seq \in Int
        <3>1. data[i] \in Record /\ data[n] \in Record
            BY <1>1, <1>2, <2>1
        <3>2. \A x \in Record : x.key \in Key /\ x.seq \in Int
            BY DEF Record, SeqNum
        <3> QED BY <3>1, <3>2, SSTableAssumption
    <2> QED BY <1>1, <1>2, <1>4, <2>2, <2>3, <2>4 DEF Before
<1> QED BY <1>1, <1>3, <1>4

LEMMA NextWriter ==
    ASSUME WriterInv, [WriterNext]_writerVars
    PROVE  WriterInv'
<1> USE DEF WriterInv
<1>1. ASSUME NEW r \in Record, Add(r) PROVE WriterInv'
    <2>1. TypeOK' /\ IndexInv' /\ BloomInv'
        BY <1>1, AddEntryKeeps DEF Add
    <2>2. InOrder(data)'
        BY <1>1, AddKeepsOrder DEF InOrder
    <2>3. VersionsInv'
        <3> SUFFICES ASSUME NEW k \in Key PROVE Cardinality(Positions(k)') <= MaxVersions
            BY DEF VersionsInv
        <3> DEFINE n == Len(data)
        <3>1. /\ n \in Nat /\ DOMAIN data = 1 .. n /\ data \in Seq(Record)
              /\ DOMAIN data' = 1 .. n + 1 /\ data'[n + 1] = r
              /\ \A i \in 1 .. n : data'[i] = data[i]
              /\ Cardinality(Positions(r.key)) < MaxVersions
            BY <1>1 DEF Add, AddEntry, TypeOK, Positions
        <3> HIDE DEF n
        <3>2. IsFiniteSet(Positions(k)) /\ Cardinality(Positions(k)) \in Nat
            BY <3>1, PositionsFinite
        <3>3. CASE k # r.key
            <4>1. Positions(k)' = Positions(k)
                BY <3>1, <3>3 DEF Positions
            <4> QED BY <4>1 DEF VersionsInv
        <3>4. CASE k = r.key
            <4>1. Positions(k)' = Positions(k) \cup {n + 1}
                BY <3>1, <3>4 DEF Positions
            <4>2. n + 1 \notin Positions(k)
                BY <3>1 DEF Positions
            <4>3. Cardinality(Positions(k)') = Cardinality(Positions(k)) + 1
                BY <3>2, <4>1, <4>2, FS_AddElement
            <4> QED BY <3>1, <3>2, <3>4, <4>3, SSTableAssumption
        <3> QED BY <3>3, <3>4
    <2> QED BY <2>1, <2>2, <2>3
<1>2. CASE UNCHANGED <<data, sparseIndex, sinceIndex, numBits, bits>> /\ finished' \in BOOLEAN
    <2>1. TypeOK'
        BY <1>2 DEF TypeOK
    <2>2. IndexInv'
        BY <1>2 DEF IndexInv, Gap
    <2>3. \A k : Positions(k)' = Positions(k)
        BY <1>2 DEF Positions
    <2> QED BY <1>2, <2>1, <2>2, <2>3 DEF BloomInv, VersionsInv, InOrder
<1>3. CASE Finish
    BY <1>2, <1>3 DEF Finish
<1>4. CASE UNCHANGED writerVars
    BY <1>2, <1>4 DEF writerVars, TypeOK
<1> QED BY <1>1, <1>3, <1>4 DEF WriterNext
LEMMA WriterInvariance == WriterSpec => []WriterInv
<1>1. WriterInit => WriterInv
    BY InitWriter
<1>2. WriterInv /\ [WriterNext]_writerVars => WriterInv'
    BY NextWriter
<1> QED BY <1>1, <1>2, PTL DEF WriterSpec

---------------------------------------------------------------------------
(* The reader *)

\* As many versions of a key as the step back of one block makes up for.
FewVersions == \A k \in Key : Cardinality(Positions(k)) <= SPARSE_INTERVAL + 1

\* What is before, in the order of the file.
LEMMA Ordered ==
    ASSUME WriterInv
    PROVE  /\ DOMAIN data = 1 .. Len(data) /\ Len(data) \in Nat
           /\ \A i \in DOMAIN data : data[i] \in Record /\ data[i].key \in Int /\ data[i].seq \in Int
           /\ \A i, j \in DOMAIN data : i <= j => data[i].key <= data[j].key
           /\ DOMAIN sparseIndex = 1 .. Len(sparseIndex) /\ Len(sparseIndex) \in Nat
           /\ \A i \in DOMAIN sparseIndex :
                /\ sparseIndex[i].offset \in DOMAIN data
                /\ sparseIndex[i].key = data[sparseIndex[i].offset].key
                /\ sparseIndex[i].key \in Int
           /\ \A i, j \in DOMAIN sparseIndex :
                i < j => /\ sparseIndex[i].offset + SPARSE_INTERVAL <= sparseIndex[j].offset
                         /\ sparseIndex[i].key <= sparseIndex[j].key
<1>1. DOMAIN data = 1 .. Len(data) /\ Len(data) \in Nat
    BY DEF WriterInv, TypeOK
<1>2. \A i \in DOMAIN data : data[i] \in Record /\ data[i].key \in Int /\ data[i].seq \in Int
    <2>1. \A i \in DOMAIN data : data[i] \in Record
        BY <1>1 DEF WriterInv, TypeOK
    <2>2. \A x \in Record : x.key \in Key /\ x.seq \in Int
        BY DEF Record, SeqNum
    <2> QED BY <2>1, <2>2, SSTableAssumption
<1>3. \A i, j \in DOMAIN data : i <= j => data[i].key <= data[j].key
    <2> SUFFICES ASSUME NEW i \in DOMAIN data, NEW j \in DOMAIN data, i <= j
                 PROVE  data[i].key <= data[j].key
        OBVIOUS
    <2>1. i = j \/ i < j
        BY <1>1
    <2>2. i = j \/ Before(data[i], data[j])
        BY <2>1 DEF WriterInv, InOrder
    <2> QED BY <1>2, <2>2 DEF Before
<1>4. DOMAIN sparseIndex = 1 .. Len(sparseIndex) /\ Len(sparseIndex) \in Nat
    BY DEF WriterInv, TypeOK
<1>5. \A i \in DOMAIN sparseIndex :
        /\ sparseIndex[i].offset \in DOMAIN data
        /\ sparseIndex[i].key = data[sparseIndex[i].offset].key
        /\ sparseIndex[i].key \in Int
    BY <1>2 DEF WriterInv, IndexInv
<1>6. \A i, j \in DOMAIN sparseIndex :
        i < j => /\ sparseIndex[i].offset + SPARSE_INTERVAL <= sparseIndex[j].offset
                 /\ sparseIndex[i].key <= sparseIndex[j].key
    <2> SUFFICES ASSUME NEW i \in DOMAIN sparseIndex, NEW j \in DOMAIN sparseIndex, i < j
                 PROVE  /\ sparseIndex[i].offset + SPARSE_INTERVAL <= sparseIndex[j].offset
                        /\ sparseIndex[i].key <= sparseIndex[j].key
        OBVIOUS
    <2>1. sparseIndex[i].offset + SPARSE_INTERVAL <= sparseIndex[j].offset
        BY DEF WriterInv, IndexInv
    <2>2. sparseIndex[i].offset <= sparseIndex[j].offset
        BY <1>1, <1>5, <2>1, SSTableAssumption
    <2> QED BY <1>3, <1>5, <2>1, <2>2
<1> QED BY <1>1, <1>2, <1>3, <1>4, <1>5, <1>6

\* The binary search returns something: the first entry of a greater key is
\* where a key that is not in the index belongs.
LEMMA SearchEnds ==
    ASSUME WriterInv, NEW k \in Key
    PROVE  SearchResults(k) # {}
<1> DEFINE m == Len(sparseIndex)
           matches == {i \in DOMAIN sparseIndex : sparseIndex[i].key = k}
           greater == {i \in 1 .. m + 1 : i = m + 1 \/ k < sparseIndex[i].key}
<1>1. CASE matches # {}
    BY <1>1 DEF SearchResults
<1>2. CASE matches = {}
    <2>1. /\ m \in Nat /\ DOMAIN sparseIndex = 1 .. m /\ k \in Int
          /\ \A i \in 1 .. m : sparseIndex[i].key \in Int
          /\ \A i, j \in 1 .. m : i < j => sparseIndex[i].key <= sparseIndex[j].key
        BY Ordered, SSTableAssumption
    <2> HIDE DEF m
    <2>2. greater \in SUBSET Nat /\ m + 1 \in greater
        BY <2>1
    <2>3. PICK i \in greater : \A j \in greater : i <= j
        <3> HIDE DEF greater
        <3> QED BY <2>2, Least
    <2>4. i \in 1 .. m + 1
        OBVIOUS
    <2>5. ASSUME NEW j \in 1 .. i - 1 PROVE sparseIndex[j].key < k
        <3>1. j \in 1 .. m /\ j \in 1 .. m + 1 /\ j # m + 1 /\ ~ (i <= j)
            BY <2>1, <2>4
        <3>2. ~ (k < sparseIndex[j].key)
            BY <2>3, <3>1
        <3>3. sparseIndex[j].key # k
            BY <1>2, <2>1, <3>1
        <3> QED BY <2>1, <3>1, <3>2, <3>3
    <2>6. ASSUME NEW j \in i .. m PROVE k < sparseIndex[j].key
        <3>1. i \in 1 .. m /\ j \in 1 .. m /\ (i = j \/ i < j)
            BY <2>1, <2>4
        <3>2. k < sparseIndex[i].key
            BY <2>1, <3>1
        <3> QED BY <2>1, <3>1, <3>2
    <2> QED BY <1>2, <2>4, <2>5, <2>6 DEF SearchResults, m
<1> QED BY <1>1, <1>2

\* Wherever the search ends, no version of the key is before the block the scan
\* starts from.  A version there and the entry after the block would have more
\* than SPARSE_INTERVAL + 1 versions of the key between them.
LEMMA BlockCovers ==
    ASSUME FewVersions, WriterInv, NEW k \in Key,
           NEW i \in SearchResults(k)
    PROVE  /\ BlockStart(i) \in Nat \ {0}
           /\ \A p \in DOMAIN data : data[p].key = k => BlockStart(i) <= p
<1> DEFINE m == Len(sparseIndex)
<1>1. m \in Nat /\ DOMAIN sparseIndex = 1 .. m /\ k \in Int
    BY Ordered, SSTableAssumption
<1> HIDE DEF m
<1>2. /\ i \in 1 .. m + 1
      /\ \/ i \in 1 .. m /\ sparseIndex[i].key = k
         \/ \A j \in 1 .. i - 1 : sparseIndex[j].key < k
    BY <1>1 DEF SearchResults, m
<1>3. CASE i = 1
    BY <1>3, Ordered DEF BlockStart
<1>4. CASE i # 1
    <2>1. i - 1 \in 1 .. m /\ i - 1 \in 1 .. i - 1 /\ i - 1 < i /\ i > 1
        BY <1>1, <1>2, <1>4
    <2> DEFINE start == sparseIndex[i - 1].offset
    <2>2. BlockStart(i) = start
        BY <2>1 DEF BlockStart
    <2>3. start \in DOMAIN data /\ start \in Nat \ {0} /\ sparseIndex[i - 1].key = data[start].key
        BY <1>1, <2>1, Ordered
    <2> HIDE DEF start
    <2>4. ASSUME NEW p \in DOMAIN data, data[p].key = k, p < start PROVE FALSE
        <3>1. k <= data[start].key
            BY <2>3, <2>4, Ordered
        <3>2. i \in 1 .. m /\ sparseIndex[i].key = k
            BY <1>1, <1>2, <2>1, <2>3, <3>1, Ordered
        <3> DEFINE last == sparseIndex[i].offset
        <3>3. last \in DOMAIN data /\ data[last].key = k /\ start + SPARSE_INTERVAL <= last
            BY <1>1, <2>1, <3>2, Ordered DEF start
        <3> HIDE DEF last
        <3>4. p \in Nat /\ start \in Nat /\ last \in Nat /\ SPARSE_INTERVAL \in Nat
            BY <2>3, <2>4, <3>3, Ordered, SSTableAssumption
        <3>5. p .. last \subseteq Positions(k)
            <4> SUFFICES ASSUME NEW q \in p .. last PROVE q \in Positions(k)
                OBVIOUS
            <4>1. q \in DOMAIN data /\ p <= q /\ q <= last
                BY <2>4, <3>3, <3>4, Ordered
            <4>2. k <= data[q].key /\ data[q].key <= k
                BY <2>4, <3>3, <4>1, Ordered
            <4> QED BY <1>1, <4>1, <4>2, Ordered DEF Positions
        <3>6. /\ IsFiniteSet(Positions(k)) /\ Cardinality(Positions(k)) \in Nat
              /\ Cardinality(Positions(k)) <= SPARSE_INTERVAL + 1
            BY PositionsFinite DEF WriterInv, TypeOK, FewVersions
        <3>7. Cardinality(p .. last) = last - p + 1
            BY <2>4, <3>3, <3>4, FS_Interval
        <3>8. Cardinality(p .. last) <= Cardinality(Positions(k))
            BY <3>5, <3>6, FS_Subset
        <3> QED BY <2>4, <3>3, <3>4, <3>6, <3>7, <3>8, SSTableAssumption
    <2> QED BY <2>2, <2>3, <2>4, Ordered
<1> QED BY <1>3, <1>4

\* A scan that starts before the versions of the key finds the newest.
LEMMA ScanFinds ==
    ASSUME WriterInv, NEW k \in Key, NEW asOf \in 0 .. SeqMax, NEW start \in Nat \ {0},
           \A p \in DOMAIN data : data[p].key = k => start <= p
    PROVE  ScanFrom(start, k, asOf) =
              IF Versions(Run, k, asOf) = {} THEN None ELSE Newest(Versions(Run, k, asOf))
<1> DEFINE vs == Versions(Run, k, asOf)
           ends == {i \in start .. Len(data) :
                      data[i].key > k \/ (data[i].key = k /\ data[i].seq <= asOf)}
           first == CHOOSE i \in ends : \A j \in ends : i <= j
<1>1. /\ k \in Int /\ asOf \in Int
      /\ \A i \in ends : i \in DOMAIN data /\ i \in Nat
    BY Ordered, SSTableAssumption
<1>2. ends # {} => first \in ends /\ \A j \in ends : first <= j
    <2>1. ends \in SUBSET Nat
        BY <1>1
    <2> HIDE DEF ends
    <2>2. ends # {} => \E i \in ends : \A j \in ends : i <= j
        BY <2>1, Least
    <2> QED BY <2>2
<1>3. ScanFrom(start, k, asOf) = IF ends = {} \/ data[first].key # k THEN None ELSE data[first]
    BY DEF ScanFrom
<1>4. CASE vs = {}
    <2>1. ASSUME ends # {}, data[first].key = k PROVE FALSE
        <3>1. first \in DOMAIN data /\ data[first].seq <= asOf
            BY <1>1, <1>2, <2>1
        <3>2. data[first] \in vs
            BY <2>1, <3>1 DEF Versions, Run
        <3> QED BY <1>4, <3>2
    <2> HIDE DEF ends, first
    <2> QED BY <1>3, <1>4, <2>1
<1>5. CASE vs # {}
    <2> DEFINE v == Newest(vs)
    <2>1. v \in vs /\ \A x \in vs : x.seq <= v.seq
        <3>1. vs \in SUBSET Record
            BY Ordered DEF Versions, Run
        <3> HIDE DEF vs
        <3> QED BY <1>5, <3>1, NewestExists
    <2> HIDE DEF v
    <2>2. PICK p \in DOMAIN data : v = data[p]
        BY <2>1 DEF Versions, Run
    <2>3. data[p].key = k /\ data[p].seq <= asOf
        BY <2>1, <2>2 DEF Versions
    <2>4. p \in ends
        BY <2>2, <2>3, Ordered
    <2>5. first \in ends /\ first <= p
        BY <1>2, <2>4
    <2>6. first \in DOMAIN data /\ first \in Nat
        BY <1>1, <2>5
    <2>7. data[first].key > k \/ (data[first].key = k /\ data[first].seq <= asOf)
        BY <2>5
    <2> HIDE DEF ends, first
    <2>8. first = p
        <3> SUFFICES ASSUME first # p PROVE FALSE
            OBVIOUS
        <3>1. first < p
            BY <2>2, <2>5, <2>6, Ordered
        <3>2. Before(data[first], data[p])
            BY <2>2, <2>6, <3>1 DEF WriterInv, InOrder
        <3>3. data[first].key = k /\ data[first].seq > v.seq
            BY <1>1, <2>2, <2>3, <2>6, <2>7, <3>2, Ordered DEF Before
        <3>4. data[first] \in vs
            BY <1>1, <2>3, <2>6, <2>7, <3>3 DEF Versions, Run
        <3>5. data[first].seq <= v.seq
            BY <2>1, <3>4
        <3> QED BY <2>2, <2>6, <3>3, <3>5, Ordered
    <2> QED BY <1>3, <1>5, <2>2, <2>3, <2>4, <2>8 DEF v
<1> QED BY <1>4, <1>5

\* The filter never hides a key that is in the file.
LEMMA BloomHidesNothing ==
    ASSUME WriterInv, NEW k \in Key, NEW asOf, ~MightContain(k)
    PROVE  Versions(Run, k, asOf) = {}
<1> SUFFICES ASSUME NEW p \in DOMAIN data, data[p].key = k PROVE MightContain(k)
    BY DEF Versions, Run
<1>1. Bits(k, numBits) \subseteq bits
    BY DEF WriterInv, BloomInv
<1> QED BY <1>1 DEF MightContain, Bits

LEMMA LookupReads ==
    ASSUME FewVersions, WriterInv
    PROVE  LookupIsExact
<1> SUFFICES ASSUME NEW k \in Key, NEW asOf \in 0 .. SeqMax
             PROVE  Get(k, asOf) = {IF Versions(Run, k, asOf) = {} THEN None
                                    ELSE Newest(Versions(Run, k, asOf))}
    BY DEF LookupIsExact
<1>1. CASE ~MightContain(k)
    BY <1>1, BloomHidesNothing DEF Get
<1>2. CASE MightContain(k)
    <2>1. SearchResults(k) # {}
        BY SearchEnds
    <2>2. \A i \in SearchResults(k) : ScanFrom(BlockStart(i), k, asOf) =
             IF Versions(Run, k, asOf) = {} THEN None ELSE Newest(Versions(Run, k, asOf))
        BY BlockCovers, ScanFinds
    <2> QED BY <1>2, <2>1, <2>2 DEF Get
<1> QED BY <1>1, <1>2

\* A lookup in the file returns what a lookup in the set of its records does, as
\* long as no key has more than SPARSE_INTERVAL + 1 versions in the file
\* (sstable.rs: block_start_offset, get; the run sstable_many_versions has one
\* version more).
THEOREM LookupExact ==
    ASSUME MaxVersions <= SPARSE_INTERVAL + 1
    PROVE  WriterSpec => []LookupIsExact
<1>1. WriterInv => LookupIsExact
    <2> SUFFICES ASSUME WriterInv PROVE LookupIsExact
        OBVIOUS
    <2>1. FewVersions
        <3> SUFFICES ASSUME NEW k \in Key PROVE Cardinality(Positions(k)) <= SPARSE_INTERVAL + 1
            BY DEF FewVersions
        <3>1. Cardinality(Positions(k)) \in Nat /\ Cardinality(Positions(k)) <= MaxVersions
            BY PositionsFinite DEF WriterInv, TypeOK, VersionsInv
        <3> QED BY <3>1, SSTableAssumption
    <2> QED BY <2>1, LookupReads
<1> QED BY <1>1, WriterInvariance, PTL
=================================================================================
