--------------------------------- MODULE SSTable ---------------------------------
(***************************************************************************)
(* One sstable: SSTableWriter fed record by record, and SSTable::get on    *)
(* the file it leaves.  A byte offset is the number of the record at it.   *)
(*                                                                         *)
(* MVCC treats a run as the set of its records and a point lookup as       *)
(* ReadAt on that set; here the lookup is what the code does, a bloom      *)
(* filter, a binary search of the sparse index and a scan from there.      *)
(***************************************************************************)
EXTENDS MVCC, FiniteSets

CONSTANTS
    SPARSE_INTERVAL,   \* records per entry of the sparse index
    BITS_PER_KEY,      \* bloom filter bits per expected entry
    MinBits,           \* and at least this many (64 in the code)
    NumHashes,         \* probes per key
    HashSize,          \* hashes are HashSize-ary: u64 arithmetic wraps there
    Hash1,             \* h1 of a key, FNV-1a
    Hash2,             \* h2 of a key, derived from h1
    Expected,          \* the expected_entries create may be called with
    MaxVersions        \* bound on the versions of one key in the sstable

ASSUME SSTableAssumption ==
    /\ Key \subseteq Int
    /\ SPARSE_INTERVAL \in Nat \ {0}
    /\ BITS_PER_KEY \in Nat \ {0}
    /\ MinBits \in Nat \ {0}
    /\ NumHashes \in Nat \ {0}
    /\ HashSize \in Nat \ {0}
    /\ Hash1 \in [Key -> 0 .. HashSize - 1]
    /\ Hash2 \in [Key -> 0 .. HashSize - 1]
    /\ Expected \subseteq Nat
    /\ MaxVersions \in Nat \ {0}

VARIABLES
    data,         \* the records, in file order
    sparseIndex,  \* (first key, offset) of every SPARSE_INTERVAL-th record
    sinceIndex,   \* entries_since_index
    numBits,      \* size of the bloom filter, kept in the footer
    bits,         \* the bits of it that are set
    finished      \* the footer is written: readers may open the file

writerVars == <<data, sparseIndex, sinceIndex, numBits, bits, finished>>

TypeOK ==
    /\ data \in Seq(Record)
    /\ sparseIndex \in Seq([key : Key, offset : Nat])
    /\ sinceIndex \in 0 .. SPARSE_INTERVAL - 1
    /\ numBits \in Nat \ {0}
    /\ bits \subseteq 0 .. numBits - 1
    /\ finished \in BOOLEAN

---------------------------------------------------------------------------
(* Bloom filter *)

\* Mutant of Probe: the hash is not reduced to the size of the filter.
ProbeUnreduced(k, i, size) == (Hash1[k] + ((i * Hash2[k]) % HashSize)) % HashSize

\* The bit of probe i, by double hashing in wrapping arithmetic.
Probe(k, i, size) == ((Hash1[k] + ((i * Hash2[k]) % HashSize)) % HashSize) % size

\* What BloomFilter::add sets.
Bits(k, size) == {Probe(k, i, size) : i \in 0 .. NumHashes - 1}

MightContain(k) == \A i \in 0 .. NumHashes - 1 : Probe(k, i, numBits) \in bits

---------------------------------------------------------------------------
(* Writer *)

\* InternalKey's order: user key ascending, seq descending.
Before(r, x) == r.key < x.key \/ (r.key = x.key /\ r.seq > x.seq)
InOrder(s) == \A i, j \in DOMAIN s : i < j => Before(s[i], s[j])

\* SSTableWriter::create, with with_capacity's size for the filter.
Create(expected) ==
    LET most(a, b) == IF a >= b THEN a ELSE b
    IN  /\ data = <<>>
        /\ sparseIndex = <<>>
        /\ sinceIndex = 0
        /\ numBits = most(most(expected, 1) * BITS_PER_KEY, MinBits)
        /\ bits = {}
        /\ finished = FALSE

\* SSTableWriter::add, which takes whatever it is given.
AddEntry(r) ==
    /\ ~finished
    /\ sparseIndex' =
          IF sinceIndex = 0
          THEN Append(sparseIndex, [key |-> r.key, offset |-> Len(data) + 1])
          ELSE sparseIndex
    /\ bits' = bits \cup Bits(r.key, numBits)
    /\ data' = Append(data, r)
    /\ sinceIndex' = (sinceIndex + 1) % SPARSE_INTERVAL
    /\ UNCHANGED <<numBits, finished>>

\* Entries come in order, as the comment on add asks of its callers, and with a
\* bounded number of versions of a key.
Add(r) ==
    /\ data # <<>> => Before(data[Len(data)], r)
    /\ Cardinality({i \in DOMAIN data : data[i].key = r.key}) < MaxVersions
    /\ AddEntry(r)

\* SSTableWriter::finish.
Finish ==
    /\ ~finished
    /\ finished' = TRUE
    /\ UNCHANGED <<data, sparseIndex, sinceIndex, numBits, bits>>

---------------------------------------------------------------------------
(* Reader *)

\* slice::binary_search_by: the index of a match, any one of them, or else
\* where the key would be inserted.
SearchResults(k) ==
    LET matches == {i \in DOMAIN sparseIndex : sparseIndex[i].key = k}
    IN  IF matches # {} THEN matches
        ELSE {i \in 1 .. Len(sparseIndex) + 1 :
                /\ \A j \in 1 .. i - 1 : sparseIndex[j].key < k
                /\ \A j \in i .. Len(sparseIndex) : k < sparseIndex[j].key}

\* Mutant of BlockStart: the block of the match, not the one before it.
BlockStartOfMatch(i) ==
    IF i \in DOMAIN sparseIndex THEN sparseIndex[i].offset
    ELSE IF i > 1 THEN sparseIndex[i - 1].offset ELSE 1

\* block_start_offset, given what the search returned: one block back.
BlockStart(i) == IF i > 1 THEN sparseIndex[i - 1].offset ELSE 1

\* The loop of get from an offset: it ends at a greater key, at a version that
\* is old enough, or at the end of the data.
ScanFrom(start, k, asOf) ==
    LET ends == {i \in start .. Len(data) :
                    \/ data[i].key > k
                    \/ data[i].key = k /\ data[i].seq <= asOf}
        first == CHOOSE i \in ends : \A j \in ends : i <= j
    IN  IF ends = {} \/ data[first].key # k THEN None ELSE data[first]

\* What SSTable::get may return, as the record whose value it is.
Get(k, asOf) ==
    IF ~MightContain(k) THEN {None}
    ELSE {ScanFrom(BlockStart(i), k, asOf) : i \in SearchResults(k)}

---------------------------------------------------------------------------
(* Specification *)

WriterInit == \E expected \in Expected : Create(expected)

WriterNext == (\E r \in Record : Add(r)) \/ Finish

\* A writer whose caller keeps to the contract.
WriterSpec == WriterInit /\ [][WriterNext]_writerVars

---------------------------------------------------------------------------
(* Properties *)

\* The set of records a run is for MVCC.
Run == {data[i] : i \in DOMAIN data}

\* A lookup in the file is a lookup in the set of its records: the newest
\* version no newer than as_of, whichever match the binary search stops at
\* (sstable.rs: "walk left to the first occurrence so we don't skip newer
\* versions"; the test many_versions_of_same_key_point_lookup).
LookupIsExact ==
    finished => \A k \in Key, asOf \in 0 .. SeqMax :
        Get(k, asOf) = {IF Versions(Run, k, asOf) = {} THEN None
                        ELSE Newest(Versions(Run, k, asOf))}
=================================================================================
