---------------------------------- MODULE MVCC ----------------------------------
(***************************************************************************)
(* Versioned records and the three ways sift-core reads a collection of    *)
(* sorted runs: the point lookup that stops at the first run holding a     *)
(* version of the key, the full scan, and the compaction merge.            *)
(*                                                                         *)
(* A run (memtable or sstable) is a set of records; its order on disk,     *)
(* (user_key ascending, seq descending), is a function of that set.        *)
(***************************************************************************)
EXTENDS Integers, Sequences

CONSTANTS
    Key,       \* user keys
    Val,       \* byte strings a put can store
    Delete,    \* Value::Delete, the tombstone
    None,      \* Option::None
    SeqMax     \* Seq::MAX; also bounds how many writes a behaviour holds

ASSUME MVCCAssumption ==
    /\ SeqMax \in Nat
    /\ Delete \notin Val
    /\ None \notin Val \cup {Delete}

Value == Val \cup {Delete}
SeqNum == 1 .. SeqMax
Record == [key : Key, seq : SeqNum, val : Value]

\* Value::as_put: what a reader is shown of a value.
AsPut(v) == IF v = Delete THEN None ELSE v

SameVersion(r, x) == r.key = x.key /\ r.seq = x.seq

\* Mutant of Insert: the map is keyed by the user key alone.
InsertOneVersion(run, r) == {x \in run : x.key # r.key} \cup {r}

\* BTreeMap::insert under InternalKey: replaces an entry of equal (key, seq).
Insert(run, r) == {x \in run : ~SameVersion(x, r)} \cup {r}

---------------------------------------------------------------------------
(* One run *)

Versions(run, k, asOf) == {r \in run : r.key = k /\ r.seq <= asOf}

Newest(vs) == CHOOSE r \in vs : \A x \in vs : x.seq <= r.seq

\* MemTable::get and SSTable::get: the newest version with seq <= as_of.
ReadAt(run, k, asOf) ==
    IF Versions(run, k, asOf) = {} THEN None
    ELSE Newest(Versions(run, k, asOf)).val

---------------------------------------------------------------------------
(* A sequence of runs, newest first *)

\* The runs that hold a version of k no newer than asOf.
Hits(runs, k, asOf) == {i \in DOMAIN runs : Versions(runs[i], k, asOf) # {}}

\* Mutant of FirstHit: a tombstone does not stop the search.
FirstHitFallsThrough(runs, k, asOf) ==
    LET hits == {i \in Hits(runs, k, asOf) : ReadAt(runs[i], k, asOf) # Delete}
    IN  IF hits = {} THEN None
        ELSE ReadAt(runs[CHOOSE i \in hits : \A j \in hits : i <= j], k, asOf)

\* lookup_in_tiers: the first run with a hit answers, tombstones included.
FirstHit(runs, k, asOf) ==
    LET hits == Hits(runs, k, asOf)
    IN  IF hits = {} THEN None
        ELSE ReadAt(runs[CHOOSE i \in hits : \A j \in hits : i <= j], k, asOf)

\* The heap of compact() and the strict comparison of iter_all order versions
\* alike: greatest seq first, and of equal seqs the one of the earliest run.
IsWinner(runs, i, r) ==
    /\ r \in runs[i]
    /\ \A j \in DOMAIN runs : \A x \in runs[j] :
          x.key = r.key => x.seq < r.seq \/ (x.seq = r.seq /\ i <= j)

Winners(runs) ==
    {r \in UNION {runs[i] : i \in DOMAIN runs} :
        \E i \in DOMAIN runs : IsWinner(runs, i, r)}

\* compaction::compact: one version of each key, and on the last level no
\* tombstones.
Merge(runs, isLastLevel) ==
    {r \in Winners(runs) : ~(isLastLevel /\ r.val = Delete)}

\* LsmEngine::iter_all: the live pairs, as a function with None for a key that
\* has none.
Scan(runs) ==
    [k \in Key |->
        IF \E r \in Winners(runs) : r.key = k
        THEN AsPut((CHOOSE r \in Winners(runs) : r.key = k).val)
        ELSE None]
=================================================================================
