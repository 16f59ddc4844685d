----------------------------------- MODULE Wal -----------------------------------
(***************************************************************************)
(* The write-ahead log file as a sequence of frames.  A frame is a whole   *)
(* record, or Torn: bytes that fail the length or checksum test of         *)
(* wal::replay, whatever they are.                                         *)
(***************************************************************************)
EXTENDS MVCC

CONSTANT Torn   \* bytes that do not parse as a record

ASSUME WalAssumption == Torn \notin Record

Frame == Record \cup {Torn}

\* The indices replay gets to: it stops at the first frame that fails.
Replayable(file) == {i \in DOMAIN file : \A j \in 1 .. i : file[j] # Torn}

\* The memtable LsmEngine::open builds: records inserted in file order, so of
\* two with the same key and seq the later one stays.
Replayed(file) ==
    {file[i] : i \in {i \in Replayable(file) :
        \A j \in Replayable(file) : i < j => ~SameVersion(file[i], file[j])}}

\* Mutant of MaxSeq: the loop forgets to raise max_seq.
MaxSeqNotTracked(records) == 0

\* Mutant of MaxSeq: the maximum is raised by one here and by open again.
MaxSeqPlusOne(records) ==
    IF records = {} THEN 0
    ELSE (CHOOSE r \in records : \A x \in records : x.seq <= r.seq).seq + 1

\* The running max_seq of LsmEngine::open; 0 when nothing is replayed.
MaxSeq(records) ==
    IF records = {} THEN 0
    ELSE (CHOOSE r \in records : \A x \in records : x.seq <= r.seq).seq
=================================================================================
