--------------------------------- MODULE TableBuild ---------------------------------
(***************************************************************************)
(* The two callers of SSTableWriter.  LsmEngine::flush writes the memtable *)
(* in the order of its BTreeMap.  compact merges sstables through a heap   *)
(* that holds the next key of each, with the values beside it.             *)
(*                                                                         *)
(* What the callers promise the writer is WriterSpec, and what they leave  *)
(* in the file is what Lsm and MVCC say of it.  Lsm has the errors, after  *)
(* which the file stays a .tmp nobody reads.                               *)
(***************************************************************************)
EXTENDS SSTable

CONSTANT Inputs   \* lists of sstables, newest first, each in file order

\* expected_entries: the entry_count of every input.
EntryCount(list) ==
    LET count[n \in 0 .. Len(list)] == IF n = 0 THEN 0 ELSE count[n - 1] + Len(list[n])
    IN  count[Len(list)]

ASSUME TableBuildAssumption ==
    /\ None \notin Key
    /\ \A list \in Inputs :
        /\ list \in Seq(Seq(Record))
        /\ \A i \in DOMAIN list : InOrder(list[i])
        /\ EntryCount(list) \in Expected

VARIABLES
    job,          \* "flush" or "compact"
    isLastLevel,  \* the argument of compact
    inputs,       \* the sstables it merges
    rest,         \* what each SSTableIter has still to yield
    heap,         \* the next key of each, with the number of its input
    buffered,     \* and its value
    lastEmitted   \* last_emitted_key

mergeVars == <<rest, heap, buffered, lastEmitted>>
vars == <<writerVars, job, isLastLevel, inputs, mergeVars>>

BuildTypeOK ==
    /\ TypeOK
    /\ job \in {"flush", "compact"}
    /\ isLastLevel \in BOOLEAN
    /\ inputs \in Inputs \cup {<<>>}
    /\ DOMAIN rest = DOMAIN inputs
    /\ \A i \in DOMAIN rest : rest[i] \in Seq(Record)
    /\ heap \subseteq [key : Key, seq : SeqNum, idx : DOMAIN inputs]
    /\ buffered \in [DOMAIN inputs -> Value \cup {None}]
    /\ lastEmitted \in Key \cup {None}

---------------------------------------------------------------------------
(* compact *)

Entry(r, i) == [key |-> r.key, seq |-> r.seq, idx |-> i]

\* The order of (InternalKey, usize).
Precedes(e, f) == Before(e, f) \/ (~Before(f, e) /\ e.idx < f.idx)

\* Up to the loop of compact: every iterator yields its first record.
OpenInputs(list) ==
    /\ inputs = list
    /\ rest = [i \in DOMAIN list |-> IF list[i] = <<>> THEN <<>> ELSE Tail(list[i])]
    /\ heap = {Entry(list[i][1], i) : i \in {i \in DOMAIN list : list[i] # <<>>}}
    /\ buffered = [i \in DOMAIN list |-> IF list[i] = <<>> THEN None ELSE list[i][1].val]
    /\ lastEmitted = None

\* Mutant of Pop: the iterator that is asked for more is the next one.
PopRefillsNext(e) ==
    LET i == IF e.idx = Len(inputs) THEN 1 ELSE e.idx + 1
    IN  /\ heap' = (heap \ {e}) \cup (IF rest[i] = <<>> THEN {} ELSE {Entry(rest[i][1], i)})
        /\ buffered' = [buffered EXCEPT ![i] = IF rest[i] = <<>> THEN None ELSE rest[i][1].val]
        /\ rest' = [rest EXCEPT ![i] = IF @ = <<>> THEN <<>> ELSE Tail(@)]

\* Mutant of Pop: the iterator does not advance.
PopKeepsRest(e) ==
    LET i == e.idx
    IN  /\ heap' = (heap \ {e}) \cup (IF rest[i] = <<>> THEN {} ELSE {Entry(rest[i][1], i)})
        /\ buffered' = [buffered EXCEPT ![i] = IF rest[i] = <<>> THEN None ELSE rest[i][1].val]
        /\ UNCHANGED rest

\* The popped entry gives way to the next of its input.
Pop(e) ==
    LET i == e.idx
    IN  /\ heap' = (heap \ {e}) \cup (IF rest[i] = <<>> THEN {} ELSE {Entry(rest[i][1], i)})
        /\ buffered' = [buffered EXCEPT ![i] = IF rest[i] = <<>> THEN None ELSE rest[i][1].val]
        /\ rest' = [rest EXCEPT ![i] = IF @ = <<>> THEN <<>> ELSE Tail(@)]

\* The entry the heap pops, and its value; compact panics when there is none.
Popped(e) ==
    /\ ~finished
    /\ e \in heap
    /\ \A f \in heap \ {e} : Precedes(e, f)
    /\ buffered[e.idx] # None
    /\ Pop(e)
    /\ UNCHANGED <<job, isLastLevel, inputs>>

\* A version older than one that was decided on.
SkipShadowed(e) ==
    /\ Popped(e)
    /\ lastEmitted = e.key
    /\ UNCHANGED <<writerVars, lastEmitted>>

\* Mutant of DropTombstone: on every level.
DropTombstoneAnyLevel(e) ==
    /\ Popped(e)
    /\ lastEmitted # e.key
    /\ buffered[e.idx] = Delete
    /\ lastEmitted' = e.key
    /\ UNCHANGED writerVars

\* Mutant of DropTombstone: last_emitted_key is set by what is written only.
DropTombstoneForgets(e) ==
    /\ Popped(e)
    /\ lastEmitted # e.key
    /\ isLastLevel /\ buffered[e.idx] = Delete
    /\ UNCHANGED <<writerVars, lastEmitted>>

\* The newest version is a tombstone with nothing below to shadow.
DropTombstone(e) ==
    /\ Popped(e)
    /\ lastEmitted # e.key
    /\ isLastLevel /\ buffered[e.idx] = Delete
    /\ lastEmitted' = e.key
    /\ UNCHANGED writerVars

\* The newest version goes to the output.
Emit(e) ==
    /\ Popped(e)
    /\ lastEmitted # e.key
    /\ ~(isLastLevel /\ buffered[e.idx] = Delete)
    /\ lastEmitted' = e.key
    /\ AddEntry([key |-> e.key, seq |-> e.seq, val |-> buffered[e.idx]])

CompactFinish ==
    /\ job = "compact"
    /\ heap = {}
    /\ Finish
    /\ UNCHANGED <<job, isLastLevel, inputs, mergeVars>>

---------------------------------------------------------------------------
(* flush *)

\* The next entry of a memtable, which can hold any.  BTreeMap iterates in the
\* order of InternalKey.
FlushEntry(r) ==
    /\ job = "flush"
    /\ Add(r)
    /\ UNCHANGED <<job, isLastLevel, inputs, mergeVars>>

\* flush returns early when the memtable is empty.
FlushFinish ==
    /\ job = "flush"
    /\ data # <<>>
    /\ Finish
    /\ UNCHANGED <<job, isLastLevel, inputs, mergeVars>>

---------------------------------------------------------------------------
(* Specification *)

\* expected is approx_bytes / 48 in flush, but not 0.
InitFlush ==
    /\ job = "flush"
    /\ isLastLevel = FALSE
    /\ OpenInputs(<<>>)
    /\ \E expected \in Expected \ {0} : Create(expected)

InitCompact ==
    /\ job = "compact"
    /\ isLastLevel \in BOOLEAN
    /\ \E list \in Inputs : OpenInputs(list) /\ Create(EntryCount(list))

Init == InitFlush \/ InitCompact

Next ==
    \/ \E e \in heap : SkipShadowed(e) \/ DropTombstone(e) \/ Emit(e)
    \/ CompactFinish
    \/ \E r \in Record : FlushEntry(r)
    \/ FlushFinish

\* The loops are not abandoned by their thread.
Spec == Init /\ [][Next]_vars /\ WF_vars(Next)

---------------------------------------------------------------------------
(* Properties *)

\* Every entry compact adds follows the last in InternalKey order, and the file
\* is complete before it is finished (sstable.rs: "caller MUST supply entries in
\* InternalKey order"; compaction.rs: "the heap comparator does double duty").
WriterContract == WriterSpec

Sets(list) == [i \in DOMAIN list |-> {list[i][j] : j \in DOMAIN list[i]}]

\* The heap and its refills leave the newest version of each key, of the first
\* input when two hold the same version, and no tombstone on the last level
\* (compaction.rs: compact).
OutputIsMerge ==
    finished /\ job = "compact" => Run = Merge(Sets(inputs), isLastLevel)

\* Of one key, newer inputs hold newer versions.
Layered(runs) ==
    \A i, j \in DOMAIN runs : i < j =>
        \A r \in runs[i], x \in runs[j] : r.key = x.key => x.seq < r.seq

\* A current read of the output answers as the search through the inputs did,
\* and above the last level a deleted key stays a tombstone, which shadows what
\* lies below (compaction.rs: lookup_in_tiers, compact).
MergeKeepsReads ==
    finished /\ job = "compact" /\ Layered(Sets(inputs)) =>
        \A k \in Key :
            LET before == FirstHit(Sets(inputs), k, SeqMax)
                after == ReadAt(Run, k, SeqMax)
            IN  IF isLastLevel THEN AsPut(after) = AsPut(before) ELSE after = before

\* Each input has one entry in the heap, the record its iterator yielded last,
\* with the value of that record buffered, until all of it was yielded and popped
\* (compaction.rs: "heap entry without buffered value").
HeapIsBuffered ==
    /\ \A e \in heap :
          LET last == inputs[e.idx][Len(inputs[e.idx]) - Len(rest[e.idx])]
          IN  e = Entry(last, e.idx) /\ buffered[e.idx] = last.val
    /\ \A i \in DOMAIN inputs : (\A e \in heap : e.idx # i) => rest[i] = <<>>

\* Whatever the inputs, the loop drains them (compaction.rs: compact).
EveryBuildEnds == <>finished
=================================================================================
