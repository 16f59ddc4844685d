# Formal models of sift-core

TLA+ models of [sift-core](../src/README.md), a hybrid (vector and full-text)
search engine on a storage engine of its own, with the TLC configurations that
check them and TLAPS proofs about them. Everything is translated from the Rust
source under `src/src/`; names follow the source where TLA+ allows it.

## 1. The system

Everything is single-threaded: every mutating method takes `&mut self`. What is
hard is what happens between two system calls (the process stops, a call fails),
what the next `open` makes of the directory, and orders of legal calls that no
test makes.

| Component | State | Operations | What makes it correct |
|---|---|---|---|
| Write-ahead log, `wal.rs` | `wal.log`; a `BufWriter` that can hold unwritten bytes | `append`, `sync`, `reset`, `open`, `replay` | every record a `sync` acknowledged is replayed until a `reset`, whatever the tail looks like |
| Memtable, `memtable.rs` | a `BTreeMap` of (key, seq) to value, its size | `put`, `delete`, `get`, `iter`, `clear` | `get` returns the newest version not above the seq it is given |
| Sstable, `sstable.rs` | an immutable file: records, sparse index, bloom filter, footer | `create`, `add`, `finish`, `open`, `get`, full iteration | `get` is exact: filter, index and scan never miss a version that is there, nor return an older one |
| Compaction, `compaction.rs` | none of its own; a heap over the inputs, an output file | `compact`, `lookup_in_tiers`, `should_compact` | the output answers every current read as its inputs did; a failure or a stop changes nothing |
| LSM engine, `lsm.rs` | log, memtable, `tiers` (newest first), `next_seq`, `next_sst_id`, the directory | `open`, `put`, `delete`, `get`, `get_at`, `flush`, `maybe_compact`, `iter_all` | an acknowledged write is never lost nor undone, seqs only grow, a deleted key stays deleted, snapshot reads are stable |
| Vector index, `vector.rs` | ids and a flat array of rows | `insert`, `remove`, `search` | ids and rows stay aligned; `search` returns the k best |
| Inverted index, `text.rs` | postings, document lengths, their sum, their count | `index_document`, `remove_document`, `search` | the aggregates match the postings |
| Fusion, `fusion.rs` | none | `reciprocal_rank_fusion` | rank sums over both lists |
| Engine, `engine.rs` | the LSM engine and the two indexes | `open`, `upsert`, `delete`, `get_blob`, `query`, `flush` | the indexes hold the live documents of the store, whatever failed, and `open` rebuilds them |
| `main.rs`, `benches/bench.rs` | none | a demonstration, timing loops | not modelled |

How they interact: `Engine::upsert` writes the encoded document to the LSM engine
and then to both indexes; `Engine::open` rebuilds the indexes from
`LsmEngine::iter_all`; `Engine::query` ranks in both indexes, fuses, and reads the
blobs from the LSM engine. `LsmEngine::put` appends to the log, syncs it, and puts
the record in the memtable; when that is large enough it becomes an sstable and
the log is truncated; when there are enough sstables they are merged into one.

`PROJECT.json` lists, at their lines, the hazards of this code and the properties
that would catch them; the main groups are

* a stop, or a failed system call, between two steps of put, flush or compact;
* state recovered by `open` that is not the state that was lost (seqs, order of
  the tiers, leftovers of a flush or a compaction, a torn log);
* two read paths (`get_at`, `iter_all`) that decide on different grounds which
  version is the newest;
* boundaries inside an sstable (many versions of one key, a filter sized for
  another number of keys, equal entries of the sparse index);
* the merge of compaction: inputs that are empty, run out at different times or
  hold the same version, and tombstones that are dropped;
* derived indexes that miss a write of the store, or parts of an index that fall
  out of step with each other;
* a query over two bounded pools with ties in any order: too few hits, stale hits,
  or a better document behind a worse one.

## 2. Modules

| Module | Models | Lines to read first |
|---|---|---|
| `MVCC` | records and versions; point lookup, first hit over runs, full scan, merge | `FirstHit`, `Winners` |
| `Wal` | the log as a sequence of frames, and what a replay makes of it | `Replayable` |
| `KVStore` | the abstract promise of the LSM engine: a durable map | all |
| `Lsm` | `LsmEngine` with its log, files and failures; its properties | the actions, `Crash`, `Open` |
| `SSTable` | one sstable file: writer, filter, sparse index, lookup | `BlockStart`, `Get` |
| `TableBuild` | the two callers of that writer: `flush`, and the merge loop of `compact` | `Pop`, `DropTombstone`, `Emit` |
| `Ranking` | sums of scores, and the orders sorting a map of scores may give | `Rankings` |
| `VectorIndex` | `VectorIndex` as a record of ids and a flat array; `search` with its kernels and the array of its `BinaryHeap` | `Remove`, `Kernel`, `Offer` |
| `TextIndex` | `InvertedIndex` as a record: postings and aggregates; its `search` with BM25 | `IndexDocument`, `TextScores` |
| `Fusion` | `reciprocal_rank_fusion` | `Fused` |
| `Engine` | `Engine` over `KVStore` and the two indexes, and its queries; their properties | `UpsertDone`, `StoreError`, `OpenIndex`, `Answers` |
| `MVCCProofs` | lemmas: what lookups, scans and merges over runs in the order of their age return | `Shadows`, `Layered` |
| `LsmProofs` | theorems about `Lsm` that hold whatever stops or fails; the log is never behind the memtable | `Inv`, `LogInv`, `ServedInv` |
| `LsmRecencyProofs` | runs are in the order of age and seqs grow, under `Recoverable` | `RecencyInv` |
| `LsmStoreProofs` | what readers see, and the refinement of `KVStore`, under `Recoverable` | `Seen`, `StoreImplemented` |
| `SSTableProofs` | a lookup in a file is a lookup in its records | `WriterInv`, `LookupExact` |
| `TableBuildProofs` | the merge loop leaves the merge; both loops are writers | `BuildInv` |
| `EngineProofs` | both indexes follow the store | `EngineInv`, `Holds` |
| `SearchProofs` | text scores are those of the documents stored, a vector search returns the best rows, and what a query makes of both | `Reflects`, `HasBest`, `KernelIsSum`, `Answered` |
| `MCLsm`, `MCTableBuild`, `MCEngine` | definitions the TLC configurations use | |

`Lsm` extends `Wal`, which extends `MVCC`; `SSTable` extends `MVCC` and shows that
the lookup inside a file is the lookup on the set of its records, which is how
`Lsm` reads a file. `TableBuild` extends `SSTable` and drives its writer; it shows
that the file a merge leaves holds what `MVCC`'s `Merge` says, which is how `Lsm`
compacts, and that both callers refine the writer's specification. `Lsm` instances `KVStore` with a refinement mapping, and
`Engine` instances it again, with documents for values, as its store: what `Lsm`
was shown to keep is all that `Engine` uses. `Engine` extends `VectorIndex`,
`TextIndex` and `Fusion`, which have no variables; an index is a record the engine
holds, and a search an operator on it.

### Correspondence with the code

`MVCC`. A *run* is the content of a memtable or of an sstable: a set of records
`[key, seq, val]`. Order on disk is a function of that set (user key ascending, seq
descending), so it is left out here and present in `SSTable`. `Insert` is
`BTreeMap::insert`; `ReadAt` is `MemTable::get`; `FirstHit` is `lookup_in_tiers`
with the memtable in front; `Merge` is what `compact` writes; `Scan` is `iter_all`.

`Lsm`. `pc` names the next step of the running call, and each step ends where the
process can stop or a system call can fail:

| Action | Code |
|---|---|
| `Put`, `Remove` | `put`, `delete` up to `wal.append`, which only fills the `BufWriter` |
| `WalSync`, `WalWriteFail`, `WalSyncFail` | `wal.sync`: the write and the fsync, each of which can fail |
| `Apply` | `memtable.put` or `delete`, and the size test of `maybe_flush` |
| `Flush` | an explicit `flush` |
| `FlushWrite`, `FlushRename`, `WalReset` and `...Fail` | the three durable steps of `flush` |
| `CompactMerge`, `CompactRename`, `CompactRemove` (per input), `CompactDone` and `...Fail` | `maybe_compact` and `compact` |
| `Return` | `Ok` to the caller; every `...Fail` but one is `Err` |
| `Crash`, `Open` | the process stops or the engine is dropped; `LsmEngine::open` |

`wal` is the file up to the writer's position, `walBuf` the bytes only the
`BufWriter` has, `walStale` bytes in the file past the writer. The last needs a
word: `Wal::reset` truncates the file and then the assignment to `self.wal` drops
the old writer, whose `Drop` writes what an earlier failed write left in its buffer
(`Dropped`): at the start of the file if that writer appends (`walAppends`, the one
`Wal::open` made) or stood at offset 0, and behind a hole otherwise. The new writer
starts at offset 0 and does not append, so later records go over those bytes. A record
may end with a stale one or leave the rest of it (`Overwritten`). A hole and the rest of
a record are `Torn` frames, as a record cut short is: it is assumed that none of them
happens to parse.
`horizon`, `doubt`, `crashes` and `fails` are history: the seq of the last
compaction, the outcomes of failed writes, and the counters behind the bounds.

`SSTable`. `AddEntry` is `SSTableWriter::add`, which takes whatever it is given;
`Add` is the same under its contract (entries in `InternalKey` order). `Create` sizes
the filter from the caller's estimate, exact in `compact` and a guess in `flush`,
hence the set `Expected`. `SearchResults` is everything `binary_search_by` may
return: any of several equal entries.

`TableBuild`. A behaviour is one call of `compact` or one file written by `flush`.

| Action | Code |
|---|---|
| `InitCompact`, `OpenInputs` | `compact` up to its loop: every iterator has yielded its first record, the writer exists |
| `Popped`, in the next three | the heap pops its least entry, its value is taken (`expect`), its iterator refills both |
| `SkipShadowed`, `DropTombstone`, `Emit` | the rest of the loop body: older version, tombstone on the last level, record written |
| `CompactFinish` | the heap is empty: `writer.finish` |
| `InitFlush`, `FlushEntry`, `FlushFinish` | `flush` from the creation of the writer to its `finish`, for any content of a memtable |

The heap is a set, since its entries are totally ordered by `(InternalKey, usize)`;
`rest` is what each `SSTableIter` has still to yield. `isLastLevel` is either value:
the engine passes `true`, the other one is part of what `compact` offers. `Inputs`
has every list of sstables of the bound, also lists where an older input holds a
newer version or both hold the same, which finding 1 makes real.

`Engine`. A call is `Upsert` or `DeleteDoc` (the store's call begins), `StoreEffect`
(the write becomes visible), and one of `UpsertDone`, `DeleteDone` (`Ok`, both
indexes updated), `UpsertMismatch` (the vector index rejects the vector after the
store took the document) and `StoreError` (the store's error, before the effect or,
when the flush it started failed, after it). `Stop` is `KVStore`'s restart; `Open`,
`OpenIndex` per document in any order, and `OpenDone` or `OpenMismatch` are
`Engine::open`. A vector is a sequence of integers or NaN, a text the sequence of its
terms. `failed` is history: the ids whose last write returned an error since the
engine was opened. `SiftUp`, `Push` and `Pop` are the standard library's `BinaryHeap` with its exact comparisons, since the
order of `Scored` is none when a NaN is in it.

`Answers` is `Engine::query`: the set of answers, because a `HashMap` decides between
equal text scores and equal fused scores. Scores are integers with the order of the
code's: the cosine squared with its sign kept and scaled, BM25 as one
fraction with its logarithms from a table (`Idf`), and 1 / (60 + rank) in units that
61, 62 and 63 divide. A kernel has two lanes in place of eight, so that a dimension
of three has a chunk and a tail. A zero vector scores 0, as the code has it (the
comment of the test at `vector.rs:300` says NaN).

## 3. Runs

| Run | Configuration | Checks |
|---|---|---|
| `lsm_safe` | `LsmSafe.cfg` | `ImplementsKVStore`, `IterAllAgrees`, `SnapshotStable`, `SeqStrictlyIncreasing`, `LogIsDurable` with flush and compaction, for the stops and errors the engine does recover from |
| `lsm_faults` | `LsmFaults.cfg` | `TypeOK`, `TiersServe`, `OutputIsFresh`, `CallsReturn` with every stop, every error and torn records |
| `sstable_lookup` | `SSTableLookup.cfg` | every flush and every merge of the bound: `WriterContract` and `EveryBuildEnds` of both, `HeapIsBuffered` (the `expect` in `compact`), `OutputIsMerge` and `MergeKeepsReads` of the merge, `LookupIsExact` in the file with up to `SPARSE_INTERVAL` + 1 versions of a key, `BuildTypeOK` |
| `engine` | `Engine.cfg` | `IndexesFollowStore`, `SameDocuments`, `AggregatesMatch`, `SearchIsTopK`, `TextScoresFollowStore`, `QueryAnswers`, `BetterInBothComesFirst`, `TypeOK` with errors, vectors of a wrong dimension, stops and rebuilds |
| `lsm_seq_reuse` | `LsmSeqReuse.cfg` | violates `SeqStrictlyIncreasing` (finding 1) |
| `lsm_resurrect` | `LsmResurrect.cfg` | violates `NoResurrection` (finding 2) |
| `lsm_torn_tail` | `LsmTornTail.cfg` | violates `LogIsDurable` (finding 3) |
| `lsm_leftover` | `LsmLeftover.cfg` | violates `LogIsDurable` (finding 4) |
| `lsm_compact_fail` | `LsmCompactFail.cfg` | violates `FailedCompactionIsHarmless` (finding 5) |
| `sstable_many_versions` | `SSTableManyVersions.cfg` | violates `LookupIsExact` (finding 6) |
| `engine_io_error` | `EngineIoError.cfg` | violates `ErrorsLeaveEngineConsistent` (finding 7) |
| `engine_nan` | `EngineNaN.cfg` | violates `NaNNeverWins` (finding 8) |

Every property of a passing run is also checked against a mutated definition (the
operators commented "Mutant of ..."), and TLC finds it violated.

What the query properties say: `SearchIsTopK` compares kernels, heap and sort with
scores computed in one sum; `TextScoresFollowStore` says no history of replaced and
removed documents is left in a score; `QueryAnswers` that a query returns as many
hits as there can be, each with its document from the store; `BetterInBothComesFirst`
that no pool and no tie puts a document before one that is better in both indexes.

### Findings

1. `open` recovers `next_seq` from the log alone. After a flush the log is empty, so
   a stop and a restart hand out seqs from 1 again. `iter_all` then prefers an old
   version at once, and the next compaction keeps it for good: an acknowledged
   update is lost.
2. `maybe_compact` removes its inputs newest first, after tombstones were dropped
   from the merged file, and `open` takes every `.sst` it finds. A stop in that loop
   brings a deleted key back. An input whose removal fails is in no tier but in the
   directory, and does the same at the next `open`.
3. `Wal::open` appends after a torn tail. Replay stops at the torn record, so writes
   acknowledged after that restart are gone at the next one. A torn record arises
   when the process stops between the two writes of a record larger than the
   buffer of 8 KiB, or when a write is partial.
4. A tail that does not parse needs no torn write. `put` b returns `Ok`; `put` c fails
   in write(2) and stays in the `BufWriter`; `flush` truncates the log and drops the
   old writer, which writes c at its start; `put` d, shorter than c, goes over it and
   leaves the rest of c behind itself. After a restart the log is as in finding 3.
   An old writer that came from a reset itself leaves a hole before c, with the same
   effect.
5. `maybe_compact` takes the list of tiers before the merge that can fail. After an
   error nothing on disk is visible until a restart.
6. `block_start_offset` goes back one block from any equal entry of the sparse
   index. With `SPARSE_INTERVAL` + 2 or more versions of a key, two entries can hold
   the key while its newest version is in the block before both; when the search
   returns the second, the scan starts behind the newest version. Whether it does
   depends on the search's midpoint. One version fewer is always safe, which
   `LookupExact` proves.
7. `put` also returns an error when the write is logged and visible and only the
   flush or compaction it started failed. `Engine::upsert` and `delete` then leave
   both indexes as they were, and queries follow the old document until a restart.
8. A NaN score that enters the heap of `search` before it is full keeps its place; at
   the root it turns every later candidate away.

### The conditions of the passing runs

The findings are also the conditions under which the engine keeps its promise, and
the runs name them as constants rather than leave the steps out:

| Constant | Condition of a passing run | Without it |
|---|---|---|
| `CrashPoints` | no stop inside a compaction, and none where the log has nothing to replay beside sstables (the point `"clean"`) | findings 2 and 1 |
| `FailPoints` | no error inside a compaction | findings 2 and 5 |
| `TornWrites` | `FALSE`: a log write leaves whole records | finding 3 |
| `FlushAfterFailure` | `FALSE`: `flush` is not called while a failed write is still in the `BufWriter`; the next `put` or `delete` that returns `Ok` empties it | finding 4 |

`SafeCrashPoints` and `SafeFailPoints` are the first two. `lsm_safe` has all four, with
one stop; what a second would lose is what `LogIsDurable` asks after the first, and
with `FlushAfterFailure` alone set to `TRUE` TLC finds it violated within the same bounds.
The theorems behind these properties (section 4) have any number of stops and writes.
`lsm_faults` has none of the conditions: what it checks, and what is proved of it, holds
in every case. `SnapshotStable` speaks of snapshots no older than the last compaction: a
compaction, which any `put` may start, drops every version but the newest, whichever
seqs readers have pinned, so that `get_at` may answer `None` for a key it had a value
for. `engine` admits errors and wrong dimensions and claims the documents whose last
write returned `Ok` (`failed` names the others); its scores are numbers (finding 8). It
stands on `KVStore`, so on the conditions under which `Lsm` implements it.

### Bounds

| Constant | Value | Why it is enough |
|---|---|---|
| `Key`, `Val` | 1 or 2 keys, 1 value | the code treats keys alike and never looks into values; two keys tell a per-key decision from a global one, and value against tombstone is the only difference that matters. Keys are symmetric |
| `SeqMax` | 2 to 4 | the number of writes: four give two flushes of two records and so a compaction whose runs share keys, and a write before a failed one, the failed one, one over what it left and one after the restart; in `sstable_lookup`, the versions of a key in a memtable |
| `FlushThreshold` | 2 records | the smallest memtable that holds two versions of a key |
| `COMPACTION_TRIGGER` | 2 (4 in the code) or 9 (off) | the smallest compaction that merges |
| `MaxCrashes`, `MaxFails` | 1 or 2, and 1 | each recovery path starts from a directory as a stop or a failure left it; two stops also hit what the first restart left |
| `SPARSE_INTERVAL` | 2 (16) | a block boundary inside the versions of a key, and blocks of several keys |
| `BITS_PER_KEY`, `MinBits`, `NumHashes`, `HashSize` | 2, 4, 2, 16 | small enough that sums wrap and keys collide; the hash of a key is a constant |
| `Expected` | 0 to 4 | a filter sized for none, too few and too many; `compact` passes the number of entries |
| `Inputs`, `MaxEntries` | three sstables of 0 to 2 records, 4 in all | empty inputs, inputs that run out one after another, three inputs on one key, the same version in two of them; two keys and two seqs |
| `Id`, `MaxWrites` | 3 ids, 4 writes | three rows and then a removal: the smallest swap that moves a row which is neither removed nor first; ids are symmetric |
| `Dim`, `Lanes`, `Doc` | 3, 2 (8); 4 documents | a chunk and a tail in the kernels, a vector of another length, a text with a repeated term, an empty one, and terms shared between texts |
| `Query` | 2 queries, every k up to 3 | a tie and a winner in cosine, a repeated term, a term of no document, two terms |
| pool of `query` | max(2k, 2) (max(4k, 20)) | for k = 1 a pool smaller than the number of documents, for k = 3 one larger |
| `MaxVersions` | 3 (pass), 4 (violation) | the last number of versions that is safe, `SPARSE_INTERVAL` + 1, and the first that is not |

Deadlock is not checked: a behaviour ends when its writes are used up
(`nextSeq > SeqMax`, `MaxWrites`) or, in `TableBuild`, when the file is finished.

### Fairness

`Spec` of `Lsm` assumes `WF_vars(Advance)`: a call that has begun takes its next
step. The code justifies it: the steps are straight-line code of one thread, without
locks or waits. Nothing is assumed of callers, failures, stops or restarts.
`CallsReturn` rests on it. `TableBuild` assumes `WF_vars(Next)` for its loops, for the
same reason, and `EveryBuildEnds` rests on that.

## 4. Proofs

TLAPS checks every proof, for every value of the constants that the assumptions
admit. The assumptions are those the modules state: bounds are naturals, intervals
and sizes positive, and model values distinct (`None` is no record, request or key),
the texts of documents and queries are sequences of terms, the estimate `compact` gives the writer is among
`Expected`, and each input of a merge is in file order.

| Theorem | States | Under |
|---|---|---|
| `TypeCorrect`, `TiersAlwaysServe`, `OutputAlwaysFresh` (`LsmProofs`) | `TypeOK`, `TiersServe`, `OutputIsFresh` of `Lsm` | nothing: any stops, failures, torn writes |
| `LogAlwaysDurable` (`LsmProofs`) | `LogIsDurable` | `CleanWrites` |
| `SeqAlwaysGrows` (`LsmRecencyProofs`) | `SeqStrictlyIncreasing` | `Recoverable` |
| `ReadPathsAgree`, `SnapshotsStable`, `StoreImplemented` (`LsmStoreProofs`) | `IterAllAgrees`, `SnapshotStable`, `ImplementsKVStore` | `Recoverable` |
| `LookupExact` (`SSTableProofs`) | `LookupIsExact` of the writer's specification | at most `SPARSE_INTERVAL` + 1 versions of a key |
| `ContractKept`, `BuildTypeCorrect`, `HeapAlwaysBuffered`, `OutputMerged`, `ReadsKept` (`TableBuildProofs`) | `WriterContract`, `BuildTypeOK`, `HeapIsBuffered`, `OutputIsMerge`, `MergeKeepsReads` | nothing |
| `BuiltLookupExact` (`TableBuildProofs`) | `LookupIsExact` of every file built | as `LookupExact` |
| `CompactedLookupExact` (`TableBuildProofs`) | the same of what `compact` writes | nothing |
| `EngineTypeCorrect`, `SameInBoth`, `StoreFollowed`, `AggregatesExact` (`EngineProofs`) | `TypeOK`, `SameDocuments`, `IndexesFollowStore`, `AggregatesMatch` of `Engine` | nothing: any errors, stops, wrong dimensions |
| `TextScoresExact` (`SearchProofs`) | `TextScoresFollowStore` | `IdfIsFine` |
| `SearchExact`, `QueriesAnswered` (`SearchProofs`) | `SearchIsTopK`, `QueryAnswers` | `NoNaN` |
| `BetterComesFirst` (`SearchProofs`) | `BetterInBothComesFirst` | `NoNaN`, `IdfIsFine`, `UnitIsFine` |

### The engine on disk

*Whatever fails.* The first three theorems of `LsmProofs` follow from `Invariance`, `Spec => []Inv`.
`TypeOK` is not inductive: the output of a compaction holds records only if its
inputs exist. So `Inv` adds that the tiers and the inputs of a running compaction are
existing files, newest first (`Serve`); that every id on disk has been allocated
(`IdsAllocated`), which makes the next output fresh; that an output being written has
the highest id and stays above what is left of the inputs (`OutputInvariant`); and
what each phase of a call relies on (`PhaseInvariant`). There is one lemma per action.

*The log.* `LogIsDurable` needs `CleanWrites`: `TornWrites` and `FlushAfterFailure` are
both `FALSE`. `lsm_torn_tail` and `lsm_leftover` are the counterexamples without the one
and the other (findings 3 and 4). Alone it is not inductive, for three reasons. Nothing
may be left behind the writer's position or be in the buffer when the log is truncated
(`NoLeftover`); what the memtable serves has to be in the log itself (`ServedInv`); and
a replay keeps one record of each version, so a seq must name one record among all that
the file and the buffer hold, and `next_seq` must be above them while the engine is open
(`LogInv`). That seqs can start again from 1 (finding 1) does not contradict it: that
happens when nothing is left in the log.

*Recency.* `Recoverable` is all four conditions of section 3: `CleanWrites`, no stop
inside a compaction or with an empty log beside sstables, no error inside a compaction.
Findings 1 to 5 are what happens without each of them; that the stops and errors it
leaves, in any number, are harmless is what is proved. The invariant, `RecencyInv`,
adds to the two above

* `AgeInv`: of two runs, the versions of a key in the newer are newer than those in
  the older, *or are among them*. Newer alone is not invariant: after a stop between
  the rename of an sstable and the truncation of the log, the replayed memtable holds
  what the newest sstable holds. `Shadows` is this relation, and the lemmas of
  `MVCCProofs` show that it is enough for `FirstHit` to be a read of the union of the
  runs, and for `Scan` and `Merge` to keep its answers;
* `LeftoverInv`: records that failed writes left in the buffer are newer than all that
  is served;
* `ReachInv`: a log that is not empty reaches as far as the sstables. This is why
  `next_seq`, recovered from the log alone, is right under `Recoverable`;
* `TiersComplete`: no sstable is left of a time before;
* `SeqInv`: a seq names one record wherever it is stored.

*Readers.* `Seen` is the set of records that a read answers from at each step of each
call, and, while the engine is closed, the one it will answer from. `GetReadsSeen` and
`RecoveredReadsSeen` tie `get` and the mapping of `KVStore` to it, and one lemma per
kind of step says what the step does to it: nothing (a flush moves records, a
compaction drops what is shadowed), one record more (`Apply`), or what a restart
decides of the writes in doubt (`CrashSeen`). With `SettledInv`, which says of every
record in the log that was not served that the outcome of its write is in doubt,
these give the refinement: initial states map to initial states, and every step to a
step of `KVStore` or a stutter.

### Files

`WriterInv` holds at every `add`: entries of the sparse index are positions of the
data, `SPARSE_INTERVAL` or more apart; no key misses a bit of the filter it was hashed
into, whatever size it has; a key has at most `MaxVersions` versions. Versions of a key
are contiguous, and two equal entries are at least `SPARSE_INTERVAL` apart: a version
before both would be number `SPARSE_INTERVAL` + 2. With fewer than that, going one block
back from any equal entry ends at or before the newest version (`BlockCovers`); with that
many it may not, as `sstable_many_versions` shows.

`BuildInv` relates the merge loop to `Merge`. What the heap has popped precedes
everything it has not (`PoppedInOrder`), which is why the first version of a key that
is popped wins, and `last_emitted` is the greatest key decided; the output so far is
the merge restricted to the decided keys (`OutputSoFar`). When the heap is empty every
key is decided, which is `OutputIsMerge`; `MergeKeepsReads` follows from it by
`MergeReadsAll`. The same invariant gives that each step is one the writer's contract
allows, so that what is proved of the writer holds of both callers.

### The two indexes

`IndexesFollowStore` speaks of an idle engine. `EngineInv` says for every step that a
document is held by both indexes as the store has it (`Holds`) unless it is `Unsettled`:
its last write failed, it is being written, or `open` has still to index it. Behind
`Holds` stand lemmas on what the operations do to an index. An index of vectors is
taken as the set of its pairs of id and row: `insert` replaces a pair, and the
swap-remove takes one out and permutes the rest (`InsertSets`, `RemoveLeaves`). Of the
postings, `DocumentRemoved` and `DocumentIndexed` say that what is there of any other
document stays and what is there of this one is its text. `TextCounts` (the total
is the sum of the lengths, and a document's postings are those of a text of its
length) is an invariant of its own and shows that `saturating_sub` never
saturates. It rests on a short theory of `Sum`, which the fold of the community modules
leaves open in order.

`TextScoresFollowStore` compares two sums. One goes over the posting lists of the
query's terms, takes the length of a list for the number of documents that have the
term, and may hold documents that were replaced; the other goes over the documents in
the store. When no write has failed the index `Reflects` those documents: a posting of
each document for each of its terms, lengths and total as in the store. One posting per
document makes the list of a term as long as there are documents that have it
(`ListLength`); a document's score is a sum over all terms found, of which those it
lacks add 0 (`SumOnSupport`). That a hit has a score above 0 is true of the code, where
the logarithm is positive, and in integers needs a table of weights that is fine enough:
`IdfIsFine`, which TLC evaluates on the table of the run (`IdfOfIsFine`).

### Vector search

`SearchIsTopK` needs `NoNaN`: with a NaN the order of the heap is none (finding 8). TLC
evaluates `NoNaN` on the documents of the run `engine` (`DocsAreNumbers`). That every row
is the vector of some document is an invariant of its own (`RowsInvariance`), and then
all that is left is about operators.

*Kernels.* `KernelIsSum`: after c chunks the accumulators together hold the sum of the
first c * `Lanes` terms (`AccumulatorsSum`), and the tail adds the rest, for any number of
lanes and any dimension.

*Heap.* `SiftUp` and `Pop` are taken as maps from the places of the new array to those
of the old one. The places a sift-up passes are a path from its start to the root
(`Path`), those of a pop a path along the greater children to the bottom (`WayDown`);
either map is one-to-one (`SourceOneToOne`, `BelowOneToOne`), so no entry is lost or
doubled. The order of the heap holds but for one place (`OrderedBut`) before the sift-up,
and everywhere after it (`SiftUpOrders`). Hence `PushKeeps` and `PopTakesRoot`.

*Scan and sort.* After m candidates the heap has min(m, k) of them, and none outside is
better than one inside (`HasBest`); an offer keeps that, since the root is the worst
entry (`RootIsLeast`). The sort puts each entry where the number of those before it says,
and no two in one place (`PlacesOneToOne`).

Recursive functions are unfolded to what their value is at each argument by a least
counterexample (`UpTo`), from the theorem that the order of the naturals is well
founded: the induction theorems of the library take an operator and are out of reach.

### Queries

An answer is made of a list of each index, a ranking of their fused scores and its first
k ids (`AnswersAre`); both the ranking and the text list are any order that sorting a
`HashMap` may leave. A ranking of n ids is a one-to-one map onto them (`RankingIs`), so
nothing is lost or doubled but by the two truncations. That those do no harm is
`QueriesAnswered`: the pool is at least k (`PoolCovers`), hence the vectors alone give
k ids or all there are. Which ids are live comes from `StoreFollowed`.

`BetterComesFirst` says of each list that where it has the worse document it has the
better one before it (`Ahead`): for the nearest rows, since none left out is nearer
(`NearerIsAhead`); for the text, since the worse one is no hit or has a lower score, that
of `ScoresFollowStore` (`BetterMatchIsAhead`). A list that has the better one ahead adds
more to it, or nothing to the other (`AheadGains`), so its sum is greater (`FusedAhead`),
the ranking has it first, and the prefix of k keeps that. The code divides 1 by the rank;
in integers, that a later rank adds less needs a fine unit: `UnitIsFine`, which TLC
evaluates for the run (`RanksDiffer`) and which some unit meets for any finite set of ids.

### Only model-checked

`CallsReturn` and `EveryBuildEnds`: liveness under fairness, and ENABLED, are out of the
prover's reach. Every other property of a passing run is a theorem.

## 5. Not modelled

* Loss of power. `Crash` stops the process: what reached the kernel stays, in order.
  The code fsyncs the log and each sstable but never the directory, so a rename or a
  truncation can be undone or reordered by a power loss. What survives is up to the
  file system, and the repository promises nothing about it.
* Errors of reads. In `open`, `get` and `iter_all` they change no state. In `compact`
  one kind does harm: `read_record` (`sstable.rs:384`) takes a failed read at the
  start of a record for the end of the file, so a merge can return `Ok` without the
  rest of an input that is then removed. The models read what was written. Files
  altered by anyone else are left out too.
* Sizes in bytes: `approx_bytes` counts records. The lengths in the formats (`u32`)
  are assumed to fit.
* Rounding, overflow and infinities of `f32`, and what `sort_by` does with a NaN;
  `k * 4` beyond the width of `usize`.
* `tokenize`; the byte formats of records, documents and footers.
* `main.rs` and the benchmark, which call the library in a fixed order.

## 6. Plan

In order:

1. *(done)* `MVCC`, `Wal`, `KVStore`, `Lsm` with failures, `SSTable`; `LsmProofs`.
2. *(done)* `VectorIndex`, `TextIndex`, and `Engine` over the promise of `KVStore`.
3. *(done)* `TableBuild`: the heap and iterators of `compact`, and `flush`, as steps
   that feed the writer of `SSTable`.
4. *(done)* `Fusion`, the two searches, and `query`.

Proofs:

1. *(done)* What lookups, scans and merges over runs in the order of their age return,
   for any runs (`MVCCProofs`).
2. *(done)* Under `Recoverable` the runs are in that order, seqs grow,
   both read paths agree, snapshots are stable, and `KVStore` is implemented
   (`LsmRecencyProofs`, `LsmStoreProofs`).
3. *(done)* `LookupIsExact` up to its sharp bound (`SSTableProofs`); the merge loop and
   the writer's contract (`TableBuildProofs`).
4. *(done)* The vector index stays aligned, and both indexes follow the store
   (`EngineProofs`); text scores are those of the documents stored (`SearchProofs`).
5. *(done)* A vector search returns the best rows: the kernels, the heap, the scan and
   the sort (`SearchProofs`).
6. *(done)* What queries return, from 5 and the text scores (`SearchProofs`).
