----------------------------------- MODULE Lsm -----------------------------------
(***************************************************************************)
(* LsmEngine: write-ahead log, memtable, tiers of sstables, compaction.    *)
(*                                                                         *)
(* The engine is single threaded (mutating methods take &mut self), so a   *)
(* behaviour is one call after another; a call is cut into the steps       *)
(* between which the process can stop or a system call can fail, and pc    *)
(* names the step that comes next.  A stop is a kill or a drop of the      *)
(* engine: what write(2) handed to the kernel stays, in the order written, *)
(* and the rest of the BufWriter is written in part, whole, or not at all. *)
(* Loss of power, which can also undo a rename or a truncation that was    *)
(* never fsynced, is not modelled.                                         *)
(***************************************************************************)
EXTENDS Wal, FiniteSets

CONSTANTS
    FlushThreshold,       \* flush_threshold_bytes, in records of equal size
    COMPACTION_TRIGGER,   \* tiers that start a compaction
    CrashPoints,          \* the steps before which the process may stop
    FailPoints,           \* the steps that may fail with an I/O error
    TornWrites,           \* whether one write can leave part of a record
    FlushAfterFailure,    \* whether flush() is called while a failed write is
                          \* still in the BufWriter
    MaxCrashes,           \* bound on the stops in a behaviour
    MaxFails              \* bound on the I/O errors in a behaviour

Steps == {"sync", "apply", "flush", "rename", "reset", "compact", "crename",
          "remove", "return"}

ASSUME LsmAssumption ==
    /\ FlushThreshold \in Nat \ {0}
    /\ COMPACTION_TRIGGER \in Nat \ {0}
    /\ TornWrites \in BOOLEAN
    /\ FlushAfterFailure \in BOOLEAN
    /\ None \notin Record \cup [key : Key, val : Value]
    /\ MaxCrashes \in Nat
    /\ MaxFails \in Nat

VARIABLES
    (* On disk *)
    wal,         \* wal.log up to the writer's position
    walStale,    \* wal.log past it: what a dropped writer wrote after a reset
    files,       \* the sstables L{id}.sst, as a function of id
    tmp,         \* the ids that have an L{id}.sst.tmp
    (* In memory *)
    walBuf,      \* what Wal's BufWriter holds
    walAppends,  \* whether it writes at the end of the file: Wal::open, not reset
    memtable,
    tiers,       \* ids of the sstables in use, newest first
    nextSeq,
    nextSstId,
    (* The running call *)
    pc,
    op,          \* the record it writes, or None
    inputs,      \* the sstables maybe_compact took out of tiers
    out,         \* the id of the sstable being written
    (* History *)
    horizon,     \* current_seq() at the last compaction
    doubt,       \* per key, what failed writes since its last write stored
    crashes,
    fails

disk == <<wal, walStale, files, tmp>>
memory == <<walBuf, walAppends, memtable, tiers, nextSeq, nextSstId>>
call == <<pc, op, inputs, out>>
bounds == <<crashes, fails>>
vars == <<disk, memory, call, horizon, doubt, bounds>>

NoDoubt == [k \in Key |-> {}]

TypeOK ==
    /\ wal \in Seq(Frame)
    /\ walStale \in Seq(Frame)
    /\ walBuf \in Seq(Record)
    /\ walAppends \in BOOLEAN
    /\ DOMAIN files \subseteq Nat
    /\ \A id \in DOMAIN files : files[id] \subseteq Record
    /\ tmp \subseteq Nat
    /\ memtable \subseteq Record
    /\ tiers \in Seq(Nat)
    /\ nextSeq \in 1 .. SeqMax + 1
    /\ nextSstId \in Nat \ {0}
    /\ pc \in Steps \cup {"idle", "closed"}
    /\ op \in Record \cup {None}
    /\ inputs \in Seq(Nat)
    /\ out \in Nat
    /\ horizon \in 0 .. SeqMax
    /\ doubt \in [Key -> SUBSET (Val \cup {None})]
    /\ crashes \in 0 .. MaxCrashes
    /\ fails \in 0 .. MaxFails

---------------------------------------------------------------------------
(* Reading *)

Contents(ids) == [i \in DOMAIN ids |-> files[ids[i]]]

\* The tiers a read has to answer from.  While a compaction runs the tiers are
\* in inputs, and then in its output, until they are put back.
LiveTiers ==
    CASE pc = "crename" -> inputs
      [] pc = "remove" -> <<out>>
      [] OTHER -> tiers

\* LsmEngine::get_at.
GetAt(k, asOf) == AsPut(FirstHit(<<memtable>> \o Contents(LiveTiers), k, asOf))

\* LsmEngine::iter_all: tiers first, memtable last.
IterAll == Scan(Append(Contents(LiveTiers), memtable))

\* What LsmEngine::open would serve from the directory as it is.
Recovered(k, asOf) ==
    LET log == Replayed(wal \o walStale)
        hits == {id \in DOMAIN files : Versions(files[id], k, asOf) # {}}
    IN  IF Versions(log, k, asOf) # {} THEN AsPut(ReadAt(log, k, asOf))
        ELSE IF hits = {} THEN None
        ELSE AsPut(ReadAt(files[CHOOSE i \in hits : \A j \in hits : j <= i], k, asOf))

View(k, asOf) == IF pc = "closed" THEN Recovered(k, asOf) ELSE GetAt(k, asOf)

---------------------------------------------------------------------------
(* Pieces of the steps *)

With(id, table) ==
    [i \in DOMAIN files \cup {id} |-> IF i = id THEN table ELSE files[i]]
Without(id) == [i \in DOMAIN files \ {id} |-> files[i]]

\* What one write(2) can leave of frames: all it was given or, when records
\* can be cut, a whole number of frames and the start of the next.
Cut(frames, n) ==
    {SubSeq(frames, 1, n)} \cup
    IF TornWrites /\ n < Len(frames) THEN {Append(SubSeq(frames, 1, n), Torn)} ELSE {}

\* What stale bytes become when a write goes over their start: records have any
\* length, so it may end with a stale frame or leave the rest of one.
Overwritten(stale) ==
    UNION {{SubSeq(stale, i, Len(stale)), <<Torn>> \o SubSeq(stale, i, Len(stale))} :
               i \in 2 .. Len(stale) + 1}

\* Frames go to the log at the writer's position, over stale bytes if any.
WriteLog(frames) ==
    /\ wal' = wal \o frames
    /\ walStale' \in
          IF frames = <<>> \/ walStale = <<>> THEN {walStale} ELSE Overwritten(walStale)

\* The call ends, at Return with Ok or at a failing step with Err.
EndCall ==
    /\ pc' = "idle"
    /\ op' = None
    /\ inputs' = <<>>
    /\ out' = 0

Fail(step) ==
    /\ step \in FailPoints
    /\ fails < MaxFails
    /\ fails' = fails + 1
    /\ EndCall
    /\ UNCHANGED crashes

Unsettled == [doubt EXCEPT ![op.key] = @ \cup {AsPut(op.val)}]

---------------------------------------------------------------------------
(* put and delete *)

\* alloc_seq and Wal::append.
Write(k, v) ==
    /\ pc = "idle"
    /\ nextSeq <= SeqMax
    /\ op' = [key |-> k, seq |-> nextSeq, val |-> v]
    /\ nextSeq' = nextSeq + 1
    /\ walBuf' = Append(walBuf, op')
    /\ pc' = "sync"
    /\ UNCHANGED <<disk, walAppends, memtable, tiers, nextSstId, inputs, out, horizon,
                   doubt, bounds>>

Put(k, v) == v \in Val /\ Write(k, v)
Remove(k) == Write(k, Delete)

\* Wal::sync.
WalSync ==
    /\ pc = "sync"
    /\ WriteLog(walBuf)
    /\ walBuf' = <<>>
    /\ pc' = "apply"
    /\ UNCHANGED <<files, tmp, walAppends, memtable, tiers, nextSeq, nextSstId, op,
                   inputs, out, horizon, doubt, bounds>>

\* write(2) fails: BufWriter keeps what was not written, except that a record
\* larger than its buffer, written in part, is gone.
WalWriteFail ==
    /\ pc = "sync"
    /\ Fail("write")
    /\ \E n \in 0 .. Len(walBuf) - 1 : \E frames \in Cut(walBuf, n) :
        /\ WriteLog(frames)
        /\ walBuf' = IF Len(frames) = n THEN SubSeq(walBuf, n + 1, Len(walBuf))
                     ELSE <<>>
        /\ Len(frames) > n => n = Len(walBuf) - 1
    /\ doubt' = Unsettled
    /\ UNCHANGED <<files, tmp, walAppends, memtable, tiers, nextSeq, nextSstId,
                   horizon>>

\* fdatasync fails: the record is in the file all the same.
WalSyncFail ==
    /\ pc = "sync"
    /\ Fail("sync")
    /\ WriteLog(walBuf)
    /\ walBuf' = <<>>
    /\ doubt' = Unsettled
    /\ UNCHANGED <<files, tmp, walAppends, memtable, tiers, nextSeq, nextSstId,
                   horizon>>

\* MemTable::put or delete, then the test of maybe_flush.
Apply ==
    /\ pc = "apply"
    /\ memtable' = Insert(memtable, op)
    /\ doubt' = [doubt EXCEPT ![op.key] = {}]
    /\ pc' = IF Cardinality(memtable') >= FlushThreshold THEN "flush" ELSE "return"
    /\ UNCHANGED <<disk, walBuf, walAppends, tiers, nextSeq, nextSstId, op, inputs,
                   out, horizon, bounds>>

Return ==
    /\ pc = "return"
    /\ EndCall
    /\ UNCHANGED <<disk, memory, horizon, doubt, bounds>>

---------------------------------------------------------------------------
(* flush *)

\* An explicit call; it does nothing when the memtable is empty.
Flush ==
    /\ pc = "idle"
    /\ memtable # {}
    /\ walBuf # <<>> => FlushAfterFailure
    /\ pc' = "flush"
    /\ UNCHANGED <<disk, memory, op, inputs, out, horizon, doubt, bounds>>

\* Mutant of FlushWrite: the log is truncated before the sstable is in place.
FlushWriteTruncatesLog ==
    /\ pc = "flush"
    /\ out' = nextSstId
    /\ nextSstId' = nextSstId + 1
    /\ tmp' = tmp \cup {out'}
    /\ wal' = <<>>
    /\ pc' = "rename"
    /\ UNCHANGED <<walStale, files, walBuf, walAppends, memtable, tiers, nextSeq, op,
                   inputs, horizon, doubt, bounds>>

\* Mutant of FlushWrite: next_sst_id is not advanced.
FlushWriteReusesId ==
    /\ pc = "flush"
    /\ out' = nextSstId
    /\ tmp' = tmp \cup {out'}
    /\ pc' = "rename"
    /\ UNCHANGED <<wal, walStale, files, walBuf, walAppends, memtable, tiers, nextSeq,
                   nextSstId, op, inputs, horizon, doubt, bounds>>

\* A new L{id}.sst.tmp, written and fsynced.
FlushWrite ==
    /\ pc = "flush"
    /\ out' = nextSstId
    /\ nextSstId' = nextSstId + 1
    /\ tmp' = tmp \cup {out'}
    /\ pc' = "rename"
    /\ UNCHANGED <<wal, walStale, files, walBuf, walAppends, memtable, tiers, nextSeq,
                   op, inputs, horizon, doubt, bounds>>

FlushWriteFail ==
    /\ pc = "flush"
    /\ Fail("flush")
    /\ nextSstId' = nextSstId + 1
    /\ tmp' \in {tmp, tmp \cup {nextSstId}}
    /\ UNCHANGED <<wal, walStale, files, walBuf, walAppends, memtable, tiers, nextSeq,
                   horizon, doubt>>

\* Mutant of FlushRename: the new sstable is pushed behind the older ones.
FlushRenameAtTheEnd ==
    /\ pc = "rename"
    /\ files' = With(out, memtable)
    /\ tmp' = tmp \ {out}
    /\ tiers' = Append(tiers, out)
    /\ memtable' = {}
    /\ pc' = "reset"
    /\ UNCHANGED <<wal, walStale, walBuf, walAppends, nextSeq, nextSstId, op, inputs,
                   out, horizon, doubt, bounds>>

\* The rename that makes the sstable part of the store, and its bookkeeping.
FlushRename ==
    /\ pc = "rename"
    /\ files' = With(out, memtable)
    /\ tmp' = tmp \ {out}
    /\ tiers' = <<out>> \o tiers
    /\ memtable' = {}
    /\ pc' = "reset"
    /\ UNCHANGED <<wal, walStale, walBuf, walAppends, nextSeq, nextSstId, op, inputs,
                   out, horizon, doubt, bounds>>

FlushRenameFail ==
    /\ pc = "rename"
    /\ Fail("rename")
    /\ UNCHANGED <<disk, memory, horizon, doubt>>

\* What the old writer can hold when it is dropped: its records, or, when the
\* start of the first went to the file that was truncated, the rest of them.
Held ==
    {walBuf} \cup
    IF TornWrites /\ walBuf # <<>> THEN {<<Torn>> \o Tail(walBuf)} ELSE {}

\* What it writes of that: Drop ignores an error.
Dropped == UNION {Cut(held, n) : held \in Held, n \in 0 .. Len(walBuf)}

\* Wal::reset truncates the log and opens it at offset 0.  The old writer is
\* dropped after that, so its records are in the new file: at the start, or past
\* a hole if it neither appends nor stood at offset 0.
WalReset ==
    /\ pc = "reset"
    /\ wal' = <<>>
    /\ \E frames \in Dropped :
          walStale' = IF walAppends \/ wal = <<>> \/ frames = <<>> THEN frames
                      ELSE <<Torn>> \o frames
    /\ walBuf' = <<>>
    /\ walAppends' = FALSE
    /\ pc' = IF Len(tiers) >= COMPACTION_TRIGGER THEN "compact" ELSE "return"
    /\ UNCHANGED <<files, tmp, memtable, tiers, nextSeq, nextSstId, op, inputs, out,
                   horizon, doubt, bounds>>

WalResetFail ==
    /\ pc = "reset"
    /\ Fail("reset")
    /\ UNCHANGED <<disk, memory, horizon, doubt>>

---------------------------------------------------------------------------
(* maybe_compact *)

\* Mutant of CompactMerge: the tiers are copied, not taken.
CompactMergeKeepsTiers ==
    /\ pc = "compact"
    /\ inputs' = tiers
    /\ out' = nextSstId
    /\ nextSstId' = nextSstId + 1
    /\ tmp' = tmp \cup {out'}
    /\ pc' = "crename"
    /\ UNCHANGED <<wal, walStale, files, walBuf, walAppends, memtable, tiers, nextSeq,
                   op, horizon, doubt, bounds>>

\* The tiers move into a local of the call, and their merge into an L{id}.sst.tmp.
CompactMerge ==
    /\ pc = "compact"
    /\ inputs' = tiers
    /\ tiers' = <<>>
    /\ out' = nextSstId
    /\ nextSstId' = nextSstId + 1
    /\ tmp' = tmp \cup {out'}
    /\ pc' = "crename"
    /\ UNCHANGED <<wal, walStale, files, walBuf, walAppends, memtable, nextSeq, op,
                   horizon, doubt, bounds>>

\* An error drops that local: the tiers stay empty.
CompactMergeFail ==
    /\ pc = "compact"
    /\ Fail("compact")
    /\ tiers' = <<>>
    /\ nextSstId' = nextSstId + 1
    /\ tmp' \in {tmp, tmp \cup {nextSstId}}
    /\ UNCHANGED <<wal, walStale, files, walBuf, walAppends, memtable, nextSeq,
                   horizon, doubt>>

CompactRename ==
    /\ pc = "crename"
    /\ files' = With(out, Merge(Contents(inputs), TRUE))
    /\ tmp' = tmp \ {out}
    /\ horizon' = nextSeq - 1
    /\ pc' = "remove"
    /\ UNCHANGED <<wal, walStale, memory, op, inputs, out, doubt, bounds>>

CompactRenameFail ==
    /\ pc = "crename"
    /\ Fail("crename")
    /\ UNCHANGED <<disk, memory, horizon, doubt>>

\* Mutant of CompactRemove: the loop does not advance.
CompactRemoveStuck ==
    /\ pc = "remove"
    /\ inputs # <<>>
    /\ files' = Without(Head(inputs))
    /\ UNCHANGED <<wal, walStale, tmp, memory, inputs, pc, op, out, horizon, doubt,
                   bounds>>

\* The inputs are removed in the order of the tiers, the newest first.
CompactRemove ==
    /\ pc = "remove"
    /\ inputs # <<>>
    /\ files' = Without(Head(inputs))
    /\ inputs' = Tail(inputs)
    /\ UNCHANGED <<wal, walStale, tmp, memory, pc, op, out, horizon, doubt, bounds>>

\* A file that cannot be removed is passed over.
CompactRemoveFail ==
    /\ pc = "remove"
    /\ inputs # <<>>
    /\ "remove" \in FailPoints
    /\ fails < MaxFails
    /\ fails' = fails + 1
    /\ inputs' = Tail(inputs)
    /\ UNCHANGED <<disk, memory, pc, op, out, horizon, doubt, crashes>>

CompactDone ==
    /\ pc = "remove"
    /\ inputs = <<>>
    /\ tiers' = Append(tiers, out)
    /\ pc' = "return"
    /\ UNCHANGED <<disk, walBuf, walAppends, memtable, nextSeq, nextSstId, op, inputs,
                   out, horizon, doubt, bounds>>

---------------------------------------------------------------------------
(* Stop and restart *)

\* Kill, or drop of the engine.  The point "clean" is a stop that leaves a log
\* with nothing to replay beside sstables.
Crash ==
    /\ pc # "closed"
    /\ pc \in CrashPoints
    /\ crashes < MaxCrashes
    /\ crashes' = crashes + 1
    /\ \E n \in 0 .. Len(walBuf) : \E frames \in Cut(walBuf, n) : WriteLog(frames)
    /\ files # <<>> /\ Replayed(wal' \o walStale') = {} => "clean" \in CrashPoints
    /\ walBuf' = <<>>
    /\ walAppends' = TRUE
    /\ memtable' = {}
    /\ tiers' = <<>>
    /\ nextSeq' = 1
    /\ nextSstId' = 1
    /\ pc' = "closed"
    /\ op' = None
    /\ inputs' = <<>>
    /\ out' = 0
    /\ doubt' = NoDoubt
    /\ UNCHANGED <<files, tmp, horizon, fails>>

\* LsmEngine::open: replay the log, append to it from now on, sweep the .tmp
\* files, and take every sstable found, the highest id first.
Open ==
    /\ pc = "closed"
    /\ wal' = wal \o walStale
    /\ walStale' = <<>>
    /\ walAppends' = TRUE
    /\ memtable' = Replayed(wal')
    /\ nextSeq' = MaxSeq(memtable') + 1
    /\ tmp' = {}
    /\ \E ids \in [1 .. Cardinality(DOMAIN files) -> DOMAIN files] :
        /\ \A i, j \in DOMAIN ids : i < j => ids[i] > ids[j]
        /\ tiers' = ids
    /\ \E m \in DOMAIN files \cup {0} :
        /\ \A id \in DOMAIN files : id <= m
        /\ nextSstId' = m + 1
    /\ pc' = "idle"
    /\ UNCHANGED <<files, walBuf, op, inputs, out, horizon, doubt, bounds>>

---------------------------------------------------------------------------
(* Specification *)

\* An empty directory.
Init ==
    /\ wal = <<>>
    /\ walStale = <<>>
    /\ files = <<>>
    /\ tmp = {}
    /\ walBuf = <<>>
    /\ walAppends = TRUE
    /\ memtable = {}
    /\ tiers = <<>>
    /\ nextSeq = 1
    /\ nextSstId = 1
    /\ pc = "closed"
    /\ op = None
    /\ inputs = <<>>
    /\ out = 0
    /\ horizon = 0
    /\ doubt = NoDoubt
    /\ crashes = 0
    /\ fails = 0

\* The steps of a running call.
Advance ==
    \/ WalSync \/ Apply \/ Return
    \/ FlushWrite \/ FlushRename \/ WalReset
    \/ CompactMerge \/ CompactRename \/ CompactRemove \/ CompactDone

Failure ==
    \/ WalWriteFail \/ WalSyncFail
    \/ FlushWriteFail \/ FlushRenameFail \/ WalResetFail
    \/ CompactMergeFail \/ CompactRenameFail \/ CompactRemoveFail

Next ==
    \/ \E k \in Key : (\E v \in Val : Put(k, v)) \/ Remove(k)
    \/ Flush
    \/ Advance
    \/ Failure
    \/ Crash
    \/ Open

\* A running call is not abandoned by its thread.
Fairness == WF_vars(Advance)

Spec == Init /\ [][Next]_vars /\ Fairness

---------------------------------------------------------------------------
(* Properties *)

\* The engine as a KVStore: the map holds what get returns, or what it would
\* return after a restart while the engine is closed.
Store == INSTANCE KVStore WITH
    store <- [k \in Key |-> View(k, SeqMax)],
    req <- IF op = None THEN None ELSE [key |-> op.key, val |-> op.val],
    done <- op # None /\ pc \notin {"sync", "apply"}

\* Through flushes, compactions, I/O errors and restarts, a write that returned
\* Ok stays what get returns until a later write of its key, and one that failed
\* or was cut off becomes visible at a restart or never (lsm.rs: put, delete,
\* get, flush, maybe_compact, open).
ImplementsKVStore == Store!Spec

\* get and iter_all answer from different code, runs in order against greatest
\* seq, and agree on every key whenever a caller can ask (lsm.rs: get_at,
\* iter_all; Engine::open rebuilds its indexes from the second).
IterAllAgrees ==
    pc = "idle" => \A k \in Key : IterAll[k] = GetAt(k, SeqMax)

\* The newest seq a reader can hold: the write in progress is not out yet.
CurrentSnapshot == IF op = None THEN nextSeq - 1 ELSE op.seq - 1

\* A read pinned at a seq the caller has seen, no older than the last
\* compaction, returns the same at every later moment, a restart included when
\* no write has failed, which could surface in it (lib.rs: "reads pin a seq to
\* get snapshot isolation"; compaction discards what only older snapshots see).
SnapshotStable ==
    [][\A k \in Key, s \in SeqNum :
          /\ pc # "closed"
          /\ horizon' <= s /\ s <= CurrentSnapshot
          /\ pc' = "closed" => fails = 0
          => View(k, s)' = View(k, s)]_vars

\* The next write gets a seq above every seq the store holds (lib.rs: "every
\* mutation to the LSM gets a strictly increasing seq").
SeqStrictlyIncreasing ==
    pc # "closed" =>
        \A r \in memtable \cup UNION {files[id] : id \in DOMAIN files} : r.seq < nextSeq

\* What the memtable serves, a restart would replay (lib.rs: "crash-durable
\* append log").
LogIsDurable == memtable \subseteq Replayed(wal \o walStale)

\* No step brings a deleted or absent key back to life, except the write of
\* that key in progress or one that failed since (lib.rs: a tombstone must
\* survive until every older version is compacted away).
NoResurrection ==
    [][\A k \in Key :
          View(k, SeqMax) = None /\ View(k, SeqMax)' # None =>
              (pc \in {"sync", "apply"} /\ op.key = k) \/ doubt[k] # {}]_vars

\* A compaction that cannot rename its output changes nothing a reader sees
\* (compaction.rs: "harmless; no inputs have been touched").
FailedCompactionIsHarmless ==
    [][pc = "crename" /\ pc' = "idle" =>
          \A k \in Key : View(k, SeqMax)' = View(k, SeqMax)]_vars

NewestFirst(ids) == \A i, j \in DOMAIN ids : i < j => ids[i] > ids[j]

\* Every tier a read will open is a file that exists, and the tiers are in the
\* order of their age, so that the first hit is the newest (lsm.rs: tiers;
\* compaction.rs: lookup_in_tiers).
TiersServe ==
    /\ \A i \in DOMAIN LiveTiers : LiveTiers[i] \in DOMAIN files
    /\ NewestFirst(LiveTiers)

\* A rename never lands on an sstable that exists, and a new sstable has the
\* highest id, the one a restart will put first (lsm.rs: next_sst_id).
OutputIsFresh ==
    pc \in {"rename", "crename"} => \A id \in DOMAIN files : id < out

\* A call comes back, with an answer or an error, unless the process stops in
\* it: none of its loops over tiers and inputs runs for ever (lsm.rs: put,
\* delete, flush, maybe_compact).
CallsReturn == pc \notin {"idle", "closed"} ~> pc \in {"idle", "closed"}
==================================================================================
