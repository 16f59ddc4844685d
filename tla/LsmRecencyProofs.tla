---------------------------- MODULE LsmRecencyProofs ----------------------------
(***************************************************************************)
(* Under the conditions of Recoverable, the log, the memtable and the      *)
(* sstables are layered by the age of their records, in the running engine *)
(* and across restarts.  That a seq is never used twice follows here; what *)
(* readers see follows in LsmStoreProofs.                                  *)
(***************************************************************************)
EXTENDS LsmProofs

\* The stops and errors the engine recovers from: not inside a compaction, not
\* with a log that has nothing to replay beside sstables, and with the writes of
\* CleanWrites.
Recoverable ==
    /\ CleanWrites
    /\ CrashPoints \cap {"clean", "compact", "crename", "remove"} = {}
    /\ FailPoints \cap {"compact", "crename", "remove"} = {}

---------------------------------------------------------------------------
(* The inductive invariant *)

InSstables == UNION {files[id] : id \in DOMAIN files}
Stored == memtable \cup InSstables
Written == Frames(wal)
Known == Logged \cup Stored

Compacting == {"compact", "crename", "remove"}

\* The sstables in use are all there are: none is left of another time.
TiersComplete ==
    /\ pc \notin {"closed", "crename", "remove"} =>
          \A id \in DOMAIN files : \E i \in DOMAIN tiers : tiers[i] = id
    /\ pc = "crename" => \A id \in DOMAIN files : \E i \in DOMAIN inputs : inputs[i] = id
    /\ pc = "remove" =>
          \A id \in DOMAIN files : id = out \/ \E i \in DOMAIN inputs : inputs[i] = id

\* A seq names one record wherever it is, and the next write gets a new one.
SeqInv ==
    /\ \A r, x \in Known : r.seq = x.seq => r = x
    /\ pc # "closed" => \A r \in Stored : r.seq < nextSeq
    /\ pc \in {"sync", "apply"} =>
          op.seq = nextSeq - 1 /\ \A r \in Stored : r.seq < op.seq

\* Newer runs hold newer versions, or the same ones: sstables by their ids, the
\* memtable, and what a restart would make the memtable.
AgeInv ==
    /\ \A i, j \in DOMAIN files : j < i => Shadows(files[i], files[j])
    /\ pc # "closed" => \A id \in DOMAIN files : Shadows(memtable, files[id])
    /\ \A id \in DOMAIN files : Shadows(Written, files[id])

\* What failed writes left in the buffer is newer than all that is served.
LeftoverInv ==
    pc # "closed" => \A r \in Frames(walBuf), x \in Stored : x.seq < r.seq

\* A log that is not empty reaches as far as the sstables, so that a restart
\* takes up the seqs where they ended; and compaction runs when what the log
\* holds is newer than what it merges.
ReachInv ==
    /\ pc = "closed" \/ Written # {} =>
          \A x \in InSstables : \E r \in Written : x.seq <= r.seq
    /\ pc \in Compacting =>
          /\ memtable = {}
          /\ \A r \in Logged, x \in InSstables : x.seq < r.seq

OrderInv == SeqInv /\ AgeInv /\ LeftoverInv /\ ReachInv

RecencyInv == DurabilityInv /\ TiersComplete /\ OrderInv

USE DEF disk, memory, bounds

---------------------------------------------------------------------------
(* Facts used throughout *)

\* All of it is records.
LEMMA KnownRecords ==
    ASSUME DurabilityInv
    PROVE  /\ Known \subseteq Record
           /\ \A r \in Known : r.seq \in Int
           /\ nextSeq \in Int
<1>1. InSstables \subseteq Record /\ memtable \subseteq Record
    BY DEF DurabilityInv, Inv, TypeOK, InSstables
<1>2. Known \subseteq Record
    BY <1>1 DEF Known, Stored, DurabilityInv, LogInv
<1> QED BY <1>2 DEF Record, SeqNum, DurabilityInv, Inv, TypeOK

\* The parts of Known.
LEMMA KnownParts ==
    /\ memtable \subseteq Stored /\ InSstables \subseteq Stored /\ Stored \subseteq Known
    /\ Frames(wal) = Written
    /\ Written \subseteq Logged /\ Frames(walBuf) \subseteq Logged /\ Logged \subseteq Known
    /\ \A id \in DOMAIN files : files[id] \subseteq InSstables
BY DEF Stored, Known, Written, Logged, InSstables

\* What a write to the log does to it, whole or in part.
LogGrows(frames) ==
    /\ frames \subseteq Frames(walBuf)
    /\ Frames(wal') = Frames(wal) \cup frames
    /\ Frames(walBuf') \subseteq Frames(walBuf)

\* A step that gives frames to the log.
LEMMA WritesFrames ==
    ASSUME DurabilityInv, NEW frames \in Seq(Frame), WriteLog(frames),
           Frames(frames) \subseteq Frames(walBuf), Frames(walBuf') \subseteq Frames(walBuf)
    PROVE  LogGrows(Frames(frames))
<1>1. Frames(wal') = Frames(wal) \cup Frames(frames)
    BY LogType, WriteLogFrames
<1> QED BY <1>1 DEF LogGrows

\* The whole buffer, or a part of it, and the rest stays, or is lost.
LEMMA LogSteps ==
    ASSUME ~TornWrites, DurabilityInv, WalSync \/ WalWriteFail \/ WalSyncFail \/ Crash
    PROVE  \E frames : LogGrows(frames)
<1>0. Frames(<<>>) = {}
    BY DEF Frames
<1>1. CASE WalSync \/ WalSyncFail
    <2>1. WriteLog(walBuf) /\ walBuf' = <<>>
        BY <1>1 DEF WalSync, WalSyncFail
    <2> QED BY <1>0, <2>1, LogType, WritesFrames
<1>2. CASE WalWriteFail
    <2>1. PICK n \in 0 .. Len(walBuf) - 1 : \E frames \in Cut(walBuf, n) :
            /\ WriteLog(frames)
            /\ walBuf' = IF Len(frames) = n THEN SubSeq(walBuf, n + 1, Len(walBuf)) ELSE <<>>
        BY <1>2 DEF WalWriteFail
    <2>2. PICK frames \in Cut(walBuf, n) :
            /\ WriteLog(frames)
            /\ walBuf' = IF Len(frames) = n THEN SubSeq(walBuf, n + 1, Len(walBuf)) ELSE <<>>
        BY <2>1
    <2>3. /\ n \in 0 .. Len(walBuf)
          /\ n + 1 \in 1 .. Len(walBuf) + 1
          /\ Len(walBuf) \in (n + 1) - 1 .. Len(walBuf)
        BY LogType, LenProperties
    <2>4. frames \in Seq(Frame) /\ Frames(frames) \subseteq Frames(walBuf)
        BY <2>2, <2>3, LogType, CutIsPrefix
    <2>5. Frames(walBuf') \subseteq Frames(walBuf)
        BY <1>0, <2>2, <2>3, LogType, FramesOfSubSeq
    <2> QED BY <2>2, <2>4, <2>5, WritesFrames
<1>3. CASE Crash
    <2>1. PICK n \in 0 .. Len(walBuf) : \E frames \in Cut(walBuf, n) : WriteLog(frames)
        BY <1>3 DEF Crash
    <2>2. PICK frames \in Cut(walBuf, n) : WriteLog(frames)
        BY <2>1
    <2>3. frames \in Seq(Frame) /\ Frames(frames) \subseteq Frames(walBuf)
        BY <2>2, LogType, CutIsPrefix
    <2>4. walBuf' = <<>>
        BY <1>3 DEF Crash
    <2> QED BY <1>0, <2>2, <2>3, <2>4, WritesFrames
<1> QED BY <1>1, <1>2, <1>3

---------------------------------------------------------------------------
(* Every step preserves the order *)

\* Steps that move no record.
LEMMA QuietOrder ==
    ASSUME OrderInv,
           UNCHANGED <<wal, walBuf, files, memtable, nextSeq>>,
           pc # "closed", pc' \notin {"closed", "sync", "apply"},
           pc' \in Compacting => pc \in Compacting
    PROVE  OrderInv'
<1>1. UNCHANGED <<Written, Logged, InSstables, Stored, Known>>
    BY DEF Written, Logged, InSstables, Stored, Known
<1>2. SeqInv' /\ LeftoverInv' /\ ReachInv'
    BY <1>1 DEF OrderInv, SeqInv, LeftoverInv, ReachInv
<1>3. AgeInv'
    BY <1>1 DEF OrderInv, AgeInv
<1> QED BY <1>2, <1>3 DEF OrderInv

\* Steps that write to the log, and leave what is served alone or, at a stop,
\* forget the memtable.
LEMMA LogStepOrder ==
    ASSUME DurabilityInv, OrderInv, NEW frames, LogGrows(frames),
           files' = files, pc # "closed",
           \/ UNCHANGED <<memtable, nextSeq>> /\ pc' \notin Compacting \cup {"closed", "sync"}
           \/ memtable' = {} /\ pc' = "closed",
           pc' = "apply" => pc = "sync" /\ op' = op /\ walBuf' = <<>>,
           pc' = "closed" => DOMAIN files = {} \/ Written' # {}
    PROVE  OrderInv'
<1>1. /\ Written' \subseteq Written \cup frames
      /\ Logged' \subseteq Logged
      /\ InSstables' = InSstables
      /\ Stored' \subseteq Stored
      /\ Known' \subseteq Known
    BY DEF LogGrows, Written, Logged, InSstables, Stored, Known
<1>2. SeqInv'
    BY <1>1 DEF OrderInv, SeqInv, Compacting
<1>3. LeftoverInv'
    BY <1>1 DEF OrderInv, LeftoverInv, LogGrows
<1>4. \A r \in frames, x \in Stored : x.seq < r.seq
    BY DEF OrderInv, LeftoverInv, LogGrows
<1>5. ASSUME NEW id \in DOMAIN files' PROVE Shadows(Written', files'[id])
    <2> SUFFICES ASSUME NEW r \in Written', NEW x \in files[id],
                        r.key = x.key, r.seq <= x.seq
                 PROVE  x \in Written'
        BY DEF Shadows
    <2>1. x \in Stored /\ id \in DOMAIN files
        BY KnownParts
    <2>2. r \notin frames
        <3>1. x.seq \in Int
            BY <2>1, KnownRecords, KnownParts
        <3>2. frames \subseteq Known
            BY KnownParts DEF LogGrows
        <3> QED BY <1>4, <2>1, <3>1, <3>2, KnownRecords
    <2>3. x \in Written
        BY <1>1, <2>1, <2>2 DEF OrderInv, AgeInv, Shadows
    <2> QED BY <2>3 DEF LogGrows, Written
<1>6. AgeInv'
    BY <1>5 DEF OrderInv, AgeInv
<1>7. ReachInv'
    <2>1. pc' \notin Compacting
        BY DEF Compacting
    <2>2. ASSUME Written' # {}, NEW x \in InSstables PROVE \E r \in Written' : x.seq <= r.seq
        <3>1. CASE frames # {}
            <4>1. PICK r \in frames : TRUE
                BY <3>1
            <4>2. r \in Written' /\ x \in Stored
                BY KnownParts DEF LogGrows, Written
            <4>3. r.seq \in Int /\ x.seq \in Int
                BY <4>2, KnownRecords, KnownParts DEF LogGrows
            <4> QED BY <1>4, <4>2, <4>3
        <3>2. CASE frames = {}
            <4>1. Written' = Written
                BY <3>2 DEF LogGrows, Written
            <4> QED BY <2>2, <4>1 DEF OrderInv, ReachInv
        <3> QED BY <3>1, <3>2
    <2>3. DOMAIN files = {} => InSstables = {}
        BY DEF InSstables
    <2> QED BY <1>1, <2>1, <2>2, <2>3 DEF ReachInv
<1> QED BY <1>2, <1>3, <1>6, <1>7 DEF OrderInv

\* A write begins: its record is newer than everything.
LEMMA WriteOrder ==
    ASSUME DurabilityInv, OrderInv, NEW k, NEW v, Write(k, v)
    PROVE  OrderInv'
<1>1. /\ UNCHANGED <<wal, files, memtable>>
      /\ walBuf' = Append(walBuf, op')
      /\ op'.seq = nextSeq /\ nextSeq' = nextSeq + 1
      /\ pc = "idle" /\ pc' = "sync"
    BY DEF Write
<1>2. Frames(walBuf') \subseteq Frames(walBuf) \cup {op'}
    <2>1. walBuf \in Seq(Record)
        BY LogType
    <2>2. \A i \in DOMAIN Append(walBuf, op') :
             Append(walBuf, op')[i] \in {op'} \cup {walBuf[j] : j \in DOMAIN walBuf}
        BY <2>1
    <2> QED BY <1>1, <2>2 DEF Frames
<1>3. /\ UNCHANGED <<Written, InSstables, Stored>>
      /\ Known' \subseteq Known \cup {op'}
    BY <1>1, <1>2 DEF Written, InSstables, Stored, Known, Logged
<1>4. \A r \in Known : r.seq < nextSeq /\ r.seq \in Int
    BY <1>1, KnownRecords DEF Known, OrderInv, SeqInv, DurabilityInv, LogInv
<1>5. nextSeq \in Int
    BY KnownRecords
<1>6. SeqInv'
    <2>1. \A r, x \in Known' : r.seq = x.seq => r = x
        BY <1>1, <1>3, <1>4, <1>5 DEF OrderInv, SeqInv
    <2>2. \A r \in Stored : r.seq < nextSeq /\ r.seq \in Int
        BY <1>4, KnownParts
    <2> QED BY <1>1, <1>3, <1>5, <2>1, <2>2 DEF SeqInv
<1>7. AgeInv'
    BY <1>1, <1>3 DEF OrderInv, AgeInv
<1>8. LeftoverInv'
    <2>1. \A x \in Stored : x.seq < op'.seq
        BY <1>1, <1>4, KnownParts
    <2> QED BY <1>1, <1>2, <1>3, <2>1 DEF OrderInv, LeftoverInv
<1>9. ReachInv'
    BY <1>1, <1>3 DEF OrderInv, ReachInv, Compacting
<1> QED BY <1>6, <1>7, <1>8, <1>9 DEF OrderInv

\* The record enters the memtable, above everything that is served.
LEMMA ApplyOrder ==
    ASSUME DurabilityInv, OrderInv, Apply
    PROVE  OrderInv'
<1>1. /\ UNCHANGED <<wal, walBuf, files, nextSeq, op>>
      /\ memtable' \subseteq memtable \cup {op}
      /\ pc = "apply" /\ pc' \in {"flush", "return"}
      /\ walBuf = <<>>
      /\ op \in Frames(wal)
      /\ op.seq = nextSeq - 1
      /\ \A r \in Stored : r.seq < op.seq
    BY DEF Apply, Insert, OrderInv, SeqInv, DurabilityInv, ServedInv, NoLeftover
<1>2. op \in memtable' /\ memtable \subseteq memtable'
    <2>1. \A x \in memtable : ~ SameVersion(x, op)
        <3>1. \A x \in memtable : x.seq \in Int /\ x.seq < op.seq
            BY <1>1, KnownRecords, KnownParts
        <3> QED BY <1>1, <3>1, KnownRecords DEF SameVersion
    <2> QED BY <2>1 DEF Apply, Insert
<1>3. op \in Known /\ op.seq \in Int /\ nextSeq \in Int
    BY <1>1, KnownRecords, KnownParts
<1>4. /\ UNCHANGED <<Written, Logged, InSstables>>
      /\ Stored' = Stored \cup {op}
      /\ Known' = Known
    BY <1>1, <1>2, <1>3, KnownParts DEF Written, Logged, InSstables, Stored, Known
<1>5. SeqInv'
    <2>1. \A r \in Stored' : r.seq < nextSeq
        BY <1>1, <1>3, <1>4 DEF OrderInv, SeqInv
    <2> QED BY <1>1, <1>4, <2>1 DEF OrderInv, SeqInv
<1>6. AgeInv'
    <2>1. ASSUME NEW id \in DOMAIN files PROVE Shadows(memtable', files[id])
        <3> SUFFICES ASSUME NEW r \in memtable', NEW x \in files[id],
                            r.key = x.key, r.seq <= x.seq
                     PROVE  x \in memtable'
            BY DEF Shadows
        <3>1. x \in Stored /\ x.seq \in Int /\ x.seq < op.seq
            BY <1>1, KnownParts, KnownRecords
        <3>2. r \in memtable
            BY <1>1, <1>3, <3>1
        <3> QED BY <1>1, <1>2, <3>2 DEF OrderInv, AgeInv, Shadows
    <2> QED BY <1>1, <1>4, <2>1 DEF OrderInv, AgeInv
<1>7. LeftoverInv'
    <2>1. Frames(walBuf) = {}
        BY <1>1 DEF Frames
    <2> QED BY <1>1, <1>4, <2>1 DEF OrderInv, LeftoverInv
<1>8. ReachInv'
    BY <1>1, <1>4 DEF OrderInv, ReachInv, Compacting
<1> QED BY <1>5, <1>6, <1>7, <1>8 DEF OrderInv

\* The memtable becomes the sstable above the others.
LEMMA FlushRenameOrder ==
    ASSUME DurabilityInv, OrderInv, FlushRename
    PROVE  OrderInv'
<1>1. /\ UNCHANGED <<wal, walBuf, nextSeq, op, out>>
      /\ files' = With(out, memtable) /\ memtable' = {}
      /\ pc = "rename" /\ pc' = "reset"
      /\ memtable \subseteq Frames(wal)
      /\ \A id \in DOMAIN files : id < out
    BY DEF FlushRename, DurabilityInv, ServedInv, Inv, OutputInvariant
<1>2. /\ DOMAIN files' = DOMAIN files \cup {out}
      /\ files'[out] = memtable
      /\ \A id \in DOMAIN files : files'[id] = files[id] /\ id # out
    <2>1. out \in Int /\ \A id \in DOMAIN files : id # out
        BY <1>1 DEF DurabilityInv, Inv, TypeOK
    <2> QED BY <1>1, <2>1 DEF With
<1>3. /\ InSstables' = Stored
      /\ Stored' = Stored
      /\ Written' = Written /\ Logged' = Logged
      /\ Known' = Known
    BY <1>1, <1>2 DEF InSstables, Stored, Written, Logged, Known
<1>4. SeqInv'
    BY <1>1, <1>3 DEF OrderInv, SeqInv
<1>5. AgeInv'
    <2>1. ASSUME NEW i \in DOMAIN files', NEW j \in DOMAIN files', j < i
          PROVE  Shadows(files'[i], files'[j])
        <3>1. out \in Int /\ DOMAIN files \subseteq Int
            BY DEF DurabilityInv, Inv, TypeOK
        <3>2. j \in DOMAIN files
            BY <1>1, <1>2, <2>1, <3>1
        <3>3. CASE i = out
            BY <1>1, <1>2, <3>2, <3>3 DEF OrderInv, AgeInv
        <3>4. CASE i \in DOMAIN files
            BY <1>2, <2>1, <3>2, <3>4 DEF OrderInv, AgeInv
        <3> QED BY <1>2, <3>3, <3>4
    <2>2. ASSUME NEW id \in DOMAIN files' PROVE Shadows(Written', files'[id])
        <3>1. CASE id = out
            BY <1>1, <1>2, <1>3, <3>1, KnownParts DEF Shadows
        <3>2. CASE id \in DOMAIN files
            BY <1>2, <1>3, <3>2 DEF OrderInv, AgeInv
        <3> QED BY <1>2, <3>1, <3>2
    <2>3. \A id \in DOMAIN files' : Shadows(memtable', files'[id])
        BY <1>1 DEF Shadows
    <2> QED BY <2>1, <2>2, <2>3 DEF AgeInv
<1>6. LeftoverInv'
    BY <1>1, <1>3 DEF OrderInv, LeftoverInv
<1>7. ReachInv'
    <2>1. ASSUME Written # {}, NEW x \in Stored PROVE \E r \in Written : x.seq <= r.seq
        <3>1. CASE x \in memtable
            <4>1. x \in Written /\ x.seq \in Int
                BY <1>1, <3>1, KnownParts, KnownRecords
            <4> QED BY <4>1
        <3>2. CASE x \in InSstables
            BY <2>1, <3>2 DEF OrderInv, ReachInv
        <3> QED BY <3>1, <3>2 DEF Stored
    <2> QED BY <1>1, <1>3, <2>1 DEF ReachInv, Compacting
<1> QED BY <1>4, <1>5, <1>6, <1>7 DEF OrderInv

\* The log is truncated: what it held is in the sstables.
LEMMA WalResetOrder ==
    ASSUME DurabilityInv, OrderInv, WalReset
    PROVE  OrderInv'
<1>1. /\ wal' = <<>> /\ walBuf' = <<>>
      /\ UNCHANGED <<files, memtable, nextSeq, op>>
      /\ memtable = {}
      /\ pc = "reset" /\ pc' \in {"compact", "return"}
    BY DEF DurabilityInv, ServedInv, WalReset
<1>2. Frames(<<>>) = {}
    BY DEF Frames
<1>3. /\ Written' = {} /\ Logged' = {} /\ Frames(walBuf') = {}
      /\ InSstables' = InSstables /\ Stored' = Stored
      /\ Known' \subseteq Known
    BY <1>1, <1>2 DEF Written, Logged, InSstables, Stored, Known
<1>4. SeqInv'
    BY <1>1, <1>3 DEF OrderInv, SeqInv
<1>5. AgeInv'
    BY <1>1, <1>3 DEF OrderInv, AgeInv, Shadows
<1>6. LeftoverInv'
    BY <1>3 DEF LeftoverInv
<1>7. ReachInv'
    BY <1>1, <1>3 DEF ReachInv
<1> QED BY <1>4, <1>5, <1>6, <1>7 DEF OrderInv

\* The sstables of a list that names them all.
LEMMA ContentsOfAll ==
    ASSUME NEW ids, Serve(ids), \A id \in DOMAIN files : \E i \in DOMAIN ids : ids[i] = id
    PROVE  All(Contents(ids)) = InSstables
<1>1. DOMAIN Contents(ids) = DOMAIN ids /\ \A i \in DOMAIN ids : Contents(ids)[i] = files[ids[i]]
    BY DEF Contents
<1>2. \A id \in DOMAIN files : \E i \in DOMAIN ids : Contents(ids)[i] = files[id]
    BY <1>1
<1>3. \A i \in DOMAIN ids : ids[i] \in DOMAIN files
    BY DEF Serve
<1> QED BY <1>1, <1>2, <1>3 DEF All, InSstables

\* What a compaction merges, and that its output is the newest of each key.
LEMMA InputsAreAll ==
    ASSUME DurabilityInv, TiersComplete, SeqInv, pc = "crename"
    PROVE  /\ DOMAIN Contents(inputs) \subseteq Nat
           /\ All(Contents(inputs)) = InSstables
           /\ InSstables \subseteq Record
           /\ OnePerVersion(InSstables)
           /\ \A r \in Merge(Contents(inputs), TRUE) :
                 r \in InSstables /\ \A x \in InSstables : x.key = r.key => x.seq <= r.seq
<1>1. All(Contents(inputs)) = InSstables
    BY ContentsOfAll DEF TiersComplete, DurabilityInv, Inv
<1>2. DOMAIN Contents(inputs) \subseteq Nat
    <2>1. inputs \in Seq(Nat)
        BY DEF DurabilityInv, Inv, TypeOK
    <2> QED BY <2>1 DEF Contents
<1>3. InSstables \subseteq Record /\ InSstables \subseteq Known
    BY KnownRecords, KnownParts
<1>4. OnePerVersion(InSstables)
    BY <1>3 DEF OnePerVersion, SameVersion, SeqInv
<1>5. Merge(Contents(inputs), TRUE) \subseteq Winners(Contents(inputs))
    BY DEF Merge
<1>6. \A r \in Winners(Contents(inputs)) :
         r \in InSstables /\ \A x \in InSstables : x.key = r.key => x.seq <= r.seq
    BY <1>1, <1>2, <1>3, <1>4, WinnersOfAll
<1> QED BY <1>1, <1>2, <1>3, <1>4, <1>5, <1>6

\* The merged sstable takes its place above its inputs.
LEMMA CompactRenameOrder ==
    ASSUME DurabilityInv, TiersComplete, OrderInv, CompactRename
    PROVE  OrderInv'
<1> DEFINE merged == Merge(Contents(inputs), TRUE)
<1>1. /\ UNCHANGED <<wal, walBuf, memtable, nextSeq, op, out>>
      /\ files' = With(out, merged)
      /\ pc = "crename" /\ pc' = "remove"
      /\ \A id \in DOMAIN files : id < out
    BY DEF CompactRename, DurabilityInv, Inv, OutputInvariant
<1>2. \A r \in merged :
         r \in InSstables /\ \A x \in InSstables : x.key = r.key => x.seq <= r.seq
    BY <1>1, InputsAreAll DEF OrderInv
<1> HIDE DEF merged
<1>3. /\ DOMAIN files' = DOMAIN files \cup {out}
      /\ files'[out] = merged
      /\ \A id \in DOMAIN files : files'[id] = files[id] /\ id # out
    <2>1. out \in Int /\ \A id \in DOMAIN files : id # out
        BY <1>1 DEF DurabilityInv, Inv, TypeOK
    <2> QED BY <1>1, <2>1 DEF With
<1>4. /\ InSstables' = InSstables
      /\ UNCHANGED <<Written, Logged, Stored, Known>>
    <2>1. InSstables' = InSstables
        BY <1>2, <1>3 DEF InSstables
    <2> QED BY <1>1, <2>1 DEF Stored, Written, Logged, Known
<1>5. SeqInv' /\ LeftoverInv' /\ ReachInv'
    BY <1>1, <1>4 DEF OrderInv, SeqInv, LeftoverInv, ReachInv, Compacting
<1>6. AgeInv'
    <2>1. ASSUME NEW i \in DOMAIN files', NEW j \in DOMAIN files', j < i
          PROVE  Shadows(files'[i], files'[j])
        <3>1. out \in Int /\ DOMAIN files \subseteq Int
            BY DEF DurabilityInv, Inv, TypeOK
        <3>2. j \in DOMAIN files
            BY <1>1, <1>3, <2>1, <3>1
        <3>3. CASE i = out
            <4> SUFFICES ASSUME NEW r \in merged, NEW x \in files[j],
                                r.key = x.key, r.seq <= x.seq
                         PROVE  x \in merged
                BY <1>3, <3>2, <3>3 DEF Shadows
            <4>1. x \in Known /\ r \in Known /\ x \in InSstables
                BY <1>2, <3>2, KnownParts
            <4>2. x.seq = r.seq
                BY <1>2, <4>1, KnownRecords
            <4>3. x = r
                BY <4>1, <4>2 DEF OrderInv, SeqInv
            <4> QED BY <4>3
        <3>4. CASE i \in DOMAIN files
            BY <1>3, <2>1, <3>2, <3>4 DEF OrderInv, AgeInv
        <3> QED BY <1>3, <3>3, <3>4
    <2>2. ASSUME NEW id \in DOMAIN files', NEW upper,
                 \A i \in DOMAIN files : Shadows(upper, files[i])
          PROVE  Shadows(upper, files'[id])
        <3>1. CASE id = out
            BY <1>2, <1>3, <2>2, <3>1 DEF Shadows, InSstables
        <3>2. CASE id \in DOMAIN files
            BY <1>3, <2>2, <3>2
        <3> QED BY <1>3, <3>1, <3>2
    <2> QED BY <1>1, <1>4, <2>1, <2>2 DEF OrderInv, AgeInv
<1> QED BY <1>5, <1>6 DEF OrderInv

\* An input is gone.
LEMMA CompactRemoveOrder ==
    ASSUME OrderInv, CompactRemove
    PROVE  OrderInv'
<1>1. /\ UNCHANGED <<wal, walBuf, memtable, nextSeq>>
      /\ pc = "remove" /\ pc' = "remove"
      /\ files' = Without(Head(inputs))
    BY DEF CompactRemove
<1>2. \A id \in DOMAIN files' : id \in DOMAIN files /\ files'[id] = files[id]
    BY <1>1 DEF Without
<1>3. /\ InSstables' \subseteq InSstables
      /\ Stored' \subseteq Stored
      /\ Written' = Written /\ Logged' = Logged
      /\ Known' \subseteq Known
    BY <1>1, <1>2 DEF InSstables, Stored, Written, Logged, Known
<1>4. SeqInv' /\ LeftoverInv' /\ ReachInv'
    BY <1>1, <1>3 DEF OrderInv, SeqInv, LeftoverInv, ReachInv, Compacting
<1>5. AgeInv'
    BY <1>1, <1>2, <1>3 DEF OrderInv, AgeInv
<1> QED BY <1>4, <1>5 DEF OrderInv

\* A restart serves what it replays, all of the log.
LEMMA OpenReplays ==
    ASSUME DurabilityInv, Open
    PROVE  /\ memtable' = Written /\ Written' = Written /\ Logged' = Written
           /\ Frames(walBuf') = {}
<1>1. /\ wal' = wal \o <<>> /\ walBuf' = walBuf /\ walBuf = <<>>
      /\ memtable' = Replayed(wal')
    BY DEF DurabilityInv, ServedInv, NoLeftover, Open
<1>2. Frames(<<>>) = {}
    BY DEF Frames
<1>3. wal' \in Seq(Frame) /\ Frames(wal') = Written
    BY <1>1, <1>2, LogType, FramesOfConcat, ConcatProperties DEF Written
<1>4. Frames(wal') \subseteq Record /\ \A r, x \in Frames(wal') : r.seq = x.seq => r = x
    BY <1>3, KnownParts DEF DurabilityInv, LogInv
<1>5. memtable' = Written
    BY <1>1, <1>3, <1>4, ReplayedWhole
<1> QED BY <1>1, <1>2, <1>3, <1>5 DEF Written, Logged

\* The replayed memtable is above the sstables, and so are the seqs it leads to.
LEMMA OpenOrder ==
    ASSUME DurabilityInv, OrderInv, DurabilityInv', Open
    PROVE  OrderInv'
<1>1. /\ UNCHANGED files
      /\ pc = "closed" /\ pc' = "idle"
    BY DEF Open
<1>2. /\ InSstables' = InSstables
      /\ Stored' = Written \cup InSstables
      /\ Known' = Stored' /\ Known' \subseteq Known
    BY <1>1, OpenReplays DEF InSstables, Stored, Known, Logged, Written
<1>3. SeqInv'
    <2>1. \A r \in Written : r.seq < nextSeq'
        BY <1>1, OpenReplays DEF DurabilityInv, LogInv
    <2>2. nextSeq' \in Int
        BY DEF DurabilityInv, Inv, TypeOK
    <2>3. ASSUME NEW x \in InSstables PROVE x.seq < nextSeq'
        <3>1. PICK r \in Written : x.seq <= r.seq
            BY <1>1 DEF OrderInv, ReachInv
        <3>2. x.seq \in Int /\ r.seq \in Int
            BY KnownRecords, KnownParts
        <3> QED BY <2>1, <2>2, <3>1, <3>2
    <2> QED BY <1>1, <1>2, <2>1, <2>3 DEF OrderInv, SeqInv
<1>4. AgeInv'
    BY <1>1, OpenReplays DEF OrderInv, AgeInv
<1>5. LeftoverInv'
    BY <1>1, OpenReplays DEF LeftoverInv
<1>6. ReachInv'
    BY <1>1, <1>2, OpenReplays DEF OrderInv, ReachInv, Compacting
<1> QED BY <1>3, <1>4, <1>5, <1>6 DEF OrderInv

---------------------------------------------------------------------------
(* No sstable is left out *)

\* As many different ids as there are sstables are all of them.
LEMMA IdsAreAll ==
    ASSUME NEW S, IsFiniteSet(S), NEW ids \in [1 .. Cardinality(S) -> S],
           \A i, j \in DOMAIN ids : i # j => ids[i] # ids[j]
    PROVE  \A id \in S : \E i \in DOMAIN ids : ids[i] = id
<1>1. Cardinality(S) \in Nat
    BY FS_CardinalityType
<1>2. Cardinality(1 .. Cardinality(S)) = Cardinality(S)
    BY <1>1, FS_Interval
<1>3. ids \in Injection(1 .. Cardinality(S), S)
    BY DEF Injection, IsInjective
<1>4. ids \in Surjection(1 .. Cardinality(S), S)
    BY <1>2, <1>3, FS_Injection
<1> QED BY <1>4 DEF Surjection

\* Steps that leave the sstables and the tiers alone.
LEMMA SameTiers ==
    ASSUME TiersComplete, files' = files, tiers' = tiers,
           pc \notin {"closed", "crename", "remove"}, pc' \notin {"crename", "remove"}
    PROVE  TiersComplete'
BY DEF TiersComplete

\* open takes every sstable it finds.
LEMMA OpenTiers ==
    ASSUME DurabilityInv, Open
    PROVE  TiersComplete'
<1>1. PICK ids \in [1 .. Cardinality(DOMAIN files) -> DOMAIN files] :
         /\ \A i, j \in DOMAIN ids : i < j => ids[i] > ids[j]
         /\ tiers' = ids
    BY DEF Open
<1>2. IsFiniteSet(DOMAIN files) /\ DOMAIN files \subseteq Int
    BY DEF DurabilityInv, Inv, TypeOK
<1>3. \A i, j \in DOMAIN ids : i # j => ids[i] # ids[j]
    <2> SUFFICES ASSUME NEW i \in DOMAIN ids, NEW j \in DOMAIN ids, i # j
                 PROVE  ids[i] # ids[j]
        OBVIOUS
    <2>1. Cardinality(DOMAIN files) \in Nat
        BY <1>2, FS_CardinalityType
    <2>2. i \in Int /\ j \in Int /\ ids[i] \in Int /\ ids[j] \in Int
        BY <1>2, <2>1
    <2>3. i < j \/ j < i
        BY <2>2
    <2>4. ids[i] > ids[j] \/ ids[j] > ids[i]
        BY <1>1, <2>3
    <2> QED BY <2>2, <2>4
<1>4. \A id \in DOMAIN files : \E i \in DOMAIN ids : ids[i] = id
    <2> HIDE <1>1
    <2> QED BY <1>2, <1>3, IdsAreAll
<1>5. files' = files /\ pc' = "idle"
    BY DEF Open
<1> QED BY <1>1, <1>4, <1>5 DEF TiersComplete

\* The steps that change the sstables or the lists of them.
LEMMA NextTiers ==
    ASSUME Recoverable, DurabilityInv, TiersComplete, [Next]_vars
    PROVE  TiersComplete'
<1>1. ASSUME NEW k \in Key, (\E v \in Val : Put(k, v)) \/ Remove(k) PROVE TiersComplete'
    BY <1>1, SameTiers DEF Put, Remove, Write
<1>2. CASE Flush
    BY <1>2, SameTiers DEF Flush
<1>3. CASE Advance
    <2>1. CASE WalSync \/ Apply \/ Return
        BY <2>1, SameTiers DEF WalSync, Apply, Return, EndCall
    <2>2. CASE FlushWrite \/ WalReset
        BY <2>2, SameTiers DEF FlushWrite, WalReset
    <2>3. CASE FlushRename
        <3>1. /\ DOMAIN files' = DOMAIN files \cup {out}
              /\ tiers' = <<out>> \o tiers /\ pc = "rename" /\ pc' = "reset"
            BY <2>3 DEF FlushRename, With
        <3>2. /\ tiers'[1] = out /\ 1 \in DOMAIN tiers'
              /\ \A i \in DOMAIN tiers : i + 1 \in DOMAIN tiers' /\ tiers'[i + 1] = tiers[i]
            <4>1. tiers \in Seq(Nat) /\ <<out>> \in Seq(Nat) /\ Len(<<out>>) = 1
                BY DEF DurabilityInv, Inv, TypeOK
            <4> QED BY <3>1, <4>1, ConcatProperties, LenProperties
        <3>3. ASSUME NEW id \in DOMAIN files' PROVE \E i \in DOMAIN tiers' : tiers'[i] = id
            <4>1. CASE id = out
                BY <3>2, <4>1
            <4>2. CASE id \in DOMAIN files
                <5>1. PICK i \in DOMAIN tiers : tiers[i] = id
                    BY <3>1, <4>2 DEF TiersComplete
                <5> QED BY <3>2, <5>1
            <4> QED BY <3>1, <4>1, <4>2
        <3> QED BY <3>1, <3>3 DEF TiersComplete
    <2>4. CASE CompactMerge
        BY <2>4 DEF CompactMerge, TiersComplete
    <2>5. CASE CompactRename
        BY <2>5 DEF CompactRename, With, TiersComplete
    <2>6. CASE CompactRemove
        <3>1. /\ DOMAIN files' = DOMAIN files \ {Head(inputs)}
              /\ inputs # <<>> /\ inputs' = Tail(inputs)
              /\ out' = out /\ pc = "remove" /\ pc' = "remove"
            BY <2>6 DEF CompactRemove, Without
        <3>2. \A i \in DOMAIN inputs :
                 inputs[i] = Head(inputs) \/ (i - 1 \in DOMAIN inputs' /\ inputs'[i - 1] = inputs[i])
            <4>1. inputs \in Seq(Nat)
                BY DEF DurabilityInv, Inv, TypeOK
            <4> QED BY <3>1, <4>1, HeadTailProperties, LenProperties
        <3> QED BY <3>1, <3>2 DEF TiersComplete
    <2>7. CASE CompactDone
        <3>1. /\ files' = files /\ inputs = <<>> /\ tiers' = Append(tiers, out)
              /\ pc = "remove" /\ pc' = "return" /\ tiers = <<>>
            BY <2>7 DEF CompactDone, DurabilityInv, Inv, PhaseInvariant
        <3>2. \A id \in DOMAIN files : id = out
            BY <3>1 DEF TiersComplete
        <3>3. tiers' = <<out>>
            BY <3>1
        <3> QED BY <3>1, <3>2, <3>3 DEF TiersComplete
    <2> QED BY <1>3, <2>1, <2>2, <2>3, <2>4, <2>5, <2>6, <2>7 DEF Advance
<1>4. CASE Failure
    <2>1. CASE WalWriteFail \/ WalSyncFail \/ FlushWriteFail \/ FlushRenameFail \/ WalResetFail
        BY <2>1, SameTiers DEF WalWriteFail, WalSyncFail, FlushWriteFail, FlushRenameFail,
           WalResetFail, Fail, EndCall
    <2>2. CASE CompactMergeFail \/ CompactRenameFail \/ CompactRemoveFail
        BY <2>2 DEF CompactMergeFail, CompactRenameFail, CompactRemoveFail, Fail, Recoverable
    <2> QED BY <1>4, <2>1, <2>2 DEF Failure
<1>5. CASE Crash
    BY <1>5 DEF Crash, TiersComplete
<1>6. CASE Open
    BY <1>6, OpenTiers
<1>7. CASE UNCHANGED vars
    BY <1>7 DEF vars, call, TiersComplete
<1> QED BY <1>1, <1>2, <1>3, <1>4, <1>5, <1>6, <1>7 DEF Next

---------------------------------------------------------------------------
(* The invariant and the theorem *)

\* The empty directory is in order.
LEMMA InitRecency == Init => RecencyInv
<1> SUFFICES ASSUME Init PROVE RecencyInv
    OBVIOUS
<1>1. Frames(<<>>) = {}
    BY DEF Frames
<1>2. DOMAIN files = {} /\ Known = {} /\ pc = "closed"
    BY <1>1 DEF Init, Known, Logged, Stored, InSstables
<1>3. Stored = {} /\ InSstables = {} /\ Frames(walBuf) = {}
    BY <1>2, KnownParts
<1>4. TiersComplete /\ SeqInv /\ AgeInv /\ LeftoverInv
    BY <1>2 DEF TiersComplete, SeqInv, AgeInv, LeftoverInv
<1>5. ReachInv
    BY <1>2, <1>3 DEF ReachInv, Compacting
<1> QED BY <1>4, <1>5, InitDurability DEF RecencyInv, OrderInv

\* Every step keeps the order.
LEMMA NextOrder ==
    ASSUME Recoverable, RecencyInv, DurabilityInv', [Next]_vars
    PROVE  OrderInv'
<1> USE DEF RecencyInv
<1>0. ~TornWrites
    BY DEF Recoverable, CleanWrites
<1>1. ASSUME NEW k \in Key, (\E v \in Val : Put(k, v)) \/ Remove(k) PROVE OrderInv'
    BY <1>1, WriteOrder DEF Put, Remove
<1>2. CASE Flush \/ Return
    BY <1>2, QuietOrder DEF Flush, Return, EndCall, Compacting
<1>3. CASE WalSync \/ WalWriteFail \/ WalSyncFail
    <2>1. PICK frames : LogGrows(frames)
        BY <1>0, <1>3, LogSteps
    <2>2. /\ UNCHANGED <<files, memtable, nextSeq>> /\ pc = "sync"
          /\ pc' \notin Compacting \cup {"closed", "sync"}
          /\ pc' = "apply" => op' = op /\ walBuf' = <<>>
        BY <1>3 DEF WalSync, WalWriteFail, WalSyncFail, Fail, EndCall, Compacting
    <2> QED BY <2>1, <2>2, LogStepOrder
<1>4. CASE Crash
    <2>1. PICK frames : LogGrows(frames)
        BY <1>0, <1>4, LogSteps
    <2>2. /\ files' = files /\ memtable' = {} /\ pc' = "closed" /\ pc # "closed"
          /\ files # <<>> /\ Replayed(wal' \o walStale') = {} => "clean" \in CrashPoints
        BY <1>4 DEF Crash
    <2>3. DOMAIN files = {} \/ Written' # {}
        <3>1. CASE files = <<>>
            BY <3>1
        <3>2. CASE Replayed(wal' \o walStale') # {}
            <4>1. /\ wal' \in Seq(Frame) /\ walStale' \in Seq(Frame)
                  /\ Frames(wal' \o walStale') = Written'
                <5>1. wal' \in Seq(Frame) /\ walStale' \in Seq(Frame)
                    BY DEF DurabilityInv, Inv, TypeOK
                <5>2. walStale' = <<>>
                    BY DEF DurabilityInv, NoLeftover
                <5>3. wal' \o walStale' = wal'
                    BY <5>1, <5>2, ConcatProperties
                <5> QED BY <5>1, <5>3 DEF Written
            <4>2. Replayed(wal' \o walStale') \subseteq Frames(wal' \o walStale')
                BY DEF Replayed, Replayable, Frames
            <4> QED BY <3>2, <4>1, <4>2
        <3> QED BY <2>2, <3>1, <3>2 DEF Recoverable
    <2> QED BY <2>1, <2>2, <2>3, LogStepOrder
<1>5. CASE Apply
    BY <1>5, ApplyOrder
<1>6. CASE FlushWrite \/ FlushWriteFail \/ FlushRenameFail \/ WalResetFail
    BY <1>6, QuietOrder DEF FlushWrite, FlushWriteFail, FlushRenameFail, WalResetFail,
       Fail, EndCall, Compacting
<1>7. CASE FlushRename \/ WalReset
    BY <1>7, FlushRenameOrder, WalResetOrder
<1>8. CASE CompactMerge \/ CompactDone
    BY <1>8, QuietOrder DEF CompactMerge, CompactDone, Compacting
<1>9. CASE CompactRename \/ CompactRemove
    BY <1>9, CompactRenameOrder, CompactRemoveOrder
<1>10. CASE CompactMergeFail \/ CompactRenameFail \/ CompactRemoveFail
    BY <1>10 DEF CompactMergeFail, CompactRenameFail, CompactRemoveFail, Fail, Recoverable
<1>11. CASE Open
    BY <1>11, OpenOrder
<1>12. CASE UNCHANGED vars
    <2>1. UNCHANGED <<Written, Logged, InSstables, Stored, Known>>
        BY <1>12 DEF vars, call, Written, Logged, InSstables, Stored, Known
    <2> QED BY <1>12, <2>1 DEF vars, call, OrderInv, SeqInv, AgeInv, LeftoverInv, ReachInv
<1> QED BY <1>1, <1>2, <1>3, <1>4, <1>5, <1>6, <1>7, <1>8, <1>9, <1>10, <1>11, <1>12
        DEF Next, Advance, Failure

\* Every step preserves the invariant.
LEMMA NextRecency ==
    ASSUME Recoverable, RecencyInv, [Next]_vars
    PROVE  RecencyInv'
<1>1. DurabilityInv'
    BY NextDurability DEF RecencyInv, Recoverable
<1>2. TiersComplete'
    BY NextTiers DEF RecencyInv
<1>3. OrderInv'
    BY <1>1, NextOrder
<1> QED BY <1>1, <1>2, <1>3 DEF RecencyInv

\* The invariant holds throughout.
LEMMA RecencyInvariance ==
    ASSUME Recoverable
    PROVE  Spec => []RecencyInv
<1>1. Init => RecencyInv
    BY InitRecency
<1>2. RecencyInv /\ [Next]_vars => RecencyInv'
    BY NextRecency
<1> QED BY <1>1, <1>2, PTL DEF Spec

\* The next write gets a seq above every seq the store holds, after any flush,
\* compaction, error and restart that Recoverable admits (lib.rs: "every mutation
\* to the LSM gets a strictly increasing seq"; lsm.rs: alloc_seq, open).
THEOREM SeqAlwaysGrows ==
    ASSUME Recoverable
    PROVE  Spec => []SeqStrictlyIncreasing
<1>1. RecencyInv => SeqStrictlyIncreasing
    BY DEF RecencyInv, OrderInv, SeqInv, Stored, InSstables, SeqStrictlyIncreasing
<1> QED BY <1>1, RecencyInvariance, PTL
=================================================================================
