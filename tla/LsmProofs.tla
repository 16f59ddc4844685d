-------------------------------- MODULE LsmProofs --------------------------------
(***************************************************************************)
(* Theorems about Lsm, for every instance: any keys and values, any number *)
(* of writes, stops and I/O errors, at every step, with or without torn    *)
(* log writes.                                                             *)
(***************************************************************************)
EXTENDS Lsm, MVCCProofs, FiniteSetTheorems, SequenceTheorems, TLAPS

---------------------------------------------------------------------------
(* Lemmas about the operators *)

\* What open takes as the last seq bounds every seq it replayed.
LEMMA MaxSeqBounds ==
    ASSUME NEW records \in SUBSET Record
    PROVE  /\ MaxSeq(records) \in 0 .. SeqMax
           /\ \A r \in records : r.seq <= MaxSeq(records)
<1>1. CASE records = {}
    BY <1>1, MVCCAssumption DEF MaxSeq
<1>2. CASE records # {}
    <2> DEFINE seqs == {r.seq : r \in records}
    <2>1. seqs \in SUBSET (0 .. SeqMax) /\ seqs # {}
        BY <1>2, MVCCAssumption DEF Record, SeqNum
    <2>2. PICK m \in seqs : \A x \in seqs : x <= m
        BY <2>1, Greatest, MVCCAssumption
    <2>3. \E r \in records : \A x \in records : x.seq <= r.seq
        BY <2>2
    <2> DEFINE top == CHOOSE r \in records : \A x \in records : x.seq <= r.seq
    <2>4. top \in records /\ \A x \in records : x.seq <= top.seq
        BY <2>3
    <2> QED BY <1>2, <2>4, MVCCAssumption DEF MaxSeq, Record, SeqNum
<1> QED BY <1>1, <1>2

\* Compaction emits records of its inputs only.
LEMMA MergeSelects ==
    ASSUME NEW runs, NEW last, \A i \in DOMAIN runs : runs[i] \subseteq Record
    PROVE  Merge(runs, last) \subseteq Record
BY DEF Merge, Winners

\* Replay returns records: what follows a torn frame is not looked at.
LEMMA ReplayedRecords ==
    ASSUME NEW file \in Seq(Frame)
    PROVE  Replayed(file) \subseteq Record
<1> SUFFICES ASSUME NEW i \in Replayable(file) PROVE file[i] \in Record
    BY DEF Replayed
<1>1. i \in 1 .. Len(file) /\ file[i] # Torn
    BY DEF Replayable
<1> QED BY <1>1, ElementOfSeq DEF Frame

\* A write(2) that is cut leaves frames.
LEMMA CutFrames ==
    ASSUME NEW frames \in Seq(Frame), NEW n \in 0 .. Len(frames), NEW c \in Cut(frames, n)
    PROVE  c \in Seq(Frame)
<1>1. SubSeq(frames, 1, n) \in Seq(Frame)
    BY SubSeqProperties, ElementOfSeq
<1>2. Append(SubSeq(frames, 1, n), Torn) \in Seq(Frame)
    BY <1>1, AppendProperties DEF Frame
<1> QED BY <1>1, <1>2 DEF Cut

\* Writing frames to the log keeps it a sequence of frames.
LEMMA WriteLogType ==
    ASSUME wal \in Seq(Frame), walStale \in Seq(Frame),
           NEW frames \in Seq(Frame), WriteLog(frames)
    PROVE  wal' \in Seq(Frame) /\ walStale' \in Seq(Frame)
<1>1. wal' \in Seq(Frame)
    BY ConcatProperties DEF WriteLog
<1>2. \A i \in 2 .. Len(walStale) + 1 : SubSeq(walStale, i, Len(walStale)) \in Seq(Frame)
    BY SubSeqProperties, ElementOfSeq, LenProperties
<1>3. ASSUME NEW rest \in Seq(Frame) PROVE <<Torn>> \o rest \in Seq(Frame)
    <2>1. <<Torn>> \in Seq(Frame)
        BY DEF Frame
    <2> QED BY <2>1, ConcatProperties
<1>4. walStale' = walStale \/ walStale' \in Overwritten(walStale)
    BY DEF WriteLog
<1>5. ASSUME walStale' \in Overwritten(walStale) PROVE walStale' \in Seq(Frame)
    <2>1. PICK i \in 2 .. Len(walStale) + 1 :
            walStale' \in {SubSeq(walStale, i, Len(walStale)),
                          <<Torn>> \o SubSeq(walStale, i, Len(walStale))}
        BY <1>5 DEF Overwritten
    <2> QED BY <1>2, <1>3, <2>1
<1> QED BY <1>1, <1>4, <1>5

---------------------------------------------------------------------------
(* The inductive invariant *)

\* Sstables a local or a field refers to: newest first, and all on disk.
Serve(ids) ==
    /\ NewestFirst(ids)
    /\ \A i \in DOMAIN ids : ids[i] \in DOMAIN files

\* While the engine is open every id in use has been allocated.
IdsAllocated == pc # "closed" => \A id \in DOMAIN files : id < nextSstId

\* An sstable being written has a fresh id, and keeps the highest one.
OutputInvariant ==
    /\ pc \in {"rename", "crename"} =>
          out < nextSstId /\ \A id \in DOMAIN files : id < out
    /\ pc = "remove" =>
          out \in DOMAIN files /\ \A i \in DOMAIN inputs : inputs[i] < out

\* What the step about to run relies on.
PhaseInvariant ==
    /\ pc \in {"crename", "remove", "closed"} => tiers = <<>>
    /\ pc \in {"sync", "apply"} => op \in Record

\* TypeOK alone is not inductive: the output of a compaction holds records only
\* because its inputs are files that exist.
Inv ==
    /\ TypeOK
    /\ IsFiniteSet(DOMAIN files)
    /\ Serve(tiers)
    /\ Serve(inputs)
    /\ IdsAllocated
    /\ OutputInvariant
    /\ PhaseInvariant

USE DEF Steps

\* An empty directory is a good start.
LEMMA InitInv == Init => Inv
<1> SUFFICES ASSUME Init PROVE Inv
    OBVIOUS
<1>1. TypeOK
    BY MVCCAssumption, LsmAssumption DEF Init, TypeOK, NoDoubt
<1>2. DOMAIN files = {}
    BY DEF Init
<1>3. IsFiniteSet(DOMAIN files)
    BY <1>2, FS_EmptySet
<1>4. Serve(tiers) /\ Serve(inputs)
    BY DEF Init, Serve, NewestFirst
<1>5. IdsAllocated /\ OutputInvariant /\ PhaseInvariant
    BY DEF Init, IdsAllocated, OutputInvariant, PhaseInvariant
<1> QED BY <1>1, <1>3, <1>4, <1>5 DEF Inv

\* Steps that leave the sstables and every reference to them alone.
LEMMA SameFiles ==
    ASSUME Inv, TypeOK',
           UNCHANGED <<files, tiers, inputs, out, nextSstId>>,
           pc \notin {"closed", "rename", "crename", "remove"},
           pc' \notin {"rename", "crename", "remove", "closed"},
           pc' \in {"sync", "apply"} => op' \in Record
    PROVE  Inv'
BY DEF Inv, Serve, NewestFirst, IdsAllocated, OutputInvariant, PhaseInvariant

\* Steps that end a call, locals gone, and leave sstables and tiers alone.
LEMMA EndsCall ==
    ASSUME Inv, TypeOK', EndCall, UNCHANGED <<files, tiers>>,
           pc # "closed", nextSstId' \in {nextSstId, nextSstId + 1}
    PROVE  Inv'
<1>1. Serve(inputs)'
    BY DEF EndCall, Serve, NewestFirst
<1>2. IdsAllocated'
    <2>1. nextSstId \in Nat /\ nextSstId' >= nextSstId
        BY DEF Inv, TypeOK
    <2>2. \A id \in DOMAIN files : id \in Nat /\ id < nextSstId
        BY DEF Inv, IdsAllocated, TypeOK
    <2>3. nextSstId' \in Nat
        BY <2>1
    <2> QED BY <2>1, <2>2, <2>3 DEF IdsAllocated
<1>3. Serve(tiers)'
    BY DEF Inv, Serve, NewestFirst
<1>4. OutputInvariant'
    BY DEF OutputInvariant, EndCall
<1>5. PhaseInvariant'
    BY DEF PhaseInvariant, EndCall
<1>6. IsFiniteSet(DOMAIN files)'
    BY DEF Inv
<1> QED BY <1>1, <1>2, <1>3, <1>4, <1>5, <1>6 DEF Inv

---------------------------------------------------------------------------
(* Every step preserves it *)

USE DEF disk, memory, bounds

\* What a failing step leaves of the call and the bounds.
LEMMA FailType ==
    ASSUME TypeOK, NEW step, Fail(step)
    PROVE  /\ fails' \in 0 .. MaxFails
           /\ crashes' \in 0 .. MaxCrashes
           /\ pc' = "idle"
           /\ op' = None
           /\ inputs' \in Seq(Nat)
           /\ out' \in Nat
BY LsmAssumption DEF TypeOK, Fail, EndCall

\* A write begins: its record has an allocated seq and is in the buffer only.
LEMMA WriteInv ==
    ASSUME Inv, NEW k \in Key, NEW v \in Value, Write(k, v)
    PROVE  Inv'
<1>1. nextSeq \in SeqNum /\ nextSeq' \in 1 .. SeqMax + 1
    BY MVCCAssumption DEF Inv, TypeOK, Write, SeqNum
<1>2. op' \in Record
    BY <1>1 DEF Write, Record, Value
<1>3. walBuf' \in Seq(Record)
    BY <1>2, AppendProperties DEF Inv, TypeOK, Write
<1>4. TypeOK'
    BY <1>1, <1>2, <1>3 DEF Inv, TypeOK, Write
<1> QED BY <1>2, <1>4, SameFiles DEF Write

\* Frames reach the log.
LEMMA WalSyncInv == ASSUME Inv, WalSync PROVE Inv'
<1>1. walBuf \in Seq(Frame)
    BY SeqMonotonic DEF Inv, TypeOK, Frame
<1>2. wal' \in Seq(Frame) /\ walStale' \in Seq(Frame)
    BY <1>1, WriteLogType DEF Inv, TypeOK, WalSync
<1>3. TypeOK'
    BY <1>2 DEF Inv, TypeOK, WalSync
<1>4. op' \in Record
    BY DEF Inv, PhaseInvariant, WalSync
<1> QED BY <1>3, <1>4, SameFiles DEF WalSync

\* A write that fails is in doubt: what it may show is a value or None.
LEMMA UnsettledType ==
    ASSUME Inv, pc = "sync"
    PROVE  Unsettled \in [Key -> SUBSET (Val \cup {None})]
<1>1. op \in Record
    BY DEF Inv, PhaseInvariant
<1>2. AsPut(op.val) \in Val \cup {None}
    BY <1>1 DEF Record, Value, AsPut
<1> QED BY <1>2 DEF Unsettled, Inv, TypeOK

\* Part of the frames reach the log.
LEMMA WalWriteFailInv == ASSUME Inv, WalWriteFail PROVE Inv'
<1>0. PICK n \in 0 .. Len(walBuf) - 1 : \E frames \in Cut(walBuf, n) :
        /\ WriteLog(frames)
        /\ walBuf' = IF Len(frames) = n THEN SubSeq(walBuf, n + 1, Len(walBuf)) ELSE <<>>
    BY DEF WalWriteFail
<1>1. PICK frames \in Cut(walBuf, n) :
        /\ WriteLog(frames)
        /\ walBuf' = IF Len(frames) = n THEN SubSeq(walBuf, n + 1, Len(walBuf)) ELSE <<>>
    BY <1>0
<1>2. walBuf \in Seq(Record) /\ n \in 0 .. Len(walBuf)
    BY LenProperties DEF Inv, TypeOK
<1>3. frames \in Seq(Frame)
    BY <1>1, <1>2, CutFrames, SeqMonotonic DEF Frame
<1>4. wal' \in Seq(Frame) /\ walStale' \in Seq(Frame)
    BY <1>1, <1>3, WriteLogType DEF Inv, TypeOK
<1>5. walBuf' \in Seq(Record)
    BY <1>1, <1>2, SubSeqProperties, ElementOfSeq, LenProperties
<1>6. doubt' \in [Key -> SUBSET (Val \cup {None})]
    BY UnsettledType DEF WalWriteFail
<1>7. /\ fails' \in 0 .. MaxFails /\ crashes' \in 0 .. MaxCrashes
      /\ pc' = "idle" /\ op' = None /\ inputs' \in Seq(Nat) /\ out' \in Nat
    BY FailType DEF Inv, WalWriteFail
<1>8. TypeOK'
    BY <1>4, <1>5, <1>6, <1>7 DEF Inv, TypeOK, WalWriteFail
<1> QED BY <1>8, EndsCall DEF WalWriteFail, Fail

\* The frames reach the log, the caller gets an error.
LEMMA WalSyncFailInv == ASSUME Inv, WalSyncFail PROVE Inv'
<1>1. walBuf \in Seq(Frame)
    BY SeqMonotonic DEF Inv, TypeOK, Frame
<1>2. wal' \in Seq(Frame) /\ walStale' \in Seq(Frame)
    BY <1>1, WriteLogType DEF Inv, TypeOK, WalSyncFail
<1>3. doubt' \in [Key -> SUBSET (Val \cup {None})]
    BY UnsettledType DEF WalSyncFail
<1>4. /\ fails' \in 0 .. MaxFails /\ crashes' \in 0 .. MaxCrashes
      /\ pc' = "idle" /\ op' = None /\ inputs' \in Seq(Nat) /\ out' \in Nat
    BY FailType DEF Inv, WalSyncFail
<1>5. TypeOK'
    BY <1>2, <1>3, <1>4, EmptySeq DEF Inv, TypeOK, WalSyncFail
<1> QED BY <1>5, EndsCall DEF WalSyncFail, Fail

\* The record enters the memtable.
LEMMA ApplyInv == ASSUME Inv, Apply PROVE Inv'
<1>1. op \in Record
    BY DEF Inv, PhaseInvariant, Apply
<1>2. memtable' \subseteq Record
    BY <1>1 DEF Inv, TypeOK, Apply, Insert
<1>3. TypeOK'
    BY <1>2 DEF Inv, TypeOK, Apply
<1> QED BY <1>3, SameFiles DEF Apply

\* The call ends.
LEMMA ReturnInv == ASSUME Inv, Return PROVE Inv'
<1>1. TypeOK'
    BY DEF Inv, TypeOK, Return, EndCall
<1> QED BY <1>1, EndsCall DEF Return

\* An explicit flush begins.
LEMMA FlushInv == ASSUME Inv, Flush PROVE Inv'
<1>1. TypeOK'
    BY DEF Inv, TypeOK, Flush
<1> QED BY <1>1, SameFiles DEF Flush

\* The sstables with one more or one fewer.
LEMMA WithType ==
    ASSUME Inv, NEW id \in Nat, NEW table \in SUBSET Record
    PROVE  /\ DOMAIN With(id, table) = DOMAIN files \cup {id}
           /\ IsFiniteSet(DOMAIN With(id, table))
           /\ DOMAIN With(id, table) \subseteq Nat
           /\ \A i \in DOMAIN With(id, table) : With(id, table)[i] \subseteq Record
<1>1. DOMAIN With(id, table) = DOMAIN files \cup {id}
    BY DEF With
<1>2. IsFiniteSet(DOMAIN files \cup {id})
    BY FS_AddElement DEF Inv
<1> QED BY <1>1, <1>2 DEF With, Inv, TypeOK

\* A table removed leaves the others as they were.
LEMMA WithoutType ==
    ASSUME Inv, NEW id
    PROVE  /\ DOMAIN Without(id) = DOMAIN files \ {id}
           /\ IsFiniteSet(DOMAIN Without(id))
           /\ DOMAIN Without(id) \subseteq Nat
           /\ \A i \in DOMAIN Without(id) : Without(id)[i] \subseteq Record
<1>1. DOMAIN Without(id) = DOMAIN files \ {id}
    BY DEF Without
<1>2. IsFiniteSet(DOMAIN files \ {id})
    BY FS_RemoveElement DEF Inv
<1> QED BY <1>1, <1>2 DEF Without, Inv, TypeOK

\* The id of the output is taken from next_sst_id.
LEMMA FlushWriteInv == ASSUME Inv, FlushWrite PROVE Inv'
<1>1. TypeOK'
    BY DEF Inv, TypeOK, FlushWrite
<1>2. OutputInvariant'
    BY DEF Inv, TypeOK, IdsAllocated, OutputInvariant, FlushWrite
<1>3. IdsAllocated'
    BY DEF Inv, TypeOK, IdsAllocated, FlushWrite
<1>4. PhaseInvariant'
    BY DEF Inv, PhaseInvariant, FlushWrite
<1> QED BY <1>1, <1>2, <1>3, <1>4 DEF Inv, Serve, NewestFirst, FlushWrite

\* The id is spent all the same.
LEMMA FlushWriteFailInv == ASSUME Inv, FlushWriteFail PROVE Inv'
<1>1. /\ fails' \in 0 .. MaxFails /\ crashes' \in 0 .. MaxCrashes
      /\ pc' = "idle" /\ op' = None /\ inputs' \in Seq(Nat) /\ out' \in Nat
    BY FailType DEF Inv, FlushWriteFail
<1>2. nextSstId' \in Nat \ {0} /\ tmp' \subseteq Nat
    BY DEF Inv, TypeOK, FlushWriteFail
<1>3. TypeOK'
    BY <1>1, <1>2 DEF Inv, TypeOK, FlushWriteFail
<1> QED BY <1>3, EndsCall DEF FlushWriteFail, Fail

\* No sstable appears.
LEMMA FlushRenameFailInv == ASSUME Inv, FlushRenameFail PROVE Inv'
<1>1. TypeOK'
    BY FailType DEF Inv, TypeOK, FlushRenameFail
<1> QED BY <1>1, EndsCall DEF FlushRenameFail, Fail

\* The log stays.
LEMMA WalResetFailInv == ASSUME Inv, WalResetFail PROVE Inv'
<1>1. TypeOK'
    BY FailType DEF Inv, TypeOK, WalResetFail
<1> QED BY <1>1, EndsCall DEF WalResetFail, Fail

\* A newest sstable put in front keeps the tiers in order.
LEMMA FlushRenameInv == ASSUME Inv, FlushRename PROVE Inv'
<1>1. /\ out \in Nat /\ memtable \in SUBSET Record
      /\ tiers \in Seq(Nat) /\ <<out>> \in Seq(Nat)
    BY DEF Inv, TypeOK
<1>2. /\ DOMAIN files' = DOMAIN files \cup {out}
      /\ IsFiniteSet(DOMAIN files')
      /\ DOMAIN files' \subseteq Nat
      /\ \A i \in DOMAIN files' : files'[i] \subseteq Record
    BY <1>1, WithType DEF FlushRename
<1>3. /\ tiers' \in Seq(Nat)
      /\ DOMAIN tiers' = 1 .. Len(tiers) + 1
      /\ tiers'[1] = out
      /\ \A i \in DOMAIN tiers' : i # 1 => i - 1 \in DOMAIN tiers /\ tiers'[i] = tiers[i - 1]
    BY <1>1, ConcatProperties, LenProperties DEF FlushRename
<1>4. TypeOK'
    BY <1>2, <1>3 DEF Inv, TypeOK, FlushRename
<1>5. \A i \in DOMAIN tiers' : i # 1 => tiers'[i] \in DOMAIN files /\ tiers'[i] < out
    BY <1>3 DEF Inv, Serve, OutputInvariant, FlushRename
<1>6. Serve(tiers)'
    <2>1. \A i \in DOMAIN tiers' : tiers'[i] \in DOMAIN files'
        BY <1>2, <1>3, <1>5
    <2>2. ASSUME NEW i \in DOMAIN tiers', NEW j \in DOMAIN tiers', i < j
          PROVE  tiers'[i] > tiers'[j]
        <3>1. j # 1
            BY <1>3, <2>2
        <3>2. CASE i = 1
            BY <1>1, <1>3, <1>4, <1>5, <3>1, <3>2 DEF TypeOK
        <3>3. CASE i # 1
            <4>1. i - 1 \in DOMAIN tiers /\ j - 1 \in DOMAIN tiers /\ i - 1 < j - 1
                BY <1>3, <2>2, <3>1, <3>3
            <4> QED BY <1>3, <3>1, <3>3, <4>1 DEF Inv, Serve, NewestFirst
        <3> QED BY <3>2, <3>3
    <2> QED BY <2>1, <2>2 DEF Serve, NewestFirst
<1>7. Serve(inputs)'
    BY <1>2 DEF Inv, Serve, NewestFirst, FlushRename
<1>8. IdsAllocated' /\ OutputInvariant' /\ PhaseInvariant'
    BY <1>2 DEF Inv, IdsAllocated, OutputInvariant, PhaseInvariant, FlushRename
<1> QED BY <1>2, <1>4, <1>6, <1>7, <1>8 DEF Inv

\* The log becomes empty or stale.
LEMMA WalResetInv == ASSUME Inv, WalReset PROVE Inv'
<1>1. walBuf \in Seq(Frame)
    BY SeqMonotonic DEF Inv, TypeOK, Frame
<1>2. <<>> \in Seq(Frame) /\ <<>> \in Seq(Record) /\ <<Torn>> \in Seq(Frame)
    BY EmptySeq DEF Frame
<1>3. PICK frames \in Dropped : walStale' \in {frames, <<Torn>> \o frames}
    BY DEF WalReset
<1>4. frames \in Seq(Frame)
    <2>1. PICK held \in Held, n \in 0 .. Len(walBuf) : frames \in Cut(held, n)
        BY <1>3 DEF Dropped
    <2>2. held \in Seq(Frame) /\ Len(held) = Len(walBuf)
        <3>1. CASE held = walBuf
            BY <1>1, <3>1
        <3>2. CASE walBuf # <<>> /\ held = <<Torn>> \o Tail(walBuf)
            <4>1. Tail(walBuf) \in Seq(Frame) /\ Len(Tail(walBuf)) = Len(walBuf) - 1
                BY <1>1, <3>2, HeadTailProperties
            <4>2. Len(<<Torn>>) = 1 /\ Len(walBuf) \in Nat
                BY <1>1, LenProperties
            <4> QED BY <1>2, <3>2, <4>1, <4>2, ConcatProperties
        <3> QED BY <2>1, <3>1, <3>2 DEF Held
    <2> QED BY <2>1, <2>2, CutFrames
<1>5. walStale' \in Seq(Frame)
    BY <1>2, <1>3, <1>4, ConcatProperties
<1>6. TypeOK'
    BY <1>2, <1>5 DEF Inv, TypeOK, WalReset
<1> QED BY <1>6, SameFiles DEF WalReset

\* The tiers become the inputs.
LEMMA CompactMergeInv == ASSUME Inv, CompactMerge PROVE Inv'
<1>1. TypeOK'
    BY DEF Inv, TypeOK, CompactMerge
<1>2. OutputInvariant'
    BY DEF Inv, TypeOK, IdsAllocated, OutputInvariant, CompactMerge
<1>3. IdsAllocated'
    BY DEF Inv, TypeOK, IdsAllocated, CompactMerge
<1>4. PhaseInvariant'
    BY DEF Inv, PhaseInvariant, CompactMerge
<1> QED BY <1>1, <1>2, <1>3, <1>4 DEF Inv, Serve, NewestFirst, CompactMerge

\* The tiers are lost, and with them nothing else.
LEMMA CompactMergeFailInv == ASSUME Inv, CompactMergeFail PROVE Inv'
<1>1. /\ fails' \in 0 .. MaxFails /\ crashes' \in 0 .. MaxCrashes
      /\ pc' = "idle" /\ op' = None /\ inputs' \in Seq(Nat) /\ out' \in Nat
    BY FailType DEF Inv, CompactMergeFail
<1>2. nextSstId' \in Nat \ {0} /\ tmp' \subseteq Nat /\ tiers' \in Seq(Nat)
    BY EmptySeq DEF Inv, TypeOK, CompactMergeFail
<1>3. TypeOK'
    BY <1>1, <1>2 DEF Inv, TypeOK, CompactMergeFail
<1>4. Serve(tiers)' /\ Serve(inputs)'
    BY DEF Serve, NewestFirst, CompactMergeFail, Fail, EndCall
<1>5. IdsAllocated'
    BY DEF Inv, TypeOK, IdsAllocated, CompactMergeFail
<1>6. OutputInvariant' /\ PhaseInvariant'
    BY DEF OutputInvariant, PhaseInvariant, CompactMergeFail, Fail, EndCall
<1> QED BY <1>3, <1>4, <1>5, <1>6 DEF Inv, CompactMergeFail

\* The inputs exist, so what is merged is records.
LEMMA CompactRenameInv == ASSUME Inv, CompactRename PROVE Inv'
<1>1. out \in Nat /\ inputs \in Seq(Nat)
    BY DEF Inv, TypeOK
<1>2. Merge(Contents(inputs), TRUE) \in SUBSET Record
    <2>1. \A i \in DOMAIN Contents(inputs) : Contents(inputs)[i] \subseteq Record
        BY DEF Contents, Inv, Serve, TypeOK
    <2> QED BY <2>1, MergeSelects
<1>3. /\ DOMAIN files' = DOMAIN files \cup {out}
      /\ IsFiniteSet(DOMAIN files')
      /\ DOMAIN files' \subseteq Nat
      /\ \A i \in DOMAIN files' : files'[i] \subseteq Record
    BY <1>1, <1>2, WithType DEF CompactRename
<1>4. horizon' \in 0 .. SeqMax
    BY MVCCAssumption DEF Inv, TypeOK, CompactRename
<1>5. TypeOK'
    BY <1>3, <1>4 DEF Inv, TypeOK, CompactRename
<1>6. Serve(tiers)' /\ Serve(inputs)'
    BY <1>3 DEF Inv, Serve, NewestFirst, CompactRename
<1>7. OutputInvariant'
    BY <1>3 DEF Inv, Serve, OutputInvariant, CompactRename
<1>8. IdsAllocated' /\ PhaseInvariant'
    BY <1>3 DEF Inv, IdsAllocated, OutputInvariant, PhaseInvariant, CompactRename
<1> QED BY <1>3, <1>5, <1>6, <1>7, <1>8 DEF Inv

\* The inputs are forgotten.
LEMMA CompactRenameFailInv == ASSUME Inv, CompactRenameFail PROVE Inv'
<1>1. TypeOK'
    BY FailType DEF Inv, TypeOK, CompactRenameFail
<1> QED BY <1>1, EndsCall DEF CompactRenameFail, Fail

\* The loop over inputs: what is left of them is the tail.
LEMMA TailOfInputs ==
    ASSUME Inv, inputs # <<>>
    PROVE  /\ Tail(inputs) \in Seq(Nat)
           /\ DOMAIN Tail(inputs) = 1 .. Len(inputs) - 1
           /\ \A i \in DOMAIN Tail(inputs) :
                 i + 1 \in DOMAIN inputs /\ Tail(inputs)[i] = inputs[i + 1]
           /\ 1 \in DOMAIN inputs /\ Head(inputs) = inputs[1]
<1>1. inputs \in Seq(Nat) /\ Len(inputs) \in Nat \ {0}
    BY EmptySeq DEF Inv, TypeOK
<1> QED BY <1>1, HeadTailProperties, LenProperties

\* It is still in order.
LEMMA TailIsNewestFirst ==
    ASSUME Inv, inputs # <<>>
    PROVE  NewestFirst(Tail(inputs))
<1> SUFFICES ASSUME NEW i \in DOMAIN Tail(inputs), NEW j \in DOMAIN Tail(inputs), i < j
             PROVE  Tail(inputs)[i] > Tail(inputs)[j]
    BY DEF NewestFirst
<1>1. i + 1 \in DOMAIN inputs /\ j + 1 \in DOMAIN inputs /\ i + 1 < j + 1
    <2>1. Len(inputs) \in Nat /\ i \in 1 .. Len(inputs) - 1 /\ j \in 1 .. Len(inputs) - 1
        BY TailOfInputs, LenProperties DEF Inv, TypeOK
    <2> QED BY <2>1, TailOfInputs
<1> QED BY <1>1, TailOfInputs DEF Inv, Serve, NewestFirst

\* The first input is removed and no other.
LEMMA CompactRemoveInv == ASSUME Inv, CompactRemove PROVE Inv'
<1>1. /\ DOMAIN files' = DOMAIN files \ {inputs[1]}
      /\ IsFiniteSet(DOMAIN files')
      /\ DOMAIN files' \subseteq Nat
      /\ \A i \in DOMAIN files' : files'[i] \subseteq Record
    BY WithoutType, TailOfInputs DEF CompactRemove
<1>2. TypeOK'
    BY <1>1, TailOfInputs DEF Inv, TypeOK, CompactRemove
<1>3. tiers' = <<>>
    BY DEF Inv, PhaseInvariant, CompactRemove
<1>4. \A i \in DOMAIN inputs' : inputs'[i] < inputs[1] /\ inputs'[i] \in DOMAIN files
    <2> SUFFICES ASSUME NEW i \in DOMAIN inputs'
                 PROVE  inputs'[i] < inputs[1] /\ inputs'[i] \in DOMAIN files
        OBVIOUS
    <2>1. i + 1 \in DOMAIN inputs /\ inputs'[i] = inputs[i + 1] /\ 1 \in DOMAIN inputs
        BY TailOfInputs DEF CompactRemove
    <2>2. 1 < i + 1
        BY TailOfInputs, LenProperties DEF Inv, TypeOK, CompactRemove
    <2>3. inputs[1] > inputs[i + 1] /\ inputs[1] \in Nat /\ inputs[i + 1] \in Nat
        BY <2>1, <2>2 DEF Inv, Serve, NewestFirst, TypeOK
    <2> QED BY <2>1, <2>3 DEF Inv, Serve
<1>5. inputs[1] \in Nat /\ \A i \in DOMAIN inputs' : inputs'[i] \in Nat
    BY <1>4, TailOfInputs DEF Inv, Serve, TypeOK, CompactRemove
<1>6. Serve(inputs)'
    BY <1>1, <1>4, <1>5, TailIsNewestFirst DEF Serve, NewestFirst, CompactRemove
<1>7. Serve(tiers)'
    BY <1>3 DEF Serve, NewestFirst
<1>8. OutputInvariant'
    <2>1. out # inputs[1]
        BY <1>5, TailOfInputs DEF Inv, OutputInvariant, CompactRemove
    <2>2. \A i \in DOMAIN inputs' : inputs'[i] < out
        BY TailOfInputs DEF Inv, OutputInvariant, CompactRemove
    <2> QED BY <1>1, <2>1, <2>2 DEF Inv, OutputInvariant, CompactRemove
<1>9. IdsAllocated' /\ PhaseInvariant'
    BY <1>1, <1>3 DEF Inv, IdsAllocated, PhaseInvariant, CompactRemove
<1> QED BY <1>1, <1>2, <1>6, <1>7, <1>8, <1>9 DEF Inv

\* The first input stays on disk.
LEMMA CompactRemoveFailInv == ASSUME Inv, CompactRemoveFail PROVE Inv'
<1>1. fails' \in 0 .. MaxFails
    BY LsmAssumption DEF Inv, TypeOK, CompactRemoveFail
<1>2. TypeOK'
    BY <1>1, TailOfInputs DEF Inv, TypeOK, CompactRemoveFail
<1>3. Serve(inputs)'
    BY TailOfInputs, TailIsNewestFirst DEF Inv, Serve, NewestFirst, CompactRemoveFail
<1>4. OutputInvariant'
    BY TailOfInputs DEF Inv, OutputInvariant, CompactRemoveFail
<1>5. Serve(tiers)' /\ IdsAllocated' /\ PhaseInvariant'
    BY DEF Inv, Serve, NewestFirst, IdsAllocated, PhaseInvariant, CompactRemoveFail
<1> QED BY <1>2, <1>3, <1>4, <1>5 DEF Inv, CompactRemoveFail

\* The output becomes the only tier.
LEMMA CompactDoneInv == ASSUME Inv, CompactDone PROVE Inv'
<1>1. tiers' = <<out>> /\ out \in Nat
    BY DEF Inv, TypeOK, PhaseInvariant, CompactDone
<1>2. TypeOK'
    BY <1>1 DEF Inv, TypeOK, CompactDone
<1>3. Serve(tiers)'
    BY <1>1 DEF Inv, Serve, NewestFirst, OutputInvariant, CompactDone
<1>4. Serve(inputs)'
    BY DEF Inv, Serve, NewestFirst, CompactDone
<1>5. IdsAllocated' /\ OutputInvariant' /\ PhaseInvariant'
    BY DEF Inv, IdsAllocated, OutputInvariant, PhaseInvariant, CompactDone
<1> QED BY <1>2, <1>3, <1>4, <1>5 DEF Inv, CompactDone

\* A stop keeps what is on disk.
LEMMA CrashInv == ASSUME Inv, Crash PROVE Inv'
<1>1. PICK n \in 0 .. Len(walBuf) : \E frames \in Cut(walBuf, n) : WriteLog(frames)
    BY DEF Crash
<1>2. PICK frames \in Cut(walBuf, n) : WriteLog(frames)
    BY <1>1
<1>3. frames \in Seq(Frame)
    BY <1>2, CutFrames, SeqMonotonic DEF Inv, TypeOK, Frame
<1>4. wal' \in Seq(Frame) /\ walStale' \in Seq(Frame)
    BY <1>2, <1>3, WriteLogType DEF Inv, TypeOK
<1>5. crashes' \in 0 .. MaxCrashes
    BY LsmAssumption DEF Inv, TypeOK, Crash
<1>6. nextSeq' \in 1 .. SeqMax + 1 /\ doubt' \in [Key -> SUBSET (Val \cup {None})]
    BY MVCCAssumption DEF Crash, NoDoubt
<1>7. TypeOK'
    BY <1>4, <1>5, <1>6 DEF Inv, TypeOK, Crash
<1>8. Serve(tiers)' /\ Serve(inputs)'
    BY DEF Serve, NewestFirst, Crash
<1>9. IdsAllocated' /\ OutputInvariant' /\ PhaseInvariant'
    BY DEF IdsAllocated, OutputInvariant, PhaseInvariant, Crash
<1> QED BY <1>7, <1>8, <1>9 DEF Inv, Crash

\* Open puts the sstables it finds in order and allocates above them.
LEMMA OpenInv == ASSUME Inv, Open PROVE Inv'
<1>1. wal' \in Seq(Frame) /\ walStale' \in Seq(Frame)
    BY ConcatProperties, EmptySeq DEF Inv, TypeOK, Open
<1>2. memtable' \subseteq Record
    BY <1>1, ReplayedRecords DEF Open
<1>3. nextSeq' \in 1 .. SeqMax + 1
    <2>1. MaxSeq(memtable') \in 0 .. SeqMax
        BY <1>2, MaxSeqBounds
    <2> QED BY <2>1, MVCCAssumption DEF Open
<1>4. /\ tiers' \in [1 .. Cardinality(DOMAIN files) -> DOMAIN files]
      /\ NewestFirst(tiers)'
    BY DEF Open, NewestFirst
<1>5. Cardinality(DOMAIN files) \in Nat
    BY FS_CardinalityType DEF Inv
<1>6. tiers' \in Seq(Nat)
    <2> DEFINE n == Cardinality(DOMAIN files)
    <2>1. tiers' \in [1 .. n -> Nat]
        BY <1>4 DEF Inv, TypeOK
    <2> HIDE DEF n
    <2> QED BY <1>5, <2>1, SeqDef DEF n
<1>7. PICK m \in DOMAIN files \cup {0} :
        (\A id \in DOMAIN files : id <= m) /\ nextSstId' = m + 1
    BY DEF Open
<1>8. nextSstId' \in Nat \ {0} /\ \A id \in DOMAIN files : id < nextSstId'
    BY <1>7 DEF Inv, TypeOK
<1>9. TypeOK'
    <2>1. /\ pc' = "idle" /\ tmp' = {} /\ walAppends' = TRUE
          /\ UNCHANGED <<files, walBuf, op, inputs, out, horizon, doubt, crashes, fails>>
        BY DEF Open
    <2>2. TypeOK
        BY DEF Inv
    <2> QED BY <1>1, <1>2, <1>3, <1>6, <1>8, <2>1, <2>2 DEF TypeOK
<1>10. Serve(tiers)' /\ Serve(inputs)'
    BY <1>4 DEF Inv, Serve, NewestFirst, Open
<1>11. IdsAllocated' /\ OutputInvariant' /\ PhaseInvariant'
    BY <1>8 DEF IdsAllocated, OutputInvariant, PhaseInvariant, Open
<1> QED BY <1>9, <1>10, <1>11 DEF Inv, Open

\* Every step keeps the invariant.
LEMMA NextInv == ASSUME Inv, [Next]_vars PROVE Inv'
<1>1. ASSUME NEW k \in Key, NEW v \in Val, Put(k, v) PROVE Inv'
    BY <1>1, WriteInv DEF Put, Value
<1>2. ASSUME NEW k \in Key, Remove(k) PROVE Inv'
    BY <1>2, WriteInv DEF Remove, Value
<1>3. CASE Flush
    BY <1>3, FlushInv
<1>4. CASE Advance
    BY <1>4, WalSyncInv, ApplyInv, ReturnInv, FlushWriteInv, FlushRenameInv, WalResetInv,
       CompactMergeInv, CompactRenameInv, CompactRemoveInv, CompactDoneInv DEF Advance
<1>5. CASE Failure
    BY <1>5, WalWriteFailInv, WalSyncFailInv, FlushWriteFailInv, FlushRenameFailInv,
       WalResetFailInv, CompactMergeFailInv, CompactRenameFailInv, CompactRemoveFailInv
       DEF Failure
<1>6. CASE Crash
    BY <1>6, CrashInv
<1>7. CASE Open
    BY <1>7, OpenInv
<1>8. CASE UNCHANGED vars
    BY <1>8 DEF vars, call, Inv, TypeOK, Serve, NewestFirst, IdsAllocated, OutputInvariant,
                PhaseInvariant
<1> QED BY <1>1, <1>2, <1>3, <1>4, <1>5, <1>6, <1>7, <1>8 DEF Next

---------------------------------------------------------------------------
(* Theorems *)

\* The invariant holds in every state the engine can reach (lsm.rs: every method).
THEOREM Invariance == Spec => []Inv
<1>1. Init => Inv
    BY InitInv
<1>2. Inv /\ [Next]_vars => Inv'
    BY NextInv
<1> QED BY <1>1, <1>2, PTL DEF Spec

\* Every variable keeps its type through every step, failure and restart.
THEOREM TypeCorrect == Spec => []TypeOK
<1>1. Inv => TypeOK
    BY DEF Inv
<1> QED BY <1>1, Invariance, PTL

\* Every sstable a read would open exists, and they are searched newest first,
\* wherever the engine stopped or failed before (lsm.rs: tiers).
THEOREM TiersAlwaysServe == Spec => []TiersServe
<1>1. Inv => TiersServe
    <2> SUFFICES ASSUME Inv PROVE TiersServe
        OBVIOUS
    <2>1. CASE pc = "crename"
        BY <2>1 DEF Inv, TiersServe, LiveTiers, Serve
    <2>2. CASE pc = "remove"
        BY <2>2 DEF Inv, TiersServe, LiveTiers, OutputInvariant, NewestFirst
    <2>3. CASE pc \notin {"crename", "remove"}
        BY <2>3 DEF Inv, TiersServe, LiveTiers, Serve
    <2> QED BY <2>1, <2>2, <2>3
<1> QED BY <1>1, Invariance, PTL

\* A rename never replaces an sstable, and what it installs has the highest id,
\* which open relies on to put the newest first (lsm.rs: next_sst_id).
THEOREM OutputAlwaysFresh == Spec => []OutputIsFresh
<1>1. Inv => OutputIsFresh
    BY DEF Inv, OutputIsFresh, OutputInvariant
<1> QED BY <1>1, Invariance, PTL

---------------------------------------------------------------------------
(* The log: under the conditions of CleanWrites, whatever else fails and   *)
(* wherever the process stops, every record the memtable serves is one     *)
(* that a restart replays.                                                 *)


Frames(file) == {file[i] : i \in DOMAIN file}

\* The frames of two files, one after the other.
LEMMA FramesOfConcat ==
    ASSUME NEW a \in Seq(Frame), NEW b \in Seq(Frame)
    PROVE  Frames(a \o b) = Frames(a) \cup Frames(b)
<1>1. /\ Len(a \o b) = Len(a) + Len(b)
      /\ \A i \in 1 .. Len(a) + Len(b) :
            (a \o b)[i] = IF i <= Len(a) THEN a[i] ELSE b[i - Len(a)]
    BY ConcatProperties
<1>2. a \o b \in Seq(Frame) /\ Len(a) \in Nat /\ Len(b) \in Nat
    BY ConcatProperties, LenProperties
<1>3. /\ DOMAIN (a \o b) = 1 .. Len(a) + Len(b)
      /\ DOMAIN a = 1 .. Len(a)
      /\ DOMAIN b = 1 .. Len(b)
    BY <1>1, <1>2, LenProperties
<1>4. Frames(a \o b) \subseteq Frames(a) \cup Frames(b)
    <2> SUFFICES ASSUME NEW i \in 1 .. Len(a) + Len(b)
                 PROVE  (a \o b)[i] \in Frames(a) \cup Frames(b)
        BY <1>3 DEF Frames
    <2>1. CASE i <= Len(a)
        BY <1>1, <1>2, <1>3, <2>1 DEF Frames
    <2>2. CASE ~ (i <= Len(a))
        <3>1. i - Len(a) \in 1 .. Len(b)
            BY <1>2, <2>2
        <3> QED BY <1>1, <1>3, <2>2, <3>1 DEF Frames
    <2> QED BY <2>1, <2>2
<1>5. Frames(a) \subseteq Frames(a \o b)
    <2> SUFFICES ASSUME NEW i \in 1 .. Len(a) PROVE a[i] \in Frames(a \o b)
        BY <1>3 DEF Frames
    <2>1. i \in 1 .. Len(a) + Len(b) /\ i <= Len(a)
        BY <1>2
    <2> QED BY <1>1, <1>3, <2>1 DEF Frames
<1>6. Frames(b) \subseteq Frames(a \o b)
    <2> SUFFICES ASSUME NEW i \in 1 .. Len(b) PROVE b[i] \in Frames(a \o b)
        BY <1>3 DEF Frames
    <2>1. /\ i + Len(a) \in 1 .. Len(a) + Len(b)
          /\ ~ (i + Len(a) <= Len(a))
          /\ (i + Len(a)) - Len(a) = i
        BY <1>2
    <2> QED BY <1>1, <1>3, <2>1 DEF Frames
<1> QED BY <1>4, <1>5, <1>6

\* The frames of a part of a file.
LEMMA FramesOfSubSeq ==
    ASSUME NEW S, NEW s \in Seq(S), NEW m \in 1 .. Len(s) + 1, NEW n \in m - 1 .. Len(s)
    PROVE  Frames(SubSeq(s, m, n)) \subseteq Frames(s)
<1>1. Len(s) \in Nat /\ DOMAIN s = 1 .. Len(s)
    BY LenProperties
<1>2. /\ SubSeq(s, m, n) \in Seq(S)
      /\ Len(SubSeq(s, m, n)) = n - m + 1
      /\ \A i \in 1 .. n - m + 1 : SubSeq(s, m, n)[i] = s[m + i - 1]
    BY <1>1, SubSeqProperties
<1>3. DOMAIN SubSeq(s, m, n) = 1 .. n - m + 1
    BY <1>2, LenProperties
<1> SUFFICES ASSUME NEW i \in 1 .. n - m + 1 PROVE SubSeq(s, m, n)[i] \in Frames(s)
    BY <1>3 DEF Frames
<1>4. m + i - 1 \in DOMAIN s
    BY <1>1
<1> QED BY <1>2, <1>4 DEF Frames

\* A log without torn frames, in which a seq names one record, is replayed whole.
LEMMA ReplayedWhole ==
    ASSUME NEW file \in Seq(Frame), Frames(file) \subseteq Record,
           \A r, x \in Frames(file) : r.seq = x.seq => r = x
    PROVE  Replayed(file) = Frames(file)
<1>1. Len(file) \in Nat /\ DOMAIN file = 1 .. Len(file)
    BY LenProperties
<1>2. \A i \in DOMAIN file : file[i] \in Record /\ file[i] # Torn
    BY WalAssumption DEF Frames
<1>3. Replayable(file) = DOMAIN file
    BY <1>1, <1>2 DEF Replayable
<1>4. Replayed(file) \subseteq Frames(file)
    BY <1>3 DEF Replayed, Frames
<1>5. ASSUME NEW r \in Frames(file) PROVE r \in Replayed(file)
    <2> DEFINE S == {i \in DOMAIN file : file[i] = r}
    <2>1. S \in SUBSET (0 .. Len(file)) /\ S # {}
        BY <1>1 DEF Frames
    <2>2. PICK i \in S : \A j \in S : j <= i
        <3> HIDE DEF S
        <3> QED BY <1>1, <2>1, Greatest
    <2>3. ASSUME NEW j \in DOMAIN file, i < j PROVE ~SameVersion(file[i], file[j])
        <3>1. j \notin S
            BY <1>1, <2>2, <2>3
        <3> QED BY <3>1 DEF SameVersion, Frames
    <2> QED BY <1>3, <2>2, <2>3 DEF Replayed
<1> QED BY <1>4, <1>5

---------------------------------------------------------------------------
(* The inductive invariant *)

Logged == Frames(wal) \cup Frames(walBuf)

\* A seq names one record of the log, and the next write gets a new one.
LogInv ==
    /\ Logged \subseteq Record
    /\ \A r, x \in Logged : r.seq = x.seq => r = x
    /\ pc # "closed" => \A r \in Logged : r.seq < nextSeq

\* The log is ahead of the memtable.
ServedInv ==
    /\ memtable \subseteq Frames(wal)
    /\ pc \in {"closed", "reset"} => memtable = {}
    /\ pc = "closed" => walBuf = <<>>
    /\ pc = "sync" => op \in Frames(walBuf)
    /\ pc = "apply" => op \in Frames(wal)

\* No writer is dropped with something in its buffer, so there is nothing past
\* the writer's position.
NoLeftover ==
    /\ walStale = <<>>
    /\ pc \in {"apply", "flush", "rename", "reset"} => walBuf = <<>>

DurabilityInv == Inv /\ LogInv /\ ServedInv /\ NoLeftover

\* The conditions under which that is so: a write leaves whole records, and flush
\* is not called while a failed write is in the buffer.
CleanWrites == ~TornWrites /\ ~FlushAfterFailure

\* Losing records of the log, or moving them within it, keeps LogInv.
LEMMA LogShrinks ==
    ASSUME LogInv, Logged' \subseteq Logged,
           pc' # "closed" => pc # "closed" /\ nextSeq' = nextSeq
    PROVE  LogInv'
BY DEF LogInv

\* A step that leaves the log alone, and the memtable or clears it.
LEMMA LogUntouched ==
    ASSUME LogInv, ServedInv, UNCHANGED <<wal, walBuf, nextSeq>>,
           memtable' \in {memtable, {}}, pc # "closed",
           pc' \notin {"closed", "sync", "apply"}, pc' = "reset" => memtable' = {}
    PROVE  LogInv' /\ ServedInv'
<1>1. LogInv'
    BY LogShrinks DEF Logged
<1>2. ServedInv'
    BY DEF ServedInv
<1> QED BY <1>1, <1>2

\* What the log holds after a write.
LEMMA WriteLogFrames ==
    ASSUME wal \in Seq(Frame), NEW frames \in Seq(Frame), WriteLog(frames)
    PROVE  Frames(wal') = Frames(wal) \cup Frames(frames)
BY FramesOfConcat DEF WriteLog

\* A write that is cut at a record writes the first records of its buffer.
LEMMA CutIsPrefix ==
    ASSUME ~TornWrites, NEW frames \in Seq(Record), NEW n \in 0 .. Len(frames),
           NEW c \in Cut(frames, n)
    PROVE  c \in Seq(Frame) /\ Frames(c) \subseteq Frames(frames)
<1>1. c = SubSeq(frames, 1, n)
    BY DEF Cut
<1>2. 1 \in 1 .. Len(frames) + 1 /\ n \in 1 - 1 .. Len(frames)
    BY LenProperties
<1>3. frames \in Seq(Frame)
    BY SeqMonotonic DEF Frame
<1> QED BY <1>1, <1>2, <1>3, CutFrames, FramesOfSubSeq

---------------------------------------------------------------------------
(* Every step that touches the log or the memtable preserves it *)

\* The empty directory has nothing to lose.
LEMMA InitDurability == Init => DurabilityInv
<1> SUFFICES ASSUME Init PROVE DurabilityInv
    OBVIOUS
<1>1. Frames(<<>>) = {}
    BY DEF Frames
<1>2. LogInv /\ ServedInv /\ NoLeftover
    BY <1>1 DEF Init, LogInv, Logged, ServedInv, NoLeftover
<1> QED BY <1>2, InitInv DEF DurabilityInv

\* A new record gets a seq the log does not hold.
LEMMA WriteDurability ==
    ASSUME DurabilityInv, NEW k \in Key, NEW v \in Value, Write(k, v)
    PROVE  LogInv' /\ ServedInv'
<1>1. walBuf \in Seq(Frame) /\ <<op'>> \in Seq(Frame) /\ op' \in Record
    <2>1. nextSeq \in SeqNum
        BY MVCCAssumption DEF DurabilityInv, Inv, TypeOK, Write, SeqNum
    <2>2. op' \in Record
        BY <2>1 DEF Write, Record
    <2>3. walBuf \in Seq(Frame)
        BY SeqMonotonic DEF DurabilityInv, Inv, TypeOK, Frame
    <2> QED BY <2>2, <2>3 DEF Frame
<1>2. Frames(walBuf') = Frames(walBuf) \cup {op'}
    <2>1. walBuf' = walBuf \o <<op'>>
        BY <1>1, AppendIsConcat DEF Write
    <2>2. Frames(<<op'>>) = {op'}
        BY DEF Frames
    <2> QED BY <1>1, <2>1, <2>2, FramesOfConcat
<1>3. Logged' = Logged \cup {op'}
    BY <1>2 DEF Logged, Write
<1>4. /\ op'.seq = nextSeq
      /\ nextSeq' = nextSeq + 1
      /\ pc = "idle"
      /\ nextSeq \in Int
    BY DEF DurabilityInv, Inv, TypeOK, Write
<1>5. \A r \in Logged : r.seq < nextSeq /\ r.seq \in Int
    <2>1. \A r \in Logged : r \in Record /\ r.seq < nextSeq
        BY <1>4 DEF DurabilityInv, LogInv
    <2> QED BY <2>1, MVCCAssumption DEF Record, SeqNum
<1>6. LogInv'
    <2>1. Logged' \subseteq Record
        BY <1>1, <1>3 DEF DurabilityInv, LogInv
    <2>2. \A r \in Logged' : r.seq < nextSeq'
        BY <1>3, <1>4, <1>5
    <2>3. ASSUME NEW r \in Logged', NEW x \in Logged', r.seq = x.seq PROVE r = x
        <3>1. CASE r \in Logged /\ x \in Logged
            BY <2>3, <3>1 DEF DurabilityInv, LogInv
        <3>2. CASE r = op' /\ x \in Logged
            BY <1>4, <1>5, <2>3, <3>2
        <3>3. CASE r \in Logged /\ x = op'
            BY <1>4, <1>5, <2>3, <3>3
        <3> QED BY <1>3, <3>1, <3>2, <3>3
    <2> QED BY <2>1, <2>2, <2>3 DEF LogInv
<1>7. ServedInv'
    BY <1>2 DEF DurabilityInv, ServedInv, Write
<1> QED BY <1>6, <1>7

\* The types of the log, and of what its writer holds.
LEMMA LogType ==
    ASSUME DurabilityInv
    PROVE  /\ wal \in Seq(Frame)
           /\ walStale \in Seq(Frame)
           /\ walBuf \in Seq(Record)
           /\ walBuf \in Seq(Frame)
BY SeqMonotonic DEF DurabilityInv, Inv, TypeOK, Frame

\* A whole buffer moves to the log.
LEMMA BufferWritten ==
    ASSUME DurabilityInv, pc = "sync", WriteLog(walBuf), walBuf' = <<>>
    PROVE  /\ Frames(wal') = Frames(wal) \cup Frames(walBuf)
           /\ Logged' \subseteq Logged
<1>1. Frames(wal') = Frames(wal) \cup Frames(walBuf)
    BY LogType, WriteLogFrames
<1>2. Frames(walBuf') = {}
    BY DEF Frames
<1> QED BY <1>1, <1>2 DEF Logged

\* The record of the call is in the log before it is in the memtable.
LEMMA WalSyncDurability ==
    ASSUME DurabilityInv, WalSync
    PROVE  LogInv' /\ ServedInv'
<1>1. /\ Frames(wal') = Frames(wal) \cup Frames(walBuf)
      /\ Logged' \subseteq Logged
    BY BufferWritten DEF WalSync
<1>2. LogInv'
    BY <1>1, LogShrinks DEF DurabilityInv, WalSync
<1>3. ServedInv'
    BY <1>1 DEF DurabilityInv, ServedInv, WalSync
<1> QED BY <1>2, <1>3

\* The record of a failed call is in the log, ahead of nothing served.
LEMMA WalSyncFailDurability ==
    ASSUME DurabilityInv, WalSyncFail
    PROVE  LogInv' /\ ServedInv'
<1>1. /\ Frames(wal') = Frames(wal) \cup Frames(walBuf)
      /\ Logged' \subseteq Logged
    BY BufferWritten DEF WalSyncFail
<1>2. LogInv'
    BY <1>1, LogShrinks DEF DurabilityInv, WalSyncFail, Fail, EndCall
<1>3. ServedInv'
    BY <1>1 DEF DurabilityInv, ServedInv, WalSyncFail, Fail, EndCall
<1> QED BY <1>2, <1>3

\* Some records of the buffer are in the log, and the others still in the buffer.
LEMMA WalWriteFailDurability ==
    ASSUME ~TornWrites, DurabilityInv, WalWriteFail
    PROVE  LogInv' /\ ServedInv'
<1>1. PICK n \in 0 .. Len(walBuf) - 1 : \E frames \in Cut(walBuf, n) :
        /\ WriteLog(frames)
        /\ walBuf' = IF Len(frames) = n THEN SubSeq(walBuf, n + 1, Len(walBuf)) ELSE <<>>
    BY DEF WalWriteFail
<1>2. PICK frames \in Cut(walBuf, n) :
        /\ WriteLog(frames)
        /\ walBuf' = IF Len(frames) = n THEN SubSeq(walBuf, n + 1, Len(walBuf)) ELSE <<>>
    BY <1>1
<1>3. /\ n \in 0 .. Len(walBuf)
      /\ n + 1 \in 1 .. Len(walBuf) + 1
      /\ Len(walBuf) \in (n + 1) - 1 .. Len(walBuf)
    BY LogType, LenProperties
<1>4. frames \in Seq(Frame) /\ Frames(frames) \subseteq Frames(walBuf)
    BY <1>2, <1>3, LogType, CutIsPrefix
<1>5. Frames(wal') = Frames(wal) \cup Frames(frames)
    BY <1>2, <1>4, LogType, WriteLogFrames
<1>6. Frames(walBuf') \subseteq Frames(walBuf)
    <2>1. Frames(SubSeq(walBuf, n + 1, Len(walBuf))) \subseteq Frames(walBuf)
        BY <1>3, LogType, FramesOfSubSeq
    <2>2. Frames(<<>>) = {}
        BY DEF Frames
    <2> QED BY <1>2, <2>1, <2>2
<1>7. Logged' \subseteq Logged
    BY <1>4, <1>5, <1>6 DEF Logged
<1>8. LogInv'
    BY <1>7, LogShrinks DEF DurabilityInv, WalWriteFail, Fail, EndCall
<1>9. ServedInv'
    BY <1>5 DEF DurabilityInv, ServedInv, WalWriteFail, Fail, EndCall
<1> QED BY <1>8, <1>9

\* What enters the memtable is in the log.
LEMMA ApplyDurability ==
    ASSUME DurabilityInv, Apply
    PROVE  LogInv' /\ ServedInv'
<1>1. LogInv'
    BY LogShrinks DEF DurabilityInv, Logged, Apply
<1>2. memtable' \subseteq memtable \cup {op}
    BY DEF Apply, Insert
<1>3. ServedInv'
    BY <1>2 DEF DurabilityInv, ServedInv, Apply
<1> QED BY <1>1, <1>3

\* The log is truncated when the memtable is in an sstable.
LEMMA WalResetDurability ==
    ASSUME DurabilityInv, WalReset
    PROVE  LogInv' /\ ServedInv'
<1>1. /\ wal' = <<>> /\ walBuf' = <<>>
      /\ memtable = {} /\ memtable' = {}
      /\ pc' \in {"compact", "return"}
    BY DEF DurabilityInv, ServedInv, WalReset
<1>2. Frames(<<>>) = {}
    BY DEF Frames
<1>3. Logged' \subseteq Logged
    BY <1>1, <1>2 DEF Logged
<1>4. LogInv'
    BY <1>3, LogShrinks DEF DurabilityInv, WalReset
<1>5. ServedInv'
    BY <1>1 DEF ServedInv
<1> QED BY <1>4, <1>5

\* A stop loses the end of the buffer.
LEMMA CrashDurability ==
    ASSUME ~TornWrites, DurabilityInv, Crash
    PROVE  LogInv' /\ ServedInv'
<1>1. PICK n \in 0 .. Len(walBuf) : \E frames \in Cut(walBuf, n) : WriteLog(frames)
    BY DEF Crash
<1>2. PICK frames \in Cut(walBuf, n) : WriteLog(frames)
    BY <1>1
<1>3. frames \in Seq(Frame) /\ Frames(frames) \subseteq Frames(walBuf)
    BY <1>2, LogType, CutIsPrefix
<1>4. Frames(wal') = Frames(wal) \cup Frames(frames)
    BY <1>2, <1>3, LogType, WriteLogFrames
<1>5. /\ walBuf' = <<>> /\ memtable' = {} /\ pc' = "closed"
      /\ Frames(<<>>) = {}
    BY DEF Crash, Frames
<1>6. Logged' \subseteq Logged
    BY <1>3, <1>4, <1>5 DEF Logged
<1>7. LogInv'
    BY <1>5, <1>6, LogShrinks DEF DurabilityInv
<1>8. ServedInv'
    BY <1>5 DEF ServedInv
<1> QED BY <1>7, <1>8

\* Open replays the whole log, and takes its next seq from what it replayed.
LEMMA OpenDurability ==
    ASSUME DurabilityInv, Open
    PROVE  LogInv' /\ ServedInv'
<1>1. /\ wal' = wal \o walStale /\ walStale = <<>> /\ walBuf' = walBuf /\ walBuf = <<>>
      /\ memtable' = Replayed(wal')
      /\ nextSeq' = MaxSeq(memtable') + 1
      /\ pc' = "idle"
    BY DEF DurabilityInv, ServedInv, NoLeftover, Open
<1>2. Frames(<<>>) = {}
    BY DEF Frames
<1>3. wal' \in Seq(Frame) /\ Frames(wal') = Frames(wal)
    BY <1>1, <1>2, LogType, FramesOfConcat, ConcatProperties
<1>4. Logged' = Frames(wal') /\ Logged' \subseteq Logged
    BY <1>1, <1>2, <1>3 DEF Logged
<1>5. /\ Logged' \subseteq Record
      /\ \A r, x \in Logged' : r.seq = x.seq => r = x
    BY <1>4 DEF DurabilityInv, LogInv
<1>6. memtable' = Frames(wal')
    BY <1>1, <1>3, <1>4, <1>5, ReplayedWhole
<1>7. \A r \in Logged' : r.seq < nextSeq'
    <2>1. /\ MaxSeq(memtable') \in 0 .. SeqMax
          /\ \A r \in memtable' : r.seq <= MaxSeq(memtable')
        BY <1>4, <1>5, <1>6, MaxSeqBounds
    <2>2. \A r \in memtable' : r.seq \in Int
        BY <1>4, <1>5, <1>6, MVCCAssumption DEF Record, SeqNum
    <2> QED BY <1>1, <1>4, <1>6, <2>1, <2>2, MVCCAssumption
<1>8. LogInv'
    BY <1>5, <1>7 DEF LogInv
<1>9. ServedInv'
    BY <1>1, <1>6 DEF ServedInv
<1> QED BY <1>8, <1>9

\* The other steps leave the log alone, and the memtable or clear it.
LEMMA QuietDurability ==
    ASSUME DurabilityInv,
           \/ Return \/ Flush
           \/ FlushWrite \/ FlushWriteFail \/ FlushRename \/ FlushRenameFail \/ WalResetFail
           \/ CompactMerge \/ CompactMergeFail \/ CompactRename \/ CompactRenameFail
           \/ CompactRemove \/ CompactRemoveFail \/ CompactDone
    PROVE  LogInv' /\ ServedInv'
<1>1. /\ UNCHANGED <<wal, walBuf, nextSeq>>
      /\ memtable' \in {memtable, {}}
      /\ pc # "closed"
      /\ pc' \notin {"closed", "sync", "apply"}
      /\ pc' = "reset" => memtable' = {}
    <2>1. CASE Return \/ Flush
        BY <2>1 DEF Return, Flush, EndCall
    <2>2. CASE FlushWrite \/ FlushWriteFail
        BY <2>2 DEF FlushWrite, FlushWriteFail, Fail, EndCall
    <2>3. CASE FlushRename \/ FlushRenameFail \/ WalResetFail
        BY <2>3 DEF FlushRename, FlushRenameFail, WalResetFail, Fail, EndCall
    <2>4. CASE CompactMerge \/ CompactMergeFail
        BY <2>4 DEF CompactMerge, CompactMergeFail, Fail, EndCall
    <2>5. CASE CompactRename \/ CompactRenameFail
        BY <2>5 DEF CompactRename, CompactRenameFail, Fail, EndCall
    <2>6. CASE CompactRemove \/ CompactRemoveFail \/ CompactDone
        BY <2>6 DEF CompactRemove, CompactRemoveFail, CompactDone
    <2> QED BY <2>1, <2>2, <2>3, <2>4, <2>5, <2>6
<1> QED BY <1>1, LogUntouched DEF DurabilityInv

\* Nothing is dropped with a buffer, and so nothing is left past the log's end.
LEMMA NextLeavesNothing ==
    ASSUME ~FlushAfterFailure, NoLeftover, [Next]_vars
    PROVE  NoLeftover'
<1>1. \A frames : WriteLog(frames) => walStale' = <<>>
    BY DEF NoLeftover, WriteLog
<1>2. ASSUME NEW k, NEW v, Write(k, v) PROVE NoLeftover'
    BY <1>2 DEF Write, NoLeftover
<1>3. CASE Flush
    BY <1>3 DEF Flush, NoLeftover
<1>4. CASE WalSync
    BY <1>1, <1>4 DEF WalSync, NoLeftover
<1>5. CASE WalWriteFail \/ WalSyncFail
    BY <1>1, <1>5 DEF WalWriteFail, WalSyncFail, Fail, EndCall, NoLeftover
<1>6. CASE Apply \/ Return \/ FlushWrite \/ FlushRename
    BY <1>6 DEF Apply, Return, EndCall, FlushWrite, FlushRename, NoLeftover
<1>7. CASE WalReset
    <2>1. walBuf = <<>>
        BY <1>7 DEF WalReset, NoLeftover
    <2>2. \A held \in Held : held = <<>>
        BY <2>1 DEF Held
    <2>3. \A n \in 0 .. Len(walBuf) : Cut(<<>>, n) = {<<>>}
        <3>1. \A n \in 0 .. Len(walBuf) : n = 0 /\ ~(n < Len(<<>>))
            BY <2>1
        <3>2. Cut(<<>>, 0) = {SubSeq(<<>>, 1, 0)}
            BY <3>1, <2>1 DEF Cut
        <3>3. SubSeq(<<>>, 1, 0) = <<>>
            BY SubSeqProperties, EmptySeq, ElementOfSeq
        <3> QED BY <3>1, <3>2, <3>3
    <2>4. \A frames \in Dropped : frames = <<>>
        BY <2>2, <2>3 DEF Dropped
    <2> QED BY <1>7, <2>4 DEF WalReset, NoLeftover
<1>8. CASE FlushWriteFail \/ FlushRenameFail \/ WalResetFail
    BY <1>8 DEF FlushWriteFail, FlushRenameFail, WalResetFail, Fail, EndCall, NoLeftover
<1>9. CASE CompactMerge \/ CompactRename \/ CompactRemove \/ CompactDone
    BY <1>9 DEF CompactMerge, CompactRename, CompactRemove, CompactDone, NoLeftover
<1>10. CASE CompactMergeFail \/ CompactRenameFail \/ CompactRemoveFail
    BY <1>10 DEF CompactMergeFail, CompactRenameFail, CompactRemoveFail, Fail, EndCall,
                NoLeftover
<1>11. CASE Crash
    BY <1>1, <1>11 DEF Crash, NoLeftover
<1>12. CASE Open
    BY <1>12 DEF Open, NoLeftover
<1>13. CASE UNCHANGED vars
    BY <1>13 DEF vars, call, NoLeftover
<1> QED BY <1>2, <1>3, <1>4, <1>5, <1>6, <1>7, <1>8, <1>9, <1>10, <1>11, <1>12, <1>13
        DEF Next, Put, Remove, Advance, Failure

\* Every step preserves the invariant.
LEMMA NextDurability ==
    ASSUME CleanWrites, DurabilityInv, [Next]_vars
    PROVE  DurabilityInv'
<1>1. Inv'
    BY NextInv DEF DurabilityInv
<1>2. LogInv' /\ ServedInv'
    <2>1. ASSUME NEW k \in Key, NEW v \in Val, Put(k, v) PROVE LogInv' /\ ServedInv'
        BY <2>1, WriteDurability DEF Put, Value
    <2>2. ASSUME NEW k \in Key, Remove(k) PROVE LogInv' /\ ServedInv'
        BY <2>2, WriteDurability DEF Remove, Value
    <2>3. CASE Flush
        BY <2>3, QuietDurability
    <2>4. CASE Advance
        BY <2>4, WalSyncDurability, ApplyDurability, WalResetDurability, QuietDurability
           DEF Advance
    <2>5. CASE Failure
        BY <2>5, WalWriteFailDurability, WalSyncFailDurability, QuietDurability
           DEF Failure, CleanWrites
    <2>6. CASE Crash
        BY <2>6, CrashDurability DEF CleanWrites
    <2>7. CASE Open
        BY <2>7, OpenDurability
    <2>8. CASE UNCHANGED vars
        BY <2>8 DEF vars, call, DurabilityInv, LogInv, Logged, ServedInv
    <2> QED BY <2>1, <2>2, <2>3, <2>4, <2>5, <2>6, <2>7, <2>8 DEF Next
<1>3. NoLeftover'
    BY NextLeavesNothing DEF DurabilityInv, CleanWrites
<1> QED BY <1>1, <1>2, <1>3 DEF DurabilityInv

\* The invariant says it: what is served is in the log, and the log replays whole.
LEMMA ServedIsReplayed == DurabilityInv => LogIsDurable
<1> SUFFICES ASSUME DurabilityInv PROVE LogIsDurable
    OBVIOUS
<1>1. /\ wal \o walStale \in Seq(Frame)
      /\ Frames(wal \o walStale) = Frames(wal)
    <2>1. walStale = <<>> /\ Frames(<<>>) = {}
        BY DEF DurabilityInv, NoLeftover, Frames
    <2> QED BY <2>1, LogType, FramesOfConcat, ConcatProperties
<1>2. Frames(wal \o walStale) \subseteq Logged
    BY <1>1 DEF Logged
<1>3. Replayed(wal \o walStale) = Frames(wal \o walStale)
    BY <1>1, <1>2, ReplayedWhole DEF DurabilityInv, LogInv
<1>4. memtable \subseteq Frames(wal)
    BY DEF DurabilityInv, ServedInv
<1> QED BY <1>1, <1>3, <1>4 DEF LogIsDurable

---------------------------------------------------------------------------
(* Theorem *)

\* When no write leaves part of a record, and flush is not called while the
\* buffer holds a failed write, what the memtable serves a restart would replay,
\* after any other I/O errors, stops and restarts (wal.rs: append, sync, reset,
\* replay; lsm.rs: put, delete, flush, open).
THEOREM LogAlwaysDurable ==
    ASSUME CleanWrites
    PROVE  Spec => []LogIsDurable
<1>1. Init => DurabilityInv
    BY InitDurability
<1>2. DurabilityInv /\ [Next]_vars => DurabilityInv'
    BY NextDurability
<1>3. DurabilityInv => LogIsDurable
    BY ServedIsReplayed
<1> QED BY <1>1, <1>2, <1>3, PTL DEF Spec

=================================================================================
