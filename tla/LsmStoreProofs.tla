----------------------------- MODULE LsmStoreProofs -----------------------------
(***************************************************************************)
(* Under the conditions of Recoverable, what readers see: get and iter_all *)
(* agree, snapshots are stable, and the engine is the durable map that     *)
(* KVStore promises.                                                       *)
(***************************************************************************)
EXTENDS LsmRecencyProofs

USE DEF disk, memory, bounds

---------------------------------------------------------------------------
(* What a read returns *)

\* The records a read answers from, or would after a restart.
Seen ==
    CASE pc = "closed" -> Written \cup InSstables
      [] pc = "remove" -> files[out]
      [] OTHER -> Stored

\* The memtable before or behind sstables, as a sequence of runs.
LEMMA RunsOf ==
    ASSUME NEW ids \in Seq(Nat), NEW top \in SUBSET Record,
           \A i \in DOMAIN ids : files[ids[i]] \subseteq Record
    PROVE  LET down == <<top>> \o Contents(ids)
               up == Append(Contents(ids), top)
           IN  /\ DOMAIN down \subseteq Nat /\ DOMAIN up \subseteq Nat
               /\ down[1] = top
               /\ \A i \in DOMAIN down : i # 1 =>
                     i - 1 \in DOMAIN ids /\ down[i] = files[ids[i - 1]]
               /\ All(down) = top \cup All(Contents(ids))
               /\ All(up) = top \cup All(Contents(ids))
<1> DEFINE c == Contents(ids)
           down == <<top>> \o c
           up == Append(c, top)
           n == Len(ids)
<1>1. n \in Nat /\ DOMAIN ids = 1 .. n
    OBVIOUS
<1>2. c \in Seq(SUBSET Record) /\ Len(c) = n /\ \A i \in 1 .. n : c[i] = files[ids[i]]
    <2>1. c \in [1 .. n -> SUBSET Record]
        BY <1>1 DEF Contents
    <2> QED BY <1>1, <2>1 DEF Contents
<1> HIDE DEF c
<1>3. /\ DOMAIN down = 1 .. n + 1
      /\ down[1] = top
      /\ \A i \in 2 .. n + 1 : down[i] = c[i - 1]
    BY <1>1, <1>2
<1>4. /\ DOMAIN up = 1 .. n + 1
      /\ up[n + 1] = top
      /\ \A i \in 1 .. n : up[i] = c[i]
    BY <1>1, <1>2
<1>5. DOMAIN c = 1 .. n
    BY <1>1, <1>2
<1> HIDE DEF down, up, n
<1>6. \A i \in 1 .. n : i + 1 \in 2 .. n + 1 /\ down[i + 1] = c[i]
    BY <1>1, <1>3
<1>7. \A i \in 1 .. n + 1 : i = 1 \/ (i \in 2 .. n + 1 /\ i - 1 \in 1 .. n)
    BY <1>1
<1>8. 1 \in 1 .. n + 1 /\ n + 1 \in 1 .. n + 1 /\ 2 .. n + 1 \subseteq 1 .. n + 1
    BY <1>1
<1>9. All(down) = top \cup All(c)
    <2>1. All(down) \subseteq top \cup All(c)
        BY <1>3, <1>5, <1>7 DEF All
    <2>2. top \subseteq All(down)
        BY <1>3, <1>8 DEF All
    <2>3. All(c) \subseteq All(down)
        BY <1>3, <1>5, <1>6, <1>8 DEF All
    <2> QED BY <2>1, <2>2, <2>3
<1>10. All(up) = top \cup All(c)
    <2>1. \A i \in 1 .. n + 1 : i = n + 1 \/ i \in 1 .. n
        BY <1>1
    <2>2. 1 .. n \subseteq 1 .. n + 1
        BY <1>1
    <2>3. All(up) \subseteq top \cup All(c)
        BY <1>4, <1>5, <2>1 DEF All
    <2>4. top \subseteq All(up)
        BY <1>4, <1>8 DEF All
    <2>5. All(c) \subseteq All(up)
        BY <1>4, <1>5, <2>2 DEF All
    <2> QED BY <2>3, <2>4, <2>5
<1>11. DOMAIN down \subseteq Nat /\ DOMAIN up \subseteq Nat
    BY <1>1, <1>3, <1>4
<1>12. \A i \in DOMAIN down : i # 1 => i - 1 \in DOMAIN ids /\ down[i] = files[ids[i - 1]]
    BY <1>1, <1>2, <1>3, <1>7
<1> QED BY <1>3, <1>9, <1>10, <1>11, <1>12 DEF c, down, up

\* The runs a read goes through hold what is seen, each version once.
LEMMA LiveRuns ==
    ASSUME RecencyInv, pc # "closed"
    PROVE  /\ LiveTiers \in Seq(Nat)
           /\ Serve(LiveTiers)
           /\ memtable \cup All(Contents(LiveTiers)) = Seen
           /\ Seen \subseteq Known
           /\ pc = "remove" => memtable = {}
<1> USE DEF RecencyInv, DurabilityInv, Inv
<1>1. CASE pc = "crename"
    BY <1>1, ContentsOfAll, KnownParts DEF LiveTiers, Seen, Stored, TiersComplete, TypeOK
<1>2. CASE pc = "remove"
    <2>1. LiveTiers = <<out>> /\ out \in DOMAIN files /\ out \in Nat
        BY <1>2 DEF LiveTiers, OutputInvariant, TypeOK
    <2>2. Serve(LiveTiers)
        BY <2>1 DEF Serve, NewestFirst
    <2>3. All(Contents(LiveTiers)) = files[out]
        BY <2>1 DEF All, Contents
    <2>4. memtable = {}
        BY <1>2 DEF OrderInv, ReachInv, Compacting
    <2> QED BY <1>2, <2>1, <2>2, <2>3, <2>4, KnownParts DEF Seen
<1>3. CASE pc \notin {"crename", "remove"}
    BY <1>3, ContentsOfAll, KnownParts DEF LiveTiers, Seen, Stored, TiersComplete, TypeOK
<1> QED BY <1>1, <1>2, <1>3

\* One record per version in what is seen.
LEMMA SeenOnce ==
    ASSUME RecencyInv
    PROVE  /\ Seen \subseteq Record
           /\ OnePerVersion(Seen)
           /\ Seen \subseteq Known
<1>1. Seen \subseteq Known
    BY KnownParts, LiveRuns DEF Seen
<1>2. Seen \subseteq Record
    BY <1>1, KnownRecords DEF RecencyInv
<1> QED BY <1>1, <1>2 DEF OnePerVersion, SameVersion, RecencyInv, OrderInv, SeqInv

\* While the engine is open, get reads what is seen.
LEMMA GetReadsSeen ==
    ASSUME RecencyInv, pc # "closed", NEW k, NEW s \in Int
    PROVE  GetAt(k, s) = AsPut(ReadAt(Seen, k, s))
<1> DEFINE ids == LiveTiers
           runs == <<memtable>> \o Contents(ids)
<1>1. /\ ids \in Seq(Nat) /\ Serve(ids) /\ memtable \cup All(Contents(ids)) = Seen
      /\ pc = "remove" => memtable = {}
    BY LiveRuns
<1>2. /\ memtable \in SUBSET Record
      /\ \A id \in DOMAIN files : files[id] \subseteq Record
      /\ DOMAIN files \subseteq Int
    BY DEF RecencyInv, DurabilityInv, Inv, TypeOK
<1> HIDE DEF ids
<1>3. /\ DOMAIN runs \subseteq Nat /\ runs[1] = memtable
      /\ \A i \in DOMAIN runs : i # 1 => i - 1 \in DOMAIN ids /\ runs[i] = files[ids[i - 1]]
      /\ All(runs) = Seen
    BY <1>1, <1>2, RunsOf DEF Serve
<1> HIDE DEF runs
<1>4. NewerFirst(runs)
    <2> SUFFICES ASSUME NEW i \in DOMAIN runs, NEW j \in DOMAIN runs, i < j
                 PROVE  Shadows(runs[i], runs[j])
        BY DEF NewerFirst
    <2>1. i \in Nat /\ j \in Nat
        BY <1>3
    <2>2. ids \in Seq(Nat)
        BY <1>1
    <2>3. j # 1 /\ j - 1 \in DOMAIN ids /\ runs[j] = files[ids[j - 1]]
        <3>1. CASE j = 1
            <4>1. i # 1 /\ i - 1 \in DOMAIN ids
                BY <1>3, <2>1, <3>1
            <4>2. i = 0
                BY <2>1, <3>1
            <4> QED BY <2>2, <4>1, <4>2
        <3> QED BY <1>3, <3>1
    <2>4. ids[j - 1] \in DOMAIN files
        BY <1>1, <2>3 DEF Serve
    <2>5. CASE i = 1
        BY <1>3, <2>3, <2>4, <2>5 DEF RecencyInv, OrderInv, AgeInv
    <2>6. CASE i # 1
        <3>1. i - 1 \in DOMAIN ids /\ runs[i] = files[ids[i - 1]] /\ ids[i - 1] \in DOMAIN files
            BY <1>1, <1>3, <2>6 DEF Serve
        <3>2. ids[i - 1] > ids[j - 1]
            <4>1. i - 1 < j - 1
                BY <2>1
            <4> QED BY <1>1, <2>3, <3>1, <4>1 DEF Serve, NewestFirst
        <3>3. ids[j - 1] < ids[i - 1]
            BY <1>2, <2>4, <3>1, <3>2
        <3> QED BY <2>3, <2>4, <3>1, <3>3 DEF RecencyInv, OrderInv, AgeInv
    <2> QED BY <2>5, <2>6
<1>5. FirstHit(runs, k, s) = ReadAt(Seen, k, s)
    BY <1>3, <1>4, SeenOnce, FirstHitReadsAll
<1> QED BY <1>5 DEF GetAt, runs, ids

\* A restart would serve what the directory shows, the log first.
LEMMA RecoveredReadsSeen ==
    ASSUME RecencyInv, pc = "closed", NEW k, NEW s \in Int
    PROVE  Recovered(k, s) = AsPut(ReadAt(Seen, k, s))
<1> DEFINE log == Replayed(wal \o walStale)
           hits == {id \in DOMAIN files : Versions(files[id], k, s) # {}}
           top == CHOOSE i \in hits : \A j \in hits : j <= i
<1>0. /\ DurabilityInv /\ AgeInv
      /\ Seen = Written \cup InSstables
      /\ Seen \in SUBSET Record /\ OnePerVersion(Seen)
    BY SeenOnce DEF RecencyInv, OrderInv, Seen
<1>1. log = Written
    <2>1. wal \o walStale \in Seq(Frame) /\ Frames(wal \o walStale) = Written
        <3>1. walStale = <<>> /\ Frames(<<>>) = {}
            BY <1>0 DEF DurabilityInv, NoLeftover, Frames
        <3> QED BY <1>0, <3>1, LogType, FramesOfConcat, ConcatProperties DEF Written
    <2>2. Written \subseteq Record /\ \A r, x \in Written : r.seq = x.seq => r = x
        BY <1>0, KnownParts DEF DurabilityInv, LogInv
    <2> QED BY <2>1, <2>2, ReplayedWhole
<1>2. CASE Versions(Written, k, s) # {}
    <2>1. Shadows(Written, Versions(Seen, k, s))
        BY <1>0 DEF Shadows, Versions, AgeInv, InSstables
    <2>2. ReadAt(Written, k, s) = ReadAt(Seen, k, s)
        BY <1>0, <1>2, <2>1, ShadowingRead
    <2> QED BY <1>1, <1>2, <2>2 DEF Recovered
<1>3. CASE Versions(Written, k, s) = {} /\ hits = {}
    <2>1. Versions(Seen, k, s) = {}
        BY <1>0, <1>3 DEF Versions, InSstables
    <2>2. ReadAt(Seen, k, s) = None /\ AsPut(None) = None
        BY <2>1, MVCCAssumption DEF ReadAt, AsPut
    <2> QED BY <1>1, <1>3, <2>2 DEF Recovered
<1>4. CASE Versions(Written, k, s) = {} /\ hits # {}
    <2>1. top \in hits /\ \A j \in hits : j <= top
        <3>1. hits \in SUBSET Nat /\ IsFiniteSet(hits)
            <4>1. DOMAIN files \subseteq Nat /\ IsFiniteSet(DOMAIN files)
                BY <1>0 DEF DurabilityInv, Inv, TypeOK
            <4> QED BY <4>1, FS_Subset
        <3>2. \E m \in hits : \A x \in hits : x <= m
            <4> HIDE DEF hits
            <4> QED BY <1>4, <3>1, GreatestOfFinite
        <3> HIDE DEF hits
        <3> QED BY <3>2
    <2> HIDE DEF top
    <2>2. /\ top \in DOMAIN files /\ Versions(files[top], k, s) # {}
          /\ files[top] \subseteq Seen
        BY <1>0, <2>1, KnownParts
    <2>3. Shadows(files[top], Versions(Seen, k, s))
        <3> SUFFICES ASSUME NEW r \in files[top], NEW x \in Versions(Seen, k, s),
                            r.key = x.key, r.seq <= x.seq
                     PROVE  x \in files[top]
            BY DEF Shadows
        <3>1. PICK j \in DOMAIN files : x \in files[j]
            BY <1>0, <1>4 DEF Versions, InSstables
        <3>2. j \in hits /\ j <= top
            <4>1. j \in hits
                BY <3>1 DEF Versions
            <4> QED BY <2>1, <4>1
        <3>3. j = top \/ j < top
            <4>1. j \in Int /\ top \in Int
                BY <1>0, <2>2 DEF DurabilityInv, Inv, TypeOK
            <4> QED BY <3>2, <4>1
        <3> QED BY <1>0, <2>2, <3>1, <3>3 DEF AgeInv, Shadows
    <2>4. ReadAt(files[top], k, s) = ReadAt(Seen, k, s)
        <3> HIDE DEF hits
        <3> QED BY <1>0, <2>2, <2>3, ShadowingRead
    <2> QED BY <1>1, <1>4, <2>4 DEF Recovered, top
<1> QED BY <1>2, <1>3, <1>4

ViewIsSeen == \A k \in Key, s \in 0 .. SeqMax : View(k, s) = AsPut(ReadAt(Seen, k, s))

\* Open or closed, what a read returns is the newest version that is seen.
LEMMA ViewReadsSeen ==
    RecencyInv => ViewIsSeen
<1> SUFFICES ASSUME RecencyInv, NEW k \in Key, NEW s \in 0 .. SeqMax
             PROVE  View(k, s) = AsPut(ReadAt(Seen, k, s))
    BY DEF ViewIsSeen
<1>1. s \in Int
    OBVIOUS
<1> QED BY <1>1, GetReadsSeen, RecoveredReadsSeen DEF View

\* So it is after a step.
LEMMA ViewReadsSeenNext ==
    RecencyInv' => ViewIsSeen'
<1>1. RecencyInv => ViewIsSeen
    BY ViewReadsSeen
<1> QED BY <1>1, PTL

\* get and iter_all agree between calls, however the versions of a key are spread
\* over runs (lsm.rs: get_at, iter_all).
THEOREM ReadPathsAgree ==
    ASSUME Recoverable
    PROVE  Spec => []IterAllAgrees
<1>1. RecencyInv => IterAllAgrees
    <2> SUFFICES ASSUME RecencyInv, pc = "idle", NEW k \in Key
                 PROVE  IterAll[k] = GetAt(k, SeqMax)
        BY DEF IterAllAgrees
    <2> DEFINE ids == LiveTiers
               runs == Append(Contents(ids), memtable)
    <2>1. /\ ids \in Seq(Nat) /\ Serve(ids) /\ memtable \cup All(Contents(ids)) = Seen
        BY LiveRuns
    <2>2. /\ memtable \in SUBSET Record
          /\ \A id \in DOMAIN files : files[id] \subseteq Record
        BY DEF RecencyInv, DurabilityInv, Inv, TypeOK
    <2> HIDE DEF ids
    <2>3. DOMAIN runs \subseteq Nat /\ All(runs) = Seen
        BY <2>1, <2>2, RunsOf DEF Serve
    <2> HIDE DEF runs
    <2>4. Scan(runs)[k] = AsPut(ReadAt(Seen, k, SeqMax))
        BY <2>3, SeenOnce, ScanReadsAll
    <2>5. GetAt(k, SeqMax) = AsPut(ReadAt(Seen, k, SeqMax))
        BY GetReadsSeen, MVCCAssumption
    <2> QED BY <2>4, <2>5 DEF IterAll, runs, ids
<1> QED BY <1>1, RecencyInvariance, PTL

---------------------------------------------------------------------------
(* What a step changes of it *)

\* The steps that change what is seen, or may: a record takes effect, a merge
\* drops what is shadowed, and a stop brings back what the log holds.
ChangesSeen == Apply \/ CompactRename \/ Crash

\* Every other step shows readers the same records.
LEMMA SameSeen ==
    ASSUME Recoverable, RecencyInv, RecencyInv', [Next]_vars, ~ChangesSeen
    PROVE  Seen' = Seen
<1> USE DEF RecencyInv
<1>1. CASE UNCHANGED <<files, memtable, out>> /\ pc \notin {"closed", "remove"}
           /\ pc' \notin {"closed", "remove"}
    BY <1>1 DEF Seen, Stored, InSstables
<1>2. CASE \E k \in Key : (\E v \in Val : Put(k, v)) \/ Remove(k)
    BY <1>1, <1>2 DEF Put, Remove, Write
<1>3. CASE Flush
    BY <1>1, <1>3 DEF Flush
<1>4. CASE WalSync \/ WalReset
    BY <1>1, <1>4 DEF WalSync, WalReset
<1>5. CASE UNCHANGED <<files, memtable>> /\ pc \notin {"closed", "remove"}
           /\ pc' \notin {"closed", "remove"}
    BY <1>5 DEF Seen, Stored, InSstables
<1>6. CASE Return
    BY <1>5, <1>6 DEF Return, EndCall
<1>7. CASE FlushWrite \/ CompactMerge
    BY <1>5, <1>7 DEF FlushWrite, CompactMerge
<1>8. CASE WalWriteFail \/ WalSyncFail \/ FlushWriteFail \/ FlushRenameFail \/ WalResetFail
    BY <1>5, <1>8 DEF WalWriteFail, WalSyncFail, FlushWriteFail, FlushRenameFail,
       WalResetFail, Fail, EndCall
<1>9. CASE CompactMergeFail \/ CompactRenameFail \/ CompactRemoveFail
    BY <1>9 DEF CompactMergeFail, CompactRenameFail, CompactRemoveFail, Fail, Recoverable
<1>10. CASE FlushRename
    <2>1. /\ files' = With(out, memtable) /\ memtable' = {}
          /\ pc = "rename" /\ pc' = "reset"
          /\ \A id \in DOMAIN files : id < out
        BY <1>10 DEF FlushRename, DurabilityInv, Inv, OutputInvariant
    <2>2. out \in Int /\ \A id \in DOMAIN files : id # out
        <3>1. out \in Int
            BY DEF DurabilityInv, Inv, TypeOK
        <3> QED BY <2>1, <3>1
    <2>3. InSstables' = Stored
        BY <2>1, <2>2 DEF With, InSstables, Stored
    <2> QED BY <2>1, <2>3 DEF Seen, Stored
<1>11. CASE CompactRemove
    <2>1. /\ files' = Without(Head(inputs)) /\ inputs # <<>>
          /\ out' = out /\ pc = "remove" /\ pc' = "remove"
        BY <1>11 DEF CompactRemove
    <2>2. out \in DOMAIN files /\ Head(inputs) # out
        <3>1. 1 \in DOMAIN inputs /\ Head(inputs) = inputs[1] /\ inputs[1] \in Int /\ out \in Int
            <4>1. inputs \in Seq(Nat) /\ out \in Nat
                BY DEF DurabilityInv, Inv, TypeOK
            <4> QED BY <2>1, <4>1
        <3>2. out \in DOMAIN files /\ inputs[1] < out
            BY <2>1, <3>1 DEF DurabilityInv, Inv, OutputInvariant
        <3> QED BY <3>1, <3>2
    <2> QED BY <2>1, <2>2 DEF Without, Seen
<1>12. CASE CompactDone
    <2>1. /\ files' = files /\ memtable' = memtable /\ inputs = <<>> /\ pc = "remove"
          /\ pc' = "return" /\ memtable = {}
        BY <1>12 DEF CompactDone, OrderInv, ReachInv, Compacting
    <2>2. DOMAIN files = {out}
        <3>1. out \in DOMAIN files /\ DOMAIN inputs = {}
            BY <2>1 DEF DurabilityInv, Inv, OutputInvariant
        <3> QED BY <2>1, <3>1 DEF TiersComplete
    <2>3. Stored' = files[out]
        BY <2>1, <2>2 DEF Stored, InSstables
    <2> QED BY <2>1, <2>3 DEF Seen
<1>13. CASE Open
    <2>1. files' = files /\ pc = "closed" /\ pc' = "idle" /\ memtable' = Written
        BY <1>13, OpenReplays DEF Open
    <2> QED BY <2>1 DEF Seen, Stored, InSstables
<1>14. CASE UNCHANGED vars
    <2>1. UNCHANGED <<Written, Stored, InSstables>>
        BY <1>14 DEF vars, call, Written, Stored, InSstables
    <2> QED BY <1>14, <2>1 DEF vars, call, Seen
<1> QED BY <1>2, <1>3, <1>4, <1>6, <1>7, <1>8, <1>9, <1>10, <1>11, <1>12, <1>13, <1>14
        DEF Next, Advance, Failure, ChangesSeen

\* A record takes effect above everything seen.
LEMMA ApplySeen ==
    ASSUME RecencyInv, Apply
    PROVE  /\ Seen' = Seen \cup {op} /\ op \in Record
           /\ \A r \in Seen : r.seq < op.seq
<1>1. /\ pc = "apply" /\ pc' \in {"flush", "return"} /\ files' = files
      /\ memtable' = Insert(memtable, op)
      /\ \A r \in Stored : r.seq < op.seq
      /\ op \in Record
    BY DEF Apply, RecencyInv, OrderInv, SeqInv, DurabilityInv, Inv, PhaseInvariant
<1>2. Seen = Stored
    BY <1>1 DEF Seen
<1>3. memtable' = memtable \cup {op}
    <2>1. \A x \in memtable : x.seq \in Int /\ x.seq < op.seq
        BY <1>1, KnownRecords, KnownParts DEF RecencyInv
    <2> QED BY <1>1, <2>1 DEF Insert, SameVersion
<1>4. Seen' = Seen \cup {op}
    BY <1>1, <1>2, <1>3 DEF Seen, Stored, InSstables
<1> QED BY <1>1, <1>2, <1>4

\* A merge keeps what current reads return.
LEMMA CompactRenameSeen ==
    ASSUME RecencyInv, CompactRename
    PROVE  /\ \A k : AsPut(ReadAt(Seen', k, SeqMax)) = AsPut(ReadAt(Seen, k, SeqMax))
           /\ Seen' \subseteq Seen
           /\ \A r \in Seen : r.seq < nextSeq
<1> DEFINE merged == Merge(Contents(inputs), TRUE)
<1>1. /\ pc = "crename" /\ pc' = "remove"
      /\ files' = With(out, merged) /\ out' = out
      /\ memtable = {}
      /\ \A r \in Stored : r.seq < nextSeq
    BY DEF CompactRename, RecencyInv, OrderInv, SeqInv, ReachInv, Compacting
<1> HIDE DEF merged
<1>2. Seen' = merged
    BY <1>1 DEF Seen, With
<1>3. Seen = InSstables /\ Seen = Stored
    BY <1>1 DEF Seen, Stored
<1>4. /\ DOMAIN Contents(inputs) \subseteq Nat
      /\ All(Contents(inputs)) = InSstables
      /\ InSstables \subseteq Record
      /\ OnePerVersion(InSstables)
      /\ merged \subseteq InSstables
    BY <1>1, InputsAreAll DEF RecencyInv, OrderInv, merged
<1>5. ASSUME NEW k PROVE AsPut(ReadAt(merged, k, SeqMax)) = AsPut(ReadAt(InSstables, k, SeqMax))
    BY <1>4, MergeReadsAll DEF merged
<1> QED BY <1>1, <1>2, <1>3, <1>4, <1>5

\* A restart after a stop sees what was seen, and of the log what was not.
LEMMA CrashSeen ==
    ASSUME Recoverable, RecencyInv, Crash
    PROVE  /\ Seen = Stored
           /\ Seen \subseteq Seen'
           /\ Seen' \subseteq Seen \cup Logged
<1>1. PICK frames : LogGrows(frames)
    BY LogSteps DEF Recoverable, CleanWrites, RecencyInv
<1>2. /\ files' = files /\ pc' = "closed" /\ pc \notin {"closed", "remove"}
    BY DEF Crash, Recoverable
<1>3. memtable \subseteq Frames(wal)
    BY DEF RecencyInv, DurabilityInv, ServedInv
<1>4. Seen' = Written' \cup InSstables
    BY <1>2 DEF Seen, InSstables
<1>5. Written' \subseteq Logged /\ Frames(wal) \subseteq Written'
    BY <1>1 DEF LogGrows, Written, Logged
<1>6. Seen = Stored
    BY <1>2 DEF Seen
<1> QED BY <1>3, <1>4, <1>5, <1>6 DEF Stored

---------------------------------------------------------------------------
(* Failed writes *)

\* A record of the log that is newer than what is served of its key belongs to
\* the write in progress, or to one that failed since the last that took effect.
SettledInv ==
    /\ pc # "closed" => \A r \in Logged :
          \/ \E x \in Stored : x.key = r.key /\ r.seq <= x.seq
          \/ AsPut(r.val) \in doubt[r.key]
          \/ pc \in {"sync", "apply"} /\ r = op
    /\ fails = 0 /\ pc # "closed" => \A r \in Logged :
          r \in Stored \/ (pc \in {"sync", "apply"} /\ r = op)
    /\ pc \in {"idle", "closed"} => op = None
    /\ pc = "closed" => doubt = NoDoubt

StoreInv == RecencyInv /\ SettledInv

\* Steps that keep what is served, and of the log at most what it held.
LEMMA SettledStays ==
    ASSUME SettledInv, Logged' \subseteq Logged, Stored' = Stored,
           pc \notin {"closed", "sync", "apply"}, pc' \notin {"closed", "sync", "apply"},
           pc' = "idle" => op' = None, UNCHANGED doubt, fails' \in {fails, fails + 1},
           fails \in Nat
    PROVE  SettledInv'
<1>1. fails' = 0 => fails = 0
    OBVIOUS
<1> QED BY <1>1 DEF SettledInv

\* A write fails before its record is served.
LEMMA SettledWriteFails ==
    ASSUME StoreInv, Logged' \subseteq Logged, Stored' = Stored,
           pc = "sync", Fail("write") \/ Fail("sync"), doubt' = Unsettled
    PROVE  SettledInv'
<1>1. /\ pc' = "idle" /\ op' = None /\ fails' # 0
      /\ op \in Record /\ doubt \in [Key -> SUBSET (Val \cup {None})]
      /\ Logged \subseteq Record
    BY DEF Fail, EndCall, StoreInv, RecencyInv, DurabilityInv, LogInv, Inv, PhaseInvariant,
       TypeOK
<1>2. ASSUME NEW r \in Logged'
      PROVE  \/ \E x \in Stored : x.key = r.key /\ r.seq <= x.seq
             \/ AsPut(r.val) \in doubt'[r.key]
    <2>1. op.key \in Key /\ r.key \in Key
        BY <1>1 DEF Record
    <2>2. /\ doubt[r.key] \subseteq doubt'[r.key]
          /\ AsPut(op.val) \in doubt'[op.key]
        BY <1>1, <2>1 DEF Unsettled
    <2> QED BY <2>2 DEF StoreInv, SettledInv
<1> QED BY <1>1, <1>2 DEF SettledInv

\* Every step preserves it.
LEMMA NextSettled ==
    ASSUME Recoverable, StoreInv, RecencyInv', [Next]_vars
    PROVE  SettledInv'
<1> USE DEF StoreInv
<1>0. /\ fails \in Nat /\ ~TornWrites
      /\ DurabilityInv
    <2>1. DurabilityInv /\ TypeOK
        BY DEF RecencyInv, DurabilityInv, Inv
    <2>2. fails \in Nat
        BY <2>1, LsmAssumption DEF TypeOK
    <2> QED BY <2>1, <2>2 DEF Recoverable, CleanWrites
<1>1. ASSUME NEW k \in Key, (\E v \in Val : Put(k, v)) \/ Remove(k) PROVE SettledInv'
    <2>1. PICK v : Write(k, v)
        BY <1>1 DEF Put, Remove
    <2>2. /\ UNCHANGED <<wal, files, memtable, doubt, fails>>
          /\ walBuf' = Append(walBuf, op')
          /\ pc = "idle" /\ pc' = "sync"
        BY <2>1 DEF Write
    <2>3. Logged' \subseteq Logged \cup {op'} /\ Stored' = Stored
        <3>1. walBuf \in Seq(Record)
            BY <1>0, LogType
        <3>2. \A i \in DOMAIN Append(walBuf, op') :
                 Append(walBuf, op')[i] \in {op'} \cup {walBuf[j] : j \in DOMAIN walBuf}
            BY <3>1
        <3> QED BY <2>2, <3>2 DEF Frames, Logged, Stored, InSstables
    <2> QED BY <2>2, <2>3 DEF SettledInv
<1>2. CASE WalSync
    <2>1. Logged' \subseteq Logged
        BY <1>0, <1>2, BufferWritten DEF WalSync
    <2>2. /\ UNCHANGED <<files, memtable, op, doubt, fails>> /\ pc = "sync" /\ pc' = "apply"
        BY <1>2 DEF WalSync
    <2>3. Stored' = Stored
        BY <2>2 DEF Stored, InSstables
    <2> QED BY <2>1, <2>2, <2>3 DEF SettledInv
<1>3. CASE WalWriteFail \/ WalSyncFail
    <2>1. PICK frames : LogGrows(frames)
        BY <1>0, <1>3, LogSteps
    <2>2. Logged' \subseteq Logged
        BY <2>1 DEF LogGrows, Logged
    <2>3. /\ UNCHANGED <<files, memtable>> /\ pc = "sync" /\ doubt' = Unsettled
          /\ Fail("write") \/ Fail("sync")
        BY <1>3 DEF WalWriteFail, WalSyncFail
    <2>4. Stored' = Stored
        BY <2>3 DEF Stored, InSstables
    <2> QED BY <2>2, <2>3, <2>4, SettledWriteFails
<1>4. CASE Apply
    <2>1. /\ UNCHANGED <<wal, walBuf, files, op, fails>>
          /\ pc = "apply" /\ pc' \in {"flush", "return"}
          /\ doubt' = [doubt EXCEPT ![op.key] = {}]
          /\ op.seq = nextSeq - 1
        BY <1>4 DEF Apply, RecencyInv, OrderInv, SeqInv
    <2>2. /\ Logged' = Logged
          /\ Stored' = Stored \cup {op}
        <3>1. Seen' = Seen \cup {op}
            BY <1>4, ApplySeen
        <3> QED BY <2>1, <3>1 DEF Seen, Logged
    <2>3. ASSUME NEW r \in Logged, r.key = op.key PROVE r.seq <= op.seq
        <3>1. r.seq \in Int /\ nextSeq \in Int /\ r.seq < nextSeq
            BY <1>0, <2>1, KnownRecords, KnownParts DEF DurabilityInv, LogInv
        <3> QED BY <2>1, <3>1
    <2>4. \A r \in Logged : r.key # op.key => doubt'[r.key] = doubt[r.key]
        <3>1. doubt \in [Key -> SUBSET (Val \cup {None})]
            BY <1>0 DEF DurabilityInv, Inv, TypeOK
        <3>2. \A r \in Logged : r.key \in Key
            BY <1>0 DEF DurabilityInv, LogInv, Record
        <3> QED BY <2>1, <3>1, <3>2
    <2>5. ASSUME NEW r \in Logged'
          PROVE  \/ \E x \in Stored' : x.key = r.key /\ r.seq <= x.seq
                 \/ AsPut(r.val) \in doubt'[r.key]
        <3>1. CASE r.key = op.key
            BY <2>2, <2>3, <3>1
        <3>2. CASE r.key # op.key
            <4>1. doubt'[r.key] = doubt[r.key] /\ Stored \subseteq Stored' /\ r \in Logged
                BY <2>2, <2>4, <3>2
            <4>2. \/ \E x \in Stored : x.key = r.key /\ r.seq <= x.seq
                  \/ AsPut(r.val) \in doubt[r.key]
                BY <2>1, <3>2, <4>1 DEF SettledInv
            <4> HIDE <2>1
            <4> QED BY <4>1, <4>2
        <3> QED BY <3>1, <3>2
    <2> QED BY <2>1, <2>2, <2>5 DEF SettledInv
<1>5. CASE Return \/ Flush
    <2>1. /\ UNCHANGED <<wal, walBuf, files, memtable, doubt, fails>>
          /\ pc \in {"return", "idle"} /\ pc' \in {"idle", "flush"}
          /\ pc' = "idle" => op' = None
        BY <1>5 DEF Return, Flush, EndCall
    <2>2. Logged' = Logged /\ Stored' = Stored
        BY <2>1 DEF Logged, Stored, InSstables
    <2> QED BY <1>0, <2>1, <2>2, SettledStays
<1>6. CASE FlushWrite \/ FlushWriteFail \/ FlushRenameFail \/ WalResetFail \/ CompactMerge
           \/ CompactDone
    <2>1. /\ UNCHANGED <<wal, walBuf, files, memtable, doubt>>
          /\ pc \notin {"closed", "sync", "apply"} /\ pc' \notin {"closed", "sync", "apply"}
          /\ pc' = "idle" => op' = None
          /\ fails' \in {fails, fails + 1}
        BY <1>6 DEF FlushWrite, FlushWriteFail, FlushRenameFail, WalResetFail, CompactMerge,
           CompactDone, Fail, EndCall
    <2>2. Logged' = Logged /\ Stored' = Stored
        BY <2>1 DEF Logged, Stored, InSstables
    <2> QED BY <1>0, <2>1, <2>2, SettledStays
<1>7. CASE FlushRename
    <2>1. /\ UNCHANGED <<wal, walBuf, doubt, fails>>
          /\ pc = "rename" /\ pc' = "reset"
        BY <1>7 DEF FlushRename
    <2>2. Logged' = Logged
        BY <2>1 DEF Logged
    <2>3. Stored' = Stored
        <3>1. Seen' = Seen
            BY <1>7, <2>1, SameSeen DEF ChangesSeen, Apply, CompactRename, Crash, FlushRename
        <3> QED BY <2>1, <3>1 DEF Seen
    <2> QED BY <1>0, <2>1, <2>2, <2>3, SettledStays
<1>8. CASE WalReset
    <2>1. /\ wal' = <<>> /\ walBuf' = <<>>
          /\ UNCHANGED <<files, memtable, doubt, fails>>
          /\ pc = "reset" /\ pc' \in {"compact", "return"}
        BY <1>0, <1>8 DEF WalReset
    <2>2. Logged' \subseteq Logged /\ Stored' = Stored
        BY <2>1 DEF Logged, Frames, Stored, InSstables
    <2> QED BY <1>0, <2>1, <2>2, SettledStays
<1>9. CASE CompactRename \/ CompactRemove
    <2>1. /\ UNCHANGED <<wal, walBuf, memtable, doubt, fails>>
          /\ pc \in {"crename", "remove"} /\ pc' = "remove"
        BY <1>9 DEF CompactRename, CompactRemove
    <2>2. /\ Logged' = Logged
          /\ memtable = {} /\ \A r \in Logged, x \in InSstables : x.seq < r.seq
        BY <2>1 DEF Logged, RecencyInv, OrderInv, ReachInv, Compacting
    <2>3. \A r \in Logged, x \in Stored : r.seq \in Int /\ x.seq \in Int /\ x.seq < r.seq
        BY <1>0, <2>2, KnownRecords, KnownParts DEF Stored
    <2>4. \A r \in Logged : AsPut(r.val) \in doubt[r.key] /\ fails # 0
        BY <2>1, <2>3 DEF SettledInv
    <2> QED BY <2>1, <2>2, <2>4 DEF SettledInv
<1>10. CASE CompactMergeFail \/ CompactRenameFail \/ CompactRemoveFail
    BY <1>10 DEF CompactMergeFail, CompactRenameFail, CompactRemoveFail, Fail, Recoverable
<1>11. CASE Crash
    BY <1>11 DEF Crash, SettledInv
<1>12. CASE Open
    <2>1. /\ pc = "closed" /\ pc' = "idle" /\ UNCHANGED op
          /\ memtable' = Logged' /\ Logged' \subseteq Logged
        BY <1>0, <1>12, OpenReplays, KnownParts DEF Open
    <2>2. \A r \in Logged' : r \in Stored' /\ r.seq <= r.seq
        BY <1>0, <2>1, KnownRecords, KnownParts DEF Stored
    <2> QED BY <2>1, <2>2 DEF SettledInv
<1>13. CASE UNCHANGED vars
    <2>1. UNCHANGED <<Logged, Stored>>
        BY <1>13 DEF vars, call, Logged, Stored, InSstables
    <2> QED BY <1>13, <2>1 DEF vars, call, SettledInv
<1> QED BY <1>1, <1>2, <1>3, <1>4, <1>5, <1>6, <1>7, <1>8, <1>9, <1>10, <1>11, <1>12, <1>13
        DEF Next, Advance, Failure

\* The invariant holds throughout.
LEMMA StoreInvariance ==
    ASSUME Recoverable
    PROVE  Spec => []StoreInv
<1>1. Init => StoreInv
    <2>1. Init => pc = "closed" /\ op = None /\ doubt = NoDoubt
        BY DEF Init
    <2> QED BY <2>1, InitRecency DEF StoreInv, SettledInv
<1>2. StoreInv /\ [Next]_vars => StoreInv'
    BY NextRecency, NextSettled DEF StoreInv
<1> QED BY <1>1, <1>2, PTL DEF Spec

---------------------------------------------------------------------------
(* Snapshots *)

\* Reads agree where the versions seen do.
LEMMA SameReads ==
    ASSUME RecencyInv, RecencyInv', NEW k \in Key, NEW s \in 0 .. SeqMax,
           AsPut(ReadAt(Seen', k, s)) = AsPut(ReadAt(Seen, k, s))
    PROVE  View(k, s)' = View(k, s)
<1>1. View(k, s) = AsPut(ReadAt(Seen, k, s))
    BY ViewReadsSeen DEF ViewIsSeen
<1>2. View(k, s)' = AsPut(ReadAt(Seen', k, s))
    BY ViewReadsSeenNext DEF ViewIsSeen
<1> QED BY <1>1, <1>2

\* No step changes a read that is pinned below what it writes.
LEMMA SnapshotStep ==
    ASSUME Recoverable, StoreInv, StoreInv', [Next]_vars, NEW k \in Key, NEW s \in SeqNum,
           pc # "closed", horizon' <= s, s <= CurrentSnapshot, pc' = "closed" => fails = 0
    PROVE  View(k, s)' = View(k, s)
<1>1. /\ RecencyInv /\ RecencyInv' /\ SettledInv /\ DurabilityInv
      /\ s \in 0 .. SeqMax /\ s \in Int
      /\ \A r \in Known : r.seq \in Int
      /\ nextSeq \in Int
    BY KnownRecords DEF StoreInv, RecencyInv, SeqNum
<1>2. ASSUME Versions(Seen', k, s) = Versions(Seen, k, s) PROVE View(k, s)' = View(k, s)
    BY <1>1, <1>2, SameReads, SameVersionsSameRead
<1>3. op \in Record => ~ (op.seq <= s)
    <2> SUFFICES ASSUME op \in Record PROVE ~ (op.seq <= s)
        OBVIOUS
    <2>1. op # None /\ op.seq \in Int
        BY LsmAssumption DEF Record, SeqNum
    <2> QED BY <1>1, <2>1 DEF CurrentSnapshot
<1>4. CASE ~ChangesSeen
    BY <1>1, <1>2, <1>4, SameSeen
<1>5. CASE Apply
    BY <1>1, <1>2, <1>3, <1>5, ApplySeen DEF Versions
<1>6. CASE CompactRename
    <2>1. /\ \A c : AsPut(ReadAt(Seen', c, SeqMax)) = AsPut(ReadAt(Seen, c, SeqMax))
          /\ Seen' \subseteq Seen
          /\ \A r \in Seen : r.seq < nextSeq
          /\ Seen \subseteq Record
        BY <1>1, <1>6, CompactRenameSeen, SeenOnce
    <2>2. nextSeq - 1 <= s
        BY <1>6 DEF CompactRename
    <2>3. \A r \in Seen : r.seq <= s /\ r.seq <= SeqMax
        BY <1>1, <2>1, <2>2, MVCCAssumption DEF Record, SeqNum
    <2>4. /\ Versions(Seen, k, s) = Versions(Seen, k, SeqMax)
          /\ Versions(Seen', k, s) = Versions(Seen', k, SeqMax)
        BY <2>1, <2>3 DEF Versions
    <2>5. AsPut(ReadAt(Seen', k, s)) = AsPut(ReadAt(Seen, k, s))
        <3>1. ReadAt(Seen', k, s) = ReadAt(Seen', k, SeqMax)
            BY <2>4 DEF ReadAt
        <3>2. ReadAt(Seen, k, s) = ReadAt(Seen, k, SeqMax)
            BY <2>4 DEF ReadAt
        <3>3. AsPut(ReadAt(Seen', k, SeqMax)) = AsPut(ReadAt(Seen, k, SeqMax))
            BY <2>1
        <3> QED BY <3>1, <3>2, <3>3
    <2> QED BY <1>1, <2>5, SameReads
<1>7. CASE Crash
    <2>1. Seen = Stored /\ Seen \subseteq Seen' /\ Seen' \subseteq Seen \cup Logged
        BY <1>1, <1>7, CrashSeen
    <2>2. fails = 0
        BY <1>7 DEF Crash
    <2>3. \A r \in Logged : r \in Record /\ (r \in Stored \/ r = op)
        BY <1>1, <2>2 DEF SettledInv, DurabilityInv, LogInv
    <2>4. \A r \in Logged : r \in Stored \/ ~ (r.seq <= s)
        BY <1>3, <2>3
    <2> QED BY <1>2, <2>1, <2>4 DEF Versions
<1> QED BY <1>4, <1>5, <1>6, <1>7 DEF ChangesSeen

\* A read pinned at a seq the caller has seen returns the same at every later
\* moment, a restart included when no write has failed, until a compaction drops
\* what it reads (lib.rs: "reads pin a seq to get snapshot isolation").
THEOREM SnapshotsStable ==
    ASSUME Recoverable
    PROVE  Spec => SnapshotStable
<1>1. StoreInv /\ StoreInv' /\ [Next]_vars =>
        [\A k \in Key, s \in SeqNum :
          /\ pc # "closed"
          /\ horizon' <= s /\ s <= CurrentSnapshot
          /\ pc' = "closed" => fails = 0
          => View(k, s)' = View(k, s)]_vars
    BY SnapshotStep
<1> QED BY <1>1, StoreInvariance, PTL DEF Spec, SnapshotStable

---------------------------------------------------------------------------
(* The map of KVStore *)

\* The map that Store substitutes, and the other variables.
StoreMap == [k \in Key |-> View(k, SeqMax)]
StoreReq == IF op = None THEN None ELSE [key |-> op.key, val |-> op.val]
StoreDone == op # None /\ pc \notin {"sync", "apply"}

\* Its values are what current reads see.
LEMMA StoreMapReads ==
    ASSUME RecencyInv, RecencyInv'
    PROVE  /\ StoreMap = [k \in Key |-> AsPut(ReadAt(Seen, k, SeqMax))]
           /\ StoreMap' = [k \in Key |-> AsPut(ReadAt(Seen', k, SeqMax))]
<1>1. SeqMax \in 0 .. SeqMax
    BY MVCCAssumption
<1>2. \A k \in Key : View(k, SeqMax) = AsPut(ReadAt(Seen, k, SeqMax))
    BY <1>1, ViewReadsSeen DEF ViewIsSeen
<1>3. \A k \in Key : View(k, SeqMax)' = AsPut(ReadAt(Seen', k, SeqMax))
    BY <1>1, ViewReadsSeenNext DEF ViewIsSeen
<1> QED BY <1>2, <1>3 DEF StoreMap

\* Apply is where a write takes effect.
LEMMA ApplyEffect ==
    ASSUME RecencyInv, RecencyInv', Apply
    PROVE  StoreMap' = [StoreMap EXCEPT ![op.key] = AsPut(op.val)]
<1>1. /\ Seen' = Seen \cup {op} /\ op \in Record
      /\ \A r \in Seen : r.seq < op.seq
    BY ApplySeen
<1>2. /\ Seen \subseteq Record
      /\ \A r \in Seen' : r.seq \in Int
      /\ OnePerVersion(Seen')
    <2>1. Seen \subseteq Record /\ OnePerVersion(Seen)
        BY SeenOnce
    <2>2. \A r \in Record : r.seq \in Int
        BY DEF Record, SeqNum
    <2> QED BY <1>1, <2>1, <2>2 DEF OnePerVersion, SameVersion
<1>3. op.key \in Key /\ op.seq <= SeqMax
    BY <1>1, MVCCAssumption DEF Record, SeqNum
<1>4. ReadAt(Seen', op.key, SeqMax) = op.val
    <2>1. op \in Versions(Seen', op.key, SeqMax)
        BY <1>1, <1>3 DEF Versions
    <2>2. \A x \in Versions(Seen', op.key, SeqMax) : x.seq <= op.seq
        BY <1>1, <1>2 DEF Versions
    <2> QED BY <1>1, <1>2, <2>1, <2>2, ReadIsNewest
<1>5. ASSUME NEW k \in Key, k # op.key
      PROVE  ReadAt(Seen', k, SeqMax) = ReadAt(Seen, k, SeqMax)
    <2>1. Versions(Seen', k, SeqMax) = Versions(Seen, k, SeqMax)
        BY <1>1, <1>5 DEF Versions
    <2> QED BY <2>1, SameVersionsSameRead
<1> QED BY <1>3, <1>4, <1>5, StoreMapReads

\* A stop decides each write in doubt one way or the other.
LEMMA CrashDecides ==
    ASSUME Recoverable, StoreInv, RecencyInv', Crash, NEW k \in Key
    PROVE  /\ StoreMap'[k] \in Val \cup {None}
           /\ \/ StoreMap'[k] = StoreMap[k]
              \/ StoreMap'[k] \in doubt[k]
              \/ pc \in {"sync", "apply"} /\ op.key = k /\ StoreMap'[k] = AsPut(op.val)
<1> DEFINE vs == Versions(Seen', k, SeqMax)
           m == Newest(vs)
<1>1. /\ Seen = Stored /\ Seen \subseteq Seen' /\ Seen' \subseteq Seen \cup Logged
      /\ RecencyInv /\ SettledInv
    BY CrashSeen DEF StoreInv
<1>2. /\ Seen' \subseteq Record /\ OnePerVersion(Seen)
      /\ \A r, x \in Seen' : r.seq = x.seq => r = x
      /\ \A r \in Seen' : r.seq \in Int
    <2>1. Seen \subseteq Known /\ OnePerVersion(Seen) /\ Known \subseteq Record
        BY <1>1, SeenOnce, KnownRecords DEF RecencyInv
    <2>2. Seen' \subseteq Known
        BY <1>1, <2>1, KnownParts
    <2>3. \A r, x \in Known : r.seq = x.seq => r = x
        BY <1>1 DEF RecencyInv, OrderInv, SeqInv
    <2> QED BY <2>1, <2>2, <2>3 DEF Record, SeqNum
<1>3. /\ StoreMap[k] = AsPut(ReadAt(Seen, k, SeqMax))
      /\ StoreMap'[k] = AsPut(ReadAt(Seen', k, SeqMax))
    BY <1>1, StoreMapReads DEF Recoverable
<1>4. CASE vs = {}
    <2>1. Versions(Seen, k, SeqMax) = {}
        BY <1>1, <1>4 DEF Versions
    <2>2. StoreMap'[k] = None /\ StoreMap[k] = None
        BY <1>3, <1>4, <2>1, MVCCAssumption DEF ReadAt, AsPut
    <2> QED BY <2>2
<1>5. CASE vs # {}
    <2>1. vs \in SUBSET Record
        BY <1>2 DEF Versions
    <2>2. m \in vs /\ \A x \in vs : x.seq <= m.seq
        <3> HIDE DEF vs
        <3> QED BY <1>5, <2>1, NewestExists
    <2>3. StoreMap'[k] = AsPut(m.val)
        BY <1>3, <1>5 DEF ReadAt
    <2> HIDE DEF m
    <2>4. m \in Seen' /\ m.key = k /\ m.seq <= SeqMax /\ m \in Record
        BY <2>1, <2>2 DEF Versions
    <2>5. AsPut(m.val) \in Val \cup {None}
        BY <2>4 DEF Record, Value, AsPut
    <2>6. CASE m \in Seen
        <3>1. m \in Versions(Seen, k, SeqMax) /\ Versions(Seen, k, SeqMax) \subseteq vs
            BY <1>1, <2>4, <2>6 DEF Versions
        <3>2. Seen \in SUBSET Record
            BY <1>1, <1>2
        <3>3. \A x \in Versions(Seen, k, SeqMax) : x.seq <= m.seq
            BY <2>2, <3>1
        <3> HIDE DEF vs
        <3>4. ReadAt(Seen, k, SeqMax) = m.val
            BY <1>2, <3>1, <3>2, <3>3, ReadIsNewest
        <3> QED BY <1>3, <2>3, <2>5, <3>4
    <2>7. CASE m \notin Seen
        <3>1. m \in Logged
            BY <1>1, <2>4, <2>7
        <3>2. ASSUME NEW x \in Stored, x.key = m.key, m.seq <= x.seq PROVE FALSE
            <4>1. x \in Seen' /\ x \in Seen /\ x.seq \in Int /\ m.seq \in Int
                BY <1>1, <1>2, <2>4
            <4>2. x.seq <= SeqMax
                BY <1>2, <4>1, MVCCAssumption DEF Record, SeqNum
            <4>3. x.seq <= m.seq
                BY <2>2, <2>4, <3>2, <4>1, <4>2 DEF Versions
            <4>4. x = m
                BY <1>2, <2>4, <3>2, <4>1, <4>3
            <4> QED BY <2>7, <4>1, <4>4
        <3>3. pc # "closed"
            BY DEF Crash
        <3>4. \/ AsPut(m.val) \in doubt[m.key]
              \/ pc \in {"sync", "apply"} /\ m = op
            BY <1>1, <3>1, <3>2, <3>3 DEF SettledInv
        <3> QED BY <2>3, <2>4, <2>5, <3>4
    <2> QED BY <2>6, <2>7
<1> QED BY <1>4, <1>5

\* Only Apply and a stop change what current reads return.
LEMMA SameMap ==
    ASSUME Recoverable, StoreInv, StoreInv', [Next]_vars, ~(Apply \/ Crash)
    PROVE  StoreMap' = StoreMap
<1>1. RecencyInv /\ RecencyInv'
    BY DEF StoreInv
<1>2. CASE CompactRename
    BY <1>1, <1>2, CompactRenameSeen, StoreMapReads
<1>3. CASE ~CompactRename
    BY <1>1, <1>3, SameSeen, StoreMapReads DEF ChangesSeen
<1> QED BY <1>2, <1>3

\* A failing step ends the call, and leaves its write in doubt if it had not
\* taken effect.
LEMMA FailedCall ==
    ASSUME StoreMap' = StoreMap, EndCall,
           op \in Record \/ (op = None /\ pc \notin {"sync", "apply"}),
           doubt' = IF pc \in {"sync", "apply"} THEN Unsettled ELSE doubt
    PROVE  Store!ReturnErr \/ UNCHANGED Store!vars
<1>1. op' = None
    BY DEF EndCall
<1>2. CASE op = None
    <2>1. doubt' = doubt
        BY <1>2, LsmAssumption
    <2> QED BY <1>1, <1>2, <2>1 DEF Store!vars, StoreMap
<1>3. CASE op # None
    <2>1. op \in Record
        BY <1>3
    <2>2. [key |-> op.key, val |-> op.val] # None
        <3>1. [key |-> op.key, val |-> op.val] \in [key : Key, val : Value]
            BY <2>1 DEF Record
        <3> QED BY <3>1, LsmAssumption
    <2> QED BY <1>1, <1>3, <2>2 DEF Store!ReturnErr, Store!Shown, StoreMap, Unsettled, AsPut
<1> QED BY <1>2, <1>3

\* A record of the engine is a request of the map.
LEMMA RequestOf ==
    ASSUME NEW r \in Record
    PROVE  /\ r # None
           /\ [key |-> r.key, val |-> r.val] # None
           /\ [key |-> r.key, val |-> r.val] \in Store!Request
<1>1. [key |-> r.key, val |-> r.val] \in [key : Key, val : Value]
    BY DEF Record
<1>2. [key |-> r.key, val |-> r.val] \in Store!Request
    BY <1>1 DEF Store!Request, Value
<1> QED BY <1>1, <1>2, LsmAssumption

\* Every step of the engine is a step of the map, or none.
LEMMA StoreStep ==
    ASSUME Recoverable, StoreInv, StoreInv', [Next]_vars
    PROVE  Store!Next \/ UNCHANGED Store!vars
<1>1. /\ TypeOK /\ RecencyInv /\ RecencyInv' /\ SettledInv
      /\ op \in Record \/ (op = None /\ pc \notin {"sync", "apply"})
    BY DEF StoreInv, RecencyInv, DurabilityInv, Inv, TypeOK, PhaseInvariant
<1>2. ASSUME UNCHANGED <<op, doubt>>, ~(Apply \/ Crash),
             op # None => (pc \in {"sync", "apply"} <=> pc' \in {"sync", "apply"})
      PROVE  UNCHANGED Store!vars
    <2>1. StoreMap' = StoreMap
        BY <1>2, SameMap
    <2> QED BY <1>2, <2>1 DEF Store!vars, StoreMap
<1>3. CASE \E k \in Key : (\E v \in Val : Put(k, v)) \/ Remove(k)
    <2>1. PICK k \in Key, v \in Value : Write(k, v)
        BY <1>3 DEF Put, Remove, Value
    <2>2. StoreMap' = StoreMap
        BY <2>1, SameMap DEF Write, Apply, Crash
    <2>3. op = None /\ op' \in Record /\ pc' = "sync" /\ doubt' = doubt
        <3>1. op' \in Record
            BY <1>1, <2>1, MVCCAssumption DEF Write, Record, SeqNum, TypeOK
        <3> QED BY <1>1, <2>1, <3>1 DEF Write, SettledInv
    <2>4. /\ op' # None
          /\ [key |-> op'.key, val |-> op'.val] \in Store!Request
        BY <2>3, RequestOf
    <2>5. Store!Call
        BY <2>2, <2>3, <2>4 DEF Store!Call, StoreMap
    <2> QED BY <2>5 DEF Store!Next
<1>4. CASE Apply
    <2>1. StoreMap' = [StoreMap EXCEPT ![op.key] = AsPut(op.val)]
        BY <1>1, <1>4, ApplyEffect
    <2>2. /\ pc = "apply" /\ pc' \notin {"sync", "apply"} /\ op' = op
          /\ doubt' = [doubt EXCEPT ![op.key] = {}]
        BY <1>4 DEF Apply
    <2>3. op # None /\ [key |-> op.key, val |-> op.val] # None
        BY <1>1, <2>2, RequestOf
    <2>4. Store!Effect
        BY <2>1, <2>2, <2>3 DEF Store!Effect, StoreMap, Store!Shown, AsPut
    <2> QED BY <2>4 DEF Store!Next
<1>5. CASE Return
    <2>1. pc = "return" /\ pc' = "idle" /\ op' = None /\ doubt' = doubt
        BY <1>5 DEF Return, EndCall
    <2>2. StoreMap' = StoreMap
        BY <2>1, SameMap DEF Apply, Crash
    <2>3. CASE op = None
        BY <2>1, <2>2, <2>3 DEF Store!vars, StoreMap
    <2>4. CASE op \in Record
        <3>1. op # None /\ [key |-> op.key, val |-> op.val] # None
            BY <2>4, RequestOf
        <3>2. Store!ReturnOk
            BY <2>1, <2>2, <3>1 DEF Store!ReturnOk, StoreMap
        <3> QED BY <3>2 DEF Store!Next
    <2> QED BY <1>1, <2>3, <2>4
<1>6. CASE Crash
    <2>1. \A k \in Key :
             /\ StoreMap'[k] \in Val \cup {None}
             /\ \/ StoreMap'[k] = StoreMap[k]
                \/ StoreMap'[k] \in doubt[k]
                \/ pc \in {"sync", "apply"} /\ op.key = k /\ StoreMap'[k] = AsPut(op.val)
        BY <1>1, <1>6, CrashDecides
    <2>2. StoreMap' \in [Key -> Val \cup {None}]
        BY <2>1 DEF StoreMap
    <2>3. op' = None /\ doubt' = NoDoubt
        BY <1>6 DEF Crash
    <2>4. pc \in {"sync", "apply"} => op # None /\ [key |-> op.key, val |-> op.val] # None
        BY <1>1, RequestOf
    <2>5. Store!Restart
        <3>1. \A k \in Key :
                \/ StoreMap'[k] = StoreMap[k]
                \/ StoreMap'[k] \in doubt[k]
                \/ StoreReq # None /\ ~StoreDone /\ StoreReq.key = k
                   /\ StoreMap'[k] = Store!Shown(StoreReq.val)
            BY <2>1, <2>4 DEF StoreReq, StoreDone, Store!Shown, AsPut
        <3> QED BY <2>2, <2>3, <3>1
                DEF Store!Restart, StoreMap, StoreReq, StoreDone, Store!NoDoubt, NoDoubt
    <2> QED BY <2>5 DEF Store!Next
<1>7. CASE WalWriteFail \/ WalSyncFail
    <2>1. EndCall /\ pc = "sync" /\ doubt' = Unsettled
        BY <1>7 DEF WalWriteFail, WalSyncFail, Fail
    <2>2. StoreMap' = StoreMap
        BY <2>1, SameMap DEF Apply, Crash, EndCall
    <2> QED BY <1>1, <2>1, <2>2, FailedCall DEF Store!Next
<1>8. CASE FlushWriteFail \/ FlushRenameFail \/ WalResetFail
    <2>1. EndCall /\ pc \notin {"sync", "apply"} /\ doubt' = doubt
        BY <1>8 DEF FlushWriteFail, FlushRenameFail, WalResetFail, Fail
    <2>2. StoreMap' = StoreMap
        BY <2>1, SameMap DEF Apply, Crash, EndCall
    <2> QED BY <1>1, <2>1, <2>2, FailedCall DEF Store!Next
<1>9. CASE CompactMergeFail \/ CompactRenameFail \/ CompactRemoveFail
    BY <1>9 DEF CompactMergeFail, CompactRenameFail, CompactRemoveFail, Fail, Recoverable
<1>10. CASE WalSync \/ Flush \/ FlushWrite \/ FlushRename \/ WalReset
    BY <1>1, <1>2, <1>10 DEF WalSync, Flush, FlushWrite, FlushRename, WalReset, Apply, Crash,
       SettledInv
<1>11. CASE CompactMerge \/ CompactRename \/ CompactRemove \/ CompactDone
    BY <1>2, <1>11 DEF CompactMerge, CompactRename, CompactRemove, CompactDone, Apply, Crash
<1>12. CASE Open
    BY <1>1, <1>2, <1>12 DEF Open, Apply, Crash, SettledInv
<1>13. CASE UNCHANGED vars
    BY <1>2, <1>13 DEF vars, call, Apply, Crash
<1> QED BY <1>3, <1>4, <1>5, <1>6, <1>7, <1>8, <1>9, <1>10, <1>11, <1>12, <1>13
        DEF Next, Advance, Failure

\* The engine is a durable map: through flushes, compactions, I/O errors and
\* restarts, what a write that returned Ok stored is what get returns until a
\* later write of its key, and a write that failed or was cut off surfaces at a
\* restart or never (lsm.rs: put, delete, get, flush, maybe_compact, open).
THEOREM StoreImplemented ==
    ASSUME Recoverable
    PROVE  Spec => ImplementsKVStore
<1>1. Init => Store!Init
    <2> SUFFICES ASSUME Init PROVE Store!Init
        OBVIOUS
    <2>1. op = None /\ doubt = NoDoubt /\ pc = "closed" /\ files = <<>> /\ wal = <<>>
        BY DEF Init
    <2>2. Seen = {}
        BY <2>1 DEF Seen, Written, InSstables, Frames
    <2>3. \A k \in Key : View(k, SeqMax) = None
        <3>1. RecencyInv /\ SeqMax \in 0 .. SeqMax
            BY InitRecency, MVCCAssumption
        <3>2. \A k \in Key : ReadAt(Seen, k, SeqMax) = None
            BY <2>2 DEF ReadAt, Versions
        <3> QED BY <3>1, <3>2, ViewReadsSeen, MVCCAssumption DEF ViewIsSeen, AsPut
    <2> QED BY <2>1, <2>3 DEF Store!Init, Store!NoDoubt, NoDoubt
<1>2. StoreInv /\ StoreInv' /\ [Next]_vars => [Store!Next]_Store!vars
    BY StoreStep
<1> QED BY <1>1, <1>2, StoreInvariance, PTL DEF Spec, ImplementsKVStore, Store!Spec
=================================================================================
