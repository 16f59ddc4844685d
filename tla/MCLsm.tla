---------------------------------- MODULE MCLsm ----------------------------------
(* Instances of Lsm for TLC. *)
EXTENDS Lsm, TLC

Symmetry == Permutations(Key)

\* Every step before which the process can stop, and the two points between
\* calls: with a log to replay or without.
AllCrashPoints == Steps \cup {"idle", "clean"}

\* Every system call that can fail.
AllFailPoints ==
    {"write", "sync", "flush", "rename", "reset", "compact", "crename", "remove"}

\* The stops and errors the engine recovers from with compaction on: those that
\* leave a record in the log, and errors of the write path and of flush.
SafeCrashPoints == {"idle", "sync", "apply", "flush", "rename", "reset", "return"}
SafeFailPoints == {"write", "sync", "flush", "rename", "reset"}
=================================================================================
