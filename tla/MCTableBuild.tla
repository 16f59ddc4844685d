------------------------------- MODULE MCTableBuild -------------------------------
(* Instances of TableBuild for TLC: three short sstables, empty ones included. *)
EXTENDS TableBuild

CONSTANT MaxEntries   \* bound on the entries of all inputs together

Keys == 1 .. 3
Hash1Of == [k \in Keys |-> <<3, 11, 6>>[k]]
Hash2Of == [k \in Keys |-> <<5, 13, 7>>[k]]

Entries == {r \in Record : r.key <= 2 /\ r.seq <= 2}
Tables == {s \in UNION {[1 .. n -> Entries] : n \in 0 .. 2} : InOrder(s)}
InputLists == {list \in [1 .. 3 -> Tables] : EntryCount(list) <= MaxEntries}
===================================================================================
