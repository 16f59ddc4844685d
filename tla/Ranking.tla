--------------------------------- MODULE Ranking ---------------------------------
(***************************************************************************)
(* What the searches share: sums of scores, and a HashMap of scores by id  *)
(* that is collected and sorted.                                           *)
(***************************************************************************)
EXTENDS Integers, Sequences, FiniteSets, Functions

Sum(f) == SumFunction(f)

\* The orders collecting a map of scores and sorting it by descending score may
\* give: sort_by keeps ties in the order of the HashMap, which is any.
Rankings(score) ==
    {s \in Injection(1 .. Cardinality(DOMAIN score), DOMAIN score) :
        \A i, j \in DOMAIN s : i < j => score[s[i]] >= score[s[j]]}

\* Vec::truncate, Iterator::take.
FirstOf(s, k) == IF k < Len(s) THEN SubSeq(s, 1, k) ELSE s
=================================================================================
