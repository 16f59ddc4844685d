--------------------------------- MODULE Fusion ---------------------------------
(***************************************************************************)
(* reciprocal_rank_fusion: lists of ids, best first, become one by the sum *)
(* of 1 / (k_const + rank).  That is a fraction; here it is an integer, in *)
(* units small enough that equal sums stay equal and others differ.        *)
(***************************************************************************)
EXTENDS Ranking

CONSTANTS
    KConst,   \* k_const, 60.0 in Engine::query
    Unit      \* units of score in 1

ASSUME FusionAssumption ==
    /\ KConst \in Nat
    /\ Unit \in Nat \ {0}

IdsOf(list) == {list[i] : i \in DOMAIN list}

\* rank counts from 0 in the code, which adds 1.
Contribution(rank) == Unit \div (KConst + rank)

\* What a list of distinct ids adds to the score of id.
Gain(list, id) == Sum([i \in {i \in DOMAIN list : list[i] = id} |-> Contribution(i)])

\* Mutant of Fused: the later list replaces the score of the earlier.
FusedOverwrites(lists) ==
    [id \in UNION {IdsOf(lists[n]) : n \in DOMAIN lists} |->
        LET in == {n \in DOMAIN lists : id \in IdsOf(lists[n])}
        IN  Gain(lists[CHOOSE n \in in : \A m \in in : m <= n], id)]

\* The map of scores.
Fused(lists) ==
    [id \in UNION {IdsOf(lists[n]) : n \in DOMAIN lists} |->
        Sum([n \in DOMAIN lists |-> Gain(lists[n], id)])]

\* The lists of ids reciprocal_rank_fusion may return.
ReciprocalRankFusion(lists) == Rankings(Fused(lists))
=================================================================================
