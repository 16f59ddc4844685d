------------------------------- MODULE MVCCProofs -------------------------------
(***************************************************************************)
(* What the operators of MVCC return, for any runs: the lookup that stops  *)
(* at the first hit, the scan and the merge all answer as one read of the  *)
(* union of the runs does, as long as newer runs come first.               *)
(***************************************************************************)
EXTENDS MVCC, FiniteSetTheorems, WellFoundedInduction, TLAPS

\* Of one key, upper holds every version of lower that is as new as one of its
\* own.  After a restart the memtable and an sstable hold the same records, so
\* this is weaker than: upper holds newer versions only.
Shadows(upper, lower) ==
    \A r \in upper, x \in lower : r.key = x.key /\ r.seq <= x.seq => x \in upper

NewerFirst(runs) == \A i, j \in DOMAIN runs : i < j => Shadows(runs[i], runs[j])

All(runs) == UNION {runs[i] : i \in DOMAIN runs}

OnePerVersion(run) == \A r, x \in run : SameVersion(r, x) => r = x

---------------------------------------------------------------------------
(* Greatest and least *)

\* A nonempty set of naturals has a least element.
LEMMA Least ==
    ASSUME NEW S \in SUBSET Nat, S # {}
    PROVE  \E m \in S : \A x \in S : m <= x
<1> DEFINE R == {ss \in Nat \X Nat : ss[1] < ss[2]}
<1>1. IsWellFoundedOn(R, Nat)
    BY NatLessThanWellFounded DEF OpToRel
<1> HIDE DEF R
<1>2. PICK m \in S : \A y \in S : ~ (<<y, m>> \in R)
    BY <1>1, WFMin
<1>3. \A y \in S : ~ (y < m)
    BY <1>2 DEF R
<1> QED BY <1>3

\* A nonempty set of naturals with an upper bound has a greatest element.
LEMMA Greatest ==
    ASSUME NEW n \in Nat, NEW S \in SUBSET (0 .. n), S # {}
    PROVE  \E m \in S : \A x \in S : x <= m
<1> DEFINE T == {n - x : x \in S}
<1>1. T \in SUBSET Nat /\ T # {}
    <2>1. \A x \in S : x \in Int /\ n - x \in Nat
        OBVIOUS
    <2> QED BY <2>1
<1>2. PICK t \in T : \A y \in T : t <= y
    <2> HIDE DEF T
    <2> QED BY <1>1, Least
<1>3. PICK m \in S : t = n - m
    OBVIOUS
<1>4. ASSUME NEW x \in S PROVE x <= m
    <2>1. n - m <= n - x
        BY <1>2, <1>3
    <2>2. x \in Int /\ m \in Int
        OBVIOUS
    <2> QED BY <2>1, <2>2
<1> QED BY <1>4

\* So has a nonempty finite one.
LEMMA GreatestOfFinite ==
    ASSUME NEW S \in SUBSET Nat, IsFiniteSet(S), S # {}
    PROVE  \E m \in S : \A x \in S : x <= m
<1> DEFINE above(m) == {x \in S : m < x}
           T == {above(m) : m \in S}
<1>1. T # {} /\ T \subseteq FiniteSubsetsOf(S)
    <2>1. \A m \in S : IsFiniteSet(above(m))
        BY FS_Subset
    <2> QED BY <2>1 DEF FiniteSubsetsOf
<1>2. IsWellFoundedOn(StrictSubsetOrdering(S), FiniteSubsetsOf(S))
    BY FS_StrictSubsetOrderingWellFounded
<1>3. PICK t \in T : \A y \in T : ~ (<<y, t>> \in StrictSubsetOrdering(S))
    <2> HIDE DEF T
    <2> QED BY <1>1, <1>2, WFMin
<1>4. PICK m \in S : t = above(m)
    OBVIOUS
<1>5. ASSUME NEW x \in S, m < x PROVE FALSE
    <2>1. above(x) \subseteq above(m) /\ x \in above(m) /\ x \notin above(x)
        <3>1. \A y \in S : y \in Nat
            OBVIOUS
        <3>2. ASSUME NEW y \in above(x) PROVE y \in above(m)
            <4>1. y \in S /\ x < y
                OBVIOUS
            <4>2. m \in Nat /\ x \in Nat /\ y \in Nat
                BY <3>1, <4>1
            <4>3. m < y
                BY <1>5, <4>1, <4>2
            <4> QED BY <4>1, <4>3
        <3>3. x \in above(m) /\ x \notin above(x)
            BY <1>5, <3>1
        <3> HIDE DEF above
        <3> QED BY <3>2, <3>3
    <2>2. <<above(x), t>> \in StrictSubsetOrdering(S)
        BY <1>4, <2>1 DEF StrictSubsetOrdering
    <2> QED BY <1>3, <2>2
<1>6. \A x \in S : x \in Nat
    OBVIOUS
<1> QED BY <1>5, <1>6

---------------------------------------------------------------------------
(* One run *)

\* Any records have one with the greatest seq.
LEMMA NewestExists ==
    ASSUME NEW vs \in SUBSET Record, vs # {}
    PROVE  Newest(vs) \in vs /\ \A x \in vs : x.seq <= Newest(vs).seq
<1> DEFINE seqs == {r.seq : r \in vs}
<1>1. seqs \in SUBSET (0 .. SeqMax) /\ seqs # {}
    BY MVCCAssumption DEF Record, SeqNum
<1>2. PICK m \in seqs : \A x \in seqs : x <= m
    <2> HIDE DEF seqs
    <2> QED BY <1>1, Greatest, MVCCAssumption
<1>3. \E r \in vs : \A x \in vs : x.seq <= r.seq
    BY <1>2
<1> QED BY <1>3 DEF Newest

\* A version of k that no other one exceeds is what a read returns.
LEMMA ReadIsNewest ==
    ASSUME NEW run \in SUBSET Record, OnePerVersion(run), NEW k, NEW asOf,
           NEW r \in Versions(run, k, asOf),
           \A x \in Versions(run, k, asOf) : x.seq <= r.seq
    PROVE  ReadAt(run, k, asOf) = r.val
<1> DEFINE vs == Versions(run, k, asOf)
<1>1. vs \in SUBSET Record /\ vs # {}
    BY DEF Versions
<1> DEFINE n == Newest(vs)
<1>2. n \in vs /\ \A x \in vs : x.seq <= n.seq
    <2> HIDE DEF vs
    <2> QED BY <1>1, NewestExists
<1>3. n.seq \in Int /\ r.seq \in Int
    BY <1>1, <1>2 DEF Record, SeqNum
<1>4. n.seq <= r.seq /\ r.seq <= n.seq
    BY <1>2
<1>5. n.key = k /\ r.key = k /\ n \in run /\ r \in run
    BY <1>2 DEF Versions
<1>6. n = r
    <2> HIDE DEF n
    <2> QED BY <1>3, <1>4, <1>5 DEF OnePerVersion, SameVersion
<1> QED BY <1>1, <1>6 DEF ReadAt

\* Reads agree on runs that have the same versions.
LEMMA SameVersionsSameRead ==
    ASSUME NEW a, NEW b, NEW k, NEW asOf, Versions(a, k, asOf) = Versions(b, k, asOf)
    PROVE  ReadAt(a, k, asOf) = ReadAt(b, k, asOf)
BY DEF ReadAt

\* A run that shadows the others answers for them.
LEMMA ShadowingRead ==
    ASSUME NEW all \in SUBSET Record, OnePerVersion(all), NEW run \in SUBSET all,
           NEW k, NEW asOf, Versions(run, k, asOf) # {},
           Shadows(run, Versions(all, k, asOf))
    PROVE  ReadAt(run, k, asOf) = ReadAt(all, k, asOf)
<1> DEFINE vs == Versions(run, k, asOf)
           r == Newest(vs)
<1>1. vs \in SUBSET Record /\ vs # {} /\ vs \subseteq Versions(all, k, asOf)
    BY DEF Versions
<1>2. r \in vs /\ \A x \in vs : x.seq <= r.seq
    <2> HIDE DEF vs
    <2> QED BY <1>1, NewestExists
<1>3. ReadAt(run, k, asOf) = r.val
    BY DEF ReadAt
<1>4. ASSUME NEW x \in Versions(all, k, asOf) PROVE x.seq <= r.seq
    <2> HIDE DEF r
    <2>1. x.seq \in Int /\ r.seq \in Int /\ x.key = k /\ r.key = k /\ r \in run
        BY <1>1, <1>2 DEF Versions, Record, SeqNum
    <2>2. CASE x \in run
        BY <1>2, <2>2 DEF Versions
    <2>3. CASE x \notin run
        BY <2>1, <2>3 DEF Shadows
    <2> QED BY <2>2, <2>3
<1> HIDE DEF r, vs
<1>5. ReadAt(all, k, asOf) = r.val
    BY <1>1, <1>2, <1>4, ReadIsNewest
<1> QED BY <1>3, <1>5

---------------------------------------------------------------------------
(* Runs in order, newer first *)

\* lookup_in_tiers may stop at the first hit.
LEMMA FirstHitReadsAll ==
    ASSUME NEW runs, DOMAIN runs \subseteq Nat, All(runs) \subseteq Record,
           OnePerVersion(All(runs)), NewerFirst(runs), NEW k, NEW asOf \in Int
    PROVE  FirstHit(runs, k, asOf) = ReadAt(All(runs), k, asOf)
<1>1. CASE Hits(runs, k, asOf) = {}
    <2>1. Versions(All(runs), k, asOf) = {}
        BY <1>1 DEF Hits, Versions, All
    <2> QED BY <1>1, <2>1 DEF FirstHit, ReadAt
<1>2. CASE Hits(runs, k, asOf) # {}
    <2> DEFINE hits == Hits(runs, k, asOf)
               i == CHOOSE i \in hits : \A j \in hits : i <= j
    <2>1. i \in hits /\ \A j \in hits : i <= j
        <3>1. hits \in SUBSET Nat
            BY DEF Hits
        <3>2. \E m \in hits : \A x \in hits : m <= x
            <4> HIDE DEF hits
            <4> QED BY <1>2, <3>1, Least DEF hits
        <3> QED BY <3>2
    <2>2. FirstHit(runs, k, asOf) = ReadAt(runs[i], k, asOf)
        BY <1>2 DEF FirstHit
    <2> HIDE DEF i
    <2>3. /\ i \in DOMAIN runs /\ runs[i] \subseteq All(runs)
          /\ Versions(runs[i], k, asOf) # {}
        BY <2>1 DEF Hits, All
    <2>4. Shadows(runs[i], Versions(All(runs), k, asOf))
        <3> SUFFICES ASSUME NEW r \in runs[i], NEW x \in Versions(All(runs), k, asOf),
                            r.key = x.key, r.seq <= x.seq
                     PROVE  x \in runs[i]
            BY DEF Shadows
        <3>1. PICK j \in DOMAIN runs : x \in runs[j]
            BY DEF Versions, All
        <3>2. j \in hits
            BY <3>1 DEF Hits, Versions
        <3>3. i = j \/ i < j
            BY <2>1, <2>3, <3>2
        <3> QED BY <2>3, <3>1, <3>3 DEF NewerFirst, Shadows
    <2>5. ReadAt(runs[i], k, asOf) = ReadAt(All(runs), k, asOf)
        <3> HIDE DEF hits
        <3> QED BY <2>3, <2>4, ShadowingRead
    <2> QED BY <2>2, <2>5
<1> QED BY <1>1, <1>2

---------------------------------------------------------------------------
(* Runs in any order *)

\* What wins is the newest version of each key.
LEMMA WinnersOfAll ==
    ASSUME NEW runs, DOMAIN runs \subseteq Nat, All(runs) \subseteq Record,
           OnePerVersion(All(runs))
    PROVE  Winners(runs) = {r \in All(runs) : \A x \in All(runs) :
                              x.key = r.key => x.seq <= r.seq}
<1> DEFINE top == {r \in All(runs) : \A x \in All(runs) : x.key = r.key => x.seq <= r.seq}
<1>1. ASSUME NEW r \in All(runs) PROVE r.seq \in Int
    BY DEF Record, SeqNum
<1>2. ASSUME NEW r \in Winners(runs) PROVE r \in top
    <2>1. r \in All(runs)
        BY DEF Winners, All
    <2>2. PICK i \in DOMAIN runs : IsWinner(runs, i, r)
        BY DEF Winners
    <2>3. ASSUME NEW x \in All(runs), x.key = r.key PROVE x.seq <= r.seq
        <3>1. PICK j \in DOMAIN runs : x \in runs[j]
            BY DEF All
        <3>2. x.seq < r.seq \/ x.seq = r.seq
            BY <2>2, <2>3, <3>1 DEF IsWinner
        <3> QED BY <1>1, <2>1, <3>2
    <2> QED BY <2>1, <2>3
<1>3. ASSUME NEW r \in top PROVE r \in Winners(runs)
    <2> DEFINE holders == {i \in DOMAIN runs : r \in runs[i]}
    <2>1. holders \in SUBSET Nat /\ holders # {}
        BY DEF All
    <2>2. PICK i \in holders : \A j \in holders : i <= j
        <3> HIDE DEF holders
        <3> QED BY <2>1, Least
    <2>3. ASSUME NEW j \in DOMAIN runs, NEW x \in runs[j], x.key = r.key
          PROVE  x.seq < r.seq \/ (x.seq = r.seq /\ i <= j)
        <3>1. x \in All(runs) /\ r \in All(runs)
            BY DEF All
        <3>2. x.seq <= r.seq
            BY <2>3, <3>1
        <3>3. CASE x.seq = r.seq
            <4>1. x = r
                BY <2>3, <3>1, <3>3 DEF OnePerVersion, SameVersion
            <4> QED BY <2>2, <3>3, <4>1
        <3> QED BY <1>1, <3>1, <3>2, <3>3
    <2>4. IsWinner(runs, i, r)
        BY <2>2, <2>3 DEF IsWinner
    <2> QED BY <2>2, <2>4 DEF Winners, All
<1> HIDE DEF top
<1>4. Winners(runs) = top
    BY <1>2, <1>3
<1> QED BY <1>4 DEF top

\* The newest version of a key, if it has one, is among the winners.
LEMMA WinnerOfKey ==
    ASSUME NEW runs, DOMAIN runs \subseteq Nat, All(runs) \subseteq Record,
           OnePerVersion(All(runs)), NEW k, Versions(All(runs), k, SeqMax) # {}
    PROVE  \E r \in Winners(runs) :
              /\ r.key = k
              /\ r.val = ReadAt(All(runs), k, SeqMax)
              /\ \A x \in Winners(runs) : x.key = k => x = r
<1> DEFINE vs == Versions(All(runs), k, SeqMax)
           r == Newest(vs)
           W == Winners(runs)
<1>1. vs \in SUBSET Record /\ vs # {}
    BY DEF Versions
<1>2. r \in vs /\ \A x \in vs : x.seq <= r.seq
    <2> HIDE DEF vs
    <2> QED BY <1>1, NewestExists
<1>3. r \in All(runs) /\ r.key = k
    BY <1>2 DEF Versions
<1>4. \A x \in All(runs) : x.seq \in Int /\ x.seq <= SeqMax
    BY MVCCAssumption DEF Record, SeqNum
<1>5. \A x \in All(runs) : x.key = k => x \in vs
    BY <1>4 DEF Versions
<1>6. r.val = ReadAt(All(runs), k, SeqMax)
    BY <1>1 DEF ReadAt
<1>7. W = {y \in All(runs) : \A x \in All(runs) : x.key = y.key => x.seq <= y.seq}
    <2> HIDE DEF r, vs
    <2> QED BY WinnersOfAll
<1> HIDE DEF r, vs, W
<1>8. r \in W
    BY <1>2, <1>3, <1>5, <1>7
<1>9. ASSUME NEW x \in W, x.key = k PROVE x = r
    <2>1. x.seq <= r.seq /\ r.seq <= x.seq /\ x \in All(runs)
        BY <1>3, <1>7, <1>8, <1>9
    <2>2. x.seq = r.seq
        BY <1>3, <1>4, <2>1
    <2> QED BY <1>3, <1>9, <2>1, <2>2 DEF OnePerVersion, SameVersion
<1> QED BY <1>3, <1>6, <1>8, <1>9 DEF W

\* iter_all answers as a read of the union does.
LEMMA ScanReadsAll ==
    ASSUME NEW runs, DOMAIN runs \subseteq Nat, All(runs) \subseteq Record,
           OnePerVersion(All(runs)), NEW k \in Key
    PROVE  Scan(runs)[k] = AsPut(ReadAt(All(runs), k, SeqMax))
<1>1. CASE Versions(All(runs), k, SeqMax) = {}
    <2>1. ~ \E r \in Winners(runs) : r.key = k
        <3>1. \A r \in All(runs) : r.seq <= SeqMax
            BY MVCCAssumption DEF Record, SeqNum
        <3> QED BY <1>1, <3>1 DEF Winners, All, Versions
    <2>2. ReadAt(All(runs), k, SeqMax) = None
        BY <1>1 DEF ReadAt
    <2>3. AsPut(None) = None
        BY MVCCAssumption DEF AsPut
    <2> QED BY <2>1, <2>2, <2>3 DEF Scan
<1>2. CASE Versions(All(runs), k, SeqMax) # {}
    <2>1. PICK r \in Winners(runs) :
              /\ r.key = k
              /\ r.val = ReadAt(All(runs), k, SeqMax)
              /\ \A x \in Winners(runs) : x.key = k => x = r
        BY <1>2, WinnerOfKey
    <2>2. (CHOOSE x \in Winners(runs) : x.key = k) = r
        BY <2>1
    <2> QED BY <2>1, <2>2 DEF Scan
<1> QED BY <1>1, <1>2

\* A current read of the merge answers as one of the union does; on the last
\* level a tombstone has become an absent key.
LEMMA MergeReadsAll ==
    ASSUME NEW runs, DOMAIN runs \subseteq Nat, All(runs) \subseteq Record,
           OnePerVersion(All(runs)), NEW last \in BOOLEAN, NEW k
    PROVE  LET before == ReadAt(All(runs), k, SeqMax)
               after == ReadAt(Merge(runs, last), k, SeqMax)
           IN  IF last THEN AsPut(after) = AsPut(before) ELSE after = before
<1> DEFINE before == ReadAt(All(runs), k, SeqMax)
           M == Merge(runs, last)
           after == ReadAt(M, k, SeqMax)
<1>0. AsPut(None) = None /\ AsPut(Delete) = None
    BY MVCCAssumption DEF AsPut
<1>1. M \subseteq Winners(runs) /\ M \subseteq All(runs)
    BY DEF Merge, Winners, All
<1>2. CASE Versions(All(runs), k, SeqMax) = {}
    <2>1. Versions(M, k, SeqMax) = {}
        BY <1>1, <1>2 DEF Versions
    <2>2. before = None /\ after = None
        BY <1>2, <2>1 DEF ReadAt
    <2> QED BY <2>2
<1>3. CASE Versions(All(runs), k, SeqMax) # {}
    <2>1. PICK r \in Winners(runs) :
              /\ r.key = k
              /\ r.val = before
              /\ \A x \in Winners(runs) : x.key = k => x = r
        BY <1>3, WinnerOfKey
    <2>2. r \in All(runs) /\ r.seq \in Int /\ r.seq <= SeqMax
        <3>1. r \in All(runs)
            BY DEF Winners, All
        <3> QED BY <3>1, MVCCAssumption DEF Record, SeqNum
    <2>3. CASE last /\ r.val = Delete
        <3>1. Versions(M, k, SeqMax) = {}
            BY <2>1, <2>3 DEF Versions, Merge
        <3>2. after = None
            BY <3>1 DEF ReadAt
        <3>3. AsPut(after) = None /\ AsPut(before) = None
            BY <1>0, <2>1, <2>3, <3>2
        <3> QED BY <2>3, <3>3
    <2>4. CASE ~ (last /\ r.val = Delete)
        <3>1. r \in Versions(M, k, SeqMax)
            BY <2>1, <2>2, <2>4 DEF Versions, Merge
        <3>2. \A x \in Versions(M, k, SeqMax) : x = r
            BY <1>1, <2>1 DEF Versions
        <3>3. OnePerVersion(M) /\ M \in SUBSET Record
            BY <1>1 DEF OnePerVersion
        <3>4. after = r.val
            <4> HIDE DEF M
            <4> QED BY <2>2, <3>1, <3>2, <3>3, ReadIsNewest
        <3> QED BY <2>1, <3>4
    <2> QED BY <2>3, <2>4
<1> QED BY <1>2, <1>3
=================================================================================
