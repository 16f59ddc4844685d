-------------------------------- MODULE MCEngine --------------------------------
(* Instances of Engine for TLC: a dimension of three, with a chunk of two lanes *)
(* and a tail, and one vector that has two components.                          *)
EXTENDS Engine, TLC

Symmetry == Permutations(Id)

\* A text of a word twice and one of another, texts that share a word, no text;
\* vectors that are as close to a query as each other, and one that is not.
DocsOfDim ==
    {[vec |-> <<1, 1, 1>>, text |-> <<"a", "b", "a">>],
     [vec |-> <<0, 0, 1>>, text |-> <<"b">>],
     [vec |-> <<1, 0, 0>>, text |-> <<>>]}

DocsOfAnyDim == DocsOfDim \cup {[vec |-> <<1, 1>>, text |-> <<"a">>]}

DocsWithNaN ==
    DocsOfDim \cup {[vec |-> <<1, NaN, 0>>, text |-> <<"a">>]}

Vectors == {d.vec : d \in DocsOfAnyDim \cup DocsWithNaN}
Texts == {d.text : d \in DocsOfAnyDim \cup DocsWithNaN}

\* A word that repeats and one that no document has; two words.
Queries ==
    {[vec |-> <<1, 0, 1>>, text |-> <<"b", "c", "b">>],
     [vec |-> <<0, 1, 1>>, text |-> <<"a", "b", "b">>]}

\* 1000 * ln((n + 1) / (df + 0.5)).
IdfOf ==
    [p \in {p \in (1 .. 3) \X (1 .. 3) : p[2] <= p[1]} |->
        CASE p = <<1, 1>> -> 288
          [] p = <<2, 1>> -> 693
          [] p = <<2, 2>> -> 182
          [] p = <<3, 1>> -> 981
          [] p = <<3, 2>> -> 470
          [] p = <<3, 3>> -> 134]

ASSUME IdfOfIsFine == IdfIsFine
ASSUME RanksDiffer == UnitIsFine
ASSUME DocsAreNumbers == Doc \in {DocsOfDim, DocsOfAnyDim} => NoNaN
=================================================================================
