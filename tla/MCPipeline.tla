------------------------------- MODULE MCPipeline -------------------------------
(* Small instances of Pipeline for TLC. *)
EXTENDS Pipeline

CONSTANTS s1, s2, u1, u2, u3, d1, c1, c2, c3

(* A story, the same story from another source, one more story, and the    *)
(* page of the first without a date.                                       *)
A == [source |-> s1, url |-> u1, published |-> d1]
B == [source |-> s2, url |-> u2, published |-> d1]
C == [source |-> s1, url |-> u3, published |-> d1]
U == [source |-> s1, url |-> u1, published |-> Undated]

OneItem == {A}
MixedItems == {A, C, U}
ThreeItems == {A, B, C}
WithUndated == {A, U}

Reflexive == {<<i, i>> : i \in Item}
AllNear == Item \X Item
(* A is near B and C, which are not near each other. *)
Chain == Reflexive \cup {<<A, B>>, <<B, A>>, <<A, C>>, <<C, A>>}

OneCluster == {c1}
TwoClusters == {c1, c2}
ThreeClusters == {c1, c2, c3}

Symmetry == Permutations(Worker) \cup Permutations(Cluster)
=============================================================================
