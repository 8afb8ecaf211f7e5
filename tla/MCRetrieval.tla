-------------------------------- MODULE MCRetrieval --------------------------------
(* A small instance of Retrieval for TLC: two searches over one text, one   *)
(* question, and two workers that store the vector of a story, old or new.   *)
EXTENDS Retrieval, TLC

CONSTANTS s1, s2, c1, w1, w2, story

OneStory == [w \in Writer |-> story]
Symmetry == Permutations({s1, s2}) \cup Permutations({w1, w2})
=============================================================================
