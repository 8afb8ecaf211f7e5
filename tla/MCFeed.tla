----------------------------------- MODULE MCFeed -----------------------------------
(* Small instances of Feed for TLC. *)
EXTENDS Feed

CONSTANTS s1, s2

OneSource == {s1}
TwoSources == {s1, s2}
=============================================================================
