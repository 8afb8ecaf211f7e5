-------------------------------- MODULE MCUniverse --------------------------------
(* A small instance of Targeting and Universe for TLC: one universe, whose  *)
(* file lists the second of two symbols at first, a page of one row, and    *)
(* room for one ticker of the rules.                                        *)
EXTENDS Targeting

OneAtFirst == [u \in UniverseId |-> {2}]
UpAtFirst == [c \in Story |-> "Up"]
OneIndustry == <<"energy">>
=============================================================================
