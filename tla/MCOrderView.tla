----------------------------- MODULE MCOrderView -----------------------------
(* Instances of OrderView for TLC.                                         *)
EXTENDS OrderView, TLC

CONSTANTS o1, o2, s1, s2, none

TwoIDs     == {o1, o2}
TwoStreams == {s1, s2}
Symmetry   == Permutations(TwoIDs) \cup Permutations(TwoStreams)
=============================================================================
