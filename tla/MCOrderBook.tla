----------------------------- MODULE MCOrderBook -----------------------------
(* Instances of OrderBook for TLC.                                         *)
EXTENDS OrderBook

CONSTANTS o1, o2, s1, none

OneID      == {o1}
TwoIDs     == {o1, o2}
OneStream  == {s1}
=============================================================================
