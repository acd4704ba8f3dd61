---------------------------- MODULE MCConnection ----------------------------
(* An instance of Connection for TLC.                                      *)
EXTENDS Connection

CONSTANTS r1, r2, i1, none

TwoRequests == {r1, r2}
OneRequest  == {r1}
OneInternal == {i1}
=============================================================================
