-------------------------- MODULE MCClientLifecycle --------------------------
(* An instance of ClientLifecycle for TLC: two sessions that initialize    *)
(* with the same Ethereum address, one with the other's Solana address or  *)
(* with another one, and a lookup of what they share.                      *)
EXTENDS ClientLifecycle, TLC

CONSTANTS s1, s2, g1, e1, a1, a2, none

TwoSessions == {s1, s2}
OneSession  == {s1}
OneGetter   == {g1}
NoGetter    == {}
TheAddresses == {e1, a1, a2}
SameEth     == [s \in Sessions |-> e1]
OtherSol    == [s \in Sessions |-> IF s = s1 THEN a1 ELSE a2]
WantsEth    == [g \in Getters |-> e1]
=============================================================================
