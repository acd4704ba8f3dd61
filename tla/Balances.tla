------------------------------- MODULE Balances -------------------------------
(***************************************************************************)
(* The two ways a channel's balances are written (internal/message/        *)
(* state.go).  go-perun has one row per asset with an entry for each       *)
(* participant, 0 and 1; the browsers' messages have a list of one's own   *)
(* balances and a list of the peer's.                                      *)
(***************************************************************************)
EXTENDS Integers

Parts == {0, 1}

(* MakeBals: the balances as participant myIdx sees them.                  *)
MakeBals(balances, myIdx, peerIdx) ==
    [my   |-> [a \in DOMAIN balances |-> balances[a][myIdx]],
     peer |-> [a \in DOMAIN balances |-> balances[a][peerIdx]]]

(* MakePerunBals' two checks; an Index has 16 bits.                        *)
PerunBalsFail(my, peer, myIdx, peerIdx) ==
    DOMAIN my # DOMAIN peer \/ (myIdx + peerIdx) % 65536 > 1

(* MakePerunBals: the entry that is written last stands.                   *)
MakePerunBals(my, peer, myIdx, peerIdx) ==
    [a \in DOMAIN my |-> [i \in {myIdx, peerIdx} |->
                             IF i = peerIdx THEN peer[a] ELSE my[a]]]
=============================================================================
