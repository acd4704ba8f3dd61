------------------------------ MODULE MCTrading -------------------------------
(* An instance of Trading for TLC: a channel with two assets, a bid and an *)
(* ask that its participants can take from each other.                     *)
EXTENDS Trading, TLC

CONSTANTS eth, sol

EthAndSol == {eth, sol}
TwoEach   == [a \in Assets |-> [i \in Parts |-> 2]]
BidAndAsk ==
    { [id |-> 1, makerIdx |-> 0, side |-> "ask", base |-> eth, quote |-> sol,
       baseAmount |-> 1, quoteAmount |-> 2],
      [id |-> 2, makerIdx |-> 1, side |-> "bid", base |-> sol, quote |-> eth,
       baseAmount |-> 1, quoteAmount |-> 1] }
=============================================================================
