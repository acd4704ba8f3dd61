-------------------------------- MODULE Swaps ---------------------------------
(***************************************************************************)
(* What trading in a channel promises: the balances the participants have  *)
(* agreed on change by whole swaps only, each of the amounts of one order  *)
(* between its maker and its taker.  A swap starts from balances that were *)
(* agreed on at some time, the ones its taker had seen.                    *)
(***************************************************************************)
EXTENDS Integers

CONSTANTS
    Assets,  \* the channel's assets
    Orders,  \* orders: makerIdx, side, base, quote, baseAmount, quoteAmount
    Initial  \* the balances the channel is opened with

VARIABLES
    current, \* the balances agreed on
    past     \* all that ever were

(* A bid's maker gets the base and pays the quote, an ask's the reverse.   *)
MakerGets(o, a) ==
    LET base  == IF a = o.base THEN o.baseAmount ELSE 0
        quote == IF a = o.quote THEN o.quoteAmount ELSE 0
    IN  IF o.side = "bid" THEN base - quote ELSE quote - base

Swapped(o, b) ==
    [a \in Assets |-> [i \in {0, 1} |-> IF i = o.makerIdx
                                          THEN b[a][i] + MakerGets(o, a)
                                          ELSE b[a][i] - MakerGets(o, a)]]

Init == current = Initial /\ past = {Initial}

Swap(o, seen) ==
    /\ current' = Swapped(o, seen)
    /\ \A a \in Assets, i \in {0, 1} : current'[a][i] >= 0
    /\ past' = past \cup {current'}

Next == \E o \in Orders : \E seen \in past : Swap(o, seen)

Spec == Init /\ [][Next]_<<current, past>>
=============================================================================
