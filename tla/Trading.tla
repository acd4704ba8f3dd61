------------------------------- MODULE Trading --------------------------------
(***************************************************************************)
(* Trading in a channel: the two browsers (web/js/orderbook.js, channel.js) *)
(* post orders in the channel's book, accept each other's, and settle what *)
(* they accept by an update of the channel.                                *)
(*                                                                         *)
(* A browser does not wait for the answers to its requests, and the server *)
(* serves each request in a goroutine of its own, so that requests are     *)
(* served, and answers arrive, in any order.  What a browser knows of the  *)
(* balances and of the book it has polled.                                 *)
(*                                                                         *)
(* The book is the set of its orders (OrderBook has the engine), and an    *)
(* update takes effect at both clients at once (ChannelLifecycle has its   *)
(* steps).                                                                 *)
(***************************************************************************)
EXTENDS Balances, FiniteSets

CONSTANTS
    Assets,     \* the channel's assets
    Orders,     \* records: id, makerIdx, side, base, quote, baseAmount, quoteAmount
    Initial,    \* the balances the channel is opened with
    MaxClicks,  \* bound on the orders accepted
    MaxAnswers, \* bound on the ChannelInfo answers on their way to a browser
    None

OrderType == [id : Nat, makerIdx : Parts, side : {"bid", "ask"}, base : Assets,
              quote : Assets, baseAmount : Nat, quoteAmount : Nat]

ASSUME TradingAssumption ==
    /\ \A o \in Orders : o \in OrderType
    /\ Initial \in [Assets -> [Parts -> Nat]]
    /\ MaxClicks \in Nat /\ MaxAnswers \in Nat
    /\ None \notin [my : [Assets -> Int], peer : [Assets -> Int]]

VARIABLES
    book,     \* the open orders
    rows,     \* the orders a browser shows
    shown,    \* the balances a browser shows
    state,    \* the channel's balances
    cancels,  \* orders whose CancelOrder request the server has not served yet
    updates,  \* UpdateChannel requests the server has not served yet
    infos,    \* ChannelInfo answers on their way
    clicks,   \* how many orders have been accepted
    posted,   \* the orders created: their IDs are not used again
    accepted, \* history: the orders accepted
    agreed    \* history: all balances the channel has had

browser == <<rows, shown, clicks, posted, accepted>>
vars    == <<book, state, cancels, updates, infos, browser, agreed>>

(* A participant is named by its index.                                    *)
View(p, balances) == MakeBals(balances, p, 1 - p)

Init ==
    /\ book = {} /\ state = Initial /\ cancels = {} /\ updates = {}
    /\ rows = [p \in Parts |-> {}] /\ shown = [p \in Parts |-> None]
    /\ infos = [p \in Parts |-> {}]
    /\ clicks = 0 /\ posted = {} /\ accepted = {} /\ agreed = {Initial}

Update(p, n, v) == [from |-> p, click |-> n, to |-> v]

-----------------------------------------------------------------------------
(* The browser of p.                                                       *)

(* CreateOrder leaves nothing in the browser that could tell whether it    *)
(* has been served, so that posting and serving it are one step.           *)
CreateOrder(p, o) ==
    /\ o.makerIdx = p /\ o \notin posted
    /\ posted' = posted \cup {o}
    /\ book' = book \cup {o}
    /\ UNCHANGED <<state, cancels, updates, infos, rows, shown, clicks,
                   accepted, agreed>>

CancelOrder(p, o) ==
    /\ o \in rows[p] /\ o.makerIdx = p
    /\ cancels' = cancels \cup {o}
    /\ UNCHANGED <<book, state, updates, infos, browser, agreed>>

(* What the taker gets of asset a: it pays the base of a bid, which its    *)
(* maker buys, and the quote of an ask.                                    *)
TakerGets(o, a) ==
    LET base  == IF a = o.base THEN o.baseAmount ELSE 0
        quote == IF a = o.quote THEN o.quoteAmount ELSE 0
    IN  IF o.side = "bid" THEN quote - base ELSE base - quote

TakerPaysPeerGets(v, o) ==   \* a slip: bid and ask are mixed up
    [my   |-> [a \in Assets |-> v.my[a] - TakerGets(o, a)],
     peer |-> [a \in Assets |-> v.peer[a] + TakerGets(o, a)]]

(* The mirror updates, on the balances the browser shows.                  *)
Traded(v, o) ==
    [my   |-> [a \in Assets |-> v.my[a] + TakerGets(o, a)],
     peer |-> [a \in Assets |-> v.peer[a] - TakerGets(o, a)]]

AcceptKeepsOrder(p, o) ==   \* a slip: no CancelOrder
    /\ o \in rows[p] /\ o.makerIdx # p /\ clicks < MaxClicks
    /\ clicks' = clicks + 1
    /\ accepted' = accepted \cup {o}
    /\ updates' = IF shown[p] = None THEN updates
                  ELSE updates \cup {Update(p, clicks, Traded(shown[p], o))}
    /\ UNCHANGED cancels
    /\ UNCHANGED <<book, state, infos, rows, shown, posted, agreed>>

(* acceptOrder: AcceptOrder, which changes nothing, CancelOrder and        *)
(* UpdateChannel are sent one after the other; before the first balances   *)
(* have arrived the update fails in the browser.                           *)
AcceptOrder(p, o) ==
    /\ o \in rows[p] /\ o.makerIdx # p /\ clicks < MaxClicks
    /\ clicks' = clicks + 1
    /\ accepted' = accepted \cup {o}
    /\ cancels' = cancels \cup {o}
    /\ updates' = IF shown[p] = None THEN updates
                  ELSE updates \cup {Update(p, clicks, Traded(shown[p], o))}
    /\ UNCHANGED <<book, state, infos, rows, shown, posted, agreed>>

ShowOwn(p, v) ==   \* a slip: only the own balances are kept
    /\ v \in infos[p]
    /\ infos' = [infos EXCEPT ![p] = @ \ {v}]
    /\ shown' = [shown EXCEPT ![p] = [my |-> v.my, peer |-> <<>>]]
    /\ UNCHANGED <<book, state, cancels, updates, rows, clicks, posted, accepted, agreed>>

(* displayChannelInfo.                                                     *)
DisplayChannelInfo(p, v) ==
    /\ v \in infos[p]
    /\ infos' = [infos EXCEPT ![p] = @ \ {v}]
    /\ shown' = [shown EXCEPT ![p] = v]
    /\ UNCHANGED <<book, state, cancels, updates, rows, clicks, posted, accepted, agreed>>

(* GetOrderBook and handleSnapshot.  (The way of this answer is left out:  *)
(* the browser shows the book of its last poll.)                           *)
HandleSnapshot(p) ==
    /\ rows' = [rows EXCEPT ![p] = book]
    /\ UNCHANGED <<book, state, cancels, updates, infos, shown, clicks, posted,
                   accepted, agreed>>

-----------------------------------------------------------------------------
(* The server.                                                             *)

ServeCancel(o) ==
    /\ o \in cancels
    /\ book' = book \ {o}
    /\ cancels' = cancels \ {o}
    /\ UNCHANGED <<state, updates, infos, browser, agreed>>

(* What go-perun lets through: no negative balance, and the same sums.     *)
Acceptable(balances) ==
    \A a \in Assets :
        /\ \A i \in Parts : balances[a][i] >= 0
        /\ balances[a][0] + balances[a][1] = state[a][0] + state[a][1]

(* handleUpdateChannel: the new balances replace the old ones, whatever    *)
(* happened since the browser saw those it computed them from.             *)
UpdateChannel(r) ==
    /\ r \in updates
    /\ ~PerunBalsFail(r.to.my, r.to.peer, r.from, 1 - r.from)
    /\ LET to == MakePerunBals(r.to.my, r.to.peer, r.from, 1 - r.from)
       IN  Acceptable(to) /\ state' = to /\ agreed' = agreed \cup {to}
    /\ updates' = updates \ {r}
    /\ UNCHANGED <<book, cancels, infos, browser>>

(* The update is refused, or the peer rejects it or is late.               *)
UpdateFails(r) ==
    /\ r \in updates
    /\ updates' = updates \ {r}
    /\ UNCHANGED <<book, state, cancels, infos, browser, agreed>>

InfoFromOtherSide(p) ==   \* a slip: the indices are swapped
    /\ Cardinality(infos[p]) < MaxAnswers
    /\ infos' = [infos EXCEPT ![p] = @ \cup {View(1 - p, state)}]
    /\ UNCHANGED <<book, state, cancels, updates, browser, agreed>>

(* handleGetChannelInfo answers a poll of the browser.                     *)
GetChannelInfo(p) ==
    /\ Cardinality(infos[p]) < MaxAnswers
    /\ infos' = [infos EXCEPT ![p] = @ \cup {View(p, state)}]
    /\ UNCHANGED <<book, state, cancels, updates, browser, agreed>>

-----------------------------------------------------------------------------
Next ==
    \/ \E o \in Orders : ServeCancel(o)
    \/ \E r \in updates : UpdateChannel(r) \/ UpdateFails(r)
    \/ \E p \in Parts :
          \/ GetChannelInfo(p) \/ HandleSnapshot(p)
          \/ \E v \in infos[p] : DisplayChannelInfo(p, v)
          \/ \E o \in Orders : CreateOrder(p, o) \/ CancelOrder(p, o) \/ AcceptOrder(p, o)

Spec == Init /\ [][Next]_vars

(* The browser polls the book every five seconds, and every CancelOrder is *)
(* served.                                                                 *)
Fairness ==
    /\ \A o \in Orders : WF_vars(ServeCancel(o))
    /\ \A p \in Parts : WF_vars(HandleSnapshot(p))

FairSpec == Spec /\ Fairness

-----------------------------------------------------------------------------
(* Properties.                                                             *)

Views == [my : [Assets -> Int], peer : [Assets -> Int]]
Updates == [from : Parts, click : Nat, to : Views]

(* Every variable has its type.                                            *)
TypeOK ==
    /\ book \subseteq Orders
    /\ posted \subseteq Orders /\ accepted \subseteq Orders
    /\ rows \in [Parts -> SUBSET Orders]
    /\ shown \in [Parts -> Views \cup {None}] /\ infos \in [Parts -> SUBSET Views]
    /\ state \in [Assets -> [Parts -> Int]]
    /\ agreed \subseteq [Assets -> [Parts -> Int]]
    /\ cancels \subseteq Orders /\ updates \subseteq Updates
    /\ clicks \in 0 .. MaxClicks

(* reqhandler.go:79: what a browser shows is, from its side, a state of    *)
(* the channel, the last or an earlier one: never my share of one state    *)
(* with the peer's of another, nor the two mixed up.                       *)
ShownWasAgreed ==
    \A p \in Parts :
        shown[p] # None => \E b \in agreed : shown[p] = View(p, b)

(* The agreed balances change by whole swaps: whatever requests overtake   *)
(* each other, an update is one order's swap between its maker and its     *)
(* taker, applied to balances that were agreed on.  (Not always to the     *)
(* last: of two orders accepted between two polls the one that is settled  *)
(* last undoes the other, orderbook.js:141.)                               *)
Swap == INSTANCE Swaps WITH current <- state, past <- agreed
ChangesAreSwaps == Swap!Spec

(* orderbook.js:111: an accepted order leaves the book and both browsers   *)
(* for good, whoever shows it for how long and settles it how often.       *)
AcceptedDisappears ==
    \A o \in Orders :
        o \in accepted ~> [](o \notin book /\ \A p \in Parts : o \notin rows[p])
=============================================================================
