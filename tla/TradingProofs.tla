---------------------------- MODULE TradingProofs -----------------------------
(***************************************************************************)
(* Theorems about the two ways of writing balances and about trading, for  *)
(* any assets, orders, initial balances and number of accepted orders.     *)
(***************************************************************************)
EXTENDS Trading, TLAPS

(* state.go:413, 427: a participant's view of balances and what            *)
(* MakePerunBals makes of it are the same balances, whichever the          *)
(* participant, so that an update that changes nothing changes nothing.    *)
THEOREM ViewAndBack ==
    ASSUME NEW b \in [Assets -> [Parts -> Int]], NEW p \in Parts
    PROVE  LET v == View(p, b)
           IN  /\ ~PerunBalsFail(v.my, v.peer, p, 1 - p)
               /\ MakePerunBals(v.my, v.peer, p, 1 - p) = b
<1> DEFINE v == View(p, b)
<1>1. v = [my |-> [a \in Assets |-> b[a][p]], peer |-> [a \in Assets |-> b[a][1 - p]]]
    BY DEF View, MakeBals
<1>2. ~PerunBalsFail(v.my, v.peer, p, 1 - p)
    BY <1>1 DEF PerunBalsFail, Parts
<1>3. {p, 1 - p} = Parts
    BY DEF Parts
<1>4. ASSUME NEW a \in Assets
      PROVE  [i \in {p, 1 - p} |-> IF i = 1 - p THEN v.peer[a] ELSE v.my[a]] = b[a]
  <2>1. \A i \in Parts : (IF i = 1 - p THEN v.peer[a] ELSE v.my[a]) = b[a][i]
      BY <1>1, <1>3
  <2>2. b[a] \in [Parts -> Int]
      OBVIOUS
  <2> QED BY <1>3, <2>1, <2>2
<1>5. DOMAIN v.my = Assets
    BY <1>1
<1> HIDE DEF v
<1>6. MakePerunBals(v.my, v.peer, p, 1 - p) = [a \in Assets |-> b[a]]
    BY <1>4, <1>5 DEF MakePerunBals
<1>7. b = [a \in Assets |-> b[a]]
    OBVIOUS
<1> QED BY <1>2, <1>6, <1>7 DEF v

LEMMA ViewType ==
    ASSUME NEW b \in [Assets -> [Parts -> Int]], NEW p \in Parts
    PROVE  View(p, b) \in Views
<1>1. 1 - p \in Parts
    BY DEF Parts
<1> QED BY <1>1 DEF View, MakeBals, Views

LEMMA TakerGetsInt ==
    ASSUME NEW o \in Orders, NEW a
    PROVE  TakerGets(o, a) \in Int
<1>1. o \in OrderType
    BY TradingAssumption
<1> QED BY <1>1 DEF TakerGets, OrderType

LEMMA TradedType ==
    ASSUME NEW v \in Views, NEW o \in Orders
    PROVE  Traded(v, o) \in Views
BY TakerGetsInt DEF Traded, Views

LEMMA PerunBalsType ==
    ASSUME NEW v \in Views, NEW p \in Parts
    PROVE  MakePerunBals(v.my, v.peer, p, 1 - p) \in [Assets -> [Parts -> Int]]
<1>1. {p, 1 - p} = Parts
    BY DEF Parts
<1>2. v.my \in [Assets -> Int] /\ v.peer \in [Assets -> Int]
    BY DEF Views
<1> QED BY <1>1, <1>2 DEF MakePerunBals

(* orderbook.js:141: what the update of a taker who has seen the balances  *)
(* b puts in their place is the order's swap of b.                         *)
LEMMA TakersUpdateIsSwap ==
    ASSUME NEW b \in [Assets -> [Parts -> Int]], NEW p \in Parts,
           NEW o \in Orders, o.makerIdx = 1 - p
    PROVE  MakePerunBals(Traded(View(p, b), o).my, Traded(View(p, b), o).peer, p, 1 - p)
               = Swap!Swapped(o, b)
<1> DEFINE v == View(p, b)
           t == Traded(v, o)
           entry(a, i) == IF i = 1 - p THEN t.peer[a] ELSE t.my[a]
           gets(a, i) == IF i = o.makerIdx THEN b[a][i] + Swap!MakerGets(o, a)
                                           ELSE b[a][i] - Swap!MakerGets(o, a)
<1>1. {p, 1 - p} = {0, 1} /\ Parts = {0, 1}
    BY DEF Parts
<1>2. ASSUME NEW a \in Assets
      PROVE  Swap!MakerGets(o, a) \in Int /\ TakerGets(o, a) = 0 - Swap!MakerGets(o, a)
  <2>1. o \in OrderType
      BY TradingAssumption
  <2> QED BY <2>1 DEF Swap!MakerGets, TakerGets, OrderType
<1>3. v = [my |-> [a \in Assets |-> b[a][p]], peer |-> [a \in Assets |-> b[a][1 - p]]]
    BY DEF View, MakeBals
<1>4. t = [my |-> [a \in Assets |-> b[a][p] + TakerGets(o, a)],
           peer |-> [a \in Assets |-> b[a][1 - p] - TakerGets(o, a)]]
    BY <1>3 DEF Traded
<1>5. ASSUME NEW a \in Assets, NEW i \in {0, 1}
      PROVE  entry(a, i) = gets(a, i)
  <2>1. b[a][i] \in Int /\ b[a][p] \in Int /\ b[a][1 - p] \in Int
      BY <1>1
  <2>2. CASE i = 1 - p
      BY <1>2, <1>4, <2>1, <2>2
  <2>3. CASE i # 1 - p
    <3>1. i = p
        BY <1>1, <2>3
    <3> QED BY <1>2, <1>4, <2>1, <2>3, <3>1
  <2> QED BY <2>2, <2>3
<1>6. DOMAIN t.my = Assets
    BY <1>4
<1>7. MakePerunBals(t.my, t.peer, p, 1 - p) = [a \in Assets |-> [i \in {0, 1} |-> entry(a, i)]]
    BY <1>1, <1>6 DEF MakePerunBals
<1>8. Swap!Swapped(o, b) = [a \in Assets |-> [i \in {0, 1} |-> gets(a, i)]]
    BY DEF Swap!Swapped
<1> HIDE DEF entry, gets
<1>9. [a \in Assets |-> [i \in {0, 1} |-> entry(a, i)]]
        = [a \in Assets |-> [i \in {0, 1} |-> gets(a, i)]]
    BY <1>5
<1> QED BY <1>7, <1>8, <1>9

-----------------------------------------------------------------------------
(* The invariant: what is on its way, or shown, stems from balances that   *)
(* were agreed on.                                                         *)

InfoWasAgreed ==
    \A p \in Parts : \A v \in infos[p] : \E b \in agreed : v = View(p, b)

UpdateIsTakers ==
    \A r \in updates : \E b \in agreed, o \in Orders :
        o.makerIdx = 1 - r.from /\ r.to = Traded(View(r.from, b), o)

IInv ==
    /\ TypeOK
    /\ state \in agreed
    /\ InfoWasAgreed
    /\ ShownWasAgreed
    /\ UpdateIsTakers

LEMMA InvInit == Init => IInv
<1> SUFFICES ASSUME Init PROVE IInv
    OBVIOUS
<1>1. TypeOK
  <2>1. Initial \in [Assets -> [Parts -> Int]] /\ MaxClicks \in Nat
      BY TradingAssumption
  <2> QED BY <2>1 DEF Init, TypeOK
<1> QED BY <1>1 DEF Init, IInv, InfoWasAgreed, ShownWasAgreed, UpdateIsTakers

(* A step that leaves the balances, what is on its way and what is shown   *)
(* alone.                                                                  *)
LEMMA QuietStep ==
    ASSUME IInv, TypeOK', UNCHANGED <<state, updates, infos, shown, agreed>>
    PROVE  IInv'
BY DEF IInv, InfoWasAgreed, ShownWasAgreed, UpdateIsTakers

LEMMA InvStep == IInv /\ [Next]_vars => IInv'
<1> SUFFICES ASSUME IInv, [Next]_vars PROVE IInv'
    OBVIOUS
<1> USE DEF IInv
<1>0. TypeOK
    OBVIOUS
<1>1. ASSUME NEW p \in Parts, NEW o \in Orders, CreateOrder(p, o) PROVE IInv'
  <2>1. TypeOK'
      BY <1>0, <1>1 DEF CreateOrder, TypeOK
  <2> QED BY <1>1, <2>1, QuietStep DEF CreateOrder
<1>2. ASSUME NEW p \in Parts, NEW o \in Orders, CancelOrder(p, o) PROVE IInv'
  <2>1. TypeOK'
      BY <1>0, <1>2 DEF CancelOrder, browser, TypeOK
  <2> QED BY <1>2, <2>1, QuietStep DEF CancelOrder, browser
<1>3. ASSUME NEW p \in Parts, NEW o \in Orders, AcceptOrder(p, o) PROVE IInv'
  <2> USE <1>3 DEF AcceptOrder
  <2>1. o.makerIdx = 1 - p
    <3>1. o \in OrderType
        BY TradingAssumption
    <3> QED BY <3>1 DEF OrderType, Parts
  <2>2. shown[p] # None => \E b \in agreed : shown[p] = View(p, b)
      BY DEF ShownWasAgreed
  <2>3. clicks \in Nat /\ MaxClicks \in Nat /\ clicks + 1 \in 0 .. MaxClicks
      BY <1>0, TradingAssumption DEF TypeOK
  <2>4. shown[p] # None => Update(p, clicks, Traded(shown[p], o)) \in Updates
    <3>1. shown[p] # None => shown[p] \in Views
        BY <1>0 DEF TypeOK
    <3>2. shown[p] # None => Traded(shown[p], o) \in Views
        BY <3>1, TradedType
    <3> QED BY <2>3, <3>2 DEF Update, Updates
  <2>5. TypeOK'
      BY <1>0, <2>3, <2>4 DEF TypeOK
  <2>6. UpdateIsTakers'
      BY <2>1, <2>2 DEF UpdateIsTakers, Update
  <2> QED BY <2>5, <2>6 DEF InfoWasAgreed, ShownWasAgreed
<1>4. ASSUME NEW p \in Parts, NEW v \in infos[p], DisplayChannelInfo(p, v) PROVE IInv'
  <2> USE <1>4 DEF DisplayChannelInfo
  <2>1. TypeOK'
      BY <1>0 DEF TypeOK
  <2>2. InfoWasAgreed'
      BY <1>0 DEF InfoWasAgreed, TypeOK
  <2>3. ShownWasAgreed'
      BY <1>0 DEF InfoWasAgreed, ShownWasAgreed, TypeOK
  <2> QED BY <2>1, <2>2, <2>3 DEF UpdateIsTakers
<1>5. ASSUME NEW p \in Parts, HandleSnapshot(p) PROVE IInv'
  <2>1. TypeOK'
      BY <1>0, <1>5 DEF HandleSnapshot, TypeOK
  <2> QED BY <1>5, <2>1, QuietStep DEF HandleSnapshot
<1>6. ASSUME NEW o \in Orders, ServeCancel(o) PROVE IInv'
  <2>1. TypeOK'
      BY <1>0, <1>6 DEF ServeCancel, browser, TypeOK
  <2> QED BY <1>6, <2>1, QuietStep DEF ServeCancel, browser
<1>7. ASSUME NEW r \in updates, UpdateChannel(r) PROVE IInv'
  <2> DEFINE to == MakePerunBals(r.to.my, r.to.peer, r.from, 1 - r.from)
  <2>1. state' = to /\ agreed' = agreed \cup {to} /\ updates' = updates \ {r}
        /\ UNCHANGED <<book, cancels, infos, browser>>
      BY <1>7 DEF UpdateChannel
  <2>2. r.to \in Views /\ r.from \in Parts
      BY <1>0 DEF TypeOK, Updates
  <2>3. to \in [Assets -> [Parts -> Int]]
      BY <2>2, PerunBalsType
  <2> HIDE DEF to
  <2>4. TypeOK'
      BY <1>0, <2>1, <2>3 DEF TypeOK, browser
  <2> QED BY <2>1, <2>4 DEF browser, InfoWasAgreed, ShownWasAgreed, UpdateIsTakers
<1>8. ASSUME NEW r \in updates, UpdateFails(r) PROVE IInv'
  <2>1. TypeOK'
      BY <1>0, <1>8 DEF UpdateFails, browser, TypeOK
  <2> QED BY <1>8, <2>1 DEF UpdateFails, browser, InfoWasAgreed, ShownWasAgreed,
                            UpdateIsTakers
<1>9. ASSUME NEW p \in Parts, GetChannelInfo(p) PROVE IInv'
  <2> USE <1>9 DEF GetChannelInfo, browser
  <2>1. View(p, state) \in Views
      BY <1>0, ViewType DEF TypeOK
  <2>2. TypeOK'
      BY <1>0, <2>1 DEF TypeOK
  <2>3. InfoWasAgreed'
      BY <1>0 DEF InfoWasAgreed, TypeOK
  <2> QED BY <2>2, <2>3 DEF ShownWasAgreed, UpdateIsTakers
<1>10. CASE UNCHANGED vars
  <2>1. TypeOK'
      BY <1>0, <1>10 DEF vars, browser, TypeOK
  <2> QED BY <1>10, <2>1, QuietStep DEF vars, browser
<1> QED BY <1>1, <1>2, <1>3, <1>4, <1>5, <1>6, <1>7, <1>8, <1>9, <1>10 DEF Next

-----------------------------------------------------------------------------
THEOREM Invariance == Spec => []IInv
BY InvInit, InvStep, PTL DEF Spec

(* orderbook.js: what the browsers, the book and the channel hold, and     *)
(* what is on its way between them, has its type.                          *)
THEOREM TypeCorrect == Spec => []TypeOK
<1>1. IInv => TypeOK
    BY DEF IInv
<1> QED BY <1>1, Invariance, PTL

(* reqhandler.go:79: what a browser shows is its side of balances that     *)
(* were agreed on.                                                         *)
THEOREM ShownIsAgreed == Spec => []ShownWasAgreed
<1>1. IInv => ShownWasAgreed
    BY DEF IInv
<1> QED BY <1>1, Invariance, PTL

(* orderbook.js:141: however requests overtake each other, the balances    *)
(* change by whole swaps of balances that were agreed on.                  *)
THEOREM TradingImplementsSwaps == Spec => ChangesAreSwaps
<1>1. Init => Swap!Init
    BY DEF Init, Swap!Init
<1>2. IInv /\ [Next]_vars => [Swap!Next]_<<state, agreed>>
  <2> SUFFICES ASSUME IInv, [Next]_vars PROVE [Swap!Next]_<<state, agreed>>
      OBVIOUS
  <2>1. ASSUME NEW r \in updates, UpdateChannel(r) PROVE Swap!Next
    <3> DEFINE to == MakePerunBals(r.to.my, r.to.peer, r.from, 1 - r.from)
    <3>1. PICK b \in agreed, o \in Orders :
              o.makerIdx = 1 - r.from /\ r.to = Traded(View(r.from, b), o)
        BY DEF IInv, UpdateIsTakers
    <3>2. b \in [Assets -> [Parts -> Int]] /\ r.from \in Parts
        BY DEF IInv, TypeOK, Updates
    <3>3. to = Swap!Swapped(o, b)
        BY <3>1, <3>2, TakersUpdateIsSwap
    <3>4. state' = to /\ agreed' = agreed \cup {to} /\ Acceptable(to)
        BY <2>1 DEF UpdateChannel
    <3>5. \A a \in Assets, i \in {0, 1} : to[a][i] >= 0
        BY <3>4 DEF Acceptable, Parts
    <3> HIDE DEF to
    <3>6. Swap!Swap(o, b)
        BY <3>3, <3>4, <3>5 DEF Swap!Swap
    <3> QED BY <3>6 DEF Swap!Next
  <2>2. ASSUME NEW p \in Parts, NEW o \in Orders,
               CreateOrder(p, o) \/ CancelOrder(p, o) \/ AcceptOrder(p, o)
        PROVE  UNCHANGED <<state, agreed>>
      BY <2>2 DEF CreateOrder, CancelOrder, AcceptOrder
  <2>3. ASSUME NEW p \in Parts, NEW v \in infos[p], DisplayChannelInfo(p, v)
        PROVE  UNCHANGED <<state, agreed>>
      BY <2>3 DEF DisplayChannelInfo
  <2>4. ASSUME NEW p \in Parts, HandleSnapshot(p) \/ GetChannelInfo(p)
        PROVE  UNCHANGED <<state, agreed>>
      BY <2>4 DEF HandleSnapshot, GetChannelInfo
  <2>5. ASSUME NEW o \in Orders, ServeCancel(o) PROVE UNCHANGED <<state, agreed>>
      BY <2>5 DEF ServeCancel
  <2>6. ASSUME NEW r \in updates, UpdateFails(r) PROVE UNCHANGED <<state, agreed>>
      BY <2>6 DEF UpdateFails
  <2>7. CASE UNCHANGED vars
      BY <2>7 DEF vars
  <2> QED BY <2>1, <2>2, <2>3, <2>4, <2>5, <2>6, <2>7 DEF Next
<1> QED BY <1>1, <1>2, Invariance, PTL DEF Spec, ChangesAreSwaps, Swap!Spec
=============================================================================
