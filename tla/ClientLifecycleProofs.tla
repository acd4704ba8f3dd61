------------------------ MODULE ClientLifecycleProofs ------------------------
(***************************************************************************)
(* Theorems about the table of clients as ClientLifecycle uses it, for any *)
(* number of sessions and lookups and any addresses.                       *)
(***************************************************************************)
EXTENDS ClientLifecycle, TLAPS

USE DEF Goroutines

(* The parts of a step that touch the table, its lock or its goroutines.   *)
TableStep ==
    \/ \E s \in Sessions : SessionStep(s) \/ OnClose(s)
    \/ \E g \in Getters : Get(g)
    \/ UNCHANGED regVars

LEMMA StepsOfTable == [Next]_vars => TableStep
<1> SUFFICES ASSUME [Next]_vars PROVE TableStep
    OBVIOUS
<1>1. ASSUME NEW s \in Sessions, Table(s) PROVE TableStep
    BY <1>1 DEF Table, TableStep
<1>2. ASSUME NEW g \in Getters, Lookup(g) PROVE TableStep
    BY <1>2 DEF Lookup, TableStep
<1>3. ASSUME NEW s \in Sessions, NEW c \in Callers, Shutdown(s, c) PROVE TableStep
    BY <1>3 DEF Shutdown, CloseConnection, HandlerDone, CloseWebsocket,
                CloseClient, TableStep
<1>4. ASSUME NEW s \in Sessions,
             \/ Start(s) \/ Wait(s) \/ HandleEnds(s) \/ ProposalsEnd(s)
             \/ RunShutsDown(s) \/ CloseWithError(s)
      PROVE  TableStep
    BY <1>4 DEF Start, Wait, HandleEnds, ProposalsEnd, RunShutsDown,
                CloseWithError, TableStep
<1>5. CASE UNCHANGED vars
    BY <1>5 DEF vars, TableStep
<1> QED BY <1>1, <1>2, <1>3, <1>4, <1>5 DEF Next

-----------------------------------------------------------------------------
(* The lock: how many read locks a goroutine holds follows from where it   *)
(* stands.                                                                 *)

Depth(label) == CASE label = "locked twice"           -> 2
                  [] label \in {"locked", "look up"}  -> 1
                  [] OTHER                            -> 0

RegTypeOK ==
    /\ m \subseteq Sessions
    /\ DOMAIN l2Addresses \subseteq Addresses
    /\ \A a \in DOMAIN l2Addresses : l2Addresses[a] \in Sessions
    /\ readers \in [Goroutines -> 0 .. 2]
    /\ announced \in Sessions \cup {None}
    /\ pc \in [Goroutines -> SessionLabels \cup GetterLabels]
    /\ \A s \in Sessions : pc[s] \in SessionLabels
    /\ \A g \in Getters : pc[g] \in GetterLabels
    /\ l2 \in [Goroutines -> Sessions \cup {None}]
    /\ result \in [Getters -> Sessions \cup {None}]
    /\ \A p \in Goroutines : readers[p] = Depth(pc[p])

LifeTypeOK ==
    /\ run \in [Sessions -> {"off", "started", "waiting", "awake"}]
    /\ handling \in [Sessions -> BOOLEAN] /\ proposing \in [Sessions -> BOOLEAN]
    /\ step \in [Sessions -> [Callers -> Steps]]
    /\ closed \in [Sessions -> BOOLEAN]
    /\ wsOpen \in [Sessions -> BOOLEAN] /\ perunOpen \in [Sessions -> BOOLEAN]

LEMMA RegTypeInit == Init => RegTypeOK
<1> SUFFICES ASSUME Init PROVE RegTypeOK
    OBVIOUS
<1> USE Distinct DEF Init, RegInit, SessionLabels, GetterLabels
<1>1. pc \in [Goroutines -> SessionLabels \cup GetterLabels]
    OBVIOUS
<1>2. \A p \in Goroutines : readers[p] = 0 /\ pc[p] \in {"register", "get"}
    OBVIOUS
<1>3. \A p \in Goroutines : readers[p] = Depth(pc[p])
    BY <1>2 DEF Depth
<1>4. \A s \in Sessions : pc[s] = "register"
    OBVIOUS
<1>5. \A g \in Getters : pc[g] = "get"
    OBVIOUS
<1>6. readers \in [Goroutines -> 0 .. 2] /\ l2 \in [Goroutines -> Sessions \cup {None}]
      /\ result \in [Getters -> Sessions \cup {None}]
    OBVIOUS
<1> QED BY <1>1, <1>3, <1>4, <1>5, <1>6 DEF RegTypeOK

(* A getter goes on with the locks that go with where it goes.             *)
Placed == /\ readers \in [Goroutines -> 0 .. 2]
          /\ pc \in [Goroutines -> SessionLabels \cup GetterLabels]
          /\ \A s \in Sessions : pc[s] \in SessionLabels
          /\ \A g \in Getters : pc[g] \in GetterLabels
          /\ \A p \in Goroutines : readers[p] = Depth(pc[p])

LEMMA GetterPlaced ==
  ASSUME RegTypeOK, NEW g \in Getters, NEW label \in GetterLabels,
         NEW n \in 0 .. 2, n = Depth(label),
         readers' = [readers EXCEPT ![g] = n], pc' = [pc EXCEPT ![g] = label]
  PROVE  Placed'
<1> USE Distinct DEF RegTypeOK
<1>1. ASSUME NEW p \in Goroutines PROVE readers'[p] = Depth(pc'[p])
  <2>1. CASE p = g
      BY <2>1
  <2>2. CASE p # g
      BY <2>2
  <2> QED BY <2>1, <2>2
<1>2. readers' \in [Goroutines -> 0 .. 2]
      /\ pc' \in [Goroutines -> SessionLabels \cup GetterLabels]
    OBVIOUS
<1>3. ASSUME NEW s \in Sessions PROVE pc'[s] \in SessionLabels
    OBVIOUS
<1>4. ASSUME NEW h \in Getters PROVE pc'[h] \in GetterLabels
    OBVIOUS
<1> QED BY <1>1, <1>2, <1>3, <1>4 DEF Placed

LEMMA GetterTypes ==
  ASSUME RegTypeOK, NEW g \in Getters, Get(g) PROVE RegTypeOK'
<1> USE Distinct
<1>1. /\ Depth("get") = 0 /\ Depth("locked") = 1 /\ Depth("locked twice") = 2
      /\ Depth("look up") = 1 /\ Depth("got") = 0
    BY DEF Depth
<1>2. readers[g] = Depth(pc[g]) /\ g \in Goroutines
    BY DEF RegTypeOK
<1>3. CASE GetLock(g)
  <2>1. readers[g] = 0 /\ readers' = [readers EXCEPT ![g] = readers[g] + 1]
      BY <1>1, <1>2, <1>3 DEF GetLock
  <2>2. readers' = [readers EXCEPT ![g] = 1] /\ pc' = [pc EXCEPT ![g] = "locked"]
    <3>1. readers' = [readers EXCEPT ![g] = 1]
        BY <2>1
    <3>2. pc' = [pc EXCEPT ![g] = "locked"]
        BY <1>3 DEF GetLock, Goto
    <3> QED BY <3>1, <3>2
  <2>3. Placed'
    <3>1. "locked" \in GetterLabels
        BY DEF GetterLabels
    <3>2. 1 \in 0 .. 2
        OBVIOUS
    <3>3. 1 = Depth("locked")
        BY DEF Depth
    <3> QED BY <3>1, <3>2, <3>3, <2>2, GetterPlaced
  <2> QED BY <1>3, <2>3 DEF GetLock, tableVars, RegTypeOK, Placed
<1>4. CASE GetLockAgain(g)
  <2>1. readers[g] = 1 /\ readers' = [readers EXCEPT ![g] = readers[g] + 1]
      BY <1>1, <1>2, <1>4 DEF GetLockAgain
  <2>2. readers' = [readers EXCEPT ![g] = 2] /\ pc' = [pc EXCEPT ![g] = "locked twice"]
    <3>1. readers' = [readers EXCEPT ![g] = 2]
        BY <2>1
    <3>2. pc' = [pc EXCEPT ![g] = "locked twice"]
        BY <1>4 DEF GetLockAgain, Goto
    <3> QED BY <3>1, <3>2
  <2>3. Placed'
    <3>1. "locked twice" \in GetterLabels
        BY DEF GetterLabels
    <3>2. 2 \in 0 .. 2
        OBVIOUS
    <3>3. 2 = Depth("locked twice")
        BY DEF Depth
    <3> QED BY <3>1, <3>2, <3>3, <2>2, GetterPlaced
  <2> QED BY <1>4, <2>3 DEF GetLockAgain, tableVars, RegTypeOK, Placed
<1>5. CASE GetL2Address(g)
  <2>1. readers[g] = 2 /\ readers' = [readers EXCEPT ![g] = readers[g] - 1]
      BY <1>1, <1>2, <1>5 DEF GetL2Address
  <2>2. readers' = [readers EXCEPT ![g] = 1] /\ pc' = [pc EXCEPT ![g] = "look up"]
    <3>1. readers' = [readers EXCEPT ![g] = 1]
        BY <2>1
    <3>2. pc' = [pc EXCEPT ![g] = "look up"]
        BY <1>5 DEF GetL2Address, Goto
    <3> QED BY <3>1, <3>2
  <2>3. Placed'
    <3>1. "look up" \in GetterLabels
        BY DEF GetterLabels
    <3>2. 1 \in 0 .. 2
        OBVIOUS
    <3>3. 1 = Depth("look up")
        BY DEF Depth
    <3> QED BY <3>1, <3>2, <3>3, <2>2, GetterPlaced
  <2>4. L2Of(Wanted[g]) \in Sessions \cup {None}
      BY DEF L2Of, RegTypeOK
  <2> QED BY <1>5, <2>3, <2>4 DEF GetL2Address, tableVars, RegTypeOK, Placed
<1>6. CASE LookUp(g)
  <2>1. readers[g] = 1 /\ readers' = [readers EXCEPT ![g] = readers[g] - 1]
      BY <1>1, <1>2, <1>6 DEF LookUp
  <2>2. readers' = [readers EXCEPT ![g] = 0] /\ pc' = [pc EXCEPT ![g] = "got"]
    <3>1. readers' = [readers EXCEPT ![g] = 0]
        BY <2>1
    <3>2. pc' = [pc EXCEPT ![g] = "got"]
        BY <1>6 DEF LookUp, Goto
    <3> QED BY <3>1, <3>2
  <2>3. Placed'
    <3>1. "got" \in GetterLabels
        BY DEF GetterLabels
    <3>2. 0 \in 0 .. 2
        OBVIOUS
    <3>3. 0 = Depth("got")
        BY DEF Depth
    <3> QED BY <3>1, <3>2, <3>3, <2>2, GetterPlaced
  <2>4. result' \in [Getters -> Sessions \cup {None}]
      BY <1>6 DEF LookUp, RegTypeOK
  <2> QED BY <1>6, <2>3, <2>4 DEF LookUp, tableVars, RegTypeOK, Placed
<1> QED BY <1>3, <1>4, <1>5, <1>6 DEF Get

LEMMA RegTypeStep == RegTypeOK /\ TableStep => RegTypeOK'
<1> SUFFICES ASSUME RegTypeOK, TableStep PROVE RegTypeOK'
    OBVIOUS
<1> USE Distinct DEF RegTypeOK, Depth, SessionLabels, GetterLabels, Goto
<1>1. ASSUME NEW s \in Sessions, Announce(s) PROVE RegTypeOK'
    BY <1>1 DEF Announce, tableVars
<1>2. ASSUME NEW s \in Sessions, Register(s) PROVE RegTypeOK'
  <2> DEFINE own == {Eth[s], Sol[s]}
  <2>1. own \subseteq Addresses
    <3> HIDE DEF RegTypeOK
    <3>1. Eth[s] \in Addresses /\ Sol[s] \in Addresses
        BY SessionAddresses
    <3> QED BY <3>1
  <2>2. DOMAIN l2Addresses' = DOMAIN l2Addresses \cup own
      BY <1>2 DEF Register
  <2>3. ASSUME NEW a \in DOMAIN l2Addresses' PROVE l2Addresses'[a] \in Sessions
      BY <1>2, <2>2 DEF Register
  <2>4. /\ pc' \in [Goroutines -> SessionLabels \cup GetterLabels]
        /\ \A t \in Sessions : pc'[t] \in SessionLabels
        /\ \A g \in Getters : pc'[g] \in GetterLabels
        /\ \A p \in Goroutines : readers'[p] = Depth(pc'[p])
      BY <1>2 DEF Register
  <2>5. m' \subseteq Sessions /\ announced' = None /\ UNCHANGED <<readers, l2, result>>
      BY <1>2 DEF Register
  <2> HIDE DEF own
  <2> QED BY <2>1, <2>2, <2>3, <2>4, <2>5
<1>3. ASSUME NEW s \in Sessions, Refuse(s) PROVE RegTypeOK'
    BY <1>3 DEF Refuse, tableVars
<1>4. ASSUME NEW s \in Sessions, NEW from, NEW to \in {"delete eth", "delete sol"},
             NEW a, ReadL2(s, from, to, a), pc[s] \in SessionLabels
      PROVE  RegTypeOK'
  <2>1. L2Of(a) \in Sessions \cup {None}
      BY DEF L2Of
  <2>2. from = pc[s] /\ from \in SessionLabels /\ Depth(from) = 0 /\ Depth(to) = 0
      BY <1>4 DEF ReadL2
  <2> QED BY <1>4, <2>1, <2>2 DEF ReadL2, tableVars, lockVars
<1>5. ASSUME NEW s \in Sessions, NEW from, NEW to \in {"remove sol", "removed"},
             NEW a, Delete(s, from, to, a)
      PROVE  RegTypeOK'
    BY <1>5 DEF Delete
<1>6. ASSUME NEW s \in Sessions, Remove(s) PROVE RegTypeOK'
  <2> HIDE DEF RegTypeOK, Depth, GetterLabels, Goto
  <2>1. pc[s] \in SessionLabels
      BY DEF RegTypeOK
  <2> QED BY <1>4, <1>5, <1>6, <2>1 DEF Remove
<1>7. ASSUME NEW s \in Sessions, OnClose(s) PROVE RegTypeOK'
    BY <1>7 DEF OnClose, tableVars, lockVars
<1>8. ASSUME NEW g \in Getters, Get(g) PROVE RegTypeOK'
    BY <1>8, GetterTypes
<1>9. CASE UNCHANGED regVars
    BY <1>9 DEF regVars, tableVars, lockVars
<1> QED
  <2> HIDE DEF RegTypeOK, Depth, SessionLabels, GetterLabels, Goto
  <2> QED BY <1>1, <1>2, <1>3, <1>6, <1>7, <1>8, <1>9 DEF TableStep, SessionStep

LEMMA LifeTypeStep == LifeTypeOK /\ [Next]_vars => LifeTypeOK'
<1> SUFFICES ASSUME LifeTypeOK, [Next]_vars PROVE LifeTypeOK'
    OBVIOUS
<1>1. ASSUME UNCHANGED lifeVars PROVE LifeTypeOK'
    BY <1>1 DEF lifeVars, LifeTypeOK
<1>2. ASSUME NEW s \in Sessions, Start(s) PROVE LifeTypeOK'
    BY <1>2 DEF Start, LifeTypeOK
<1>3. ASSUME NEW s \in Sessions, Wait(s) PROVE LifeTypeOK'
    BY <1>3 DEF Wait, LifeTypeOK
<1>4. ASSUME NEW s \in Sessions, HandleEnds(s) \/ ProposalsEnd(s)
      PROVE  LifeTypeOK'
    BY <1>4 DEF HandleEnds, ProposalsEnd, Signal, LifeTypeOK
<1>5. ASSUME NEW s \in Sessions, NEW c \in Callers, NEW here, NEW next \in Steps,
             At(s, c, here, next)
      PROVE  step' \in [Sessions -> [Callers -> Steps]]
    BY <1>5 DEF At, LifeTypeOK
<1>6. ASSUME NEW s \in Sessions, RunShutsDown(s) \/ CloseWithError(s)
      PROVE  LifeTypeOK'
  <2>1. step' \in [Sessions -> [Callers -> Steps]]
      BY <1>5, <1>6 DEF RunShutsDown, CloseWithError, Callers, Steps
  <2> QED BY <1>6, <2>1 DEF RunShutsDown, CloseWithError, LifeTypeOK
<1>7. ASSUME NEW s \in Sessions, NEW c \in Callers, Shutdown(s, c)
      PROVE  LifeTypeOK'
  <2>1. step' \in [Sessions -> [Callers -> Steps]]
      BY <1>5, <1>7 DEF Shutdown, CloseConnection, HandlerDone, CloseWebsocket,
                        CloseClient, Steps
  <2> QED BY <1>7, <2>1 DEF Shutdown, CloseConnection, HandlerDone,
                            CloseWebsocket, CloseClient, LifeTypeOK
<1>8. CASE UNCHANGED vars
    BY <1>1, <1>8 DEF vars
<1> QED
    BY <1>1, <1>2, <1>3, <1>4, <1>6, <1>7, <1>8 DEF Next, Table, Lookup

(* The table, the lock and the life of every client keep their types; Get  *)
(* (registry.go:84) never gives back a read lock it does not hold.         *)
THEOREM TypeCorrect == Spec => []TypeOK
<1>1. Init => RegTypeOK /\ LifeTypeOK
  <2>1. Init => LifeTypeOK
      BY DEF Init, LifeTypeOK, Steps
  <2> QED BY <2>1, RegTypeInit
<1>2. RegTypeOK /\ LifeTypeOK /\ [Next]_vars => (RegTypeOK /\ LifeTypeOK)'
    BY StepsOfTable, RegTypeStep, LifeTypeStep
<1>3. RegTypeOK /\ LifeTypeOK => TypeOK
    BY DEF RegTypeOK, LifeTypeOK, TypeOK
<1> QED BY <1>1, <1>2, <1>3, PTL DEF Spec

LEMMA RegTypeCorrect == Spec => []RegTypeOK
BY RegTypeInit, StepsOfTable, RegTypeStep, PTL DEF Spec

-----------------------------------------------------------------------------
(* What a session owns in the table, label by label.  Between its two      *)
(* Remove calls a session keeps its Solana address and no client; the L2   *)
(* address it has read before a delete is its own.                         *)

Registered(s) == /\ s \in m
                 /\ \A a \in AddressesOf(s) : L2Of(a) = s

HalfRemoved(s) == /\ s \notin m
                  /\ L2Of(Sol[s]) = s
                  /\ L2Of(Eth[s]) # s

Unregistered(s) == s \notin m /\ \A a \in AddressesOf(s) : L2Of(a) # s

SessionInv(s) ==
    /\ pc[s] \in {"register", "refused", "removed"} => Unregistered(s)
    /\ pc[s] \in {"running", "remove eth", "delete eth"} => Registered(s)
    /\ pc[s] \in {"remove sol", "delete sol"} => HalfRemoved(s)
    /\ pc[s] \in {"delete eth", "delete sol"} => l2[s] = s

(* An address in the table belongs to the session it leads to.             *)
OwnAddresses ==
    \A a \in DOMAIN l2Addresses : a \in AddressesOf(l2Addresses[a])

TableInv == OwnAddresses /\ \A s \in Sessions : SessionInv(s)

LEMMA TableInit == Init => TableInv
BY Distinct DEF Init, RegInit, TableInv, OwnAddresses, SessionInv, Unregistered, L2Of

(* Steps that leave the table alone.                                       *)
LEMMA TableKept ==
  ASSUME TableInv, UNCHANGED tableVars,
         NEW s \in Sessions, UNCHANGED <<pc[s], l2[s]>>
  PROVE  SessionInv(s)'
BY DEF TableInv, SessionInv, Registered, HalfRemoved, Unregistered, L2Of, tableVars,
       AddressesOf

LEMMA RegisterKeepsTable ==
  ASSUME TableInv, RegTypeOK, NEW s \in Sessions, Register(s)
  PROVE  TableInv'
<1>1. \A a : L2Of(a)' = IF a \in AddressesOf(s) THEN s ELSE L2Of(a)
    BY DEF Register, L2Of, AddressesOf
<1>2. \A a \in AddressesOf(s) : L2Of(a) = None
    BY DEF Register, Taken, L2Of, AddressesOf
<1>3. m' = m \cup {s} /\ l2' = l2 /\ pc' = [pc EXCEPT ![s] = "running"]
    BY DEF Register, Goto
<1>4. s # None /\ Eth[s] # Sol[s]
    BY Distinct, SessionAddresses
<1>5. ASSUME NEW t \in Sessions, t # s PROVE SessionInv(t)'
  <2>1. SessionInv(t) /\ pc'[t] = pc[t] /\ l2'[t] = l2[t] /\ t # None
      BY <1>3, <1>5, Distinct DEF TableInv, RegTypeOK
  <2>2. t \in m' <=> t \in m
      BY <1>3, <1>5
  <2>3. \A a : L2Of(a) = t => L2Of(a)' = t
      BY <1>1, <1>2, <2>1
  <2>4. \A a : L2Of(a)' = t => L2Of(a) = t
      BY <1>1, <1>5
  <2>5. AddressesOf(t)' = AddressesOf(t)
      BY DEF AddressesOf
  <2> QED BY <2>1, <2>2, <2>3, <2>4, <2>5
          DEF SessionInv, Registered, HalfRemoved, Unregistered
<1>6. SessionInv(s)'
  <2>1. pc'[s] = "running"
      BY <1>3 DEF RegTypeOK
  <2>2. Registered(s)'
      BY <1>1, <1>3 DEF Registered, AddressesOf
  <2> QED BY <2>1, <2>2 DEF SessionInv
<1>7. OwnAddresses'
  <2> SUFFICES ASSUME NEW a \in DOMAIN l2Addresses'
               PROVE  a \in AddressesOf(l2Addresses'[a])
      BY DEF OwnAddresses, AddressesOf
  <2>1. CASE a \in AddressesOf(s)
      BY <2>1 DEF Register, AddressesOf
  <2>2. CASE a \notin AddressesOf(s)
    <3>1. a \in DOMAIN l2Addresses /\ l2Addresses'[a] = l2Addresses[a]
        BY <2>2 DEF Register, AddressesOf
    <3> QED BY <3>1 DEF TableInv, OwnAddresses
  <2> QED BY <2>1, <2>2
<1> QED BY <1>5, <1>6, <1>7 DEF TableInv

LEMMA DeleteKeepsOthers ==
  ASSUME TableInv, RegTypeOK, NEW s \in Sessions, NEW from, NEW to,
         NEW a \in AddressesOf(s), l2[s] = s, L2Of(a) = s,
         Delete(s, from, to, a)
  PROVE  /\ \A b : L2Of(b)' = IF b = a THEN None ELSE L2Of(b)
         /\ m' = m \ {s}
         /\ pc' = [pc EXCEPT ![s] = to]
         /\ l2' = l2
         /\ OwnAddresses'
         /\ \A t \in Sessions \ {s} : SessionInv(t)'
<1>1. \A b : L2Of(b)' = IF b = a THEN None ELSE L2Of(b)
    BY DEF Delete, L2Of
<1>2. m' = m \ {s}
  <2>1. a \notin m
      BY Distinct, SessionAddresses DEF RegTypeOK, AddressesOf
  <2> QED BY <2>1 DEF Delete
<1>3. pc' = [pc EXCEPT ![s] = to] /\ l2' = l2
    BY DEF Delete, Goto
<1>4. OwnAddresses'
    BY DEF Delete, OwnAddresses, TableInv, AddressesOf
<1>5. ASSUME NEW t \in Sessions \ {s} PROVE SessionInv(t)'
  <2>1. SessionInv(t) /\ pc'[t] = pc[t] /\ l2'[t] = l2[t] /\ t # None
      BY <1>3, Distinct DEF TableInv, RegTypeOK
  <2>2. t \in m' <=> t \in m
      BY <1>2
  <2>3. \A b : L2Of(b)' = t <=> L2Of(b) = t
      BY <1>1, <2>1
  <2>4. AddressesOf(t)' = AddressesOf(t)
      BY DEF AddressesOf
  <2> QED BY <2>1, <2>2, <2>3, <2>4
          DEF SessionInv, Registered, HalfRemoved, Unregistered
<1> QED BY <1>1, <1>2, <1>3, <1>4, <1>5

LEMMA RemoveKeepsTable ==
  ASSUME TableInv, RegTypeOK, NEW s \in Sessions, Remove(s)
  PROVE  TableInv'
<1>1. SessionInv(s) /\ s # None /\ Eth[s] # Sol[s]
      /\ Eth[s] \in AddressesOf(s) /\ Sol[s] \in AddressesOf(s)
    BY Distinct, SessionAddresses DEF TableInv, AddressesOf
<1>2. ASSUME NEW from, NEW to, NEW a, ReadL2(s, from, to, a), L2Of(a) = s,
             \/ from = "remove eth" /\ to = "delete eth"
             \/ from = "remove sol" /\ to = "delete sol"
      PROVE  TableInv'
  <2>1. UNCHANGED tableVars /\ pc[s] = from /\ pc'[s] = to /\ l2'[s] = s
      BY <1>2 DEF ReadL2, Goto, RegTypeOK
  <2>2. ASSUME NEW t \in Sessions, t # s PROVE SessionInv(t)'
    <3>1. pc'[t] = pc[t] /\ l2'[t] = l2[t]
        BY <1>2, <2>2 DEF ReadL2, Goto, RegTypeOK
    <3> QED BY <2>1, <3>1, TableKept
  <2>3. /\ Registered(s) => Registered(s)'
        /\ HalfRemoved(s) => HalfRemoved(s)'
      BY <2>1 DEF Registered, HalfRemoved, L2Of, tableVars, AddressesOf
  <2>4. SessionInv(s)'
      BY <1>1, <1>2, <2>1, <2>3 DEF SessionInv
  <2>5. OwnAddresses'
      BY <2>1 DEF TableInv, OwnAddresses, tableVars, AddressesOf
  <2> QED BY <2>2, <2>4, <2>5 DEF TableInv
<1>3. CASE ReadL2(s, "remove eth", "delete eth", Eth[s])
  <2>1. L2Of(Eth[s]) = s
      BY <1>1, <1>3 DEF ReadL2, SessionInv, Registered
  <2> QED BY <1>2, <1>3, <2>1
<1>4. CASE ReadL2(s, "remove sol", "delete sol", Sol[s])
  <2>1. L2Of(Sol[s]) = s
      BY <1>1, <1>4 DEF ReadL2, SessionInv, HalfRemoved
  <2> QED BY <1>2, <1>4, <2>1
<1>5. CASE Delete(s, "delete eth", "remove sol", Eth[s])
  <2>1. Registered(s) /\ l2[s] = s
      BY <1>1, <1>5 DEF Delete, SessionInv
  <2>2. L2Of(Eth[s]) = s /\ L2Of(Sol[s]) = s
      BY <1>1, <2>1 DEF Registered
  <2>3. /\ \A b : L2Of(b)' = IF b = Eth[s] THEN None ELSE L2Of(b)
        /\ m' = m \ {s}
        /\ pc' = [pc EXCEPT ![s] = "remove sol"]
        /\ OwnAddresses'
        /\ \A t \in Sessions \ {s} : SessionInv(t)'
      BY <1>1, <1>5, <2>1, <2>2, DeleteKeepsOthers
  <2>4. HalfRemoved(s)'
      BY <1>1, <2>2, <2>3 DEF HalfRemoved
  <2>5. pc'[s] = "remove sol"
      BY <2>3 DEF RegTypeOK
  <2>6. SessionInv(s)'
      BY <2>4, <2>5 DEF SessionInv
  <2> QED BY <2>3, <2>6 DEF TableInv
<1>6. CASE Delete(s, "delete sol", "removed", Sol[s])
  <2>1. HalfRemoved(s) /\ l2[s] = s
      BY <1>1, <1>6 DEF Delete, SessionInv
  <2>2. L2Of(Eth[s]) # s /\ L2Of(Sol[s]) = s
      BY <1>1, <2>1 DEF HalfRemoved
  <2>3. /\ \A b : L2Of(b)' = IF b = Sol[s] THEN None ELSE L2Of(b)
        /\ m' = m \ {s}
        /\ pc' = [pc EXCEPT ![s] = "removed"]
        /\ OwnAddresses'
        /\ \A t \in Sessions \ {s} : SessionInv(t)'
      BY <1>1, <1>6, <2>1, <2>2, DeleteKeepsOthers
  <2>4. Unregistered(s)'
      BY <1>1, <2>2, <2>3 DEF Unregistered, AddressesOf
  <2>5. pc'[s] = "removed"
      BY <2>3 DEF RegTypeOK
  <2>6. SessionInv(s)'
      BY <2>4, <2>5 DEF SessionInv
  <2> QED BY <2>3, <2>6 DEF TableInv
<1> QED BY <1>3, <1>4, <1>5, <1>6 DEF Remove

(* The other steps leave the table alone and keep every session where it   *)
(* owns the same part of it.                                               *)
LEMMA OtherStepsKeepTable ==
  ASSUME TableInv, RegTypeOK, UNCHANGED tableVars,
         \A t \in Sessions :
             l2'[t] = l2[t] /\ (\/ pc'[t] = pc[t]
                                \/ pc[t] = "running" /\ pc'[t] = "remove eth"
                                \/ pc[t] = "register" /\ pc'[t] = "refused")
  PROVE  TableInv'
<1>1. ASSUME NEW t \in Sessions PROVE SessionInv(t)'
  <2>1. CASE pc'[t] = pc[t]
      BY <2>1, TableKept
  <2>2. /\ Registered(t) => Registered(t)'
        /\ Unregistered(t) => Unregistered(t)'
      BY DEF Registered, Unregistered, L2Of, tableVars, AddressesOf
  <2>3. CASE pc'[t] # pc[t]
      BY <2>2, <2>3 DEF TableInv, SessionInv
  <2> QED BY <2>1, <2>3
<1>2. OwnAddresses'
    BY DEF TableInv, OwnAddresses, tableVars, AddressesOf
<1> QED BY <1>1, <1>2 DEF TableInv

LEMMA TableStepInv == TableInv /\ RegTypeOK /\ TableStep => TableInv'
<1> SUFFICES ASSUME TableInv, RegTypeOK, TableStep PROVE TableInv'
    OBVIOUS
<1>1. ASSUME NEW s \in Sessions, Announce(s) \/ Refuse(s) \/ OnClose(s)
      PROVE  TableInv'
  <2>1. UNCHANGED tableVars
      BY <1>1 DEF Announce, Refuse, OnClose
  <2>2. ASSUME NEW t \in Sessions
        PROVE  l2'[t] = l2[t] /\ (\/ pc'[t] = pc[t]
                                  \/ pc[t] = "running" /\ pc'[t] = "remove eth"
                                  \/ pc[t] = "register" /\ pc'[t] = "refused")
      BY <1>1 DEF Announce, Refuse, OnClose, Goto, RegTypeOK
  <2> QED BY <2>1, <2>2, OtherStepsKeepTable
<1>2. ASSUME NEW g \in Getters, Get(g) PROVE TableInv'
  <2>1. UNCHANGED tableVars
      BY <1>2 DEF Get, GetLock, GetLockAgain, GetL2Address, LookUp
  <2>2. ASSUME NEW t \in Sessions PROVE l2'[t] = l2[t] /\ pc'[t] = pc[t]
    <3>1. t # g
        BY Distinct
    <3>2. CASE GetLock(g)
        BY <3>1, <3>2 DEF GetLock, Goto, RegTypeOK
    <3>3. CASE GetLockAgain(g)
        BY <3>1, <3>3 DEF GetLockAgain, Goto, RegTypeOK
    <3>4. CASE GetL2Address(g)
        BY <3>1, <3>4 DEF GetL2Address, Goto, RegTypeOK
    <3>5. CASE LookUp(g)
        BY <3>1, <3>5 DEF LookUp, Goto, RegTypeOK
    <3> QED BY <1>2, <3>2, <3>3, <3>4, <3>5 DEF Get
  <2> QED BY <2>1, <2>2, OtherStepsKeepTable
<1>3. CASE UNCHANGED regVars
    BY <1>3, OtherStepsKeepTable DEF regVars
<1> QED BY <1>1, <1>2, <1>3, RegisterKeepsTable, RemoveKeepsTable
        DEF TableStep, SessionStep

LEMMA TableCorrect == Spec => []TableInv
<1>1. RegTypeOK /\ TableInv /\ [Next]_vars => TableInv'
    BY StepsOfTable, TableStepInv
<1> QED BY <1>1, TableInit, RegTypeCorrect, PTL DEF Spec

(* The two Remove calls of a close handler (entrypoint.go, registry.go:74) *)
(* never take a running session's client or addresses out of the table.    *)
THEOREM RunningStaysRegistered == Spec => []RunningIsRegistered
<1>1. TableInv => RunningIsRegistered
    BY DEF TableInv, SessionInv, Registered, RunningIsRegistered
<1> QED BY <1>1, TableCorrect, PTL

(* After both its Remove calls (registry.go:74), and after a refused       *)
(* Register, a session has left nothing in the table.                      *)
THEOREM RemovedLeavesNothing == Spec => []RemovedIsForgotten
<1>1. TableInv => RemovedIsForgotten
  <2> SUFFICES ASSUME TableInv, NEW s \in Sessions, pc[s] \in {"refused", "removed"}
               PROVE  s \notin m /\ \A a \in DOMAIN l2Addresses : l2Addresses[a] # s
      BY DEF RemovedIsForgotten
  <2>1. Unregistered(s)
      BY DEF TableInv, SessionInv
  <2> QED BY <2>1 DEF Unregistered, TableInv, OwnAddresses, L2Of
<1> QED BY <1>1, TableCorrect, PTL

(* The websocket is closed by whoever has seen the close handler end, and  *)
(* a removed session stays removed.                                        *)
Gone ==
    \A s \in Sessions :
        ~wsOpen[s] \/ (\E c \in Callers : step[s][c] = "close websocket") =>
            pc[s] = "removed"

LEMMA RemovedStays ==
  ASSUME RegTypeOK, TableStep, NEW s \in Sessions, pc[s] = "removed"
  PROVE  pc'[s] = "removed"
<1> USE DEF RegTypeOK, Goto
<1>1. ASSUME NEW t \in Sessions, SessionStep(t) \/ OnClose(t) PROVE pc'[s] = "removed"
    BY <1>1 DEF SessionStep, OnClose, Announce, Register, Refuse, Remove, ReadL2, Delete,
                Writing
<1>2. ASSUME NEW g \in Getters, Get(g) PROVE pc'[s] = "removed"
    BY <1>2, Distinct DEF Get, GetLock, GetLockAgain, GetL2Address, LookUp
<1> QED BY <1>1, <1>2 DEF TableStep, regVars, tableVars, lockVars

(* What a step does to the callers of shutdown and to the websockets.      *)
LEMMA GoneStep ==
  ASSUME RegTypeOK, LifeTypeOK, Gone, [Next]_vars
  PROVE  Gone'
<1>1. ASSUME NEW s \in Sessions, pc[s] = "removed" PROVE pc'[s] = "removed"
    BY <1>1, StepsOfTable, RemovedStays
<1>2. ASSUME UNCHANGED <<step, wsOpen>> PROVE Gone'
    BY <1>1, <1>2 DEF Gone
<1>3. ASSUME NEW s \in Sessions, NEW c \in Callers, NEW here, NEW next,
             At(s, c, here, next), UNCHANGED wsOpen,
             next = "close websocket" => pc[s] = "removed"
      PROVE  Gone'
  <2>1. \A t \in Sessions, d \in Callers :
            step'[t][d] = IF t = s /\ d = c THEN next ELSE step[t][d]
      BY <1>3 DEF At, LifeTypeOK
  <2> QED BY <1>1, <1>3, <2>1 DEF Gone
<1>4. ASSUME NEW s \in Sessions, NEW c \in Callers, Shutdown(s, c) PROVE Gone'
  <2>1. CASE CloseConnection(s, c)
      BY <1>3, <2>1 DEF CloseConnection
  <2>2. CASE HandlerDone(s, c)
      BY <1>3, <2>2 DEF HandlerDone
  <2>3. CASE CloseWebsocket(s, c)
    <3>1. pc[s] = "removed"
        BY <2>3 DEF CloseWebsocket, At, Gone
    <3>2. \A t \in Sessions, d \in Callers :
              step'[t][d] = IF t = s /\ d = c THEN "close client" ELSE step[t][d]
        BY <2>3 DEF CloseWebsocket, At, LifeTypeOK
    <3>3. \A t \in Sessions : t # s => wsOpen'[t] = wsOpen[t]
        BY <2>3 DEF CloseWebsocket, LifeTypeOK
    <3> QED BY <1>1, <3>1, <3>2, <3>3 DEF Gone
  <2>4. CASE CloseClient(s, c)
      BY <1>3, <2>4 DEF CloseClient
  <2> QED BY <1>4, <2>1, <2>2, <2>3, <2>4 DEF Shutdown
<1>5. ASSUME NEW s \in Sessions,
             \/ Table(s) \/ Start(s) \/ Wait(s) \/ HandleEnds(s) \/ ProposalsEnd(s)
      PROVE  Gone'
    BY <1>2, <1>5 DEF Table, Start, Wait, HandleEnds, ProposalsEnd, lifeVars
<1>6. ASSUME NEW s \in Sessions, RunShutsDown(s) \/ CloseWithError(s) PROVE Gone'
    BY <1>3, <1>6 DEF RunShutsDown, CloseWithError, Callers
<1>7. ASSUME NEW g \in Getters, Lookup(g) PROVE Gone'
    BY <1>2, <1>7 DEF Lookup, lifeVars
<1>8. CASE UNCHANGED vars
    BY <1>2, <1>8 DEF vars, lifeVars
<1> QED BY <1>4, <1>5, <1>6, <1>7, <1>8 DEF Next

(* A client that a lookup can find still has its websocket: shutdown       *)
(* (client.go:162) closes it after both Remove calls, whichever of its two  *)
(* callers comes first.                                                    *)
THEOREM FoundIsOpen == Spec => []RegisteredIsOpen
<1>1. Init => Gone /\ LifeTypeOK
    BY DEF Init, Gone, LifeTypeOK, Steps
<1>2. RegTypeOK /\ LifeTypeOK /\ Gone /\ [Next]_vars => Gone'
    BY GoneStep
<1>3. RegTypeOK /\ TableInv /\ Gone => RegisteredIsOpen
  <2> SUFFICES ASSUME RegTypeOK, TableInv, Gone, NEW s \in m PROVE wsOpen[s]
      BY DEF RegisteredIsOpen
  <2>1. s \in Sessions
      BY DEF RegTypeOK
  <2>2. pc[s] = "removed" => s \notin m
      BY <2>1 DEF TableInv, SessionInv, Unregistered
  <2> QED BY <2>1, <2>2 DEF Gone
<1> QED BY <1>1, <1>2, <1>3, LifeTypeStep, TableCorrect, RegTypeCorrect, PTL DEF Spec

LEMMA ClientsRegistered ==
  ASSUME TableInv, RegTypeOK, NEW s \in m
  PROVE  s \in Sessions /\ Registered(s)
<1>1. s \in Sessions /\ SessionInv(s) /\ pc[s] \in SessionLabels
    BY DEF RegTypeOK, TableInv
<1> QED BY <1>1 DEF SessionInv, SessionLabels, HalfRemoved, Unregistered

(* Register (registry.go:33) never adds a client whose Ethereum or Solana  *)
(* address another client in the table has.                                *)
THEOREM OneClient == Spec => []OneClientPerAddress
<1>1. TableInv /\ RegTypeOK => OneClientPerAddress
  <2> SUFFICES ASSUME TableInv, RegTypeOK, NEW s \in m, NEW t \in m, s # t
               PROVE  AddressesOf(s) \cap AddressesOf(t) = {}
      BY DEF OneClientPerAddress
  <2>1. Registered(s) /\ Registered(t)
      BY ClientsRegistered
  <2> QED BY <2>1 DEF Registered
<1> QED BY <1>1, TableCorrect, RegTypeCorrect, PTL

-----------------------------------------------------------------------------
(* A getter holds a read lock from its first look-up to its second, so no  *)
(* writer is inside in between.                                            *)

ReadInv == \A g \in Getters : pc[g] = "look up" => l2[g] = L2Of(Wanted[g])

LEMMA WritersWait ==
  ASSUME RegTypeOK, NEW p, Exclusive(p), NEW g \in Getters
  PROVE  pc[g] # "look up"
<1>1. readers[g] = 0 /\ readers[g] = Depth(pc[g])
    BY DEF Exclusive, RegTypeOK
<1>2. Depth("look up") # 0
    BY DEF Depth
<1> QED BY <1>1, <1>2

LEMMA SessionKeepsRead ==
  ASSUME RegTypeOK, ReadInv, NEW s \in Sessions,
         \/ UNCHANGED tableVars
         \/ Exclusive(s),
         \A g \in Getters : pc'[g] = pc[g] /\ l2'[g] = l2[g]
  PROVE  ReadInv'
<1>1. CASE UNCHANGED tableVars
    BY <1>1 DEF ReadInv, L2Of, tableVars
<1>2. CASE Exclusive(s)
    BY <1>2, WritersWait DEF ReadInv
<1> QED BY <1>1, <1>2

LEMMA SessionKeepsGetters ==
  ASSUME RegTypeOK, NEW s \in Sessions, SessionStep(s) \/ OnClose(s),
         NEW g \in Getters
  PROVE  pc'[g] = pc[g] /\ l2'[g] = l2[g]
<1>1. g # s
    BY Distinct
<1>2. CASE Announce(s)
    BY <1>2 DEF Announce
<1>3. CASE Register(s) \/ Refuse(s) \/ OnClose(s)
    BY <1>1, <1>3 DEF Register, Refuse, OnClose, Goto, RegTypeOK
<1>4. CASE Remove(s)
    BY <1>1, <1>4 DEF Remove, ReadL2, Delete, Goto, RegTypeOK
<1> QED BY <1>2, <1>3, <1>4 DEF SessionStep

LEMMA ReadStep == RegTypeOK /\ ReadInv /\ TableStep => ReadInv'
<1> SUFFICES ASSUME RegTypeOK, ReadInv, TableStep PROVE ReadInv'
    OBVIOUS
<1>1. ASSUME NEW s \in Sessions, SessionStep(s) \/ OnClose(s) PROVE ReadInv'
  <2>1. UNCHANGED tableVars \/ Exclusive(s)
      BY <1>1 DEF SessionStep, OnClose, Announce, Register, Refuse, Remove,
                  ReadL2, Delete
  <2>2. \A g \in Getters : pc'[g] = pc[g] /\ l2'[g] = l2[g]
      BY <1>1, SessionKeepsGetters
  <2> QED BY <2>1, <2>2, SessionKeepsRead
<1>2. ASSUME NEW g \in Getters, Get(g) PROVE ReadInv'
  <2> SUFFICES ASSUME NEW h \in Getters, pc'[h] = "look up"
               PROVE  l2'[h] = L2Of(Wanted[h])'
      BY DEF ReadInv
  <2>1. L2Of(Wanted[h])' = L2Of(Wanted[h])
      BY <1>2 DEF Get, GetLock, GetLockAgain, GetL2Address, LookUp, L2Of,
                  tableVars
  <2>2. CASE GetLock(g)
      BY <2>1, <2>2 DEF GetLock, Goto, RegTypeOK, ReadInv
  <2>3. CASE GetLockAgain(g)
      BY <2>1, <2>3 DEF GetLockAgain, Goto, RegTypeOK, ReadInv
  <2>4. CASE GetL2Address(g)
      BY <2>1, <2>4 DEF GetL2Address, Goto, RegTypeOK, ReadInv
  <2>5. CASE LookUp(g)
      BY <2>1, <2>5 DEF LookUp, Goto, RegTypeOK, ReadInv
  <2> QED BY <1>2, <2>2, <2>3, <2>4, <2>5 DEF Get
<1>3. CASE UNCHANGED regVars
    BY <1>3 DEF regVars, tableVars, ReadInv, L2Of
<1> QED BY <1>1, <1>2, <1>3 DEF TableStep

LEMMA ReadCorrect == Spec => []ReadInv
<1>1. Init => ReadInv
    BY Distinct DEF Init, RegInit, ReadInv
<1>2. RegTypeOK /\ ReadInv /\ [Next]_vars => ReadInv'
    BY StepsOfTable, ReadStep
<1> QED BY <1>1, <1>2, RegTypeCorrect, PTL DEF Spec

(* The key a getter looks up in the second table is the one client at the  *)
(* address it was asked for, if there is one.                              *)
LEMMA AnswerIsAccurate ==
  ASSUME TableInv, RegTypeOK, ReadInv, NEW g \in Getters, LookUp(g)
  PROVE  result'[g] = ClientAt(Wanted[g])
<1> DEFINE a   == Wanted[g]
           key == IF l2[g] = None THEN a ELSE l2[g]
<1>1. l2[g] = L2Of(a)
    BY DEF LookUp, ReadInv
<1>2. result'[g] = IF key \in m THEN key ELSE None
    BY DEF LookUp, RegTypeOK
<1>3. ASSUME NEW s \in m PROVE a \in AddressesOf(s) \cup {s} <=> key = s
  <2>1. s \in Sessions /\ Registered(s) /\ s # None
      BY ClientsRegistered, Distinct
  <2>2. CASE a \in AddressesOf(s)
      BY <1>1, <2>1, <2>2 DEF Registered
  <2>3. CASE a = s
    <3>1. a \notin DOMAIN l2Addresses
        BY <2>1, <2>3, Distinct DEF RegTypeOK
    <3> QED BY <1>1, <2>3, <3>1 DEF L2Of
  <2>4. ASSUME key = s, a # s PROVE a \in AddressesOf(s)
    <3>1. L2Of(a) = s
        BY <1>1, <2>4
    <3>2. a \in DOMAIN l2Addresses /\ l2Addresses[a] = s
        BY <2>1, <3>1 DEF L2Of
    <3> QED BY <3>2 DEF TableInv, OwnAddresses
  <2> QED BY <2>2, <2>3, <2>4
<1> HIDE DEF a, key
<1>4. ClientAt(a) = IF \E s \in m : key = s THEN CHOOSE s \in m : key = s ELSE None
    BY <1>3 DEF ClientAt
<1>5. ClientAt(a) = IF key \in m THEN key ELSE None
    BY <1>4
<1> QED BY <1>2, <1>5 DEF a

(* registry.go:84: for any sessions coming and going, Get answers what the *)
(* table says at the moment it answers.                                    *)
THEOREM GetAnswersAtOnce == Spec => GetIsAccurate
<1> DEFINE Answers == \A g \in Getters :
              pc'[g] = "got" /\ pc[g] # "got" => result'[g] = ClientAt(Wanted[g])
<1>1. TableInv /\ RegTypeOK /\ ReadInv /\ [Next]_vars => Answers
  <2> SUFFICES ASSUME TableInv, RegTypeOK, ReadInv, TableStep, NEW g \in Getters,
                      pc'[g] = "got", pc[g] # "got"
               PROVE  result'[g] = ClientAt(Wanted[g])
      BY StepsOfTable
  <2>1. ASSUME NEW s \in Sessions, SessionStep(s) \/ OnClose(s) PROVE pc'[g] = pc[g]
      BY <2>1, SessionKeepsGetters
  <2>2. ASSUME NEW h \in Getters, Get(h) PROVE LookUp(g)
    <3>1. CASE GetLock(h) \/ GetLockAgain(h) \/ GetL2Address(h)
      <4>1. PICK label \in {"locked", "locked twice", "look up"} :
                    pc' = [pc EXCEPT ![h] = label]
          BY <3>1 DEF GetLock, GetLockAgain, GetL2Address, Goto
      <4> QED BY <4>1 DEF RegTypeOK
    <3>2. CASE LookUp(h)
        BY <3>2 DEF LookUp, Goto, RegTypeOK
    <3> QED BY <2>2, <3>1, <3>2 DEF Get
  <2>3. pc' # pc
      OBVIOUS
  <2>4. LookUp(g)
      BY <2>1, <2>2, <2>3 DEF TableStep, regVars
  <2> QED BY <2>4, AnswerIsAccurate
<1>2. Spec => [][Answers]_vars
    BY <1>1, TableCorrect, RegTypeCorrect, ReadCorrect, PTL DEF Spec
<1> QED BY <1>2 DEF GetIsAccurate
=============================================================================
