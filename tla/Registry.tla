------------------------------- MODULE Registry -------------------------------
(***************************************************************************)
(* The server's table of clients (internal/client/registry.go) and those   *)
(* that use it: startClient registers the client of a new connection       *)
(* (internal/websocket/entrypoint.go), the connection's close handler      *)
(* removes it under its Ethereum and then its Solana address, and other    *)
(* clients' requests look it up.                                           *)
(*                                                                         *)
(* Everything is guarded by one sync.RWMutex.  A writer that has called    *)
(* Lock is announced and waits for the readers inside; while it is, RLock  *)
(* blocks, also for a goroutine that is a reader already.                  *)
(*                                                                         *)
(* Register draws a fresh L2 key for every client, so a session is its own *)
(* L2 address.                                                             *)
(***************************************************************************)
EXTENDS Integers, FiniteSets

CONSTANTS
    Sessions,  \* connections that have sent their initialization message
    Getters,   \* goroutines that call Get once
    Addresses, \* Ethereum and Solana addresses, none of them zero or empty
    Eth, Sol,  \* the two addresses a session initializes with
    Wanted,    \* the address a getter looks for, an L2 address included
    None

ASSUME SessionAddresses == /\ Eth \in [Sessions -> Addresses]
                           /\ Sol \in [Sessions -> Addresses]
                           /\ \A s, t \in Sessions : Eth[s] # Sol[t]
ASSUME WantedAddresses  == Wanted \in [Getters -> Addresses \cup Sessions]
ASSUME Distinct         == /\ Sessions \cap Getters = {}
                           /\ Addresses \cap Sessions = {}
                           /\ None \notin Sessions \cup Getters \cup Addresses

VARIABLES
    m,           \* the L2 addresses in Registry.m, each with its own client
    l2Addresses, \* from address to L2 address
    readers,     \* how many read locks a goroutine holds
    announced,   \* the writer that has called Lock, or None
    pc,          \* where each goroutine stands
    l2,          \* the L2 address a goroutine has read, or None
    result       \* what Get returned

tableVars == <<m, l2Addresses>>
lockVars  == <<readers, announced>>
regVars   == <<tableVars, lockVars, pc, l2, result>>

Goroutines == Sessions \cup Getters

Goto(p, label) == pc' = [pc EXCEPT ![p] = label]

(* The L2 address registered at a, or None for the zero address.           *)
L2Of(a) == IF a \in DOMAIN l2Addresses THEN l2Addresses[a] ELSE None

-----------------------------------------------------------------------------
RegInit ==
    /\ m = {}
    /\ l2Addresses = [a \in {} |-> None]
    /\ readers = [p \in Goroutines |-> 0]
    /\ announced = None
    /\ pc = [p \in Goroutines |-> IF p \in Sessions THEN "register" ELSE "get"]
    /\ l2 = [p \in Goroutines |-> None]
    /\ result = [g \in Getters |-> None]

-----------------------------------------------------------------------------
(* Slips: variants of the definitions below with a bug the code does not   *)
(* have.                                                                   *)

TakenSol(s) == Sol[s] \in DOMAIN l2Addresses   \* no check of the Ethereum address

DeleteKeepsClient(s, from, to, a) ==     \* no delete(r.m, l2)
    /\ pc[s] = from /\ announced = s /\ \A q \in Goroutines : readers[q] = 0
    /\ l2Addresses' = [b \in DOMAIN l2Addresses \ {a} |-> l2Addresses[b]]
    /\ m' = m \ {a}
    /\ announced' = None
    /\ Goto(s, to)
    /\ UNCHANGED <<readers, l2, result>>

DeleteKeepsLock(s, from, to, a) ==       \* no Unlock
    /\ pc[s] = from /\ announced = s /\ \A q \in Goroutines : readers[q] = 0
    /\ l2Addresses' = [b \in DOMAIN l2Addresses \ {a} |-> l2Addresses[b]]
    /\ m' = m \ {a, l2[s]}
    /\ Goto(s, to)
    /\ UNCHANGED <<lockVars, l2, result>>

GetUnlocksTwice(g) ==                    \* one RUnlock too many
    /\ pc[g] = "locked twice"
    /\ l2' = [l2 EXCEPT ![g] = L2Of(Wanted[g])]
    /\ readers' = [readers EXCEPT ![g] = @ - 2]
    /\ Goto(g, "look up")
    /\ UNCHANGED <<tableVars, announced, result>>

-----------------------------------------------------------------------------
(* The lock.                                                               *)

Writing == {"register", "delete eth", "delete sol"}

Announce(p) ==
    /\ pc[p] \in Writing
    /\ announced = None
    /\ announced' = p
    /\ UNCHANGED <<tableVars, readers, pc, l2, result>>

Exclusive(p) == announced = p /\ \A q \in Goroutines : readers[q] = 0

-----------------------------------------------------------------------------
(* startClient.                                                            *)

Taken(s) == {Eth[s], Sol[s]} \cap DOMAIN l2Addresses # {}

(* Register, from Lock to Unlock, when both addresses are free and         *)
(* NewClient succeeds.  SetOnCloseHandler and "go c.Run()" follow before   *)
(* anything can close the connection.                                      *)
Register(s) ==
    /\ pc[s] = "register" /\ Exclusive(s)
    /\ ~Taken(s)
    /\ m' = m \cup {s}
    /\ l2Addresses' = [a \in DOMAIN l2Addresses \cup {Eth[s], Sol[s]} |->
                          IF a \in {Eth[s], Sol[s]} THEN s ELSE l2Addresses[a]]
    /\ announced' = None
    /\ Goto(s, "running")
    /\ UNCHANGED <<readers, l2, result>>

(* An address is taken, or NewClient fails: the connection is closed with  *)
(* an error, without a close handler.                                      *)
Refuse(s) ==
    /\ pc[s] = "register" /\ Exclusive(s)
    /\ announced' = None
    /\ Goto(s, "refused")
    /\ UNCHANGED <<tableVars, readers, l2, result>>

-----------------------------------------------------------------------------
(* The close handler: Remove(eth), then Remove(sol).                       *)

(* Connection.Close calls the handler.                                     *)
OnClose(s) ==
    /\ pc[s] = "running"
    /\ Goto(s, "remove eth")
    /\ UNCHANGED <<tableVars, lockVars, l2, result>>

(* getL2Address locks on its own, before Remove does.                      *)
ReadL2(s, from, to, a) ==
    /\ pc[s] = from
    /\ announced = None
    /\ l2' = [l2 EXCEPT ![s] = L2Of(a)]
    /\ Goto(s, to)
    /\ UNCHANGED <<tableVars, lockVars, result>>

Delete(s, from, to, a) ==
    /\ pc[s] = from /\ Exclusive(s)
    /\ l2Addresses' = [b \in DOMAIN l2Addresses \ {a} |-> l2Addresses[b]]
    /\ m' = m \ {a, l2[s]}
    /\ announced' = None
    /\ Goto(s, to)
    /\ UNCHANGED <<readers, l2, result>>

RemoveByEth(s) ==   \* a slip: looks the Ethereum address up both times
    \/ ReadL2(s, "remove eth", "delete eth", Eth[s])
    \/ Delete(s, "delete eth", "remove sol", Eth[s])
    \/ ReadL2(s, "remove sol", "delete sol", Eth[s])
    \/ Delete(s, "delete sol", "removed", Sol[s])

Remove(s) ==
    \/ ReadL2(s, "remove eth", "delete eth", Eth[s])
    \/ Delete(s, "delete eth", "remove sol", Eth[s])
    \/ ReadL2(s, "remove sol", "delete sol", Sol[s])
    \/ Delete(s, "delete sol", "removed", Sol[s])

-----------------------------------------------------------------------------
(* Get holds the read lock and takes it a second time in getL2Address.     *)

GetLock(g) ==
    /\ pc[g] = "get"
    /\ announced = None
    /\ readers' = [readers EXCEPT ![g] = @ + 1]
    /\ Goto(g, "locked")
    /\ UNCHANGED <<tableVars, announced, l2, result>>

GetLockAgain(g) ==
    /\ pc[g] = "locked"
    /\ announced = None
    /\ readers' = [readers EXCEPT ![g] = @ + 1]
    /\ Goto(g, "locked twice")
    /\ UNCHANGED <<tableVars, announced, l2, result>>

GetL2Address(g) ==
    /\ pc[g] = "locked twice"
    /\ l2' = [l2 EXCEPT ![g] = L2Of(Wanted[g])]
    /\ readers' = [readers EXCEPT ![g] = @ - 1]
    /\ Goto(g, "look up")
    /\ UNCHANGED <<tableVars, announced, result>>

(* An address that is not in l2Addresses may be an L2 address itself.      *)
LookUp(g) ==
    /\ pc[g] = "look up"
    /\ LET key == IF l2[g] = None THEN Wanted[g] ELSE l2[g]
       IN  result' = [result EXCEPT ![g] = IF key \in m THEN key ELSE None]
    /\ readers' = [readers EXCEPT ![g] = @ - 1]
    /\ Goto(g, "got")
    /\ UNCHANGED <<tableVars, announced, l2>>

GetUnlocked(g) ==   \* a slip: no lock of its own around the two look-ups
    \/ /\ pc[g] = "get"
       /\ Goto(g, "locked")
       /\ UNCHANGED <<tableVars, lockVars, l2, result>>
    \/ GetLockAgain(g) \/ GetL2Address(g)
    \/ /\ pc[g] = "look up"
       /\ LET key == IF l2[g] = None THEN Wanted[g] ELSE l2[g]
          IN  result' = [result EXCEPT ![g] = IF key \in m THEN key ELSE None]
       /\ Goto(g, "got")
       /\ UNCHANGED <<tableVars, lockVars, l2>>

Get(g) == GetLock(g) \/ GetLockAgain(g) \/ GetL2Address(g) \/ LookUp(g)

-----------------------------------------------------------------------------
(* The steps of a session besides its end, which is OnClose.               *)
SessionStep(s) == Announce(s) \/ Register(s) \/ Refuse(s) \/ Remove(s)
=============================================================================
