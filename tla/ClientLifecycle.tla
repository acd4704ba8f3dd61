--------------------------- MODULE ClientLifecycle ---------------------------
(***************************************************************************)
(* The life of a client (internal/client/client.go) on top of the table of *)
(* clients: Client.Run starts a goroutine for the channel proposals and    *)
(* one for Connection.Handle and waits on a condition variable for the     *)
(* first of them to end; shutdown closes the connection, whose closer runs *)
(* the close handler once, and the Perun client.  CloseWithError shuts     *)
(* down from a goroutine of the Perun client while Run may do so too.      *)
(*                                                                         *)
(* A sync.Cond remembers nothing: a Signal before Wait is lost.            *)
(***************************************************************************)
EXTENDS Registry

VARIABLES
    run,       \* Run: "off", "started", "waiting" or "awake"
    handling,  \* Connection.Handle has not returned
    proposing, \* handleProposals has not returned
    step,      \* where Run and CloseWithError stand in shutdown
    closed,    \* the closer of the connection is closed
    wsOpen,    \* the server has not closed the websocket
    perunOpen  \* perunClient is open

lifeVars == <<run, handling, proposing, step, closed, wsOpen, perunOpen>>
vars     == <<regVars, lifeVars>>

Callers == {"Run", "CloseWithError"}
Steps   == {"idle", "close connection", "on close", "close websocket",
            "close client", "ended"}

Init ==
    /\ RegInit
    /\ run = [s \in Sessions |-> "off"]
    /\ handling = [s \in Sessions |-> FALSE]
    /\ proposing = [s \in Sessions |-> FALSE]
    /\ step = [s \in Sessions |-> [c \in Callers |-> "idle"]]
    /\ closed = [s \in Sessions |-> FALSE]
    /\ wsOpen = [s \in Sessions |-> TRUE]
    /\ perunOpen = [s \in Sessions |-> TRUE]

-----------------------------------------------------------------------------
(* Run.                                                                    *)

Start(s) ==
    /\ pc[s] = "running" /\ run[s] = "off"
    /\ run' = [run EXCEPT ![s] = "started"]
    /\ handling' = [handling EXCEPT ![s] = TRUE]
    /\ proposing' = [proposing EXCEPT ![s] = TRUE]
    /\ UNCHANGED <<regVars, step, closed, wsOpen, perunOpen>>

(* The Initialized message is written, well or not, before cond.Wait.      *)
Wait(s) ==
    /\ run[s] = "started"
    /\ run' = [run EXCEPT ![s] = "waiting"]
    /\ UNCHANGED <<regVars, handling, proposing, step, closed, wsOpen, perunOpen>>

Signal(s) == IF run[s] = "waiting" THEN [run EXCEPT ![s] = "awake"] ELSE run

(* Handle returns because the connection is lost or closed.                *)
HandleEnds(s) ==
    /\ handling[s]
    /\ handling' = [handling EXCEPT ![s] = FALSE]
    /\ run' = Signal(s)
    /\ UNCHANGED <<regVars, proposing, step, closed, wsOpen, perunOpen>>

(* handleProposals returns when the Perun client is closed.                *)
ProposalsEnd(s) ==
    /\ proposing[s] /\ ~perunOpen[s]
    /\ proposing' = [proposing EXCEPT ![s] = FALSE]
    /\ run' = Signal(s)
    /\ UNCHANGED <<regVars, handling, step, closed, wsOpen, perunOpen>>

-----------------------------------------------------------------------------
(* shutdown, called by c.                                                  *)

At(s, c, here, next) ==
    /\ step[s][c] = here
    /\ step' = [step EXCEPT ![s][c] = next]

(* Run's deferred call, once it is awake.                                  *)
RunShutsDown(s) ==
    /\ run[s] = "awake"
    /\ At(s, "Run", "idle", "close connection")
    /\ UNCHANGED <<regVars, run, handling, proposing, closed, wsOpen, perunOpen>>

(* handleUpdateProposal fails.                                             *)
CloseWithError(s) ==
    /\ proposing[s] /\ perunOpen[s]
    /\ At(s, "CloseWithError", "idle", "close connection")
    /\ UNCHANGED <<regVars, run, handling, proposing, closed, wsOpen, perunOpen>>

CloseWebsocketFirst(s, c) ==   \* a slip: the websocket goes before the entry
    /\ IF closed[s]
         THEN /\ At(s, c, "close connection", "close client")
              /\ UNCHANGED <<regVars, wsOpen>>
         ELSE /\ At(s, c, "close connection", "on close")
              /\ OnClose(s)
              /\ wsOpen' = [wsOpen EXCEPT ![s] = FALSE]
    /\ closed' = [closed EXCEPT ![s] = TRUE]
    /\ UNCHANGED <<run, handling, proposing, perunOpen>>

(* closer.Close fails for all but the first, who runs the close handler.   *)
CloseConnection(s, c) ==
    /\ IF closed[s]
         THEN /\ At(s, c, "close connection", "close client")
              /\ UNCHANGED regVars
         ELSE /\ At(s, c, "close connection", "on close")
              /\ OnClose(s)
    /\ closed' = [closed EXCEPT ![s] = TRUE]
    /\ UNCHANGED <<run, handling, proposing, wsOpen, perunOpen>>

HandlerDone(s, c) ==
    /\ pc[s] = "removed"
    /\ At(s, c, "on close", "close websocket")
    /\ UNCHANGED <<regVars, run, handling, proposing, closed, wsOpen, perunOpen>>

CloseWebsocket(s, c) ==
    /\ At(s, c, "close websocket", "close client")
    /\ wsOpen' = [wsOpen EXCEPT ![s] = FALSE]
    /\ UNCHANGED <<regVars, run, handling, proposing, closed, perunOpen>>

(* A second perunClient.Close, by the other caller or deferred in Run, is  *)
(* an error that is dropped.                                               *)
CloseClient(s, c) ==
    /\ At(s, c, "close client", "ended")
    /\ perunOpen' = [perunOpen EXCEPT ![s] = FALSE]
    /\ UNCHANGED <<regVars, run, handling, proposing, closed, wsOpen>>

Shutdown(s, c) == \/ CloseConnection(s, c) \/ HandlerDone(s, c)
                  \/ CloseWebsocket(s, c) \/ CloseClient(s, c)

-----------------------------------------------------------------------------
Table(s)  == SessionStep(s) /\ UNCHANGED lifeVars
Lookup(g) == Get(g) /\ UNCHANGED lifeVars

Next ==
    \/ \E s \in Sessions :
          \/ Table(s) \/ Start(s) \/ Wait(s) \/ HandleEnds(s) \/ ProposalsEnd(s)
          \/ RunShutsDown(s) \/ CloseWithError(s)
          \/ \E c \in Callers : Shutdown(s, c)
    \/ \E g \in Getters : Lookup(g)

Spec == Init /\ [][Next]_vars

(* Goroutines that can run do, and the lock starves none.  No connection   *)
(* has to fail and no update has to go wrong, but once the websocket is    *)
(* closed Handle returns.                                                  *)
Fairness ==
    /\ \A s \in Sessions :
          /\ SF_vars(Table(s))
          /\ WF_vars(Start(s) \/ Wait(s))
          /\ WF_vars(RunShutsDown(s))
          /\ WF_vars(~wsOpen[s] /\ HandleEnds(s))
          /\ WF_vars(ProposalsEnd(s))
          /\ \A c \in Callers : WF_vars(Shutdown(s, c))
    /\ \A g \in Getters : SF_vars(Lookup(g))

FairSpec == Spec /\ Fairness

-----------------------------------------------------------------------------
(* Properties.                                                             *)

SessionLabels == {"register", "refused", "running", "remove eth",
                  "delete eth", "remove sol", "delete sol", "removed"}
GetterLabels  == {"get", "locked", "locked twice", "look up", "got"}

(* Every variable has its type, and a goroutine never holds a read lock    *)
(* more than twice.                                                        *)
TypeOK ==
    /\ m \subseteq Sessions
    /\ DOMAIN l2Addresses \subseteq Addresses
    /\ \A a \in DOMAIN l2Addresses : l2Addresses[a] \in Sessions
    /\ readers \in [Goroutines -> 0 .. 2]
    /\ announced \in Sessions \cup {None}
    /\ pc \in [Goroutines -> SessionLabels \cup GetterLabels]
    /\ \A s \in Sessions : pc[s] \in SessionLabels
    /\ \A g \in Getters : pc[g] \in GetterLabels
    /\ l2 \in [Goroutines -> Sessions \cup {None}]
    /\ result \in [Getters -> Sessions \cup {None}]
    /\ run \in [Sessions -> {"off", "started", "waiting", "awake"}]
    /\ handling \in [Sessions -> BOOLEAN] /\ proposing \in [Sessions -> BOOLEAN]
    /\ step \in [Sessions -> [Callers -> Steps]]
    /\ closed \in [Sessions -> BOOLEAN]
    /\ wsOpen \in [Sessions -> BOOLEAN] /\ perunOpen \in [Sessions -> BOOLEAN]

AddressesOf(s) == {Eth[s], Sol[s]}

(* registry.go:33 and entrypoint.go:13: one client per address, also while *)
(* another client of the address is being removed step by step.            *)
OneClientPerAddress ==
    \A s, t \in m : s # t => AddressesOf(s) \cap AddressesOf(t) = {}

(* The two Remove calls of one session's close handler, each of which      *)
(* reads the table, lets go of the lock and then deletes, never take       *)
(* another session's client or addresses out of the table.                 *)
RunningIsRegistered ==
    \A s \in Sessions :
        pc[s] = "running" =>
            s \in m /\ \A a \in AddressesOf(s) : L2Of(a) = s

(* registry.go:74: once its close handler is through, a session has left   *)
(* nothing behind, so its addresses can be used again.                     *)
RemovedIsForgotten ==
    \A s \in Sessions :
        pc[s] \in {"refused", "removed"} =>
            s \notin m /\ \A a \in DOMAIN l2Addresses : l2Addresses[a] # s

ClientAt(a) ==
    IF \E s \in m : a \in AddressesOf(s) \cup {s}
      THEN CHOOSE s \in m : a \in AddressesOf(s) \cup {s}
      ELSE None

(* registry.go:84: Get returns the client at the given address, and none   *)
(* only when there is none, although it reads two tables one after the     *)
(* other while sessions come and go: its answer is the table's at the      *)
(* moment it answers.                                                      *)
GetIsAccurate ==
    [][\A g \in Getters :
          pc'[g] = "got" /\ pc[g] # "got" => result'[g] = ClientAt(Wanted[g])]_vars

(* No client whose websocket the server has closed can be looked up, with  *)
(* two goroutines in shutdown: the close handler runs before the close.    *)
RegisteredIsOpen == \A s \in m : wsOpen[s]

(* Whoever closes the connection, its addresses become free, unless a      *)
(* lookup blocks the table (GetReturns).                                   *)
ClosedIsRemoved ==
    \A s \in Sessions :
        closed[s] ~> pc[s] = "removed" \/ \E g \in Getters : pc[g] = "locked"

(* registry.go:84: Get returns.  It does not when a writer announces       *)
(* itself between its two read locks.                                      *)
GetReturns == \A g \in Getters : pc[g] = "locked" ~> pc[g] = "got"

(* connection.go:96: the closing handler is called once the connection is  *)
(* closed, and frees the addresses.  When Handle ends before Run waits,    *)
(* its Signal is lost, and it never is.                                    *)
LostIsRemoved ==
    \A s \in Sessions :
        run[s] # "off" /\ ~handling[s] ~> pc[s] = "removed"
=============================================================================
