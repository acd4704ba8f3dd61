------------------------------ MODULE Connection ------------------------------
(***************************************************************************)
(* The server side of one /connect websocket (internal/message): the       *)
(* reader (Connection.Handle), the goroutine it starts for every request   *)
(* of the browser, and Connection.Request, by which any goroutine asks the *)
(* browser something and waits for the answer.                             *)
(*                                                                         *)
(* reserve is a buffered Go channel used as a counting semaphore; Handle   *)
(* closes it when it returns, and a send on a closed channel panics, which *)
(* ends the process.  A response is handed to its requester over an        *)
(* unbuffered channel, so the reader waits until the requester receives.   *)
(*                                                                         *)
(* What a handler does besides asking the browser is left out.  The        *)
(* browser answers what it was asked, once or never, in any order          *)
(* (web/js/websocket.js).  A request or a response may come without a      *)
(* message; of these no more than one lies in the inbox at a time.         *)
(***************************************************************************)
EXTENDS Integers, Sequences, FiniteSets

CONSTANTS
    Requests,   \* requests the browser sends
    Internals,  \* server goroutines that call Request outside any handler
    MaxRequests,\* MaxNumRequests, 16 in the code
    MaxCalls,   \* bound: calls of Request by one goroutine
    None        \* no goroutine

Jobs == Requests \cup Internals

ASSUME DisjointJobs    == Requests \cap Internals = {} /\ None \notin Jobs
ASSUME RequestsFinite  == IsFiniteSet(Requests)
ASSUME MaxAssumption   == MaxRequests \in Nat \ {0}
ASSUME CallsAssumption == MaxCalls \in Nat

VARIABLES
    open,       \* the websocket works
    inbox,      \* messages of the browser the reader has not read yet
    asked,      \* questions the browser has got, and not answered with a message
    reader,     \* "reading", "delivering", "stuck" or "returned"
    delivery,   \* the response the reader holds and whose channel it is for
    slots,      \* tokens in the channel reserve
    closed,     \* Handle has closed reserve
    crashed,    \* a goroutine has panicked
    counter,    \* requestCounter
    handlers,   \* responseHandlers: from request ID to calling goroutine
    pc,         \* where each goroutine stands
    callID,     \* the ID of a goroutine's last call of Request
    got,        \* the question whose answer it received
    calls       \* calls of Request it has made

browserVars == <<inbox, asked>>
readerVars  == <<reader, delivery, closed>>
callVars    == <<counter, handlers, callID, got, calls>>
vars        == <<open, browserVars, readerVars, slots, crashed, pc, callVars>>

(* A question carries its ID on the wire; whose it is, and which of its    *)
(* calls, is what the answer is about.                                     *)
NoQuestion  == [id |-> 0, by |-> None, nth |-> 0]
Question(j) == [id |-> callID[j], by |-> j, nth |-> calls[j]]

Request(r)  == [type |-> "request", from |-> r, about |-> NoQuestion]
Response(q) == [type |-> "response", from |-> None, about |-> q]

(* A request or a response, of whatever ID, without a message.             *)
Empty == [type |-> "empty", from |-> None, about |-> NoQuestion]

NoDelivery == [about |-> NoQuestion, to |-> None]

(* Goroutines inside Connection.Request, and those that own a slot.        *)
Calling == {"registered", "written", "waiting", "received"}
Holding == Calling \cup {"running", "replied"}

Goto(j, label) == pc' = [pc EXCEPT ![j] = label]

-----------------------------------------------------------------------------
Init ==
    /\ open = TRUE
    /\ inbox = <<>> /\ asked = {}
    /\ reader = "reading" /\ delivery = NoDelivery /\ closed = FALSE
    /\ slots = 0
    /\ crashed = FALSE
    /\ pc = [j \in Jobs |-> IF j \in Requests THEN "new" ELSE "running"]
    /\ counter = 0
    /\ handlers = <<>>
    /\ callID = [j \in Jobs |-> 0]
    /\ got = [j \in Jobs |-> NoQuestion]
    /\ calls = [j \in Jobs |-> 0]

-----------------------------------------------------------------------------
(* Slips: variants of the actions below with a bug the code does not have. *)

NonBlockingResponse ==        \* hands over to who waits already, or drops
    /\ ~crashed /\ open /\ reader = "reading"
    /\ inbox # <<>> /\ Head(inbox).type = "response"
    /\ inbox' = Tail(inbox)
    /\ LET q == Head(inbox).about
       IN  IF q.id \in DOMAIN handlers /\ pc[handlers[q.id]] = "waiting"
             THEN /\ reader' = "delivering"
                  /\ delivery' = [about |-> q, to |-> handlers[q.id]]
             ELSE UNCHANGED <<reader, delivery>>
    /\ UNCHANGED <<open, asked, closed, slots, crashed, pc, callVars>>

TakeOneTooMany(r) ==          \* <= for <
    /\ ~crashed /\ pc[r] = "spawned" /\ ~closed /\ slots <= MaxRequests
    /\ slots' = slots + 1
    /\ Goto(r, "running")
    /\ UNCHANGED <<open, browserVars, readerVars, crashed, callVars>>

ExceedWaits(r) ==             \* no default branch
    /\ ~crashed /\ pc[r] = "spawned" /\ ~closed /\ slots = MaxRequests
    /\ UNCHANGED vars

FreeNothing(r) ==             \* no <-reserve
    /\ ~crashed /\ pc[r] = "replied"
    /\ Goto(r, "done")
    /\ UNCHANGED <<open, browserVars, readerVars, slots, crashed, callVars>>

RegisterSameID(j) ==          \* requestCounter is read, not advanced
    /\ ~crashed /\ pc[j] = "running" /\ calls[j] < MaxCalls
    /\ callID' = [callID EXCEPT ![j] = 1]
    /\ calls' = [calls EXCEPT ![j] = @ + 1]
    /\ handlers' = [id \in {1} |-> j]
    /\ Goto(j, "registered")
    /\ UNCHANGED <<open, browserVars, readerVars, slots, crashed, counter, got>>

WriteUnregistered(j) ==       \* the handler is deleted once the request is out
    /\ ~crashed /\ pc[j] = "registered"
    /\ asked' = IF open THEN asked \cup {Question(j)} ELSE asked
    /\ Goto(j, IF open THEN "written" ELSE "running")
    /\ handlers' = [i \in DOMAIN handlers \ {callID[j]} |-> handlers[i]]
    /\ UNCHANGED <<open, inbox, readerVars, slots, crashed, counter, callID,
                   got, calls>>

UnregisterNothing(j) ==       \* no deferred delete
    /\ ~crashed /\ pc[j] = "received"
    /\ Goto(j, "running")
    /\ UNCHANGED <<open, browserVars, readerVars, slots, crashed, callVars>>

-----------------------------------------------------------------------------
(* The browser, and the network that may fail at any time.                 *)

Send(r) ==
    /\ ~crashed /\ open /\ pc[r] = "new"
    /\ Goto(r, "sent")
    /\ inbox' = Append(inbox, Request(r))
    /\ UNCHANGED <<open, asked, readerVars, slots, crashed, callVars>>

Answer(q) ==
    /\ ~crashed /\ open /\ q \in asked
    /\ asked' = asked \ {q}
    /\ inbox' = Append(inbox, Response(q))
    /\ UNCHANGED <<open, readerVars, slots, crashed, pc, callVars>>

SendEmpty ==
    /\ ~crashed /\ open
    /\ \A i \in DOMAIN inbox : inbox[i] # Empty
    /\ inbox' = Append(inbox, Empty)
    /\ UNCHANGED <<open, asked, readerVars, slots, crashed, pc, callVars>>

(* The peer is gone, or shutdown has closed the websocket.                 *)
Close ==
    /\ ~crashed /\ open
    /\ open' = FALSE
    /\ UNCHANGED <<browserVars, readerVars, slots, crashed, pc, callVars>>

-----------------------------------------------------------------------------
(* Handle.                                                                 *)

ReadRequest ==
    /\ ~crashed /\ open /\ reader = "reading"
    /\ inbox # <<>> /\ Head(inbox).type = "request"
    /\ inbox' = Tail(inbox)
    /\ Goto(Head(inbox).from, "spawned")
    /\ UNCHANGED <<open, asked, readerVars, slots, crashed, callVars>>

(* An unknown ID is logged, and then sent to the nil channel all the same: *)
(* the reader is stuck for good.                                           *)
ReadResponse ==
    /\ ~crashed /\ open /\ reader = "reading"
    /\ inbox # <<>> /\ Head(inbox).type = "response"
    /\ inbox' = Tail(inbox)
    /\ LET q == Head(inbox).about
       IN  IF q.id \in DOMAIN handlers
             THEN /\ reader' = "delivering"
                  /\ delivery' = [about |-> q, to |-> handlers[q.id]]
             ELSE /\ reader' = "stuck"
                  /\ UNCHANGED delivery
    /\ UNCHANGED <<open, asked, closed, slots, crashed, pc, callVars>>

(* "received nil request", "received nil response": it is logged.  No one  *)
(* is told; whose question it was for waits on.                            *)
DropEmpty ==
    /\ ~crashed /\ open /\ reader = "reading"
    /\ inbox # <<>> /\ Head(inbox).type = "empty"
    /\ inbox' = Tail(inbox)
    /\ UNCHANGED <<open, asked, readerVars, slots, crashed, pc, callVars>>

(* _resp <- msg meets resp = <-response of the goroutine that waits.       *)
HandOver ==
    /\ ~crashed /\ reader = "delivering" /\ pc[delivery.to] = "waiting"
    /\ got' = [got EXCEPT ![delivery.to] = delivery.about]
    /\ Goto(delivery.to, "received")
    /\ reader' = "reading" /\ delivery' = NoDelivery
    /\ UNCHANGED <<open, browserVars, closed, slots, crashed, counter,
                   handlers, callID, calls>>

(* Read fails: the websocket is down, no pong came in time, or a frame     *)
(* cannot be decoded.  The deferred close(reserve) runs.                   *)
ReadFails ==
    /\ ~crashed /\ reader = "reading"
    /\ reader' = "returned"
    /\ closed' = TRUE
    /\ UNCHANGED <<open, browserVars, delivery, slots, crashed, pc, callVars>>

-----------------------------------------------------------------------------
(* The goroutine of a request.                                             *)

TakeSlot(r) ==
    /\ ~crashed /\ pc[r] = "spawned" /\ ~closed /\ slots < MaxRequests
    /\ slots' = slots + 1
    /\ Goto(r, "running")
    /\ UNCHANGED <<open, browserVars, readerVars, crashed, callVars>>

(* The default branch: an error response, and the request is dropped.      *)
Exceed(r) ==
    /\ ~crashed /\ pc[r] = "spawned" /\ ~closed /\ slots = MaxRequests
    /\ Goto(r, "rejected")
    /\ UNCHANGED <<open, browserVars, readerVars, slots, crashed, callVars>>

(* select finds the send on a closed channel ready, and panics.            *)
Panic(r) ==
    /\ ~crashed /\ pc[r] = "spawned" /\ closed
    /\ crashed' = TRUE
    /\ UNCHANGED <<open, browserVars, readerVars, slots, pc, callVars>>

(* HandleRequest ends with a response, which is lost if the socket is down. *)
Reply(j) ==
    /\ ~crashed /\ pc[j] = "running"
    /\ Goto(j, IF j \in Requests THEN "replied" ELSE "done")
    /\ UNCHANGED <<open, browserVars, readerVars, slots, crashed, callVars>>

FreeSlot(r) ==
    /\ ~crashed /\ pc[r] = "replied"
    /\ slots' = slots - 1
    /\ Goto(r, "done")
    /\ UNCHANGED <<open, browserVars, readerVars, crashed, callVars>>

-----------------------------------------------------------------------------
(* Connection.Request.                                                     *)

(* nextRequestId and responseHandlers.set: the ID is private until written. *)
Register(j) ==
    /\ ~crashed /\ pc[j] = "running" /\ calls[j] < MaxCalls
    /\ counter' = counter + 1
    /\ callID' = [callID EXCEPT ![j] = counter']
    /\ calls' = [calls EXCEPT ![j] = @ + 1]
    /\ handlers' = [id \in DOMAIN handlers \cup {counter'} |->
                       IF id = counter' THEN j ELSE handlers[id]]
    /\ Goto(j, "registered")
    /\ UNCHANGED <<open, browserVars, readerVars, slots, crashed, got>>

Forget(id) == [i \in DOMAIN handlers \ {id} |-> handlers[i]]

(* The browser may answer before the goroutine waits.  A failed write      *)
(* returns at once, and the deferred delete runs.                          *)
WriteRequest(j) ==
    /\ ~crashed /\ pc[j] = "registered"
    /\ IF open
         THEN /\ asked' = asked \cup {Question(j)}
              /\ Goto(j, "written")
              /\ UNCHANGED handlers
         ELSE /\ handlers' = Forget(callID[j])
              /\ Goto(j, "running")
              /\ UNCHANGED asked
    /\ UNCHANGED <<open, inbox, readerVars, slots, crashed, counter, callID,
                   got, calls>>

(* resp = <-response: there is no timeout, and no one closes the channel.  *)
Await(j) ==
    /\ ~crashed /\ pc[j] = "written"
    /\ Goto(j, "waiting")
    /\ UNCHANGED <<open, browserVars, readerVars, slots, crashed, callVars>>

(* The deferred responseHandlers.delete.                                   *)
Unregister(j) ==
    /\ ~crashed /\ pc[j] = "received"
    /\ handlers' = Forget(callID[j])
    /\ Goto(j, "running")
    /\ UNCHANGED <<open, browserVars, readerVars, slots, crashed, counter,
                   callID, got, calls>>

-----------------------------------------------------------------------------
Browser    == \/ \E r \in Requests : Send(r)
              \/ \E q \in asked : Answer(q)
              \/ SendEmpty \/ Close
Handle     == ReadRequest \/ ReadResponse \/ DropEmpty \/ HandOver
Serve(r)   == TakeSlot(r) \/ Exceed(r) \/ Panic(r) \/ FreeSlot(r)
Call(j)    == Register(j) \/ WriteRequest(j) \/ Await(j) \/ Unregister(j)

Next ==
    \/ Browser
    \/ Handle
    \/ ReadFails
    \/ \E r \in Requests : Serve(r)
    \/ \E j \in Jobs : Reply(j) \/ Call(j)

Spec == Init /\ [][Next]_vars

(* Every goroutine that can run runs.  Nothing is owed by the browser, nor *)
(* does the connection have to fail.                                       *)
Fairness ==
    /\ WF_vars(Handle)
    /\ \A r \in Requests : WF_vars(Serve(r))
    /\ \A j \in Jobs : WF_vars(\/ WriteRequest(j) \/ Await(j)
                            \/ Unregister(j) \/ Reply(j))

FairSpec == Spec /\ Fairness

-----------------------------------------------------------------------------
(* Properties.                                                             *)

Labels == {"new", "sent", "spawned", "rejected", "done"} \cup Holding

Questions == [id : Nat, by : Jobs \cup {None}, nth : Nat]

(* Every variable has its type.                                            *)
TypeOK ==
    /\ open \in BOOLEAN /\ closed \in BOOLEAN /\ crashed \in BOOLEAN
    /\ asked \subseteq Questions
    /\ inbox \in Seq([type : {"request", "response", "empty"},
                      from : Requests \cup {None}, about : Questions])
    /\ reader \in {"reading", "delivering", "stuck", "returned"}
    /\ delivery \in [about : Questions, to : Jobs \cup {None}]
    /\ slots \in 0 .. MaxRequests
    /\ counter \in Nat
    /\ DOMAIN handlers \subseteq 1 .. counter
    /\ \A id \in DOMAIN handlers : handlers[id] \in Jobs
    /\ pc \in [Jobs -> Labels]
    /\ callID \in [Jobs -> Nat] /\ calls \in [Jobs -> Nat]
    /\ got \in [Jobs -> Questions]

(* The comment at connection.go:141: the requests being handled stay below *)
(* the limit.  Every token of reserve belongs to one of them, through      *)
(* returns, errors and the closing of the channel.                         *)
SlotsAreOpenRequests ==
    /\ slots = Cardinality({r \in Requests : pc[r] \in Holding})
    /\ slots <= MaxRequests

(* request.go:10: the response matches the request.  The goroutine that is *)
(* handed a response asked for it, although many wait at the same time and *)
(* answers come in any order.                                              *)
ResponseMatches ==
    \A j \in Jobs : pc[j] = "received" => got[j] = Question(j)

(* With a browser that answers only what it was asked, the reader never    *)
(* sends on the channel of no one, nor waits for a goroutine that is past  *)
(* receiving: the handler is there before the request is written, and is   *)
(* deleted only after its one response came.                               *)
ReaderNeverStrands ==
    /\ reader # "stuck"
    /\ reader = "delivering" =>
          /\ pc[delivery.to] \in {"written", "waiting"}
          /\ Question(delivery.to) = delivery.about

(* responseHandlers holds the calls under way and nothing else, also after *)
(* failed writes: an entry left behind would keep its channel forever.     *)
HandlersAreCalls ==
    /\ DOMAIN handlers = {callID[j] : j \in {k \in Jobs : pc[k] \in Calling}}
    /\ \A id \in DOMAIN handlers : callID[handlers[id]] = id

Lost == ~open \/ reader = "returned"

(* A request the reader took is answered or rejected, unless the           *)
(* connection is lost or the browser owes an answer itself, an empty one   *)
(* being none: no handler waits for another one, whatever the number of    *)
(* open requests.                                                          *)
RequestFinishes ==
    \A r \in Requests :
        pc[r] = "spawned" ~>
            \/ pc[r] \in {"done", "rejected"}
            \/ Lost
            \/ pc[r] = "waiting" /\ Question(r) \in asked

(* An answer of the browser reaches the goroutine that waits for it while  *)
(* the connection lives: the reader never blocks on the requests that lie  *)
(* before it.                                                              *)
AnswerArrives ==
    \A j \in Jobs :
        pc[j] = "waiting" /\ Question(j) \notin asked ~> pc[j] = "received" \/ Lost

(* connection.go:141: beyond the limit, or below it, a request gets an     *)
(* answer; no request ends the server.  One whose goroutine starts after   *)
(* Handle has returned does.                                               *)
NeverPanics == ~crashed
=============================================================================
