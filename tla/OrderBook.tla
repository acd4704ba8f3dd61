------------------------------ MODULE OrderBook ------------------------------
(***************************************************************************)
(* One ledger channel's order book (Book in internal/orderbook) together   *)
(* with the streams that ServeOrderBookStream runs against it.             *)
(*                                                                         *)
(* CreateOrder and CancelOrder run under Book.mu, one at a time; each      *)
(* successful call starts a goroutine ("go b.broadcast(delta)") that takes *)
(* the read side of Book.subMu and offers the delta to every subscribed    *)
(* stream without ever blocking.  A stream takes a snapshot, writes it,    *)
(* subscribes under the write side of subMu, forwards what its buffered    *)
(* channel holds and, once a write fails, unsubscribes and closes the      *)
(* channel.  A sync.RWMutex admits no new reader once a writer has         *)
(* announced itself: announced is that writer.                             *)
(*                                                                         *)
(* An order is abstracted to its ID and its side.  A book that             *)
(* GetOrCreateBook has not made yet is the empty book, as it is for        *)
(* handleGetOrderBook.                                                     *)
(***************************************************************************)
EXTENDS Integers, Sequences, FiniteSets

CONSTANTS
    OrderIDs,    \* IDs a client may put into an order
    Streams,     \* connections to /ws/orderbook
    BufferSize,  \* capacity of a stream's channel (64 in the code)
    MaxSequence, \* bound: the book makes at most this many changes
    FreshIDs,    \* TRUE: no client ever reuses an ID, as createOrder of the UI
    None         \* no stream

ASSUME BufferAssumption == BufferSize \in Nat \ {0}
ASSUME BoundAssumption  == MaxSequence \in Nat
ASSUME FreshAssumption  == FreshIDs \in BOOLEAN
ASSUME NoneAssumption   == None \notin Streams

VARIABLES
    sequence,    \* Book.sequence
    totalOpen,   \* Book.totalOpen
    bids, asks,  \* the keys of Book.bids and Book.asks
    used,        \* IDs of every CreateOrder received so far (history)
    pending,     \* deltas whose broadcast goroutine has not got subMu yet
    casting,     \* deltas whose broadcast goroutine holds subMu for reading
    todo,        \* <<delta, stream>> pairs a running broadcast still visits
    announced,   \* the stream that has called subMu.Lock, or None
    subscribers, \* Book.subscribers
    status,      \* where each stream's handler stands
    snapshot,    \* the OrderBookSnapshot each stream took
    queue,       \* the frames in each stream's channel
    taken        \* frames each stream took off its channel: all of them are
                 \* written while it is streaming, all but the last after a
                 \* write failed

bookVars   == <<sequence, totalOpen, bids, asks, used>>
castVars   == <<pending, casting, todo>>
streamVars == <<announced, subscribers, status, snapshot, queue, taken>>
vars       == <<bookVars, castVars, streamVars>>

Sides == {"bid", "ask"}
Rows  == [id : OrderIDs, side : Sides]

Deltas == [sequence  : Nat \ {0}, added : SUBSET Rows,
           removed   : SUBSET OrderIDs, totalOpen : Nat]

Snapshots == [sequence : Nat, totalOpen : Nat,
              bids : SUBSET OrderIDs, asks : SUBSET OrderIDs]

Snapshot == [sequence |-> sequence, totalOpen |-> totalOpen,
             bids |-> bids, asks |-> asks]

(* A delta carries the sequence number and the count after its change.     *)
Delta(added, removed) ==
    [sequence |-> sequence', added |-> added,
     removed  |-> removed, totalOpen |-> totalOpen']

-----------------------------------------------------------------------------
Init ==
    /\ sequence = 0
    /\ totalOpen = 0
    /\ bids = {} /\ asks = {} /\ used = {}
    /\ pending = {} /\ casting = {} /\ todo = {}
    /\ announced = None
    /\ subscribers = {}
    /\ status = [s \in Streams |-> "new"]
    /\ snapshot = [s \in Streams |-> Snapshot]
    /\ queue = [s \in Streams |-> <<>>]
    /\ taken = [s \in Streams |-> <<>>]

-----------------------------------------------------------------------------
(* Slips: variants of the actions below with a bug the code does not have. *)
(* Each is there to be seen by the property that it breaks.                *)

Change(open, delta) ==
    /\ sequence < MaxSequence
    /\ totalOpen' = open
    /\ pending' = pending \cup {delta}
    /\ UNCHANGED <<casting, todo, streamVars>>

CreateCountsNewIDs(id, side) ==       \* counts an order only if its ID is new
    /\ bids' = IF side = "bid" THEN bids \cup {id} ELSE bids
    /\ asks' = IF side = "ask" THEN asks \cup {id} ELSE asks
    /\ used' = used \cup {id}
    /\ sequence' = sequence + 1
    /\ Change(IF id \in bids \cup asks THEN totalOpen ELSE totalOpen + 1,
              Delta({[id |-> id, side |-> side]}, {}))

CancelKeepsCount(id) ==               \* no totalOpen--
    /\ id \in bids \cup asks
    /\ bids' = bids \ {id} /\ asks' = asks \ {id}
    /\ sequence' = sequence + 1
    /\ UNCHANGED used
    /\ Change(totalOpen, Delta({}, {id}))

CancelKeepsSequence(id) ==            \* no sequence++
    /\ id \in bids \cup asks
    /\ bids' = bids \ {id} /\ asks' = asks \ {id}
    /\ UNCHANGED <<sequence, used>>
    /\ Change(totalOpen - 1, Delta({}, {id}))

OfferWithoutBound(d, s) ==            \* a channel without capacity
    /\ <<d, s>> \in todo
    /\ todo' = todo \ {<<d, s>>}
    /\ queue' = [queue EXCEPT ![s] = Append(@, d)]
    /\ UNCHANGED <<bookVars, pending, casting, announced, subscribers,
                   status, snapshot, taken>>

EndKeepsLock(d) ==                    \* no RUnlock
    /\ d \in casting
    /\ UNCHANGED vars

SubscribeKeepsLock(s) ==              \* no Unlock
    /\ status[s] = "subscribing" /\ announced = s /\ casting = {}
    /\ subscribers' = subscribers \cup {s}
    /\ status' = [status EXCEPT ![s] = "streaming"]
    /\ UNCHANGED <<bookVars, castVars, announced, snapshot, queue, taken>>

UnsubscribeUnlocked(s) ==             \* closes while a broadcast runs
    /\ status[s] = "leaving" /\ announced = s
    /\ subscribers' = subscribers \ {s}
    /\ status' = [status EXCEPT ![s] = "closed"]
    /\ announced' = None
    /\ UNCHANGED <<bookVars, castVars, snapshot, queue, taken>>

UnsubscribeKeepsEntry(s) ==           \* no delete
    /\ status[s] = "leaving" /\ announced = s /\ casting = {}
    /\ status' = [status EXCEPT ![s] = "closed"]
    /\ announced' = None
    /\ UNCHANGED <<bookVars, castVars, subscribers, snapshot, queue, taken>>

-----------------------------------------------------------------------------
(* The book, under Book.mu.                                                *)

(* The order overwrites one of the same ID on the same side; the count and *)
(* the sequence number grow all the same.                                  *)
CreateOrder(id, side) ==
    /\ FreshIDs => id \notin used
    /\ sequence < MaxSequence
    /\ bids' = IF side = "bid" THEN bids \cup {id} ELSE bids
    /\ asks' = IF side = "ask" THEN asks \cup {id} ELSE asks
    /\ used' = used \cup {id}
    /\ totalOpen' = totalOpen + 1
    /\ sequence' = sequence + 1
    /\ pending' = pending \cup {Delta({[id |-> id, side |-> side]}, {})}
    /\ UNCHANGED <<casting, todo, streamVars>>

(* A side that is neither bid nor ask, or the ID of no order to cancel: a  *)
(* negative acknowledgement and nothing else.                              *)
Refuse == UNCHANGED vars

(* The ID is looked up among the bids first: an ask of the same ID stays.  *)
CancelOrder(id) ==
    /\ id \in bids \cup asks
    /\ sequence < MaxSequence
    /\ bids' = bids \ {id}
    /\ asks' = IF id \in bids THEN asks ELSE asks \ {id}
    /\ totalOpen' = IF totalOpen > 0 THEN totalOpen - 1 ELSE totalOpen
    /\ sequence' = sequence + 1
    /\ pending' = pending \cup {Delta({}, {id})}
    /\ UNCHANGED <<used, casting, todo, streamVars>>

-----------------------------------------------------------------------------
(* broadcast, one goroutine per delta.                                     *)

(* subMu.RLock: the range over b.subscribers is fixed from here on, for no *)
(* stream can subscribe or leave before RUnlock.                           *)
StartBroadcast(d) ==
    /\ d \in pending
    /\ announced = None
    /\ pending' = pending \ {d}
    /\ casting' = casting \cup {d}
    /\ todo' = todo \cup ({d} \X subscribers)
    /\ UNCHANGED <<bookVars, streamVars>>

(* The non-blocking send: the frame is dropped when the buffer is full.    *)
Offer(d, s) ==
    /\ <<d, s>> \in todo
    /\ todo' = todo \ {<<d, s>>}
    /\ queue' = IF Len(queue[s]) < BufferSize
                  THEN [queue EXCEPT ![s] = Append(@, d)]
                  ELSE queue
    /\ UNCHANGED <<bookVars, pending, casting, announced, subscribers,
                   status, snapshot, taken>>

(* subMu.RUnlock, when every subscriber has been visited.                  *)
EndBroadcast(d) ==
    /\ d \in casting
    /\ todo \cap ({d} \X Streams) = {}
    /\ casting' = casting \ {d}
    /\ UNCHANGED <<bookVars, pending, todo, streamVars>>

-----------------------------------------------------------------------------
(* ServeOrderBookStream, one handler per stream.                           *)

TakeSnapshot(s) ==
    /\ status[s] = "new"
    /\ status' = [status EXCEPT ![s] = "snapshot"]
    /\ snapshot' = [snapshot EXCEPT ![s] = Snapshot]
    /\ UNCHANGED <<bookVars, castVars, announced, subscribers, queue, taken>>

(* WriteJSON of the snapshot succeeds, or fails before the stream has      *)
(* subscribed: then there is nothing to undo.                              *)
SendSnapshot(s) ==
    /\ status[s] = "snapshot"
    /\ \E next \in {"subscribing", "refused"} :
          status' = [status EXCEPT ![s] = next]
    /\ UNCHANGED <<bookVars, castVars, announced, subscribers, snapshot,
                   queue, taken>>

(* subMu.Lock announces the writer, which keeps new readers out.           *)
Announce(s) ==
    /\ status[s] \in {"subscribing", "leaving"}
    /\ announced = None
    /\ announced' = s
    /\ UNCHANGED <<bookVars, castVars, subscribers, status, snapshot, queue,
                   taken>>

Subscribe(s) ==
    /\ status[s] = "subscribing"
    /\ announced = s
    /\ casting = {}
    /\ subscribers' = subscribers \cup {s}
    /\ status' = [status EXCEPT ![s] = "streaming"]
    /\ announced' = None
    /\ UNCHANGED <<bookVars, castVars, snapshot, queue, taken>>

TakeFrame(s) ==
    /\ queue[s] # <<>>
    /\ queue' = [queue EXCEPT ![s] = Tail(@)]
    /\ taken' = [taken EXCEPT ![s] = Append(@, Head(queue[s]))]

Deliver(s) ==
    /\ status[s] = "streaming"
    /\ TakeFrame(s)
    /\ UNCHANGED <<bookVars, castVars, announced, subscribers, status, snapshot>>

(* A failed write of a frame, which is lost, or of a ping.                 *)
FailWrite(s) ==
    /\ status[s] = "streaming"
    /\ \/ TakeFrame(s)
       \/ UNCHANGED <<queue, taken>>
    /\ status' = [status EXCEPT ![s] = "leaving"]
    /\ UNCHANGED <<bookVars, castVars, announced, subscribers, snapshot>>

(* The deferred Unsubscribe deletes the entry and closes the channel.      *)
Unsubscribe(s) ==
    /\ status[s] = "leaving"
    /\ announced = s
    /\ casting = {}
    /\ subscribers' = subscribers \ {s}
    /\ status' = [status EXCEPT ![s] = "closed"]
    /\ announced' = None
    /\ UNCHANGED <<bookVars, castVars, snapshot, queue, taken>>

-----------------------------------------------------------------------------
Book      == \/ \E id \in OrderIDs, side \in Sides : CreateOrder(id, side)
             \/ \E id \in OrderIDs : CancelOrder(id)
             \/ Refuse

Broadcast == \/ \E d \in pending : StartBroadcast(d)
             \/ \E p \in todo : Offer(p[1], p[2])
             \/ \E d \in casting : EndBroadcast(d)

Stream(s) == \/ TakeSnapshot(s) \/ SendSnapshot(s) \/ Announce(s)
             \/ Subscribe(s) \/ Deliver(s) \/ FailWrite(s) \/ Unsubscribe(s)

Next == Book \/ Broadcast \/ \E s \in Streams : Stream(s)

Spec == Init /\ [][Next]_vars

(* The Go scheduler runs every goroutine that can run; subMu starves nobody *)
(* that waits for it.  Clients owe the book no order.  A stream's socket    *)
(* takes the next frame or fails within its write deadline.                 *)
BroadcastOf(n) ==
    \/ \E d \in pending : d.sequence = n /\ StartBroadcast(d)
    \/ \E p \in todo : p[1].sequence = n /\ Offer(p[1], p[2])
    \/ \E d \in casting : d.sequence = n /\ EndBroadcast(d)

StreamStep(s) == \/ TakeSnapshot(s) \/ SendSnapshot(s) \/ Announce(s)
                 \/ Subscribe(s) \/ Unsubscribe(s)

Forward(s) == Deliver(s) \/ (queue[s] # <<>> /\ FailWrite(s))

Fairness ==
    /\ \A n \in 1 .. MaxSequence : SF_vars(BroadcastOf(n))
    /\ \A s \in Streams : SF_vars(StreamStep(s)) /\ WF_vars(Forward(s))

FairSpec == Spec /\ Fairness

-----------------------------------------------------------------------------
(* Properties.                                                             *)

Statuses == {"new", "snapshot", "refused", "subscribing", "streaming",
             "leaving", "closed"}

(* Every variable has its type; a stream's channel never exceeds its       *)
(* capacity.                                                               *)
TypeOK ==
    /\ sequence \in Nat /\ totalOpen \in Nat
    /\ bids \subseteq OrderIDs /\ asks \subseteq OrderIDs
    /\ used \subseteq OrderIDs
    /\ pending \subseteq Deltas /\ casting \subseteq Deltas
    /\ todo \subseteq casting \X Streams
    /\ announced \in Streams \cup {None}
    /\ subscribers \subseteq Streams
    /\ status \in [Streams -> Statuses]
    /\ snapshot \in [Streams -> Snapshots]
    /\ queue \in [Streams -> Seq(Deltas)]
    /\ taken \in [Streams -> Seq(Deltas)]
    /\ \A s \in Streams : Len(queue[s]) <= BufferSize

(* CreateOrder and CancelOrder keep totalOpen by hand beside two maps: it  *)
(* never falls below the number of orders the maps hold, so the guard      *)
(* "if b.totalOpen > 0" of CancelOrder never hides an underflow.           *)
CountCoversOrders == totalOpen >= Cardinality(bids) + Cardinality(asks)

(* TotalOpen is the "active orders count" of internal/message/order.go:49. *)
(* CreateOrder breaks it when an ID comes twice.                           *)
CountIsActiveOrders == totalOpen = Cardinality(bids) + Cardinality(asks)

(* broadcast never visits a channel that Unsubscribe has closed: sending   *)
(* on it would panic and take the whole server down.                       *)
NoSendOnClosed == \A p \in todo : status[p[2]] \in {"streaming", "leaving"}

Streaming == {s \in Streams : status[s] = "streaming"}

SequencesOf(frames) == {frames[i].sequence : i \in DOMAIN frames}

Seen(s) == SequencesOf(taken[s]) \cup SequencesOf(queue[s])

(* No change of the book reaches a stream twice, whatever the order in     *)
(* which the broadcast goroutines run and streams come and go.             *)
AtMostOnce ==
    \A s \in Streams :
        LET frames == taken[s] \o queue[s]
        IN  \A i, j \in DOMAIN frames :
                frames[i].sequence = frames[j].sequence => i = j

(* Every broadcast goroutine finishes: slow or failing streams never hold  *)
(* it up, and those that keep subscribing and leaving do not starve it.    *)
BroadcastEnds ==
    \A n \in 1 .. MaxSequence :
        (\E d \in pending \cup casting : d.sequence = n)
            ~> ~(\E d \in pending \cup casting : d.sequence = n)

(* A stream whose socket failed leaves Book.subscribers: Unsubscribe is    *)
(* never locked out by the broadcasts, so no dead channel is kept forever. *)
FailedStreamLeaves ==
    \A s \in Streams : status[s] = "leaving" ~> s \notin subscribers

(* README.md:188: a stream is the snapshot "and subsequent OrderBookDelta  *)
(* updates in sequence order".  Each delta is broadcast by a goroutine of  *)
(* its own, so frames overtake each other, and one made before the         *)
(* snapshot can still follow it.                                           *)
StreamInSequenceOrder ==
    \A s \in Streaming : \A i \in DOMAIN taken[s] :
        /\ taken[s][i].sequence > snapshot[s].sequence
        /\ i > 1 => taken[s][i].sequence > taken[s][i - 1].sequence

(* README.md:216 and order.go:54: a client keeps a local snapshot up to    *)
(* date with the deltas "since the previous sequence".  With a buffer that *)
(* never fills, each change after the snapshot must be on its way to the   *)
(* stream or there; what is broadcast between Snapshot and Subscribe never *)
(* is.                                                                     *)
NothingMissed ==
    BufferSize >= MaxSequence =>
        \A s \in Streaming :
            \A n \in snapshot[s].sequence + 1 .. sequence :
                \/ n \in Seen(s)
                \/ \E d \in pending : d.sequence = n
                \/ \E p \in todo : p[1].sequence = n /\ p[2] = s

(* The book implements the feed: sequence numbers the changes, a stream    *)
(* takes part from Subscribe to Unsubscribe, and what it has been handed   *)
(* is what its channel holds or has held.                                  *)
PartOf(st) == CASE st \in {"streaming", "leaving"} -> "in"
                [] st = "closed"                   -> "gone"
                [] OTHER                           -> "out"

Feed == INSTANCE OrderFeed
          WITH published <- sequence,
               part      <- [s \in Streams |-> PartOf(status[s])],
               seen      <- [s \in Streams |-> Seen(s)]

ImplementsFeed == Feed!FeedSpec
=============================================================================
