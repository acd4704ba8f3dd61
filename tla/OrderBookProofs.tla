--------------------------- MODULE OrderBookProofs ---------------------------
(***************************************************************************)
(* Theorems about OrderBook for every set of IDs and streams, every buffer *)
(* size and every number of changes.                                       *)
(***************************************************************************)
EXTENDS OrderBook, TLAPS, FiniteSetTheorems, SequenceTheorems

(* One step keeps the types; one case per action.                          *)
LEMMA TypeStep == TypeOK /\ [Next]_vars => TypeOK'
<1> SUFFICES ASSUME TypeOK, [Next]_vars PROVE TypeOK'
  OBVIOUS
<1>1. ASSUME NEW id \in OrderIDs, NEW side \in Sides, CreateOrder(id, side)
      PROVE  TypeOK'
  <2>1. Delta({[id |-> id, side |-> side]}, {}) \in Deltas
    BY <1>1 DEF TypeOK, CreateOrder, Delta, Deltas, Rows
  <2> QED
    BY <1>1, <2>1 DEF TypeOK, CreateOrder, streamVars
<1>2. CASE Refuse
  BY <1>2 DEF TypeOK, Refuse, vars, bookVars, castVars, streamVars
<1>3. ASSUME NEW id \in OrderIDs, CancelOrder(id) PROVE TypeOK'
  <2>1. Delta({}, {id}) \in Deltas
    BY <1>3 DEF TypeOK, CancelOrder, Delta, Deltas, Rows
  <2> QED
    BY <1>3, <2>1 DEF TypeOK, CancelOrder, streamVars
<1>4. ASSUME NEW d \in pending, StartBroadcast(d) PROVE TypeOK'
  BY <1>4 DEF TypeOK, StartBroadcast, bookVars, streamVars
<1>5. ASSUME NEW p \in todo, Offer(p[1], p[2]) PROVE TypeOK'
  <2>1. PICK d \in casting, s \in Streams : p = <<d, s>>
    BY DEF TypeOK
  <2>2. d \in Deltas
    BY DEF TypeOK
  <2>3. queue' \in [Streams -> Seq(Deltas)]
    BY <1>5, <2>1, <2>2 DEF TypeOK, Offer
  <2>4. ASSUME NEW t \in Streams PROVE Len(queue'[t]) <= BufferSize
    BY <1>5, <2>1, <2>2, BufferAssumption DEF TypeOK, Offer
  <2> QED
    BY <1>5, <2>3, <2>4 DEF TypeOK, Offer, bookVars
<1>6. ASSUME NEW d \in casting, EndBroadcast(d) PROVE TypeOK'
  BY <1>6 DEF TypeOK, EndBroadcast, bookVars, streamVars
<1>7. ASSUME NEW s \in Streams, Stream(s) PROVE TypeOK'
  <2>1. CASE TakeSnapshot(s)
    <3>1. Snapshot \in Snapshots
      BY DEF TypeOK, Snapshot, Snapshots
    <3> QED
      BY <2>1, <3>1 DEF TypeOK, TakeSnapshot, bookVars, castVars, Statuses
  <2>2. CASE SendSnapshot(s)
    BY <2>2 DEF TypeOK, SendSnapshot, bookVars, castVars, Statuses
  <2>3. CASE Announce(s)
    BY <2>3 DEF TypeOK, Announce, bookVars, castVars
  <2>4. CASE Subscribe(s)
    BY <2>4 DEF TypeOK, Subscribe, bookVars, castVars, Statuses
  <2>5. ASSUME TakeFrame(s)
        PROVE  /\ queue' \in [Streams -> Seq(Deltas)]
               /\ taken' \in [Streams -> Seq(Deltas)]
               /\ \A t \in Streams : Len(queue'[t]) <= BufferSize
    BY <2>5, BufferAssumption DEF TypeOK, TakeFrame
  <2>6. CASE Deliver(s)
    BY <2>5, <2>6 DEF TypeOK, Deliver, bookVars, castVars
  <2>7. CASE FailWrite(s)
    BY <2>5, <2>7 DEF TypeOK, FailWrite, bookVars, castVars, Statuses
  <2>8. CASE Unsubscribe(s)
    BY <2>8 DEF TypeOK, Unsubscribe, bookVars, castVars, Statuses
  <2> QED
    BY <1>7, <2>1, <2>2, <2>3, <2>4, <2>6, <2>7, <2>8 DEF Stream
<1>8. CASE UNCHANGED vars
  BY <1>8 DEF TypeOK, vars, bookVars, castVars, streamVars
<1> QED
  BY <1>1, <1>2, <1>3, <1>4, <1>5, <1>6, <1>7, <1>8
  DEF Next, Book, Broadcast

(* Every variable keeps its type, and no channel outgrows its capacity.    *)
THEOREM TypeCorrect == Spec => []TypeOK
<1>1. Init => TypeOK
  BY BufferAssumption DEF Init, TypeOK, Snapshots, Snapshot, Statuses
<1> QED
  BY <1>1, TypeStep, PTL DEF Spec

-----------------------------------------------------------------------------
(* The count.                                                              *)

LEMMA AddToFinite ==
  ASSUME NEW S, IsFiniteSet(S), NEW x
  PROVE  /\ IsFiniteSet(S \cup {x})
         /\ Cardinality(S) \in Nat
         /\ Cardinality(S \cup {x}) \in Nat
         /\ Cardinality(S \cup {x}) <= Cardinality(S) + 1
         /\ x \notin S => Cardinality(S \cup {x}) = Cardinality(S) + 1
<1>1. Cardinality(S) \in Nat
  BY FS_CardinalityType
<1>2. /\ IsFiniteSet(S \cup {x})
      /\ Cardinality(S \cup {x})
           = IF x \in S THEN Cardinality(S) ELSE Cardinality(S) + 1
  BY FS_AddElement
<1> QED
  BY <1>1, <1>2

LEMMA RemoveFromFinite ==
  ASSUME NEW S, IsFiniteSet(S), NEW x \in S
  PROVE  /\ IsFiniteSet(S \ {x})
         /\ Cardinality(S) \in Nat
         /\ Cardinality(S \ {x}) \in Nat
         /\ Cardinality(S \ {x}) = Cardinality(S) - 1
<1>1. Cardinality(S) \in Nat
  BY FS_CardinalityType
<1>2. /\ IsFiniteSet(S \ {x})
      /\ Cardinality(S \ {x})
           = IF x \in S THEN Cardinality(S) - 1 ELSE Cardinality(S)
  BY FS_RemoveElement
<1>3. Cardinality(S \ {x}) \in Nat
  BY <1>2, FS_CardinalityType
<1> QED
  BY <1>1, <1>2, <1>3

(* totalOpen against the two maps: it covers them always, and counts them  *)
(* exactly when no ID is used twice, for then an ID lies on one side only. *)
CountInv ==
    /\ IsFiniteSet(bids) /\ IsFiniteSet(asks)
    /\ totalOpen \in Nat
    /\ CountCoversOrders
    /\ FreshIDs => /\ CountIsActiveOrders
                   /\ bids \cap asks = {}
                   /\ bids \cup asks \subseteq used

LEMMA CountInductive == CountInv /\ [Next]_vars => CountInv'
<1> SUFFICES ASSUME CountInv, [Next]_vars PROVE CountInv'
  OBVIOUS
<1>1. ASSUME NEW id \in OrderIDs, NEW side \in Sides, CreateOrder(id, side)
      PROVE  CountInv'
  <2>1. FreshIDs => id \notin bids \cup asks
    BY <1>1 DEF CountInv, CreateOrder
  <2>2. CASE side = "bid"
    <3>1. bids' = bids \cup {id} /\ asks' = asks
      BY <1>1, <2>2 DEF CreateOrder
    <3>2. /\ IsFiniteSet(bids')
          /\ Cardinality(bids) \in Nat /\ Cardinality(bids') \in Nat
          /\ Cardinality(bids') <= Cardinality(bids) + 1
          /\ id \notin bids => Cardinality(bids') = Cardinality(bids) + 1
      BY <3>1, AddToFinite DEF CountInv
    <3>3. Cardinality(asks) \in Nat
      BY FS_CardinalityType DEF CountInv
    <3>4. totalOpen' = totalOpen + 1 /\ used' = used \cup {id}
      BY <1>1 DEF CreateOrder
    <3>5. CountCoversOrders'
      BY <3>1, <3>2, <3>3, <3>4 DEF CountInv, CountCoversOrders
    <3>6. FreshIDs => CountIsActiveOrders'
      BY <2>1, <3>1, <3>2, <3>3, <3>4 DEF CountInv, CountIsActiveOrders
    <3>7. FreshIDs => bids' \cap asks' = {} /\ bids' \cup asks' \subseteq used'
      BY <2>1, <3>1, <3>4 DEF CountInv
    <3> QED
      BY <3>1, <3>2, <3>4, <3>5, <3>6, <3>7 DEF CountInv
  <2>3. CASE side = "ask"
    <3>1. asks' = asks \cup {id} /\ bids' = bids
      BY <1>1, <2>3 DEF CreateOrder
    <3>2. /\ IsFiniteSet(asks')
          /\ Cardinality(asks) \in Nat /\ Cardinality(asks') \in Nat
          /\ Cardinality(asks') <= Cardinality(asks) + 1
          /\ id \notin asks => Cardinality(asks') = Cardinality(asks) + 1
      BY <3>1, AddToFinite DEF CountInv
    <3>3. Cardinality(bids) \in Nat
      BY FS_CardinalityType DEF CountInv
    <3>4. totalOpen' = totalOpen + 1 /\ used' = used \cup {id}
      BY <1>1 DEF CreateOrder
    <3>5. CountCoversOrders'
      BY <3>1, <3>2, <3>3, <3>4 DEF CountInv, CountCoversOrders
    <3>6. FreshIDs => CountIsActiveOrders'
      BY <2>1, <3>1, <3>2, <3>3, <3>4 DEF CountInv, CountIsActiveOrders
    <3>7. FreshIDs => bids' \cap asks' = {} /\ bids' \cup asks' \subseteq used'
      BY <2>1, <3>1, <3>4 DEF CountInv
    <3> QED
      BY <3>1, <3>2, <3>4, <3>5, <3>6, <3>7 DEF CountInv
  <2> QED
    BY <2>2, <2>3 DEF Sides
<1>2. CASE Refuse
  BY <1>2 DEF Refuse, vars, bookVars, CountInv, CountCoversOrders,
     CountIsActiveOrders
<1>3. ASSUME NEW id \in OrderIDs, CancelOrder(id) PROVE CountInv'
  <2>1. CASE id \in bids
    <3>1. bids' = bids \ {id} /\ asks' = asks /\ used' = used
      BY <1>3, <2>1 DEF CancelOrder
    <3>2. /\ Cardinality(bids') = Cardinality(bids) - 1
          /\ IsFiniteSet(bids')
          /\ Cardinality(bids) \in Nat /\ Cardinality(bids') \in Nat
      BY <2>1, <3>1, RemoveFromFinite DEF CountInv
    <3>3. Cardinality(asks) \in Nat
      BY FS_CardinalityType DEF CountInv
    <3>4. totalOpen > 0 /\ totalOpen' = totalOpen - 1
      BY <1>3, <3>2, <3>3 DEF CountInv, CountCoversOrders, CancelOrder
    <3>5. CountCoversOrders'
      BY <3>1, <3>2, <3>3, <3>4 DEF CountInv, CountCoversOrders
    <3>6. FreshIDs => CountIsActiveOrders'
      BY <3>1, <3>2, <3>3, <3>4 DEF CountInv, CountIsActiveOrders
    <3> QED
      BY <3>1, <3>2, <3>4, <3>5, <3>6 DEF CountInv
  <2>2. CASE id \notin bids
    <3>1. bids' = bids /\ asks' = asks \ {id} /\ used' = used /\ id \in asks
      BY <1>3, <2>2 DEF CancelOrder
    <3>2. /\ Cardinality(asks') = Cardinality(asks) - 1
          /\ IsFiniteSet(asks')
          /\ Cardinality(asks) \in Nat /\ Cardinality(asks') \in Nat
      BY <3>1, RemoveFromFinite DEF CountInv
    <3>3. Cardinality(bids) \in Nat
      BY FS_CardinalityType DEF CountInv
    <3>4. totalOpen > 0 /\ totalOpen' = totalOpen - 1
      BY <1>3, <3>2, <3>3 DEF CountInv, CountCoversOrders, CancelOrder
    <3>5. CountCoversOrders'
      BY <3>1, <3>2, <3>3, <3>4 DEF CountInv, CountCoversOrders
    <3>6. FreshIDs => CountIsActiveOrders'
      BY <3>1, <3>2, <3>3, <3>4 DEF CountInv, CountIsActiveOrders
    <3> QED
      BY <3>1, <3>2, <3>4, <3>5, <3>6 DEF CountInv
  <2> QED
    BY <2>1, <2>2
<1>4. CASE Broadcast \/ (\E s \in Streams : Stream(s)) \/ UNCHANGED vars
  <2>1. UNCHANGED bookVars
    BY <1>4 DEF Broadcast, StartBroadcast, Offer, EndBroadcast, Stream,
       TakeSnapshot, SendSnapshot, Announce, Subscribe, Deliver, FailWrite,
       Unsubscribe, vars
  <2> QED
    BY <2>1 DEF bookVars, CountInv, CountCoversOrders, CountIsActiveOrders
<1> QED
  BY <1>1, <1>2, <1>3, <1>4 DEF Next, Book

LEMMA CountInit == Init => CountInv
BY FS_EmptySet DEF Init, CountInv, CountCoversOrders, CountIsActiveOrders

(* totalOpen never falls below the number of orders in the two maps.       *)
THEOREM CountCovers == Spec => []CountCoversOrders
<1>1. CountInv => CountCoversOrders
  BY DEF CountInv
<1> QED
  BY <1>1, CountInit, CountInductive, PTL DEF Spec

(* With clients that never reuse an ID it is exactly that number.          *)
THEOREM CountExact == ASSUME FreshIDs PROVE Spec => []CountIsActiveOrders
<1>1. CountInv => CountIsActiveOrders
  BY DEF CountInv
<1> QED
  BY <1>1, CountInit, CountInductive, PTL DEF Spec

-----------------------------------------------------------------------------
(* Frames.                                                                 *)

LEMMA AppendedFrames ==
  ASSUME NEW q \in Seq(Deltas), NEW d \in Deltas
  PROVE  SequencesOf(Append(q, d)) = SequencesOf(q) \cup {d.sequence}
<1>1. \A i \in DOMAIN q : Append(q, d)[i] = q[i]
  OBVIOUS
<1>2. Append(q, d)[Len(q) + 1] = d
  OBVIOUS
<1>3. DOMAIN Append(q, d) = DOMAIN q \cup {Len(q) + 1}
  OBVIOUS
<1> QED
  BY <1>1, <1>2, <1>3 DEF SequencesOf

LEMMA AppendToConcat ==
  ASSUME NEW S, NEW a \in Seq(S), NEW q \in Seq(S), NEW d \in S
  PROVE  a \o Append(q, d) = Append(a \o q, d)
<1>1. <<d>> \in Seq(S) /\ a \o q \in Seq(S)
  BY ConcatProperties
<1>2. Append(q, d) = q \o <<d>> /\ Append(a \o q, d) = (a \o q) \o <<d>>
  BY <1>1, AppendIsConcat
<1> QED
  BY <1>1, <1>2, ConcatAssociative

LEMMA HeadAndTailFrames ==
  ASSUME NEW q \in Seq(Deltas), q # <<>>
  PROVE  /\ Head(q) \in Deltas /\ Tail(q) \in Seq(Deltas)
         /\ SequencesOf(q) = {Head(q).sequence} \cup SequencesOf(Tail(q))
<1>1. /\ Head(q) \in Deltas /\ Tail(q) \in Seq(Deltas)
      /\ Head(q) = q[1] /\ Len(q) \in Nat \ {0}
      /\ DOMAIN q = 1 .. Len(q) /\ DOMAIN Tail(q) = 1 .. Len(q) - 1
      /\ \A i \in 1 .. Len(q) - 1 : Tail(q)[i] = q[i + 1]
  OBVIOUS
<1>2. ASSUME NEW i \in DOMAIN q
      PROVE  q[i].sequence \in {Head(q).sequence} \cup SequencesOf(Tail(q))
  <2>1. CASE i = 1
    BY <1>1, <2>1
  <2>2. CASE i # 1
    <3>1. i - 1 \in DOMAIN Tail(q) /\ Tail(q)[i - 1] = q[i]
      BY <1>1, <2>2
    <3> QED
      BY <3>1 DEF SequencesOf
  <2> QED
    BY <2>1, <2>2
<1>3. ASSUME NEW i \in DOMAIN Tail(q)
      PROVE  Tail(q)[i].sequence \in SequencesOf(q)
  BY <1>1 DEF SequencesOf
<1>4. Head(q).sequence \in SequencesOf(q)
  BY <1>1 DEF SequencesOf
<1> QED
  BY <1>1, <1>2, <1>3, <1>4 DEF SequencesOf

(* The frames s was handed, in the order it was handed them.               *)
Handed(s) == taken[s] \o queue[s]

LEMMA HandedFrames ==
  ASSUME TypeOK, NEW s \in Streams
  PROVE  /\ Handed(s) \in Seq(Deltas)
         /\ SequencesOf(Handed(s)) = Seen(s)
<1> DEFINE t == taken[s]
           q == queue[s]
<1>1. t \in Seq(Deltas) /\ q \in Seq(Deltas)
  BY DEF TypeOK
<1> HIDE DEF t, q
<1>2. /\ t \o q \in Seq(Deltas)
      /\ DOMAIN (t \o q) = 1 .. Len(t) + Len(q)
      /\ \A i \in 1 .. Len(t) : (t \o q)[i] = t[i]
      /\ \A i \in 1 .. Len(q) : (t \o q)[Len(t) + i] = q[i]
      /\ \A i \in Len(t) + 1 .. Len(t) + Len(q) : (t \o q)[i] = q[i - Len(t)]
      /\ Len(t) \in Nat /\ Len(q) \in Nat
      /\ DOMAIN t = 1 .. Len(t) /\ DOMAIN q = 1 .. Len(q)
  BY <1>1
<1>3. ASSUME NEW i \in 1 .. Len(t) + Len(q)
      PROVE  (t \o q)[i].sequence \in SequencesOf(t) \cup SequencesOf(q)
  <2>1. CASE i <= Len(t)
    BY <1>2, <2>1 DEF SequencesOf
  <2>2. CASE i > Len(t)
    <3>1. i - Len(t) \in DOMAIN q /\ (t \o q)[i] = q[i - Len(t)]
      BY <1>2, <2>2
    <3> QED
      BY <3>1 DEF SequencesOf
  <2> QED
    BY <1>2, <2>1, <2>2
<1>4. SequencesOf(t) \subseteq SequencesOf(t \o q)
  BY <1>2 DEF SequencesOf
<1>5. ASSUME NEW i \in DOMAIN q PROVE q[i].sequence \in SequencesOf(t \o q)
  <2>1. Len(t) + i \in DOMAIN (t \o q) /\ (t \o q)[Len(t) + i] = q[i]
    BY <1>2
  <2> QED
    BY <2>1 DEF SequencesOf
<1>6. SequencesOf(q) \subseteq SequencesOf(t \o q)
  BY <1>5 DEF SequencesOf
<1>7. SequencesOf(t \o q) \subseteq SequencesOf(t) \cup SequencesOf(q)
  <2>1. \A x \in SequencesOf(t \o q) :
            \E i \in 1 .. Len(t) + Len(q) : x = (t \o q)[i].sequence
    BY <1>2 DEF SequencesOf
  <2> QED
    BY <1>3, <2>1
<1> QED
  BY <1>2, <1>4, <1>6, <1>7 DEF Handed, Seen, t, q

(* Taking a frame off the channel leaves what was handed as it was.        *)
LEMMA TakingKeepsHanded ==
  ASSUME TypeOK, NEW s \in Streams, TakeFrame(s), NEW t \in Streams
  PROVE  Handed(t)' = Handed(t) /\ Seen(t)' = Seen(t)
<1>1. CASE t # s
  BY <1>1 DEF TypeOK, TakeFrame, Handed, Seen
<1>2. CASE t = s
  <2> DEFINE a == taken[s]
             q == queue[s]
  <2>1. a \in Seq(Deltas) /\ q \in Seq(Deltas) /\ q # <<>>
    BY DEF TypeOK, TakeFrame
  <2>2. taken'[s] = Append(a, Head(q)) /\ queue'[s] = Tail(q)
    BY DEF TypeOK, TakeFrame
  <2> HIDE DEF a, q
  <2>3. Head(q) \in Deltas /\ Tail(q) \in Seq(Deltas)
    BY <2>1, HeadAndTailFrames
  <2>4. Append(a, Head(q)) \o Tail(q) = a \o q
    BY <2>1, <2>3
  <2>5. SequencesOf(Append(a, Head(q))) \cup SequencesOf(Tail(q))
          = SequencesOf(a) \cup SequencesOf(q)
    BY <2>1, <2>3, AppendedFrames, HeadAndTailFrames
  <2> QED
    BY <1>2, <2>2, <2>4, <2>5 DEF Handed, Seen, a, q
<1> QED
  BY <1>1, <1>2

(* An offer hands its delta to its stream or drops it.                     *)
LEMMA OfferHands ==
  ASSUME TypeOK, NEW d \in Deltas, NEW s \in Streams, Offer(d, s)
  PROVE  /\ \A t \in Streams \ {s} : Handed(t)' = Handed(t) /\ Seen(t)' = Seen(t)
         /\ \/ Handed(s)' = Handed(s) /\ Seen(s)' = Seen(s)
            \/ /\ Handed(s)' = Append(Handed(s), d)
               /\ Seen(s)' = Seen(s) \cup {d.sequence}
<1>1. \A t \in Streams \ {s} : Handed(t)' = Handed(t) /\ Seen(t)' = Seen(t)
  BY DEF TypeOK, Offer, Handed, Seen
<1>2. CASE Len(queue[s]) < BufferSize
  <2>1. taken'[s] = taken[s] /\ queue'[s] = Append(queue[s], d)
    BY <1>2 DEF TypeOK, Offer
  <2>2. taken[s] \in Seq(Deltas) /\ queue[s] \in Seq(Deltas)
    BY DEF TypeOK
  <2>3. taken[s] \o Append(queue[s], d) = Append(taken[s] \o queue[s], d)
    <3> DEFINE a == taken[s]
               q == queue[s]
    <3>1. a \in Seq(Deltas) /\ q \in Seq(Deltas)
      BY <2>2
    <3> HIDE DEF a, q
    <3>2. a \o Append(q, d) = Append(a \o q, d)
      BY <3>1, AppendToConcat
    <3> QED
      BY <3>2 DEF a, q
  <2>4. SequencesOf(Append(queue[s], d)) = SequencesOf(queue[s]) \cup {d.sequence}
    BY <2>2, AppendedFrames
  <2> QED
    BY <1>1, <2>1, <2>3, <2>4 DEF Handed, Seen
<1>3. CASE ~(Len(queue[s]) < BufferSize)
  BY <1>1, <1>3 DEF Offer, Handed, Seen
<1> QED
  BY <1>2, <1>3

-----------------------------------------------------------------------------
(* Who is visited, and what has been handed over.                          *)

(* A stream in the map of subscribers has an open channel, and a running   *)
(* broadcast visits subscribers only.                                      *)
VisitInv ==
    /\ \A s \in subscribers : status[s] \in {"streaming", "leaving"}
    /\ todo \subseteq casting \X subscribers

(* Deltas on their way have numbers of their own, already given out, and   *)
(* no stream still to be offered a delta has been handed it.               *)
Flying == pending \cup casting

FlightInv ==
    /\ \A d \in Flying : d.sequence \in 1 .. sequence
    /\ \A d, e \in Flying : d.sequence = e.sequence => d = e
    /\ pending \cap casting = {}
    /\ \A s \in Streams : Seen(s) \subseteq 1 .. sequence
    /\ \A d \in pending, s \in Streams : d.sequence \notin Seen(s)
    /\ \A d \in casting, s \in Streams :
          <<d, s>> \in todo => d.sequence \notin Seen(s)

FeedInv == TypeOK /\ VisitInv /\ FlightInv /\ AtMostOnce

LEMMA VisitInductive == TypeOK /\ VisitInv /\ [Next]_vars => VisitInv'
<1> SUFFICES ASSUME TypeOK, VisitInv, [Next]_vars PROVE VisitInv'
  OBVIOUS
<1>1. CASE Book
  BY <1>1 DEF Book, CreateOrder, CancelOrder, Refuse, VisitInv, vars, castVars,
     streamVars
<1>2. ASSUME NEW d \in pending, StartBroadcast(d) PROVE VisitInv'
  BY <1>2 DEF StartBroadcast, VisitInv, streamVars
<1>3. ASSUME NEW p \in todo, Offer(p[1], p[2]) PROVE VisitInv'
  BY <1>3 DEF Offer, VisitInv
<1>4. ASSUME NEW d \in casting, EndBroadcast(d) PROVE VisitInv'
  <2>1. \A p \in todo : p[1] # d
    BY <1>4 DEF EndBroadcast, VisitInv, TypeOK
  <2> QED
    BY <1>4, <2>1 DEF EndBroadcast, VisitInv, streamVars
<1>5. ASSUME NEW s \in Streams, Stream(s) PROVE VisitInv'
  <2>1. CASE TakeSnapshot(s)
    BY <2>1 DEF TakeSnapshot, VisitInv, TypeOK, castVars
  <2>2. CASE SendSnapshot(s)
    BY <2>2 DEF SendSnapshot, VisitInv, TypeOK, castVars
  <2>3. CASE Announce(s)
    BY <2>3 DEF Announce, VisitInv, castVars
  <2>4. CASE Subscribe(s)
    BY <2>4 DEF Subscribe, VisitInv, TypeOK, castVars
  <2>5. CASE Deliver(s)
    BY <2>5 DEF Deliver, VisitInv, castVars
  <2>6. CASE FailWrite(s)
    BY <2>6 DEF FailWrite, VisitInv, TypeOK, castVars
  <2>7. CASE Unsubscribe(s)
    BY <2>7 DEF Unsubscribe, VisitInv, TypeOK, castVars
  <2> QED
    BY <1>5, <2>1, <2>2, <2>3, <2>4, <2>5, <2>6, <2>7 DEF Stream
<1>6. CASE UNCHANGED vars
  BY <1>6 DEF VisitInv, vars, castVars, streamVars
<1> QED
  BY <1>1, <1>2, <1>3, <1>4, <1>5, <1>6 DEF Next, Broadcast

(* A change of the book makes a delta with the next number.                *)
LEMMA ChangeKeepsFlight ==
  ASSUME TypeOK, FlightInv, NEW d,
         d.sequence = sequence + 1, sequence' = sequence + 1,
         pending' = pending \cup {d}, UNCHANGED <<casting, todo, streamVars>>
  PROVE  FlightInv'
<1>1. \A s \in Streams : Seen(s)' = Seen(s)
  BY DEF Seen, streamVars
<1>2. sequence \in Nat /\ d.sequence \notin 1 .. sequence
  BY DEF TypeOK
<1>3. Flying' = Flying \cup {d} /\ d \notin Flying
  BY <1>2 DEF Flying, FlightInv
<1>4. \A e \in Flying' : e.sequence \in 1 .. sequence'
  BY <1>2, <1>3 DEF FlightInv
<1>5. \A e, f \in Flying' : e.sequence = f.sequence => e = f
  BY <1>2, <1>3 DEF FlightInv
<1>6. pending' \cap casting' = {}
  BY <1>3 DEF FlightInv, Flying
<1>7. \A s \in Streams : Seen(s)' \subseteq 1 .. sequence'
  BY <1>1, <1>2 DEF FlightInv
<1>8. \A e \in pending', s \in Streams : e.sequence \notin Seen(s)'
  BY <1>1, <1>2 DEF FlightInv
<1>9. \A e \in casting', s \in Streams :
          <<e, s>> \in todo' => e.sequence \notin Seen(s)'
  BY <1>1 DEF FlightInv
<1> QED
  BY <1>4, <1>5, <1>6, <1>7, <1>8, <1>9 DEF FlightInv

(* A step of a stream's handler hands nothing over.                        *)
LEMMA StreamKeepsHanded ==
  ASSUME TypeOK, NEW s \in Streams, Stream(s), NEW t \in Streams
  PROVE  Handed(t)' = Handed(t) /\ Seen(t)' = Seen(t)
<1>1. CASE TakeFrame(s)
  BY <1>1, TakingKeepsHanded
<1>2. CASE UNCHANGED <<queue, taken>>
  BY <1>2 DEF Handed, Seen
<1> QED
  BY <1>1, <1>2 DEF Stream, TakeSnapshot, SendSnapshot, Announce, Subscribe,
     Deliver, FailWrite, Unsubscribe

LEMMA FlightInductive ==
  TypeOK /\ VisitInv /\ FlightInv /\ [Next]_vars => FlightInv'
<1> SUFFICES ASSUME TypeOK, VisitInv, FlightInv, [Next]_vars PROVE FlightInv'
  OBVIOUS
<1>1. ASSUME NEW id \in OrderIDs, NEW side \in Sides, CreateOrder(id, side)
      PROVE  FlightInv'
  <2> DEFINE d == Delta({[id |-> id, side |-> side]}, {})
  <2>1. d.sequence = sequence + 1
    BY <1>1 DEF CreateOrder, Delta
  <2> QED
    BY <1>1, <2>1, ChangeKeepsFlight DEF CreateOrder
<1>2. ASSUME NEW id \in OrderIDs, CancelOrder(id) PROVE FlightInv'
  <2> DEFINE d == Delta({}, {id})
  <2>1. d.sequence = sequence + 1
    BY <1>2 DEF CancelOrder, Delta
  <2> QED
    BY <1>2, <2>1, ChangeKeepsFlight DEF CancelOrder
<1>3. CASE Refuse \/ UNCHANGED vars
  BY <1>3 DEF Refuse, vars, bookVars, castVars, streamVars, FlightInv,
     Flying, Seen
<1>4. ASSUME NEW d \in pending, StartBroadcast(d) PROVE FlightInv'
  BY <1>4 DEF StartBroadcast, bookVars, streamVars, FlightInv, Flying, Seen,
     VisitInv
<1>5. ASSUME NEW p \in todo, Offer(p[1], p[2]) PROVE FlightInv'
  <2>1. PICK d \in casting, s \in Streams : p = <<d, s>>
    BY DEF TypeOK
  <2>2. d \in Deltas /\ Offer(d, s) /\ <<d, s>> \in todo
    BY <1>5, <2>1 DEF TypeOK
  <2>3. \A t \in Streams : Seen(t)' \subseteq Seen(t) \cup {d.sequence}
    BY <2>2, OfferHands
  <2>4. \A t \in Streams \ {s} : Seen(t)' = Seen(t)
    BY <2>2, OfferHands
  <2>5. /\ UNCHANGED <<sequence, pending, casting>>
        /\ todo' = todo \ {<<d, s>>}
    BY <2>2 DEF Offer, bookVars
  <2>6. \A t \in Streams : Seen(t)' \subseteq 1 .. sequence'
    BY <2>3, <2>5 DEF FlightInv, Flying
  <2>7. \A e \in pending', t \in Streams : e.sequence \notin Seen(t)'
    BY <2>3, <2>5 DEF FlightInv, Flying
  <2>8. ASSUME NEW e \in casting', NEW t \in Streams, <<e, t>> \in todo'
        PROVE  e.sequence \notin Seen(t)'
    <3>1. CASE t = s
      <4>1. e # d /\ e.sequence # d.sequence
        BY <2>5, <2>8, <3>1 DEF FlightInv, Flying
      <4> QED
        BY <2>3, <2>5, <2>8, <4>1 DEF FlightInv
    <3>2. CASE t # s
      BY <2>4, <2>5, <2>8, <3>2 DEF FlightInv
    <3> QED
      BY <3>1, <3>2
  <2> QED
    BY <2>5, <2>6, <2>7, <2>8 DEF FlightInv, Flying
<1>6. ASSUME NEW d \in casting, EndBroadcast(d) PROVE FlightInv'
  BY <1>6 DEF EndBroadcast, bookVars, streamVars, FlightInv, Flying, Seen
<1>7. ASSUME NEW s \in Streams, Stream(s) PROVE FlightInv'
  <2>1. \A t \in Streams : Seen(t)' = Seen(t)
    BY <1>7, StreamKeepsHanded
  <2>2. UNCHANGED <<sequence, pending, casting, todo>>
    BY <1>7 DEF Stream, TakeSnapshot, SendSnapshot, Announce, Subscribe,
       Deliver, FailWrite, Unsubscribe, bookVars, castVars
  <2> QED
    BY <2>1, <2>2 DEF FlightInv, Flying
<1> QED
  BY <1>1, <1>2, <1>3, <1>4, <1>5, <1>6, <1>7 DEF Next, Book, Broadcast

(* Appending a frame with a new number keeps the numbers distinct.         *)
LEMMA OnceInductive ==
  TypeOK /\ VisitInv /\ FlightInv /\ AtMostOnce /\ [Next]_vars => AtMostOnce'
<1> SUFFICES ASSUME TypeOK, VisitInv, FlightInv, AtMostOnce, [Next]_vars,
                    NEW t \in Streams,
                    NEW i \in DOMAIN Handed(t)', NEW j \in DOMAIN Handed(t)',
                    Handed(t)'[i].sequence = Handed(t)'[j].sequence
             PROVE  i = j
  BY DEF AtMostOnce, Handed
<1>1. CASE Handed(t)' = Handed(t)
  BY <1>1 DEF AtMostOnce, Handed
<1>2. ASSUME NEW p \in todo, Offer(p[1], p[2]) PROVE i = j
  <2>1. PICK d \in casting, s \in Streams : p = <<d, s>>
    BY DEF TypeOK
  <2>2. d \in Deltas /\ Offer(d, s) /\ d.sequence \notin Seen(s)
    BY <1>2, <2>1 DEF TypeOK, FlightInv
  <2>3. CASE Handed(t)' = Handed(t)
    BY <1>1, <2>3
  <2>4. CASE t = s /\ Handed(t)' = Append(Handed(t), d)
    <3> DEFINE h == Handed(t)
    <3>1. h \in Seq(Deltas) /\ d.sequence \notin SequencesOf(h)
      BY <2>2, <2>4, HandedFrames
    <3>2. \A a, b \in DOMAIN h : h[a].sequence = h[b].sequence => a = b
      BY DEF AtMostOnce, Handed
    <3> HIDE DEF h
    <3>3. \A a \in DOMAIN h : h[a].sequence # d.sequence
      BY <3>1 DEF SequencesOf
    <3>4. /\ DOMAIN Append(h, d) = DOMAIN h \cup {Len(h) + 1}
          /\ \A a \in DOMAIN h : Append(h, d)[a] = h[a]
          /\ Append(h, d)[Len(h) + 1] = d
      BY <2>2, <3>1
    <3>5. Handed(t)' = Append(h, d)
      BY <2>4 DEF h
    <3> QED
      BY <3>2, <3>3, <3>4, <3>5
  <2> QED
    BY <2>2, <2>3, <2>4, OfferHands
<1>3. ASSUME NEW s \in Streams, Stream(s) PROVE i = j
  BY <1>1, <1>3, StreamKeepsHanded
<1>4. CASE Book \/ (\E d \in pending : StartBroadcast(d))
           \/ (\E d \in casting : EndBroadcast(d)) \/ UNCHANGED vars
  <2>1. UNCHANGED <<queue, taken>>
    BY <1>4 DEF Book, CreateOrder, Refuse, CancelOrder, StartBroadcast,
       EndBroadcast, vars, streamVars
  <2> QED
    BY <1>1, <2>1 DEF Handed
<1> QED
  BY <1>2, <1>3, <1>4 DEF Next, Broadcast

LEMMA FeedInductive ==
  /\ Init => FeedInv
  /\ FeedInv /\ [Next]_vars => FeedInv'
<1>1. Init => FeedInv
  <2> SUFFICES ASSUME Init PROVE FeedInv
    OBVIOUS
  <2>1. TypeOK
    BY BufferAssumption DEF Init, TypeOK, Snapshots, Snapshot, Statuses
  <2>2. \A s \in Streams : Seen(s) = {} /\ Handed(s) = <<>>
    BY DEF Init, Seen, SequencesOf, Handed
  <2>3. \A s \in Streams : DOMAIN (taken[s] \o queue[s]) = {}
    <3>1. DOMAIN <<>> = {} /\ <<>> \o <<>> = <<>>
      OBVIOUS
    <3> QED
      BY <3>1 DEF Init
  <2>4. AtMostOnce
    <3> SUFFICES ASSUME NEW s \in Streams,
                        NEW i \in DOMAIN (taken[s] \o queue[s]),
                        NEW j \in DOMAIN (taken[s] \o queue[s])
                 PROVE  FALSE
      BY DEF AtMostOnce
    <3> QED
      BY <2>3
  <2> QED
    BY <2>1, <2>2, <2>4 DEF Init, FeedInv, VisitInv, FlightInv, Flying
<1>2. FeedInv /\ [Next]_vars => FeedInv'
  BY TypeStep, VisitInductive, FlightInductive, OnceInductive DEF FeedInv
<1> QED
  BY <1>1, <1>2

(* No change of the book is handed to a stream twice.                      *)
THEOREM HandedOnce == Spec => []AtMostOnce
<1>1. FeedInv => AtMostOnce
  BY DEF FeedInv
<1> QED
  BY <1>1, FeedInductive, PTL DEF Spec

(* No broadcast sends on a channel that Unsubscribe has closed.            *)
THEOREM ClosedNeverSentOn == Spec => []NoSendOnClosed
<1>1. FeedInv => NoSendOnClosed
  BY DEF FeedInv, VisitInv, NoSendOnClosed
<1> QED
  BY <1>1, FeedInductive, PTL DEF Spec

-----------------------------------------------------------------------------
(* The book implements the feed.                                           *)

LEMMA StepImplementsFeed ==
  FeedInv /\ [Next]_vars => [Feed!FeedNext]_(Feed!feedVars)
<1> SUFFICES ASSUME FeedInv, [Next]_vars
             PROVE  Feed!FeedNext \/ UNCHANGED Feed!feedVars
  OBVIOUS
<1> USE DEF FeedInv, TypeOK
<1>1. ASSUME sequence' = sequence + 1, UNCHANGED streamVars
      PROVE  Feed!Publish
  BY <1>1 DEF Feed!Publish, streamVars, Seen
<1>2. CASE (\E id \in OrderIDs, side \in Sides : CreateOrder(id, side))
           \/ (\E id \in OrderIDs : CancelOrder(id))
  BY <1>1, <1>2 DEF CreateOrder, CancelOrder, Feed!FeedNext
<1>3. CASE Refuse
           \/ (\E d \in pending : StartBroadcast(d))
           \/ (\E d \in casting : EndBroadcast(d)) \/ UNCHANGED vars
  BY <1>3 DEF Refuse, StartBroadcast, EndBroadcast, vars, bookVars,
     streamVars, Feed!feedVars, Seen
<1>4. ASSUME NEW p \in todo, Offer(p[1], p[2])
      PROVE  Feed!FeedNext \/ UNCHANGED Feed!feedVars
  <2>1. PICK d \in casting, s \in Streams : p = <<d, s>>
    OBVIOUS
  <2>2. /\ d \in Deltas /\ Offer(d, s)
        /\ d.sequence \notin Seen(s) /\ d.sequence \in 1 .. sequence
    BY <1>4, <2>1 DEF FlightInv, Flying
  <2>3. PartOf(status[s]) = "in" /\ UNCHANGED <<sequence, status>>
    BY <1>4, <2>1, <2>2 DEF VisitInv, PartOf, Offer, bookVars
  <2>4. CASE \A t \in Streams : Seen(t)' = Seen(t)
    BY <2>3, <2>4 DEF Feed!feedVars
  <2>5. CASE /\ \A t \in Streams \ {s} : Seen(t)' = Seen(t)
             /\ Seen(s)' = Seen(s) \cup {d.sequence}
    <3>1. [t \in Streams |-> Seen(t)]'
            = [[t \in Streams |-> Seen(t)] EXCEPT ![s] = @ \cup {d.sequence}]
      BY <2>5
    <3>2. Feed!Hand(d.sequence, s)
      BY <2>2, <2>3, <3>1 DEF Feed!Hand
    <3> QED
      BY <2>2, <3>2 DEF Feed!FeedNext
  <2> QED
    BY <2>2, <2>4, <2>5, OfferHands
<1>5. ASSUME NEW s \in Streams, Stream(s)
      PROVE  Feed!FeedNext \/ UNCHANGED Feed!feedVars
  <2>1. \A t \in Streams : Seen(t)' = Seen(t)
    BY <1>5, StreamKeepsHanded
  <2>2. sequence' = sequence
    BY <1>5 DEF Stream, TakeSnapshot, SendSnapshot, Announce, Subscribe,
       Deliver, FailWrite, Unsubscribe, bookVars
  <2>3. CASE Subscribe(s)
    <3>1. Feed!Join(s)
      BY <2>1, <2>2, <2>3 DEF Subscribe, Feed!Join, PartOf
    <3> QED
      BY <3>1 DEF Feed!FeedNext
  <2>4. CASE Unsubscribe(s)
    <3>1. Feed!Leave(s)
      BY <2>1, <2>2, <2>4 DEF Unsubscribe, Feed!Leave, PartOf
    <3> QED
      BY <3>1 DEF Feed!FeedNext
  <2>5. CASE \/ TakeSnapshot(s) \/ SendSnapshot(s) \/ Announce(s)
             \/ Deliver(s) \/ FailWrite(s)
    <3>1. \A t \in Streams : PartOf(status'[t]) = PartOf(status[t])
      BY <2>5 DEF TakeSnapshot, SendSnapshot, Announce, Deliver, FailWrite,
         PartOf
    <3> QED
      BY <2>1, <2>2, <3>1 DEF Feed!feedVars
  <2> QED
    BY <1>5, <2>3, <2>4, <2>5 DEF Stream
<1> QED
  BY <1>2, <1>3, <1>4, <1>5 DEF Next, Book, Broadcast

(* The detailed book, with its goroutines and locks, is a feed: a stream   *)
(* is handed changes that were made, each at most once, between Subscribe  *)
(* and Unsubscribe.                                                        *)
THEOREM BookImplementsFeed == Spec => ImplementsFeed
<1>1. Init => Feed!FeedInit
  BY DEF Init, Feed!FeedInit, PartOf, Seen, SequencesOf
<1> QED
  BY <1>1, FeedInductive, StepImplementsFeed, PTL
  DEF Spec, ImplementsFeed, Feed!FeedSpec
=============================================================================
