--------------------------- MODULE OrderViewProofs ---------------------------
(***************************************************************************)
(* A client that gets its frames without a gap shows the book: for every   *)
(* number of IDs, streams and changes and every capacity of the channels.  *)
(***************************************************************************)
EXTENDS OrderView, OrderBookProofs

(* history is what its name says.                                          *)
HistoryInv ==
    /\ history \in Seq(SUBSET Rows)
    /\ Len(history) = sequence + 1
    /\ history[sequence + 1] = RowsOf(bids, asks)

(* A delta tells the change of the book that has its number.               *)
Explains(d) ==
    /\ d.sequence \in 1 .. sequence
    /\ \A r \in d.added : r.id \notin d.removed /\ r \notin history[d.sequence]
    /\ history[d.sequence + 1]
         = {r \in history[d.sequence] : r.id \notin d.removed} \cup d.added

QueuedFor(s) == {queue[s][i] : i \in DOMAIN queue[s]}

OnTheWay == pending \cup casting \cup UNION {QueuedFor(s) : s \in Streams}

FramesInv == \A d \in OnTheWay : Explains(d)

(* A snapshot has the rows of its number.                                  *)
SnapshotInv ==
    \A s \in Streams :
        /\ snapshot[s].sequence <= sequence
        /\ history[snapshot[s].sequence + 1]
             = RowsOf(snapshot[s].bids, snapshot[s].asks)

(* The number of changes a contiguous client knows of, and what it shows.  *)
Known(s) == snapshot[s].sequence + Len(taken[s])

Once(rows) == [r \in Rows |-> IF r \in rows THEN 1 ELSE 0]

ShowsBook(s) ==
    /\ status[s] \in {"new", "snapshot", "subscribing"} => taken[s] = <<>>
    /\ status[s] \in {"subscribing", "streaming"} /\ Contiguous(s) =>
           Known(s) <= sequence /\ view[s] = Once(history[Known(s) + 1])

ClientInv == \A s \in Streams : ShowsBook(s)

ViewInv ==
    /\ TypeOK /\ CountInv
    /\ HistoryInv /\ FramesInv /\ SnapshotInv /\ ClientInv

-----------------------------------------------------------------------------
(* The history.                                                            *)

(* Only CreateOrder and CancelOrder change the book.                       *)
LEMMA BookSteps ==
  ASSUME [Next]_vars
  PROVE  \/ \E id \in OrderIDs, side \in Sides : CreateOrder(id, side)
         \/ \E id \in OrderIDs : CancelOrder(id)
         \/ UNCHANGED bookVars
BY DEF Next, Book, Broadcast, Stream, Refuse, StartBroadcast, Offer, EndBroadcast,
   TakeSnapshot, SendSnapshot, Announce, Subscribe, Deliver, FailWrite, Unsubscribe,
   vars

LEMMA AppendedHistory ==
  ASSUME NEW h \in Seq(SUBSET Rows), NEW rows \in SUBSET Rows
  PROVE  /\ Append(h, rows) \in Seq(SUBSET Rows)
         /\ Len(Append(h, rows)) = Len(h) + 1
         /\ Append(h, rows)[Len(h) + 1] = rows
         /\ \A k \in 1 .. Len(h) : Append(h, rows)[k] = h[k]
OBVIOUS

(* The past stays as it is.                                                *)
LEMMA HistoryStep ==
  ASSUME TypeOK, HistoryInv, [ViewNext]_viewVars
  PROVE  /\ HistoryInv'
         /\ sequence \in Nat /\ sequence' \in {sequence, sequence + 1}
         /\ \A k \in 1 .. sequence + 1 : history'[k] = history[k]
<1>0. sequence \in Nat
  BY DEF TypeOK
<1>1. [Next]_vars
  BY DEF ViewNext, viewVars
<1>2. CASE sequence' = sequence + 1
  <2>1. history' = Append(history, RowsOf(bids', asks'))
    BY <1>0, <1>2 DEF ViewNext, viewVars, vars, bookVars
  <2>2. RowsOf(bids', asks') \in SUBSET Rows
    BY DEF RowsOf
  <2> QED
    BY <1>0, <1>2, <2>1, <2>2, AppendedHistory DEF HistoryInv
<1>3. CASE UNCHANGED bookVars
  <2>1. history' = history /\ UNCHANGED <<sequence, bids, asks>>
    BY <1>3 DEF ViewNext, viewVars, bookVars
  <2> QED
    BY <1>0, <2>1 DEF HistoryInv, RowsOf
<1>4. sequence' = sequence + 1 \/ UNCHANGED bookVars
  BY <1>1, BookSteps DEF CreateOrder, CancelOrder
<1> QED
  BY <1>0, <1>2, <1>3, <1>4

LEMMA ExplainsStep ==
  ASSUME TypeOK, HistoryInv, [ViewNext]_viewVars, NEW d, Explains(d)
  PROVE  Explains(d)'
<1>1. /\ sequence \in Nat /\ sequence' \in {sequence, sequence + 1}
      /\ \A k \in 1 .. sequence + 1 : history'[k] = history[k]
  BY HistoryStep
<1>2. d.sequence \in 1 .. sequence
  BY DEF Explains
<1>3. history'[d.sequence] = history[d.sequence]
      /\ history'[d.sequence + 1] = history[d.sequence + 1]
  BY <1>1, <1>2
<1>4. d.sequence \in 1 .. sequence'
  BY <1>1, <1>2
<1> QED
  BY <1>3, <1>4 DEF Explains

(* The delta of a change explains it.  That needs IDs that are fresh: a    *)
(* row that is added was not there, and an ID is on one side only.         *)
LEMMA ChangeIsExplained ==
  ASSUME FreshIDs, TypeOK, CountInv, HistoryInv, [ViewNext]_viewVars
  PROVE  /\ \A d : \A id \in OrderIDs, side \in Sides :
               CreateOrder(id, side) /\ d = Delta({[id |-> id, side |-> side]}, {}) =>
                   Explains(d)'
         /\ \A d : \A id \in OrderIDs :
               CancelOrder(id) /\ d = Delta({}, {id}) => Explains(d)'
<1>0. /\ sequence \in Nat /\ HistoryInv'
      /\ \A k \in 1 .. sequence + 1 : history'[k] = history[k]
  BY HistoryStep
<1>1. history'[sequence + 1] = RowsOf(bids, asks)
  BY <1>0 DEF HistoryInv
<1>2. history'[sequence' + 1] = RowsOf(bids', asks')
  BY <1>0 DEF HistoryInv
<1>3. /\ bids \cap asks = {} /\ bids \cup asks \subseteq used
      /\ bids \subseteq OrderIDs /\ asks \subseteq OrderIDs
  BY DEF CountInv, TypeOK
<1>4. ASSUME NEW d, NEW id \in OrderIDs, NEW side \in Sides, CreateOrder(id, side),
             d = Delta({[id |-> id, side |-> side]}, {})
      PROVE  Explains(d)'
  <2> DEFINE row == [id |-> id, side |-> side]
  <2>1. row \in Rows /\ row.id = id /\ row.side = side
    BY DEF Rows
  <2>2. sequence' = sequence + 1 /\ id \notin bids \cup asks
    BY <1>3, <1>4 DEF CreateOrder
  <2>3. row \notin RowsOf(bids, asks)
    BY <2>1, <2>2 DEF RowsOf
  <2>4. RowsOf(bids', asks') = RowsOf(bids, asks) \cup {row}
    <3>1. ASSUME NEW r \in Rows
          PROVE  r \in RowsOf(bids', asks') <=> r \in RowsOf(bids, asks) \/ r = row
      <4>1. r.side \in {"bid", "ask"} /\ r = [id |-> r.id, side |-> r.side]
        BY DEF Rows, Sides
      <4>2. side \in {"bid", "ask"}
        BY DEF Sides
      <4>3. r = row <=> r.id = id /\ r.side = side
        BY <4>1
      <4>4. /\ r.id \in bids' <=> r.id \in bids \/ (side = "bid" /\ r.id = id)
            /\ r.id \in asks' <=> r.id \in asks \/ (side = "ask" /\ r.id = id)
        BY <1>4 DEF CreateOrder
      <4> HIDE DEF row
      <4> QED
        BY <4>1, <4>2, <4>3, <4>4 DEF RowsOf
    <3>2. RowsOf(bids', asks') \subseteq Rows /\ RowsOf(bids, asks) \subseteq Rows
      BY DEF RowsOf
    <3> QED
      BY <2>1, <3>1, <3>2
  <2>5. /\ d.sequence = sequence + 1 /\ d.added = {row} /\ d.removed = {}
        /\ d.sequence \in 1 .. sequence'
    BY <1>0, <1>4, <2>2 DEF Delta
  <2>7. /\ history'[d.sequence] = RowsOf(bids, asks)
        /\ history'[d.sequence + 1] = RowsOf(bids, asks) \cup {row}
    BY <1>0, <1>1, <1>2, <2>2, <2>4, <2>5
  <2> HIDE DEF row
  <2> QED
    BY <2>3, <2>5, <2>7 DEF Explains
<1>5. ASSUME NEW d, NEW id \in OrderIDs, CancelOrder(id), d = Delta({}, {id})
      PROVE  Explains(d)'
  <2>1. sequence' = sequence + 1
    BY <1>5 DEF CancelOrder
  <2>2. RowsOf(bids', asks') = {r \in RowsOf(bids, asks) : r.id # id}
    <3>1. bids' = bids \ {id} /\ asks' = asks \ {id}
      BY <1>3, <1>5 DEF CancelOrder
    <3> QED
      BY <3>1 DEF RowsOf
  <2>3. /\ d.sequence = sequence + 1 /\ d.added = {} /\ d.removed = {id}
        /\ d.sequence \in 1 .. sequence'
    BY <1>0, <1>5, <2>1 DEF Delta
  <2>4. /\ history'[d.sequence] = RowsOf(bids, asks)
        /\ history'[d.sequence + 1] = {r \in RowsOf(bids, asks) : r.id # id}
    BY <1>0, <1>1, <1>2, <2>1, <2>2, <2>3
  <2> QED
    BY <2>3, <2>4 DEF Explains
<1> QED
  BY <1>4, <1>5

-----------------------------------------------------------------------------
(* Every frame on its way explains a change.                               *)
LEMMA FramesStep ==
  ASSUME FreshIDs, TypeOK, CountInv, HistoryInv, FramesInv, [ViewNext]_viewVars
  PROVE  FramesInv'
<1>0. [Next]_vars
  BY DEF ViewNext, viewVars
<1>1. \A d \in OnTheWay : Explains(d)'
  BY ExplainsStep DEF FramesInv
<1>2. ASSUME NEW d, Explains(d)', OnTheWay' \subseteq OnTheWay \cup {d}
      PROVE  FramesInv'
  BY <1>1, <1>2 DEF FramesInv
<1>3. ASSUME OnTheWay' \subseteq OnTheWay PROVE FramesInv'
  BY <1>1, <1>3 DEF FramesInv
<1>4. ASSUME NEW id \in OrderIDs, NEW side \in Sides, CreateOrder(id, side)
      PROVE  FramesInv'
  <2>1. PICK d : d = Delta({[id |-> id, side |-> side]}, {})
    OBVIOUS
  <2>2. Explains(d)'
    BY <1>4, <2>1, ChangeIsExplained
  <2>3. OnTheWay' \subseteq OnTheWay \cup {d}
    BY <1>4, <2>1 DEF CreateOrder, streamVars, OnTheWay, QueuedFor
  <2> QED
    BY <1>2, <2>2, <2>3
<1>5. ASSUME NEW id \in OrderIDs, CancelOrder(id) PROVE FramesInv'
  <2>1. PICK d : d = Delta({}, {id})
    OBVIOUS
  <2>2. Explains(d)'
    BY <1>5, <2>1, ChangeIsExplained
  <2>3. OnTheWay' \subseteq OnTheWay \cup {d}
    BY <1>5, <2>1 DEF CancelOrder, streamVars, OnTheWay, QueuedFor
  <2> QED
    BY <1>2, <2>2, <2>3
<1>6. ASSUME NEW p \in todo, Offer(p[1], p[2]) PROVE FramesInv'
  <2>1. PICK d \in casting, t \in Streams : p = <<d, t>>
    BY DEF TypeOK
  <2>2. d \in Deltas /\ Offer(d, t) /\ UNCHANGED <<pending, casting>>
    BY <1>6, <2>1 DEF TypeOK, Offer
  <2>3. ASSUME NEW s \in Streams PROVE QueuedFor(s)' \subseteq QueuedFor(s) \cup {d}
    <3>1. queue'[s] = queue[s] \/ queue'[s] = Append(queue[s], d)
      BY <2>2 DEF Offer, TypeOK
    <3>2. queue[s] \in Seq(Deltas)
      BY DEF TypeOK
    <3>3. \A i \in DOMAIN queue'[s] :
             queue'[s][i] = d \/ \E j \in DOMAIN queue[s] : queue'[s][i] = queue[s][j]
      BY <2>2, <3>1, <3>2
    <3> QED
      BY <3>3 DEF QueuedFor
  <2> QED
    BY <1>3, <2>2, <2>3 DEF OnTheWay
<1>7. ASSUME NEW s \in Streams, Stream(s) PROVE FramesInv'
  <2>1. UNCHANGED <<pending, casting>> /\ (UNCHANGED queue \/ TakeFrame(s))
    BY <1>7 DEF Stream, TakeSnapshot, SendSnapshot, Announce, Subscribe, Deliver,
       FailWrite, Unsubscribe, castVars
  <2>2. ASSUME TakeFrame(s), NEW t \in Streams PROVE QueuedFor(t)' \subseteq QueuedFor(t)
    <3>1. queue[s] \in Seq(Deltas) /\ queue[s] # <<>>
      BY <2>2 DEF TypeOK, TakeFrame
    <3>2. queue'[t] = queue[t] \/ (t = s /\ queue'[t] = Tail(queue[s]))
      BY <2>2 DEF TypeOK, TakeFrame
    <3>3. ASSUME NEW q \in Seq(Deltas), q # <<>>, NEW k \in DOMAIN Tail(q)
          PROVE  k + 1 \in DOMAIN q /\ Tail(q)[k] = q[k + 1]
      BY <3>3
    <3>4. \A i \in DOMAIN queue'[t] : \E j \in DOMAIN queue[t] : queue'[t][i] = queue[t][j]
      BY <3>1, <3>2, <3>3
    <3> QED
      BY <3>4 DEF QueuedFor
  <2> QED
    BY <1>3, <2>1, <2>2 DEF OnTheWay, QueuedFor
<1>8. CASE \/ Refuse \/ UNCHANGED vars
           \/ \E d \in pending : StartBroadcast(d)
           \/ \E d \in casting : EndBroadcast(d)
  BY <1>3, <1>8 DEF Refuse, StartBroadcast, EndBroadcast, vars, castVars, streamVars,
     OnTheWay, QueuedFor
<1> QED
  BY <1>0, <1>4, <1>5, <1>6, <1>7, <1>8 DEF Next, Book, Broadcast

(* A snapshot is taken under Book.mu and keeps the rows it was taken with. *)
LEMMA SnapshotStep ==
  ASSUME TypeOK, HistoryInv, SnapshotInv, [ViewNext]_viewVars
  PROVE  SnapshotInv'
<1>0. [Next]_vars
  BY DEF ViewNext, viewVars
<1>1. /\ HistoryInv'
      /\ sequence \in Nat /\ sequence' \in {sequence, sequence + 1}
      /\ \A k \in 1 .. sequence + 1 : history'[k] = history[k]
  BY HistoryStep
<1>2. ASSUME NEW s \in Streams, snapshot'[s] = snapshot[s]
      PROVE  /\ snapshot'[s].sequence <= sequence'
             /\ history'[snapshot'[s].sequence + 1]
                  = RowsOf(snapshot'[s].bids, snapshot'[s].asks)
  <2>1. snapshot[s].sequence \in Nat /\ snapshot[s].sequence <= sequence
    BY DEF TypeOK, Snapshots, SnapshotInv
  <2>2. history'[snapshot[s].sequence + 1] = history[snapshot[s].sequence + 1]
    BY <1>1, <2>1
  <2> QED
    BY <1>1, <1>2, <2>1, <2>2 DEF SnapshotInv
<1>3. ASSUME NEW s \in Streams, TakeSnapshot(s) PROVE SnapshotInv'
  <2>1. /\ snapshot'[s] = Snapshot
        /\ \A t \in Streams \ {s} : snapshot'[t] = snapshot[t]
        /\ UNCHANGED <<sequence, bids, asks>>
    BY <1>3 DEF TakeSnapshot, TypeOK, bookVars
  <2>2. /\ snapshot'[s].sequence = sequence' /\ snapshot'[s].bids = bids'
        /\ snapshot'[s].asks = asks'
    BY <2>1 DEF Snapshot
  <2>3. history'[sequence' + 1] = RowsOf(bids', asks') /\ sequence' \in Nat
    BY <1>1 DEF HistoryInv
  <2> QED
    BY <1>2, <2>1, <2>2, <2>3 DEF SnapshotInv
<1>4. snapshot' = snapshot \/ \E s \in Streams : TakeSnapshot(s)
  BY <1>0 DEF Next, Book, CreateOrder, CancelOrder, Refuse, Broadcast, StartBroadcast,
     Offer, EndBroadcast, Stream, SendSnapshot, Announce, Subscribe, Deliver,
     FailWrite, Unsubscribe, vars, streamVars
<1> QED
  BY <1>2, <1>3, <1>4 DEF SnapshotInv

-----------------------------------------------------------------------------
(* What the client shows.                                                  *)

LEMMA ShownSnapshot ==
  ASSUME NEW snap PROVE FromSnapshot(snap) = Once(RowsOf(snap.bids, snap.asks))
BY DEF FromSnapshot, Once

(* handleDelta makes the rows before a change the rows after it.           *)
LEMMA ShownChange ==
  ASSUME NEW d \in Deltas, Explains(d), HistoryInv
  PROVE  HandleDelta(Once(history[d.sequence]), d) = Once(history[d.sequence + 1])
<1> DEFINE old == history[d.sequence]
           new == history[d.sequence + 1]
<1>1. /\ \A r \in d.added : r.id \notin d.removed /\ r \notin old
      /\ new = {r \in old : r.id \notin d.removed} \cup d.added
  BY DEF Explains
<1> HIDE DEF old, new
<1>2. ASSUME NEW r \in Rows
      PROVE  HandleDelta(Once(old), d)[r] = Once(new)[r]
  <2>1. Once(old)[r] = IF r \in old THEN 1 ELSE 0
    BY DEF Once
  <2>2. Once(new)[r] = IF r \in new THEN 1 ELSE 0
    BY DEF Once
  <2>3. HandleDelta(Once(old), d)[r]
          = IF r.id \in d.removed THEN 0
            ELSE Once(old)[r] + (IF r \in d.added THEN 1 ELSE 0)
    BY DEF HandleDelta
  <2>4. r \in new <=> (r \in old /\ r.id \notin d.removed) \/ r \in d.added
    BY <1>1
  <2>5. r \in d.added => r.id \notin d.removed /\ r \notin old
    BY <1>1
  <2> QED
    BY <2>1, <2>2, <2>3, <2>4, <2>5
<1>3. HandleDelta(Once(old), d) = Once(new)
  BY <1>2 DEF HandleDelta, Once
<1> QED
  BY <1>3 DEF old, new

(* A client that is written nothing shows what it showed.                  *)
LEMMA QuietClient ==
  ASSUME TypeOK, HistoryInv, [ViewNext]_viewVars, NEW s \in Streams, ShowsBook(s),
         status'[s] = status[s], taken'[s] = taken[s], snapshot'[s] = snapshot[s]
  PROVE  ShowsBook(s)'
<1>1. /\ sequence \in Nat /\ sequence' \in {sequence, sequence + 1}
      /\ \A k \in 1 .. sequence + 1 : history'[k] = history[k]
  BY HistoryStep
<1>2. view'[s] = view[s]
  BY DEF ViewNext, viewVars, GetsSnapshot, GetsFrame
<1>3. (Contiguous(s)' <=> Contiguous(s)) /\ Known(s)' = Known(s)
  BY DEF Contiguous, Known
<1>4. Known(s) \in Nat
  BY DEF Known, TypeOK, Snapshots
<1>5. Known(s) <= sequence => history'[Known(s) + 1] = history[Known(s) + 1]
                              /\ Known(s) <= sequence'
  BY <1>1, <1>4
<1> QED
  BY <1>2, <1>3, <1>5 DEF ShowsBook

LEMMA SnapshotIsShown ==
  ASSUME ViewInv, [ViewNext]_viewVars, NEW s \in Streams, SendSnapshot(s)
  PROVE  ShowsBook(s)'
<1> USE DEF ViewInv
<1>1. /\ sequence' = sequence /\ history' = history
      /\ snapshot' = snapshot /\ taken' = taken
      /\ status[s] = "snapshot" /\ status'[s] \in {"subscribing", "refused"}
  BY DEF SendSnapshot, ViewNext, viewVars, vars, bookVars, TypeOK
<1>2. taken[s] = <<>> /\ Known(s) = snapshot[s].sequence
  BY <1>1 DEF ClientInv, ShowsBook, Known, TypeOK, Snapshots
<1>3. CASE status'[s] = "subscribing"
  <2>1. view'[s] = FromSnapshot(snapshot[s])
    BY <1>1, <1>3 DEF ViewNext, viewVars, vars, streamVars, GetsSnapshot
  <2>2. view'[s] = Once(history[Known(s) + 1]) /\ Known(s) <= sequence
    BY <1>2, <2>1, ShownSnapshot DEF SnapshotInv
  <2>3. Known(s)' = Known(s)
    BY <1>1 DEF Known
  <2> QED
    BY <1>1, <1>2, <2>2, <2>3 DEF ShowsBook
<1>4. CASE status'[s] = "refused"
  BY <1>4 DEF ShowsBook
<1> QED
  BY <1>1, <1>3, <1>4

LEMMA DeliveredIsShown ==
  ASSUME ViewInv, [ViewNext]_viewVars, NEW s \in Streams, Deliver(s)
  PROVE  ShowsBook(s)'
<1> USE DEF ViewInv
<1> DEFINE d == Head(queue[s])
           n == Len(taken[s]) + 1
<1>1. /\ status[s] = "streaming" /\ queue[s] # <<>>
      /\ sequence' = sequence /\ history' = history /\ snapshot' = snapshot
      /\ status'[s] = "streaming"
      /\ taken'[s] = Append(taken[s], d)
  BY DEF Deliver, TakeFrame, ViewNext, viewVars, vars, bookVars, TypeOK
<1>2. queue[s] \in Seq(Deltas) /\ taken[s] \in Seq(Deltas)
  BY DEF TypeOK
<1>3. 1 \in DOMAIN queue[s] /\ d = queue[s][1] /\ d \in Deltas
  BY <1>1, <1>2
<1>4. Explains(d)
  BY <1>3 DEF FramesInv, OnTheWay, QueuedFor
<1>5. /\ n \in Nat /\ DOMAIN taken'[s] = DOMAIN taken[s] \cup {n}
      /\ taken'[s][n] = d /\ Len(taken'[s]) = n
      /\ \A i \in DOMAIN taken[s] : taken'[s][i] = taken[s][i]
  <2> HIDE DEF d
  <2> QED
    BY <1>1, <1>2, <1>3
<1>6. snapshot[s].sequence \in Nat
  BY DEF TypeOK, Snapshots
<1>7. SUFFICES ASSUME Contiguous(s)'
      PROVE  Known(s)' <= sequence' /\ view'[s] = Once(history'[Known(s)' + 1])
  BY <1>1 DEF ShowsBook
<1>8. Contiguous(s) /\ d.sequence = Known(s) + 1 /\ Known(s)' = Known(s) + 1
  <2>1. /\ \A i \in DOMAIN taken[s] :
               taken[s][i].sequence = snapshot[s].sequence + i
        /\ d.sequence = snapshot[s].sequence + n
    BY <1>1, <1>5, <1>7 DEF Contiguous
  <2>2. Known(s)' = snapshot[s].sequence + n
    BY <1>1, <1>5 DEF Known
  <2>3. Len(taken[s]) \in Nat
    BY <1>2
  <2> HIDE DEF d
  <2> QED
    BY <1>6, <2>1, <2>2, <2>3 DEF Contiguous, Known
<1>9. view[s] = Once(history[d.sequence])
  BY <1>1, <1>8 DEF ClientInv, ShowsBook
<1>10. view'[s] = HandleDelta(view[s], d)
  <2>1. taken'[s] # taken[s]
    BY <1>2, <1>5
  <2> QED
    BY <1>1, <2>1 DEF ViewNext, viewVars, vars, streamVars, GetsSnapshot, GetsFrame
<1>11. view'[s] = Once(history[d.sequence + 1])
  BY <1>3, <1>4, <1>9, <1>10, ShownChange
<1>12. d.sequence <= sequence
  BY <1>4 DEF Explains, TypeOK
<1> QED
  BY <1>1, <1>8, <1>11, <1>12

LEMMA ClientStep ==
  ASSUME ViewInv, [ViewNext]_viewVars PROVE ClientInv'
<1> USE DEF ViewInv
<1>0. [Next]_vars
  BY DEF ViewNext, viewVars
<1>1. ASSUME NEW t \in Streams,
             status'[t] = status[t], taken'[t] = taken[t], snapshot'[t] = snapshot[t]
      PROVE  ShowsBook(t)'
  BY <1>1, QuietClient DEF ClientInv
<1>2. ASSUME NEW s \in Streams, Stream(s), NEW t \in Streams \ {s}
      PROVE  ShowsBook(t)'
  <2>1. /\ status'[t] = status[t] /\ taken'[t] = taken[t]
        /\ snapshot'[t] = snapshot[t]
    BY <1>2 DEF Stream, TakeSnapshot, SendSnapshot, Announce, Subscribe, Deliver,
       FailWrite, Unsubscribe, TakeFrame, TypeOK
  <2> QED
    BY <1>1, <2>1
<1>3. ASSUME NEW s \in Streams, Stream(s) PROVE ShowsBook(s)'
  <2>1. CASE TakeSnapshot(s)
    <3>1. status[s] = "new" /\ status'[s] = "snapshot" /\ taken' = taken
      BY <2>1 DEF TakeSnapshot, TypeOK
    <3> QED
      BY <3>1 DEF ClientInv, ShowsBook
  <2>2. CASE SendSnapshot(s)
    BY <2>2, SnapshotIsShown
  <2>3. CASE Announce(s)
    BY <1>1, <2>3 DEF Announce
  <2>4. CASE Subscribe(s)
    <3>1. /\ status[s] = "subscribing" /\ status'[s] = "streaming"
          /\ UNCHANGED <<taken, snapshot, sequence>> /\ history' = history
      BY <2>4 DEF Subscribe, TypeOK, ViewNext, viewVars, vars, bookVars
    <3>2. view'[s] = view[s]
      BY <3>1 DEF ViewNext, viewVars, GetsSnapshot, GetsFrame
    <3> QED
      BY <3>1, <3>2 DEF ClientInv, ShowsBook, Contiguous, Known
  <2>5. CASE Deliver(s)
    BY <2>5, DeliveredIsShown
  <2>6. CASE FailWrite(s)
    <3>1. status'[s] = "leaving"
      BY <2>6 DEF FailWrite, TypeOK
    <3> QED
      BY <3>1 DEF ShowsBook
  <2>7. CASE Unsubscribe(s)
    <3>1. status'[s] = "closed"
      BY <2>7 DEF Unsubscribe, TypeOK
    <3> QED
      BY <3>1 DEF ShowsBook
  <2> QED
    BY <1>3, <2>1, <2>2, <2>3, <2>4, <2>5, <2>6, <2>7 DEF Stream
<1>4. CASE UNCHANGED <<status, taken, snapshot>>
  BY <1>1, <1>4 DEF ClientInv
<1>5. UNCHANGED <<status, taken, snapshot>> \/ \E s \in Streams : Stream(s)
  BY <1>0 DEF Next, Book, CreateOrder, CancelOrder, Refuse, Broadcast, StartBroadcast,
     Offer, EndBroadcast, vars, streamVars
<1> QED
  BY <1>2, <1>3, <1>4, <1>5 DEF ClientInv

-----------------------------------------------------------------------------
LEMMA ViewInductive ==
  ASSUME FreshIDs
  PROVE  /\ ViewInit => ViewInv
         /\ ViewInv /\ [ViewNext]_viewVars => ViewInv'
<1>1. ViewInit => ViewInv
  <2> SUFFICES ASSUME ViewInit PROVE ViewInv
    OBVIOUS
  <2>1. TypeOK
    BY FeedInductive DEF ViewInit, FeedInv
  <2>2. CountInv
    BY CountInit DEF ViewInit
  <2>3. HistoryInv
    BY DEF ViewInit, Init, HistoryInv, RowsOf
  <2>4. FramesInv
    BY DEF ViewInit, Init, FramesInv, OnTheWay, QueuedFor
  <2>5. SnapshotInv
    <3>1. ASSUME NEW s \in Streams
          PROVE  snapshot[s].sequence = 0 /\ snapshot[s].bids = bids
                 /\ snapshot[s].asks = asks
      BY DEF ViewInit, Init, Snapshot
    <3>2. sequence = 0 /\ history[0 + 1] = RowsOf(bids, asks)
      BY DEF ViewInit, Init
    <3> QED
      BY <3>1, <3>2 DEF SnapshotInv
  <2>6. ClientInv
    BY DEF ViewInit, Init, ClientInv, ShowsBook
  <2> QED
    BY <2>1, <2>2, <2>3, <2>4, <2>5, <2>6 DEF ViewInv
<1>2. ASSUME ViewInv, [ViewNext]_viewVars PROVE ViewInv'
  <2>1. [Next]_vars
    BY <1>2 DEF ViewNext, viewVars
  <2>2. TypeOK' /\ CountInv'
    BY <1>2, <2>1, TypeStep, CountInductive DEF ViewInv
  <2>3. HistoryInv' /\ FramesInv' /\ SnapshotInv' /\ ClientInv'
    BY <1>2, HistoryStep, FramesStep, SnapshotStep, ClientStep DEF ViewInv
  <2> QED
    BY <2>2, <2>3 DEF ViewInv
<1> QED
  BY <1>1, <1>2

(* As long as a stream has skipped no number, its client shows the book as *)
(* it was after the last change it got: nothing is doubled, lost or kept,  *)
(* however broadcasts, changes and other streams run in between.           *)
THEOREM ContiguousIsExact == ViewSpec => []ContiguousViewIsBook
<1>1. CASE FreshIDs
  <2>1. /\ ViewInit => ViewInv
        /\ ViewInv /\ [ViewNext]_viewVars => ViewInv'
    BY <1>1, ViewInductive
  <2>2. ViewInv => ContiguousViewIsBook
    BY DEF ViewInv, ClientInv, ShowsBook, Known, Once, ContiguousViewIsBook, Streaming
  <2> QED
    BY <2>1, <2>2, PTL DEF ViewSpec
<1>2. CASE ~FreshIDs
  <2>1. ContiguousViewIsBook
    BY <1>2 DEF ContiguousViewIsBook
  <2> QED
    BY <2>1, PTL
<1> QED
  BY <1>1, <1>2
=============================================================================
