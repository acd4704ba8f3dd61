------------------------------ MODULE OrderView ------------------------------
(***************************************************************************)
(* The client side of a stream: web/js/orderbook.js keeps the rows it      *)
(* shows in two arrays, which handleSnapshot replaces and handleDelta      *)
(* changes row by row, without looking at sequence numbers.  The arrays    *)
(* are sorted for display, so they are kept as bags: a count for each row. *)
(*                                                                         *)
(* A frame is handled in the step that writes it.  (A client handles the   *)
(* frames of its websocket in their order and shares nothing with others.) *)
(***************************************************************************)
EXTENDS OrderBook

VARIABLES
    view,     \* the rows each stream's client shows
    history   \* history[n + 1]: the book's rows after change n (history)

viewVars == <<vars, view, history>>

RowsOf(b, a) == {r \in Rows : r.id \in (IF r.side = "bid" THEN b ELSE a)}

(* handleSnapshot: one row per order.                                      *)
FromSnapshot(snap) ==
    [r \in Rows |-> IF r \in RowsOf(snap.bids, snap.asks) THEN 1 ELSE 0]

HandleDeltaKeepsAsks(shown, delta) ==  \* a slip: removes bids only
    [r \in Rows |-> IF r.id \in delta.removed /\ r.side = "bid" THEN 0
                    ELSE shown[r] + (IF r \in delta.added THEN 1 ELSE 0)]

(* handleDelta: push every added row, then drop every row, bid or ask,     *)
(* whose ID was removed.                                                   *)
HandleDelta(shown, delta) ==
    [r \in Rows |-> IF r.id \in delta.removed THEN 0
                    ELSE shown[r] + (IF r \in delta.added THEN 1 ELSE 0)]

-----------------------------------------------------------------------------
ViewInit ==
    /\ Init
    /\ view = [s \in Streams |-> [r \in Rows |-> 0]]
    /\ history = << RowsOf(bids, asks) >>

(* What the client of s is written in a step: its snapshot, or a frame.    *)
GetsSnapshot(s) == status[s] = "snapshot" /\ status'[s] = "subscribing"
GetsFrame(s)    == status'[s] = "streaming" /\ taken'[s] # taken[s]

ViewNext ==
    /\ Next
    /\ view' = [s \in Streams |->
                   IF GetsSnapshot(s) THEN FromSnapshot(snapshot[s])
                   ELSE IF GetsFrame(s) THEN HandleDelta(view[s], Head(queue[s]))
                   ELSE view[s]]
    /\ history' = IF sequence' = sequence THEN history
                  ELSE Append(history, RowsOf(bids', asks'))

ViewSpec == ViewInit /\ [][ViewNext]_viewVars

-----------------------------------------------------------------------------
(* The frames of s continue its snapshot without a gap.                    *)
Contiguous(s) == \A i \in DOMAIN taken[s] :
                     taken[s][i].sequence = snapshot[s].sequence + i

(* A client that got a snapshot and then contiguous deltas shows the rows  *)
(* the book had right after the last of them, each once: the snapshot's    *)
(* sequence number belongs to its rows, a delta's to its change, and       *)
(* applying deltas the way handleDelta does rebuilds the book.  It needs   *)
(* fresh IDs, for handleDelta drops bids and asks of a removed ID alike    *)
(* while CancelOrder removes one of them.                                  *)
ContiguousViewIsBook ==
    FreshIDs =>
        \A s \in Streaming :
            Contiguous(s) =>
                LET n == snapshot[s].sequence + Len(taken[s])
                IN  view[s] = [r \in Rows |->
                                  IF r \in history[n + 1] THEN 1 ELSE 0]
=============================================================================
