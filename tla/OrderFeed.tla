------------------------------ MODULE OrderFeed ------------------------------
(***************************************************************************)
(* What the order book promises its streams, without goroutines or locks:  *)
(* changes are numbered 1, 2, 3, ...; a stream is handed a change only     *)
(* while it takes part, only after the change was made and at most once.   *)
(* Nothing is promised about the order, nor that every change arrives.     *)
(***************************************************************************)
EXTENDS Naturals

CONSTANT Streams

VARIABLES
    published,  \* number of changes made so far
    part,       \* "out" before a stream takes part, then "in", then "gone"
    seen        \* numbers of the changes each stream has been handed

feedVars == <<published, part, seen>>

FeedInit == /\ published = 0
            /\ part = [s \in Streams |-> "out"]
            /\ seen = [s \in Streams |-> {}]

Publish == /\ published' = published + 1
           /\ UNCHANGED <<part, seen>>

Join(s) == /\ part[s] = "out"
           /\ part' = [part EXCEPT ![s] = "in"]
           /\ UNCHANGED <<published, seen>>

Hand(n, s) == /\ part[s] = "in"
              /\ n \notin seen[s]
              /\ seen' = [seen EXCEPT ![s] = @ \cup {n}]
              /\ UNCHANGED <<published, part>>

(* Leave may come at any time: a socket fails when it does.                 *)
Leave(s) == /\ part[s] = "in"
            /\ part' = [part EXCEPT ![s] = "gone"]
            /\ UNCHANGED <<published, seen>>

FeedNext == \/ Publish
            \/ \E s \in Streams : Join(s) \/ Leave(s)
            \/ \E s \in Streams : \E n \in 1 .. published : Hand(n, s)

FeedSpec == FeedInit /\ [][FeedNext]_feedVars
=============================================================================
