--------------------------- MODULE ConnectionProofs ----------------------------
(***************************************************************************)
(* Theorems about a connection, for any requests, server goroutines and    *)
(* limits.                                                                 *)
(***************************************************************************)
EXTENDS Connection, FiniteSetTheorems, TLAPS

(* Each call under way has its own entry, and there is no other.           *)
Entries ==
    /\ \A j \in Jobs : pc[j] \in Calling =>
           callID[j] \in DOMAIN handlers /\ handlers[callID[j]] = j
    /\ \A id \in DOMAIN handlers :
           pc[handlers[id]] \in Calling /\ callID[handlers[id]] = id
    /\ \A j \in Jobs : callID[j] <= counter

(* A goroutine still needs the answer to q.                                *)
Owed(q) ==
    q.by \in Jobs /\ pc[q.by] \in {"written", "waiting"} /\ Question(q.by) = q

IsResponse(i) == i \in DOMAIN inbox /\ inbox[i].type = "response"
IsRequest(i)  == i \in DOMAIN inbox /\ inbox[i].type = "request"

(* A question is with the browser, in the inbox or with the reader, in one *)
(* of these places and once.                                               *)
Transit ==
    /\ \A q \in asked : Owed(q)
    /\ \A i \in DOMAIN inbox : IsResponse(i) =>
           Owed(inbox[i].about) /\ inbox[i].about \notin asked
    /\ \A i, k \in DOMAIN inbox : IsResponse(i) /\ IsResponse(k) /\ i # k =>
           inbox[i].about # inbox[k].about

Delivery ==
    reader = "delivering" =>
        /\ delivery.to = delivery.about.by
        /\ Owed(delivery.about) /\ delivery.about \notin asked
        /\ \A i \in DOMAIN inbox : IsResponse(i) => inbox[i].about # delivery.about

(* Every request comes once.                                               *)
Sent ==
    /\ \A i \in DOMAIN inbox : IsRequest(i) =>
           inbox[i].from \in Requests /\ pc[inbox[i].from] = "sent"
    /\ \A i, k \in DOMAIN inbox : IsRequest(i) /\ IsRequest(k) /\ i # k =>
           inbox[i].from # inbox[k].from

IInv ==
    /\ TypeOK
    /\ SlotsAreOpenRequests
    /\ Entries
    /\ Transit
    /\ Delivery
    /\ Sent
    /\ ResponseMatches
    /\ reader # "stuck"

-----------------------------------------------------------------------------
Messages == [type : {"request", "response", "empty"}, from : Requests \cup {None},
             about : Questions]

(* What reading and appending do to the inbox.                             *)
LEMMA TailFacts ==
    ASSUME inbox \in Seq(Messages), inbox # <<>>, inbox' = Tail(inbox)
    PROVE  /\ inbox' \in Seq(Messages) /\ Head(inbox) = inbox[1]
           /\ 1 \in DOMAIN inbox /\ inbox[1] \in Messages
           /\ \A i \in DOMAIN inbox' : /\ i + 1 \in DOMAIN inbox /\ i + 1 # 1
                                       /\ inbox'[i] = inbox[i + 1] /\ i \in Nat
<1>1. Len(inbox) \in Nat /\ Len(inbox) # 0 /\ DOMAIN inbox = 1 .. Len(inbox)
    OBVIOUS
<1>2. inbox' \in Seq(Messages) /\ Head(inbox) = inbox[1]
    OBVIOUS
<1>3. 1 \in DOMAIN inbox /\ inbox[1] \in Messages
    BY <1>1
<1>4. Len(inbox') = Len(inbox) - 1 /\ DOMAIN inbox' = 1 .. Len(inbox')
    BY <1>1, <1>2
<1>5. \A i \in DOMAIN inbox' : inbox'[i] = inbox[i + 1]
    BY <1>1, <1>4
<1>6. \A i \in DOMAIN inbox' : i \in Nat /\ i + 1 \in DOMAIN inbox /\ i + 1 # 1
    BY <1>1, <1>4
<1> QED BY <1>2, <1>3, <1>5, <1>6

LEMMA AppendFacts ==
    ASSUME inbox \in Seq(Messages), NEW m \in Messages, inbox' = Append(inbox, m)
    PROVE  /\ inbox' \in Seq(Messages)
           /\ \A i \in DOMAIN inbox : i \in DOMAIN inbox' /\ inbox'[i] = inbox[i]
           /\ \E n : /\ n \in DOMAIN inbox' /\ n \notin DOMAIN inbox /\ inbox'[n] = m
                     /\ DOMAIN inbox' = DOMAIN inbox \cup {n}
<1> DEFINE n == Len(inbox) + 1
<1>1. inbox' \in Seq(Messages) /\ DOMAIN inbox' = DOMAIN inbox \cup {n}
    OBVIOUS
<1>2. \A i \in DOMAIN inbox : inbox'[i] = inbox[i]
    OBVIOUS
<1>3. n \notin DOMAIN inbox /\ inbox'[n] = m
    OBVIOUS
<1> QED BY <1>1, <1>2, <1>3

Holders == {r \in Requests : pc[r] \in Holding}

LEMMA HoldersFinite == IsFiniteSet(Holders) /\ Cardinality(Holders) \in Nat
BY RequestsFinite, FS_Subset, FS_CardinalityType DEF Holders

(* The tokens follow the goroutines that come to hold one and those that   *)
(* give it back.                                                           *)
LEMMA SlotsStep ==
    ASSUME TypeOK, SlotsAreOpenRequests, slots' \in 0 .. MaxRequests,
           NEW j \in Jobs, NEW l, Goto(j, l),
           \/ slots' = slots /\ (j \in Internals \/ (pc[j] \in Holding <=> l \in Holding))
           \/ slots' = slots + 1 /\ j \in Requests /\ pc[j] \notin Holding /\ l \in Holding
           \/ slots' = slots - 1 /\ j \in Requests /\ pc[j] \in Holding /\ l \notin Holding
    PROVE  SlotsAreOpenRequests'
<1>0. slots = Cardinality(Holders) /\ MaxRequests \in Nat
    BY MaxAssumption DEF SlotsAreOpenRequests, Holders
<1>1. slots' <= MaxRequests
    BY <1>0
<1>2. pc' = [k \in Jobs |-> IF k = j THEN l ELSE pc[k]]
    BY DEF TypeOK, Goto
<1>3. slots' = Cardinality(Holders')
  <2>1. CASE slots' = slots /\ (j \in Internals \/ (pc[j] \in Holding <=> l \in Holding))
    <3>1. Holders' = Holders
        BY <1>2, <2>1, DisjointJobs DEF Holders, Jobs
    <3> QED BY <1>0, <2>1, <3>1
  <2>2. CASE slots' = slots + 1 /\ j \in Requests /\ pc[j] \notin Holding /\ l \in Holding
    <3>1. Holders' = Holders \cup {j} /\ j \notin Holders
        BY <1>2, <2>2 DEF Holders, Jobs
    <3> QED BY <1>0, <2>2, <3>1, HoldersFinite, FS_AddElement
  <2>3. CASE slots' = slots - 1 /\ j \in Requests /\ pc[j] \in Holding /\ l \notin Holding
    <3>1. Holders' = Holders \ {j} /\ j \in Holders
        BY <1>2, <2>3 DEF Holders, Jobs
    <3> QED BY <1>0, <2>3, <3>1, HoldersFinite, FS_RemoveElement
  <2> QED BY <2>1, <2>2, <2>3
<1> QED BY <1>1, <1>3 DEF SlotsAreOpenRequests, Holders

-----------------------------------------------------------------------------
(* Steps.                                                                  *)

(* What the connection, the reader's end or a panic change.                *)
LEMMA EndStep ==
    ASSUME IInv, UNCHANGED <<inbox, asked, delivery, slots, pc, callVars>>,
           {open', closed', crashed'} \subseteq BOOLEAN,
           reader' \in {reader, "returned"}
    PROVE  IInv'
<1> USE DEF callVars
<1>1. TypeOK'
    BY DEF IInv, TypeOK
<1>2. SlotsAreOpenRequests' /\ Entries' /\ ResponseMatches'
    BY DEF IInv, SlotsAreOpenRequests, Entries, ResponseMatches, Question
<1>3. Transit' /\ Sent'
    BY DEF IInv, Transit, Sent, Owed, Question, IsResponse, IsRequest
<1>4. Delivery' /\ reader' # "stuck"
    BY DEF IInv, Delivery, Owed, Question, IsResponse
<1> QED BY <1>1, <1>2, <1>3, <1>4 DEF IInv

(* A goroutine that is not inside Connection.Request goes on.              *)
LEMMA OutsideStep ==
    ASSUME IInv, NEW j \in Jobs, NEW l \in Labels \ Calling, Goto(j, l),
           pc[j] \notin Calling, pc[j] # "sent",
           UNCHANGED <<open, browserVars, readerVars, crashed, callVars>>,
           slots' \in 0 .. MaxRequests, SlotsAreOpenRequests'
    PROVE  IInv'
<1> USE DEF callVars, browserVars, readerVars
<1>1. pc' = [k \in Jobs |-> IF k = j THEN l ELSE pc[k]]
    BY DEF IInv, TypeOK, Goto
<1>2. TypeOK'
    BY <1>1 DEF IInv, TypeOK
<1>3. Entries'
    BY <1>1, <1>2 DEF IInv, TypeOK, Entries
<1>4. \A q : Owed(q) => Owed(q)'
    BY <1>1 DEF Owed, Question, Calling
<1>5. Transit' /\ Delivery'
    BY <1>4 DEF IInv, Transit, Delivery, IsResponse
<1>6. Sent'
    BY <1>1, DisjointJobs DEF IInv, Sent, IsRequest, Jobs
<1>7. ResponseMatches'
    BY <1>1 DEF IInv, ResponseMatches, Question, Calling
<1> QED BY <1>2, <1>3, <1>5, <1>6, <1>7 DEF IInv

LEMMA ServeStep == ASSUME IInv, NEW r \in Requests, Serve(r) PROVE IInv'
<1> USE DEF Holding, Calling
<1>0. r \in Jobs /\ TypeOK /\ SlotsAreOpenRequests /\ MaxRequests \in Nat
    BY MaxAssumption DEF Jobs, IInv
<1>1. CASE TakeSlot(r)
  <2>1. slots' = slots + 1 /\ slots' \in 0 .. MaxRequests /\ pc[r] = "spawned"
        /\ Goto(r, "running")
      BY <1>0, <1>1 DEF TakeSlot, TypeOK
  <2>2. SlotsAreOpenRequests'
      BY <1>0, <2>1, SlotsStep
  <2> QED BY <1>0, <1>1, <2>1, <2>2, OutsideStep DEF TakeSlot, Labels
<1>2. CASE Exceed(r)
  <2>1. UNCHANGED slots /\ slots' \in 0 .. MaxRequests /\ pc[r] = "spawned"
        /\ Goto(r, "rejected")
      BY <1>0, <1>2 DEF Exceed, TypeOK
  <2>2. SlotsAreOpenRequests'
      BY <1>0, <2>1, SlotsStep
  <2> QED BY <1>0, <1>2, <2>1, <2>2, OutsideStep DEF Exceed, Labels
<1>3. CASE Panic(r)
    BY <1>3, EndStep DEF Panic, browserVars, readerVars, IInv, TypeOK
<1>4. CASE FreeSlot(r)
  <2>1. slots' = slots - 1 /\ pc[r] = "replied" /\ Goto(r, "done")
      BY <1>4 DEF FreeSlot
  <2>2. slots \in 1 .. MaxRequests
    <3>1. r \in Holders
        BY <2>1 DEF Holders
    <3>2. Cardinality(Holders) # 0
        BY <3>1, HoldersFinite, FS_EmptySet
    <3> QED BY <1>0, <3>2, HoldersFinite DEF TypeOK, SlotsAreOpenRequests, Holders
  <2>3. slots' \in 0 .. MaxRequests
      BY <1>0, <2>1, <2>2
  <2>4. SlotsAreOpenRequests'
      BY <1>0, <2>1, <2>3, SlotsStep
  <2> QED BY <1>0, <1>4, <2>1, <2>3, <2>4, OutsideStep DEF FreeSlot, Labels
<1> QED BY <1>1, <1>2, <1>3, <1>4 DEF Serve

LEMMA ReplyStep == ASSUME IInv, NEW j \in Jobs, Reply(j) PROVE IInv'
<1> DEFINE l == IF j \in Requests THEN "replied" ELSE "done"
<1>1. Goto(j, l) /\ pc[j] = "running" /\ UNCHANGED slots
    BY DEF Reply
<1>2. slots' \in 0 .. MaxRequests
    BY <1>1 DEF IInv, TypeOK
<1>3. SlotsAreOpenRequests'
    BY <1>1, <1>2, SlotsStep DEF IInv, Jobs, Holding
<1>4. l \in Labels \ Calling
    BY DEF Labels, Holding, Calling
<1> QED BY <1>1, <1>2, <1>3, <1>4, OutsideStep DEF Reply, Calling

LEMMA SendStep == ASSUME IInv, NEW r \in Requests, Send(r) PROVE IInv'
<1> USE DEF callVars, readerVars
<1>0. r \in Jobs /\ pc[r] = "new" /\ Goto(r, "sent")
    BY DEF Jobs, Send
<1>1. pc' = [k \in Jobs |-> IF k = r THEN "sent" ELSE pc[k]]
    BY <1>0 DEF IInv, TypeOK, Goto
<1>2. inbox \in Seq(Messages) /\ Request(r) \in Messages /\ inbox' = Append(inbox, Request(r))
    BY DEF IInv, TypeOK, Messages, Send, Request, Questions, NoQuestion
<1>3. TypeOK'
    BY <1>1, <1>2, AppendFacts DEF IInv, TypeOK, Send, Labels, Messages
<1>4. SlotsAreOpenRequests'
    BY <1>0, SlotsStep DEF IInv, TypeOK, Send, Holding, Calling
<1>5. Entries'
    BY <1>0, <1>1 DEF IInv, TypeOK, Entries, Send, Calling
<1>6. \A q : Owed(q) => Owed(q)'
    BY <1>0, <1>1 DEF Owed, Question, Send
<1>7. PICK n : /\ n \in DOMAIN inbox' /\ n \notin DOMAIN inbox /\ inbox'[n] = Request(r)
               /\ DOMAIN inbox' = DOMAIN inbox \cup {n}
               /\ \A i \in DOMAIN inbox : inbox'[i] = inbox[i]
    BY <1>2, AppendFacts
<1>8. \A i : IsResponse(i)' => IsResponse(i) /\ inbox'[i] = inbox[i]
    BY <1>7 DEF IsResponse, Request
<1>9. Transit' /\ Delivery'
    BY <1>6, <1>8 DEF IInv, Transit, Delivery, Send, IsResponse
<1>10. Sent'
  <2>1. \A i \in DOMAIN inbox : IsRequest(i) =>
            inbox[i].from \in Jobs /\ inbox[i].from # r /\ inbox[i].from \in Requests
            /\ pc'[inbox[i].from] = "sent"
      BY <1>0, <1>1 DEF IInv, Sent, Jobs
  <2>2. Request(r).from = r /\ pc'[r] = "sent"
      BY <1>0, <1>1 DEF Request
  <2> QED BY <1>7, <2>1, <2>2 DEF IInv, Sent, IsRequest
<1>11. ResponseMatches' /\ reader' # "stuck"
    BY <1>0, <1>1 DEF IInv, ResponseMatches, Question, Send
<1> QED BY <1>3, <1>4, <1>5, <1>9, <1>10, <1>11 DEF IInv

LEMMA AnswerStep == ASSUME IInv, NEW q \in asked, Answer(q) PROVE IInv'
<1> USE DEF callVars, readerVars
<1>1. inbox \in Seq(Messages) /\ Response(q) \in Messages
      /\ inbox' = Append(inbox, Response(q))
    BY DEF IInv, TypeOK, Messages, Answer, Response
<1>2. TypeOK'
    BY <1>1, AppendFacts DEF IInv, TypeOK, Answer, Messages
<1>3. SlotsAreOpenRequests' /\ Entries' /\ ResponseMatches' /\ reader' # "stuck"
    BY DEF IInv, SlotsAreOpenRequests, Entries, ResponseMatches, Question, Answer
<1>4. \A m : Owed(m) => Owed(m)'
    BY DEF Owed, Question, Answer
<1>5. PICK n : /\ n \in DOMAIN inbox' /\ n \notin DOMAIN inbox /\ inbox'[n] = Response(q)
               /\ DOMAIN inbox' = DOMAIN inbox \cup {n}
               /\ \A i \in DOMAIN inbox : inbox'[i] = inbox[i]
    BY <1>1, AppendFacts
<1>6. asked' = asked \ {q} /\ Owed(q)
    BY DEF Answer, IInv, Transit
<1>7. Transit'
    BY <1>4, <1>5, <1>6 DEF IInv, Transit, IsResponse, Response
<1>8. Delivery'
    BY <1>4, <1>5, <1>6 DEF IInv, Delivery, IsResponse, Response, Answer
<1>9. Sent'
    BY <1>5 DEF IInv, Sent, IsRequest, Response, Answer
<1> QED BY <1>2, <1>3, <1>7, <1>8, <1>9 DEF IInv

(* A message that is neither a request nor a response comes or goes.       *)
LEMMA EmptyStep == ASSUME IInv, SendEmpty \/ DropEmpty PROVE IInv'
<1> USE DEF callVars, readerVars
<1>1. inbox \in Seq(Messages) /\ Empty \in Messages
    BY DEF IInv, TypeOK, Messages, Empty, Questions, NoQuestion
<1>2. UNCHANGED <<open, asked, readerVars, slots, crashed, pc, callVars>>
    BY DEF SendEmpty, DropEmpty
<1>3. /\ inbox' \in Seq(Messages)
      /\ \E d \in {0, 1} : \A i \in DOMAIN inbox' :
            /\ i \in Nat
            /\ inbox'[i].type # "empty" => i + d \in DOMAIN inbox /\ inbox'[i] = inbox[i + d]
  <2>1. CASE SendEmpty
    <3>1. inbox' = Append(inbox, Empty)
        BY <2>1 DEF SendEmpty
    <3>2. PICK n : /\ n \notin DOMAIN inbox /\ inbox'[n] = Empty
                   /\ DOMAIN inbox' = DOMAIN inbox \cup {n}
                   /\ \A i \in DOMAIN inbox : inbox'[i] = inbox[i]
        BY <1>1, <3>1, AppendFacts
    <3>3. inbox' \in Seq(Messages) /\ \A i \in DOMAIN inbox' : i \in Nat
        BY <1>1, <3>1
    <3>4. \A i \in DOMAIN inbox' : inbox'[i].type # "empty" =>
              i + 0 \in DOMAIN inbox /\ inbox'[i] = inbox[i + 0]
        BY <3>2, <3>3 DEF Empty
    <3> QED BY <3>3, <3>4
  <2>2. CASE DropEmpty
    <3>1. inbox # <<>> /\ inbox' = Tail(inbox)
        BY <2>2 DEF DropEmpty
    <3> QED BY <1>1, <3>1, TailFacts
  <2> QED BY <2>1, <2>2
<1>4. PICK d \in {0, 1} : \A i \in DOMAIN inbox' :
            /\ i \in Nat
            /\ inbox'[i].type # "empty" => i + d \in DOMAIN inbox /\ inbox'[i] = inbox[i + d]
    BY <1>3
<1>5. TypeOK'
    BY <1>2, <1>3 DEF IInv, TypeOK, Messages
<1>6. SlotsAreOpenRequests' /\ Entries' /\ ResponseMatches' /\ reader' # "stuck"
    BY <1>2 DEF IInv, SlotsAreOpenRequests, Entries, ResponseMatches, Question
<1>7. \A q : Owed(q) => Owed(q)'
    BY <1>2 DEF Owed, Question
<1>8. \A i : /\ IsResponse(i)' => i \in Nat /\ IsResponse(i + d) /\ inbox'[i] = inbox[i + d]
             /\ IsRequest(i)' => i \in Nat /\ IsRequest(i + d) /\ inbox'[i] = inbox[i + d]
    BY <1>4 DEF IsResponse, IsRequest
<1>9. Transit'
    BY <1>2, <1>7, <1>8 DEF IInv, Transit, IsResponse
<1>10. Delivery'
    BY <1>2, <1>7, <1>8 DEF IInv, Delivery, IsResponse
<1>11. Sent'
    BY <1>2, <1>8 DEF IInv, Sent, IsRequest
<1> QED BY <1>5, <1>6, <1>9, <1>10, <1>11 DEF IInv

LEMMA ReadRequestStep == ASSUME IInv, ReadRequest PROVE IInv'
<1> USE DEF callVars
<1> DEFINE r == inbox[1].from
<1>1. /\ inbox \in Seq(Messages) /\ inbox # <<>> /\ inbox' = Tail(inbox)
      /\ UNCHANGED <<open, asked, readerVars, slots, crashed, callVars>>
    BY DEF IInv, TypeOK, Messages, ReadRequest
<1>2. IsRequest(1) /\ 1 \in DOMAIN inbox /\ Goto(r, "spawned")
    BY <1>1, TailFacts DEF ReadRequest, IsRequest
<1>3. r \in Requests /\ r \in Jobs /\ pc[r] = "sent"
    BY <1>2 DEF IInv, Sent, Jobs
<1>4. pc' = [k \in Jobs |-> IF k = r THEN "spawned" ELSE pc[k]]
    BY <1>2, <1>3 DEF IInv, TypeOK, Goto
<1>5. TypeOK'
    BY <1>1, <1>4, TailFacts DEF IInv, TypeOK, Labels, readerVars, Messages
<1>6. SlotsAreOpenRequests'
    BY <1>1, <1>2, <1>3, SlotsStep DEF IInv, TypeOK, Holding, Calling
<1>7. Entries'
    BY <1>1, <1>3, <1>4 DEF IInv, TypeOK, Entries, Calling
<1>8. \A q : Owed(q) => Owed(q)'
    BY <1>1, <1>3, <1>4 DEF Owed, Question
<1>9. \A i \in DOMAIN inbox' : /\ i + 1 \in DOMAIN inbox /\ i + 1 # 1 /\ i \in Nat
                               /\ inbox'[i] = inbox[i + 1]
    BY <1>1, TailFacts
<1>10. Transit'
    BY <1>1, <1>8, <1>9 DEF IInv, Transit, IsResponse
<1>11. Delivery' /\ reader' # "stuck"
    BY <1>1, <1>8, <1>9 DEF IInv, Delivery, IsResponse, readerVars
<1>12. Sent'
    BY <1>2, <1>3, <1>4, <1>9 DEF IInv, Sent, IsRequest, Jobs
<1>13. ResponseMatches'
    BY <1>1, <1>3, <1>4 DEF IInv, ResponseMatches, Question
<1> QED BY <1>5, <1>6, <1>7, <1>10, <1>11, <1>12, <1>13 DEF IInv

(* The entry is there: whoever owns the question is still in Request.      *)
LEMMA ReadResponseStep == ASSUME IInv, ReadResponse PROVE IInv'
<1> USE DEF callVars
<1> DEFINE q == inbox[1].about
<1>1. /\ inbox \in Seq(Messages) /\ inbox # <<>> /\ inbox' = Tail(inbox)
      /\ UNCHANGED <<open, asked, closed, slots, crashed, pc, callVars>>
    BY DEF IInv, TypeOK, Messages, ReadResponse
<1>2. IsResponse(1) /\ 1 \in DOMAIN inbox /\ Head(inbox) = inbox[1] /\ inbox[1] \in Messages
    BY <1>1, TailFacts DEF ReadResponse, IsResponse
<1>3. Owed(q) /\ q \notin asked
    BY <1>2 DEF IInv, Transit
<1>4. q.id \in DOMAIN handlers /\ handlers[q.id] = q.by
    BY <1>3 DEF IInv, Entries, Owed, Question, Calling
<1>5. reader' = "delivering" /\ delivery' = [about |-> q, to |-> q.by]
    BY <1>2, <1>4 DEF ReadResponse
<1>6. q \in Questions /\ q.by \in Jobs
    BY <1>2, <1>3 DEF Messages, Owed
<1>7. TypeOK'
    BY <1>1, <1>5, <1>6, TailFacts DEF IInv, TypeOK, Messages
<1>8. SlotsAreOpenRequests' /\ Entries' /\ ResponseMatches'
    BY <1>1 DEF IInv, SlotsAreOpenRequests, Entries, ResponseMatches, Question
<1>9. \A m : Owed(m) => Owed(m)'
    BY <1>1 DEF Owed, Question
<1>10. \A i \in DOMAIN inbox' : /\ i + 1 \in DOMAIN inbox /\ i + 1 # 1 /\ i \in Nat
                               /\ inbox'[i] = inbox[i + 1]
    BY <1>1, TailFacts
<1>11. Transit'
    BY <1>1, <1>9, <1>10 DEF IInv, Transit, IsResponse
<1>12. \A i \in DOMAIN inbox' : IsResponse(i)' => inbox'[i].about # q
    BY <1>2, <1>10 DEF IInv, Transit, IsResponse
<1>13. Delivery' /\ reader' # "stuck"
    BY <1>1, <1>3, <1>5, <1>9, <1>12 DEF Delivery
<1>14. Sent'
    BY <1>1, <1>10 DEF IInv, Sent, IsRequest
<1> QED BY <1>7, <1>8, <1>11, <1>13, <1>14 DEF IInv

LEMMA HandOverStep == ASSUME IInv, HandOver PROVE IInv'
<1> USE DEF callVars
<1> DEFINE j == delivery.to  q == delivery.about
<1>1. /\ Owed(q) /\ q.by = j /\ q \notin asked
      /\ \A i \in DOMAIN inbox : IsResponse(i) => inbox[i].about # q
    BY DEF HandOver, IInv, Delivery
<1>2. j \in Jobs /\ Question(j) = q /\ q \in Questions /\ pc[j] = "waiting"
    BY <1>1 DEF Owed, IInv, TypeOK, HandOver
<1>3. pc' = [k \in Jobs |-> IF k = j THEN "received" ELSE pc[k]]
    BY <1>2 DEF HandOver, IInv, TypeOK, Goto
<1>4. got' = [k \in Jobs |-> IF k = j THEN q ELSE got[k]]
    BY <1>2 DEF HandOver, IInv, TypeOK
<1>5. /\ UNCHANGED <<open, inbox, asked, closed, slots, crashed, counter, handlers,
                     callID, calls>>
      /\ reader' = "reading" /\ delivery' = NoDelivery
    BY DEF HandOver, browserVars
<1>6. TypeOK'
    BY <1>2, <1>3, <1>4, <1>5 DEF IInv, TypeOK, Labels, Holding, Calling, NoDelivery,
                                  NoQuestion, Questions
<1>7. SlotsAreOpenRequests'
    BY <1>2, <1>5, SlotsStep DEF IInv, TypeOK, HandOver, Holding, Calling
<1>8. Entries'
    BY <1>2, <1>3, <1>5 DEF IInv, TypeOK, Entries, Calling
<1>9. \A m : Owed(m) /\ m # q => Owed(m)'
    BY <1>2, <1>3, <1>5 DEF Owed, Question
<1>10. Transit'
    BY <1>1, <1>5, <1>9 DEF IInv, Transit, IsResponse
<1>11. Delivery' /\ reader' # "stuck"
    BY <1>5 DEF Delivery
<1>12. Sent'
    BY <1>2, <1>3, <1>5 DEF IInv, Sent, IsRequest, Jobs
<1>13. ResponseMatches'
    BY <1>2, <1>3, <1>4, <1>5 DEF IInv, ResponseMatches, Question
<1> QED BY <1>6, <1>7, <1>8, <1>10, <1>11, <1>12, <1>13 DEF IInv

-----------------------------------------------------------------------------
(* Connection.Request.                                                     *)

(* Between Requests of one goroutine it waits for no answer.               *)
LEMMA RegisterStep == ASSUME IInv, NEW j \in Jobs, Register(j) PROVE IInv'
<1> USE DEF readerVars, browserVars
<1> DEFINE n == counter + 1
<1>0. counter \in Nat /\ pc[j] = "running" /\ Goto(j, "registered")
    BY DEF IInv, TypeOK, Register
<1>1. pc' = [k \in Jobs |-> IF k = j THEN "registered" ELSE pc[k]]
    BY <1>0 DEF IInv, TypeOK, Goto
<1>2. /\ counter' = n /\ UNCHANGED <<open, inbox, asked, reader, delivery, closed, slots,
                                     crashed, got>>
      /\ callID' = [k \in Jobs |-> IF k = j THEN n ELSE callID[k]]
      /\ calls' = [k \in Jobs |-> IF k = j THEN calls[j] + 1 ELSE calls[k]]
      /\ handlers' = [id \in DOMAIN handlers \cup {n} |-> IF id = n THEN j ELSE handlers[id]]
    BY DEF IInv, TypeOK, Register
<1>3. n \notin DOMAIN handlers /\ n \in Nat /\ n \in 1 .. counter'
    BY <1>0, <1>2 DEF IInv, TypeOK
<1>4. TypeOK'
  <2>1. DOMAIN handlers' \subseteq 1 .. counter'
      BY <1>0, <1>2, <1>3 DEF IInv, TypeOK
  <2>2. \A id \in DOMAIN handlers' : handlers'[id] \in Jobs
      BY <1>2 DEF IInv, TypeOK
  <2>3. callID' \in [Jobs -> Nat] /\ calls' \in [Jobs -> Nat]
      BY <1>2, <1>3 DEF IInv, TypeOK
  <2>4. pc' \in [Jobs -> Labels]
      BY <1>1 DEF IInv, TypeOK, Labels, Holding, Calling
  <2> QED BY <1>2, <1>3, <2>1, <2>2, <2>3, <2>4 DEF IInv, TypeOK
<1>5. SlotsAreOpenRequests'
    BY <1>0, <1>2, SlotsStep DEF IInv, TypeOK, Holding, Calling
<1>6. Entries'
  <2>1. ASSUME NEW k \in Jobs, pc'[k] \in Calling
        PROVE  callID'[k] \in DOMAIN handlers' /\ handlers'[callID'[k]] = k
    <3>1. CASE k = j
        BY <1>2, <3>1
    <3>2. CASE k # j
        BY <1>1, <1>2, <1>3, <2>1, <3>2 DEF IInv, Entries
    <3> QED BY <3>1, <3>2
  <2>2. ASSUME NEW id \in DOMAIN handlers'
        PROVE  pc'[handlers'[id]] \in Calling /\ callID'[handlers'[id]] = id
    <3>1. CASE id = n
        BY <1>1, <1>2, <3>1 DEF Calling
    <3>2. CASE id # n
      <4>1. id \in DOMAIN handlers /\ handlers'[id] = handlers[id] /\ handlers[id] \in Jobs
          BY <1>2, <3>2 DEF IInv, TypeOK
      <4>2. pc[handlers[id]] \in Calling /\ callID[handlers[id]] = id
          BY <4>1 DEF IInv, Entries
      <4>3. handlers[id] # j
          BY <1>0, <4>2 DEF Calling
      <4> QED BY <1>1, <1>2, <4>1, <4>2, <4>3
    <3> QED BY <3>1, <3>2
  <2>3. \A k \in Jobs : callID'[k] <= counter'
      BY <1>0, <1>2 DEF IInv, TypeOK, Entries
  <2> QED BY <2>1, <2>2, <2>3 DEF Entries
<1>7. \A q : Owed(q) => Owed(q)'
    BY <1>0, <1>1, <1>2 DEF Owed, Question
<1>8. Transit' /\ Delivery' /\ reader' # "stuck"
    BY <1>2, <1>7 DEF IInv, Transit, Delivery, IsResponse
<1>9. Sent'
    BY <1>0, <1>1, <1>2 DEF IInv, Sent, IsRequest, Jobs
<1>10. ResponseMatches'
    BY <1>0, <1>1, <1>2 DEF IInv, ResponseMatches, Question
<1> QED BY <1>4, <1>5, <1>6, <1>8, <1>9, <1>10 DEF IInv

(* A goroutine leaves Connection.Request, and its entry goes.              *)
LEMMA LeaveStep ==
    ASSUME IInv, NEW j \in Jobs, pc[j] \in {"registered", "received"}, Goto(j, "running"),
           handlers' = Forget(callID[j]),
           UNCHANGED <<open, browserVars, readerVars, slots, crashed, counter, callID,
                       got, calls>>
    PROVE  IInv'
<1> USE DEF readerVars, browserVars
<1>1. pc' = [k \in Jobs |-> IF k = j THEN "running" ELSE pc[k]]
    BY DEF IInv, TypeOK, Goto
<1>2. /\ DOMAIN handlers' = DOMAIN handlers \ {callID[j]}
      /\ \A id \in DOMAIN handlers' : handlers'[id] = handlers[id]
    BY DEF Forget
<1>3. TypeOK'
    BY <1>1, <1>2 DEF IInv, TypeOK, Labels, Holding
<1>4. SlotsAreOpenRequests'
    BY SlotsStep DEF IInv, TypeOK, Holding, Calling
<1>5. Entries'
  <2>1. pc[j] \in Calling /\ handlers[callID[j]] = j
      BY DEF IInv, Entries, Calling
  <2>2. ASSUME NEW k \in Jobs, pc'[k] \in Calling
        PROVE  callID'[k] \in DOMAIN handlers' /\ handlers'[callID'[k]] = k
    <3>1. k # j /\ pc[k] \in Calling
        BY <1>1, <2>2 DEF Calling
    <3>2. callID[k] \in DOMAIN handlers /\ handlers[callID[k]] = k
        BY <3>1 DEF IInv, Entries
    <3> QED BY <1>2, <2>1, <3>1, <3>2
  <2>3. ASSUME NEW id \in DOMAIN handlers'
        PROVE  pc'[handlers'[id]] \in Calling /\ callID'[handlers'[id]] = id
    <3>1. /\ id \in DOMAIN handlers /\ id # callID[j] /\ handlers'[id] = handlers[id]
          /\ handlers[id] \in Jobs
        BY <1>2 DEF IInv, TypeOK
    <3>2. pc[handlers[id]] \in Calling /\ callID[handlers[id]] = id
        BY <3>1 DEF IInv, Entries
    <3> QED BY <1>1, <3>1, <3>2
  <2> QED BY <2>2, <2>3 DEF IInv, Entries
<1>6. \A q : Owed(q) => Owed(q)'
    BY <1>1 DEF Owed, Question
<1>7. Transit' /\ Delivery' /\ reader' # "stuck"
    BY <1>6 DEF IInv, Transit, Delivery, IsResponse
<1>8. Sent'
    BY <1>1 DEF IInv, Sent, IsRequest, Jobs
<1>9. ResponseMatches'
    BY <1>1 DEF IInv, ResponseMatches, Question
<1> QED BY <1>3, <1>4, <1>5, <1>7, <1>8, <1>9 DEF IInv

(* A goroutine goes on inside Connection.Request.                          *)
LEMMA InsideStep ==
    ASSUME IInv, NEW j \in Jobs, UNCHANGED <<open, inbox, readerVars, slots, crashed, callVars>>,
           \/ /\ pc[j] = "registered" /\ Goto(j, "written")
              /\ asked' = asked \cup {Question(j)}
           \/ pc[j] = "written" /\ Goto(j, "waiting") /\ UNCHANGED asked
    PROVE  IInv'
<1> USE DEF callVars, readerVars
<1> DEFINE l == IF pc[j] = "registered" THEN "written" ELSE "waiting"
<1>0. Goto(j, l) /\ pc[j] \in {"registered", "written"}
    OBVIOUS
<1>1. pc' = [k \in Jobs |-> IF k = j THEN l ELSE pc[k]]
    BY <1>0 DEF IInv, TypeOK, Goto
<1>2. Question(j) \in Questions /\ Question(j).by = j
    BY DEF IInv, TypeOK, Question, Questions
<1>3. TypeOK'
    BY <1>1, <1>2 DEF IInv, TypeOK, Labels, Holding, Calling
<1>4. SlotsAreOpenRequests'
    BY <1>0, SlotsStep DEF IInv, TypeOK, Holding, Calling
<1>5. Entries'
    BY <1>0, <1>1 DEF IInv, TypeOK, Entries, Calling
<1>6. \A q : Owed(q) => Owed(q)'
    BY <1>0, <1>1 DEF Owed, Question
<1>7. pc[j] = "registered" => ~Owed(Question(j)) /\ Owed(Question(j))'
    BY <1>1, <1>2 DEF Owed, Question
<1>8. Transit'
    BY <1>6, <1>7 DEF IInv, Transit, IsResponse, Question
<1>9. Delivery' /\ reader' # "stuck"
    BY <1>6, <1>7 DEF IInv, Delivery, IsResponse, Question
<1>10. Sent'
    BY <1>0, <1>1 DEF IInv, Sent, IsRequest, Jobs
<1>11. ResponseMatches'
    BY <1>1 DEF IInv, ResponseMatches, Question
<1> QED BY <1>3, <1>4, <1>5, <1>8, <1>9, <1>10, <1>11 DEF IInv

LEMMA CallStep == ASSUME IInv, NEW j \in Jobs, Call(j) PROVE IInv'
<1> USE DEF browserVars
<1>1. CASE Register(j)
    BY <1>1, RegisterStep
<1>2. CASE WriteRequest(j)
  <2>1. CASE open
      BY <1>2, <2>1, InsideStep DEF WriteRequest, callVars
  <2>2. CASE ~open
      BY <1>2, <2>2, LeaveStep DEF WriteRequest
  <2> QED BY <2>1, <2>2
<1>3. CASE Await(j)
    BY <1>3, InsideStep DEF Await
<1>4. CASE Unregister(j)
    BY <1>4, LeaveStep DEF Unregister
<1> QED BY <1>1, <1>2, <1>3, <1>4 DEF Call

-----------------------------------------------------------------------------
LEMMA InvInit == Init => IInv
<1> SUFFICES ASSUME Init PROVE IInv
    OBVIOUS
<1> USE DEF Init
<1>1. MaxRequests \in Nat
    BY MaxAssumption
<1>2. TypeOK
  <2>1. NoQuestion \in Questions
      BY DEF NoQuestion, Questions
  <2>2. inbox \in Seq([type : {"request", "response", "empty"},
                       from : Requests \cup {None}, about : Questions])
      OBVIOUS
  <2>3. pc \in [Jobs -> Labels]
      BY DEF Labels, Holding, Calling
  <2>4. DOMAIN handlers = {} /\ slots \in 0 .. MaxRequests
      BY <1>1
  <2>5. delivery \in [about : Questions, to : Jobs \cup {None}]
      BY <2>1 DEF NoDelivery
  <2> QED BY <2>1, <2>2, <2>3, <2>4, <2>5 DEF TypeOK
<1>3. SlotsAreOpenRequests
  <2>1. Holders = {}
      BY DEF Holders, Holding, Calling, Jobs
  <2>2. Cardinality(Holders) = 0
      BY <2>1, FS_EmptySet, HoldersFinite
  <2> QED BY <1>1, <2>2 DEF SlotsAreOpenRequests, Holders
<1>4. Entries /\ ResponseMatches
    BY DEF Entries, ResponseMatches, Calling
<1>5. Transit /\ Delivery /\ Sent /\ reader # "stuck"
    BY DEF Transit, Delivery, Sent
<1> QED BY <1>2, <1>3, <1>4, <1>5 DEF IInv

LEMMA InvStep == IInv /\ [Next]_vars => IInv'
<1> SUFFICES ASSUME IInv, [Next]_vars PROVE IInv'
    OBVIOUS
<1>1. CASE UNCHANGED vars
    BY <1>1, EndStep DEF vars, browserVars, readerVars, IInv, TypeOK
<1>2. CASE Browser
  <2>1. CASE Close
      BY <2>1, EndStep DEF Close, browserVars, readerVars, IInv, TypeOK
  <2> QED BY <1>2, <2>1, SendStep, AnswerStep, EmptyStep DEF Browser
<1>3. CASE Handle
    BY <1>3, ReadRequestStep, ReadResponseStep, EmptyStep, HandOverStep DEF Handle
<1>4. CASE ReadFails
    BY <1>4, EndStep DEF ReadFails, browserVars, IInv, TypeOK
<1> QED BY <1>1, <1>2, <1>3, <1>4, ServeStep, ReplyStep, CallStep DEF Next

(* What the invariant says holds throughout.                               *)
THEOREM Invariance == Spec => []IInv
BY InvInit, InvStep, PTL DEF Spec

-----------------------------------------------------------------------------
(* The types of the variables; what the reader holds is meant for a        *)
(* goroutine, and no entry lies beyond requestCounter.                     *)
THEOREM TypeCorrect == Spec => []TypeOK
<1>1. IInv => TypeOK
    BY DEF IInv
<1> QED BY <1>1, Invariance, PTL

(* connection.go:141: every token of reserve belongs to a request that is  *)
(* being handled, and there are at most MaxRequests of them.               *)
THEOREM SlotsAreKept == Spec => []SlotsAreOpenRequests
<1>1. IInv => SlotsAreOpenRequests
    BY DEF IInv
<1> QED BY <1>1, Invariance, PTL

(* request.go:10: however many goroutines ask at the same time and in      *)
(* whatever order the browser answers, each gets the answer to its own     *)
(* question, that of its current call and not of an earlier one.           *)
THEOREM AnswersMatch == Spec => []ResponseMatches
<1>1. IInv => ResponseMatches
    BY DEF IInv
<1> QED BY <1>1, Invariance, PTL

(* connection.go:127: the reader always finds an entry for a response, and *)
(* who it hands the response to has yet to receive.                        *)
THEOREM ReaderIsFree == Spec => []ReaderNeverStrands
<1>1. IInv => ReaderNeverStrands
    BY DEF IInv, Delivery, Owed, ReaderNeverStrands
<1> QED BY <1>1, Invariance, PTL

(* request.go:17: responseHandlers holds the calls under way, also after   *)
(* writes that failed.                                                     *)
THEOREM EntriesAreCalls == Spec => []HandlersAreCalls
<1>1. ASSUME IInv PROVE HandlersAreCalls
  <2>1. \A id \in DOMAIN handlers : /\ handlers[id] \in Jobs /\ pc[handlers[id]] \in Calling
                                    /\ callID[handlers[id]] = id
      BY <1>1 DEF IInv, TypeOK, Entries
  <2>2. \A j \in Jobs : pc[j] \in Calling => callID[j] \in DOMAIN handlers
      BY <1>1 DEF IInv, Entries
  <2> QED BY <2>1, <2>2 DEF HandlersAreCalls
<1> QED BY <1>1, Invariance, PTL
=============================================================================
