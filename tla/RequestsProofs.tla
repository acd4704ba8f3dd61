---------------------------- MODULE RequestsProofs -----------------------------
(***************************************************************************)
(* Theorems about the requests of a browser, for any requests, frames,     *)
(* channels and hubs.                                                      *)
(***************************************************************************)
EXTENDS Requests, CodecProofs, FiniteSetTheorems, WellFoundedInduction

(* Every variable that is a function is one on Calls.                      *)
Functions ==
    /\ call = [c \in Calls |-> [stage |-> call[c].stage, msg |-> call[c].msg]]
    /\ reply = [c \in Calls |-> reply[c]]
    /\ helper = [c \in Calls |-> helper[c]]
    /\ hubSaid = [c \in Calls |-> hubSaid[c]]
    /\ asked \in [Calls -> 0 .. 2]

(* How often a request was put to the browser follows from where its       *)
(* handler stands; before the handler has gone on, nothing is signed.      *)
Signing ==
    /\ chain \subseteq signed
    /\ \A c \in Calls :
          /\ call[c].stage \in {"new", "taken"} => asked[c] = 0
          /\ At(c, "sending")  => asked[c] \in {0, 1}
          /\ At(c, "signing")  => asked[c] \in {1, 2}
          /\ At(c, "unsigned") => asked[c] = 2
          /\ call[c].stage \in {"new", "taken", "sending", "signing", "unsigned"} =>
                 c \notin signed

TxInv == Functions /\ Signing

(* What a helper sends first.                                              *)
Answers(c) ==
    \/ helper[c] \in {OnError, OnWrongType}
    \/ helper[c] = <<hubSaid[c]>> /\ hubSaid[c].type = QuoteType(Type(c))

(* A helper that still asks has nothing the handler could have replied     *)
(* with; one that the handler waits for has the answer of this request.    *)
Asked ==
    \A c \in Calls :
        /\ reply[c] # None => At(c, "done")
        /\ call[c].stage \notin {"new", "taken", "waiting", "done"} => Type(c) \notin HubTypes
        /\ At(c, "waiting") => helper[c] = <<Asking>> \/ Answers(c)
        /\ At(c, "waiting") => Type(c) \in HubTypes
        /\ helper[c] = <<Asking>> => reply[c] \in {None, Error}
        /\ helper[c] # <<>> => Type(c) \in HubTypes /\ call[c].stage \in {"waiting", "done"}

HubInv == Functions /\ Asked /\ AnswerIsTheHubs

-----------------------------------------------------------------------------
(* What Goto and Reply do to the variables they change.                    *)
LEMMA GotoEffect ==
    ASSUME Functions, NEW c \in Calls, NEW s, Goto(c, s)
    PROVE  call' = [d \in Calls |-> [stage |-> IF d = c THEN s ELSE call[d].stage,
                                     msg |-> call[d].msg]]
<1> DEFINE new == [call[c] EXCEPT !.stage = s]
<1>1. call' = [call EXCEPT ![c] = new]
    BY DEF Goto
<1>2. call[c] = [stage |-> call[c].stage, msg |-> call[c].msg]
    BY DEF Functions
<1>3. new = [stage |-> s, msg |-> call[c].msg]
    BY <1>2
<1> HIDE DEF new
<1>4. call' = [d \in Calls |-> IF d = c THEN new ELSE call[d]]
    BY <1>1 DEF Functions
<1>5. \A d \in Calls : call[d] = [stage |-> call[d].stage, msg |-> call[d].msg]
    BY DEF Functions
<1> QED BY <1>3, <1>4, <1>5

LEMMA ReplyEffect ==
    ASSUME Functions, NEW c \in Calls, NEW m, Reply(c, m)
    PROVE  /\ Goto(c, "done")
           /\ \E w \in {m, None} : reply' = [d \in Calls |-> IF d = c THEN w ELSE reply[d]]
BY DEF Functions, Reply

(* What the order book's handlers leave alone.                             *)
LEMMA BookEffect ==
    ASSUME NEW c \in Calls, HandleOrderBookMessage(c)
    PROVE  /\ At(c, "taken") /\ Type(c) \in OrderBookTypes
           /\ UNCHANGED <<open, hubOpen, queryVars, txVars>>
           /\ \E m : Reply(c, m) /\ IsMessage(m)
<1>1. \A type \in {"CreateOrderAck", "CancelOrderAck", "AcceptOrderAck",
                   "GetOrderBookResponse"} : \A b : IsMessage(Message(type, b))
    BY DEF IsMessage, Message, MessageTypes
<1>2. At(c, "taken") /\ UNCHANGED <<open, hubOpen, queryVars, txVars>>
    BY DEF HandleOrderBookMessage
<1>3. CASE CreateOrder(c)
    BY <1>1, <1>2, <1>3 DEF CreateOrder, OrderBookTypes
<1>4. CASE CancelOrder(c)
    BY <1>1, <1>2, <1>4 DEF CancelOrder, OrderBookTypes
<1>5. CASE AcceptOrder(c)
    BY <1>1, <1>2, <1>5 DEF AcceptOrder, OrderBookTypes
<1>6. CASE GetOrderBook(c)
    BY <1>1, <1>2, <1>6 DEF GetOrderBook, OrderBookTypes
<1> QED BY <1>3, <1>4, <1>5, <1>6 DEF HandleOrderBookMessage

-----------------------------------------------------------------------------
(* Transactions.                                                           *)

(* A handler goes on, and nothing of the transactions changes.             *)
LEMMA TxStep ==
    ASSUME TxInv, NEW c \in Calls, NEW s, Goto(c, s), UNCHANGED <<queryVars, txVars>>,
           reply' = [d \in Calls |-> reply'[d]],
           \/ s \in {"waiting", "acting", "done"}
           \/ At(c, "taken") /\ s = "sending"
    PROVE  TxInv'
<1>1. Functions'
    BY GotoEffect DEF TxInv, Functions, queryVars, txVars
<1>2. Signing'
    BY GotoEffect DEF TxInv, Signing, At, txVars
<1> QED BY <1>1, <1>2 DEF TxInv

LEMMA TxReply ==
    ASSUME TxInv, NEW c \in Calls, NEW m, Reply(c, m), UNCHANGED txVars,
           helper' = [d \in Calls |-> helper'[d]], UNCHANGED hubSaid
    PROVE  TxInv'
<1>1. Goto(c, "done") /\ reply' = [d \in Calls |-> reply'[d]]
    BY ReplyEffect DEF TxInv
<1>2. Functions'
    BY <1>1, GotoEffect DEF TxInv, Functions, txVars
<1>3. Signing'
    BY <1>1, GotoEffect DEF TxInv, Signing, At, txVars
<1> QED BY <1>2, <1>3 DEF TxInv

LEMMA TxHandler ==
    ASSUME TxInv, NEW c \in Calls, Handler(c)
    PROVE  TxInv'
<1> USE DEF queryVars, txVars
<1>0. reply = [d \in Calls |-> reply[d]] /\ helper = [d \in Calls |-> helper[d]]
    BY DEF TxInv, Functions
<1>1. CASE HandleRequest(c)
    BY <1>0, <1>1, TxReply DEF HandleRequest
<1>2. CASE AskHub(c)
  <2>1. CASE Body(c).hub \notin Hubs
      BY <1>0, <1>2, <2>1, TxReply DEF AskHub
  <2>2. CASE Body(c).hub \in Hubs
    <3>1. Goto(c, "waiting") /\ UNCHANGED <<reply, hubSaid, txVars>>
        BY <1>2, <2>2 DEF AskHub
    <3>2. helper' = [d \in Calls |-> helper'[d]]
        BY <1>0, <1>2, <2>2 DEF AskHub
    <3>3. Functions'
        BY <3>1, <3>2, GotoEffect DEF TxInv, Functions
    <3>4. Signing'
        BY <3>1, GotoEffect DEF TxInv, Signing, At
    <3> QED BY <3>3, <3>4 DEF TxInv
  <2> QED BY <2>1, <2>2
<1>3. CASE ReceiveQuote(c)
  <2>1. helper' = [d \in Calls |-> helper'[d]] /\ UNCHANGED <<hubSaid, txVars>>
      BY <1>0, <1>3 DEF ReceiveQuote
  <2> QED BY <1>3, <2>1, TxReply DEF ReceiveQuote
<1>4. CASE QuoteTimesOut(c)
    BY <1>0, <1>4, TxReply DEF QuoteTimesOut
<1>5. CASE ChannelAction(c)
  <2>1. CASE Refused(Type(c), Body(c))
      BY <1>0, <1>5, <2>1, TxReply DEF ChannelAction
  <2>2. CASE ~Refused(Type(c), Body(c)) /\ ~ActionPanics(Type(c), Body(c))
      BY <1>0, <1>5, <2>2, TxStep DEF ChannelAction
  <2>3. CASE ~Refused(Type(c), Body(c)) /\ ActionPanics(Type(c), Body(c))
    <3>1. UNCHANGED <<call, reply, queryVars, txVars>>
        BY <1>5, <2>3 DEF ChannelAction
    <3> QED BY <3>1 DEF TxInv, Functions, Signing, At
  <2> QED BY <2>1, <2>2, <2>3
<1>6. CASE ActionEnds(c)
    BY <1>0, <1>6, TxReply DEF ActionEnds
<1>7. CASE SendSolTx(c)
  <2>1. asked[c] \in {0, 1} /\ c \notin signed /\ asked \in [Calls -> 0 .. 2]
      BY <1>7 DEF SendSolTx, TxInv, Signing, Functions, At
  <2>2. asked' = [d \in Calls |-> IF d = c THEN asked[c] + 1 ELSE asked[d]]
      BY <1>7, <2>1 DEF SendSolTx
  <2>3. /\ UNCHANGED <<reply, helper, hubSaid, signed, chain>>
        /\ \/ Goto(c, "signing")
           \/ Goto(c, "unsigned") /\ asked[c] = 1
           \/ Goto(c, "sending") /\ asked[c] = 0
      BY <1>7, <2>1 DEF SendSolTx, Failed
  <2>4. Functions'
      BY <2>1, <2>2, <2>3, GotoEffect DEF TxInv, Functions
  <2>5. Signing'
    <3>1. PICK s : /\ Goto(c, s)
                   /\ \/ s = "signing"
                      \/ s = "unsigned" /\ asked[c] = 1
                      \/ s = "sending" /\ asked[c] = 0
        BY <2>3
    <3>2. \A d \in Calls : call'[d].stage = IF d = c THEN s ELSE call[d].stage
        BY <3>1, GotoEffect DEF TxInv
    <3> QED BY <2>1, <2>2, <2>3, <3>1, <3>2 DEF TxInv, Signing, At
  <2> QED BY <2>4, <2>5 DEF TxInv
<1>8. CASE ReportUnsigned(c)
    BY <1>0, <1>8, TxReply DEF ReportUnsigned
<1>9. CASE HandleOrderBookMessage(c)
    BY <1>0, <1>9, BookEffect, TxReply
<1> QED BY <1>1, <1>2, <1>3, <1>4, <1>5, <1>6, <1>7, <1>8, <1>9 DEF Handler

(* What the browser and the connections do.                                *)
LEMMA TxEnvironment ==
    ASSUME TxInv, NEW c \in Calls
    PROVE  /\ \A frame \in Frames : Read(c, frame) => TxInv'
           /\ \A m : HubAnswers(c, m) => TxInv'
           /\ BrowserRefuses(c) => TxInv'
           /\ \A arrives \in BOOLEAN : BrowserSigns(c, arrives) => TxInv'
<1> USE DEF queryVars, txVars
<1>1. ASSUME NEW frame \in Frames, Read(c, frame) PROVE TxInv'
  <2>1. CASE ReadPanics(frame) \/ Unmarshal(frame) = Bad
      BY <1>1, <2>1 DEF Read, TxInv, Functions, Signing, At
  <2>2. CASE ~ReadPanics(frame) /\ Unmarshal(frame) # Bad
    <3>1. call' = [call EXCEPT ![c] = [stage |-> "taken", msg |-> Unmarshal(frame)]]
        BY <1>1, <2>2 DEF Read
    <3>2. call' = [d \in Calls |->
                      [stage |-> IF d = c THEN "taken" ELSE call[d].stage,
                       msg |-> IF d = c THEN Unmarshal(frame) ELSE call[d].msg]]
        BY <3>1 DEF TxInv, Functions
    <3>3. At(c, "new") /\ UNCHANGED <<reply, helper, hubSaid, asked, signed, chain>>
        BY <1>1 DEF Read
    <3>4. Functions'
        BY <3>2, <3>3 DEF TxInv, Functions
    <3>5. Signing'
        BY <3>2, <3>3 DEF TxInv, Signing, At
    <3> QED BY <3>4, <3>5 DEF TxInv
  <2> QED BY <2>1, <2>2
<1>2. ASSUME NEW m, HubAnswers(c, m) PROVE TxInv'
  <2>1. UNCHANGED <<call, reply, asked, signed, chain>>
      BY <1>2 DEF HubAnswers
  <2>2. helper' = [d \in Calls |-> helper'[d]] /\ hubSaid' = [d \in Calls |-> hubSaid'[d]]
      BY <1>2 DEF HubAnswers, TxInv, Functions
  <2> QED BY <2>1, <2>2 DEF TxInv, Functions, Signing, At
<1>3. ASSUME BrowserRefuses(c) PROVE TxInv'
  <2> DEFINE s == IF asked[c] = 1 THEN "sending" ELSE "unsigned"
  <2>1. Goto(c, s)
      BY <1>3 DEF BrowserRefuses
  <2>2. UNCHANGED <<reply, helper, hubSaid, asked, signed, chain>> /\ At(c, "signing")
      BY <1>3 DEF BrowserRefuses
  <2>3. Functions'
      BY <2>1, <2>2, GotoEffect DEF TxInv, Functions
  <2>4. \A d \in Calls : call'[d].stage = IF d = c THEN s ELSE call[d].stage
      BY <2>1, GotoEffect DEF TxInv
  <2>5. Signing'
      BY <2>1, <2>2, <2>4 DEF TxInv, Signing, At
  <2> QED BY <2>3, <2>5 DEF TxInv
<1>4. ASSUME NEW arrives \in BOOLEAN, BrowserSigns(c, arrives) PROVE TxInv'
  <2>1. /\ Goto(c, "acting") /\ UNCHANGED <<reply, helper, hubSaid, asked>>
        /\ signed' = signed \cup {c} /\ chain' \subseteq chain \cup {c}
      BY <1>4 DEF BrowserSigns
  <2>2. Functions'
      BY <2>1, GotoEffect DEF TxInv, Functions
  <2>3. \A d \in Calls : call'[d].stage = IF d = c THEN "acting" ELSE call[d].stage
      BY <2>1, GotoEffect DEF TxInv
  <2>4. Signing'
      BY <2>1, <2>3 DEF TxInv, Signing, At
  <2> QED BY <2>2, <2>4 DEF TxInv
<1> QED BY <1>1, <1>2, <1>3, <1>4

LEMMA SigningInvariant == Spec => []TxInv
<1>1. Init => TxInv
    BY DEF Init, TxInv, Functions, Signing, At
<1>2. TxInv /\ [Next]_vars => TxInv'
  <2> SUFFICES ASSUME TxInv, [Next]_vars PROVE TxInv'
      OBVIOUS
  <2>1. CASE UNCHANGED vars
      BY <2>1 DEF vars, queryVars, txVars, TxInv, Functions, Signing, At
  <2>2. CASE LoseConnection \/ LoseHub \/ OthersTrade
      BY <2>2 DEF LoseConnection, LoseHub, OthersTrade, queryVars, txVars,
                  TxInv, Functions, Signing, At
  <2>3. ASSUME NEW c \in Calls, Handler(c) PROVE TxInv'
      BY <2>3, TxHandler
  <2> QED BY <2>1, <2>2, <2>3, TxEnvironment DEF Next, Environment
<1> QED BY <1>1, <1>2, PTL DEF Spec

(* Whatever reaches the chain was signed by the browser, and a request     *)
(* that fails for want of a signature was put to it twice                  *)
(* (websocketsender.go:32).                                                *)
THEOREM NothingUnsignedIsSent == Spec => []SignedBeforeSent
<1>1. TxInv => SignedBeforeSent
    BY DEF TxInv, Signing, SignedBeforeSent, At
<1> QED BY <1>1, SigningInvariant, PTL

-----------------------------------------------------------------------------
(* Questions to the hub.                                                   *)

LEMMA Sequences == <<Asking>> # OnError /\ <<Asking>> # OnWrongType /\ <<Asking>> # <<>>
BY DEF Asking, OnError, OnWrongType, Error, Nil, Message

(* A handler replies, and its helper may go on.                            *)
LEMMA HubReply ==
    ASSUME HubInv, NEW c \in Calls, NEW m, Reply(c, m), Functions', UNCHANGED hubSaid,
           ~At(c, "new"),
           \/ Type(c) \notin HubTypes /\ UNCHANGED helper
           \/ Type(c) \in HubTypes /\ m = Error /\ UNCHANGED helper
           \/ /\ Type(c) \in HubTypes
              /\ m = Error \/ (m = hubSaid[c] /\ m.type = QuoteType(Type(c)))
              /\ helper' = [d \in Calls |-> IF d = c THEN helper'[c] ELSE helper[d]]
              /\ helper'[c] # <<Asking>>
    PROVE  HubInv'
<1>1. PICK w \in {m, None} : reply' = [d \in Calls |-> IF d = c THEN w ELSE reply[d]]
    BY ReplyEffect DEF HubInv
<1>2. call' = [d \in Calls |-> [stage |-> IF d = c THEN "done" ELSE call[d].stage,
                                msg |-> call[d].msg]]
    BY ReplyEffect, GotoEffect DEF HubInv
<1>3. \A d \in Calls : Type(d)' = Type(d)
    BY <1>2 DEF Type
<1>4. \A d \in Calls : d # c => /\ call'[d].stage = call[d].stage
                                /\ reply'[d] = reply[d] /\ helper'[d] = helper[d]
    BY <1>1, <1>2
<1>5. call'[c].stage = "done" /\ reply'[c] = w
    BY <1>1, <1>2
<1>6. Asked'
  <2> SUFFICES ASSUME NEW d \in Calls
               PROVE  /\ reply'[d] # None => At(d, "done")'
                      /\ call'[d].stage \notin {"new", "taken", "waiting", "done"} =>
                             Type(d)' \notin HubTypes
                      /\ At(d, "waiting")' => helper'[d] = <<Asking>> \/ Answers(d)'
                      /\ At(d, "waiting")' => Type(d)' \in HubTypes
                      /\ helper'[d] = <<Asking>> => reply'[d] \in {None, Error}
                      /\ helper'[d] # <<>> => /\ Type(d)' \in HubTypes
                                              /\ call'[d].stage \in {"waiting", "done"}
      BY DEF Asked
  <2>1. CASE d # c
      BY <1>3, <1>4, <2>1 DEF HubInv, Asked, At, Answers
  <2>2. CASE d = c
      BY <1>3, <1>5, <2>2, Sequences DEF HubInv, Asked, At
  <2> QED BY <2>1, <2>2
<1>7. AnswerIsTheHubs'
    BY <1>3, <1>4, <1>5 DEF HubInv, AnswerIsTheHubs
<1> QED BY <1>6, <1>7 DEF HubInv

(* A handler goes on without a reply.                                      *)
LEMMA HubGoesOn ==
    ASSUME HubInv, NEW c \in Calls, NEW s, Goto(c, s), Functions',
           UNCHANGED <<reply, hubSaid>>,
           \/ /\ s = "waiting" /\ At(c, "taken") /\ Type(c) \in HubTypes
              /\ \E h \in {<<Asking>>, OnError} :
                    helper' = [d \in Calls |-> IF d = c THEN h ELSE helper[d]]
           \/ /\ s \in {"acting", "sending", "signing", "unsigned"}
              /\ Type(c) \notin HubTypes /\ UNCHANGED helper
              /\ reply[c] = None
    PROVE  HubInv'
<1>1. call' = [d \in Calls |-> [stage |-> IF d = c THEN s ELSE call[d].stage,
                                msg |-> call[d].msg]]
    BY GotoEffect DEF HubInv
<1>2. \A d \in Calls : Type(d)' = Type(d)
    BY <1>1 DEF Type
<1>3. \A d \in Calls : d # c => call'[d].stage = call[d].stage /\ helper'[d] = helper[d]
    BY <1>1
<1>4. call'[c].stage = s /\ (s = "waiting" => helper'[c] \in {<<Asking>>, OnError})
    BY <1>1
<1>5. reply[c] = None
    BY DEF HubInv, Asked, At
<1>6. Asked'
    BY <1>2, <1>3, <1>4, <1>5, Sequences DEF HubInv, Asked, At, Answers
<1>7. AnswerIsTheHubs'
    BY <1>2 DEF HubInv, AnswerIsTheHubs
<1> QED BY <1>6, <1>7 DEF HubInv

LEMMA HubHandler ==
    ASSUME HubInv, Functions', NEW c \in Calls, Handler(c)
    PROVE  HubInv'
<1> USE DEF queryVars, txVars
<1>0. \A s : s # "done" => (At(c, s) => reply[c] = None)
    BY DEF HubInv, Asked, At
<1>1. CASE HandleRequest(c)
  <2>1. PICK m \in Responses(Type(c), Body(c)) : Reply(c, m)
      BY <1>1 DEF HandleRequest
  <2> QED BY <1>1, <2>1, HubReply DEF HandleRequest, At
<1>2. CASE AskHub(c)
  <2>1. CASE Body(c).hub \notin Hubs
      BY <1>2, <2>1, HubReply DEF AskHub, At
  <2>2. CASE Body(c).hub \in Hubs
    <3> DEFINE h == IF hubOpen THEN <<Asking>> ELSE OnError
    <3>1. helper' = [d \in Calls |-> IF d = c THEN h ELSE helper[d]]
        BY <1>2, <2>2 DEF AskHub, HubInv, Functions
    <3>2. h \in {<<Asking>>, OnError}
        OBVIOUS
    <3> QED BY <1>2, <2>2, <3>1, <3>2, HubGoesOn DEF AskHub
  <2> QED BY <2>1, <2>2
<1>3. CASE ReceiveQuote(c)
  <2>1. Answers(c) /\ Type(c) \in HubTypes
      BY <1>3 DEF ReceiveQuote, HubInv, Asked
  <2>2. helper' = [d \in Calls |-> IF d = c THEN Tail(helper[c]) ELSE helper[d]]
      BY <1>3 DEF ReceiveQuote, HubInv, Functions
  <2>3. \/ Head(helper[c]) = Error
        \/ Head(helper[c]) = hubSaid[c] /\ hubSaid[c].type = QuoteType(Type(c))
      BY <2>1 DEF Answers, OnError, OnWrongType
  <2>4. Tail(helper[c]) # <<Asking>>
    <3>1. CASE helper[c] = OnError
      <4>1. Tail(helper[c]) = <<Error, Nil>>
          BY <3>1 DEF OnError
      <4>2. <<Error, Nil>> # <<Asking>>
          OBVIOUS
      <4> QED BY <4>1, <4>2
    <3>2. CASE helper[c] = OnWrongType
      <4>1. Tail(helper[c]) = <<Nil>>
          BY <3>2 DEF OnWrongType
      <4>2. Nil # Asking
          BY DEF Nil, Asking, Message
      <4> QED BY <4>1, <4>2
    <3>3. CASE helper[c] = <<hubSaid[c]>>
      <4>1. Tail(helper[c]) = <<>>
          BY <3>3
      <4> QED BY <4>1
    <3> QED BY <2>1, <3>1, <3>2, <3>3 DEF Answers
  <2>5. Reply(c, Head(helper[c])) /\ UNCHANGED hubSaid /\ ~At(c, "new")
      BY <1>3 DEF ReceiveQuote, At
  <2>6. /\ helper' = [d \in Calls |-> IF d = c THEN helper'[c] ELSE helper[d]]
        /\ helper'[c] # <<Asking>>
      BY <2>2, <2>4
  <2> DEFINE m == Head(helper[c])
  <2>7. m = Error \/ (m = hubSaid[c] /\ m.type = QuoteType(Type(c)))
      BY <2>3
  <2> HIDE DEF m
  <2>8. Reply(c, m)
      BY <2>5 DEF m
  <2> QED BY <2>1, <2>5, <2>6, <2>7, <2>8, HubReply
<1>4. CASE QuoteTimesOut(c)
  <2>1. Type(c) \in HubTypes
      BY <1>4 DEF QuoteTimesOut, HubInv, Asked
  <2> QED BY <1>4, <2>1, HubReply DEF QuoteTimesOut, At
<1>5. CASE ChannelAction(c)
  <2>1. Type(c) \notin HubTypes
      BY <1>5 DEF ChannelAction, ChannelActions, HubTypes
  <2>2. CASE Refused(Type(c), Body(c))
      BY <1>5, <2>1, <2>2, HubReply DEF ChannelAction, At
  <2>3. CASE ~Refused(Type(c), Body(c)) /\ ~ActionPanics(Type(c), Body(c))
    <3>1. PICK s \in {"acting", "sending"} : Goto(c, s)
        BY <1>5, <2>3 DEF ChannelAction
    <3> QED BY <1>0, <1>5, <2>1, <2>3, <3>1, HubGoesOn DEF ChannelAction
  <2>4. CASE ~Refused(Type(c), Body(c)) /\ ActionPanics(Type(c), Body(c))
    <3>1. UNCHANGED <<call, reply, queryVars>>
        BY <1>5, <2>4 DEF ChannelAction
    <3> QED BY <3>1 DEF HubInv, Functions, Asked, Answers, AnswerIsTheHubs, Type, At
  <2> QED BY <2>2, <2>3, <2>4
<1>6. CASE ActionEnds(c)
  <2>1. Type(c) \notin HubTypes
      BY <1>6 DEF ActionEnds, HubInv, Asked, At
  <2> QED BY <1>6, <2>1, HubReply DEF ActionEnds, At
<1>7. CASE SendSolTx(c)
  <2>1. Type(c) \notin HubTypes
      BY <1>7 DEF SendSolTx, HubInv, Asked, At
  <2> DEFINE s == IF open THEN "signing" ELSE IF asked[c] = 1 THEN "unsigned" ELSE "sending"
  <2>2. Goto(c, s)
    <3>1. CASE open
        BY <1>7, <3>1 DEF SendSolTx
    <3>2. CASE ~open
        BY <1>7, <3>2 DEF SendSolTx, Failed
    <3> QED BY <3>1, <3>2
  <2> QED BY <1>0, <1>7, <2>1, <2>2, HubGoesOn DEF SendSolTx
<1>8. CASE ReportUnsigned(c)
  <2>1. Type(c) \notin HubTypes
      BY <1>8 DEF ReportUnsigned, HubInv, Asked, At
  <2> QED BY <1>8, <2>1, HubReply DEF ReportUnsigned, At
<1>9. CASE HandleOrderBookMessage(c)
  <2>1. Type(c) \notin HubTypes
      BY <1>9, BookEffect DEF OrderBookTypes, HubTypes
  <2> QED BY <1>9, <2>1, BookEffect, HubReply DEF At
<1> QED BY <1>1, <1>2, <1>3, <1>4, <1>5, <1>6, <1>7, <1>8, <1>9 DEF Handler

LEMMA HubEnvironment ==
    ASSUME HubInv, Functions', NEW c \in Calls
    PROVE  /\ \A frame \in Frames : Read(c, frame) => HubInv'
           /\ \A m \in Quotes \cup {Error, Success} : HubAnswers(c, m) => HubInv'
           /\ BrowserRefuses(c) => HubInv'
           /\ \A arrives \in BOOLEAN : BrowserSigns(c, arrives) => HubInv'
<1> USE DEF queryVars, txVars
<1>1. ASSUME NEW frame \in Frames, Read(c, frame) PROVE HubInv'
  <2>1. CASE ReadPanics(frame) \/ Unmarshal(frame) = Bad
      BY <1>1, <2>1 DEF Read, HubInv, Functions, Asked, Answers, AnswerIsTheHubs, Type, At
  <2>2. CASE ~ReadPanics(frame) /\ Unmarshal(frame) # Bad
    <3>1. \A d \in Calls : d # c => call'[d] = call[d]
        BY <1>1, <2>2 DEF Read, HubInv, Functions
    <3>2. call'[c].stage = "taken"
        BY <1>1, <2>2 DEF Read, HubInv, Functions
    <3>3. At(c, "new") /\ UNCHANGED <<reply, helper, hubSaid>>
        BY <1>1 DEF Read
    <3>4. reply[c] = None /\ helper[c] = <<>>
        BY <3>3 DEF HubInv, Asked, At
    <3>5. Asked'
        BY <3>1, <3>2, <3>3, <3>4, Sequences DEF HubInv, Asked, Answers, At, Type
    <3>6. AnswerIsTheHubs'
        BY <3>1, <3>3, <3>4 DEF HubInv, AnswerIsTheHubs, Type
    <3> QED BY <3>5, <3>6 DEF HubInv
  <2> QED BY <2>1, <2>2
<1>2. ASSUME NEW m \in Quotes \cup {Error, Success}, HubAnswers(c, m) PROVE HubInv'
  <2> DEFINE h == IF m.type = QuoteType(Type(c)) THEN <<m>> ELSE OnWrongType
  <2>1. UNCHANGED <<call, reply>> /\ helper[c] = <<Asking>>
      BY <1>2 DEF HubAnswers
  <2>2. /\ helper' = [d \in Calls |-> IF d = c THEN h ELSE helper[d]]
        /\ hubSaid' = [d \in Calls |-> IF d = c THEN m ELSE hubSaid[d]]
      BY <1>2 DEF HubAnswers, HubInv, Functions
  <2>3. h # <<Asking>>
    <3>1. CASE m.type = QuoteType(Type(c))
      <4>1. QuoteType(Type(c)) # "asking the hub"
          BY DEF QuoteType
      <4>2. Asking.type = "asking the hub"
          BY DEF Asking, Message
      <4> QED BY <3>1, <4>1, <4>2
    <3>2. CASE m.type # QuoteType(Type(c))
        BY <3>2, Sequences
    <3> QED BY <3>1, <3>2
  <2>4. Answers(c)'
      BY <2>1, <2>2 DEF Answers, Type
  <2>5. reply[c] \in {None, Error}
      BY <2>1 DEF HubInv, Asked
  <2>6. Asked'
      BY <2>1, <2>2, <2>3, <2>4, Sequences DEF HubInv, Asked, Answers, At, Type
  <2>7. AnswerIsTheHubs'
      BY <2>1, <2>2, <2>5 DEF HubInv, AnswerIsTheHubs, Type
  <2> QED BY <2>6, <2>7 DEF HubInv
<1>3. ASSUME BrowserRefuses(c) PROVE HubInv'
  <2> DEFINE s == IF asked[c] = 1 THEN "sending" ELSE "unsigned"
  <2>1. Goto(c, s)
      BY <1>3 DEF BrowserRefuses
  <2>2. Type(c) \notin HubTypes /\ reply[c] = None
      BY <1>3 DEF BrowserRefuses, HubInv, Asked, At
  <2> QED BY <1>3, <2>1, <2>2, HubGoesOn DEF BrowserRefuses
<1>4. ASSUME NEW arrives \in BOOLEAN, BrowserSigns(c, arrives) PROVE HubInv'
  <2>1. Type(c) \notin HubTypes /\ reply[c] = None
      BY <1>4 DEF BrowserSigns, HubInv, Asked, At
  <2> QED BY <1>4, <2>1, HubGoesOn DEF BrowserSigns
<1> QED BY <1>1, <1>2, <1>3, <1>4

LEMMA HubInvariant == Spec => []HubInv
<1>1. Init => HubInv
    BY Sequences DEF Init, HubInv, Functions, Asked, AnswerIsTheHubs, At
<1>2. HubInv /\ TxInv' /\ [Next]_vars => HubInv'
  <2> SUFFICES ASSUME HubInv, TxInv', [Next]_vars PROVE HubInv'
      OBVIOUS
  <2>1. Functions'
      BY DEF TxInv
  <2>2. CASE UNCHANGED vars
      BY <2>2 DEF vars, queryVars, txVars, HubInv, Functions, Asked, Answers,
                  AnswerIsTheHubs, At, Type
  <2>3. CASE LoseConnection \/ LoseHub \/ OthersTrade
      BY <2>3 DEF LoseConnection, LoseHub, OthersTrade, queryVars, txVars, HubInv, Functions,
                  Asked, Answers, AnswerIsTheHubs, At, Type
  <2>4. ASSUME NEW c \in Calls, Handler(c) PROVE HubInv'
      BY <2>1, <2>4, HubHandler
  <2> QED BY <2>1, <2>2, <2>3, <2>4, HubEnvironment DEF Next, Environment
<1> QED BY <1>1, <1>2, SigningInvariant, PTL DEF Spec

(* A quote or a balance that a browser is told is the hub's answer to this *)
(* request, in whichever order answers, time-outs and other requests come  *)
(* (reqhandler.go:278).                                                    *)
THEOREM QuotesAreTheHubs == Spec => []AnswerIsTheHubs
<1>1. HubInv => AnswerIsTheHubs
    BY DEF HubInv
<1> QED BY <1>1, HubInvariant, PTL

-----------------------------------------------------------------------------
(* Types.                                                                  *)

LEMMA ErrorIsMessage == IsMessage(Error) /\ IsMessage(Success)
BY DEF IsMessage, Error, Success, Message, MessageTypes

LEMMA ResponsesAreMessages ==
    ASSUME NEW type, NEW b, NEW m \in Responses(type, b)
    PROVE  IsMessage(m)
<1> USE ErrorIsMessage
<1>1. ASSUME NEW n, NEW body, n \in MessageTypes PROVE IsMessage(Message(n, body))
    BY <1>1 DEF IsMessage, Message
<1>2. CASE type = "SignedState" /\ m \in HandleSendSignedState(b)
    BY <1>2 DEF HandleSendSignedState
<1>3. CASE type = "GetChannelInfo" /\ m \in GetChannelInfo(b.id)
  <2>1. m = Error \/ \E body : m = Message("ChannelInfo", body)
      BY <1>3 DEF GetChannelInfo, OrError
  <2> QED BY <1>1, <2>1 DEF MessageTypes
<1>4. CASE type = "GetSignedState" /\ m \in GetSignedState(b.id)
  <2>1. m = Error \/ \E body : m = Message("SignedState", body)
      BY <1>4 DEF GetSignedState, OrError
  <2> QED BY <1>1, <2>1 DEF MessageTypes
<1>5. CASE type = "GetChains" /\ m = GetChains
    BY <1>1, <1>5 DEF GetChains, MessageTypes
<1>6. CASE type = "GetAssets" /\ m = GetAssets(b.chainIDs)
    BY <1>1, <1>6 DEF GetAssets, MessageTypes
<1>7. CASE type = "GetDecimals" /\ m \in GetDecimalsResponses(b.asset)
  <2>1. m = Error \/ \E body : m = Message("GetDecimalsResponse", body)
      BY <1>7 DEF GetDecimalsResponses
  <2> QED BY <1>1, <2>1 DEF MessageTypes
<1>8. CASE type = "GetTimeout" /\ m \in GetTimeout(b.timeoutType)
  <2>1. m = Error \/ \E body : m = Message("GetTimeoutResponse", body)
      BY <1>8 DEF GetTimeout
  <2> QED BY <1>1, <2>1 DEF MessageTypes
<1>9. CASE type = "GetFunds" /\ m \in GetFunds
    BY <1>1, <1>9 DEF GetFunds, MessageTypes
<1>10. CASE type = "GetBalance" /\ m \in GetBalance
    BY <1>1, <1>10 DEF GetBalance, MessageTypes
<1>11. CASE m = Success
    BY <1>11
<1> QED BY <1>2, <1>3, <1>4, <1>5, <1>6, <1>7, <1>8, <1>9, <1>10, <1>11
        DEF Responses

(* What Read makes of a frame it can read.                                 *)
LEMMA FramesAreMessages ==
    ASSUME NEW frame \in Frames, Unmarshal(frame) # Bad
    PROVE  IsMessage(Unmarshal(frame)) /\ Unmarshal(frame) # None
<1>1. /\ frame.type \in MessageTypes
      /\ \E body : Unmarshal(frame) = Message(frame.type, body)
  <2>1. CASE frame.type \in Envelopes
      BY <2>1 DEF Unmarshal, IfGood, Envelopes, MessageTypes
  <2>2. CASE frame.type \notin Envelopes
      BY <2>2 DEF Unmarshal, UnmarshalObject, IfGood
  <2> QED BY <2>1, <2>2
<1> QED BY <1>1, NoneAssumption DEF IsMessage, Message

LEMMA PanicsAreBoolean ==
    ASSUME NEW x
    PROVE  WritePanics(x) \in BOOLEAN /\ ReadPanics(x) \in BOOLEAN
BY DEF WritePanics, ReadPanics

Types(c) ==
    /\ call[c].stage \in Stages
    /\ call[c].msg = None <=> At(c, "new")
    /\ call[c].msg # None => IsMessage(call[c].msg)
    /\ reply[c] # None => At(c, "done") /\ IsMessage(reply[c])
    /\ helper[c] # <<>> /\ helper[c] # <<Asking>> =>
          \A i \in DOMAIN helper[c] : helper[c][i].type \in MessageTypes \cup {"nil"}

(* The types of all variables but the order book.                          *)
Typed ==
    /\ open \in BOOLEAN /\ hubOpen \in BOOLEAN /\ panicked \in BOOLEAN
    /\ \A c \in Calls : Types(c)
    /\ signed \subseteq Calls

(* A step of c leaves the types of the others.                             *)
LEMMA TypesElsewhere ==
    ASSUME Typed, TxInv', {open', hubOpen', panicked'} \subseteq BOOLEAN, NEW c \in Calls, Types(c)',
           \A d \in Calls : d # c => /\ call'[d] = call[d] /\ reply'[d] = reply[d]
                                     /\ helper'[d] = helper[d],
           signed' \subseteq Calls
    PROVE  Typed'
<1>1. \A d \in Calls : Types(d)'
    BY DEF Typed, Types, At
<1> QED BY <1>1 DEF Typed, Types, TxInv, Functions, Signing

LEMMA TypesReply ==
    ASSUME Typed, TxInv, TxInv', NEW c \in Calls, NEW m, IsMessage(m), Reply(c, m),
           ~At(c, "new"), UNCHANGED <<open, hubOpen, signed>>,
           \A d \in Calls : d # c => helper'[d] = helper[d],
           helper'[c] # <<>> /\ helper'[c] # <<Asking>> =>
               \A i \in DOMAIN helper'[c] : helper'[c][i].type \in MessageTypes \cup {"nil"}
    PROVE  Typed'
<1>1. PICK w \in {m, None} : reply' = [d \in Calls |-> IF d = c THEN w ELSE reply[d]]
    BY ReplyEffect DEF TxInv
<1>2. call' = [d \in Calls |-> [stage |-> IF d = c THEN "done" ELSE call[d].stage,
                                msg |-> call[d].msg]]
    BY ReplyEffect, GotoEffect DEF TxInv
<1>3. \A d \in Calls : d # c => call'[d] = call[d] /\ reply'[d] = reply[d]
    BY <1>1, <1>2 DEF TxInv, Functions
<1>4. call'[c].stage = "done" /\ call'[c].msg = call[c].msg /\ reply'[c] = w
    BY <1>1, <1>2
<1>5. Types(c)'
    BY <1>4 DEF Types, Typed, Stages, At
<1>6. {open', hubOpen', panicked'} \subseteq BOOLEAN /\ signed' \subseteq Calls
  <2>1. panicked' \in BOOLEAN
      BY PanicsAreBoolean DEF Reply
  <2> QED BY <2>1 DEF Typed
<1> QED BY <1>3, <1>5, <1>6, TypesElsewhere

LEMMA TypesGoOn ==
    ASSUME Typed, TxInv, TxInv', NEW c \in Calls,
           NEW s \in Stages \ {"new"}, Goto(c, s), call[c].stage \notin {"new", "done"},
           UNCHANGED <<open, hubOpen, panicked, reply>>, signed' \subseteq Calls,
           \A d \in Calls : d # c => helper'[d] = helper[d],
           helper'[c] \in {helper[c], <<Asking>>, OnError}
    PROVE  Typed'
<1>1. call' = [d \in Calls |-> [stage |-> IF d = c THEN s ELSE call[d].stage,
                                msg |-> call[d].msg]]
    BY GotoEffect DEF TxInv
<1>2. \A d \in Calls : d # c => call'[d] = call[d]
    BY <1>1 DEF TxInv, Functions
<1>3. call'[c].stage = s /\ call'[c].msg = call[c].msg
    BY <1>1
<1>4. \A i \in DOMAIN OnError : OnError[i].type \in MessageTypes \cup {"nil"}
    BY DEF OnError, Error, Nil, Message, MessageTypes
<1>5. Types(c)'
    BY <1>3, <1>4 DEF Types, Typed, At
<1>6. {open', hubOpen', panicked'} \subseteq BOOLEAN
    BY DEF Typed
<1> QED BY <1>2, <1>5, <1>6, TypesElsewhere

LEMMA TypesHandler ==
    ASSUME Typed, TxInv, TxInv', HubInv, NEW c \in Calls, Handler(c)
    PROVE  Typed'
<1> USE ErrorIsMessage DEF queryVars, txVars
<1>0. \A d \in Calls : helper[d] # <<>> /\ helper[d] # <<Asking>> =>
          \A i \in DOMAIN helper[d] : helper[d][i].type \in MessageTypes \cup {"nil"}
    BY DEF Typed, Types
<1>s. signed \subseteq Calls
    BY DEF Typed
<1>1. CASE HandleRequest(c)
  <2>1. PICK m \in Responses(Type(c), Body(c)) : Reply(c, m)
      BY <1>1 DEF HandleRequest
  <2>2. IsMessage(m)
      BY ResponsesAreMessages
  <2> QED BY <1>0, <1>1, <2>1, <2>2, TypesReply DEF HandleRequest, At
<1>2. CASE AskHub(c)
  <2>1. CASE Body(c).hub \notin Hubs
      BY <1>0, <1>2, <2>1, TypesReply DEF AskHub, At
  <2>2. CASE Body(c).hub \in Hubs
    <3> DEFINE h == IF hubOpen THEN <<Asking>> ELSE OnError
    <3>1. helper' = [d \in Calls |-> IF d = c THEN h ELSE helper[d]]
        BY <1>2, <2>2 DEF AskHub, TxInv, Functions
    <3>2. h \in {helper[c], <<Asking>>, OnError}
        OBVIOUS
    <3>3. helper'[c] \in {helper[c], <<Asking>>, OnError}
        BY <3>1, <3>2
    <3>4. \A d \in Calls : d # c => helper'[d] = helper[d]
        BY <3>1
    <3> QED BY <1>s, <1>2, <2>2, <3>3, <3>4, TypesGoOn DEF AskHub, At, Stages
  <2> QED BY <2>1, <2>2
<1>3. CASE ReceiveQuote(c)
  <2> DEFINE m == Head(helper[c])
  <2>1. Answers(c) /\ At(c, "waiting") /\ Reply(c, m) /\ UNCHANGED <<open, hubOpen, signed>>
      BY <1>3 DEF ReceiveQuote, HubInv, Asked
  <2>2. helper' = [d \in Calls |-> IF d = c THEN Tail(helper[c]) ELSE helper[d]]
      BY <1>3 DEF ReceiveQuote, TxInv, Functions
  <2>3. IsMessage(m)
    <3>1. m = Error \/ m.type = QuoteType(Type(c))
        BY <2>1 DEF Answers, OnError, OnWrongType
    <3>2. QuoteType(Type(c)) \in MessageTypes
        BY DEF QuoteType, MessageTypes
    <3> QED BY <3>1, <3>2 DEF IsMessage
  <2>4. \A i \in DOMAIN Tail(helper[c]) : Tail(helper[c])[i].type \in MessageTypes \cup {"nil"}
    <3>1. Error.type \in MessageTypes /\ Nil.type = "nil"
        BY DEF Error, Nil, Message, MessageTypes
    <3>2. CASE helper[c] = OnError
      <4>1. Tail(helper[c]) = <<Error, Nil>>
          BY <3>2 DEF OnError
      <4>2. \A i \in DOMAIN <<Error, Nil>> : <<Error, Nil>>[i] \in {Error, Nil}
          OBVIOUS
      <4> QED BY <3>1, <4>1, <4>2
    <3>3. CASE helper[c] = OnWrongType
      <4>1. Tail(helper[c]) = <<Nil>>
          BY <3>3 DEF OnWrongType
      <4>2. \A i \in DOMAIN <<Nil>> : <<Nil>>[i] = Nil
          OBVIOUS
      <4> QED BY <3>1, <4>1, <4>2
    <3>4. CASE helper[c] = <<hubSaid[c]>>
      <4>1. Tail(helper[c]) = <<>>
          BY <3>4
      <4> QED BY <4>1
    <3> QED BY <2>1, <3>2, <3>3, <3>4 DEF Answers
  <2>5. /\ \A d \in Calls : d # c => helper'[d] = helper[d]
        /\ \A i \in DOMAIN helper'[c] : helper'[c][i].type \in MessageTypes \cup {"nil"}
      BY <2>2, <2>4
  <2> HIDE DEF m
  <2> QED BY <2>1, <2>3, <2>5, TypesReply DEF At
<1>4. CASE QuoteTimesOut(c)
    BY <1>0, <1>4, TypesReply DEF QuoteTimesOut, At
<1>5. CASE ChannelAction(c)
  <2>1. CASE Refused(Type(c), Body(c))
      BY <1>0, <1>5, <2>1, TypesReply DEF ChannelAction, At
  <2>2. CASE ~Refused(Type(c), Body(c)) /\ ~ActionPanics(Type(c), Body(c))
    <3>1. PICK s \in {"acting", "sending"} : Goto(c, s)
        BY <1>5, <2>2 DEF ChannelAction
    <3> QED BY <1>s, <1>5, <2>2, <3>1, TypesGoOn DEF ChannelAction, At, Stages
  <2>3. CASE ~Refused(Type(c), Body(c)) /\ ActionPanics(Type(c), Body(c))
    <3>1. panicked' = TRUE /\ UNCHANGED <<open, hubOpen, call, reply, queryVars, txVars>>
        BY <1>5, <2>3 DEF ChannelAction
    <3> QED BY <3>1 DEF Typed, Types, At
  <2> QED BY <2>1, <2>2, <2>3
<1>6. CASE ActionEnds(c)
    BY <1>0, <1>6, TypesReply DEF ActionEnds, At
<1>7. CASE SendSolTx(c)
  <2> DEFINE s == IF open THEN "signing" ELSE IF asked[c] = 1 THEN "unsigned" ELSE "sending"
  <2>1. Goto(c, s)
    <3>1. CASE open
        BY <1>7, <3>1 DEF SendSolTx
    <3>2. CASE ~open
        BY <1>7, <3>2 DEF SendSolTx, Failed
    <3> QED BY <3>1, <3>2
  <2>2. s \in Stages \ {"new"}
      BY DEF Stages
  <2> QED BY <1>s, <1>7, <2>1, <2>2, TypesGoOn DEF SendSolTx, At
<1>8. CASE ReportUnsigned(c)
    BY <1>0, <1>8, TypesReply DEF ReportUnsigned, At
<1>9. CASE HandleOrderBookMessage(c)
    BY <1>0, <1>9, BookEffect, TypesReply DEF At
<1> QED BY <1>1, <1>2, <1>3, <1>4, <1>5, <1>6, <1>7, <1>8, <1>9 DEF Handler

LEMMA TypesEnvironment ==
    ASSUME Typed, TxInv, TxInv', HubInv, NEW c \in Calls
    PROVE  /\ \A frame \in Frames : Read(c, frame) => Typed'
           /\ \A m \in Quotes \cup {Error, Success} : HubAnswers(c, m) => Typed'
           /\ BrowserRefuses(c) => Typed'
           /\ \A arrives \in BOOLEAN : BrowserSigns(c, arrives) => Typed'
<1> USE DEF queryVars, txVars
<1>s. signed \subseteq Calls
    BY DEF Typed
<1>1. ASSUME NEW frame \in Frames, Read(c, frame) PROVE Typed'
  <2>1. CASE ReadPanics(frame) \/ Unmarshal(frame) = Bad
      BY <1>1, <2>1, PanicsAreBoolean DEF Read, Typed, Types, At
  <2>2. CASE ~ReadPanics(frame) /\ Unmarshal(frame) # Bad
    <3>1. \A d \in Calls : d # c => call'[d] = call[d]
        BY <1>1, <2>2 DEF Read, TxInv, Functions
    <3>2. call'[c].stage = "taken" /\ call'[c].msg = Unmarshal(frame)
        BY <1>1, <2>2 DEF Read, TxInv, Functions
    <3>3. At(c, "new") /\ UNCHANGED <<open, hubOpen, reply, helper, signed>>
        BY <1>1, <2>2 DEF Read
    <3>4. Types(c)'
        BY <2>2, <3>2, <3>3, FramesAreMessages DEF Types, Typed, At, Stages
    <3>5. {open', hubOpen', panicked'} \subseteq BOOLEAN
        BY <1>1, <3>3, PanicsAreBoolean DEF Read, Typed
    <3> QED BY <1>s, <3>1, <3>3, <3>4, <3>5, TypesElsewhere
  <2> QED BY <2>1, <2>2
<1>2. ASSUME NEW m \in Quotes \cup {Error, Success}, HubAnswers(c, m) PROVE Typed'
  <2> DEFINE h == IF m.type = QuoteType(Type(c)) THEN <<m>> ELSE OnWrongType
  <2>1. UNCHANGED <<open, hubOpen, panicked, call, reply, signed>>
      BY <1>2 DEF HubAnswers
  <2>2. helper' = [d \in Calls |-> IF d = c THEN h ELSE helper[d]]
      BY <1>2 DEF HubAnswers, TxInv, Functions
  <2>3. m.type \in MessageTypes
      BY ErrorIsMessage, QuotesAssumption DEF IsMessage, MessageTypes
  <2>4. \A i \in DOMAIN h : h[i].type \in MessageTypes \cup {"nil"}
    <3>1. CASE m.type = QuoteType(Type(c))
        BY <2>3, <3>1
    <3>2. CASE m.type # QuoteType(Type(c))
      <4>1. h = <<Error, Nil>>
          BY <3>2 DEF OnWrongType
      <4>2. Error.type \in MessageTypes /\ Nil.type = "nil"
          BY DEF Error, Nil, Message, MessageTypes
      <4> HIDE DEF h
      <4> QED BY <4>1, <4>2
    <3> QED BY <3>1, <3>2
  <2> HIDE DEF h
  <2>5. Types(c)'
      BY <2>1, <2>2, <2>4 DEF Types, Typed, At
  <2>6. {open', hubOpen', panicked'} \subseteq BOOLEAN
      BY <2>1 DEF Typed
  <2> QED BY <1>s, <2>1, <2>2, <2>5, <2>6, TypesElsewhere
<1>3. ASSUME BrowserRefuses(c) PROVE Typed'
  <2> DEFINE s == IF asked[c] = 1 THEN "sending" ELSE "unsigned"
  <2>1. Goto(c, s) /\ s \in Stages \ {"new"}
      BY <1>3 DEF BrowserRefuses, Stages
  <2> QED BY <1>s, <1>3, <2>1, TypesGoOn DEF BrowserRefuses, At
<1>4. ASSUME NEW arrives \in BOOLEAN, BrowserSigns(c, arrives) PROVE Typed'
  <2>1. signed' \subseteq Calls /\ "acting" \in Stages \ {"new"}
      BY <1>s, <1>4 DEF BrowserSigns, Stages
  <2> QED BY <1>4, <2>1, TypesGoOn DEF BrowserSigns, At
<1> QED BY <1>1, <1>2, <1>3, <1>4

LEMMA TypesInvariant == Spec => []Typed
<1>1. Init => Typed
  <2> SUFFICES ASSUME Init PROVE Typed
      OBVIOUS
  <2>1. ASSUME NEW c \in Calls PROVE Types(c)
      BY DEF Init, Types, Stages, At
  <2> QED BY <2>1 DEF Init, Typed
<1>2. Typed /\ TxInv /\ TxInv' /\ HubInv /\ [Next]_vars => Typed'
  <2> SUFFICES ASSUME Typed, TxInv, TxInv', HubInv, [Next]_vars PROVE Typed'
      OBVIOUS
  <2>1. CASE UNCHANGED vars
      BY <2>1 DEF vars, queryVars, txVars, Typed, Types, At
  <2>2. CASE LoseConnection \/ LoseHub \/ OthersTrade
      BY <2>2 DEF LoseConnection, LoseHub, OthersTrade, queryVars, txVars, Typed, Types, At
  <2> QED BY <2>1, <2>2, TypesHandler, TypesEnvironment DEF Next, Environment
<1> QED BY <1>1, <1>2, SigningInvariant, HubInvariant, PTL DEF Spec

-----------------------------------------------------------------------------
(* The maps of chains and assets.                                          *)
(* A set of positions has a last one.                                    *)
LEMMA LastExists ==
    ASSUME NEW n \in Nat, NEW I \in SUBSET (1 .. n), I # {}
    PROVE  \E i \in I : \A k \in I : k <= i
<1> DEFINE Above(i) == {k \in 1 .. n : i < k}
           F == {Above(i) : i \in I}
<1>1. F # {} /\ F \subseteq FiniteSubsetsOf(1 .. n)
  <2>1. IsFiniteSet(1 .. n)
      BY FS_Interval
  <2>2. \A i \in I : Above(i) \in SUBSET (1 .. n) /\ IsFiniteSet(Above(i))
      BY <2>1, FS_Subset
  <2> QED BY <2>2 DEF FiniteSubsetsOf
<1>2. PICK x \in F : \A y \in F : <<y, x>> \notin StrictSubsetOrdering(1 .. n)
  <2> HIDE DEF F
  <2> QED BY <1>1, WFMin, FS_StrictSubsetOrderingWellFounded
<1>3. PICK i \in I : x = Above(i)
    OBVIOUS
<1>4. ASSUME NEW k \in I, i < k PROVE FALSE
  <2>1. Above(k) \subseteq Above(i) /\ k \in Above(i) /\ k \notin Above(k)
      BY <1>4
  <2>2. <<Above(k), Above(i)>> \in StrictSubsetOrdering(1 .. n)
      BY <2>1 DEF StrictSubsetOrdering
  <2> QED BY <1>2, <1>3, <2>2
<1> QED BY <1>4

(* A map made from a list has, for every key, a row with that key.         *)
LEMMA ByKeyRow ==
    ASSUME NEW s, NEW n \in Nat, DOMAIN s = 1 .. n, NEW field,
           NEW k \in DOMAIN ByKey(s, field)
    PROVE  \E i \in 1 .. n : ByKey(s, field)[k] = s[i] /\ s[i][field] = k
<1> DEFINE I == {i \in 1 .. n : s[i][field] = k}
           Last(i) == s[i][field] = k /\ \A m \in 1 .. n : s[m][field] = k => m <= i
<1>1. k \in {s[i][field] : i \in 1 .. n}
    BY DEF ByKey
<1>2. PICK i \in I : \A m \in I : m <= i
    BY <1>1, LastExists
<1>3. \E j \in 1 .. n : Last(j)
    BY <1>2
<1>4. ByKey(s, field)[k] = s[CHOOSE j \in 1 .. n : Last(j)]
    BY <1>1 DEF ByKey
<1>5. PICK j \in 1 .. n : Last(j) /\ ByKey(s, field)[k] = s[j]
  <2> HIDE DEF Last
  <2> QED BY <1>3, <1>4
<1> QED BY <1>5

(* Every Ethereum asset is listed with the ID of the chain it is under.    *)
LEMMA EthereumRows ==
    ASSUME NEW id \in DOMAIN EthChains
    PROVE  /\ EthChains[id].chainID = id /\ IsNumber(id)
           /\ \A ca \in Values(EthChains[id].assets) : ca.chainID = id /\ IsConfig(ca)
<1> DEFINE n == Len(EthFile)
           rows(i) == [a \in DOMAIN EthFile[i].assets |->
                          [EthFile[i].assets[a] EXCEPT !.chainID = EthFile[i].chainID]]
           parsed == [i \in 1 .. n |-> [EthFile[i] EXCEPT !.assets = rows(i)]]
           maps   == [i \in 1 .. n |-> [parsed[i] EXCEPT !.assets = ByKey(rows(i), "code")]]
<1>1. /\ n \in Nat /\ DOMAIN EthFile = 1 .. n
      /\ \A i \in 1 .. n :
            /\ Fields(EthFile[i], {"chainID", "assets"}) /\ IsList(EthFile[i].assets)
            /\ \A a \in DOMAIN EthFile[i].assets :
                  /\ Fields(EthFile[i].assets[a], {"code", "type", "assetHolder", "chainID"})
                  /\ EthFile[i].assets[a].type \in {0, 1}
            /\ IsNumber(EthFile[i].chainID)
    BY FileAssumption DEF IsFile, IsList
<1>2. ParseEthereumChainsConfig(EthFile) = parsed
    BY <1>1, ConfigAssumption DEF ParseEthereumChainsConfig, Fields
<1>3. \A i \in 1 .. n : parsed[i].assets = rows(i) /\ Fields(parsed[i], {"chainID", "assets"})
                        /\ parsed[i].chainID = EthFile[i].chainID
    BY <1>1 DEF Fields, IsFcn
<1>4. ChainMap(parsed) = ByKey(maps, "chainID")
  <2> HIDE DEF rows
  <2>1. DOMAIN parsed = 1 .. n
      OBVIOUS
  <2> HIDE DEF parsed
  <2> QED BY <1>3, <2>1 DEF ChainMap, Fields
<1>5. \A i \in 1 .. n : maps[i].chainID = EthFile[i].chainID
                        /\ maps[i].assets = ByKey(rows(i), "code")
  <2> HIDE DEF rows, parsed
  <2> QED BY <1>3 DEF Fields, IsFcn
<1>6. EthChains = ByKey(maps, "chainID")
    BY <1>2, <1>4 DEF EthChains
<1>7. PICK i \in 1 .. n : EthChains[id] = maps[i] /\ maps[i]["chainID"] = id
  <2>1. DOMAIN maps = 1 .. n
      OBVIOUS
  <2> HIDE DEF maps
  <2> QED BY <1>1, <1>6, <2>1, ByKeyRow
<1>8. ASSUME NEW k \in DOMAIN ByKey(rows(i), "code")
      PROVE  LET ca == ByKey(rows(i), "code")[k]
             IN  ca.chainID = EthFile[i].chainID /\ IsConfig(ca)
  <2> DEFINE m == Len(EthFile[i].assets)
  <2>1. m \in Nat /\ DOMAIN EthFile[i].assets = 1 .. m /\ DOMAIN rows(i) = 1 .. m
      BY <1>1 DEF IsList
  <2>2. PICK a \in 1 .. m : ByKey(rows(i), "code")[k] = rows(i)[a]
    <3> HIDE DEF rows, m
    <3> QED BY <2>1, ByKeyRow
  <2>3. rows(i)[a] = [EthFile[i].assets[a] EXCEPT !.chainID = EthFile[i].chainID]
      BY <2>1
  <2> DEFINE r == EthFile[i].assets[a]
  <2>4. /\ Fields(r, {"type", "chainID"}) /\ r.type \in {0, 1}
        /\ EthFile[i].chainID # Bad
      BY <1>1, <2>1 DEF Fields, IsNumber
  <2>5. rows(i)[a] = [r EXCEPT !.chainID = EthFile[i].chainID]
      BY <2>3
  <2> HIDE DEF rows, m, r
  <2>6. rows(i)[a].chainID = EthFile[i].chainID /\ IsConfig(rows(i)[a])
      BY <2>4, <2>5 DEF IsConfig, Fields, IsFcn
  <2> QED BY <2>2, <2>6
<1> HIDE DEF maps, rows, parsed
<1> QED BY <1>1, <1>5, <1>7, <1>8 DEF Values

(* Every Solana asset is found under its mint.                             *)
LEMMA SolanaRows ==
    ASSUME NEW mint \in DOMAIN SolChains[0].assets
    PROVE  /\ SolChains[0].assets[mint].mint = mint
           /\ IsConfig(SolChains[0].assets[mint])
           /\ SolChains[0].assets[mint].chainID # Null
<1> DEFINE n == Len(SolFile)
           m == Len(SolFile[1].assets)
<1>1. /\ n \in Nat /\ DOMAIN SolFile = 1 .. n
      /\ SolChains = AssetMap(SolFile) /\ 0 \in DOMAIN SolChains
    BY FileAssumption, ConfigAssumption
       DEF IsFile, IsList, SolChains, ParseSolanaChainsConfig
<1>2. 1 \in 1 .. n
    BY <1>1 DEF AssetMap
<1>3. /\ Fields(SolFile[1], {"chainID", "assets"})
      /\ m \in Nat /\ DOMAIN SolFile[1].assets = 1 .. m
      /\ \A a \in 1 .. m :
            /\ Fields(SolFile[1].assets[a], {"code", "type", "mint", "chainID"})
            /\ SolFile[1].assets[a].type \in {0, 1}
            /\ IsNumber(SolFile[1].assets[a].chainID)
    BY <1>1, <1>2, FileAssumption DEF IsFile, IsList
<1>4. SolChains[0].assets = ByKey(SolFile[1].assets, "mint")
    BY <1>1, <1>2, <1>3 DEF AssetMap, Fields, IsFcn
<1>5. PICK a \in 1 .. m : /\ SolChains[0].assets[mint] = SolFile[1].assets[a]
                          /\ SolFile[1].assets[a]["mint"] = mint
  <2> HIDE DEF m
  <2> QED BY <1>3, <1>4, ByKeyRow
<1> QED BY <1>3, <1>5 DEF IsConfig, Fields, IsNumber

LEMMA SolanaChainIDs ==
    ASSUME NEW k \in DOMAIN SolChains
    PROVE  IsNumber(SolChains[k].chainID)
<1>1. /\ DOMAIN SolFile = 1 .. Len(SolFile) /\ Len(SolFile) \in Nat
      /\ SolChains = AssetMap(SolFile)
    BY FileAssumption, ConfigAssumption
       DEF IsFile, IsList, SolChains, ParseSolanaChainsConfig
<1>2. k + 1 \in DOMAIN SolFile
      /\ SolChains[k] = [SolFile[k + 1] EXCEPT !.assets = ByKey(@, "mint")]
    BY <1>1 DEF AssetMap
<1>3. Fields(SolFile[k + 1], {"chainID", "assets"}) /\ IsNumber(SolFile[k + 1].chainID)
    BY <1>2, FileAssumption DEF IsFile
<1>4. SolChains[k].chainID = SolFile[k + 1].chainID
    BY <1>2, <1>3 DEF Fields, IsFcn
<1> QED BY <1>3, <1>4

-----------------------------------------------------------------------------
(* Responses.                                                              *)

(* What a handler writes: a message with a body of its type that lacks     *)
(* nothing, and the assets only as GetAssets lists them.                   *)
IsReply(m) ==
    /\ IsPlain(m) /\ Whole(m.type, m.body)
    /\ m.type = "GetAssetsResponse" => \E ids : m = GetAssets(ids)

LEMMA ReplyIsWhole ==
    ASSUME NEW m, IsReply(m)
    PROVE  WellFormed(m) /\ IsWhole(m)
<1>1. m.type \notin Envelopes /\ Carried(m) = m
    BY DEF IsReply, IsPlain, Carried
<1> QED BY <1>1 DEF IsReply, IsPlain, WellFormed, IsWhole, WritePanics, Whole

(* The types whose bodies are written as they are.                         *)
PlainTypes == MessageTypes \ (Special \cup Envelopes)

LEMMA PlainReply ==
    ASSUME NEW type \in PlainTypes, NEW b, b # Bad
    PROVE  IsReply(Message(type, b))
<1>1. IsBody(type, b)
    BY DEF IsBody, PlainTypes, Special
<1>2. Whole(type, b)
    BY DEF Whole, Orders, ChainIDs, PlainTypes, Special
<1>3. type # "GetAssetsResponse" /\ type \in MessageTypes \ Envelopes
    BY DEF PlainTypes, Special
<1> QED BY <1>1, <1>2, <1>3 DEF IsReply, IsPlain, Message

LEMMA PlainBodies ==
    ASSUME BadIsNoValue
    PROVE  <<>> # Bad /\ IsReply(Error) /\ IsReply(Success)
<1>1. IsFcn(<<>>) /\ IsFcn([err |-> "error"])
    BY DEF IsFcn
<1>2. <<>> # Bad /\ [err |-> "error"] # Bad
    BY <1>1, FcnIsGood
<1>3. "Error" \in PlainTypes /\ "Success" \in PlainTypes
    BY DEF PlainTypes, Special, Envelopes, MessageTypes, WithState, Signed
<1> QED BY <1>2, <1>3, PlainReply DEF Error, Success

LEMMA GetChainsReply == IsReply(GetChains)
<1> DEFINE ids == {c.chainID : c \in Values(EthChains) \cup Values(SolChains)}
           b   == [chains |-> ids]
<1>1. Bad \notin ids /\ Null \notin ids
    BY EthereumRows, SolanaChainIDs DEF Values, IsNumber
<1>2. GetChains = Message("GetChainsResponse", b)
    BY DEF GetChains
<1> HIDE DEF ids
<1>3. IsBody("GetChainsResponse", b)
    BY <1>1 DEF IsBody, WithState, Signed
<1>4. Whole("GetChainsResponse", b)
    BY <1>1 DEF Whole, Orders, ChainIDs
<1>5. "GetChainsResponse" \in MessageTypes \ Envelopes
    BY DEF MessageTypes, Envelopes
<1> HIDE DEF b
<1> QED BY <1>2, <1>3, <1>4, <1>5 DEF IsReply, IsPlain, Message

LEMMA GetAssetsReply ==
    ASSUME NEW ids
    PROVE  IsReply(GetAssets(ids))
<1> DEFINE eth == UNION {Values(EthChains[id].assets) : id \in Values(ids) \cap DOMAIN EthChains}
           sol == IF ids = <<>> THEN {} ELSE Values(SolChains[0].assets)
           b   == [ethereumAssets |-> eth, solanaAssets |-> sol]
<1>1. \A c \in eth : IsConfig(c) /\ c.chainID # Null
    BY EthereumRows DEF IsNumber
<1>2. \A c \in sol : IsConfig(c) /\ c.chainID # Null
    BY SolanaRows DEF Values
<1>3. GetAssets(ids) = Message("GetAssetsResponse", b)
    BY DEF GetAssets
<1> HIDE DEF eth, sol
<1>4. IsBody("GetAssetsResponse", b)
    BY <1>1, <1>2 DEF IsBody, WithState, Signed
<1>5. Whole("GetAssetsResponse", b)
    BY <1>1, <1>2 DEF Whole, Orders, ChainIDs
<1>6. "GetAssetsResponse" \in MessageTypes \ Envelopes
    BY DEF MessageTypes, Envelopes
<1> HIDE DEF b
<1> QED BY <1>3, <1>4, <1>5, <1>6 DEF IsReply, IsPlain, Message

(* A channel's state, as a browser sees it and as it was signed.           *)
LEMMA ChannelInfoReply ==
    ASSUME BadIsNoValue, NEW id, NEW m \in GetChannelInfo(id) \cup GetSignedState(id)
    PROVE  IsReply(m)
<1>0. \A type \in {"SignedState", "ChannelInfo"} : \A b :
          Whole(type, b) /\ type \in MessageTypes \ Envelopes
    BY DEF Whole, Orders, ChainIDs, MessageTypes, Envelopes
<1>1. CASE m = Error
    BY <1>1, PlainBodies
<1>2. ASSUME NEW ch \in Channels, m = Message("SignedState", ch.signed) PROVE IsReply(m)
  <2>1. IsBody("SignedState", ch.signed)
      BY ChannelsAssumption DEF IsBody, WithState, Signed
  <2> QED BY <1>0, <1>2, <2>1 DEF IsReply, IsPlain, Message
<1>3. ASSUME NEW ch \in Channels, NEW peer,
             m = Message("ChannelInfo",
                     [peer  |-> peer,
                      state |-> LET s == ch.signed.state
                                IN  NewChannelState(s.assets, s.backends,
                                        MakeBals(s.balances, ch.idx, 1 - ch.idx), s.isFinal)])
      PROVE  IsReply(m)
  <2> DEFINE s == ch.signed.state
             bals == MakeBals(s.balances, ch.idx, 1 - ch.idx)
             state == NewChannelState(s.assets, s.backends, bals, s.isFinal)
             b == [peer |-> peer, state |-> state]
  <2>1. AreNumbers(bals.my) /\ AreNumbers(bals.peer)
    <3>1. ch.idx \in Parts /\ 1 - ch.idx \in Parts
        BY ChannelsAssumption DEF Parts
    <3>2. \A i \in DOMAIN s.balances : \A p \in Parts : IsNumber(s.balances[i][p])
        BY ChannelsAssumption DEF IsSignedState, IsState, AreNumbers
    <3> HIDE DEF s
    <3>3. bals = [my   |-> [a \in DOMAIN s.balances |-> s.balances[a][ch.idx]],
                  peer |-> [a \in DOMAIN s.balances |-> s.balances[a][1 - ch.idx]]]
        BY DEF MakeBals
    <3> QED BY <3>1, <3>2, <3>3 DEF AreNumbers, IsFcn
  <2>2. \A i \in DOMAIN s.assets :
            s.assets[i].backend # SolanaIndex => IsNumber(s.assets[i].id.chainID)
      BY ChannelsAssumption
  <2> HIDE DEF s, bals
  <2>3. IsChannelState(state)
    <3>1. LET as == MakeAssetsGPAsAssets(s.assets)
          IN  IsFcn(as) /\ \A i \in DOMAIN as : IsAsset(as[i])
        BY <2>2 DEF MakeAssetsGPAsAssets, MakeSolanaAssets, NewEthereumAsset, IsAsset, IsFcn
    <3> QED BY <2>1, <3>1 DEF NewChannelState, IsChannelState
  <2> HIDE DEF state
  <2>4. Fields(b, {"state"}) /\ b.state = state
      BY DEF Fields, IsFcn
  <2>5. m = Message("ChannelInfo", b)
      BY <1>3 DEF state, bals, s
  <2> HIDE DEF b
  <2>6. IsBody("ChannelInfo", b)
      BY <2>3, <2>4 DEF IsBody, WithState, Signed
  <2> QED BY <1>0, <2>5, <2>6 DEF IsReply, IsPlain, Message
<1> QED BY <1>1, <1>2, <1>3 DEF GetChannelInfo, GetSignedState, OrError, ChannelsWith

(* Every response of HandleRequest's switch is a message of its type.      *)
LEMMA ResponsesAreReplies ==
    ASSUME BadIsNoValue, NEW type, NEW b, NEW m \in Responses(type, b)
    PROVE  IsReply(m)
<1> USE PlainBodies
<1>1. ASSUME NEW n \in PlainTypes, NEW body, IsFcn(body) PROVE IsReply(Message(n, body))
    BY <1>1, FcnIsGood, PlainReply
<1>2. {"GetDecimalsResponse", "GetTimeoutResponse", "GetFundsResponse",
       "GetBalanceResponse"} \subseteq PlainTypes
    BY DEF PlainTypes, Special, Envelopes, MessageTypes, WithState, Signed
<1>3. CASE type = "SignedState" /\ m \in HandleSendSignedState(b)
    BY <1>3 DEF HandleSendSignedState
<1>4. CASE m \in GetChannelInfo(b.id) \cup GetSignedState(b.id)
    BY <1>4, ChannelInfoReply
<1>5. CASE m = GetChains
    BY <1>5, GetChainsReply
<1>6. CASE m = GetAssets(b.chainIDs)
    BY <1>6, GetAssetsReply
<1>7. CASE m \in GetDecimalsResponses(b.asset)
  <2>1. m = Error \/ \E d : m = Message("GetDecimalsResponse", [decimals |-> d])
      BY <1>7 DEF GetDecimalsResponses
  <2>2. \A d : IsFcn([decimals |-> d])
      BY DEF IsFcn
  <2> QED BY <1>1, <1>2, <2>1, <2>2
<1>8. CASE m \in GetTimeout(b.timeoutType)
  <2>1. m = Error \/ \E d : m = Message("GetTimeoutResponse", [timeout |-> d])
      BY <1>8 DEF GetTimeout
  <2>2. \A d : IsFcn([timeout |-> d])
      BY DEF IsFcn
  <2> QED BY <1>1, <1>2, <2>1, <2>2
<1>9. CASE m \in GetFunds \cup GetBalance
  <2>1. IsFcn([success |-> FALSE]) /\ IsFcn([balance |-> "0"])
      BY DEF IsFcn
  <2> QED BY <1>1, <1>2, <1>9, <2>1 DEF GetFunds, GetBalance
<1>10. CASE m = Success
    BY <1>10
<1> QED BY <1>3, <1>4, <1>5, <1>6, <1>7, <1>8, <1>9, <1>10 DEF Responses

-----------------------------------------------------------------------------
(* What the requests, their responses and the order book hold.             *)

(* What the frame of a request was read as, what will be and what was      *)
(* written in response, and what a channel may hold.                       *)
Content(c) ==
    /\ call[c].msg # None =>
          \E frame \in Frames : /\ ~ReadPanics(frame) /\ Unmarshal(frame) # Bad
                                /\ call[c].msg = Unmarshal(frame)
    /\ At(c, "waiting") /\ helper[c] \notin {<<>>, <<Asking>>} => IsReply(Head(helper[c]))
    /\ reply[c] # None => IsReply(reply[c]) /\ Marshal(reply[c]) # Bad
    /\ call[c].stage \in {"acting", "sending", "signing"} /\ Type(c) = "OpenChannel" =>
          CheckAssets(Body(c).state.assets)

ContentInv == \A c \in Calls : Content(c)

(* No order of the book lacks an asset.                                    *)
BookInv == IsFcn(book) /\ \A o \in Values(book) : IsOrder(o)

DataInv == ContentInv /\ BookInv

(* A frame that is read is a message of its type.                          *)
LEMMA FrameIsMessage ==
    ASSUME BadIsNoValue, NEW frame \in Frames, ~ReadPanics(frame), Unmarshal(frame) # Bad
    PROVE  LET m == Unmarshal(frame)
           IN  /\ IsWhole(m) => Survives(m)
               /\ m.type \notin Envelopes => IsBody(m.type, m.body)
<1>1. frame # Bad
    BY DEF Unmarshal
<1>2. IsFrame(frame)
    BY <1>1, FramesAssumption
<1> DEFINE m == Unmarshal(frame)
<1>3. WellFormed(m) /\ (IsWhole(m) => Survives(m))
    BY <1>1, <1>2, ReadShape, ReadSurvives
<1> HIDE DEF m
<1>4. m.type \notin Envelopes => IsBody(m.type, m.body)
    BY <1>3 DEF WellFormed, IsPlain
<1> QED BY <1>3, <1>4 DEF m

LEMMA MessageBody ==
    ASSUME BadIsNoValue, ContentInv, NEW c \in Calls, ~At(c, "new"), Types(c),
           Type(c) \notin Envelopes
    PROVE  IsBody(Type(c), Body(c))
<1>1. call[c].msg # None
    BY DEF Types
<1> QED BY <1>1, FrameIsMessage DEF ContentInv, Content, Type, Body

(* The lists of one channel are orders with their assets.                  *)
LEMMA SidesAreOrders ==
    ASSUME BookInv, NEW ch, NEW side
    PROVE  AreOrders(SideOf(ch, side))
<1> DEFINE keys == {k \in DOMAIN book : k = Key(ch, side, k[3])}
           ids  == {k[3] : k \in keys}
<1>1. SideOf(ch, side) = [id \in ids |-> book[Key(ch, side, id)]]
    BY DEF SideOf
<1>2. \A id \in ids : Key(ch, side, id) \in DOMAIN book
    OBVIOUS
<1>3. \A id \in ids : IsOrder(book[Key(ch, side, id)])
    BY <1>2 DEF BookInv, Values
<1> HIDE DEF ids
<1> QED BY <1>1, <1>3 DEF AreOrders, IsFcn

(* What the order book's handlers write, and what they make of the book.   *)
LEMMA BookReply ==
    ASSUME BadIsNoValue, BookInv, NEW c \in Calls, HandleOrderBookMessage(c)
    PROVE  \E m : Reply(c, m) /\ IsReply(m)
<1>1. ASSUME NEW type \in {"CreateOrderAck", "CancelOrderAck", "AcceptOrderAck"},
             NEW b, IsFcn(b)
      PROVE  IsReply(Message(type, b))
  <2>1. type \in PlainTypes
      BY DEF PlainTypes, Special, Envelopes, MessageTypes, WithState, Signed
  <2> QED BY <1>1, <2>1, FcnIsGood, PlainReply
<1>2. \A x : IsFcn([accepted |-> x]) /\ IsFcn([success |-> x])
    BY DEF IsFcn
<1>3. CASE CreateOrder(c)
    BY <1>1, <1>2, <1>3 DEF CreateOrder
<1>4. CASE CancelOrder(c)
    BY <1>1, <1>2, <1>4 DEF CancelOrder
<1>5. CASE AcceptOrder(c)
    BY <1>1, <1>2, <1>5 DEF AcceptOrder
<1>6. CASE GetOrderBook(c)
  <2> DEFINE ch   == Body(c).channelID
             bids == SideOf(ch, "bid")
             asks == SideOf(ch, "ask")
             snap == [bids |-> bids, asks |-> asks]
             b    == [snapshot |-> snap, delta |-> Null]
  <2>1. Reply(c, Message("GetOrderBookResponse", b))
      BY <1>6 DEF GetOrderBook
  <2>2. AreOrders(bids) /\ AreOrders(asks)
      BY SidesAreOrders
  <2> HIDE DEF bids, asks
  <2>3. snap.bids = bids /\ snap.asks = asks /\ HasRows(snap, "bids", "asks")
      BY <2>2 DEF HasRows, Fields, IsFcn
  <2>4. \A o \in RowOrders(snap, "bids", "asks") : Null \notin {o.base, o.quote}
      BY <2>2, <2>3 DEF RowOrders, AreOrders, IsOrder, Values
  <2> HIDE DEF snap
  <2>5. b.snapshot = snap /\ b.delta = Null /\ IsBook(b)
      BY <2>3 DEF IsBook, Fields, IsFcn
  <2> HIDE DEF b
  <2>6. IsBody("GetOrderBookResponse", b)
      BY <2>5 DEF IsBody, WithState, Signed
  <2>7. Whole("GetOrderBookResponse", b)
      BY <2>4, <2>5 DEF Whole, Orders, ChainIDs
  <2>8. "GetOrderBookResponse" \in MessageTypes \ Envelopes
      BY DEF MessageTypes, Envelopes
  <2>9. IsReply(Message("GetOrderBookResponse", b))
      BY <2>6, <2>7, <2>8 DEF IsReply, IsPlain, Message
  <2> QED BY <2>1, <2>9
<1> QED BY <1>3, <1>4, <1>5, <1>6 DEF HandleOrderBookMessage

LEMMA BookHandler ==
    ASSUME BadIsNoValue, DataInv, Typed, NEW c \in Calls, HandleOrderBookMessage(c)
    PROVE  BookInv'
<1> USE DEF DataInv, BookInv
<1>0. At(c, "taken") /\ Types(c)
    BY DEF HandleOrderBookMessage, Typed
<1>1. CASE CreateOrder(c)
  <2> DEFINE o == Body(c).order
  <2>1. CASE o.side \notin {"bid", "ask"}
      BY <1>1, <2>1 DEF CreateOrder
  <2>2. CASE o.side \in {"bid", "ask"}
    <3>1. book' = Stored(o)
        BY <1>1, <2>2 DEF CreateOrder
    <3>2. IsBody("CreateOrder", Body(c))
        BY <1>0, <1>1, MessageBody DEF CreateOrder, At, Envelopes
    <3>3. IsOrder(o)
      <4>1. IsOrder(o) \/ o = ZeroOrder
          BY <3>2 DEF IsBody, WithState, Signed
      <4>2. ZeroOrder.side \notin {"bid", "ask"}
          BY DEF ZeroOrder
      <4> QED BY <2>2, <4>1, <4>2
    <3> HIDE DEF o
    <3>4. \A k \in DOMAIN Stored(o) : Stored(o)[k] = o \/ Stored(o)[k] \in Values(book)
        BY DEF Stored, Values
    <3>5. IsFcn(Stored(o))
        BY DEF Stored, IsFcn
    <3> QED BY <3>1, <3>3, <3>4, <3>5 DEF Values
  <2> QED BY <2>1, <2>2
<1>2. CASE CancelOrder(c)
  <2>1. PICK gone : book' = [k \in DOMAIN book \ gone |-> book[k]]
      BY <1>2 DEF CancelOrder
  <2>2. IsFcn(book') /\ \A k \in DOMAIN book' : book'[k] \in Values(book)
      BY <2>1 DEF IsFcn, Values
  <2> QED BY <2>2 DEF Values
<1>3. CASE AcceptOrder(c) \/ GetOrderBook(c)
    BY <1>3 DEF AcceptOrder, GetOrderBook
<1> QED BY <1>1, <1>2, <1>3 DEF HandleOrderBookMessage

(* A step of c leaves what belongs to the others.                          *)
LEMMA ContentElsewhere ==
    ASSUME ContentInv, NEW c \in Calls, Content(c)',
           \A d \in Calls : d # c => /\ call'[d] = call[d] /\ reply'[d] = reply[d]
                                     /\ helper'[d] = helper[d]
    PROVE  ContentInv'
BY DEF ContentInv, Content, At, Type, Body

LEMMA ContentReply ==
    ASSUME ContentInv, TxInv, NEW c \in Calls, NEW m, IsReply(m), Reply(c, m),
           \A d \in Calls : d # c => helper'[d] = helper[d]
    PROVE  ContentInv'
<1>0. ~WritePanics(m)
    BY ReplyIsWhole DEF IsWhole
<1>1. call' = [d \in Calls |-> [stage |-> IF d = c THEN "done" ELSE call[d].stage,
                                msg |-> call[d].msg]]
    BY ReplyEffect, GotoEffect DEF TxInv
<1>2. \A d \in Calls : d # c => call'[d] = call[d]
    BY <1>1 DEF TxInv, Functions
<1>3. call'[c].stage = "done" /\ call'[c].msg = call[c].msg
    BY <1>1
<1>4. /\ \A d \in Calls : d # c => reply'[d] = reply[d]
      /\ reply'[c] # None => reply'[c] = m /\ Marshal(m) # Bad
    BY <1>0 DEF Reply, TxInv, Functions
<1>5. Content(c)'
    BY <1>3, <1>4 DEF ContentInv, Content, At
<1> QED BY <1>2, <1>4, <1>5, ContentElsewhere

LEMMA ContentGoesOn ==
    ASSUME ContentInv, TxInv, NEW c \in Calls, NEW s, Goto(c, s), UNCHANGED reply,
           \A d \in Calls : d # c => helper'[d] = helper[d],
           s = "waiting" => helper'[c] = <<Asking>> \/ IsReply(Head(helper'[c])),
           s \in {"acting", "sending", "signing"} /\ Type(c) = "OpenChannel" =>
               CheckAssets(Body(c).state.assets)
    PROVE  ContentInv'
<1>1. call' = [d \in Calls |-> [stage |-> IF d = c THEN s ELSE call[d].stage,
                                msg |-> call[d].msg]]
    BY GotoEffect DEF TxInv
<1>2. \A d \in Calls : d # c => call'[d] = call[d]
    BY <1>1 DEF TxInv, Functions
<1>3. call'[c].stage = s /\ call'[c].msg = call[c].msg
    BY <1>1
<1>4. Content(c)'
    BY <1>3 DEF ContentInv, Content, At, Type, Body
<1> QED BY <1>2, <1>4, ContentElsewhere

LEMMA ContentHandler ==
    ASSUME BadIsNoValue, DataInv, TxInv, NEW c \in Calls, Handler(c)
    PROVE  ContentInv'
<1> USE PlainBodies DEF queryVars, txVars, DataInv
<1>0. helper = [d \in Calls |-> helper[d]]
    BY DEF TxInv, Functions
<1>1. CASE HandleRequest(c)
  <2>1. PICK m \in Responses(Type(c), Body(c)) : Reply(c, m)
      BY <1>1 DEF HandleRequest
  <2>2. IsReply(m)
      BY ResponsesAreReplies
  <2> QED BY <1>1, <2>1, <2>2, ContentReply DEF HandleRequest
<1>2. CASE AskHub(c)
  <2>1. CASE Body(c).hub \notin Hubs
      BY <1>2, <2>1, ContentReply DEF AskHub
  <2>2. CASE Body(c).hub \in Hubs
    <3> DEFINE h == IF hubOpen THEN <<Asking>> ELSE OnError
    <3>1. helper' = [helper EXCEPT ![c] = h]
        BY <1>2, <2>2 DEF AskHub
    <3>2. h = <<Asking>> \/ IsReply(Head(h))
        BY DEF OnError
    <3> HIDE DEF h
    <3>3. /\ \A d \in Calls : d # c => helper'[d] = helper[d]
          /\ helper'[c] = h
        BY <1>0, <3>1
    <3> QED BY <1>2, <2>2, <3>2, <3>3, ContentGoesOn DEF AskHub
  <2> QED BY <2>1, <2>2
<1>3. CASE ReceiveQuote(c)
  <2>1. /\ IsReply(Head(helper[c])) /\ Reply(c, Head(helper[c]))
        /\ helper' = [helper EXCEPT ![c] = Tail(helper[c])]
      BY <1>3 DEF ReceiveQuote, ContentInv, Content
  <2>2. \A d \in Calls : d # c => helper'[d] = helper[d]
      BY <1>0, <2>1
  <2> QED BY <2>1, <2>2, ContentReply
<1>4. CASE QuoteTimesOut(c)
    BY <1>4, ContentReply DEF QuoteTimesOut
<1>5. CASE ChannelAction(c)
  <2>1. CASE Refused(Type(c), Body(c))
      BY <1>5, <2>1, ContentReply DEF ChannelAction
  <2>2. CASE ~Refused(Type(c), Body(c)) /\ ~ActionPanics(Type(c), Body(c))
    <3>1. Type(c) = "OpenChannel" => CheckAssets(Body(c).state.assets)
        BY <2>2 DEF Refused
    <3>2. PICK s \in {"acting", "sending"} : Goto(c, s)
        BY <1>5, <2>2 DEF ChannelAction
    <3> QED BY <1>5, <2>2, <3>1, <3>2, ContentGoesOn DEF ChannelAction
  <2>3. CASE ~Refused(Type(c), Body(c)) /\ ActionPanics(Type(c), Body(c))
    <3>1. UNCHANGED <<call, reply, helper>>
        BY <1>5, <2>3 DEF ChannelAction
    <3> QED BY <3>1 DEF ContentInv, Content, At, Type, Body
  <2> QED BY <2>1, <2>2, <2>3
<1>6. CASE ActionEnds(c)
    BY <1>6, ContentReply DEF ActionEnds
<1>7. CASE SendSolTx(c)
  <2>1. PICK s \in {"signing", "unsigned", "sending"} : Goto(c, s)
      BY <1>7 DEF SendSolTx, Failed
  <2>2. Type(c) = "OpenChannel" => CheckAssets(Body(c).state.assets)
      BY <1>7 DEF SendSolTx, ContentInv, Content, At
  <2> QED BY <1>7, <2>1, <2>2, ContentGoesOn DEF SendSolTx
<1>8. CASE ReportUnsigned(c)
    BY <1>8, ContentReply DEF ReportUnsigned
<1>9. CASE HandleOrderBookMessage(c)
  <2>1. \A d \in Calls : helper'[d] = helper[d]
      BY <1>9, BookEffect
  <2> QED BY <1>9, <2>1, BookReply, ContentReply
<1> QED BY <1>1, <1>2, <1>3, <1>4, <1>5, <1>6, <1>7, <1>8, <1>9 DEF Handler

LEMMA ContentEnvironment ==
    ASSUME BadIsNoValue, ContentInv, TxInv, NEW c \in Calls
    PROVE  /\ \A frame \in Frames : Read(c, frame) => ContentInv'
           /\ \A m \in Quotes \cup {Error, Success} : HubAnswers(c, m) => ContentInv'
           /\ BrowserRefuses(c) => ContentInv'
           /\ \A arrives \in BOOLEAN : BrowserSigns(c, arrives) => ContentInv'
<1> USE DEF queryVars, txVars
<1>1. ASSUME NEW frame \in Frames, Read(c, frame) PROVE ContentInv'
  <2>1. CASE ReadPanics(frame) \/ Unmarshal(frame) = Bad
      BY <1>1, <2>1 DEF Read, ContentInv, Content, At, Type, Body
  <2>2. CASE ~ReadPanics(frame) /\ Unmarshal(frame) # Bad
    <3>1. /\ \A d \in Calls : d # c => call'[d] = call[d]
          /\ call'[c].stage = "taken" /\ call'[c].msg = Unmarshal(frame)
        BY <1>1, <2>2 DEF Read, TxInv, Functions
    <3>2. UNCHANGED <<reply, helper>>
        BY <1>1, <2>2 DEF Read
    <3>3. Content(c)'
        BY <2>2, <3>1, <3>2 DEF ContentInv, Content, At
    <3> QED BY <3>1, <3>2, <3>3, ContentElsewhere
  <2> QED BY <2>1, <2>2
<1>2. ASSUME NEW m \in Quotes \cup {Error, Success}, HubAnswers(c, m) PROVE ContentInv'
  <2> DEFINE h == IF m.type = QuoteType(Type(c)) THEN <<m>> ELSE OnWrongType
  <2>1. UNCHANGED <<call, reply>> /\ helper' = [helper EXCEPT ![c] = h]
      BY <1>2 DEF HubAnswers
  <2>2. IsReply(Head(h))
    <3>1. CASE m.type = QuoteType(Type(c))
      <4>1. QuoteType(Type(c)) \in PlainTypes
          BY DEF QuoteType, PlainTypes, Special, Envelopes, MessageTypes, WithState, Signed
      <4>2. m = Message(m.type, m.body) /\ m.body # Bad
        <5>1. Error.body # Bad /\ Success.body # Bad
              /\ Error = Message(Error.type, Error.body)
              /\ Success = Message(Success.type, Success.body)
            BY PlainBodies, FcnIsGood DEF Error, Success, Message, IsFcn
        <5> QED BY <5>1, QuotesAssumption
      <4>3. IsReply(m)
          BY <3>1, <4>1, <4>2, PlainReply
      <4> QED BY <3>1, <4>3
    <3>2. CASE m.type # QuoteType(Type(c))
        BY <3>2, PlainBodies DEF OnWrongType
    <3> QED BY <3>1, <3>2
  <2> HIDE DEF h
  <2>3. helper'[c] = h /\ \A d \in Calls : d # c => helper'[d] = helper[d]
      BY <2>1 DEF TxInv, Functions
  <2>4. Content(c)'
      BY <2>1, <2>2, <2>3 DEF ContentInv, Content, At, Type, Body
  <2> QED BY <2>1, <2>3, <2>4, ContentElsewhere
<1>3. ASSUME BrowserRefuses(c) PROVE ContentInv'
  <2>1. PICK s \in {"sending", "unsigned"} : Goto(c, s)
      BY <1>3 DEF BrowserRefuses
  <2>2. Type(c) = "OpenChannel" => CheckAssets(Body(c).state.assets)
      BY <1>3 DEF BrowserRefuses, ContentInv, Content, At
  <2> QED BY <1>3, <2>1, <2>2, ContentGoesOn DEF BrowserRefuses
<1>4. ASSUME NEW arrives \in BOOLEAN, BrowserSigns(c, arrives) PROVE ContentInv'
  <2>1. Type(c) = "OpenChannel" => CheckAssets(Body(c).state.assets)
      BY <1>4 DEF BrowserSigns, ContentInv, Content, At
  <2> QED BY <1>4, <2>1, ContentGoesOn DEF BrowserSigns
<1> QED BY <1>1, <1>2, <1>3, <1>4

LEMMA DataInvariant ==
    ASSUME BadIsNoValue
    PROVE  Spec => []DataInv
<1>1. Init => DataInv
    BY BooksAssumption DEF Init, DataInv, BookInv, ContentInv, Content, At
<1>2. DataInv /\ TxInv /\ Typed /\ [Next]_vars => DataInv'
  <2> SUFFICES ASSUME DataInv, TxInv, Typed, [Next]_vars PROVE DataInv'
      OBVIOUS
  <2>1. CASE UNCHANGED vars
      BY <2>1 DEF vars, queryVars, txVars, DataInv, BookInv, ContentInv, Content, At,
                  Type, Body
  <2>2. CASE LoseConnection \/ LoseHub \/ OthersTrade
    <3>1. ContentInv'
        BY <2>2 DEF LoseConnection, LoseHub, OthersTrade, queryVars, txVars, DataInv,
                    ContentInv, Content, At, Type, Body
    <3>2. BookInv'
        BY <2>2, BooksAssumption DEF LoseConnection, LoseHub, OthersTrade, DataInv, BookInv
    <3> QED BY <3>1, <3>2 DEF DataInv
  <2>3. ASSUME NEW c \in Calls, Handler(c) PROVE DataInv'
    <3>1. ContentInv'
        BY <2>3, ContentHandler
    <3>2. CASE HandleOrderBookMessage(c)
        BY <3>1, <3>2, BookHandler DEF DataInv
    <3>3. CASE ~HandleOrderBookMessage(c)
      <4>1. UNCHANGED book
          BY <2>3, <3>3 DEF Handler, HandleRequest, AskHub, ReceiveQuote, QuoteTimesOut,
                            ChannelAction, ActionEnds, SendSolTx, ReportUnsigned
      <4> QED BY <3>1, <4>1 DEF DataInv, BookInv
    <3> QED BY <3>2, <3>3
  <2>4. ASSUME NEW c \in Calls,
               \/ \E frame \in Frames : Read(c, frame)
               \/ \E m \in Quotes \cup {Error, Success} : HubAnswers(c, m)
               \/ BrowserRefuses(c)
               \/ \E arrives \in BOOLEAN : BrowserSigns(c, arrives)
        PROVE  DataInv'
    <3>1. ContentInv'
        BY <2>4, ContentEnvironment DEF DataInv
    <3>2. UNCHANGED book
        BY <2>4 DEF Read, HubAnswers, BrowserRefuses, BrowserSigns
    <3> QED BY <3>1, <3>2 DEF DataInv, BookInv
  <2> QED BY <2>1, <2>2, <2>3, <2>4 DEF Next, Environment
<1> QED BY <1>1, <1>2, SigningInvariant, TypesInvariant, PTL DEF Spec

(* The types of the variables: among them, no handler writes what is no    *)
(* message, the helper's nil included (reqhandler.go:278), and no order    *)
(* without assets is in the book (orderbook_handler.go:17).                *)
THEOREM TypeCorrect ==
    ASSUME BadIsNoValue
    PROVE  Spec => []TypeOK
<1>1. Typed /\ TxInv /\ DataInv => TypeOK
    BY DEF Typed, Types, TxInv, Functions, Signing, DataInv, BookInv, TypeOK
<1> QED BY <1>1, TypesInvariant, SigningInvariant, DataInvariant, PTL

(* Every message that a handler wrote in response, whoever it came from,   *)
(* is read back as it was written, and so is every one that it got and     *)
(* that lacks nothing (message.go:546).                                    *)
THEOREM EveryMessageSurvives ==
    ASSUME BadIsNoValue
    PROVE  Spec => []MessagesSurvive
<1>1. ContentInv => MessagesSurvive
  <2> SUFFICES ASSUME ContentInv, NEW c \in Calls
               PROVE  /\ call[c].msg # None => (IsWhole(call[c].msg) => Survives(call[c].msg))
                      /\ reply[c] # None => Survives(reply[c])
      BY DEF MessagesSurvive
  <2>1. ASSUME call[c].msg # None, IsWhole(call[c].msg) PROVE Survives(call[c].msg)
      BY <2>1, FrameIsMessage DEF ContentInv, Content
  <2>2. ASSUME reply[c] # None PROVE Survives(reply[c])
      BY <2>2, ReplyIsWhole, RoundTrip DEF ContentInv, Content
  <2> QED BY <2>1, <2>2
<1>2. DataInv => ContentInv
    BY DEF DataInv
<1> QED BY <1>1, <1>2, DataInvariant, PTL

(* What GetAssets makes of the rows, checkAssets finds in the maps.        *)
LEMMA ListedAreSupported ==
    ASSUME NEW ids, NEW a \in ListedAssets(GetAssets(ids))
    PROVE  Supported(a)
<1> DEFINE eth == UNION {Values(EthChains[id].assets) : id \in Values(ids) \cap DOMAIN EthChains}
           sol == IF ids = <<>> THEN {} ELSE Values(SolChains[0].assets)
<1>1. GetAssets(ids).body = [ethereumAssets |-> eth, solanaAssets |-> sol]
    BY DEF GetAssets, Message
<1>2. CASE \E ca \in eth : a = [assetType |-> "Ethereum", assetHolder |-> ca.assetHolder,
                                chainID |-> ca.chainID]
  <2>1. PICK id \in DOMAIN EthChains : \E ca \in Values(EthChains[id].assets) :
            a = [assetType |-> "Ethereum", assetHolder |-> ca.assetHolder, chainID |-> ca.chainID]
      BY <1>2
  <2>2. a.chainID = id
      BY <2>1, EthereumRows
  <2> QED BY <2>1, <2>2 DEF Supported
<1>3. CASE \E ca \in sol : a = [assetType |-> "Solana", mint |-> ca.mint]
  <2>1. PICK mint \in DOMAIN SolChains[0].assets :
            a = [assetType |-> "Solana", mint |-> SolChains[0].assets[mint].mint]
      BY <1>3 DEF Values
  <2>2. a.mint \in DOMAIN SolChains[0].assets
      BY <2>1, SolanaRows
  <2> QED BY <2>1, <2>2 DEF Supported
<1> HIDE DEF eth, sol
<1> QED BY <1>1, <1>2, <1>3 DEF ListedAssets

(* What checkAssets finds, GetAssets lists for some chain of GetChains.    *)
LEMMA SupportedAreListed ==
    ASSUME NEW a, IsAsset(a), Supported(a)
    PROVE  \E id \in GetChains.body.chains : a \in ListedAssets(GetAssets(<<id>>))
<1>0. GetChains.body.chains = {ch.chainID : ch \in Values(EthChains) \cup Values(SolChains)}
    BY DEF GetChains, Message
<1>1. CASE a.assetType = "Solana"
  <2> DEFINE id == SolChains[0].chainID
  <2>1. id \in GetChains.body.chains
      BY <1>0, ConfigAssumption DEF Values
  <2> HIDE DEF id
  <2>2. PICK ca \in Values(SolChains[0].assets) : ca.mint = a.mint
      BY <1>1, SolanaRows DEF Supported, Values
  <2>3. ca \in GetAssets(<<id>>).body.solanaAssets
      BY <2>2 DEF GetAssets, Message
  <2>4. a = [assetType |-> "Solana", mint |-> ca.mint]
      BY <1>1, <2>2 DEF IsAsset
  <2> QED BY <2>1, <2>3, <2>4 DEF ListedAssets
<1>2. CASE a.assetType # "Solana"
  <2> DEFINE id == a.chainID
  <2>1. id \in DOMAIN EthChains /\ EthChains[id].chainID = id
      BY <1>2, EthereumRows DEF Supported
  <2>2. PICK ca \in Values(EthChains[id].assets) : ca.assetHolder = a.assetHolder
      BY <1>2 DEF Supported
  <2>3. ca.chainID = id
      BY <2>1, <2>2, EthereumRows
  <2> HIDE DEF id
  <2>4. id \in GetChains.body.chains
      BY <1>0, <2>1 DEF Values
  <2>5. Values(<<id>>) = {id}
      BY DEF Values
  <2>6. ca \in GetAssets(<<id>>).body.ethereumAssets
      BY <2>1, <2>2, <2>5 DEF GetAssets, Message
  <2>7. a = [assetType |-> "Ethereum", assetHolder |-> ca.assetHolder, chainID |-> ca.chainID]
      BY <1>2, <2>2, <2>3 DEF IsAsset, id
  <2> QED BY <2>4, <2>6, <2>7 DEF ListedAssets
<1> QED BY <1>1, <1>2

(* The assets a browser is told of are exactly those a channel may have,   *)
(* whatever the two files hold: keys given twice, and rows that others     *)
(* replace, among them (client.go:107).                                    *)
THEOREM AssetsAgree ==
    ASSUME BadIsNoValue
    PROVE  Spec => []ListedIsAccepted
<1>1. ContentInv /\ Typed => ListedIsAccepted
  <2> SUFFICES ASSUME ContentInv, Typed, NEW c \in Calls
      PROVE  /\ reply[c] # None => (reply[c].type = "GetAssetsResponse" =>
                    \A a \in ListedAssets(reply[c]) : Supported(a))
             /\ call[c].stage \in {"acting", "sending", "signing"} =>
                    (Type(c) = "OpenChannel" => \A i \in DOMAIN Body(c).state.assets :
                        \E id \in GetChains.body.chains :
                            Body(c).state.assets[i] \in ListedAssets(GetAssets(<<id>>)))
      BY DEF ListedIsAccepted
  <2>1. ASSUME reply[c] # None, reply[c].type = "GetAssetsResponse",
               NEW a \in ListedAssets(reply[c])
        PROVE  Supported(a)
    <3>1. \E ids : reply[c] = GetAssets(ids)
        BY <2>1 DEF ContentInv, Content, IsReply
    <3> QED BY <2>1, <3>1, ListedAreSupported
  <2>2. ASSUME call[c].stage \in {"acting", "sending", "signing"}, Type(c) = "OpenChannel",
               NEW i \in DOMAIN Body(c).state.assets
        PROVE  \E id \in GetChains.body.chains :
                   Body(c).state.assets[i] \in ListedAssets(GetAssets(<<id>>))
    <3>1. ~At(c, "new") /\ Types(c)
        BY <2>2 DEF Typed, At
    <3>2. IsBody("OpenChannel", Body(c))
        BY <2>2, <3>1, MessageBody DEF Envelopes
    <3>3. IsAsset(Body(c).state.assets[i])
        BY <3>2 DEF IsBody, IsChannelState, WithState, Signed
    <3>4. Supported(Body(c).state.assets[i])
        BY <2>2 DEF ContentInv, Content, CheckAssets
    <3> QED BY <3>3, <3>4, SupportedAreListed
  <2> QED BY <2>1, <2>2
<1>2. DataInv => ContentInv
    BY DEF DataInv
<1> QED BY <1>1, <1>2, DataInvariant, TypesInvariant, PTL
=============================================================================
