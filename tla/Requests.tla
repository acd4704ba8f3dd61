------------------------------- MODULE Requests -------------------------------
(***************************************************************************)
(* The requests of one client's browser (internal/client/reqhandler.go):   *)
(* what Read makes of a frame, how each request is answered, the question  *)
(* to another client, the hub, that some of them pass on, and the          *)
(* transactions the browser has to sign while one is served                *)
(* (internal/client/websocketsender.go).                                   *)
(*                                                                         *)
(* Slots, request IDs and how an answer finds its requester are in         *)
(* Connection, the order book's counts and its streams in OrderBook,       *)
(* channels in ChannelLifecycle; here the orders of all books are kept,    *)
(* with their assets, and an action on a channel ends well or with an      *)
(* error, with or without a transaction.                                   *)
(*                                                                         *)
(* Frames are read and requests are handled in goroutines that do not      *)
(* recover: a panic in one of them ends the server.                        *)
(*                                                                         *)
(* Connection.Request waits for ever when the one who is asked does not    *)
(* answer, also when the connection is lost while it waits.                *)
(***************************************************************************)
EXTENDS Config

CONSTANTS
    Calls,    \* the browser's requests
    Frames,   \* what it may send: JSON values, or Bad
    Channels, \* the client's channels: their ID, idx and signed state
    Hubs,     \* the names under which the hub is found
    Quotes,   \* the hub's answers of the right type
    Books,    \* what the other clients make of the orders: key |-> order
    None

ASSUME NoneAssumption == \A frame \in Frames : Unmarshal(frame) # None
ASSUME FramesAssumption ==
    \A frame \in Frames : frame # Bad => IsFrame(frame)
ASSUME QuotesAssumption ==
    \A m \in Quotes : m.type \in {"GetQuoteResponse", "GetBalanceResponse"}
                      /\ m = Message(m.type, m.body) /\ m.body # Bad
ASSUME ChannelsAssumption ==   \* a row of two balances; go-perun's assets have their IDs
    \A ch \in Channels :
        LET s == ch.signed.state
        IN  /\ ch.idx \in Parts /\ IsSignedState(ch.signed)
            /\ \A i \in DOMAIN s.balances : Parts \subseteq DOMAIN s.balances[i]
            /\ \A i \in DOMAIN s.assets :
                   s.assets[i].backend # SolanaIndex => IsNumber(s.assets[i].id.chainID)
ASSUME BooksAssumption ==
    \A b \in Books : IsFcn(b) /\ \A o \in Values(b) : IsOrder(o)

VARIABLES
    open,     \* the client's connection works
    hubOpen,  \* the hub's connection works
    panicked, \* the server has ended
    call,     \* each request: where its handler stands, and its message
    reply,    \* what was written in response to it
    book,     \* the orders of all channels: key |-> order
    helper,   \* handleGetQuote's goroutine: what it still sends to rspChan
    hubSaid,  \* history: the hub's answer to the request's question
    asked,    \* how often the browser was asked to sign the transaction
    signed,   \* history: the requests whose transaction it has signed
    chain     \* the transactions that have reached the chain

queryVars == <<helper, hubSaid>>
txVars    == <<asked, signed, chain>>
vars      == <<open, hubOpen, panicked, call, reply, book, queryVars, txVars>>

Asking == Message("asking the hub", <<>>)

Init ==
    /\ open = TRUE /\ hubOpen = TRUE /\ panicked = FALSE
    /\ book \in Books
    /\ call = [c \in Calls |-> [stage |-> "new", msg |-> None]]
    /\ reply = [c \in Calls |-> None]
    /\ helper = [c \in Calls |-> <<>>] /\ hubSaid = [c \in Calls |-> None]
    /\ asked = [c \in Calls |-> 0] /\ signed = {} /\ chain = {}

Type(c)  == call[c].msg.type
Body(c)  == call[c].msg.body

At(c, stage)   == call[c].stage = stage
Goto(c, stage) == call' = [call EXCEPT ![c].stage = stage]

Error   == Message("Error", [err |-> "error"])
Success == Message("Success", <<>>)

(* HandleRequest writes the response, if it can be encoded and the         *)
(* connection still works, and returns.  A response whose encoding panics  *)
(* is kept too.                                                            *)
Reply(c, m) ==
    /\ Goto(c, "done")
    /\ panicked' = WritePanics(m)
    /\ reply' = [reply EXCEPT ![c] =
                    IF WritePanics(m) THEN m
                    ELSE IF open /\ Marshal(m) # Bad THEN m ELSE None]

-----------------------------------------------------------------------------
(* Handle reads a frame; a frame it cannot read ends it and the client.    *)
Read(c, frame) ==
    /\ open /\ At(c, "new")
    /\ panicked' = ReadPanics(frame)
    /\ IF ReadPanics(frame) THEN UNCHANGED <<open, call>>
       ELSE IF Unmarshal(frame) = Bad
         THEN open' = FALSE /\ UNCHANGED call
         ELSE call' = [call EXCEPT ![c] = [stage |-> "taken", msg |-> Unmarshal(frame)]]
              /\ UNCHANGED open
    /\ UNCHANGED <<hubOpen, reply, book, queryVars, txVars>>

-----------------------------------------------------------------------------
(* Requests that are answered from the client's own state.                 *)

ChannelsWith(id) == {ch \in Channels : ch.id = id}

OrError(responses) == IF responses = {} THEN {Error} ELSE responses

GetChannelInfo(id) ==
    OrError({Message("ChannelInfo",
                [peer  |-> ch.signed.params.parts[2 - ch.idx],
                 state |-> LET s == ch.signed.state
                           IN  NewChannelState(s.assets, s.backends,
                                   MakeBals(s.balances, ch.idx, 1 - ch.idx), s.isFinal)])
             : ch \in ChannelsWith(id)})

GetSignedState(id) ==
    OrError({Message("SignedState", ch.signed) : ch \in ChannelsWith(id)})

GetTimeout(timeoutType) ==
    IF timeoutType \in 0 .. 3
      THEN {Message("GetTimeoutResponse", [timeout |-> timeoutType])} ELSE {Error}

GetDecimalsResponses(asset) ==
    {IF d = Bad THEN Error ELSE Message("GetDecimalsResponse", [decimals |-> d])
       : d \in GetDecimals(asset, 6)}

GetBalance == {Error, Message("GetBalanceResponse", [balance |-> "0"])}
GetFunds   == {Message("GetFundsResponse", [success |-> FALSE])}

ChannelActions == {"OpenChannel", "UpdateChannel", "CloseChannel"}
HubTypes       == {"GetQuote", "GetHubBalance"}
OrderBookTypes == {"CreateOrder", "CancelOrder", "AcceptOrder", "GetOrderBook"}

(* The signatures may be absent.                                           *)
HandleSendSignedState(b) == {IF b.sigs = Null THEN Error ELSE Success}

(* HandleRequest's switch.  A type it does not know succeeds, a            *)
(* SendSignedState too: the case is for SignedState.                       *)
Responses(type, b) ==
    CASE type = "GetChannelInfo"  -> GetChannelInfo(b.id)
      [] type = "GetSignedState"  -> GetSignedState(b.id)
      [] type = "GetChains"       -> {GetChains}
      [] type = "GetAssets"       -> {GetAssets(b.chainIDs)}
      [] type = "GetDecimals"     -> GetDecimalsResponses(b.asset)
      [] type = "GetTimeout"      -> GetTimeout(b.timeoutType)
      [] type = "GetFunds"        -> GetFunds
      [] type = "GetBalance"      -> GetBalance
      [] type = "SignedState"     -> HandleSendSignedState(b)
      [] OTHER                    -> {Success}

HandleRequest(c) ==
    /\ At(c, "taken") /\ Type(c) \notin OrderBookTypes \cup HubTypes \cup ChannelActions
    /\ \E m \in Responses(Type(c), Body(c)) : Reply(c, m)
    /\ UNCHANGED <<open, hubOpen, book, queryVars, txVars>>

-----------------------------------------------------------------------------
(* The order book, which all clients share.                                *)

Key(channelID, side, id) == <<channelID, side, id>>

(* The channel's orders of one side, by their IDs.                         *)
SideOf(channelID, side) ==
    LET ids == {k[3] : k \in {k \in DOMAIN book : k = Key(channelID, side, k[3])}}
    IN  [id \in ids |-> book[Key(channelID, side, id)]]

Stored(o) ==
    LET here == Key(o.channelID, o.side, o.id)
    IN  [k \in DOMAIN book \cup {here} |-> IF k = here THEN o ELSE book[k]]

StoreAnySide(c) ==   \* a slip: an order of neither side is stored too
    /\ Type(c) = "CreateOrder"
    /\ book' = Stored(Body(c).order)
    /\ Reply(c, Message("CreateOrderAck", [accepted |-> TRUE]))

(* An order is stored under its ID, over one that has it already.          *)
CreateOrder(c) ==
    LET o        == Body(c).order
        accepted == o.side \in {"bid", "ask"}
    IN  /\ Type(c) = "CreateOrder"
        /\ book' = IF accepted THEN Stored(o) ELSE book
        /\ Reply(c, Message("CreateOrderAck", [accepted |-> accepted]))

(* The keys under which the order of a request is stored.                  *)
Found(b) == {Key(b.channelID, side, b.id) : side \in {"bid", "ask"}} \cap DOMAIN book

CancelOrder(c) ==
    LET b    == Body(c)
        bid  == Key(b.channelID, "bid", b.id)
        gone == IF bid \in DOMAIN book THEN {bid} ELSE Found(b)
    IN  /\ Type(c) = "CancelOrder"
        /\ book' = [k \in DOMAIN book \ gone |-> book[k]]
        /\ Reply(c, Message("CancelOrderAck", [success |-> Found(b) # {}]))

AcceptOrder(c) ==
    /\ Type(c) = "AcceptOrder"
    /\ Reply(c, Message("AcceptOrderAck", [accepted |-> Found(Body(c)) # {}]))
    /\ UNCHANGED book

(* Always a snapshot, of no orders if the channel has no book.             *)
GetOrderBook(c) ==
    LET ch == Body(c).channelID
    IN  /\ Type(c) = "GetOrderBook"
        /\ Reply(c, Message("GetOrderBookResponse",
                [snapshot |-> [bids |-> SideOf(ch, "bid"), asks |-> SideOf(ch, "ask")],
                 delta |-> Null]))
        /\ UNCHANGED book

HandleOrderBookMessage(c) ==
    /\ At(c, "taken")
    /\ CreateOrder(c) \/ CancelOrder(c) \/ AcceptOrder(c) \/ GetOrderBook(c)
    /\ UNCHANGED <<open, hubOpen, queryVars, txVars>>

-----------------------------------------------------------------------------
(* handleGetQuote and handleGetHubBalance.                                 *)

QuoteType(type) == IF type = "GetQuote" THEN "GetQuoteResponse" ELSE "GetBalanceResponse"

(* The helper does not return after it has sent an error, and sends to a   *)
(* channel that is received from once; its last send is a nil pointer      *)
(* unless the answer has the right type.                                   *)
Nil == Message("nil", <<>>)
OnError     == <<Error, Error, Nil>>
OnWrongType == <<Error, Nil>>

(* The hub is looked up, and the helper writes the question to it.         *)
AskHub(c) ==
    /\ At(c, "taken") /\ Type(c) \in HubTypes
    /\ IF Body(c).hub \notin Hubs
         THEN Reply(c, Error) /\ UNCHANGED queryVars
         ELSE /\ Goto(c, "waiting") /\ UNCHANGED <<panicked, reply, hubSaid>>
              /\ helper' = [helper EXCEPT ![c] = IF hubOpen THEN <<Asking>> ELSE OnError]
    /\ UNCHANGED <<open, hubOpen, book, txVars>>

UncheckedHub(c, m) ==   \* a slip: the type assertion's ok is ignored
    /\ hubOpen /\ helper[c] = <<Asking>>
    /\ hubSaid' = [hubSaid EXCEPT ![c] = m]
    /\ helper' = [helper EXCEPT ![c] = IF m.type = QuoteType(Type(c)) THEN <<m>> ELSE <<Nil>>]
    /\ UNCHANGED <<open, hubOpen, panicked, call, reply, book, txVars>>

HubAnswers(c, m) ==
    /\ hubOpen /\ helper[c] = <<Asking>>
    /\ hubSaid' = [hubSaid EXCEPT ![c] = m]
    /\ helper' = [helper EXCEPT ![c] = IF m.type = QuoteType(Type(c)) THEN <<m>>
                                       ELSE OnWrongType]
    /\ UNCHANGED <<open, hubOpen, panicked, call, reply, book, txVars>>

(* A send meets the handler's only receive.  What the helper sends after   *)
(* that, or after the timeout, it waits with for ever.                     *)
ReceiveQuote(c) ==
    /\ At(c, "waiting") /\ helper[c] \notin {<<>>, <<Asking>>}
    /\ Reply(c, Head(helper[c]))
    /\ helper' = [helper EXCEPT ![c] = Tail(@)]
    /\ UNCHANGED <<open, hubOpen, book, hubSaid, txVars>>

WaitForever(c) == FALSE /\ UNCHANGED vars   \* a slip: no time.After

QuoteTimesOut(c) ==
    /\ At(c, "waiting")
    /\ Reply(c, Error)
    /\ UNCHANGED <<open, hubOpen, book, queryVars, txVars>>

-----------------------------------------------------------------------------
(* handleChannelAction, and the transactions it may need.                  *)

(* What handleOpenChannel refuses before it does anything.                 *)
Refused(type, b) ==
    type = "OpenChannel" /\ (\/ ~CheckAssets(b.state.assets)
                             \/ b.state.assets = <<>> \/ b.state.backends = Null
                             \/ MakePerunAssets(b.state.assets, b.state.backends) = Bad)

ActionPanics(type, b) ==
    /\ type = "OpenChannel" /\ ~Refused(type, b)
    /\ PerunAssetsPanic(b.state.assets, b.state.backends)

(* An update needs no transaction, the channel's Ethereum part has a key   *)
(* of the server, and a transaction for Solana goes to the browser.        *)
ChannelAction(c) ==
    /\ At(c, "taken") /\ Type(c) \in ChannelActions
    /\ IF Refused(Type(c), Body(c)) THEN Reply(c, Error)
       ELSE IF ActionPanics(Type(c), Body(c)) THEN panicked' = TRUE /\ UNCHANGED <<call, reply>>
       ELSE /\ UNCHANGED <<panicked, reply>>
            /\ \/ Goto(c, "acting")
               \/ Type(c) # "UpdateChannel" /\ Goto(c, "sending")
    /\ UNCHANGED <<open, hubOpen, book, queryVars, txVars>>

ActionEnds(c) ==
    /\ At(c, "acting")
    /\ \E m \in {Success, Error} : Reply(c, m)
    /\ UNCHANGED <<open, hubOpen, book, queryVars, txVars>>

(* SendSolTx asks the browser to sign; the write fails if it has gone.  A  *)
(* second failure is the caller's.                                         *)
Failed(c) == Goto(c, IF asked[c] = 1 THEN "unsigned" ELSE "sending")

SendSolTx(c) ==
    /\ At(c, "sending")
    /\ asked' = [asked EXCEPT ![c] = @ + 1]
    /\ IF open THEN Goto(c, "signing") ELSE Failed(c)
    /\ UNCHANGED <<open, hubOpen, panicked, reply, book, queryVars, signed, chain>>

(* SignSendTx sends what the browser has signed and drops the error of     *)
(* SendTransaction: the caller goes on as if the transaction were sent.    *)
BrowserSigns(c, arrives) ==
    /\ open /\ At(c, "signing")
    /\ signed' = signed \cup {c}
    /\ chain' = IF arrives THEN chain \cup {c} ELSE chain
    /\ Goto(c, "acting")
    /\ UNCHANGED <<open, hubOpen, panicked, reply, book, queryVars, asked>>

SendRefused(c) ==   \* a slip: the second answer's error is not returned
    /\ open /\ At(c, "signing")
    /\ IF asked[c] = 1 THEN Goto(c, "sending") /\ UNCHANGED chain
       ELSE Goto(c, "acting") /\ chain' = chain \cup {c}
    /\ UNCHANGED <<open, hubOpen, panicked, reply, book, queryVars, asked, signed>>

(* An Error, a response of another type, no transaction or one that is not *)
(* in Base64.                                                              *)
BrowserRefuses(c) ==
    /\ open /\ At(c, "signing")
    /\ Goto(c, IF asked[c] = 1 THEN "sending" ELSE "unsigned")
    /\ UNCHANGED <<open, hubOpen, panicked, reply, book, queryVars, txVars>>

ReportUnsigned(c) ==
    /\ At(c, "unsigned")
    /\ Reply(c, Error)
    /\ UNCHANGED <<open, hubOpen, book, queryVars, txVars>>

-----------------------------------------------------------------------------
LoseConnection ==
    /\ open /\ open' = FALSE
    /\ UNCHANGED <<hubOpen, panicked, call, reply, book, queryVars, txVars>>

LoseHub ==
    /\ hubOpen /\ hubOpen' = FALSE
    /\ UNCHANGED <<open, panicked, call, reply, book, queryVars, txVars>>

OthersTrade ==
    /\ book' \in Books
    /\ UNCHANGED <<open, hubOpen, panicked, call, reply, queryVars, txVars>>

Handler(c) ==
    /\ ~panicked
    /\ \/ HandleRequest(c) \/ HandleOrderBookMessage(c)
       \/ AskHub(c) \/ ReceiveQuote(c) \/ QuoteTimesOut(c)
       \/ ChannelAction(c) \/ ActionEnds(c) \/ SendSolTx(c) \/ ReportUnsigned(c)

Environment ==
    \/ LoseConnection \/ LoseHub \/ OthersTrade
    \/ \E c \in Calls :
          \/ \E frame \in Frames : Read(c, frame)
          \/ \E m \in Quotes \cup {Error, Success} : HubAnswers(c, m)
          \/ BrowserRefuses(c)
          \/ \E arrives \in BOOLEAN : BrowserSigns(c, arrives)

Next == (\E c \in Calls : Handler(c)) \/ (~panicked /\ Environment)

Spec == Init /\ [][Next]_vars

(* A handler goes on by itself, and go-perun's calls have a timeout.       *)
(* Neither browser has to answer.                                          *)
FairSpec == Spec /\ \A c \in Calls : WF_vars(Handler(c))

-----------------------------------------------------------------------------
(* Properties.                                                             *)

Stages == {"new", "taken", "waiting", "acting", "sending", "signing", "unsigned", "done"}

IsMessage(m) == m.type \in MessageTypes

(* Every variable has its type, and every order in the book its assets.    *)
TypeOK ==
    /\ open \in BOOLEAN /\ hubOpen \in BOOLEAN /\ panicked \in BOOLEAN
    /\ IsFcn(book) /\ \A o \in Values(book) : IsOrder(o)
    /\ \A c \in Calls :
          /\ call[c].stage \in Stages
          /\ call[c].msg = None <=> At(c, "new")
          /\ call[c].msg # None => IsMessage(call[c].msg)
          /\ reply[c] # None => At(c, "done") /\ IsMessage(reply[c])
          /\ helper[c] # <<>> /\ helper[c] # <<Asking>> =>
                \A i \in DOMAIN helper[c] : helper[c][i].type \in MessageTypes \cup {"nil"}
    /\ asked \in [Calls -> 0 .. 2]
    /\ signed \subseteq Calls /\ chain \subseteq Calls

(* message.go:546: every message a handler wrote is read back as it was    *)
(* written, with its channel state, assets and balances, the orders it     *)
(* lists, and the right one of the types of assets; so is every message it *)
(* got, unless it lacks what its type needs.  No reply panics: what lacks  *)
(* its assets never comes into the book (assetmarshal.go:13).              *)
MessagesSurvive ==
    \A c \in Calls :
        /\ call[c].msg # None => (IsWhole(call[c].msg) => Survives(call[c].msg))
        /\ reply[c] # None => Survives(reply[c])

ListedAssets(m) ==
    {[assetType |-> "Ethereum", assetHolder |-> a.assetHolder, chainID |-> a.chainID]
        : a \in m.body.ethereumAssets}
    \cup {[assetType |-> "Solana", mint |-> a.mint] : a \in m.body.solanaAssets}

(* client.go:107: the assets GetAssets lists are those a channel may have, *)
(* although the one answers from the configured rows and the other looks   *)
(* up what was made of them.                                               *)
ListedIsAccepted ==
    \A c \in Calls :
        /\ reply[c] # None => (reply[c].type = "GetAssetsResponse" =>
               \A a \in ListedAssets(reply[c]) : Supported(a))
        /\ call[c].stage \in {"acting", "sending", "signing"} =>
               (Type(c) = "OpenChannel" => \A i \in DOMAIN Body(c).state.assets :
                   \E id \in GetChains.body.chains :
                       Body(c).state.assets[i] \in ListedAssets(GetAssets(<<id>>)))

(* reqhandler.go:278: a quote or balance that is no error is what the hub  *)
(* answered to this request, and of the type that was asked for.           *)
AnswerIsTheHubs ==
    \A c \in Calls :
        reply[c] # None => (Type(c) \in HubTypes =>
            \/ reply[c] = Error
            \/ reply[c] = hubSaid[c] /\ reply[c].type = QuoteType(Type(c)))

(* websocketsender.go:32: what reaches the chain has been signed, and a    *)
(* request that fails for want of a signature was put to the browser twice *)
(* and signed neither time.                                                *)
SignedBeforeSent ==
    /\ chain \subseteq signed
    /\ \A c \in Calls : At(c, "unsigned") => asked[c] = 2 /\ c \notin signed

(* reqhandler.go:301: every handler returns, whatever the hub does, except *)
(* one whose transaction the browser neither signs nor refuses, and unless *)
(* the server has ended.                                                   *)
EveryRequestIsAnswered ==
    \A c \in Calls : At(c, "taken") ~> (panicked \/ At(c, "done") \/ []At(c, "signing"))
=============================================================================
