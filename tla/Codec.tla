-------------------------------- MODULE Codec ---------------------------------
(***************************************************************************)
(* The messages of internal/message and their JSON form.  A JSON value is  *)
(* a record whose leaves keep apart what is written differently: a decimal *)
(* string, a hexadecimal address, Base64, Base58.  Bad is the result of a  *)
(* function that returns an error, and text that is no message or has a    *)
(* field of the wrong kind.  Fields that encoding/json writes as they are  *)
(* stay as they are.                                                       *)
(*                                                                         *)
(* A field may be absent.  It then reads like its zero value, and a struct *)
(* like one without fields, and stands here as that.  Null is an absent    *)
(* field where it reads like neither (an order, a number, the name of a    *)
(* type, a pointer, a list of backends or signatures, an app's data), and  *)
(* the nil that it leaves in the message.  Lists of orders and balances    *)
(* that are nil or empty are not told apart.                               *)
(*                                                                         *)
(* A go-perun asset is a backend and what identifies the asset there; the  *)
(* identifier ZeroKey is the native SOL, whose mint is NoMint, "".         *)
(***************************************************************************)
EXTENDS Balances, Sequences

CONSTANTS Bad, Null, ZeroKey, NoMint

EthereumIndex == 1
SolanaIndex   == 6

(* The backends go-perun knows here; it panics on any other.               *)
Registered == {EthereumIndex, SolanaIndex}

Hex(a)    == [hex |-> a]
Base58(k) == [base58 |-> k]
Base64(b) == [base64 |-> b]

Each(F(_), s)  == [i \in DOMAIN s |-> F(s[i])]
AllOrBad(s)    == IF \E i \in DOMAIN s : s[i] = Bad THEN Bad ELSE s
IfGood(s, t)   == IF s = Bad THEN Bad ELSE t
Opt(F(_), x)   == IF x = Null THEN Null ELSE F(x)
Values(f)      == {f[x] : x \in DOMAIN f}

(* A list or a struct, and one with these fields.                          *)
IsFcn(f)         == f = [x \in DOMAIN f |-> f[x]]
Fields(f, names) == IsFcn(f) /\ names \subseteq DOMAIN f

-----------------------------------------------------------------------------
(* Integers and enumerations.                                              *)

(* The text Null is any that is no number, "<nil>" for one.                *)
Decimal(n)      == [decimal |-> n]
ParseDecimal(j) == IF j.decimal = Null THEN Bad ELSE j.decimal
Decimals(row)   == Each(Decimal, row)
Parsed(row)     == AllOrBad(Each(ParseDecimal, row))

TimeoutNames == <<"Default", "Handle", "Funding", "Settle">>

ParseName(names, s) ==
    IF \E i \in DOMAIN names : names[i] = s
      THEN (CHOOSE i \in DOMAIN names : names[i] = s) - 1
      ELSE Bad

ReadName(names, s) == IF s = Null THEN 0 ELSE ParseName(names, s)

EthereumTypeNames == <<"ETH", "ERC20">>
SolanaTypeNames   == <<"SOL", "SPL">>

(* The configuration of an asset.                                          *)
MarshalConfig(names, c) ==
    [c EXCEPT !.type = names[@ + 1], !.chainID = Decimal(@)]

UnmarshalConfig(names, j) ==
    LET type == ReadName(names, j.type)
        id   == Opt(ParseDecimal, j.chainID)
    IN  IfGood(type, IfGood(id, [j EXCEPT !.type = type, !.chainID = id]))

-----------------------------------------------------------------------------
(* Assets.                                                                 *)

MarshalEthereumAsset(a) ==
    [assetType |-> "Ethereum", assetHolder |-> Hex(a.assetHolder),
     chainID |-> Decimal(a.chainID)]

UnmarshalEthereumAsset(j) ==
    IfGood(ParseDecimal(j.chainID),
           [assetType |-> "Ethereum", assetHolder |-> j.assetHolder.hex,
            chainID |-> ParseDecimal(j.chainID)])

MarshalSolanaAsset(a) == [assetType |-> "Solana", mint |-> a.mint]

UnmarshalSolanaAsset(j) == [assetType |-> "Solana", mint |-> j.mint]

MarshalAsset(a) ==
    [asset |-> IF a.assetType = "Ethereum" THEN MarshalEthereumAsset(a)
                                           ELSE MarshalSolanaAsset(a)]

UnmarshalAsset(j) ==
    CASE j.asset.assetType = "Ethereum" -> UnmarshalEthereumAsset(j.asset)
      [] j.asset.assetType = "Solana"   -> UnmarshalSolanaAsset(j.asset)
      [] OTHER                          -> Bad

(* "" stands for the key of zeros.                                         *)
StringToPublicKey(m) ==
    IF m = NoMint THEN ZeroKey ELSE IfGood(m, m.base58)

MakeSolanaAssets(a) ==
    [assetType |-> "Solana",
     mint |-> IF a.id = ZeroKey THEN NoMint ELSE Base58(a.id)]

NewEthereumAsset(a) ==
    [assetType |-> "Ethereum", assetHolder |-> a.id.assetHolder,
     chainID |-> a.id.chainID]

MakeAssetsGPAsAssets(as) ==
    [i \in DOMAIN as |-> IF as[i].backend = SolanaIndex
                           THEN MakeSolanaAssets(as[i])
                           ELSE NewEthereumAsset(as[i])]

(* The asset and its backend have to agree.                                *)
PerunAsset(a, backend) ==
    IF backend = EthereumIndex
      THEN IF a.assetType # "Ethereum" THEN Bad
           ELSE [backend |-> EthereumIndex,
                 id |-> [chainID |-> a.chainID, assetHolder |-> a.assetHolder]]
      ELSE IF a.assetType # "Solana" THEN Bad
           ELSE IfGood(StringToPublicKey(a.mint),
                       [backend |-> SolanaIndex, id |-> StringToPublicKey(a.mint)])

MakePerunAssets(in, backends) ==
    AllOrBad([i \in DOMAIN in \cap DOMAIN backends |-> PerunAsset(in[i], backends[i])])

(* The loop comes to an asset that has no backend beside it.               *)
PerunAssetsPanic(in, backends) ==
    ~(DOMAIN in \subseteq DOMAIN backends) /\ MakePerunAssets(in, backends) # Bad

IsNumber(n) == n \notin {Bad, Null}
AreNumbers(row) == IsFcn(row) /\ \A i \in DOMAIN row : IsNumber(row[i])

IsAsset(a) ==
    IF a.assetType = "Solana"
      THEN a = [assetType |-> "Solana", mint |-> a.mint]
      ELSE /\ a = [assetType |-> "Ethereum", assetHolder |-> a.assetHolder,
                   chainID |-> a.chainID]
           /\ IsNumber(a.chainID)

-----------------------------------------------------------------------------
(* Channel states as the browsers see them, and orders.                    *)

NewChannelState(assets, backends, bals, isFinal) ==
    [assets |-> MakeAssetsGPAsAssets(assets), backends |-> backends,
     balance |-> bals.my, peerBalance |-> bals.peer, isFinal |-> isFinal]

DropFinal(c) ==   \* a slip: isFinal is not copied
    [assets |-> Each(MarshalAsset, c.assets), backends |-> c.backends,
     balance |-> Decimals(c.balance), peerBalance |-> Decimals(c.peerBalance),
     isFinal |-> FALSE]

MarshalChannelState(c) ==
    [assets |-> Each(MarshalAsset, c.assets), backends |-> c.backends,
     balance |-> Decimals(c.balance), peerBalance |-> Decimals(c.peerBalance),
     isFinal |-> c.isFinal]

UnmarshalChannelState(j) ==
    LET assets == AllOrBad(Each(UnmarshalAsset, j.assets))
        my     == Parsed(j.balance)
        peer   == Parsed(j.peerBalance)
    IN  IfGood(assets, IfGood(my, IfGood(peer,
            [assets |-> assets, backends |-> j.backends, balance |-> my,
             peerBalance |-> peer, isFinal |-> j.isFinal])))

(* Two fields with an asset each.                                          *)
MarshalAssets(b, x, y) ==
    [b EXCEPT ![x] = MarshalAsset(@), ![y] = MarshalAsset(@)]

UnmarshalAssets(j, x, y) ==
    LET ax == UnmarshalAsset(j[x])
        ay == UnmarshalAsset(j[y])
    IN  IfGood(ax, IfGood(ay, [j EXCEPT ![x] = ax, ![y] = ay]))

MarshalOrder(o)   == MarshalAssets(o, "base", "quote")
UnmarshalOrder(j) == UnmarshalAssets(j, "base", "quote")

IsOrder(o) ==
    /\ Fields(o, {"base", "quote"}) /\ Null \notin {o.base, o.quote}
    /\ IsAsset(o.base) /\ IsAsset(o.quote)

(* What is left of an order that is absent: it has no assets.              *)
ZeroOrder == [id |-> "", channelID |-> "", side |-> "", base |-> Null, quote |-> Null]

(* Two fields with a list of orders each.                                  *)
MarshalRows(b, x, y) ==
    [b EXCEPT ![x] = Each(MarshalOrder, @), ![y] = Each(MarshalOrder, @)]

UnmarshalRows(j, x, y) ==
    LET rx == AllOrBad(Each(UnmarshalOrder, j[x]))
        ry == AllOrBad(Each(UnmarshalOrder, j[y]))
    IN  IfGood(rx, IfGood(ry, [j EXCEPT ![x] = rx, ![y] = ry]))

MarshalSnapshot(s)   == MarshalRows(s, "bids", "asks")
UnmarshalSnapshot(j) == UnmarshalRows(j, "bids", "asks")
MarshalDelta(d)      == MarshalRows(d, "added", "updated")
UnmarshalDelta(j)    == UnmarshalRows(j, "added", "updated")

-----------------------------------------------------------------------------
(* Signed states.  An address knows its backend; its bytes do not.         *)

SerialiseApp(app) ==
    CASE app.kind = "NoApp"   -> [appType |-> "NoApp"]
      [] app.kind = "MockApp" -> [appType |-> "MockApp", def |-> app.def]
      [] OTHER                -> Bad

DeserialiseApp(j) ==
    CASE j.appType = "NoApp"   -> [kind |-> "NoApp"]
      [] j.appType = "MockApp" -> [kind |-> "MockApp", def |-> j.def]
      [] OTHER                 -> Bad

(* A collision-free hash of the parameters.                                *)
ParamsID(p) == [hash |-> p]

MarshalPart(part) == [b \in DOMAIN part |-> Base64(part[b].bytes)]

UnmarshalPart(j) == [b \in DOMAIN j |-> [backend |-> b, bytes |-> j[b].base64]]

MarshalParams(p) ==
    [id |-> ParamsID(p), parts |-> Each(MarshalPart, p.parts),
     app |-> SerialiseApp(p.app), nonce |-> Decimal(p.nonce)]

UnmarshalParams(j) ==
    LET app   == DeserialiseApp(j.app)
        nonce == ParseDecimal(j.nonce)
        p     == [parts |-> Each(UnmarshalPart, j.parts), app |-> app, nonce |-> nonce]
    IN  IfGood(app, IfGood(nonce, IF ParamsID(p) = j.id THEN p ELSE Bad))

AssetBytes(a) == Base64(a.id)

MarshalLocked(l)   == [l EXCEPT !.bals = Decimals(@)]
UnmarshalLocked(j) == IfGood(Parsed(j.bals), [j EXCEPT !.bals = Parsed(@)])

MarshalState(s) ==
    [s EXCEPT !.assets = Each(AssetBytes, @), !.balances = Each(Decimals, @),
              !.locked = Each(MarshalLocked, @), !.app = SerialiseApp(@)]

(* There are as many backends as assets: those that are missing are 0.     *)
StateBackends(j) ==
    [i \in DOMAIN j.assets |-> IF i \in DOMAIN j.backends THEN j.backends[i] ELSE 0]

UnmarshalState(j) ==
    LET app      == DeserialiseApp(j.app)
        backends == StateBackends(j)
        assets   == [i \in DOMAIN j.assets |->
                        [backend |-> backends[i], id |-> j.assets[i].base64]]
        balances == AllOrBad(Each(Parsed, j.balances))
        locked   == AllOrBad(Each(UnmarshalLocked, j.locked))
    IN  IF j.data = Null THEN Bad
        ELSE IfGood(app, IfGood(balances, IfGood(locked,
            [j EXCEPT !.assets = assets, !.backends = backends, !.balances = balances,
                      !.locked = locked, !.app = app])))

MarshalSignedState(s) ==
    IF SerialiseApp(s.params.app) = Bad \/ SerialiseApp(s.state.app) = Bad
      THEN Bad
      ELSE [params |-> MarshalParams(s.params), state |-> MarshalState(s.state),
            sigs |-> s.sigs]

UnmarshalSignedState(j) ==
    LET params == UnmarshalParams(j.params)
        state  == UnmarshalState(j.state)
    IN  IfGood(params, IfGood(state,
            [params |-> params, state |-> state, sigs |-> j.sigs]))

(* More backends than assets are written past the end of the list, and     *)
(* go-perun has no address or asset for a backend that is not registered.  *)
StatePanics(j) ==
    /\ DeserialiseApp(j.app) # Bad /\ j.data # Null
    /\ \/ ~(DOMAIN j.backends \subseteq DOMAIN j.assets)
       \/ ~(Values(StateBackends(j)) \subseteq Registered)

SignedStatePanics(j) ==
    \/ \E i \in DOMAIN j.params.parts : ~(DOMAIN j.params.parts[i] \subseteq Registered)
    \/ UnmarshalParams(j.params) # Bad /\ StatePanics(j.state)

(* A signed state as go-perun makes it: an app of either kind, a map from  *)
(* backends to addresses for each participant, and for each asset its      *)
(* backend beside it and a row of balances.                                *)
IsApp(app) ==
    /\ app.kind = "NoApp"   => app = [kind |-> "NoApp"]
    /\ app.kind = "MockApp" => app = [kind |-> "MockApp", def |-> app.def]

IsPart(part) ==
    /\ part = [b \in DOMAIN part |-> [backend |-> b, bytes |-> part[b].bytes]]
    /\ DOMAIN part \subseteq Registered

IsParams(p) ==
    /\ p = [parts |-> p.parts, app |-> p.app, nonce |-> p.nonce]
    /\ IsApp(p.app) /\ IsNumber(p.nonce)
    /\ IsFcn(p.parts) /\ \A i \in DOMAIN p.parts : IsPart(p.parts[i])

IsState(s) ==
    /\ Fields(s, {"assets", "backends", "balances", "locked", "app", "data"})
    /\ IsApp(s.app) /\ s.data # Null
    /\ s.assets = [i \in DOMAIN s.assets |->
                       [backend |-> s.backends[i], id |-> s.assets[i].id]]
    /\ s.backends = [i \in DOMAIN s.assets |-> s.backends[i]]
    /\ Values(s.backends) \subseteq Registered
    /\ IsFcn(s.balances) /\ \A i \in DOMAIN s.balances : AreNumbers(s.balances[i])
    /\ IsFcn(s.locked)
    /\ \A i \in DOMAIN s.locked :
          Fields(s.locked[i], {"bals"}) /\ AreNumbers(s.locked[i].bals)

IsSignedState(s) ==
    /\ s = [params |-> s.params, state |-> s.state, sigs |-> s.sigs]
    /\ IsParams(s.params) /\ IsState(s.state)

-----------------------------------------------------------------------------
(* Messages.                                                               *)

MessageTypes ==
    {"Request", "Response", "EthereumInitialize", "SolanaInitialize",
     "CrossContractInitialize", "Initialized", "GetChains", "GetChainsResponse",
     "GetAssets", "GetAssetsResponse", "GetDecimals", "GetDecimalsResponse",
     "GetBalance", "GetHubBalance", "GetBalanceResponse", "GetTimeout",
     "GetTimeoutResponse", "GetQuote", "GetQuoteResponse", "GetFunds",
     "GetFundsResponse", "OpenChannel", "UpdateChannel", "ChannelProposal",
     "ProposalResponse", "ChannelCreated", "CloseChannel", "ChannelClosed",
     "GetChannelInfo", "ChannelInfo", "GetSignedState", "SendSignedState",
     "SignedState", "SignETHData", "SignSolData", "SendETHTx",
     "SendETHTxResponse", "SendSolTx", "SendSolTxResponse", "SignResponse",
     "FundingError", "OrderBookSnapshot", "OrderBookDelta", "CreateOrder",
     "CreateOrderAck", "CancelOrder", "CancelOrderAck", "AcceptOrder",
     "AcceptOrderAck", "GetOrderBook", "GetOrderBookResponse", "Error",
     "Success", "MockMessage"}

Message(type, body) == [type |-> type, body |-> body]

WithState == {"OpenChannel", "UpdateChannel", "ChannelProposal", "ChannelInfo"}
Signed    == {"SignedState", "SendSignedState"}
Envelopes == {"Request", "Response"}

MarshalGetQuote(b)   == MarshalAssets(b, "fromAsset", "toAsset")
UnmarshalGetQuote(j) == UnmarshalAssets(j, "fromAsset", "toAsset")

(* Lists that are made from maps are in no order.                          *)
MarshalGetAssetsResponse(b) ==
    [ethereumAssets |-> {MarshalConfig(EthereumTypeNames, c) : c \in b.ethereumAssets},
     solanaAssets   |-> {MarshalConfig(SolanaTypeNames, c) : c \in b.solanaAssets}]

UnmarshalGetAssetsResponse(j) ==
    LET eth == {UnmarshalConfig(EthereumTypeNames, c) : c \in j.ethereumAssets}
        sol == {UnmarshalConfig(SolanaTypeNames, c) : c \in j.solanaAssets}
    IN  IF Bad \in eth \cup sol THEN Bad
        ELSE [ethereumAssets |-> eth, solanaAssets |-> sol]

(* The chains by their IDs.                                                *)
UnmarshalGetChainsResponse(j) ==
    LET ids == {Opt(ParseDecimal, id) : id \in j.chains}
    IN  IF Bad \in ids THEN Bad ELSE [chains |-> ids]

(* GetDecimals and GetHubBalance.                                          *)
MarshalAssetField(b) == [b EXCEPT !.asset = MarshalAsset(@)]
UnmarshalAssetField(j) ==
    IfGood(UnmarshalAsset(j.asset), [j EXCEPT !.asset = UnmarshalAsset(@)])

UnmarshalCreateOrder(j) ==
    LET order == IF j.order = Null THEN ZeroOrder ELSE UnmarshalOrder(j.order)
    IN  IfGood(order, [j EXCEPT !.order = order])

MarshalGetOrderBookResponse(b) ==
    [b EXCEPT !.snapshot = Opt(MarshalSnapshot, @), !.delta = Opt(MarshalDelta, @)]

UnmarshalGetOrderBookResponse(j) ==
    LET snapshot == Opt(UnmarshalSnapshot, j.snapshot)
        delta    == Opt(UnmarshalDelta, j.delta)
    IN  IfGood(snapshot, IfGood(delta,
            [j EXCEPT !.snapshot = snapshot, !.delta = delta]))

(* The transaction is go-ethereum's.                                       *)
UnmarshalSendETHTx(j) ==
    LET id == Opt(ParseDecimal, j.chainID)
    IN  IfGood(id, [j EXCEPT !.chainID = id])

MarshalBody(type, b) ==
    CASE type \in WithState   -> [b EXCEPT !.state = MarshalChannelState(@)]
      [] type \in Signed      -> MarshalSignedState(b)
      [] type = "CreateOrder" -> [b EXCEPT !.order = MarshalOrder(@)]
      [] type = "OrderBookSnapshot"    -> MarshalSnapshot(b)
      [] type = "OrderBookDelta"       -> MarshalDelta(b)
      [] type = "GetOrderBookResponse" -> MarshalGetOrderBookResponse(b)
      [] type = "GetQuote"    -> MarshalGetQuote(b)
      [] type \in {"GetDecimals", "GetHubBalance"} -> MarshalAssetField(b)
      [] type = "GetBalance"  -> [b EXCEPT !.asset = MarshalSolanaAsset(@)]
      [] type = "GetTimeout"  -> [timeoutType |-> TimeoutNames[b.timeoutType + 1]]
      [] type = "GetAssets"   -> [chainIDs |-> Decimals(b.chainIDs)]
      [] type = "GetAssetsResponse" -> MarshalGetAssetsResponse(b)
      [] type = "GetChainsResponse" -> [chains |-> {Decimal(id) : id \in b.chains}]
      [] type = "SendETHTx"   -> [b EXCEPT !.chainID = Decimal(@)]
      [] OTHER                -> b

UnmarshalBody(type, j) ==
    CASE type \in WithState   ->
            LET state == UnmarshalChannelState(j.state)
            IN  IfGood(state, [j EXCEPT !.state = state])
      [] type \in Signed      -> UnmarshalSignedState(j)
      [] type = "CreateOrder" -> UnmarshalCreateOrder(j)
      [] type = "OrderBookSnapshot"    -> UnmarshalSnapshot(j)
      [] type = "OrderBookDelta"       -> UnmarshalDelta(j)
      [] type = "GetOrderBookResponse" -> UnmarshalGetOrderBookResponse(j)
      [] type = "GetQuote"    -> UnmarshalGetQuote(j)
      [] type \in {"GetDecimals", "GetHubBalance"} -> UnmarshalAssetField(j)
      [] type = "GetBalance"  -> [j EXCEPT !.asset = UnmarshalSolanaAsset(@)]
      [] type = "GetTimeout"  ->
            IfGood(ReadName(TimeoutNames, j.timeoutType),
                   [timeoutType |-> ReadName(TimeoutNames, j.timeoutType)])
      [] type = "GetAssets"   -> IfGood(Parsed(j.chainIDs), [chainIDs |-> Parsed(j.chainIDs)])
      [] type = "GetAssetsResponse" -> UnmarshalGetAssetsResponse(j)
      [] type = "GetChainsResponse" -> UnmarshalGetChainsResponse(j)
      [] type = "SendETHTx"   -> UnmarshalSendETHTx(j)
      [] OTHER                -> j

(* JSONObject: the type's name goes with the message.                      *)
MarshalObject(m) ==
    LET j == MarshalBody(m.type, m.body)
    IN  IfGood(j, [type |-> m.type, message |-> j])

UnmarshalObject(obj) ==
    IF obj.type \notin MessageTypes THEN Bad
    ELSE LET body == UnmarshalBody(obj.type, obj.message)
         IN  IfGood(body, Message(obj.type, body))

(* A request or a response carries a message of another type, or none.     *)
Marshal(m) ==
    IF m.type \in Envelopes
      THEN LET inner == Opt(MarshalObject, m.body.message)
           IN  IfGood(inner, [type |-> m.type, message |-> [m.body EXCEPT !.message = inner]])
      ELSE MarshalObject(m)

Unmarshal(obj) ==
    IF obj = Bad THEN Bad
    ELSE IF obj.type \in Envelopes
      THEN LET inner == Opt(UnmarshalObject, obj.message.message)
           IN  IfGood(inner, Message(obj.type, [obj.message EXCEPT !.message = inner]))
      ELSE UnmarshalObject(obj)

-----------------------------------------------------------------------------
(* What cannot be written or read.                                         *)

Carried(m)     == IF m.type \in Envelopes THEN m.body.message ELSE m
CarriedJSON(o) == IF o.type \in Envelopes THEN o.message.message ELSE o

RowOrders(b, x, y) == Values(b[x]) \cup Values(b[y])

Orders(type, b) ==
    CASE type = "CreateOrder"       -> {b.order}
      [] type = "OrderBookSnapshot" -> RowOrders(b, "bids", "asks")
      [] type = "OrderBookDelta"    -> RowOrders(b, "added", "updated")
      [] type = "GetOrderBookResponse" ->
            (IF b.snapshot = Null THEN {} ELSE RowOrders(b.snapshot, "bids", "asks"))
            \cup (IF b.delta = Null THEN {} ELSE RowOrders(b.delta, "added", "updated"))
      [] OTHER -> {}

(* The chain IDs that may be nil.                                          *)
ChainIDs(type, b) ==
    CASE type = "SendETHTx"         -> {b.chainID}
      [] type = "GetChainsResponse" -> b.chains
      [] type = "GetAssetsResponse" ->
            {c.chainID : c \in b.ethereumAssets \cup b.solanaAssets}
      [] OTHER -> {}

(* marshalAsset calls a method of the asset: a nil pointer.                *)
WritePanics(m) ==
    LET c == Carried(m)
    IN  c # Null /\ \E o \in Orders(c.type, c.body) : Null \in {o.base, o.quote}

ReadPanics(obj) ==
    obj # Bad /\ LET o == CarriedJSON(obj)
                 IN  o # Null /\ o.type \in Signed /\ SignedStatePanics(o.message)

(* Nothing that the message's type needs is nil.                           *)
IsWhole(m) ==
    LET c == Carried(m)
    IN  ~WritePanics(m) /\ (c # Null => Null \notin ChainIDs(c.type, c.body))

(* What encoding/json sees to before it calls the functions above: structs *)
(* are structs and lists are lists.  An envelope is not put into another.  *)
IsRowsJSON(j, x, y) ==
    /\ Fields(j, {x, y})
    /\ \A o \in Values(j[x]) \cup Values(j[y]) : Fields(o, {"base", "quote"})

IsStateJSON(j) ==
    /\ Fields(j, {"assets", "backends", "balances", "locked", "app", "data"})
    /\ \A i \in DOMAIN j.locked : Fields(j.locked[i], {"bals"})

IsBodyJSON(type, j) ==
    CASE type \in WithState   -> Fields(j, {"state"})
      [] type \in Signed      -> IsStateJSON(j.state)
      [] type = "CreateOrder" ->
            Fields(j, {"order"}) /\ (j.order # Null => Fields(j.order, {"base", "quote"}))
      [] type = "OrderBookSnapshot"    -> IsRowsJSON(j, "bids", "asks")
      [] type = "OrderBookDelta"       -> IsRowsJSON(j, "added", "updated")
      [] type = "GetOrderBookResponse" ->
            /\ Fields(j, {"snapshot", "delta"})
            /\ j.snapshot # Null => IsRowsJSON(j.snapshot, "bids", "asks")
            /\ j.delta # Null => IsRowsJSON(j.delta, "added", "updated")
      [] type = "GetQuote"    -> Fields(j, {"fromAsset", "toAsset"})
      [] type \in {"GetDecimals", "GetHubBalance", "GetBalance"} -> Fields(j, {"asset"})
      [] type = "GetAssetsResponse" ->
            \A c \in j.ethereumAssets \cup j.solanaAssets : Fields(c, {"type", "chainID"})
      [] type = "SendETHTx"   -> Fields(j, {"chainID"})
      [] OTHER                -> TRUE

IsFrame(obj) ==
    /\ obj # Null
    /\ IF obj.type \in Envelopes
         THEN /\ Fields(obj.message, {"message"})
              /\ LET o == obj.message.message
                 IN  o # Null => o.type \notin Envelopes /\ IsBodyJSON(o.type, o.message)
         ELSE IsBodyJSON(obj.type, obj.message)

(* What Read makes of what Write has written.                              *)
Survives(m) ==
    ~WritePanics(m) /\ ~ReadPanics(Marshal(m)) /\ Unmarshal(Marshal(m)) = m
=============================================================================
