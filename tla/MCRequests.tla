------------------------------ MODULE MCRequests ------------------------------
(* An instance of Requests for TLC: two Ethereum and two Solana chains     *)
(* with six assets, one channel, one other client that has an order in the *)
(* book, and a browser that sends one request of every kind, right and     *)
(* wrong ones, two at a time.                                              *)
EXTENDS Requests, TLC

CONSTANTS h1, h2, key, key2, stranger, alice, bob, hub, chID

Mint == Base58(key)

EthRow(code, type, holder) ==
    [code |-> code, type |-> type, assetHolder |-> holder, chainID |-> 0]

TwoEthChains ==
    << [chainID |-> 1, assets |-> <<EthRow("ETH", 0, h1), EthRow("PRN", 1, h2)>>],
       [chainID |-> 2, assets |-> <<EthRow("ETH2", 0, h1)>>] >>

SolRow(code, type, mint) == [code |-> code, type |-> type, mint |-> mint, chainID |-> 6]

(* Only the first is used.                                                 *)
TwoSolChains ==
    << [chainID |-> 6, assets |-> <<SolRow("SOL", 0, NoMint), SolRow("USDC", 1, Mint)>>],
       [chainID |-> 7, assets |-> <<SolRow("USDT", 1, Base58(key2))>>] >>

Eth(holder, id) == [assetType |-> "Ethereum", assetHolder |-> holder, chainID |-> id]
Sol(mint)       == [assetType |-> "Solana", mint |-> mint]

State(assets, backends, isFinal) ==
    [assets |-> assets, backends |-> backends,
     balance |-> [i \in DOMAIN assets |-> 1], peerBalance |-> [i \in DOMAIN assets |-> 2],
     isFinal |-> isFinal]

Both == State(<<Eth(h1, 1), Sol(NoMint)>>, <<1, 6>>, FALSE)

Row(x, y) == [i \in Parts |-> IF i = 0 THEN x ELSE y]
Part(a)   == [b \in {EthereumIndex, SolanaIndex} |-> [backend |-> b, bytes |-> <<a, b>>]]

SignedStateOf(app) ==
    [params |-> [parts |-> <<Part(alice), Part(bob)>>, app |-> app, nonce |-> 7],
     state  |-> [id |-> chID, version |-> 3, app |-> app,
                 assets |-> << [backend |-> 1, id |-> [chainID |-> 1, assetHolder |-> h1]],
                               [backend |-> 6, id |-> key] >>,
                 backends |-> <<1, 6>>, balances |-> <<Row(1, 3), Row(2, 0)>>,
                 locked |-> <<[id |-> bob, bals |-> <<1, 0>>, indexMap |-> <<1, 0>>]>>,
                 data |-> "none", isFinal |-> TRUE],
     sigs   |-> <<alice, bob>>]

OneChannel == {[id |-> chID, idx |-> 1, signed |-> SignedStateOf([kind |-> "NoApp"])]}

Order(id, side) ==
    [id |-> id, channelID |-> chID, side |-> side, base |-> Sol(Mint), quote |-> Eth(h2, 1)]

OneBook == {Key(chID, "ask", "o2") :> Order("o2", "ask")}
Listed   == [bids |-> "o1" :> Order("o1", "bid"), asks |-> <<>>]

Open(state) == Message("OpenChannel", [peer |-> bob, state |-> state])

Messages ==
    { Message("GetChains", <<>>), Message("GetFunds", <<>>), Message("MockMessage", <<>>),
      Message("GetAssets", [chainIDs |-> <<1, 2>>]),
      Message("GetAssets", [chainIDs |-> <<9>>]),
      Message("GetAssets", [chainIDs |-> <<>>]),
      Message("GetDecimals", [asset |-> Eth(h2, 1)]),
      Message("GetDecimals", [asset |-> Sol(Mint)]),
      Message("GetTimeout", [timeoutType |-> 2]),
      Message("GetBalance", [asset |-> Sol(Mint)]),
      Message("GetChannelInfo", [id |-> chID]),
      Message("GetChannelInfo", [id |-> stranger]),
      Message("GetSignedState", [id |-> chID]),
      Message("SignedState", SignedStateOf([kind |-> "NoApp"])),
      Message("SendSignedState", SignedStateOf([kind |-> "MockApp", def |-> alice])),
      Message("CreateOrder", [order |-> Order("o1", "bid")]),
      Message("CreateOrder", [order |-> Order("o1", "none")]),
      Message("CancelOrder", [channelID |-> chID, id |-> "o1"]),
      Message("AcceptOrder", [channelID |-> chID, id |-> "o2"]),
      Message("GetOrderBook", [channelID |-> chID]),
      Message("OrderBookDelta", [added |-> Listed.bids, updated |-> <<>>, removed |-> <<>>]),
      Message("Request", [id |-> 1, message |-> Message("GetChainsResponse", [chains |-> {1}])]),
      Message("GetQuote", [fromAsset |-> Sol(NoMint), toAsset |-> Eth(h1, 2), hub |-> hub]),
      Message("GetHubBalance", [asset |-> Sol(Mint), hub |-> hub]),
      Message("GetHubBalance", [asset |-> Sol(Mint), hub |-> stranger]),
      Open(Both),
      Open(State(<<Sol(Mint)>>, <<6>>, FALSE)),
      Open(State(<<Sol(Mint)>>, <<1>>, FALSE)),
      Open(State(<<Sol(Mint)>>, <<>>, FALSE)),
      Open(State(<<Sol(Base58(key2))>>, <<6>>, FALSE)),
      Open(State(<<Eth(h2, 2)>>, <<1>>, FALSE)),
      Message("UpdateChannel", [id |-> chID, state |-> [Both EXCEPT !.isFinal = TRUE]]),
      Message("CloseChannel", [id |-> chID, forceClose |-> TRUE]) }

Frame(type, message) == [type |-> type, message |-> message]
SignedFrame == Marshal(Message("SignedState", SignedStateOf([kind |-> "NoApp"])))

(* Unknown names, fields that are absent, and lists that do not match.     *)
WrongFrames ==
    { Bad, Frame("NoSuchType", <<>>),
      Frame("GetTimeout", [timeoutType |-> "NoSuchTimeout"]),
      Frame("GetTimeout", [timeoutType |-> Null]),
      Frame("GetDecimals", [asset |-> [asset |-> [assetType |-> "Stellar"]]]),
      Frame("CreateOrder", [order |-> Null]),
      Frame("SendETHTx", [transaction |-> "tx", chainID |-> Null]),
      Frame("GetAssets", [chainIDs |-> <<Decimal(Null)>>]),
      [SignedFrame EXCEPT !.message.sigs = Null],
      [SignedFrame EXCEPT !.message.state.backends = <<1, 6, 6>>],
      [SignedFrame EXCEPT !.message.state.backends = <<1>>],
      Marshal(Open([Both EXCEPT !.backends = Null])) }

AllFrames == {Marshal(m) : m \in Messages} \cup WrongFrames

OneHub    == {hub}
TwoQuotes == {Message("GetQuoteResponse", [crossQuote |-> 1]),
              Message("GetBalanceResponse", [balance |-> "5"])}
=============================================================================
