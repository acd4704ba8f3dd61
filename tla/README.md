# Formal model of the Perun L2 trade DEX server

TLA+ modules, TLC configurations and TLAPS proofs for `perun-l2trade-dex`: a Go
server that connects browsers with a ledger channel between them, keeps an order
book per channel, and streams the book's changes. The models follow the code in
`internal/` and `web/js/`; where this text names a file, it is below `src/`.

    tlc -workers 2 -config OrderView.cfg MCOrderView.tla       # any run of PROJECT.json
    tlapm OrderBookProofs.tla                                  # the proofs of a module

## 1. The system

| Component | State | Operations | Talks to |
|---|---|---|---|
| Order book engine, `internal/orderbook/engine .go`, `internal/client/orderbook_handler.go` | per channel: `bids`, `asks`, `totalOpen`, `sequence` under `mu`; `subscribers` under `subMu` | `CreateOrder`, `CancelOrder`, `AcceptOrder` (reads only), `Snapshot`, `Subscribe`, `Unsubscribe`, one `broadcast` goroutine per change | request handlers of `/connect`; streams through Go channels |
| Order book stream, `internal/websocket/orderbook.go` | a channel of 64 frames | snapshot, subscribe, forward, ping, unsubscribe | one websocket per stream |
| Browser order view, `web/js/orderbook.js` | `bids`, `asks` | `handleSnapshot`, `handleDelta`, `createOrder`, `cancelOrder`, `acceptOrder` | websocket |
| Connection, `internal/message/connection.go`, `request.go`, `messagehandler.go` | `reserve` (16 slots), `requestCounter`, `responseHandlers`, `closer` | `Handle`, a goroutine per request, `Request`, `Close`, pings | browser; `requestHandler` |
| Client registry, `internal/client/registry.go`, `internal/websocket/entrypoint.go` | `m`, `l2Addresses` under one `RWMutex` | `Register`, `Remove`, `Get` | every connection |
| Client life cycle, `internal/client/client.go` | two goroutines, a condition variable, the connection's `closer`, the Perun client | `NewClient`, `Run`, `shutdown`, `CloseWithError` | connection, registry, go-perun |
| Channels and proposals, `internal/client/channel.go`, `proposal.go` | `Client.channels` | open, update, close, `channelCreated`, adjudicator events, proposals | go-perun, browser, the peer's `Client` |
| Request handlers, `internal/client/reqhandler.go` | none, but a goroutine per quote | queries, quotes | connection of another client |
| Wallets and senders, `internal/wallet`, `internal/client/websocketsender.go` | sender of the transactor | sign and send through the browser, retry once | connection, chains |
| Messages, `internal/message` | none | JSON, balances | all |
| Set-up, deployment, rest of the web UI | - | - | - |

What is hard here: goroutines everywhere and no test in the repository.
Broadcasts are asynchronous and lossy on purpose; one connection carries requests
in both directions; the registry is shared by all clients and changed in two
steps; and a client can be shut down from two goroutines. `PROJECT.json` lists
every hazard with the line at which it bites.

What makes each part correct:

* **Order book**: the count matches the orders; a delta is handed to a stream at
  most once, only while it is subscribed, and never on a closed channel;
  broadcasts and departures end; what a stream gets without a gap rebuilds the book.
* **Connection**: at most the allowed number of requests is open and no slot is
  lost; an answer goes to who asked; the reader never blocks on a goroutine that
  will not receive.
* **Registry and life cycle**: one client per address; a session's removal takes
  out that session only and all of it; a lookup answers for one moment; a closed
  client is removed.
* **Channels**: a browser is told that a channel exists only when both clients hold
  it and both have paid; no state counts that one of the browsers has not agreed to,
  whoever proposes and however late an answer comes; the two clients are never more
  than a version apart and never past a final state; a cooperative close settles a
  final state; a channel reported closed has been paid out; nobody waits for ever
  without an answer.
* **Trading**: the agreed balances change by whole swaps between a maker and a
  taker; what a browser shows has been agreed on; an accepted order disappears.
* **Requests and messages**: every request is answered; a quote is the hub's own; what
  reaches the chain has been signed; a message is read as it was written, balances
  and assets included; the assets that are listed are the ones a channel may have.

## 2. Modules

| Module | Models | State and actions |
|---|---|---|
| `OrderBook` | `Book` and `ServeOrderBookStream` | The maps are their key sets. Calls under `mu` are one action each. A delta is `pending` until its goroutine holds `subMu` for reading (`casting`); `todo` are the sends left; `Offer` is the non-blocking send. A stream's `status` says where its handler stands. |
| `OrderFeed` | what the book promises its streams | abstract: changes are numbered, each is handed to a stream at most once while it takes part |
| `OrderView` | `handleSnapshot` and `handleDelta` on the frames of a stream | extends `OrderBook` with a `history` of the book and the `view` of every client, which follows the frames in the step that hands them over; rows are bags, as the browser's arrays are only sorted for display |
| `Connection` | `Handle`, `Request`, `reserve`, `responseHandlers` | `pc` says where each goroutine stands; the reader is a variable of its own; `Empty` is a request or response without a message |
| `Registry` | `Registry` and its `RWMutex`, `startClient` | no specification of its own, so that another module can compose it |
| `ClientLifecycle` | `Run`, `shutdown`, `Connection.Close` on top of `Registry` | the condition variable forgets signals no one waits for; `step` is where each of the two callers stands in `shutdown` |
| `ChannelLifecycle` | `channel.go` and `proposal.go` at both clients of a channel | `pc` is the goroutine that opens the channel, up to `channelCreated`; `Watch` is the goroutine that one starts. `lock` is what each client holds its own lock of the channel for (the update it has proposed, or the one its browser is asked about), so both may propose at once; `sent` are the proposals in the peers' queues, which outlive their proposers' waits; `close` is `handleCloseChannel`. A state carries, as history, who proposed it and the browsers that asked for it or accepted it. |
| `Agreement` | what a channel promises its two clients | abstract: a client goes ahead by a state both agreed to or catches up with its peer; the two are at most a version apart, hold different states of a version only after crossed proposals, and the `outcome` is no older than what a watcher holds |
| `Balances` | `MakeBals`, `MakePerunBals` | operators |
| `Swaps` | what trading promises | abstract: agreed balances change by swaps of orders |
| `Trading` | `createOrder`, `acceptOrder`, `cancelOrder`, the polls, `handleUpdateChannel` | requests and answers on their way are sets, since nothing orders them; `agreed` and `accepted` are history |
| `Codec` | `internal/message`: the JSON form of every message | operators; a JSON value is a record whose leaves keep apart what is written differently (decimal, hex, Base58, Base64), with the orders and assets nested in it and the envelope around it; `Bad` is an error, `Null` an absent field; `WritePanics` and `ReadPanics` say what neither ends well nor with an error |
| `Config` | `config.go`, the maps of assets, `checkAssets`, `GetAssets`, `GetDecimals` | operators on the two files |
| `Requests` | `reqhandler.go`, `orderbook_handler.go`, `websocketsender.go` | a `call` goes from its frame to its `reply`; `helper` is what the goroutine that asks the hub still sends; `book` holds the orders of all channels with their assets; `panicked` says that a handler or the reader has ended the server |
| `MC...` | instances for TLC | |
| `...Proofs` | theorems about the module named before `Proofs` | |

`Requests` extends `Config`, that `Codec`, that `Balances`, which `Trading` extends
too; `OrderView` extends `OrderBook`, and `ClientLifecycle` extends `Registry`. The
other modules meet at what they leave open: `Connection` lets a handler ask and
reply as it likes, `Requests` lets an action on a channel end well or with an
error, `Trading` takes an update to be one step, whose steps `ChannelLifecycle` has.

go-perun and the chains are modelled in `ChannelLifecycle` by what the code relies
on: an update is the next version of a state that is not final, takes effect at
the peer when the peer accepts and at the proposer when that answer comes in time;
each client has a lock of its own for a channel, which `Update` holds while it waits
and the handler of an update while the browser is asked; a proposal waits in the
peer's queue for the peer's lock, also when its proposer has given up, and is dropped
there when it is no valid next version any more; an acceptance is taken by who waits
for that very state; `Fund` succeeds when both have deposited; a watcher answers an old state on the
chain with a newer one; `Settle` and updates of a channel exclude each other; any
call may time out.

`sync.RWMutex` is modelled as Go implements it: a writer that has called `Lock`
is announced, readers inside may leave, and no new reader enters, even one whose
goroutine reads already. In `OrderBook` and in `Registry` the variable
`announced` is that writer.

The modules contain *slips*, marked as such: variants of an action with a plausible
bug. They are not part of the specification. Every property of a passing run is broken
by one of them, which shows that the property depends on the code.

`OrderBook` has one book, since books share nothing; a book that does not exist yet
behaves like an empty one. The orders of all channels, for what the requests do to
them and what `GetOrderBook` lists, are in `Requests`. Prices, amounts and time stamps of orders
play no part in the book. The shipped pages poll `GetOrderBook` and never open a
stream; `OrderView` is the client of the stream that `handleSnapshot` and
`handleDelta` are written for.

## 3. Runs

| Run | Instance | Shows |
|---|---|---|
| `order_view` | 2 IDs, 2 streams, channel of 1 frame, 2 changes, IDs fresh | `TypeOK`, `CountIsActiveOrders`, `NoSendOnClosed`, `AtMostOnce`, `ContiguousViewIsBook` |
| `order_book_live` | 1 ID used again at will, 1 stream, channel of 1 frame, 3 changes | `CountCoversOrders`, `ImplementsFeed`, and under fairness `BroadcastEnds`, `FailedStreamLeaves` |
| `order_book_order` | 2 changes, 1 stream | a counterexample to "in sequence order" |
| `order_book_gap` | 2 changes, a channel that never fills | a counterexample to keeping a local snapshot up to date |
| `connection` | 2 browser requests, 1 other goroutine, 1 slot, 2 questions each, 1 unread empty message | slots, matching, the reader, handlers; `RequestFinishes`, `AnswerArrives` |
| `connection_panic` | 1 request | a request that panics after `Handle` has returned |
| `client_lifecycle` | 2 sessions with one Ethereum address and different Solana addresses, 1 lookup | the registry's invariants, `GetIsAccurate`, `ClosedIsRemoved` |
| `channels` | 2 clients, a first state and 2 versions after it, 1 proposal of each in the other's queue | `CreatedMeansBothHold`, `CooperativeCloseIsFinal`, `ClosedMeansPaid`, `ImplementsAgreement`; `OpenIsAnswered`, `BothAreTold` |
| `trading` | 2 assets, a bid and an ask, 2 acceptances, 1 answer on its way to each browser | `ShownWasAgreed`, `ChangesAreSwaps`; `AcceptedDisappears` |
| `requests` | 2 calls at a time, 33 messages and 12 frames that lack or mistake something, 2 Ethereum and 2 Solana chains with 6 assets, one channel, one order of another client, one hub | `MessagesSurvive`, `ListedIsAccepted`, `AnswerIsTheHubs`, `SignedBeforeSent`; `EveryRequestIsAnswered` |
| `registry_deadlock` | 1 session, 1 lookup | `Get` deadlocks with a writer |
| `lost_wakeup` | 1 session | a client of a dead connection that is never removed |

Bounds. Two changes are the least that can overtake each other, and a channel of
one frame is full after the first, so drops happen; three changes let an ID come
twice and be cancelled. Two streams let one leave while the other receives.
`MaxSequence` bounds the changes of a book, `MaxCalls` the questions of one
goroutine, `MaxRequests` is the code's 16 made small enough for two requests to
compete. Two sessions with one address are enough for one to register while the
other is between its two removals; the second slot of an address is the Solana
one, which they do not share. `MaxVersion = 2` allows an update, a final state after
it, an answer to the first that comes after its proposer has gone on, and two
proposals of a version that cross, time out and are both accepted late, which leaves
the clients at different states of it. `MaxSent = 1` lets a proposal of each client
wait at the other, beside one the other's browser is being asked about. A close that failed may be tried again;
one that succeeded is not repeated (`CloseAgain = FALSE`), though the concluded event
settles once more: with `CloseAgain = TRUE` the run passes for `MaxVersion = 1`, and
the proofs are for either. One unread message without content is enough for each
place in the inbox, since dropping it changes nothing. `MaxClicks = 2` lets one browser
take an order twice, both browsers take one each, and one of them take two between
two polls; the two orders differ in side, maker and assets. `MaxAnswers = 1` still
lets an answer arrive after the balances have moved on. In `requests` there is a
message for every case of `HandleRequest` and of the order book's handler, with assets of both kinds and native
ones, supported and not (one of them on the second Solana chain, which `checkAssets`
ignores), a delta and an envelope that go through the same functions, and frames that
are no JSON, of no known type, with unknown names, with fields that are absent (an
order, a chain ID, the signatures, the backends), and with more or fewer backends
than assets; two calls share the connection, the hub and the order book, and
nothing else.
`order_view` uses the symmetry of IDs and streams; runs with liveness use none. `CHECK_DEADLOCK FALSE` is set where the system stops
legitimately: all connections are closed and all requests done (`connection`, `requests`), a
channel is settled or its clients are gone, all orders are settled, or a
counterexample ends the server.

Fairness. Go schedules every goroutine that can run, so each goroutine's steps
are weakly fair. Go's mutexes starve no one that waits, so steps that wait for
one (a broadcast's, a stream's, `Table` and `Lookup` of the registry) are
strongly fair. A stream's write ends within its deadline, hence `Forward`. A goroutine that
panics ends the server, and nothing is fair after that (`crashed`, `panicked`). Not
assumed: that a browser sends or answers anything, that a client places orders,
that a connection fails. `Connection.Handle` returns once the server has closed
the websocket. In `channels`, `ProposeChannel`, `r.Accept` and `Fund` have a
context with a timeout and `channelCreated` a timer, so each ends in one way or
another: `WF` of `GoesOn`, whose disjuncts contain both outcomes, favours neither; an
update or a settlement, and `Watch`, need not be. In
`trading`, a `CancelOrder` that was sent is served and the page polls the book every
five seconds; updates need not be served. In `requests`, a handler goes on by
itself; neither browser has to answer, and the time-out of a quote is what ends the
wait for the hub.

Exemptions. `RequestFinishes` and `AnswerArrives` except lost connections, for
`Request` waits for ever then, and answers the browser owes; an answer without a
message is dropped (`connection.go:131`), and so counts as owed. `ClosedIsRemoved`
excepts a lookup that stands between its two read locks, for that is the deadlock
of `registry_deadlock`. `BothAreTold` excepts a connection that is lost, for
`channelCreated` then returns without a word. `OpenIsAnswered` and
`EveryRequestIsAnswered` except a signature the browser owes, for which the code
waits without a limit; the latter ends, too, when a request panics and the server
with it. `MessagesSurvive` asks of a message that was read only that it survives if it
lacks nothing its type needs (`IsWhole`); of a reply it asks that without a condition.
`ReaderNeverStrands` and `ResponseMatches` rest on a browser that answers with an ID it was asked with. `ContiguousViewIsBook` and `CountIsActiveOrders` need fresh
IDs, which is how `createOrder` of the UI makes them; with an ID that comes twice
only `CountCoversOrders` holds. `NothingMissed` and `StreamInSequenceOrder` say
what the documentation says and fail.

## 4. Where the code and its documentation differ

1. Deltas can arrive out of sequence (`engine .go:158`, against `README.md:188`).
2. A change between snapshot and subscription is missed (`orderbook.go:45-53`,
   against `order.go:54` and `README.md:216`).
3. `close(reserve)` while a request's goroutine has not started to send panics
   (`connection.go:117` and `:145`).
4. `Registry.Get` locks the same `RWMutex` for reading twice (`registry.go:86`, `:98`).
5. A `Signal` before `Wait` is lost (`client.go:79`, `:86`, `:96`), so the close
   handler does not run.

These five have a run. The following were met while modelling; the models do what
the code does, and the properties are stated so as to be true of it:

* `channel.go:193-206`: the opener's map gets the channel before the error of `Fund` is
  looked at. The proposee, which polls that map, is told `ChannelCreated` although
  the opener does not watch the channel. A proposee's own funding error is never
  reported.
* `channel.go:213`: a peer that is no longer registered ends `channelCreated` without a
  message, though its comment (`:187`) promises `ChannelCreated`.
* `channel.go:245`: `channelClosed` says it removes the channel and does not, so a channel
  can be closed, and settled, again; the comment at `:170` relies on the removal.
* `proposal.go:89`: an answer of the browser that comes after the proposer's timeout
  advances the proposee's state alone; the two clients can then agree on no update.
  `channel.go:101`, `:121`: each client's lock is its own, so both may propose at once; each
  then waits for the other's lock until a time-out. If both browsers accept after that, the clients hold two
  different states of one version, both signed by both. `Agreement` allows this, and no more than this.
* `channel.go:209`: a `ch.Watch` that fails is logged only; its client's browser is told
  `ChannelCreated` all the same, and later neither that the channel was closed nor that
  an outdated state was concluded.
* `connection.go:131`, `:137`: a request or response without a message is logged and
  dropped; who asked waits on. A response of an unknown ID is logged and then sent
  on a nil channel, so that the reader waits for ever.
* `assetmarshal.go:13`: a `CreateOrder` without `order` is read, with nil assets, and could not be written
  again without a panic; it is refused for its side (`engine .go:140`), not for its assets.
* `asset.go:94`: an `OpenChannel` with fewer backends than assets panics in its handler.
  `state.go:318`: a `SignedState` with more backends than assets panics in the reader; one
  with a backend that go-perun has not registered does so at `:244` or `:327`. Nothing recovers,
  so either ends the server.
* `sendtransaction.go:41`: the wait for a signature has no limit and ignores the
  context of its caller. `request.go:25` waits for ever when the connection is lost.
* `orderbook.js:141`: balances are computed from those last polled, so that of two
  orders accepted between two polls the update that is served last undoes the other;
  `README.md:14` calls swaps atomic. `ChangesAreSwaps` says what is left: every update
  is one whole swap from balances that were once agreed on.
* `reqhandler.go:304`: after a timeout or an error, the goroutine that asks the hub
  stays blocked on `rspChan`.
* `websocketsender.go:43`: the error of `SendTransaction` is dropped.
* `reqhandler.go`, `HandleRequest`: the switch has a case for `SignedState` but a browser
  sends `SendSignedState` (`message.go:250`), which succeeds unchecked.
* `config.go:138`: the comment says the chain's ID is applied to a Solana asset; only
  duplicates are looked for.

## 5. Proofs

`OrderBookProofs` proves for every set of IDs and streams, every capacity and
every bound on the changes:

* `TypeCorrect`: `Spec => []TypeOK`. Among its parts is that a channel never holds
  more frames than its capacity.
* `CountCovers`: `Spec => []CountCoversOrders`. The inductive invariant adds that
  the two sets are finite.
* `CountExact`: `Spec => []CountIsActiveOrders` if `FreshIDs`. It needs, besides, that
  every listed ID has been used and that no ID stands on both sides.
* `HandedOnce`: `Spec => []AtMostOnce`. A frame could only arrive twice if two
  deltas had one sequence number, so the invariant says where the delta of each
  number is: pending, being broadcast, or handed out, and that no pair still to be
  visited has been visited.
* `ClosedNeverSentOn`: `Spec => []NoSendOnClosed`. `todo` names only subscribers, a
  subscriber is streaming or leaving, and subscribers change only while no
  broadcast runs.
* `BookImplementsFeed`: `Spec => ImplementsFeed`, a refinement under the mapping
  `published <- sequence`, `part` from `status`, `seen` from `taken` and `queue`;
  it rests on the invariants above.

`OrderViewProofs` proves `ContiguousIsExact`: `ViewSpec => []ContiguousViewIsBook`, if
`FreshIDs`. It is a proof of what a delta says: the `history` has the book's rows
after every change, each delta on the way (pending, being broadcast or in a channel)
explains the step from the rows before its change to those after it, a snapshot in a
channel has the rows of its number, and a client that has had no gap so far shows the rows of the
last change it knows of. Applying an explained delta to the rows before it gives the rows
after it, as bags; `OrderBookProofs` gives the rest, by citing its invariant for the book.

`ClientLifecycleProofs` proves for every set of sessions and lookups and every
choice of their addresses, shared ones included:

* `TypeCorrect`: `Spec => []TypeOK`. The invariant adds that the number of read locks
  a goroutine holds is the `Depth` of the label it stands at, without which a
  decrement could leave the type.
* `RunningStaysRegistered`, `RemovedLeavesNothing`, `OneClient`: `RunningIsRegistered`,
  `RemovedIsForgotten` and `OneClientPerAddress`. None is inductive: they say nothing
  of a session between its two `Remove` calls. `TableInv` says label by label what a
  session owns in the table (`Registered`, `HalfRemoved` with its Solana address only,
  `Unregistered`), that what it has read before a delete is itself, and that every
  address leads to a session it belongs to. A delete of one session then finds only
  its own entry, whatever others have registered since the read.
* `GetAnswersAtOnce`: `Spec => GetIsAccurate`. `ReadInv` says that what a getter has
  read from the first table is still there: it holds a read lock, so no writer is
  inside. With `TableInv`, the key it then looks up is the one client at the address.

* `FoundIsOpen`: `RegisteredIsOpen`. A websocket is closed by the caller of `shutdown`
  that ran the close handler, hence after it; the invariant `Gone` says so for each
  place that caller can stand at.

Only the steps that touch the table matter for these; `StepsOfTable` reduces every
step of `Next` to one of them.

`ConnectionProofs` proves all five invariants of `Connection` for any number of
requests, slots and questions, `TypeOK` among them:

* `AnswersMatch`, `EntriesAreCalls`: every goroutine that waits has its own entry in
  the table, under an ID no other call has and none above the counter (`Entries`).
* `ReaderIsFree` needs to know where an answer can be: each question is with the
  browser, in the inbox or in the reader's hand, in one of them only, and is still
  waited for (`Transit`, `Delivery`).
* `SlotsAreKept`: the slots that are taken are counted by the goroutines that hold
  one, by lemmas on the cardinality of that set; every request comes once (`Sent`).

`ChannelProofs` proves the four invariants of `channels`, and that the channel
implements `Agreement`, for every `MaxVersion`, `MaxSent` and `CloseAgain`. They
rest on one conjunction: `Opening` (what holds once a client has got
to a step of the set-up), `NotFarApart` (how the two clients' states can differ),
`Negotiation` (what is proposed or on its way, however old), `AgreedByBoth`,
`FinalIsHeld` (a final state that is concluded is still one client's state),
`Closing`, `CreatedMeansBothHold` and `ClosedMeansPaid`.

* `NotFarApart` is what late and crossed answers leave: who is ahead has taken a
  proposal of the other, which is at no final state, and two different states of a
  version have each been proposed by the other client. It is inductive only
  with `Negotiation`: a proposal that waits, or that a browser looks at, is no further than the
  version after its proposer's state, and not beyond a final one (`Pending`), and an
  acceptance that has reached a proposer is its peer's state.
* `CooperativeCloseSettlesFinal`: both clients may have a final state, if their final
  updates crossed. What is concluded and final is one of the two (`FinalIsHeld`), and by
  `NotFarApart` the other one is what the client itself had proposed.
* `ChannelImplementsAgreement` is a refinement under `latest <- state`, `outcome <- concluded`
  and `watchers` from `watching` and `conn`. `Establish` is an `Open`, `AcceptUpdate` a
  `GoAhead` (the proposer is where the acceptor is, or has taken the
  acceptor's proposal in between), `UpdateSucceeds` a `CatchUp`, and what first concludes a
  `Conclude`; all other steps change at most who watches.

`TradingProofs` proves for every set of assets and orders and every first balance:
`ViewAndBack` (`MakePerunBals` undoes `MakeBals` for either index), `ShownIsAgreed`, and
`TradingImplementsSwaps`, a refinement under `current <- state`, `past <- agreed`. The
invariant: balances shown or on their way to a browser are its view of agreed ones,
and an update on its way is an order's trade from such a view. The lemma `ViewAndBack`
then turns the update into a `Swap`.

`RequestsProofs` proves `NothingUnsignedIsSent` (how often a browser was asked, and
whether it signed, is fixed by the stage of the call) and `QuotesAreTheHubs` (while the
helper asks there is no reply but an error, and what it sends first afterwards is
the hub's answer or an error) for every set of calls, frames, channels and hubs. Three
more have the hypothesis `BadIsNoValue`:

* `TypeCorrect`: `Spec => []TypeOK`: what is read and written are messages, and every order in the
  book has its assets, because an order without them has no side either.
* `EveryMessageSurvives`: `Spec => []MessagesSurvive`. The invariant has two parts. `ContentInv` says what a
  call may hold: a message that `Read` made of a frame, a reply of one of the forms its handlers
  make, at the helper's next send an answer of the hub. `BookInv` says that the book's orders have
  assets of the two kinds; so a snapshot can be written. Each form of reply is shown to be a message
  that lacks nothing and whose every field can be written; `CodecProofs` then says that it is read back.
* `AssetsAgree`: `Spec => []ListedIsAccepted`. The maps by code, by mint and by chain keep
  the last row of a key. The lemma `ByKeyRow` finds it: the positions of the rows
  with a key have a greatest one, by the well-foundedness of strict subsets, since
  an induction theorem cannot be cited here. From there both inclusions, for
  Ethereum and for Solana, are `ListedAreSupported` and `SupportedAreListed`.

`CodecProofs` proves, for every set of asset forms:

* `RoundTrip`: a message of any of the 54 types, alone or in a request or response, that lacks nothing its type
  needs (`IsWhole`) and can be written is read back as the
  same message, and neither way panics. There are two lemmas for each part, from numbers, asset and wallet forms and
  lists up to the orders of a snapshot, signed states and configurations: its *trip* (decoding undoes
  encoding) and its *shape* (decoding gives something that makes the trip).
* `ReadSurvives`: what `Read` makes of a frame, be fields absent or lists of different lengths, is
  such a message, unless its assets or a chain ID in it are nil; and only for the order
  that is left out of a `CreateOrder` does writing it panic. The frames that are no
  frames (`IsFrame`) are those that encoding/json refuses itself, for a field that is no
  struct or list where one belongs, and an envelope in an envelope, which no one sends.
* `StateThroughBrowser`: a channel state that is made into a message, written, read and
  made into go-perun's form again is the same, for any number of assets of both kinds.

The hypotheses are that `Bad` and `Null`, which stand for the error of a conversion and for what is
absent, are no number, name, list or record (`BadIsNoValue`; there is no bounded set to
assume it of), and for the last that `Bad` and `NoMint` are forms of no asset.

Assumptions: those on the constants, named in the modules that declare them, which
TLC evaluates in the runs. They say that bounds are naturals, that `None` is none
of the values it is told apart from, that a channel has two clients, that orders
and first balances have their type. Those of `Config` and `Requests` say that the files'
rows and the hub's answers have the fields of the structs they are
decoded into (`FileAssumption`, `QuotesAssumption`), that a frame's lists are lists and its structs
structs, with any of their fields absent (`FramesAssumption`), that a
channel's signed state has go-perun's form (`ChannelsAssumption`), and that the orders other
clients leave in the book have assets (`BooksAssumption`, which `TypeCorrect` proves of this
client's); Go's types and encoding/json give the first four.

Only model-checked: liveness, which the prover cannot do with fairness
(`BroadcastEnds`, `FailedStreamLeaves`, `RequestFinishes`, `AnswerArrives`,
`ClosedIsRemoved`, `OpenIsAnswered`, `BothAreTold`, `AcceptedDisappears`,
`EveryRequestIsAnswered`). Every invariant, action property and refinement that a
passing run checks is a theorem.

## 6. Not modelled

* The text of JSON: `Codec` has its structure. Conversions that nobody calls
  (`ParseClientAddress`, those of slices), `SignData`, `changeReceiverAddr`,
  `SendETHTx` and the wallets of `internal/wallet` likewise: the server signs for
  Ethereum with a key of its own and has no other use for them.
* Gas limits, timeouts as durations, decoding hooks of the configuration.
* Set-up of go-perun and its backends (`initliaze.go`, runs once), the chain backends
  and browsers' wallets (other programs), deployment scripts, display code.
* A server restart: no state is persisted.
* Sessions without an Ethereum or a Solana address are left out of `Registry`:
  `newPerunClient` needs both.
* A client with several channels: nothing but the map relates them.

## 7. Plan

Written, in this order: `OrderBook`, `OrderFeed`, `OrderView` and their proofs;
`Connection`; `Registry`, `ClientLifecycle` and their proofs; `ChannelLifecycle`; `Balances`,
`Swaps`, `Trading`; `Codec`, `Config`, `Requests`; the proofs of the last eight and of
`Connection`; `Agreement`, and the proofs of `OrderView`, of the round trips and of the
assets.

Left, most important first:

1. `Trading` over the update of `ChannelLifecycle`, so that the balances of the two
   clients may differ after a late answer.
2. `ClientLifecycle` with more than one session per client, so that `channelCreated`
   polls a `Client` that a newer one has replaced.
