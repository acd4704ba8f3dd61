--------------------------- MODULE ChannelLifecycle ---------------------------
(***************************************************************************)
(* A channel between two clients of the server, from the OpenChannel       *)
(* request to its settlement (internal/client/channel.go, proposal.go).    *)
(* Every client runs its handlers as goroutines on its own go-perun        *)
(* client; the two agree on states through go-perun, and channelCreated    *)
(* looks into the other client's map of channels.                          *)
(*                                                                         *)
(* go-perun and the chain are modelled from their use: an update takes     *)
(* effect at the peer when the peer accepts and at the proposer when the   *)
(* answer arrives in time; Fund succeeds when both have deposited; any     *)
(* call may time out.  Each client has a lock of its own for the channel,  *)
(* so that both may propose at once, and the bus within the server puts a  *)
(* proposal into the peer's queue, where it waits for the peer's lock,     *)
(* also when its proposer has given it up.                                 *)
(***************************************************************************)
EXTENDS Integers, FiniteSets

CONSTANTS
    Clients,     \* the two clients
    Opener,      \* the one whose browser opens the channel
    MaxVersion,  \* bound on the versions of the state
    MaxSent,     \* bound on the proposals of a client that wait at its peer
    CloseAgain,  \* bound: whether a browser closes what it has closed
    None

ASSUME ClientsAssumption ==
    /\ Opener \in Clients /\ \E q \in Clients : Clients = {Opener, q} /\ q # Opener
    /\ None \notin Clients /\ MaxVersion \in Nat /\ MaxSent \in Nat /\ CloseAgain \in BOOLEAN

VARIABLES
    conn,       \* the client's connection and go-perun client are open
    pc,         \* where its goroutine that sets the channel up stands
    signed,     \* who has sent its signature of the first state
    deposits,   \* who has deposited on the chain
    funded,     \* whose Fund has succeeded
    held,       \* who has the channel in Client.channels
    watching,   \* whose watcher runs
    told,       \* the notices the client's browser got
    state,      \* the newest state the client has enabled, with the client
                \* that proposed it and the browsers that asked for it or
                \* accepted it (by, agreed: history)
    lock,       \* what holds the client's lock of the channel: the update it
                \* has proposed, the one its browser is asked about, or None
    sent,       \* the proposals that wait at the peers of their proposers
    close,      \* where handleCloseChannel stands
    handled,    \* whose HandleAdjudicatorEvent has returned
    concluded,  \* the state concluded on the chain
    settled     \* who has withdrawn

setup  == <<signed, deposits, funded>>
updates == <<lock, sent>>
vars   == <<conn, pc, setup, held, watching, told, state, updates,
            close, handled, concluded, settled>>

Peer(p) == CHOOSE q \in Clients : q # p
State(v, f, p, c) == [version |-> v, final |-> f, by |-> p, agreed |-> c]

Init ==
    /\ conn = [p \in Clients |-> TRUE]
    /\ pc = [p \in Clients |-> "off"]
    /\ signed = {} /\ deposits = {} /\ funded = {} /\ held = {} /\ watching = {}
    /\ told = [p \in Clients |-> {}]
    /\ state = [p \in Clients |-> None]
    /\ lock = [p \in Clients |-> None] /\ sent = {}
    /\ close = [p \in Clients |-> "idle"]
    /\ handled = {} /\ concluded = None /\ settled = {}

At(p, here, next) == pc[p] = here /\ pc' = [pc EXCEPT ![p] = next]

(* conn.Write: nothing arrives on a closed connection.                     *)
Tell(p, notice) ==
    told' = IF conn[p] THEN [told EXCEPT ![p] = @ \cup {notice}] ELSE told

negotiation == <<state, updates, close, handled, concluded, settled>>
opening     == <<pc, setup, held, watching>>

-----------------------------------------------------------------------------
(* Opening.                                                                *)

(* handleOpenChannel: the request is well formed or not, and the peer is   *)
(* looked up before the proposal is sent.                                  *)
OpenChannel(valid) ==
    /\ conn[Opener]
    /\ At(Opener, "off", IF valid /\ conn[Peer(Opener)] THEN "proposing" ELSE "done")
    /\ UNCHANGED <<conn, setup, held, watching, told, negotiation>>

(* handleChannelProposal asks the browser.  The configuration of the chains *)
(* is the server's, so what passed the opener's checkAssets passes here.   *)
AskProposal(p) ==
    /\ p # Opener /\ conn[p] /\ pc[Opener] = "proposing"
    /\ At(p, "off", "asked")
    /\ UNCHANGED <<conn, setup, held, watching, told, negotiation>>

(* The browser accepts, and r.Accept sends the answer and the signature.   *)
AcceptProposal(p) ==
    /\ conn[p] /\ At(p, "asked", "accepting")
    /\ signed' = signed \cup {p}
    /\ UNCHANGED <<conn, deposits, funded, held, watching, told, negotiation>>

(* The browser rejects or answers something else, or r.Accept fails.  When *)
(* the connection is lost the handler waits for the answer for ever.       *)
DropProposal(p) ==
    /\ pc[p] = "accepting" \/ (pc[p] = "asked" /\ conn[p])
    /\ pc' = [pc EXCEPT ![p] = "done"]
    /\ UNCHANGED <<conn, setup, held, watching, told, negotiation>>

(* ProposeChannel returns no channel: channelCreated does nothing.         *)
ProposeFails ==
    /\ At(Opener, "proposing", "done")
    /\ UNCHANGED <<conn, setup, held, watching, told, negotiation>>

(* The signatures of the first state are exchanged, and Fund starts.  Its  *)
(* transaction for a Solana asset is put to the browser, the one for an    *)
(* Ethereum asset the server signs with a key of its own.                  *)
Establish(p) ==
    /\ pc[p] \in {"proposing", "accepting"} /\ conn[p] /\ Peer(p) \in signed
    /\ \E next \in {"signing", "funding"} : pc' = [pc EXCEPT ![p] = next]
    /\ signed' = signed \cup {p}
    /\ state' = [state EXCEPT ![p] = State(0, FALSE, None, signed')]
    /\ UNCHANGED <<conn, deposits, funded, held, watching, told,
                   updates, close, handled, concluded, settled>>

(* The browser signs or refuses (SendSolTx in Requests); Fund's context    *)
(* does not end the wait.                                                  *)
AnswerSignature(p) ==
    /\ conn[p] /\ At(p, "signing", "funding")
    /\ UNCHANGED <<conn, setup, held, watching, told, negotiation>>

(* The transaction arrives on the chain; also when it does not, SignSendTx *)
(* has reported no error.                                                  *)
Deposit(p) ==
    /\ pc[p] = "funding" /\ p \notin deposits
    /\ deposits' = deposits \cup {p}
    /\ UNCHANGED <<conn, pc, signed, funded, held, watching, told, negotiation>>

(* ProposeChannel returns the channel and an error, which channelCreated   *)
(* reports if it is a ChannelFundingError.  handleChannelProposal returns  *)
(* on r.Accept's error before it calls channelCreated.                     *)
FundFails(p, isFundingError) ==
    /\ At(p, "funding", "done")
    /\ IF p = Opener THEN held' = held \cup {p} ELSE UNCHANGED held
    /\ IF p = Opener /\ isFundingError THEN Tell(p, "FundingError") ELSE UNCHANGED told
    /\ UNCHANGED <<conn, setup, watching, negotiation>>

(* channelCreated without an error: addChannel.                            *)
FundSucceeds(p) ==
    /\ deposits = Clients /\ At(p, "funding", "created")
    /\ funded' = funded \cup {p}
    /\ held' = held \cup {p}
    /\ UNCHANGED <<conn, signed, deposits, watching, told, negotiation>>

(* The goroutine channelCreated starts then watches the channel, unless    *)
(* ch.Watch fails, which is logged only.                                   *)
Watch(p) ==
    /\ p \in funded \ watching
    /\ watching' = watching \cup {p}
    /\ UNCHANGED <<conn, pc, setup, held, told, negotiation>>

LookUpInverted(p) ==   \* a slip: if ok { return }
    /\ At(p, "created", IF conn[Peer(p)] THEN "done" ELSE "polling")
    /\ UNCHANGED <<conn, setup, held, watching, told, negotiation>>

(* The peer's client is looked up in the registry, once.  When it has gone *)
(* the browser hears nothing but the reply.                                *)
LookUp(p) ==
    /\ At(p, "created", IF conn[Peer(p)] THEN "polling" ELSE "done")
    /\ UNCHANGED <<conn, setup, held, watching, told, negotiation>>

PollOwnMap(p) ==   \* a slip: Parts[Idx] instead of Parts[1-Idx]
    /\ p \in held
    /\ At(p, "polling", "done")
    /\ Tell(p, "ChannelCreated")
    /\ UNCHANGED <<conn, setup, held, watching, negotiation>>

PollFinds(p) ==
    /\ Peer(p) \in held
    /\ At(p, "polling", "done")
    /\ Tell(p, "ChannelCreated")
    /\ UNCHANGED <<conn, setup, held, watching, negotiation>>

NeverTimesOut(p) == FALSE /\ UNCHANGED vars   \* a slip: polls without a limit

(* The opener is told that its peer was late, and that it succeeded.       *)
PollTimesOut(p) ==
    /\ At(p, "polling", "done")
    /\ Tell(p, "FundingError")
    /\ UNCHANGED <<conn, setup, held, watching, negotiation>>

-----------------------------------------------------------------------------
(* Updates.                                                                *)

Active(p)   == p \in funded \ settled /\ ~state[p].final
CanSend(p)  == /\ conn[p] /\ state[p].version < MaxVersion
               /\ Cardinality({to \in sent : to.by = p}) < MaxSent
Proposes(p) == lock[p] # None /\ lock[p].role = "proposer"
Asked(p)    == lock[p] # None /\ lock[p].role = "asked"

(* go-perun drops a proposal that is no valid next version when it comes   *)
(* to it.  Here it is dropped as soon as it cannot become one any more.    *)
Awaited(to) ==
    LET q == Peer(to.by)
    IN  conn[q] /\ q \notin settled /\ ~state[q].final /\ to.version > state[q].version

DropStale == sent' = {to \in sent : Awaited(to)'}

ProposeSkips(p, final) ==   \* a slip: skips a version
    /\ CanSend(p) /\ Active(p) /\ lock[p] = None
    /\ LET to == State(state[p].version + 2, final, p, {p})
       IN  /\ lock' = [lock EXCEPT ![p] = [role |-> "proposer", to |-> to, answer |-> "none"]]
           /\ sent' = IF Awaited(to) THEN sent \cup {to} ELSE sent

(* ch.Update takes the client's lock, signs the next state and sends it to *)
(* the peer.  What has been sent before and was given up is still there;   *)
(* two equal proposals count as one.                                       *)
Propose(p, final) ==
    /\ CanSend(p) /\ Active(p) /\ lock[p] = None
    /\ LET to == State(state[p].version + 1, final, p, {p})
       IN  /\ lock' = [lock EXCEPT ![p] = [role |-> "proposer", to |-> to, answer |-> "none"]]
           /\ sent' = IF Awaited(to) THEN sent \cup {to} ELSE sent

(* A browser learns the channel's ID from ChannelCreated or FundingError.  *)
Knows(p) == conn[p] /\ told[p] # {}

(* handleUpdateChannel, when ch.Update does not fail at once.              *)
UpdateChannel(p, final) ==
    /\ Knows(p) /\ Propose(p, final)
    /\ UNCHANGED <<conn, opening, told, state, close, handled, concluded, settled>>

(* A proposal is taken up when the lock is free, if it is the next version *)
(* of the client's state.                                                  *)
Takes(q, to) == conn[q] /\ Active(q) /\ to.version = state[q].version + 1

(* handleUpdateProposal asks the browser, and the lock is kept.            *)
AskUpdate(q, to) ==
    /\ to.by # q /\ lock[q] = None /\ Takes(q, to)
    /\ lock' = [lock EXCEPT ![q] = [role |-> "asked", to |-> to, answer |-> "none"]]
    /\ sent' = sent \ {to}
    /\ UNCHANGED <<conn, opening, told, state, close, handled, concluded, settled>>

DropUpdate(q, to) ==
    /\ to.by # q /\ lock[q] = None /\ ~Takes(q, to)
    /\ sent' = sent \ {to}
    /\ UNCHANGED <<conn, opening, told, state, lock, close, handled, concluded, settled>>

(* The answer of q finds its proposer if it waits for one to this version. *)
(* An acceptance of another state of the version is refused there, for the *)
(* signature does not fit.                                                 *)
Answered(q, answer, to) ==
    [p \in Clients |->
        IF p = q THEN None
        ELSE IF Proposes(p) /\ lock[p].answer = "none" /\ lock[p].to.version = to.version
          THEN IF answer = "accepted" /\ lock[p].to = lock[q].to
                 THEN [lock[p] EXCEPT !.to = to, !.answer = "accepted"]
                 ELSE [lock[p] EXCEPT !.answer = "refused"]
          ELSE lock[p]]

AcceptRejected(q) ==   \* a slip: r.Accept whatever the browser answers
    /\ Asked(q) /\ conn[q]
    /\ state' = [state EXCEPT ![q] = lock[q].to]
    /\ lock' = Answered(q, "accepted", lock[q].to)
    /\ UNCHANGED <<conn, opening, told, close, handled, concluded, settled>>
    /\ DropStale

(* The browser accepts and r.Accept enables the state, even when the       *)
(* proposer no longer waits for it, or has accepted another one.           *)
AcceptUpdate(q) ==
    /\ Asked(q) /\ conn[q]
    /\ LET to == [lock[q].to EXCEPT !.agreed = @ \cup {q}]
       IN  /\ state' = [state EXCEPT ![q] = to]
           /\ lock' = Answered(q, "accepted", to)
    /\ UNCHANGED <<conn, opening, told, close, handled, concluded, settled>>
    /\ DropStale

RejectUpdate(q) ==
    /\ Asked(q) /\ conn[q]
    /\ lock' = Answered(q, "refused", lock[q].to)
    /\ UNCHANGED <<conn, opening, told, state, sent, close, handled, concluded, settled>>

(* The connection is lost, and a handler that asks the browser waits with  *)
(* the lock for ever, or no valid answer comes and handleUpdateProposal    *)
(* closes the client: CloseWithError.  The update is not answered then.    *)
Shutdown(p, answered) ==
    /\ conn[p]
    /\ conn' = [conn EXCEPT ![p] = FALSE]
    /\ lock' = IF Asked(p) /\ answered THEN [lock EXCEPT ![p] = None] ELSE lock
    /\ UNCHANGED <<opening, told, state, close, handled, concluded, settled>>
    /\ DropStale

(* ch.Update returns at the proposer and frees its lock: the handler of    *)
(* UpdateChannel replies, handleCloseChannel goes on to settle.            *)
UpdateSucceeds(p) ==
    /\ Proposes(p) /\ lock[p].answer = "accepted"
    /\ state' = [state EXCEPT ![p] = lock[p].to]
    /\ lock' = [lock EXCEPT ![p] = None]
    /\ close' = [close EXCEPT ![p] = IF @ = "finalizing" THEN "settling" ELSE @]
    /\ UNCHANGED <<conn, opening, told, handled, concluded, settled>>
    /\ DropStale

SettleAnyway(p) ==   \* a slip: the error of ch.Update is not returned
    /\ Proposes(p)
    /\ lock' = [lock EXCEPT ![p] = None]
    /\ close' = [close EXCEPT ![p] = IF @ = "finalizing" THEN "settling" ELSE @]
    /\ UNCHANGED <<conn, opening, told, state, sent, handled, concluded, settled>>

(* ch.Update fails: an answer other than accepted, or HandleTimeout.  What *)
(* was sent stays in the peer's queue or with its browser.                 *)
UpdateFails(p) ==
    /\ Proposes(p)
    /\ lock' = [lock EXCEPT ![p] = None]
    /\ close' = [close EXCEPT ![p] = IF @ = "finalizing" THEN "idle" ELSE @]
    /\ UNCHANGED <<conn, opening, told, state, sent, handled, concluded, settled>>

-----------------------------------------------------------------------------
(* Settling.                                                               *)

(* handleCloseChannel: unless it is forced or the state is final, a final  *)
(* state is agreed on first.                                               *)
CloseChannel(p, force) ==
    /\ Knows(p) /\ p \in held
    /\ close[p] = "idle" \/ (CloseAgain /\ close[p] = "closed")
    /\ \/ /\ force \/ state[p].final
          /\ close' = [close EXCEPT ![p] = IF force THEN "force settling" ELSE "settling"]
          /\ UNCHANGED updates
       \/ /\ ~force /\ ~state[p].final /\ Propose(p, TRUE)
          /\ close' = [close EXCEPT ![p] = "finalizing"]
    /\ UNCHANGED <<conn, opening, told, state, handled, concluded, settled>>

(* The chain concludes p's state, unless the other's watcher answers with  *)
(* a newer one while the challenge runs.                                   *)
Conclusion(p) ==
    IF concluded # None THEN concluded
    ELSE IF /\ Peer(p) \in watching /\ conn[Peer(p)]
            /\ state[Peer(p)].version > state[p].version
           THEN state[Peer(p)] ELSE state[p]

(* ch.Settle holds the channel's lock, as an update does, while it         *)
(* concludes and withdraws.                                                *)
Settle(p) ==
    /\ lock[p] = None
    /\ concluded' = Conclusion(p)
    /\ settled' = settled \cup {p}
    /\ UNCHANGED <<conn, state, lock>> /\ DropStale

CloseSettles(p) ==
    /\ close[p] \in {"settling", "force settling"}
    /\ Settle(p)
    /\ close' = [close EXCEPT ![p] = "closed"]
    /\ UNCHANGED <<opening, told, handled>>

CloseFails(p) ==
    /\ close[p] \in {"settling", "force settling"}
    /\ close' = [close EXCEPT ![p] = "idle"]
    /\ UNCHANGED <<conn, opening, told, state, updates, handled, concluded, settled>>

TellAnyway(p, ok) ==   \* a slip: channelClosed although ch.Settle failed
    /\ concluded # None /\ p \in watching \cap held /\ p \notin handled
    /\ handled' = handled \cup {p}
    /\ Tell(p, "ChannelClosed")
    /\ IF ok THEN Settle(p) ELSE UNCHANGED <<conn, state, updates, concluded, settled>>
    /\ UNCHANGED <<opening, close>>

(* HandleAdjudicatorEvent: nothing removes a channel from the map, so that *)
(* also a client that has settled before settles here.  The error of       *)
(* ch.Settle is logged only.                                               *)
HandleAdjudicatorEvent(p, ok) ==
    /\ concluded # None /\ p \in watching \cap held /\ p \notin handled
    /\ handled' = handled \cup {p}
    /\ IF ok THEN Settle(p) /\ Tell(p, "ChannelClosed")
             ELSE UNCHANGED <<conn, told, state, updates, concluded, settled>>
    /\ UNCHANGED <<opening, close>>

-----------------------------------------------------------------------------
SetUp(p) ==
    \/ Establish(p) \/ Deposit(p) \/ FundSucceeds(p) \/ LookUp(p)
    \/ PollFinds(p) \/ PollTimesOut(p)
    \/ \E isFundingError \in BOOLEAN : FundFails(p, isFundingError)

Browser(p) ==
    \/ AcceptProposal(p) \/ AnswerSignature(p) \/ AcceptUpdate(p) \/ RejectUpdate(p)
    \/ \E final \in BOOLEAN : UpdateChannel(p, final)
    \/ \E force \in BOOLEAN : CloseChannel(p, force)

SettleReturns(p) ==
    \/ CloseSettles(p) \/ CloseFails(p)
    \/ \E ok \in BOOLEAN : HandleAdjudicatorEvent(p, ok)

Next ==
    \/ \E valid \in BOOLEAN : OpenChannel(valid)
    \/ ProposeFails
    \/ \E p \in Clients :
          \/ AskProposal(p) \/ DropProposal(p) \/ SetUp(p) \/ Watch(p)
          \/ Browser(p) \/ \E to \in sent : AskUpdate(p, to) \/ DropUpdate(p, to)
          \/ UpdateSucceeds(p) \/ UpdateFails(p) \/ SettleReturns(p)
          \/ \E answered \in BOOLEAN : Shutdown(p, answered)

Spec == Init /\ [][Next]_vars

(* ProposeChannel, r.Accept and Fund have a context with a timeout, and    *)
(* channelCreated a timer: each ends in one way or another, except while a *)
(* browser has to sign.  Browsers need not do anything, and connections    *)
(* need not fail.                                                          *)
GoesOn(p) ==
    \/ SetUp(p)
    \/ p = Opener /\ ProposeFails
    \/ pc[p] = "accepting" /\ DropProposal(p)

Fairness == \A p \in Clients : WF_vars(GoesOn(p))

FairSpec == Spec /\ Fairness

-----------------------------------------------------------------------------
(* Properties.                                                             *)

SetUpSteps == {"off", "asked", "proposing", "accepting", "signing", "funding",
               "created", "polling", "done"}
States     == [version : 0 .. MaxVersion, final : BOOLEAN,
               by : Clients \cup {None}, agreed : SUBSET Clients]
Updates    == [role : {"proposer", "asked"}, to : States,
               answer : {"none", "accepted", "refused"}]

ASSUME NoneAssumption == None \notin States \cup Updates

(* channel.go:98: every variable has its type, and an update that a client *)
(* negotiates is the next version of its own state.                        *)
TypeOK ==
    /\ conn \in [Clients -> BOOLEAN] /\ pc \in [Clients -> SetUpSteps]
    /\ signed \subseteq Clients /\ deposits \subseteq Clients
    /\ funded \subseteq Clients /\ held \subseteq Clients
    /\ watching \subseteq Clients /\ settled \subseteq Clients
    /\ told \in [Clients -> SUBSET {"ChannelCreated", "FundingError", "ChannelClosed"}]
    /\ state \in [Clients -> States \cup {None}]
    /\ lock \in [Clients -> Updates \cup {None}] /\ sent \subseteq States
    /\ \A p \in Clients : lock[p] # None => lock[p].to.version = state[p].version + 1
    /\ close \in [Clients -> {"idle", "finalizing", "settling", "force settling", "closed"}]
    /\ handled \subseteq Clients
    /\ concluded \in States \cup {None}

(* channel.go:228: a browser is told ChannelCreated only when the channel  *)
(* is in both clients' maps, both have paid into it and its own client     *)
(* has seen both payments, although Fund may succeed at one client and     *)
(* fail at the other.                                                      *)
CreatedMeansBothHold ==
    \A p \in Clients :
        "ChannelCreated" \in told[p] =>
            held = Clients /\ deposits = Clients /\ p \in funded

Watchers == {p \in watching : conn[p]}

Agree == INSTANCE Agreement WITH
             latest <- state, watchers <- Watchers, outcome <- concluded

(* proposal.go:89: whatever is proposed at once, times out or is answered  *)
(* late, both browsers have agreed to every state a client holds, none is  *)
(* more than one version behind, the two differ within a version only when *)
(* each has accepted what the other proposed, nobody gets past a final     *)
(* state, and what is concluded is no older than what a client that        *)
(* watches the channel holds: the channel implements Agreement.            *)
ImplementsAgreement == Agree!Spec

(* channel.go:116: without forceClose a channel is settled in a final      *)
(* state, which no later update replaces: a final state that is concluded  *)
(* is the client's own or, when two final updates have crossed, the one it *)
(* proposed itself.                                                        *)
CooperativeCloseIsFinal ==
    \A p \in Clients :
        close[p] = "settling" =>
            /\ state[p].final
            /\ concluded # None /\ concluded.final =>
                  \/ concluded = state[p]
                  \/ concluded.by = p /\ concluded.version = state[p].version

(* channel.go:136, 184: a browser whose CloseChannel succeeded or that was *)
(* told ChannelClosed has its share.                                       *)
ClosedMeansPaid ==
    \A p \in Clients :
        close[p] = "closed" \/ "ChannelClosed" \in told[p] => p \in settled

(* channel.go:224: the handler of OpenChannel returns, although it waits   *)
(* for the peer and for the chain, unless its own browser leaves it        *)
(* without an answer to the transaction it is to sign.                     *)
OpenIsAnswered ==
    pc[Opener] # "off" ~> (pc[Opener] = "done" \/ [](pc[Opener] = "signing"))

(* channel.go:187: once both have funded, both browsers are told that the  *)
(* channel is there or that something failed, unless one has gone.         *)
BothAreTold ==
    funded = Clients ~>
        \A p \in Clients : told[p] # {} \/ \E q \in Clients : ~conn[q]
=============================================================================
