---------------------------- MODULE ChannelProofs -----------------------------
(***************************************************************************)
(* Theorems about the safety of a channel's life, for any bound on its     *)
(* versions and whatever go-perun's calls, the browsers and the            *)
(* connections do; the last one is that the channel implements Agreement.  *)
(***************************************************************************)
EXTENDS ChannelLifecycle, TLAPS

LEMMA PeerFacts ==
    /\ Opener \in Clients
    /\ \A p \in Clients : Peer(p) \in Clients /\ Peer(p) # p /\ Clients = {p, Peer(p)}
<1>1. PICK q \in Clients : Clients = {Opener, q} /\ q # Opener
    BY ClientsAssumption
<1>2. ASSUME NEW p \in Clients
      PROVE  Peer(p) \in Clients /\ Peer(p) # p /\ Clients = {p, Peer(p)}
  <2>1. \E r \in Clients : r # p
      BY <1>1
  <2>2. Peer(p) \in Clients /\ Peer(p) # p
      BY <2>1 DEF Peer
  <2> QED BY <1>1, <2>2
<1> QED BY <1>2, ClientsAssumption

-----------------------------------------------------------------------------
(* The invariant.                                                          *)

First == State(0, FALSE, None, Clients)

(* How far the set-up has come, and what is there by then.  A client that  *)
(* has not funded holds the first state, if any.                           *)
Opening ==
    \A p \in Clients :
        /\ pc[p] \in {"off", "asked", "proposing", "accepting"} =>
               state[p] = None /\ p \notin funded
        /\ pc[p] \in {"signing", "funding"} => state[p] # None /\ p \notin funded
        /\ pc[p] \in {"created", "polling"} => p \in funded
        /\ p \in funded => p \in held /\ deposits = Clients
        /\ p \in held \cup watching \cup deposits => state[p] # None
        /\ p \notin funded => state[p] \in {None, First}

(* How far apart the two clients can be: who is ahead has taken a proposal *)
(* of the other, which is not at a final state, and where they differ each *)
(* has taken a proposal of the other.                                      *)
Near(s, t, p, q) ==
    /\ s.version <= t.version + 1
    /\ s.version = t.version + 1 => s.by = q /\ ~t.final
    /\ s.version = t.version => s = t \/ (s.by = q /\ t.by = p)

NotFarApart ==
    \A p, q \in Clients :
        state[p] # None /\ state[q] # None => Near(state[p], state[q], p, q)

(* A proposal that is still on its way may be old, and its proposer may    *)
(* have gone on, but not past a final state.                               *)
Pending(to) ==
    /\ to.by \in funded /\ to.agreed = {to.by}
    /\ to.version <= state[to.by].version + 1
    /\ to.version = state[to.by].version + 1 => ~state[to.by].final

(* Who holds a lock for an update is at a state that is not final, and an  *)
(* answer that has arrived is the peer's state.                            *)
Negotiation ==
    /\ \A to \in sent : Pending(to)
    /\ \A p \in Clients :
          /\ lock[p] # None => p \in funded /\ ~state[p].final
          /\ Asked(p) => Pending(lock[p].to) /\ lock[p].to.by # p
          /\ Proposes(p) /\ lock[p].answer = "accepted" => lock[p].to = state[Peer(p)]

(* A final state that is concluded is the state of one of the two.         *)
FinalIsHeld ==
    concluded # None /\ concluded.final => \E p \in Clients : concluded = state[p]

(* handleCloseChannel between its update and ch.Settle.                    *)
Closing ==
    \A p \in Clients :
        /\ close[p] = "finalizing" => Proposes(p) /\ lock[p].to.final
        /\ close[p] = "settling" => state[p] # None /\ state[p].final
        /\ close[p] # "idle" => p \in held

(* No client has a state, and none is paid out, that one of the two        *)
(* browsers has neither asked for nor accepted.                            *)
AgreedByBoth ==
    \A s \in {concluded} \cup {state[p] : p \in Clients} :
        s # None => s.agreed = Clients

IInv ==
    /\ TypeOK
    /\ Opening
    /\ NotFarApart
    /\ Negotiation
    /\ AgreedByBoth
    /\ FinalIsHeld
    /\ Closing
    /\ CreatedMeansBothHold
    /\ ClosedMeansPaid

LEMMA InvInit == Init => IInv
<1> SUFFICES ASSUME Init PROVE IInv
    OBVIOUS
<1> USE DEF Init
<1>1. TypeOK
    BY DEF TypeOK, SetUpSteps
<1>2. Opening /\ NotFarApart /\ FinalIsHeld /\ Closing
    BY DEF Opening, NotFarApart, FinalIsHeld, Closing
<1>3. Negotiation
    BY DEF Negotiation, Asked, Proposes
<1>4. AgreedByBoth /\ CreatedMeansBothHold /\ ClosedMeansPaid
    BY DEF AgreedByBoth, CreatedMeansBothHold, ClosedMeansPaid
<1> QED BY <1>1, <1>2, <1>3, <1>4 DEF IInv

-----------------------------------------------------------------------------
(* Opening.                                                                *)

(* Steps of the set-up that leave the state alone.                         *)
LEMMA OpeningStep ==
    ASSUME IInv, TypeOK', Opening', UNCHANGED negotiation,
           funded \subseteq funded', held \subseteq held', deposits \subseteq deposits',
           \A p \in Clients : "ChannelClosed" \in told'[p] => "ChannelClosed" \in told[p],
           \A p \in Clients : "ChannelCreated" \in told'[p] =>
               \/ "ChannelCreated" \in told[p]
               \/ held' = Clients /\ deposits' = Clients /\ p \in funded'
    PROVE  IInv'
<1> USE DEF negotiation, updates
<1>1. Negotiation'
    BY DEF IInv, Negotiation, Pending, Asked, Proposes
<1>2. AgreedByBoth' /\ FinalIsHeld' /\ NotFarApart'
    BY DEF IInv, AgreedByBoth, FinalIsHeld, NotFarApart
<1>3. Closing' /\ ClosedMeansPaid'
    BY DEF IInv, Closing, ClosedMeansPaid, Proposes
<1>4. CreatedMeansBothHold'
  <2>1. held' \subseteq Clients /\ deposits' \subseteq Clients
      BY DEF TypeOK
  <2>2. \A p \in Clients : "ChannelCreated" \in told[p] =>
            held = Clients /\ deposits = Clients /\ p \in funded
      BY DEF IInv, CreatedMeansBothHold
  <2> SUFFICES ASSUME NEW p \in Clients, "ChannelCreated" \in told'[p]
               PROVE  held' = Clients /\ deposits' = Clients /\ p \in funded'
      BY Zenon DEF CreatedMeansBothHold
  <2>3. CASE "ChannelCreated" \in told[p]
    <3>1. held = Clients /\ deposits = Clients /\ p \in funded
        BY <2>2, <2>3, Zenon
    <3> QED BY <2>1, <3>1
  <2> QED BY <2>3, Zenon
<1> QED BY <1>1, <1>2, <1>3, <1>4 DEF IInv

LEMMA TellType ==
    ASSUME TypeOK, NEW p \in Clients,
           NEW n \in {"ChannelCreated", "FundingError", "ChannelClosed"}, Tell(p, n)
    PROVE  /\ told' \in [Clients -> SUBSET {"ChannelCreated", "FundingError", "ChannelClosed"}]
           /\ \A q \in Clients : told'[q] \subseteq told[q] \cup {n}
           /\ \A q \in Clients : q # p => told'[q] = told[q]
           /\ \A q \in Clients : told[q] \subseteq told'[q]
BY DEF TypeOK, Tell

LEMMA SetUpSteps1 ==
    ASSUME IInv, NEW p \in Clients,
           \/ \E valid \in BOOLEAN : OpenChannel(valid)
           \/ AskProposal(p) \/ AcceptProposal(p) \/ DropProposal(p)
           \/ ProposeFails \/ AnswerSignature(p) \/ Deposit(p) \/ LookUp(p)
           \/ Watch(p)
    PROVE  IInv'
<1> USE PeerFacts DEF At, setup, updates
<1>0. TypeOK /\ Opening
    BY DEF IInv
<1>1. ASSUME NEW valid \in BOOLEAN, OpenChannel(valid) PROVE IInv'
  <2>1. TypeOK'
      BY <1>0, <1>1 DEF OpenChannel, TypeOK, SetUpSteps, negotiation
  <2>2. Opening'
      BY <1>0, <1>1 DEF OpenChannel, Opening, TypeOK, negotiation
  <2> QED BY <1>1, <2>1, <2>2, OpeningStep DEF OpenChannel
<1>2. CASE AskProposal(p)
  <2>1. TypeOK'
      BY <1>0, <1>2 DEF AskProposal, TypeOK, SetUpSteps, negotiation
  <2>2. Opening'
      BY <1>0, <1>2 DEF AskProposal, Opening, TypeOK, negotiation
  <2> QED BY <1>2, <2>1, <2>2, OpeningStep DEF AskProposal
<1>3. CASE AcceptProposal(p)
  <2>1. TypeOK'
      BY <1>0, <1>3 DEF AcceptProposal, TypeOK, SetUpSteps, negotiation
  <2>2. Opening'
      BY <1>0, <1>3 DEF AcceptProposal, Opening, TypeOK, negotiation
  <2> QED BY <1>3, <2>1, <2>2, OpeningStep DEF AcceptProposal
<1>4. CASE DropProposal(p)
  <2>1. TypeOK'
      BY <1>0, <1>4 DEF DropProposal, TypeOK, SetUpSteps, negotiation
  <2>2. Opening'
      BY <1>0, <1>4 DEF DropProposal, Opening, TypeOK, negotiation
  <2> QED BY <1>4, <2>1, <2>2, OpeningStep DEF DropProposal
<1>5. CASE ProposeFails
  <2>1. TypeOK'
      BY <1>0, <1>5 DEF ProposeFails, TypeOK, SetUpSteps, negotiation
  <2>2. Opening'
      BY <1>0, <1>5 DEF ProposeFails, Opening, TypeOK, negotiation
  <2> QED BY <1>5, <2>1, <2>2, OpeningStep DEF ProposeFails
<1>6. CASE AnswerSignature(p)
  <2>1. TypeOK'
      BY <1>0, <1>6 DEF AnswerSignature, TypeOK, SetUpSteps, negotiation
  <2>2. Opening'
      BY <1>0, <1>6 DEF AnswerSignature, Opening, TypeOK, negotiation
  <2> QED BY <1>6, <2>1, <2>2, OpeningStep DEF AnswerSignature
<1>7. CASE Deposit(p)
  <2>1. TypeOK'
      BY <1>0, <1>7 DEF Deposit, TypeOK, negotiation
  <2>2. Opening'
    <3>1. state[p] # None /\ deposits' = deposits \cup {p} /\ (deposits = Clients => deposits' = Clients)
        BY <1>0, <1>7 DEF Deposit, Opening
    <3>2. UNCHANGED <<pc, state, funded, held, watching>>
        BY <1>7 DEF Deposit, negotiation
    <3>3. ASSUME NEW q \in Clients, q \in held' \cup watching' \cup deposits'
          PROVE  state'[q] # None
        BY <1>0, <3>1, <3>2, <3>3 DEF Opening
    <3>4. ASSUME NEW q \in Clients
          PROVE  q \in funded' => q \in held' /\ deposits' = Clients
        BY <1>0, <3>1, <3>2, <3>4 DEF Opening
    <3>5. ASSUME NEW q \in Clients
          PROVE  /\ pc'[q] \in {"off", "asked", "proposing", "accepting"} =>
                       state'[q] = None /\ q \notin funded'
                 /\ pc'[q] \in {"signing", "funding"} => state'[q] # None /\ q \notin funded'
                 /\ pc'[q] \in {"created", "polling"} => q \in funded'
                 /\ q \notin funded' => state'[q] \in {None, First}
        BY <1>0, <3>2, <3>5 DEF Opening
    <3> QED BY <3>3, <3>4, <3>5 DEF Opening
  <2> QED BY <1>7, <2>1, <2>2, OpeningStep DEF Deposit
<1>8. CASE LookUp(p)
  <2>1. TypeOK'
      BY <1>0, <1>8 DEF LookUp, TypeOK, SetUpSteps, negotiation
  <2>2. Opening'
    <3>1. /\ p \in funded /\ pc'[p] \in {"polling", "done"}
          /\ \A q \in Clients : q # p => pc'[q] = pc[q]
        BY <1>0, <1>8 DEF LookUp, Opening, TypeOK
    <3>2. UNCHANGED <<state, setup, held, watching>>
        BY <1>8 DEF LookUp, negotiation
    <3> QED BY <1>0, <3>1, <3>2 DEF Opening
  <2> QED BY <1>8, <2>1, <2>2, OpeningStep DEF LookUp
<1>9. CASE Watch(p)
  <2>1. TypeOK'
      BY <1>0, <1>9 DEF Watch, TypeOK, negotiation
  <2>2. Opening'
      BY <1>0, <1>9 DEF Watch, Opening, TypeOK, negotiation
  <2> QED BY <1>9, <2>1, <2>2, OpeningStep DEF Watch
<1> QED BY <1>1, <1>2, <1>3, <1>4, <1>5, <1>6, <1>7, <1>8, <1>9

LEMMA FundSteps ==
    ASSUME IInv, NEW p \in Clients,
           \/ \E isFundingError \in BOOLEAN : FundFails(p, isFundingError)
           \/ FundSucceeds(p) \/ PollFinds(p) \/ PollTimesOut(p)
    PROVE  IInv'
<1> USE PeerFacts DEF At, setup, updates
<1>0. TypeOK /\ Opening
    BY DEF IInv
<1>1. ASSUME NEW e \in BOOLEAN, FundFails(p, e) PROVE IInv'
  <2>1. \/ UNCHANGED told
        \/ Tell(p, "FundingError")
      BY <1>1 DEF FundFails
  <2>2. /\ told' \in [Clients -> SUBSET {"ChannelCreated", "FundingError", "ChannelClosed"}]
        /\ \A q \in Clients : told'[q] \subseteq told[q] \cup {"FundingError"}
      BY <1>0, <2>1, TellType DEF TypeOK
  <2>3. /\ pc[p] = "funding" /\ pc' = [pc EXCEPT ![p] = "done"]
        /\ held \subseteq held' /\ held' \subseteq held \cup {p}
        /\ UNCHANGED <<conn, signed, deposits, funded, watching, negotiation>>
      BY <1>1 DEF FundFails
  <2>4. TypeOK'
      BY <1>0, <2>2, <2>3 DEF TypeOK, SetUpSteps, negotiation
  <2>5. Opening'
      BY <1>0, <2>3 DEF Opening, TypeOK, negotiation
  <2> QED BY <2>2, <2>3, <2>4, <2>5, OpeningStep
<1>2. CASE FundSucceeds(p)
  <2>1. TypeOK'
      BY <1>0, <1>2 DEF FundSucceeds, TypeOK, SetUpSteps, negotiation
  <2>2. Opening'
      BY <1>0, <1>2 DEF FundSucceeds, Opening, TypeOK, negotiation
  <2> QED BY <1>2, <2>1, <2>2, OpeningStep DEF FundSucceeds
<1>3. CASE PollFinds(p)
  <2>1. /\ told' \in [Clients -> SUBSET {"ChannelCreated", "FundingError", "ChannelClosed"}]
        /\ \A q \in Clients : told'[q] \subseteq told[q] \cup {"ChannelCreated"}
        /\ \A q \in Clients : q # p => told'[q] = told[q]
      BY <1>0, <1>3, TellType DEF PollFinds
  <2>2. TypeOK'
      BY <1>0, <1>3, <2>1 DEF PollFinds, TypeOK, SetUpSteps, negotiation
  <2>3. Opening'
      BY <1>0, <1>3 DEF PollFinds, Opening, TypeOK, negotiation
  <2>4. held = Clients /\ deposits = Clients /\ p \in funded
    <3>1. pc[p] = "polling" /\ Peer(p) \in held
        BY <1>3 DEF PollFinds
    <3>2. p \in held /\ deposits = Clients /\ p \in funded
        BY <1>0, <3>1 DEF Opening
    <3>3. held \subseteq Clients
        BY <1>0 DEF TypeOK
    <3> QED BY <3>1, <3>2, <3>3
  <2> QED BY <1>3, <2>1, <2>2, <2>3, <2>4, OpeningStep DEF PollFinds
<1>4. CASE PollTimesOut(p)
  <2>1. /\ told' \in [Clients -> SUBSET {"ChannelCreated", "FundingError", "ChannelClosed"}]
        /\ \A q \in Clients : told'[q] \subseteq told[q] \cup {"FundingError"}
      BY <1>0, <1>4, TellType DEF PollTimesOut
  <2>2. TypeOK'
      BY <1>0, <1>4, <2>1 DEF PollTimesOut, TypeOK, SetUpSteps, negotiation
  <2>3. Opening'
      BY <1>0, <1>4 DEF PollTimesOut, Opening, TypeOK, negotiation
  <2> QED BY <1>4, <2>1, <2>2, <2>3, OpeningStep DEF PollTimesOut
<1> QED BY <1>1, <1>2, <1>3, <1>4

(* The first state is the same for both; nobody has funded yet.            *)
LEMMA EstablishFacts ==
    ASSUME IInv, NEW p \in Clients, Establish(p)
    PROVE  /\ signed' = Clients
           /\ First \in States /\ First # None
           /\ state[p] = None /\ p \notin deposits
           /\ \A q \in Clients : q \notin funded /\ state[q] \in {None, First}
           /\ state' = [state EXCEPT ![p] = First]
           /\ state'[p] = First /\ \A q \in Clients : q # p => state'[q] = state[q]
<1>0. TypeOK /\ Opening
    BY DEF IInv
<1>1. /\ pc[p] \in {"proposing", "accepting"} /\ Peer(p) \in signed
      /\ signed' = signed \cup {p}
      /\ state' = [state EXCEPT ![p] = State(0, FALSE, None, signed')]
    BY DEF Establish
<1>2. signed' = Clients
  <2>1. Clients = {p, Peer(p)}
      BY PeerFacts
  <2>2. signed \subseteq Clients
      BY <1>0 DEF TypeOK
  <2> QED BY <1>1, <2>1, <2>2
<1>3. First \in States /\ First # None
  <2>1. First \in States
      BY ClientsAssumption DEF First, State, States
  <2> QED BY <2>1, NoneAssumption
<1>4. state[p] = None /\ p \notin deposits
    BY <1>0, <1>1 DEF Opening
<1>5. \A q \in Clients : q \notin funded /\ state[q] \in {None, First}
    BY <1>0, <1>4 DEF Opening
<1>6. state' = [state EXCEPT ![p] = First]
    BY <1>1, <1>2 DEF First
<1>7. state'[p] = First /\ \A q \in Clients : q # p => state'[q] = state[q]
    BY <1>0, <1>6 DEF TypeOK
<1> QED BY <1>2, <1>3, <1>4, <1>5, <1>6, <1>7

LEMMA EstablishStep ==
    ASSUME IInv, NEW p \in Clients, Establish(p)
    PROVE  IInv'
<1>0. TypeOK /\ Opening /\ Negotiation /\ AgreedByBoth /\ FinalIsHeld /\ Closing
    BY DEF IInv
<1>1. /\ pc[p] \in {"proposing", "accepting"}
      /\ \E next \in {"signing", "funding"} : pc' = [pc EXCEPT ![p] = next]
      /\ UNCHANGED <<conn, deposits, funded, held, watching, told,
                     updates, close, handled, concluded, settled>>
    BY DEF Establish
<1>2. /\ signed' = Clients /\ First \in States /\ First # None
      /\ state[p] = None /\ p \notin deposits
      /\ \A q \in Clients : q \notin funded /\ state[q] \in {None, First}
      /\ state' = [state EXCEPT ![p] = First]
      /\ state'[p] = First /\ \A q \in Clients : q # p => state'[q] = state[q]
    BY EstablishFacts
<1>3. First.version = 0 /\ First.version + 1 # 0 /\ First.agreed = Clients /\ ~First.final
    BY DEF First, State
<1>4. sent = {} /\ \A q \in Clients : lock[q] = None
    BY <1>0, <1>2 DEF Negotiation, Pending, TypeOK, States
<1>5. \A q \in Clients : state'[q] \in {None, First} /\ (state[q] # None => state'[q] = state[q])
    BY <1>2
<1>6. TypeOK'
  <2>1. pc' \in [Clients -> SetUpSteps]
      BY <1>0, <1>1 DEF TypeOK, SetUpSteps
  <2>2. state' \in [Clients -> States \cup {None}]
      BY <1>0, <1>2 DEF TypeOK
  <2> QED BY <1>0, <1>1, <1>2, <1>4, <2>1, <2>2 DEF TypeOK, updates
<1>7. Opening'
  <2>1. pc'[p] \in {"signing", "funding"} /\ \A q \in Clients : q # p => pc'[q] = pc[q]
      BY <1>0, <1>1 DEF TypeOK
  <2> QED BY <1>0, <1>1, <1>2, <1>5, <2>1 DEF Opening
<1>8. NotFarApart'
    BY <1>3, <1>5 DEF NotFarApart, Near
<1>9. Negotiation'
    BY <1>1, <1>4 DEF Negotiation, Asked, Proposes, updates
<1>10. AgreedByBoth'
    BY <1>0, <1>1, <1>3, <1>5 DEF AgreedByBoth
<1>11. FinalIsHeld' /\ Closing'
  <2>1. concluded # None => concluded.agreed = Clients
      BY <1>0 DEF AgreedByBoth
  <2>2. \A q \in Clients : close[q] # "finalizing" /\ close[q] # "settling"
      BY <1>0, <1>2, <1>3, <1>4 DEF Closing, Proposes
  <2>3. concluded # None /\ concluded.final => \E q \in Clients : concluded = state[q] /\ state[q] # None
      BY <1>0 DEF FinalIsHeld
  <2>4. FinalIsHeld'
      BY <1>1, <1>5, <2>3 DEF FinalIsHeld
  <2> QED BY <1>0, <1>1, <2>2, <2>4 DEF Closing
<1>12. CreatedMeansBothHold' /\ ClosedMeansPaid'
    BY <1>1 DEF IInv, CreatedMeansBothHold, ClosedMeansPaid
<1> QED BY <1>6, <1>7, <1>8, <1>9, <1>10, <1>11, <1>12 DEF IInv

-----------------------------------------------------------------------------
(* Updates.                                                                *)

LEMMA PeerOfPeer ==
    ASSUME NEW p \in Clients, NEW q \in Clients, q # p
    PROVE  Peer(p) = q /\ Clients = {p, q}
<1>1. Peer(p) \in Clients /\ Peer(p) # p /\ Clients = {p, Peer(p)}
    BY PeerFacts
<1> QED BY <1>1

(* When one client has funded, both hold a state.                          *)
LEMMA FundedFacts ==
    ASSUME IInv, NEW p \in Clients, p \in funded
    PROVE  \A q \in Clients : state[q] \in States /\ state[q] # None /\ state[q].version \in Int
<1>1. deposits = Clients
    BY DEF IInv, Opening
<1>2. \A q \in Clients : state[q] # None
    BY <1>1 DEF IInv, Opening
<1>3. \A q \in Clients : state[q] \in States
    BY <1>2 DEF IInv, TypeOK
<1> QED BY <1>2, <1>3 DEF States

(* Steps after the set-up that leave the states alone.                     *)
LEMMA QuietStep ==
    ASSUME IInv, TypeOK', Negotiation', Closing',
           UNCHANGED <<opening, told, state, concluded>>,
           ClosedMeansPaid'
    PROVE  IInv'
<1> USE DEF opening, setup
<1>1. Opening'
    BY DEF IInv, Opening
<1>2. AgreedByBoth' /\ FinalIsHeld' /\ NotFarApart'
    BY DEF IInv, AgreedByBoth, FinalIsHeld, NotFarApart
<1>3. CreatedMeansBothHold'
    BY DEF IInv, CreatedMeansBothHold
<1> QED BY <1>1, <1>2, <1>3 DEF IInv

(* While the states stay, each proposal that is left stays as it is.       *)
LEMMA StillPending ==
    ASSUME UNCHANGED <<opening, state>>
    PROVE  \A to : Pending(to)' <=> Pending(to)
BY DEF Pending, opening, setup

(* Propose, by UpdateChannel and by CloseChannel.                          *)
LEMMA ProposeStep ==
    ASSUME IInv, NEW p \in Clients, NEW final \in BOOLEAN, Propose(p, final),
           UNCHANGED <<opening, state>>
    PROVE  /\ lock[p] = None
           /\ lock' \in [Clients -> Updates \cup {None}]
           /\ Proposes(p)' /\ lock'[p].to.final = final
           /\ lock'[p].to.version = state[p].version + 1
           /\ \A q \in Clients : q # p => lock'[q] = lock[q]
           /\ sent' \subseteq States
           /\ Negotiation'
<1> DEFINE to == State(state[p].version + 1, final, p, {p})
           u  == [role |-> "proposer", to |-> to, answer |-> "none"]
<1>0. TypeOK /\ Negotiation
    BY DEF IInv
<1>1. /\ p \in funded /\ lock[p] = None /\ ~state[p].final
      /\ state[p].version < MaxVersion
      /\ lock' = [lock EXCEPT ![p] = u]
      /\ sent' \subseteq sent \cup {to}
    BY DEF Propose, Active, CanSend
<1>2. state[p] \in States /\ state[p].version \in Int
    BY <1>1, FundedFacts
<1>3. /\ to \in States /\ to.version = state[p].version + 1 /\ to.final = final
      /\ to.by = p /\ to.agreed = {p}
    BY <1>1, <1>2, ClientsAssumption DEF State, States
<1> HIDE DEF to
<1>4. u \in Updates /\ u # None /\ u.role = "proposer" /\ u.to = to /\ u.answer = "none"
    BY <1>3, NoneAssumption DEF Updates
<1> HIDE DEF u
<1>5. /\ lock' \in [Clients -> Updates \cup {None}] /\ lock'[p] = u
      /\ \A q \in Clients : q # p => lock'[q] = lock[q]
    BY <1>0, <1>1, <1>4 DEF TypeOK
<1>6. sent' \subseteq States
    BY <1>0, <1>1, <1>3 DEF TypeOK
<1>7. Negotiation'
  <2>1. \A t \in sent' : Pending(t)'
    <3>1. Pending(to)
        BY <1>1, <1>2, <1>3 DEF Pending
    <3>2. \A t \in sent : Pending(t)
        BY <1>0 DEF Negotiation
    <3> QED BY <1>1, <3>1, <3>2, StillPending
  <2>2. ASSUME NEW q \in Clients
        PROVE  /\ lock'[q] # None => q \in funded' /\ ~state'[q].final
               /\ Asked(q)' => Pending(lock[q].to)' /\ lock'[q].to.by # q
               /\ Proposes(q)' /\ lock'[q].answer = "accepted" => lock'[q].to = state'[Peer(q)]
    <3>1. CASE q = p
        BY <1>1, <1>4, <1>5, <3>1 DEF Asked, Proposes, opening, setup
    <3>2. CASE q # p
      <4>1. lock'[q] = lock[q]
          BY <1>5, <3>2
      <4> QED BY <1>0, <4>1, StillPending DEF Negotiation, Asked, Proposes, opening, setup
    <3> QED BY <3>1, <3>2
  <2> QED BY <2>1, <2>2 DEF Negotiation
<1> QED BY <1>1, <1>3, <1>4, <1>5, <1>6, <1>7 DEF Proposes

LEMMA UpdateChannelStep ==
    ASSUME IInv, NEW p \in Clients, NEW final \in BOOLEAN, UpdateChannel(p, final)
    PROVE  IInv'
<1>1. /\ Propose(p, final)
      /\ UNCHANGED <<conn, opening, told, state, close, handled, concluded, settled>>
    BY DEF UpdateChannel
<1>2. /\ lock[p] = None /\ lock' \in [Clients -> Updates \cup {None}]
      /\ lock'[p].to.version = state[p].version + 1
      /\ \A q \in Clients : q # p => lock'[q] = lock[q]
      /\ sent' \subseteq States /\ Negotiation'
    BY <1>1, ProposeStep
<1>3. TypeOK'
  <2>1. \A q \in Clients : lock'[q] # None => lock'[q].to.version = state'[q].version + 1
      BY <1>1, <1>2 DEF IInv, TypeOK
  <2> QED BY <1>1, <1>2, <2>1 DEF IInv, TypeOK, opening, setup
<1>4. Closing'
  <2>1. \A q \in Clients : close[q] = "finalizing" => lock'[q] = lock[q]
      BY <1>2 DEF IInv, Closing, Proposes
  <2> QED BY <1>1, <2>1 DEF IInv, Closing, Proposes, opening
<1>5. ClosedMeansPaid'
    BY <1>1 DEF IInv, ClosedMeansPaid
<1> QED BY <1>1, <1>2, <1>3, <1>4, <1>5, QuietStep

LEMMA CloseChannelStep ==
    ASSUME IInv, NEW p \in Clients, NEW force \in BOOLEAN, CloseChannel(p, force)
    PROVE  IInv'
<1>0. TypeOK /\ Opening /\ Closing /\ ClosedMeansPaid /\ Negotiation
    BY DEF IInv
<1>1. /\ p \in held /\ close[p] \in {"idle", "closed"}
      /\ UNCHANGED <<conn, opening, told, state, handled, concluded, settled>>
    BY DEF CloseChannel
<1>2. CASE /\ force \/ state[p].final
           /\ close' = [close EXCEPT ![p] = IF force THEN "force settling" ELSE "settling"]
           /\ UNCHANGED updates
  <2>1. TypeOK'
      BY <1>0, <1>1, <1>2 DEF TypeOK, opening, setup, updates
  <2>2. Closing'
      BY <1>0, <1>1, <1>2 DEF Closing, TypeOK, Opening, Proposes, opening, updates
  <2>3. ClosedMeansPaid'
      BY <1>0, <1>1, <1>2 DEF ClosedMeansPaid, TypeOK
  <2>4. Negotiation'
      BY <1>0, <1>1, <1>2 DEF Negotiation, Pending, Asked, Proposes, opening, setup, updates
  <2> QED BY <1>1, <2>1, <2>2, <2>3, <2>4, QuietStep
<1>3. CASE Propose(p, TRUE) /\ close' = [close EXCEPT ![p] = "finalizing"]
  <2>1. /\ lock[p] = None /\ lock' \in [Clients -> Updates \cup {None}]
        /\ Proposes(p)' /\ lock'[p].to.final
        /\ lock'[p].to.version = state[p].version + 1
        /\ \A q \in Clients : q # p => lock'[q] = lock[q]
        /\ sent' \subseteq States /\ Negotiation'
      BY <1>1, <1>3, ProposeStep
  <2>2. TypeOK'
    <3>1. \A q \in Clients : lock'[q] # None => lock'[q].to.version = state'[q].version + 1
        BY <1>0, <1>1, <2>1 DEF TypeOK
    <3> QED BY <1>0, <1>1, <1>3, <2>1, <3>1 DEF TypeOK, opening, setup
  <2>3. Closing'
      BY <1>0, <1>1, <1>3, <2>1 DEF Closing, TypeOK, Proposes, opening
  <2>4. ClosedMeansPaid'
      BY <1>0, <1>1, <1>3 DEF ClosedMeansPaid, TypeOK
  <2> QED BY <1>1, <2>1, <2>2, <2>3, <2>4, QuietStep
<1> QED BY <1>2, <1>3 DEF CloseChannel

(* Steps that end a negotiation, refuse it or drop a proposal.             *)
LEMMA EndingStep ==
    ASSUME IInv, lock' \in [Clients -> Updates \cup {None}], sent' \subseteq sent,
           UNCHANGED <<opening, state>>,
           \A q \in Clients :
               \/ lock'[q] = None
               \/ /\ lock[q] # None /\ lock'[q].role = lock[q].role
                  /\ lock'[q].to = lock[q].to
                  /\ lock'[q].answer \in {lock[q].answer, "refused"}
    PROVE  /\ Negotiation'
           /\ \A q \in Clients : lock'[q] # None => lock'[q].to.version = state'[q].version + 1
<1>0. TypeOK /\ Negotiation
    BY DEF IInv
<1>1. \A to \in sent' : Pending(to)'
    BY <1>0, StillPending DEF Negotiation
<1>2. ASSUME NEW q \in Clients, lock'[q] # None
      PROVE  /\ q \in funded' /\ ~state'[q].final
             /\ Asked(q)' => Pending(lock[q].to)' /\ lock'[q].to.by # q
             /\ Proposes(q)' /\ lock'[q].answer = "accepted" => lock'[q].to = state'[Peer(q)]
             /\ lock'[q].to.version = state'[q].version + 1
  <2>1. /\ lock[q] # None /\ lock'[q].role = lock[q].role /\ lock'[q].to = lock[q].to
        /\ lock'[q].answer \in {lock[q].answer, "refused"}
      BY <1>2
  <2>2. /\ q \in funded /\ ~state[q].final /\ lock[q].to.version = state[q].version + 1
        /\ Asked(q) => Pending(lock[q].to) /\ lock[q].to.by # q
        /\ Proposes(q) /\ lock[q].answer = "accepted" => lock[q].to = state[Peer(q)]
      BY <1>0, <2>1 DEF Negotiation, TypeOK
  <2>3. (Asked(q)' => Asked(q)) /\ (Proposes(q)' => Proposes(q))
      BY <2>1 DEF Asked, Proposes
  <2>4. Asked(q)' => Pending(lock[q].to)'
      BY <2>1, <2>2, <2>3, StillPending
  <2> QED BY <2>1, <2>2, <2>3, <2>4 DEF opening, setup
<1>3. \A q \in Clients : Asked(q)' \/ Proposes(q)' => lock'[q] # None
    BY DEF Asked, Proposes
<1> QED BY <1>1, <1>2, <1>3 DEF Negotiation

LEMMA AskUpdateStep ==
    ASSUME IInv, NEW q \in Clients, NEW to \in sent, AskUpdate(q, to)
    PROVE  IInv'
<1> DEFINE u == [role |-> "asked", to |-> to, answer |-> "none"]
<1>0. TypeOK /\ Negotiation /\ Closing /\ ClosedMeansPaid
    BY DEF IInv
<1>1. /\ to.by # q /\ lock[q] = None /\ q \in funded /\ ~state[q].final
      /\ to.version = state[q].version + 1 /\ sent' \subseteq sent
      /\ lock' = [lock EXCEPT ![q] = u]
      /\ UNCHANGED <<conn, opening, told, state, close, handled, concluded, settled>>
    BY DEF AskUpdate, Takes, Active
<1>2. to \in States /\ Pending(to)
    BY <1>0 DEF TypeOK, Negotiation
<1>3. u \in Updates /\ u # None /\ u.role = "asked" /\ u.to = to
    BY <1>2, NoneAssumption DEF Updates
<1> HIDE DEF u
<1>4. /\ lock' \in [Clients -> Updates \cup {None}] /\ lock'[q] = u
      /\ \A p \in Clients : p # q => lock'[p] = lock[p]
    BY <1>0, <1>1, <1>3 DEF TypeOK
<1>5. TypeOK'
  <2>1. \A p \in Clients : lock'[p] # None => lock'[p].to.version = state'[p].version + 1
      BY <1>0, <1>1, <1>3, <1>4 DEF TypeOK
  <2>2. sent' \subseteq States
      BY <1>0, <1>1 DEF TypeOK
  <2> QED BY <1>0, <1>1, <1>4, <2>1, <2>2 DEF TypeOK, opening, setup
<1>6. Negotiation'
  <2>1. \A t \in sent' : Pending(t)'
      BY <1>0, <1>1, StillPending DEF Negotiation
  <2>2. ASSUME NEW p \in Clients
        PROVE  /\ lock'[p] # None => p \in funded' /\ ~state'[p].final
               /\ Asked(p)' => Pending(lock[p].to)' /\ lock'[p].to.by # p
               /\ Proposes(p)' /\ lock'[p].answer = "accepted" => lock'[p].to = state'[Peer(p)]
    <3>1. CASE p = q
      <4>1. Pending(lock[p].to)'
          BY <1>1, <1>2, <1>3, <1>4, <3>1, StillPending
      <4> QED BY <1>1, <1>3, <1>4, <3>1, <4>1 DEF Asked, Proposes, opening, setup
    <3>2. CASE p # q
      <4>1. lock'[p] = lock[p]
          BY <1>4, <3>2
      <4>2. Asked(p) => Pending(lock[p].to)'
          BY <1>0, <1>1, <4>1, StillPending DEF Negotiation
      <4> QED BY <1>0, <1>1, <4>1, <4>2 DEF Negotiation, Asked, Proposes, opening, setup
    <3> QED BY <3>1, <3>2
  <2> QED BY <2>1, <2>2 DEF Negotiation
<1>7. Closing'
  <2>1. \A p \in Clients : close[p] = "finalizing" => lock'[p] = lock[p]
      BY <1>0, <1>1, <1>4 DEF Closing, Proposes
  <2> QED BY <1>0, <1>1, <2>1 DEF Closing, Proposes, opening
<1>8. ClosedMeansPaid'
    BY <1>0, <1>1 DEF ClosedMeansPaid
<1> QED BY <1>1, <1>5, <1>6, <1>7, <1>8, QuietStep

LEMMA DropUpdateStep ==
    ASSUME IInv, NEW q \in Clients, NEW to \in sent, DropUpdate(q, to)
    PROVE  IInv'
<1>1. /\ sent' \subseteq sent
      /\ UNCHANGED <<conn, opening, told, state, lock, close, handled, concluded, settled>>
    BY DEF DropUpdate
<1>2. Negotiation'
    BY <1>1, EndingStep DEF IInv, TypeOK
<1>3. TypeOK'
    BY <1>1 DEF IInv, TypeOK, opening, setup
<1>4. Closing' /\ ClosedMeansPaid'
    BY <1>1 DEF IInv, Closing, Proposes, ClosedMeansPaid, opening
<1> QED BY <1>1, <1>2, <1>3, <1>4, QuietStep

(* What an answer does to the locks, an acceptance's apart.                *)
LEMMA AnsweredLocks ==
    ASSUME TypeOK, NEW q \in Clients, Asked(q), NEW to, NEW answer \in {"accepted", "refused"},
           to = lock[q].to \/ to = [lock[q].to EXCEPT !.agreed = @ \cup {q}],
           lock' = Answered(q, answer, to)
    PROVE  /\ lock'[q] = None
           /\ \A p \in Clients : p # q =>
                 \/ lock'[p] = lock[p]
                 \/ /\ Proposes(p) /\ lock'[p] = [lock[p] EXCEPT !.answer = "refused"]
                 \/ /\ Proposes(p) /\ answer = "accepted" /\ lock[p].to = lock[q].to
                    /\ lock'[p] = [lock[p] EXCEPT !.to = to, !.answer = "accepted"]
BY DEF Answered

LEMMA RejectUpdateStep ==
    ASSUME IInv, NEW q \in Clients, RejectUpdate(q)
    PROVE  IInv'
<1>0. TypeOK /\ Closing /\ ClosedMeansPaid
    BY DEF IInv
<1>1. /\ Asked(q) /\ lock' = Answered(q, "refused", lock[q].to)
      /\ UNCHANGED <<conn, opening, told, state, sent, close, handled, concluded, settled>>
    BY DEF RejectUpdate
<1>2. /\ lock'[q] = None
      /\ \A p \in Clients : p # q =>
            \/ lock'[p] = lock[p]
            \/ Proposes(p) /\ lock'[p] = [lock[p] EXCEPT !.answer = "refused"]
    BY <1>0, <1>1, AnsweredLocks
<1>3. ASSUME NEW p \in Clients
      PROVE  \/ lock'[p] = None
             \/ /\ lock[p] # None /\ lock'[p] \in Updates /\ lock'[p].role = lock[p].role
                /\ lock'[p].to = lock[p].to
                /\ lock'[p].answer \in {lock[p].answer, "refused"}
  <2>1. lock[p] = None \/ lock[p] \in Updates
      BY <1>0 DEF TypeOK
  <2>2. CASE p = q \/ lock'[p] = lock[p]
      BY <1>2, <2>1, <2>2, NoneAssumption
  <2>3. CASE Proposes(p) /\ lock'[p] = [lock[p] EXCEPT !.answer = "refused"]
    <3>1. lock[p] # None /\ lock[p] \in Updates
        BY <2>1, <2>3 DEF Proposes
    <3> QED BY <2>3, <3>1 DEF Updates
  <2> QED BY <1>2, <2>2, <2>3
<1>4. lock' \in [Clients -> Updates \cup {None}]
  <2>1. lock' = [p \in Clients |-> lock'[p]]
      BY <1>1 DEF Answered
  <2> QED BY <1>3, <2>1
<1>5. Negotiation' /\ \A p \in Clients : lock'[p] # None => lock'[p].to.version = state'[p].version + 1
    BY <1>1, <1>3, <1>4, EndingStep
<1>6. TypeOK'
    BY <1>0, <1>1, <1>4, <1>5 DEF TypeOK, opening, setup
<1>7. Closing'
  <2>1. ASSUME NEW p \in Clients, Proposes(p)
        PROVE  Proposes(p)' /\ lock'[p].to = lock[p].to
    <3>1. p # q
        BY <1>1, <2>1 DEF Asked, Proposes
    <3>2. lock[p] \in Updates
        BY <1>0, <2>1 DEF TypeOK, Proposes
    <3>3. \/ lock'[p] = lock[p]
          \/ lock'[p] = [lock[p] EXCEPT !.answer = "refused"]
        BY <1>2, <3>1
    <3>4. lock'[p] # None
        BY <2>1, <3>2, <3>3, NoneAssumption DEF Proposes, Updates
    <3> QED BY <2>1, <3>2, <3>3, <3>4 DEF Proposes, Updates
  <2> QED BY <1>0, <1>1, <2>1 DEF Closing, opening
<1>8. ClosedMeansPaid'
    BY <1>0, <1>1 DEF ClosedMeansPaid
<1> QED BY <1>1, <1>5, <1>6, <1>7, <1>8, QuietStep

LEMMA ShutdownStep ==
    ASSUME IInv, NEW p \in Clients, NEW answered \in BOOLEAN, Shutdown(p, answered)
    PROVE  IInv'
<1>0. TypeOK /\ Closing /\ ClosedMeansPaid
    BY DEF IInv
<1>1. /\ conn' = [conn EXCEPT ![p] = FALSE] /\ sent' \subseteq sent
      /\ UNCHANGED <<opening, told, state, close, handled, concluded, settled>>
    BY DEF Shutdown, DropStale
<1>2. lock' = lock \/ (Asked(p) /\ lock' = [lock EXCEPT ![p] = None])
    BY DEF Shutdown
<1>3. \A q \in Clients : lock'[q] = lock[q] \/ (Asked(q) /\ lock'[q] = None)
    BY <1>0, <1>2 DEF TypeOK
<1>4. lock' \in [Clients -> Updates \cup {None}]
    BY <1>0, <1>2 DEF TypeOK
<1>5. Negotiation' /\ \A q \in Clients : lock'[q] # None => lock'[q].to.version = state'[q].version + 1
    BY <1>1, <1>3, <1>4, EndingStep
<1>6. TypeOK'
    BY <1>0, <1>1, <1>4, <1>5 DEF TypeOK, opening, setup
<1>7. Closing'
  <2>1. \A q \in Clients : Proposes(q) => Proposes(q)' /\ lock'[q] = lock[q]
      BY <1>3 DEF Asked, Proposes
  <2> QED BY <1>0, <1>1, <2>1 DEF Closing, opening
<1>8. ClosedMeansPaid'
    BY <1>0, <1>1 DEF ClosedMeansPaid
<1> QED BY <1>1, <1>5, <1>6, <1>7, <1>8, QuietStep

LEMMA UpdateFailsStep ==
    ASSUME IInv, NEW p \in Clients, UpdateFails(p)
    PROVE  IInv'
<1>0. TypeOK /\ Closing /\ ClosedMeansPaid
    BY DEF IInv
<1>1. /\ lock' = [lock EXCEPT ![p] = None]
      /\ close' = [close EXCEPT ![p] = IF @ = "finalizing" THEN "idle" ELSE @]
      /\ UNCHANGED <<conn, opening, told, state, sent, handled, concluded, settled>>
    BY DEF UpdateFails
<1>2. /\ lock' \in [Clients -> Updates \cup {None}]
      /\ lock'[p] = None /\ \A q \in Clients : q # p => lock'[q] = lock[q]
    BY <1>0, <1>1 DEF TypeOK
<1>3. /\ close' \in [Clients -> {"idle", "finalizing", "settling", "force settling", "closed"}]
      /\ close'[p] # "finalizing" /\ \A q \in Clients : close'[q] \in {close[q], "idle"}
      /\ \A q \in Clients : q # p => close'[q] = close[q]
    BY <1>0, <1>1 DEF TypeOK
<1>4. Negotiation' /\ \A q \in Clients : lock'[q] # None => lock'[q].to.version = state'[q].version + 1
    BY <1>1, <1>2, EndingStep
<1>5. TypeOK'
    BY <1>0, <1>1, <1>2, <1>3, <1>4 DEF TypeOK, opening, setup
<1>6. Closing'
  <2>1. UNCHANGED <<held, state>>
      BY <1>1 DEF opening
  <2>2. \A q \in Clients : close'[q] = "finalizing" => Proposes(q)' /\ lock'[q].to.final
      BY <1>0, <1>2, <1>3 DEF Closing, Proposes
  <2>3. \A q \in Clients : close'[q] = "settling" => close[q] = "settling"
      BY <1>3
  <2>4. \A q \in Clients : close'[q] # "idle" => close[q] # "idle"
      BY <1>3
  <2> QED BY <1>0, <2>1, <2>2, <2>3, <2>4 DEF Closing
<1>7. ClosedMeansPaid'
    BY <1>0, <1>1, <1>3 DEF ClosedMeansPaid
<1> QED BY <1>1, <1>4, <1>5, <1>6, <1>7, QuietStep

(* Who accepts is not ahead of the proposer, and if it is behind, the      *)
(* proposer has taken one of its own proposals meanwhile.                  *)
LEMMA AcceptFacts ==
    ASSUME IInv, NEW q \in Clients, AcceptUpdate(q),
           NEW to, to = [lock[q].to EXCEPT !.agreed = @ \cup {q}],
           NEW p, p = Peer(q)
    PROVE  /\ p \in Clients /\ p # q /\ Clients = {p, q}
           /\ p \in funded /\ q \in funded /\ ~state[q].final
           /\ state[p] \in States /\ state[p] # None /\ state[p].version \in Int
           /\ state[q] \in States /\ state[q] # None /\ state[q].version \in Int
           /\ to \in States /\ to # None
           /\ to = [version |-> state[q].version + 1, final |-> lock[q].to.final,
                    by |-> p, agreed |-> Clients]
           /\ \/ state[p].version = state[q].version /\ ~state[p].final
              \/ state[p].version = state[q].version + 1 /\ state[p].by = q
           /\ state' = [state EXCEPT ![q] = to] /\ state'[q] = to /\ state'[p] = state[p]
<1>0. TypeOK /\ Opening /\ Negotiation /\ NotFarApart
    BY DEF IInv
<1>1. p \in Clients /\ p # q /\ Clients = {p, q}
    BY PeerFacts
<1> DEFINE u == lock[q].to
<1>2. Asked(q) /\ lock[q] # None /\ state' = [state EXCEPT ![q] = to]
    BY DEF AcceptUpdate, Asked
<1>3. /\ q \in funded /\ ~state[q].final /\ Pending(u) /\ u.by # q
      /\ u.version = state[q].version + 1 /\ u \in States
    BY <1>0, <1>2 DEF Negotiation, TypeOK, Updates
<1>4. u.by = p
    BY <1>1, <1>3, PeerFacts DEF Pending, TypeOK, IInv
<1>5. /\ p \in funded /\ u.agreed = {p} /\ u.version <= state[p].version + 1
      /\ u.version = state[p].version + 1 => ~state[p].final
    BY <1>3, <1>4 DEF Pending
<1>6. /\ state[p] \in States /\ state[p] # None /\ state[p].version \in Int
      /\ state[q] \in States /\ state[q] # None /\ state[q].version \in Int
    BY <1>1, <1>3, FundedFacts
<1>7. to = [version |-> u.version, final |-> u.final, by |-> u.by, agreed |-> u.agreed \cup {q}]
    BY <1>3 DEF States
<1>8. to = [version |-> state[q].version + 1, final |-> u.final, by |-> p, agreed |-> Clients]
    BY <1>1, <1>3, <1>4, <1>5, <1>7
<1>9. to \in States /\ to # None
  <2>1. to \in States
      BY <1>1, <1>3, <1>7, <1>8 DEF States
  <2> QED BY <2>1, NoneAssumption
<1>10. Near(state[p], state[q], p, q)
    BY <1>0, <1>1, <1>6 DEF NotFarApart
<1>11. \/ state[p].version = state[q].version /\ ~state[p].final
       \/ state[p].version = state[q].version + 1 /\ state[p].by = q
  <2> HIDE DEF u
  <2> QED BY <1>3, <1>5, <1>6, <1>10 DEF Near
<1>12. state'[q] = to /\ state'[p] = state[p]
    BY <1>0, <1>1, <1>2 DEF TypeOK
<1> QED BY <1>1, <1>2, <1>3, <1>5, <1>6, <1>8, <1>9, <1>11, <1>12

(* The proposer, when it still waits for this version, learns of it.       *)
LEMMA AcceptLocks ==
    ASSUME IInv, NEW q \in Clients, AcceptUpdate(q),
           NEW to, to = [lock[q].to EXCEPT !.agreed = @ \cup {q}],
           NEW p, p = Peer(q)
    PROVE  /\ lock' \in [Clients -> Updates \cup {None}] /\ lock'[q] = None
           /\ \/ lock'[p] = lock[p]
              \/ /\ Proposes(p) /\ lock'[p] # None /\ lock'[p].role = "proposer"
                 /\ lock'[p].to = lock[p].to /\ lock'[p].answer = "refused"
              \/ /\ Proposes(p) /\ lock'[p] # None /\ lock'[p].role = "proposer"
                 /\ lock'[p].to = to /\ lock'[p].answer = "accepted"
                 /\ lock[p].to = lock[q].to
<1>0. TypeOK
    BY DEF IInv
<1>1. /\ p \in Clients /\ p # q /\ Clients = {p, q} /\ to \in States
    BY AcceptFacts
<1>2. Asked(q) /\ lock' = Answered(q, "accepted", to)
    BY DEF AcceptUpdate
<1>3. /\ lock'[q] = None
      /\ \/ lock'[p] = lock[p]
         \/ Proposes(p) /\ lock'[p] = [lock[p] EXCEPT !.answer = "refused"]
         \/ /\ Proposes(p) /\ lock[p].to = lock[q].to
            /\ lock'[p] = [lock[p] EXCEPT !.to = to, !.answer = "accepted"]
    BY <1>0, <1>1, <1>2, AnsweredLocks
<1>4. Proposes(p) => lock[p] \in Updates /\ lock[p].role = "proposer"
    BY <1>0, <1>1 DEF TypeOK, Proposes
<1>5. \/ lock'[p] = lock[p]
      \/ /\ Proposes(p) /\ lock'[p] \in Updates /\ lock'[p].role = "proposer"
         /\ lock'[p].to = lock[p].to /\ lock'[p].answer = "refused"
      \/ /\ Proposes(p) /\ lock'[p] \in Updates /\ lock'[p].role = "proposer"
         /\ lock'[p].to = to /\ lock'[p].answer = "accepted"
         /\ lock[p].to = lock[q].to
  <2>1. CASE Proposes(p) /\ lock'[p] = [lock[p] EXCEPT !.answer = "refused"]
      BY <1>4, <2>1 DEF Updates
  <2>2. CASE /\ Proposes(p) /\ lock[p].to = lock[q].to
             /\ lock'[p] = [lock[p] EXCEPT !.to = to, !.answer = "accepted"]
      BY <1>1, <1>4, <2>2 DEF Updates
  <2> QED BY <1>3, <2>1, <2>2
<1>6. lock' \in [Clients -> Updates \cup {None}]
  <2>1. lock' = [r \in Clients |-> lock'[r]]
      BY <1>2 DEF Answered
  <2>2. lock'[p] \in Updates \cup {None}
      BY <1>0, <1>1, <1>5 DEF TypeOK
  <2> QED BY <1>1, <1>3, <2>1, <2>2
<1> QED BY <1>3, <1>5, <1>6, NoneAssumption

LEMMA AcceptUpdateStep ==
    ASSUME IInv, NEW q \in Clients, AcceptUpdate(q)
    PROVE  IInv'
<1> DEFINE to == [lock[q].to EXCEPT !.agreed = @ \cup {q}]
           p  == Peer(q)
<1>0. TypeOK /\ Opening /\ NotFarApart /\ Negotiation /\ AgreedByBoth /\ FinalIsHeld /\ Closing
    BY DEF IInv
<1>1. /\ p \in Clients /\ p # q /\ Clients = {p, q} /\ Peer(p) = q
      /\ p \in funded /\ q \in funded /\ ~state[q].final
      /\ state[p] # None /\ state[p].version \in Int
      /\ state[q] # None /\ state[q].version \in Int
      /\ to \in States /\ to # None
      /\ to = [version |-> state[q].version + 1, final |-> lock[q].to.final,
               by |-> p, agreed |-> Clients]
      /\ \/ state[p].version = state[q].version /\ ~state[p].final
         \/ state[p].version = state[q].version + 1 /\ state[p].by = q
      /\ state' = [state EXCEPT ![q] = to] /\ state'[q] = to /\ state'[p] = state[p]
    BY AcceptFacts, PeerOfPeer
<1>2. /\ lock' \in [Clients -> Updates \cup {None}] /\ lock'[q] = None
      /\ \/ lock'[p] = lock[p]
         \/ /\ Proposes(p) /\ lock'[p] # None /\ lock'[p].role = "proposer"
            /\ lock'[p].to = lock[p].to /\ lock'[p].answer = "refused"
         \/ /\ Proposes(p) /\ lock'[p] # None /\ lock'[p].role = "proposer"
            /\ lock'[p].to = to /\ lock'[p].answer = "accepted"
            /\ lock[p].to = lock[q].to
    BY AcceptLocks
<1>3. to.version = state[q].version + 1 /\ to.final = lock[q].to.final /\ to.by = p
      /\ to.agreed = Clients
    BY <1>1
<1>4. /\ Asked(q) /\ lock[q] # None /\ ~Proposes(q) /\ sent' \subseteq sent
      /\ UNCHANGED <<conn, opening, told, close, handled, concluded, settled>>
    BY DEF AcceptUpdate, Asked, Proposes, DropStale
<1>5. lock[q].to.version = state[q].version + 1
    BY <1>0, <1>4 DEF TypeOK
<1> HIDE DEF to, p
<1>6. TypeOK'
  <2>1. state' \in [Clients -> States \cup {None}]
      BY <1>0, <1>1 DEF TypeOK
  <2>2. lock'[p] # None => lock'[p].to.version = state'[p].version + 1
    <3>1. lock[p] # None => lock[p].to.version = state[p].version + 1
        BY <1>0, <1>1 DEF TypeOK
    <3>2. Proposes(p) => lock[p] # None
        BY DEF Proposes
    <3>3. lock'[p] # None => lock[p] # None /\ lock'[p].to.version = lock[p].to.version
        BY <1>2, <1>3, <1>5, <3>2
    <3> QED BY <1>1, <3>1, <3>3
  <2>3. \A r \in Clients : lock'[r] # None => lock'[r].to.version = state'[r].version + 1
      BY <1>1, <1>2, <2>2
  <2> QED BY <1>0, <1>2, <1>4, <2>1, <2>3 DEF TypeOK, opening, setup
<1>7. Opening'
  <2>1. \A r \in Clients : state'[r] = None <=> state[r] = None
      BY <1>1
  <2>2. \A r \in Clients : r \notin funded => state'[r] = state[r]
      BY <1>1
  <2> QED BY <1>0, <1>4, <2>1, <2>2 DEF Opening, opening, setup
<1>8. NotFarApart'
  <2>1. Near(to, state[p], q, p) /\ Near(state[p], to, p, q)
      BY <1>1, <1>3 DEF Near
  <2>2. Near(to, to, q, q) /\ Near(state[p], state[p], p, p)
      BY <1>1, <1>3 DEF Near
  <2> QED BY <1>1, <2>1, <2>2 DEF NotFarApart
<1>9. \A t \in States : Pending(t) => Pending(t)'
  <2>1. ASSUME NEW t \in States, Pending(t)
        PROVE  Pending(t)'
    <3>1. t.by \in Clients
        BY <1>0, <2>1 DEF Pending, TypeOK
    <3>2. CASE t.by = p
        BY <1>1, <1>4, <2>1, <3>2 DEF Pending, opening, setup
    <3>3. CASE t.by = q
      <4>1. t.version <= state[q].version + 1 /\ t.version \in Int
          BY <2>1, <3>3 DEF Pending, States
      <4> QED BY <1>1, <1>3, <1>4, <2>1, <3>3, <4>1 DEF Pending, opening, setup
    <3> QED BY <1>1, <3>1, <3>2, <3>3
  <2> QED BY <2>1
<1>10. Negotiation'
  <2>1. \A t \in sent' : Pending(t)'
      BY <1>0, <1>4, <1>9 DEF Negotiation, TypeOK
  <2>2. lock'[p] # None => lock[p] # None /\ p \in funded' /\ ~state'[p].final
      BY <1>0, <1>1, <1>2, <1>4 DEF Negotiation, Proposes, opening, setup
  <2>3. Asked(p)' => Pending(lock[p].to)' /\ lock'[p].to.by # p
    <3>1. ASSUME Asked(p)' PROVE lock'[p] = lock[p] /\ Asked(p)
        BY <1>2, <3>1 DEF Asked
    <3>2. Asked(p) => Pending(lock[p].to) /\ lock[p].to.by # p
        BY <1>0, <1>1 DEF Negotiation
    <3>3. Asked(p) => lock[p].to \in States
        BY <1>0, <1>1 DEF Asked, TypeOK, Updates
    <3>4. ASSUME Asked(p)' PROVE Pending(lock[p].to)'
      <4>1. \E t \in States : t = lock'[p].to /\ Pending(t)'
          BY <1>9, <3>1, <3>2, <3>3, <3>4
      <4> QED BY <4>1 DEF Pending
    <3> QED BY <3>1, <3>2, <3>4
  <2>4. Proposes(p)' /\ lock'[p].answer = "accepted" => lock'[p].to = state'[q]
    <3>1. CASE lock'[p] = lock[p]
      <4>1. SUFFICES ASSUME Proposes(p)', lock'[p].answer = "accepted" PROVE FALSE
          OBVIOUS
      <4>2. Proposes(p) /\ lock[p].answer = "accepted" /\ lock[p] # None
          BY <3>1, <4>1 DEF Proposes
      <4>3. lock[p].to = state[q] /\ lock[p].to.version = state[p].version + 1
          BY <1>0, <1>1, <4>2 DEF Negotiation, TypeOK
      <4> QED BY <1>1, <4>3
    <3> QED BY <1>1, <1>2, <3>1
  <2>5. ~Asked(q)' /\ ~Proposes(q)'
      BY <1>2 DEF Asked, Proposes
  <2> QED BY <1>1, <1>2, <2>1, <2>2, <2>3, <2>4, <2>5 DEF Negotiation
<1>11. AgreedByBoth'
  <2>1. \A r \in Clients : state'[r] # None => state'[r].agreed = Clients
      BY <1>0, <1>1, <1>3 DEF AgreedByBoth
  <2> QED BY <1>0, <1>4, <2>1 DEF AgreedByBoth
<1>12. FinalIsHeld'
  <2>1. concluded # None /\ concluded.final => concluded = state[p]
      BY <1>0, <1>1 DEF FinalIsHeld
  <2> QED BY <1>1, <1>4, <2>1 DEF FinalIsHeld
<1>13. Closing'
  <2>1. close[q] # "finalizing" /\ close[q] # "settling"
      BY <1>0, <1>1, <1>4 DEF Closing
  <2>2. close[p] = "finalizing" => Proposes(p)' /\ lock'[p].to.final
      BY <1>0, <1>1, <1>2, <1>3 DEF Closing, Proposes
  <2> QED BY <1>0, <1>1, <1>4, <2>1, <2>2 DEF Closing, opening
<1>14. CreatedMeansBothHold' /\ ClosedMeansPaid'
    BY <1>4 DEF IInv, CreatedMeansBothHold, ClosedMeansPaid, opening, setup
<1> QED BY <1>6, <1>7, <1>8, <1>10, <1>11, <1>12, <1>13, <1>14 DEF IInv

(* An answer that arrives in time brings its proposer to its peer's state. *)
LEMMA SuccessFacts ==
    ASSUME IInv, NEW p \in Clients, UpdateSucceeds(p), NEW q, q = Peer(p)
    PROVE  /\ q \in Clients /\ q # p /\ Clients = {p, q}
           /\ p \in funded /\ ~state[p].final /\ lock[p].to = state[q]
           /\ state[p] # None /\ state[p].version \in Int
           /\ state[q] \in States /\ state[q] # None /\ state[q].version \in Int
           /\ state[q].version = state[p].version + 1 /\ state[q].by = p
           /\ state' = [state EXCEPT ![p] = state[q]]
           /\ state'[p] = state[q] /\ state'[q] = state[q]
<1>0. TypeOK /\ Negotiation /\ NotFarApart
    BY DEF IInv
<1>1. q \in Clients /\ q # p /\ Clients = {p, q}
    BY PeerFacts
<1>2. /\ Proposes(p) /\ lock[p].answer = "accepted" /\ lock[p] # None
      /\ state' = [state EXCEPT ![p] = lock[p].to]
    BY DEF UpdateSucceeds, Proposes
<1>3. /\ p \in funded /\ ~state[p].final /\ lock[p].to = state[q]
      /\ lock[p].to.version = state[p].version + 1
    BY <1>0, <1>2 DEF Negotiation, TypeOK
<1>4. /\ state[p] # None /\ state[p].version \in Int
      /\ state[q] \in States /\ state[q] # None /\ state[q].version \in Int
    BY <1>1, <1>3, FundedFacts
<1>5. Near(state[q], state[p], q, p)
    BY <1>0, <1>1, <1>4 DEF NotFarApart
<1>6. state[q].version = state[p].version + 1 /\ state[q].by = p
    BY <1>3, <1>5 DEF Near
<1>7. state'[p] = state[q] /\ state'[q] = state[q]
    BY <1>0, <1>1, <1>2, <1>3 DEF TypeOK
<1> QED BY <1>1, <1>2, <1>3, <1>4, <1>6, <1>7

LEMMA UpdateSucceedsStep ==
    ASSUME IInv, NEW p \in Clients, UpdateSucceeds(p)
    PROVE  IInv'
<1> DEFINE q == Peer(p)
<1>0. TypeOK /\ Opening /\ Negotiation /\ AgreedByBoth /\ FinalIsHeld /\ Closing
    BY DEF IInv
<1>1. /\ q \in Clients /\ q # p /\ Clients = {p, q} /\ Peer(q) = p
      /\ p \in funded /\ ~state[p].final /\ lock[p].to = state[q]
      /\ state[p] # None /\ state[p].version \in Int
      /\ state[q] \in States /\ state[q] # None /\ state[q].version \in Int
      /\ state[q].version = state[p].version + 1
      /\ state' = [state EXCEPT ![p] = state[q]]
      /\ state'[p] = state[q] /\ state'[q] = state[q]
    BY SuccessFacts, PeerOfPeer
<1>2. /\ Proposes(p) /\ lock' = [lock EXCEPT ![p] = None] /\ sent' \subseteq sent
      /\ close' = [close EXCEPT ![p] = IF @ = "finalizing" THEN "settling" ELSE @]
      /\ UNCHANGED <<conn, opening, told, handled, concluded, settled>>
    BY DEF UpdateSucceeds, DropStale
<1> HIDE DEF q
<1>3. /\ lock' \in [Clients -> Updates \cup {None}]
      /\ lock'[p] = None /\ lock'[q] = lock[q]
    BY <1>0, <1>1, <1>2 DEF TypeOK
<1>4. /\ close' \in [Clients -> {"idle", "finalizing", "settling", "force settling", "closed"}]
      /\ close'[p] = (IF close[p] = "finalizing" THEN "settling" ELSE close[p])
      /\ close'[q] = close[q]
    BY <1>0, <1>1, <1>2 DEF TypeOK
<1>5. TypeOK'
  <2>1. state' \in [Clients -> States \cup {None}]
      BY <1>0, <1>1 DEF TypeOK
  <2>2. \A r \in Clients : lock'[r] # None => lock'[r].to.version = state'[r].version + 1
      BY <1>0, <1>1, <1>3 DEF TypeOK
  <2> QED BY <1>0, <1>2, <1>3, <1>4, <2>1, <2>2 DEF TypeOK, opening, setup
<1>6. Opening'
  <2>1. \A r \in Clients : state'[r] = None <=> state[r] = None
      BY <1>1
  <2>2. \A r \in Clients : r \notin funded => state'[r] = state[r]
      BY <1>1
  <2> QED BY <1>0, <1>2, <2>1, <2>2 DEF Opening, opening, setup
<1>7. NotFarApart'
  <2>1. \A r, s \in Clients : Near(state[q], state[q], r, s)
      BY <1>1 DEF Near
  <2>2. \A r \in Clients : state'[r] = state[q]
      BY <1>1
  <2> QED BY <2>1, <2>2 DEF NotFarApart
<1>8. \A t \in States : Pending(t) => Pending(t)'
  <2>1. ASSUME NEW t \in States, Pending(t)
        PROVE  Pending(t)'
    <3>1. t.by \in Clients
        BY <1>0, <2>1 DEF Pending, TypeOK
    <3>2. CASE t.by = q
        BY <1>1, <1>2, <2>1, <3>2 DEF Pending, opening, setup
    <3>3. CASE t.by = p
      <4>1. t.version <= state[p].version + 1 /\ t.version \in Int
          BY <2>1, <3>3 DEF Pending, States
      <4> QED BY <1>1, <1>2, <2>1, <3>3, <4>1 DEF Pending, opening, setup
    <3> QED BY <1>1, <3>1, <3>2, <3>3
  <2> QED BY <2>1
<1>9. Negotiation'
  <2>1. \A t \in sent' : Pending(t)'
      BY <1>0, <1>2, <1>8 DEF Negotiation, TypeOK
  <2>2. lock'[q] # None => q \in funded' /\ ~state'[q].final
      BY <1>0, <1>1, <1>2, <1>3 DEF Negotiation, opening, setup
  <2>3. Asked(q)' => Pending(lock[q].to)' /\ lock'[q].to.by # q
    <3>1. ASSUME Asked(q)'
          PROVE  lock[q].to \in States /\ Pending(lock[q].to) /\ lock[q].to.by # q
        BY <1>0, <1>1, <1>3, <3>1 DEF Asked, Negotiation, TypeOK, Updates
    <3>2. ASSUME Asked(q)' PROVE Pending(lock[q].to)'
      <4>1. \E t \in States : t = lock'[q].to /\ Pending(t)'
          BY <1>3, <1>8, <3>1, <3>2
      <4> QED BY <4>1 DEF Pending
    <3> QED BY <1>3, <3>1, <3>2
  <2>4. ~(Proposes(q)' /\ lock'[q].answer = "accepted")
    <3>1. SUFFICES ASSUME Proposes(q), lock[q].answer = "accepted" PROVE FALSE
        BY <1>3 DEF Proposes
    <3>2. lock[q].to = state[p] /\ lock[q].to.version = state[q].version + 1
        BY <1>0, <1>1, <3>1 DEF Negotiation, TypeOK, Proposes
    <3> QED BY <1>1, <3>2
  <2>5. ~Asked(p)' /\ ~Proposes(p)'
      BY <1>3 DEF Asked, Proposes
  <2> QED BY <1>1, <1>3, <2>1, <2>2, <2>3, <2>4, <2>5 DEF Negotiation
<1>10. AgreedByBoth'
  <2>1. \A r \in Clients : state'[r] # None => state'[r].agreed = Clients
      BY <1>0, <1>1 DEF AgreedByBoth
  <2> QED BY <1>0, <1>2, <2>1 DEF AgreedByBoth
<1>11. FinalIsHeld'
  <2>1. concluded # None /\ concluded.final => concluded = state[q]
      BY <1>0, <1>1 DEF FinalIsHeld
  <2> QED BY <1>1, <1>2, <2>1 DEF FinalIsHeld
<1>12. Closing'
  <2>1. close[p] # "settling" /\ (close[p] = "finalizing" => state[q].final)
      BY <1>0, <1>1 DEF Closing
  <2>2. close[q] = "settling" => state[q].final
      BY <1>0, <1>1 DEF Closing
  <2>3. close[q] = "finalizing" => Proposes(q)' /\ lock'[q].to.final
      BY <1>0, <1>1, <1>3 DEF Closing, Proposes
  <2>4. \A r \in Clients : close'[r] # "idle" => close[r] # "idle"
      BY <1>1, <1>4
  <2>5. close'[p] # "finalizing"
      BY <1>4
  <2>6. \A r \in Clients : close'[r] = "settling" => state'[r] # None /\ state'[r].final
      BY <1>1, <1>4, <2>1, <2>2
  <2>7. \A r \in Clients : close'[r] = "finalizing" => Proposes(r)' /\ lock'[r].to.final
      BY <1>1, <1>4, <2>3, <2>5
  <2> QED BY <1>0, <1>2, <2>4, <2>6, <2>7 DEF Closing, opening
<1>13. CreatedMeansBothHold' /\ ClosedMeansPaid'
  <2>1. \A r \in Clients : close'[r] = "closed" => close[r] = "closed"
      BY <1>1, <1>4
  <2> QED BY <1>2, <2>1 DEF IInv, CreatedMeansBothHold, ClosedMeansPaid, opening, setup
<1> QED BY <1>5, <1>6, <1>7, <1>9, <1>10, <1>11, <1>12, <1>13 DEF IInv

-----------------------------------------------------------------------------
(* Settling.                                                               *)

(* What is concluded is the state of one of the two.                       *)
LEMMA ConclusionIsHeld ==
    ASSUME IInv, NEW p \in held, Settle(p), UNCHANGED opening
    PROVE  /\ concluded' \in States \cup {None}
           /\ settled' = settled \cup {p}
           /\ FinalIsHeld' /\ AgreedByBoth' /\ Negotiation' /\ NotFarApart'
           /\ UNCHANGED <<conn, state, lock>> /\ sent' \subseteq sent
<1>0. TypeOK /\ Opening /\ AgreedByBoth /\ FinalIsHeld /\ NotFarApart
    BY DEF IInv
<1>1. /\ concluded' = Conclusion(p) /\ settled' = settled \cup {p} /\ p \in Clients
      /\ UNCHANGED <<conn, state, lock>> /\ sent' \subseteq sent
    BY <1>0 DEF Settle, DropStale, TypeOK
<1>2. Peer(p) \in Clients
    BY <1>1, PeerFacts
<1>3. state[p] # None /\ (Peer(p) \in watching => state[Peer(p)] # None)
    BY <1>0, <1>1, <1>2 DEF Opening
<1>4. \/ concluded # None /\ concluded' = concluded
      \/ \E q \in Clients : state[q] # None /\ concluded' = state[q]
    BY <1>1, <1>2, <1>3 DEF Conclusion
<1>5. concluded' \in States \cup {None}
    BY <1>0, <1>4 DEF TypeOK
<1>6. FinalIsHeld'
    BY <1>0, <1>1, <1>4 DEF FinalIsHeld
<1>7. AgreedByBoth'
    BY <1>0, <1>1, <1>4 DEF AgreedByBoth
<1>8. Negotiation'
    BY <1>0, <1>1, EndingStep DEF TypeOK
<1>9. NotFarApart'
    BY <1>0, <1>1 DEF NotFarApart
<1> QED BY <1>1, <1>5, <1>6, <1>7, <1>8, <1>9

LEMMA CloseReturnsStep ==
    ASSUME IInv, NEW p \in Clients, CloseSettles(p) \/ CloseFails(p)
    PROVE  IInv'
<1>0. TypeOK /\ Opening /\ Negotiation /\ Closing /\ ClosedMeansPaid /\ CreatedMeansBothHold
    BY DEF IInv
<1>1. close[p] \in {"settling", "force settling"} /\ UNCHANGED <<opening, told, handled>>
    BY DEF CloseSettles, CloseFails
<1>2. CASE CloseSettles(p)
  <2>1. Settle(p) /\ close' = [close EXCEPT ![p] = "closed"]
      BY <1>2 DEF CloseSettles
  <2>2. p \in held
      BY <1>0, <1>1 DEF Closing
  <2>3. /\ concluded' \in States \cup {None} /\ settled' = settled \cup {p}
        /\ FinalIsHeld' /\ AgreedByBoth' /\ Negotiation' /\ NotFarApart'
        /\ UNCHANGED <<conn, state, lock>> /\ sent' \subseteq sent
      BY <1>1, <2>1, <2>2, ConclusionIsHeld
  <2>4. TypeOK'
      BY <1>0, <1>1, <2>1, <2>3 DEF TypeOK, opening, setup
  <2>5. Closing'
      BY <1>0, <1>1, <2>1, <2>2, <2>3 DEF Closing, Proposes, TypeOK, opening
  <2>6. ClosedMeansPaid'
      BY <1>0, <1>1, <2>1, <2>3 DEF ClosedMeansPaid, TypeOK
  <2>7. Opening' /\ CreatedMeansBothHold'
      BY <1>0, <1>1, <2>3 DEF Opening, CreatedMeansBothHold, opening, setup
  <2> QED BY <2>3, <2>4, <2>5, <2>6, <2>7 DEF IInv
<1>3. CASE CloseFails(p)
  <2>1. /\ close' = [close EXCEPT ![p] = "idle"]
        /\ UNCHANGED <<conn, state, updates, concluded, settled>>
      BY <1>3 DEF CloseFails
  <2>2. TypeOK'
      BY <1>0, <1>1, <2>1 DEF TypeOK, opening, setup, updates
  <2>3. Closing' /\ ClosedMeansPaid'
      BY <1>0, <1>1, <2>1 DEF Closing, ClosedMeansPaid, Proposes, TypeOK, opening, updates
  <2>4. Negotiation'
      BY <1>0, <1>1, <2>1, EndingStep DEF TypeOK, updates
  <2> QED BY <1>1, <2>1, <2>2, <2>3, <2>4, QuietStep
<1> QED BY <1>2, <1>3

LEMMA AdjudicatorStep ==
    ASSUME IInv, NEW p \in Clients, NEW ok \in BOOLEAN, HandleAdjudicatorEvent(p, ok)
    PROVE  IInv'
<1>0. TypeOK /\ Opening /\ Negotiation /\ Closing /\ ClosedMeansPaid /\ CreatedMeansBothHold
    BY DEF IInv
<1>1. p \in held /\ handled' = handled \cup {p} /\ UNCHANGED <<opening, close>>
    BY DEF HandleAdjudicatorEvent
<1>2. CASE ok
  <2>1. Settle(p) /\ Tell(p, "ChannelClosed")
      BY <1>2 DEF HandleAdjudicatorEvent
  <2>2. /\ concluded' \in States \cup {None} /\ settled' = settled \cup {p}
        /\ FinalIsHeld' /\ AgreedByBoth' /\ Negotiation' /\ NotFarApart'
        /\ UNCHANGED <<conn, state, lock>> /\ sent' \subseteq sent
      BY <1>1, <2>1, ConclusionIsHeld
  <2>3. /\ told' \in [Clients -> SUBSET {"ChannelCreated", "FundingError", "ChannelClosed"}]
        /\ \A q \in Clients : told'[q] \subseteq told[q] \cup {"ChannelClosed"}
        /\ \A q \in Clients : q # p => told'[q] = told[q]
      BY <1>0, <2>1, TellType
  <2>4. TypeOK'
      BY <1>0, <1>1, <2>2, <2>3 DEF TypeOK, opening, setup
  <2>5. Opening' /\ Closing'
      BY <1>0, <1>1, <2>2 DEF Opening, Closing, Proposes, opening, setup
  <2>6. CreatedMeansBothHold'
      BY <1>0, <1>1, <2>3 DEF CreatedMeansBothHold, opening, setup
  <2>7. ClosedMeansPaid'
      BY <1>0, <1>1, <2>2, <2>3 DEF ClosedMeansPaid
  <2> QED BY <2>2, <2>4, <2>5, <2>6, <2>7 DEF IInv
<1>3. CASE ~ok
  <2>1. UNCHANGED <<conn, told, state, updates, concluded, settled>>
      BY <1>3 DEF HandleAdjudicatorEvent
  <2>2. TypeOK'
      BY <1>0, <1>1, <2>1 DEF TypeOK, opening, setup, updates
  <2>3. Closing' /\ ClosedMeansPaid'
      BY <1>0, <1>1, <2>1 DEF Closing, ClosedMeansPaid, Proposes, opening, setup, updates
  <2>4. Negotiation'
      BY <1>0, <1>1, <2>1, EndingStep DEF TypeOK, updates
  <2> QED BY <1>1, <2>1, <2>2, <2>3, <2>4, QuietStep
<1> QED BY <1>2, <1>3

LEMMA InvStep == IInv /\ [Next]_vars => IInv'
<1> SUFFICES ASSUME IInv, [Next]_vars PROVE IInv'
    OBVIOUS
<1>1. CASE \E valid \in BOOLEAN : OpenChannel(valid)
    BY <1>1, PeerFacts, SetUpSteps1
<1>2. CASE ProposeFails
    BY <1>2, PeerFacts, SetUpSteps1
<1>3. ASSUME NEW p \in Clients, AskProposal(p) \/ DropProposal(p) \/ Watch(p) PROVE IInv'
    BY <1>3, SetUpSteps1
<1>4. ASSUME NEW p \in Clients, SetUp(p) PROVE IInv'
    BY <1>4, SetUpSteps1, FundSteps, EstablishStep DEF SetUp
<1>5. ASSUME NEW p \in Clients, Browser(p) PROVE IInv'
    BY <1>5, SetUpSteps1, AcceptUpdateStep, RejectUpdateStep, UpdateChannelStep,
       CloseChannelStep DEF Browser
<1>6. ASSUME NEW p \in Clients, \E to \in sent : AskUpdate(p, to) \/ DropUpdate(p, to)
      PROVE  IInv'
    BY <1>6, AskUpdateStep, DropUpdateStep
<1>7. ASSUME NEW p \in Clients, UpdateSucceeds(p) \/ UpdateFails(p)
      PROVE  IInv'
    BY <1>7, UpdateSucceedsStep, UpdateFailsStep
<1>8. ASSUME NEW p \in Clients, \E answered \in BOOLEAN : Shutdown(p, answered) PROVE IInv'
    BY <1>8, ShutdownStep
<1>9. ASSUME NEW p \in Clients, SettleReturns(p) PROVE IInv'
    BY <1>9, CloseReturnsStep, AdjudicatorStep DEF SettleReturns
<1>10. CASE UNCHANGED vars
  <2> USE <1>10 DEF vars, opening, setup, updates
  <2>1. TypeOK'
      BY DEF IInv, TypeOK
  <2>2. Closing' /\ ClosedMeansPaid'
      BY DEF IInv, Closing, ClosedMeansPaid, Proposes
  <2>3. Negotiation'
      BY EndingStep DEF IInv, TypeOK
  <2> QED BY <2>1, <2>2, <2>3, QuietStep
<1> QED BY <1>1, <1>2, <1>3, <1>4, <1>5, <1>6, <1>7, <1>8, <1>9, <1>10 DEF Next

-----------------------------------------------------------------------------
THEOREM Invariance == Spec => []IInv
BY InvInit, InvStep, PTL DEF Spec

(* channel.go, proposal.go: both clients' sides of the channel keep their  *)
(* types, and what a client negotiates is the next version of its state.   *)
THEOREM TypeCorrect == Spec => []TypeOK
<1>1. IInv => TypeOK
    BY DEF IInv
<1> QED BY <1>1, Invariance, PTL

(* channel.go:228: ChannelCreated means that both clients have the channel *)
(* and both have paid.                                                     *)
THEOREM CreatedIsHeld == Spec => []CreatedMeansBothHold
<1>1. IInv => CreatedMeansBothHold
    BY DEF IInv
<1> QED BY <1>1, Invariance, PTL

(* proposal.go:79: no client has, and nobody is paid out by, a state that  *)
(* one of the browsers did not agree to.                                   *)
THEOREM BothAgree == Spec => []AgreedByBoth
<1>1. IInv => AgreedByBoth
    BY DEF IInv
<1> QED BY <1>1, Invariance, PTL

(* channel.go:116: a cooperative close settles a final state: its own or,  *)
(* when final updates have crossed, the one it has proposed itself.        *)
THEOREM CooperativeCloseSettlesFinal == Spec => []CooperativeCloseIsFinal
<1>1. IInv => CooperativeCloseIsFinal
  <2> SUFFICES ASSUME IInv, NEW p \in Clients, close[p] = "settling",
                      concluded # None, concluded.final
               PROVE  /\ state[p].final
                      /\ \/ concluded = state[p]
                         \/ concluded.by = p /\ concluded.version = state[p].version
      BY DEF CooperativeCloseIsFinal, IInv, Closing
  <2>1. state[p].final /\ state[p] # None /\ p \in held
      BY DEF IInv, Closing
  <2>2. PICK q \in Clients : concluded = state[q]
      BY DEF IInv, FinalIsHeld
  <2>3. Near(state[p], state[q], p, q) /\ Near(state[q], state[p], q, p)
      BY <2>1, <2>2 DEF IInv, NotFarApart
  <2>4. state[p].version \in Int /\ state[q].version \in Int
    <3>1. state[p] \in States /\ state[q] \in States
        BY <2>1, <2>2 DEF IInv, TypeOK
    <3> QED BY <3>1 DEF States
  <2>5. state[p].version = state[q].version
      BY <2>1, <2>2, <2>3, <2>4 DEF Near
  <2> QED BY <2>1, <2>2, <2>3, <2>5 DEF Near
<1> QED BY <1>1, Invariance, PTL

(* channel.go:136, 184: whoever hears that the channel is closed is paid.  *)
THEOREM ClosedIsPaid == Spec => []ClosedMeansPaid
<1>1. IInv => ClosedMeansPaid
    BY DEF IInv
<1> QED BY <1>1, Invariance, PTL

-----------------------------------------------------------------------------
(* The two clients' states are those of Agreement.                         *)

LEMMA EstablishOpens ==
    ASSUME IInv, NEW p \in Clients, Establish(p)
    PROVE  Agree!Open(p)
<1>1. /\ state[p] = None /\ \A q \in Clients : state[q] \in {None, First}
      /\ state' = [state EXCEPT ![p] = First]
    BY EstablishFacts
<1>2. UNCHANGED <<conn, watching, concluded>>
    BY DEF Establish
<1>3. First = Agree!First
    BY DEF First, State, Agree!First, Agree!Agreed
<1> QED BY <1>1, <1>2, <1>3 DEF Agree!Open, Watchers

LEMMA AcceptGoesAhead ==
    ASSUME IInv, NEW q \in Clients, AcceptUpdate(q)
    PROVE  \E final \in BOOLEAN : Agree!GoAhead(q, Peer(q), final)
<1> DEFINE to    == [lock[q].to EXCEPT !.agreed = @ \cup {q}]
           p     == Peer(q)
           final == lock[q].to.final
<1>1. /\ p \in Clients /\ p # q /\ ~state[q].final
      /\ state[p] # None /\ state[q] # None /\ to \in States
      /\ to = [version |-> state[q].version + 1, final |-> final,
               by |-> p, agreed |-> Clients]
      /\ \/ state[p].version = state[q].version /\ ~state[p].final
         \/ state[p].version = state[q].version + 1 /\ state[p].by = q
      /\ state' = [state EXCEPT ![q] = to]
    BY AcceptFacts
<1> HIDE DEF to, p, final
<1>2. final \in BOOLEAN
    BY <1>1 DEF States
<1>3. Watchers' = Watchers /\ UNCHANGED concluded
    BY DEF AcceptUpdate, opening, Watchers
<1>4. Agree!GoAhead(q, p, final)
    BY <1>1, <1>3 DEF Agree!GoAhead, Agree!Agreed
<1> QED BY <1>2, <1>4 DEF p

LEMMA SuccessCatchesUp ==
    ASSUME IInv, NEW p \in Clients, UpdateSucceeds(p)
    PROVE  Agree!CatchUp(p, Peer(p))
<1> DEFINE q == Peer(p)
<1>1. /\ ~state[p].final /\ state[p] # None /\ state[q] # None
      /\ state[q].version = state[p].version + 1 /\ state[q].by = p
      /\ state' = [state EXCEPT ![p] = state[q]]
    BY SuccessFacts
<1>2. Watchers' = Watchers /\ UNCHANGED concluded
    BY DEF UpdateSucceeds, opening, Watchers
<1> QED BY <1>1, <1>2 DEF Agree!CatchUp

(* Who settles concludes its own state or the newer one of its peer, if    *)
(* the peer watches.                                                       *)
LEMMA SettleConcludes ==
    ASSUME IInv, NEW p \in held, Settle(p), UNCHANGED opening
    PROVE  UNCHANGED concluded \/ \E q \in Clients : Agree!Conclude(q)
<1> DEFINE q == Peer(p)
<1>0. TypeOK /\ Opening
    BY DEF IInv
<1>1. concluded' = Conclusion(p) /\ p \in Clients /\ UNCHANGED <<conn, watching, state>>
    BY <1>0 DEF Settle, TypeOK, opening
<1>2. q \in Clients /\ Clients = {p, q}
    BY <1>1, PeerFacts
<1>3. ASSUME NEW r \in Clients, r \in held \cup watching
      PROVE  state[r] # None /\ state[r].version \in Int
  <2>1. state[r] # None
      BY <1>0, <1>3 DEF Opening
  <2>2. state[r] \in States
      BY <1>0, <2>1 DEF TypeOK
  <2> QED BY <2>1, <2>2 DEF States
<1>4. state[p].version \in Int /\ (q \in watching => state[q].version \in Int)
    BY <1>1, <1>2, <1>3
<1>5. Watchers' = Watchers
    BY <1>1 DEF Watchers
<1>6. Watchers \subseteq {p, q} /\ (q \in Watchers <=> q \in watching /\ conn[q])
    BY <1>0, <1>2 DEF Watchers, TypeOK
<1>7. CASE concluded # None
    BY <1>1, <1>7 DEF Conclusion
<1>8. CASE concluded = None /\ q \in Watchers /\ state[q].version > state[p].version
  <2>1. concluded' = state[q] /\ state[q] # None
      BY <1>1, <1>2, <1>3, <1>6, <1>8 DEF Conclusion
  <2>2. \A r \in Watchers : state[r].version <= state[q].version
      BY <1>4, <1>6, <1>8
  <2>3. Agree!Conclude(q)
      BY <1>1, <1>5, <1>8, <2>1, <2>2 DEF Agree!Conclude
  <2> QED BY <1>2, <2>3
<1>9. CASE concluded = None /\ ~(q \in Watchers /\ state[q].version > state[p].version)
  <2>1. concluded' = state[p]
      BY <1>1, <1>6, <1>9 DEF Conclusion
  <2>2. \A r \in Watchers : state[r].version <= state[p].version
      BY <1>4, <1>6, <1>9
  <2>3. Agree!Conclude(p)
      BY <1>1, <1>3, <1>5, <1>9, <2>1, <2>2 DEF Agree!Conclude
  <2> QED BY <1>1, <2>3
<1> QED BY <1>7, <1>8, <1>9

(* The other steps leave the states and the outcome alone.                 *)
LEMMA QuietStepAgrees ==
    ASSUME TypeOK', UNCHANGED <<state, concluded>>
    PROVE  [Agree!Next]_<<state, Watchers, concluded>>
<1>1. Watchers' \in SUBSET Clients
    BY DEF TypeOK, Watchers
<1>2. Agree!Watch
    BY <1>1 DEF Agree!Watch
<1> QED BY <1>2 DEF Agree!Next

LEMMA SettleStepsAgree ==
    ASSUME IInv, TypeOK', NEW p \in Clients, SettleReturns(p)
    PROVE  [Agree!Next]_<<state, Watchers, concluded>>
<1>1. CASE CloseFails(p)
    BY <1>1, QuietStepAgrees DEF CloseFails
<1>2. CASE CloseSettles(p) \/ \E ok \in BOOLEAN : HandleAdjudicatorEvent(p, ok)
  <2>1. p \in held /\ UNCHANGED opening
    <3>1. close[p] \in {"settling", "force settling"} => p \in held
        BY DEF IInv, Closing
    <3> QED BY <1>2, <3>1 DEF CloseSettles, HandleAdjudicatorEvent
  <2>2. UNCHANGED <<state, concluded>> \/ (Settle(p) /\ UNCHANGED state)
      BY <1>2 DEF CloseSettles, HandleAdjudicatorEvent, Settle
  <2>3. UNCHANGED <<state, concluded>> \/ \E q \in Clients : Agree!Conclude(q)
      BY <2>1, <2>2, SettleConcludes
  <2> QED BY <2>3, QuietStepAgrees DEF Agree!Next
<1> QED BY <1>1, <1>2 DEF SettleReturns

LEMMA StepAgrees ==
    IInv /\ [Next]_vars => [Agree!Next]_<<state, Watchers, concluded>>
<1> SUFFICES ASSUME IInv, [Next]_vars
             PROVE  [Agree!Next]_<<state, Watchers, concluded>>
    OBVIOUS
<1>0. TypeOK'
    BY InvStep DEF IInv
<1> USE DEF negotiation, updates
<1>1. CASE (\E valid \in BOOLEAN : OpenChannel(valid)) \/ ProposeFails
    BY <1>0, <1>1, QuietStepAgrees DEF OpenChannel, ProposeFails
<1>2. ASSUME NEW p \in Clients, AskProposal(p) \/ DropProposal(p) \/ Watch(p)
      PROVE  [Agree!Next]_<<state, Watchers, concluded>>
    BY <1>0, <1>2, QuietStepAgrees DEF AskProposal, DropProposal, Watch
<1>3. ASSUME NEW p \in Clients, SetUp(p)
      PROVE  [Agree!Next]_<<state, Watchers, concluded>>
  <2>1. CASE Establish(p)
      BY <2>1, EstablishOpens DEF Agree!Next
  <2>2. CASE ~Establish(p)
    <3>1. UNCHANGED <<state, concluded>>
        BY <1>3, <2>2 DEF SetUp, Deposit, FundSucceeds, LookUp, PollFinds, PollTimesOut, FundFails
    <3> QED BY <1>0, <3>1, QuietStepAgrees
  <2> QED BY <2>1, <2>2
<1>4. ASSUME NEW p \in Clients, Browser(p)
      PROVE  [Agree!Next]_<<state, Watchers, concluded>>
  <2>1. CASE AcceptUpdate(p)
      BY <2>1, AcceptGoesAhead, PeerFacts DEF Agree!Next
  <2>2. CASE ~AcceptUpdate(p)
    <3>1. UNCHANGED <<state, concluded>>
        BY <1>4, <2>2 DEF Browser, AcceptProposal, AnswerSignature, RejectUpdate,
                          UpdateChannel, CloseChannel
    <3> QED BY <1>0, <3>1, QuietStepAgrees
  <2> QED BY <2>1, <2>2
<1>5. ASSUME NEW p \in Clients,
             \/ \E to \in sent : AskUpdate(p, to) \/ DropUpdate(p, to)
             \/ UpdateFails(p)
             \/ \E answered \in BOOLEAN : Shutdown(p, answered)
      PROVE  [Agree!Next]_<<state, Watchers, concluded>>
  <2>1. UNCHANGED <<state, concluded>>
      BY <1>5 DEF AskUpdate, DropUpdate, UpdateFails, Shutdown
  <2> QED BY <1>0, <2>1, QuietStepAgrees
<1>6. ASSUME NEW p \in Clients, UpdateSucceeds(p)
      PROVE  [Agree!Next]_<<state, Watchers, concluded>>
    BY <1>6, SuccessCatchesUp, PeerFacts DEF Agree!Next
<1>7. ASSUME NEW p \in Clients, SettleReturns(p)
      PROVE  [Agree!Next]_<<state, Watchers, concluded>>
    BY <1>0, <1>7, SettleStepsAgree
<1>8. CASE UNCHANGED vars
    BY <1>0, <1>8, QuietStepAgrees DEF vars
<1> QED BY <1>1, <1>2, <1>3, <1>4, <1>5, <1>6, <1>7, <1>8 DEF Next

(* proposal.go:89: the two clients' states and the outcome on the chain    *)
(* behave as Agreement says, whichever of their proposals cross, time out  *)
(* or are accepted late: both have agreed to every state, nobody is more   *)
(* than one version behind, the two differ within a version only when each *)
(* has accepted the other's proposal, nobody gets past a final state, and  *)
(* no outcome is older than what a client that watches holds.              *)
THEOREM ChannelImplementsAgreement == Spec => ImplementsAgreement
<1>1. Init => Agree!Init
    BY DEF Init, Agree!Init, Watchers
<1> QED BY <1>1, StepAgrees, Invariance, PTL DEF Spec, ImplementsAgreement, Agree!Spec
=============================================================================
