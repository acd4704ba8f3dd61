------------------------------ MODULE Agreement -------------------------------
(***************************************************************************)
(* What a channel between two clients promises them, whoever proposes and  *)
(* whichever answers are late: both have agreed to every state that        *)
(* counts.  A client that goes ahead leaves the other at most one version  *)
(* behind; the two hold different states of a version only when each has   *)
(* taken the other's proposal; nobody gets past a final state; and the     *)
(* channel's outcome on the ledger is no older than the state of any       *)
(* client that watches it.                                                 *)
(***************************************************************************)
EXTENDS Integers

CONSTANTS Clients, None

VARIABLES
    latest,   \* the newest state each client holds, None before the first
    watchers, \* the clients that would answer an outdated conclusion
    outcome   \* the state the ledger has concluded, or None

Agreed(version, final, by) ==
    [version |-> version, final |-> final, by |-> by, agreed |-> Clients]

First == Agreed(0, FALSE, None)

Init ==
    /\ latest = [p \in Clients |-> None]
    /\ watchers = {} /\ outcome = None

Open(p) ==
    /\ latest[p] = None
    /\ \A q \in Clients : latest[q] \in {None, First}
    /\ latest' = [latest EXCEPT ![p] = First]
    /\ UNCHANGED <<watchers, outcome>>

(* p takes the next state, which q has proposed.  Either q is no further   *)
(* than p, or it has taken one from p meanwhile: their proposals cross.    *)
GoAhead(p, q, final) ==
    /\ p # q /\ latest[p] # None /\ ~latest[p].final /\ latest[q] # None
    /\ \/ latest[q].version = latest[p].version /\ ~latest[q].final
       \/ latest[q].version = latest[p].version + 1 /\ latest[q].by = p
    /\ latest' = [latest EXCEPT ![p] = Agreed(@.version + 1, final, q)]
    /\ UNCHANGED <<watchers, outcome>>

(* p joins q, which has taken p's proposal.                                *)
CatchUp(p, q) ==
    /\ latest[p] # None /\ ~latest[p].final /\ latest[q] # None
    /\ latest[q].version = latest[p].version + 1 /\ latest[q].by = p
    /\ latest' = [latest EXCEPT ![p] = latest[q]]
    /\ UNCHANGED <<watchers, outcome>>

Watch ==
    /\ watchers' \in SUBSET Clients
    /\ UNCHANGED <<latest, outcome>>

Conclude(p) ==
    /\ outcome = None /\ latest[p] # None
    /\ \A q \in watchers : latest[q].version <= latest[p].version
    /\ outcome' = latest[p]
    /\ UNCHANGED <<latest, watchers>>

Next ==
    \/ Watch
    \/ \E p \in Clients :
          \/ Open(p) \/ Conclude(p)
          \/ \E q \in Clients :
                \/ CatchUp(p, q)
                \/ \E final \in BOOLEAN : GoAhead(p, q, final)

Spec == Init /\ [][Next]_<<latest, watchers, outcome>>
=============================================================================
