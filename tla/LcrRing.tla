------------------------------ MODULE LcrRing -------------------------------
(***************************************************************************)
(* unidirectional_ring_leader_election of asynch_lcr_automata: each passes *)
(* on the identifiers that beat its own, and the one whose own comes back  *)
(* is the leader.  Actions run in any order, as several automata do.       *)
(***************************************************************************)
EXTENDS Naturals, Sequences

CONSTANTS
    N,         \* the automata, numbered from 0
    MaxInits   \* how often automata are initialised again, in all (bound of the model)

VARIABLES
    node,      \* node[i]: the members of automaton i
    channel,   \* channel[i]: the queue of the channel_automaton from i to its successor
    elected,   \* those the network printed as the leader
    inits      \* initialisations so far

lcrVars == <<node, channel, elected, inits>>

Nodes == 0..(N - 1)
Next(i) == (i + 1) % N

\* The identifiers are pairs of a random number and the node's own, so all different.
Uids == {u \in [Nodes -> 1..N] : \A i, j \in Nodes : u[i] = u[j] => i = j}

LcrInit ==
    /\ \E uid \in Uids :
        node = [i \in Nodes |-> [u |-> uid[i], send |-> <<uid[i]>>,
                                 report |-> FALSE, leader |-> FALSE]]
    /\ channel = [i \in Nodes |-> <<>>]
    /\ elected = {}
    /\ inits = 0

\* send, which is the channel's input send.
LcrSend(i) ==
    /\ node[i].send # <<>>
    /\ channel' = [channel EXCEPT ![i] = Append(@, Head(node[i].send))]
    /\ node' = [node EXCEPT ![i].send = Tail(@)]
    /\ UNCHANGED <<elected, inits>>

\* The effect of receive(v) on the members r (the mutant passes every other on).
ReceivedPassesAll(r, v) ==
    IF v # r.u THEN [r EXCEPT !.send = Append(@, v)] ELSE [r EXCEPT !.leader = TRUE, !.report = TRUE]
Received(r, v) ==
    IF v > r.u
    THEN [r EXCEPT !.send = Append(@, v), !.leader = FALSE, !.report = @ \/ r.leader]
    ELSE IF v = r.u THEN [r EXCEPT !.leader = TRUE, !.report = @ \/ ~r.leader]
    ELSE r

\* The channel's output receive, which is the successor's input.
LcrReceive(i) ==
    /\ channel[i] # <<>>
    /\ channel' = [channel EXCEPT ![i] = Tail(@)]
    /\ node' = [node EXCEPT ![Next(i)] = Received(@, Head(channel[i]))]
    /\ UNCHANGED <<elected, inits>>

\* leader tells the network, which prints only who leads.
LcrLeader(i) ==
    /\ node[i].report
    /\ node' = [node EXCEPT ![i].report = FALSE]
    /\ elected' = IF node[i].leader THEN elected \cup {i} ELSE elected
    /\ UNCHANGED <<channel, inits>>

\* The input init starts one automaton again, whatever is under way.  (This network
\* does not bind it, so MaxInits = 0 is its behaviour; tcp_lcr_automaton does.)
LcrInitInput(i) ==
    /\ inits < MaxInits
    /\ inits' = inits + 1
    /\ node' = [node EXCEPT ![i].report = FALSE, ![i].leader = FALSE,
                            ![i].send = Append(@, node[i].u)]
    /\ UNCHANGED <<channel, elected>>

LcrSteps == \E i \in Nodes : LcrSend(i) \/ LcrReceive(i) \/ LcrLeader(i)

LcrInputs == \E i \in Nodes : LcrInitInput(i)
-----------------------------------------------------------------------------
\* The node this election must choose.
Strongest == {i \in Nodes : node[i].u = N}

LcrTypeOK ==
    /\ node \in [Nodes -> [u : 1..N, send : Seq(1..N), report : BOOLEAN, leader : BOOLEAN]]
    /\ channel \in [Nodes -> Seq(1..N)]
    /\ elected \subseteq Nodes
    /\ inits \in 0..MaxInits
=============================================================================
