---------------------------- MODULE PetersonRing ----------------------------
(***************************************************************************)
(* unidirectional_ring_leader_election of peterson_leader_automata: in each*)
(* phase an active automaton compares its identifier with those of the two *)
(* active ones before it and goes on with the middle one or becomes a      *)
(* relay; the one that gets its own is chosen.                             *)
(*                                                                         *)
(* UID () stands for "not known".  It is (0, 0), which automaton 0 has as  *)
(* its identifier if rand returns 0; that case is left out.                *)
(***************************************************************************)
EXTENDS Naturals, Sequences

CONSTANT N   \* the automata, numbered from 0

VARIABLES node, channel, elected   \* as in LcrRing

petersonVars == <<node, channel, elected>>

Nodes == 0..(N - 1)
Next(i) == (i + 1) % N
Uids == {u \in [Nodes -> 1..N] : \A i, j \in Nodes : u[i] = u[j] => i = j}
UID == 0

PetersonInit ==
    /\ \E id \in Uids :
        node = [i \in Nodes |-> [mode |-> "ACTIVE", status |-> "UNKNOWN",
                                 uid |-> <<id[i], UID, UID>>,
                                 send |-> <<id[i]>>, receive |-> <<>>]]
    /\ channel = [i \in Nodes |-> <<>>]
    /\ elected = {}

\* Automaton i takes an internal step to the members r.
Internal(i, r) ==
    /\ node' = [node EXCEPT ![i] = r]
    /\ UNCHANGED <<channel, elected>>

PetersonSend(i) ==
    /\ node[i].send # <<>>
    /\ channel' = [channel EXCEPT ![i] = Append(@, Head(node[i].send))]
    /\ node' = [node EXCEPT ![i].send = Tail(@)]
    /\ UNCHANGED elected

PetersonReceive(i) ==
    /\ channel[i] # <<>>
    /\ channel' = [channel EXCEPT ![i] = Tail(@)]
    /\ node' = [node EXCEPT ![Next(i)].receive = Append(@, Head(channel[i]))]
    /\ UNCHANGED elected

PetersonLeader(i) ==
    /\ node[i].status = "CHOSEN"
    /\ node' = [node EXCEPT ![i].status = "REPORTED"]
    /\ elected' = elected \cup {i}
    /\ UNCHANGED channel

GetSecondUid(i) ==
    LET r == node[i]
        v == Head(r.receive)
    IN
    /\ r.mode = "ACTIVE" /\ r.receive # <<>> /\ r.uid[2] = UID
    /\ Internal(i, [r EXCEPT !.uid[2] = v, !.receive = Tail(@), !.send = Append(@, v),
                             !.status = IF v = r.uid[1] THEN "CHOSEN" ELSE @])

GetThirdUid(i) ==
    LET r == node[i] IN
    /\ r.mode = "ACTIVE" /\ r.receive # <<>> /\ r.uid[2] # UID /\ r.uid[3] = UID
    /\ Internal(i, [r EXCEPT !.uid[3] = Head(r.receive), !.receive = Tail(@)])

\* The middle identifier beats both others.
MiddleWins(uid) == uid[2] > uid[1] /\ uid[2] > uid[3]

AdvancePhase(i) ==
    LET r == node[i] IN
    /\ r.mode = "ACTIVE" /\ r.uid[3] # UID /\ MiddleWins(r.uid)
    /\ Internal(i, [r EXCEPT !.uid = <<r.uid[2], UID, UID>>, !.send = Append(@, r.uid[2])])

BecomeRelay(i) ==
    LET r == node[i] IN
    /\ r.mode = "ACTIVE" /\ r.uid[3] # UID /\ ~MiddleWins(r.uid)
    /\ Internal(i, [r EXCEPT !.mode = "RELAY"])

Relay(i) ==
    LET r == node[i] IN
    /\ r.mode = "RELAY" /\ r.receive # <<>>
    /\ Internal(i, [r EXCEPT !.receive = Tail(@), !.send = Append(@, Head(r.receive))])

PetersonSteps ==
    \E i \in Nodes :
        \/ PetersonSend(i) \/ PetersonReceive(i) \/ PetersonLeader(i)
        \/ GetSecondUid(i) \/ GetThirdUid(i) \/ AdvancePhase(i) \/ BecomeRelay(i) \/ Relay(i)
-----------------------------------------------------------------------------
PetersonTypeOK ==
    /\ node \in [Nodes -> [mode : {"ACTIVE", "RELAY"}, status : {"UNKNOWN", "CHOSEN", "REPORTED"},
                           uid : [1..3 -> 0..N], send : Seq(1..N), receive : Seq(1..N)]]
    /\ channel \in [Nodes -> Seq(1..N)]
    /\ elected \subseteq Nodes
=============================================================================
