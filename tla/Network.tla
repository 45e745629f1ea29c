------------------------------ MODULE Network ------------------------------
(***************************************************************************)
(* bidirectional_network, weighted_bidirectional_network and               *)
(* bidirectional_spanning_tree: automata linked at random, two channels    *)
(* for each link, and a root chosen at random.  What the automata do is in *)
(* the modules that extend this one.                                       *)
(***************************************************************************)
EXTENDS Naturals, Sequences, FiniteSets

CONSTANTS
    Nodes,
    MaxWeight   \* the greatest weight of a link

VARIABLES
    root,
    weight,    \* weight[{i, j}]: the weight of the link between i and j, or Unlinked
    node,      \* node[i]: the members of automaton i
    send,      \* send[i][j]: what automaton i has to send to j
    channel    \* channel[i][j]: the queue of the channel_automaton from i to j

netVars == <<root, weight, node, send, channel>>

Unlinked == MaxWeight + 1
Nobody == "-1"   \* size_t (-1) for a parent
Pairs == {{i, j} : i, j \in Nodes} \ {{i} : i \in Nodes}
Linked(i, j) == i # j /\ weight[{i, j}] # Unlinked
Nbrs(i) == {j \in Nodes : Linked(i, j)}
Empty == [i \in Nodes |-> [j \in Nodes |-> <<>>]]

\* The root and the links, whose weights are in weights and the same both ways.
Topology(weights) ==
    /\ root \in Nodes
    /\ weight \in [Pairs -> weights \cup {Unlinked}]
    /\ channel = Empty

\* The root starts with m for each neighbour, the others with nothing.
RootSends(m) ==
    send = [i \in Nodes |-> [j \in Nodes |->
              IF i = root /\ Linked(i, j) THEN <<m>> ELSE <<>>]]

\* Automaton i queues m for those in to.
Queue(i, to, m) == [send EXCEPT ![i] = [j \in Nodes |-> IF j \in to THEN Append(@[j], m) ELSE @[j]]]

\* The output send(j) of i is the input send of the channel; it leaves i the messages
\* rest to send to j.
Send(i, j, rest) ==
    /\ send[i][j] # <<>>
    /\ send' = [send EXCEPT ![i][j] = rest]
    /\ channel' = [channel EXCEPT ![i][j] = Append(@, Head(send[i][j]))]
    /\ UNCHANGED <<root, weight, node>>

\* The channel's output receive is the input receive(i) of j, which leaves j the
\* members r and the automata what s says to send.
Receive(i, j, r, s) ==
    /\ channel' = [channel EXCEPT ![i][j] = Tail(@)]
    /\ node' = [node EXCEPT ![j] = r]
    /\ send' = s
    /\ UNCHANGED <<root, weight>>

\* Those the root reaches.
Reached ==
    LET steps[k \in 0..Cardinality(Nodes)] ==
          IF k = 0 THEN {root} ELSE steps[k - 1] \cup UNION {Nbrs(i) : i \in steps[k - 1]}
    IN  steps[Cardinality(Nodes)]

\* The parents form a tree below the root: every parent is a neighbour, and no set
\* of automata has all its parents inside.
Rooted ==
    LET child == {i \in Nodes \ {root} : node[i].parent # Nobody} IN
    /\ node[root].parent = Nobody
    /\ \A i \in child : node[i].parent \in Nbrs(i) \cap (child \cup {root})
    /\ \A S \in SUBSET child : S # {} => \E i \in S : node[i].parent \notin S
=============================================================================
