---------------------------- MODULE SpanningTree ----------------------------
(***************************************************************************)
(* asynch_spanning_tree_automaton in a bidirectional_spanning_tree: the    *)
(* first search message an automaton gets decides its parent, which it     *)
(* reports to the network.                                                 *)
(***************************************************************************)
EXTENDS Network

TreeInit ==
    /\ Topology({1})
    /\ node = [i \in Nodes |-> [parent |-> Nobody, reported |-> FALSE, told |-> Nobody]]
    /\ RootSends("SEARCH")

\* There is at most one message for a neighbour: m_send is SEARCH, then NOSEARCH.
TreeSend(i, j) == Send(i, j, <<>>)

TreeReceive(i, j) ==
    /\ channel[i][j] # <<>>
    /\ IF j # root /\ node[j].parent = Nobody
         THEN Receive(i, j, [node[j] EXCEPT !.parent = i],
                  [send EXCEPT ![j] = [k \in Nodes |->
                     IF k \in Nbrs(j) \ {i} THEN <<"SEARCH">> ELSE @[k]]])
         ELSE Receive(i, j, node[j], send)

\* parent: the network records what it is told, in told.
Parent(i) ==
    /\ node[i].parent # Nobody /\ ~node[i].reported
    /\ node' = [node EXCEPT ![i].reported = TRUE, ![i].told = node[i].parent]
    /\ UNCHANGED <<root, weight, send, channel>>

TreeSteps == \E i \in Nodes : Parent(i) \/ \E j \in Nodes : TreeSend(i, j) \/ TreeReceive(i, j)

\* All the root reaches have told their parent, the others have none.
TreeDone == \A i \in Nodes \ {root} :
                node[i].told = node[i].parent /\ (node[i].parent # Nobody <=> i \in Reached)
=============================================================================
