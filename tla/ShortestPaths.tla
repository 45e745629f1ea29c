--------------------------- MODULE ShortestPaths ----------------------------
(***************************************************************************)
(* asynch_bfs_automaton and asynch_bellman_ford_automaton: each tells its  *)
(* neighbours of every shorter distance to the root it learns.  The first  *)
(* is the second with all weights 1, in a bidirectional_network.           *)
(***************************************************************************)
EXTENDS Network

Infinity == Cardinality(Nodes) * MaxWeight + 1   \* size_t (-1), beyond any distance

PathsInit(weights) ==
    /\ Topology(weights)
    /\ node = [i \in Nodes |-> [dist |-> IF i = root THEN 0 ELSE Infinity, parent |-> Nobody]]
    /\ RootSends(0)

\* All links count one, or have the weights the network drew for them.
BfsInit == PathsInit({1})
BellmanFordInit == PathsInit(0..MaxWeight)

PathsSend(i, j) == Send(i, j, Tail(send[i][j]))

PathsReceive(i, j) ==
    /\ channel[i][j] # <<>>
    /\ LET dist == Head(channel[i][j]) + weight[{i, j}] IN
       IF dist < node[j].dist
         THEN Receive(i, j, [dist |-> dist, parent |-> i], Queue(j, Nbrs(j) \ {i}, dist))
         ELSE Receive(i, j, node[j], send)

PathsSteps == \E i, j \in Nodes : PathsSend(i, j) \/ PathsReceive(i, j)

\* The reference: the length of the shortest path with at most k links.
Shortest ==
    LET least(S) == CHOOSE d \in S : \A e \in S : d <= e
        d[k \in 0..Cardinality(Nodes)] ==
          IF k = 0 THEN [i \in Nodes |-> IF i = root THEN 0 ELSE Infinity]
          ELSE [i \in Nodes |-> least({d[k - 1][i]} \cup {d[k - 1][j] + weight[{i, j}] : j \in Nbrs(i)})]
    IN  [i \in Nodes |-> IF i \in Reached THEN d[Cardinality(Nodes)][i] ELSE Infinity]

\* No automaton knows a distance that is too small.
NeverTooShort == \A i \in Nodes : node[i].dist >= Shortest[i]

PathsDone == \A i \in Nodes : node[i].dist = Shortest[i]
=============================================================================
