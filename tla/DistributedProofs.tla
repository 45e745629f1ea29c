------------------------- MODULE DistributedProofs -------------------------
(***************************************************************************)
(* Proofs about the distributed algorithms of MCParts, for networks and    *)
(* rings of any size: that the parents are a tree, that no distance is too *)
(* short, that the root of a broadcast reports last, and that the          *)
(* strongest is elected.                                                   *)
(***************************************************************************)
EXTENDS PartsProofs, WellFoundedInduction, NaturalsInduction

-----------------------------------------------------------------------------
(* Induction, as the least counterexample. *)

LEMMA LeastNatural ==
  ASSUME NEW U \in SUBSET Nat, U # {}
  PROVE  \E n \in U : \A m \in U : n <= m
<1> DEFINE R == {ss \in Nat \X Nat : ss[1] < ss[2]}
<1>1. OpToRel(<, Nat) = R
  BY Zenon DEF OpToRel
<1>2. IsWellFoundedOn(R, Nat)
  BY <1>1, NatLessThanWellFounded
<1> HIDE DEF R
<1>3. PICK n \in U : \A m \in U : ~(<<m, n>> \in R)
  BY <1>2, WFMin
<1>4. \A m \in U : ~(m < n)
  BY <1>3 DEF R
<1> QED BY <1>4

\* Induction, for a set.
LEMMA CountUp ==
  ASSUME NEW n \in Nat, NEW Q, 0 \in Q, \A k \in 1..n : k - 1 \in Q => k \in Q
  PROVE  0..n \subseteq Q
<1> DEFINE U == {k \in Nat : k <= n /\ k \notin Q}
<1>1. SUFFICES ASSUME U # {} PROVE FALSE
  OBVIOUS
<1>2. PICK m \in U : \A i \in U : m <= i
  BY <1>1, LeastNatural
<1>3. m \in 1..n /\ m - 1 \in Nat /\ m - 1 <= n /\ m - 1 \notin U
  BY <1>2
<1> QED BY <1>2, <1>3

\* f repeats F, n times from x.
Iterates(f, n, X, x, F) ==
  f \in [0..n -> X] /\ f[0] = x /\ \A k \in 1..n : f[k] = F[f[k - 1]]

\* There is such a function.
LEMMA Iteration ==
  ASSUME NEW n \in Nat, NEW X, NEW x \in X, NEW F \in [X -> X]
  PROVE  \E f : Iterates(f, n, X, x, F)
<1> DEFINE Defined(m) == \E f \in [0..m -> X] : f[0] = x /\ \A k \in 1..m : f[k] = F[f[k - 1]]
           Q == {m \in Nat : Defined(m)}
<1>1. Defined(0)
  <2> DEFINE f == [k \in 0..0 |-> x]
  <2>1. f \in [0..0 -> X] /\ f[0] = x /\ 1..0 = {}
    OBVIOUS
  <2> QED BY <2>1
<1>2. ASSUME NEW m \in 1..n, Defined(m - 1) PROVE Defined(m)
  <2>1. m - 1 \in Nat /\ m \in Nat /\ m # 0
    OBVIOUS
  <2>2. PICK f \in [0..(m - 1) -> X] : f[0] = x /\ \A k \in 1..(m - 1) : f[k] = F[f[k - 1]]
    BY <1>2
  <2> DEFINE g == [k \in 0..m |-> IF k = m THEN F[f[m - 1]] ELSE f[k]]
  <2>3. g \in [0..m -> X] /\ g[0] = x
    BY <2>1, <2>2
  <2>4. \A k \in 1..m : g[k] = F[g[k - 1]]
    BY <2>1, <2>2
  <2> QED BY <2>3, <2>4
<1> HIDE DEF Defined
<1>3. 0 \in Q /\ \A m \in 1..n : m - 1 \in Q => m \in Q
  BY <1>1, <1>2
<1> HIDE DEF Q
<1>4. 0..n \subseteq Q
  BY <1>3, CountUp
<1>5. n \in Q
  BY <1>4
<1>6. Defined(n)
  BY <1>5 DEF Q
<1> QED BY <1>6 DEF Defined, Iterates
-----------------------------------------------------------------------------
(* Queues on links. *)

LEMMA HeadAndTail ==
  ASSUME NEW M, NEW s \in Seq(M), s # <<>>
  PROVE  Head(s) \in M /\ Tail(s) \in Seq(M)
OBVIOUS

LEMMA OneLink ==
  ASSUME NEW X, NEW f \in [NetworkNodes -> [NetworkNodes -> X]],
         NEW i \in NetworkNodes, NEW j \in NetworkNodes, NEW v \in X,
         NEW g, g = [f EXCEPT ![i][j] = v]
  PROVE  /\ g \in [NetworkNodes -> [NetworkNodes -> X]] /\ g[i][j] = v
         /\ \A x, y \in NetworkNodes : x # i \/ y # j => g[x][y] = f[x][y]
OBVIOUS
-----------------------------------------------------------------------------
(* Parents. *)

\* Those who have a parent when the members are n and the root is r.
Kids(r, n) == {i \in NetworkNodes \ {r} : n[i].parent # "-1"}

\* No set of the automata in C has all its parents inside.
Below(C, n) == \A U \in SUBSET C : U # {} => \E i \in U : n[i].parent \notin U

\* The parents of C are in it or the root.
Hang(C, r, n) == \A i \in C : n[i].parent \in C \cup {r}

\* An automaton gets its first parent.
LEMMA LeafBelow ==
  ASSUME NEW C, NEW r, NEW n, NEW m, Below(C, n), Hang(C, r, n),
         NEW j, j \notin C, j # r, m[j].parent # j,
         \A i \in C : m[i].parent = n[i].parent
  PROVE  Below(C \cup {j}, m)
<1> SUFFICES ASSUME NEW U \in SUBSET (C \cup {j}), U # {} PROVE \E i \in U : m[i].parent \notin U
  BY DEF Below
<1>1. CASE U \ {j} = {}
  BY <1>1
<1>2. CASE U \ {j} # {}
  <2>1. PICK i \in U \ {j} : n[i].parent \notin U \ {j}
    BY <1>2 DEF Below
  <2>2. i \in C /\ n[i].parent # j
    BY <2>1 DEF Hang
  <2> QED BY <2>1, <2>2
<1> QED BY <1>1, <1>2

\* An automaton takes a parent that is nearer to the root than it was itself.  Were it to
\* close a circle, those in the circle nearer than it was would have been one before.
LEMMA NearerBelow ==
  ASSUME NEW C, NEW r, NEW n, NEW m, Below(C, n), Hang(C, r, n),
         \A x \in C \cup {r} : n[x].dist \in Nat,
         \A x \in C : n[x].dist >= n[n[x].parent].dist,
         NEW j, NEW i \in C \cup {r}, j # r, r \notin C, m[j].parent = i,
         n[j].dist \in Nat, n[i].dist < n[j].dist,
         \A x \in C \ {j} : m[x].parent = n[x].parent
  PROVE  Below(C \cup {j}, m)
<1> SUFFICES ASSUME NEW U \in SUBSET (C \cup {j}), U # {}, \A x \in U : m[x].parent \in U
             PROVE  FALSE
  BY DEF Below
<1>1. CASE j \notin U
  <2>1. U \in SUBSET C
    BY <1>1
  <2>2. PICK x \in U : n[x].parent \notin U
    BY <2>1 DEF Below
  <2> QED BY <1>1, <2>1, <2>2
<1>2. CASE j \in U
  <2> DEFINE near == {x \in U : n[x].dist < n[j].dist}
  <2>1. i \in near /\ j \notin near
    BY <1>2
  <2>2. near \in SUBSET C
    BY <2>1
  <2>3. PICK x \in near : n[x].parent \notin near
    BY <2>1, <2>2 DEF Below
  <2>4. x \in C \ {j} /\ n[x].parent \in U
    BY <2>1, <2>2, <2>3
  <2>5. n[x].parent \in C \cup {r} /\ n[x].dist >= n[n[x].parent].dist
    BY <2>4 DEF Hang
  <2>6. n[n[x].parent].dist < n[j].dist
    <3>1. n[n[x].parent].dist \in Nat /\ n[x].dist \in Nat /\ n[x].dist < n[j].dist
      BY <2>3, <2>4, <2>5
    <3> QED BY <2>5, <3>1
  <2> QED BY <2>3, <2>4, <2>6
<1> QED BY <1>1, <1>2
-----------------------------------------------------------------------------
(* SpanningTree. *)

TreeTypes ==
  /\ root \in NetworkNodes
  /\ node \in [NetworkNodes -> [parent : NetworkNodes \cup {"-1"}, reported : BOOLEAN,
                                told : NetworkNodes \cup {"-1"}]]
  /\ send \in [NetworkNodes -> [NetworkNodes -> Seq({"SEARCH"})]]
  /\ channel \in [NetworkNodes -> [NetworkNodes -> Seq({"SEARCH"})]]

\* Only those in the tree search, on their links.
Searching ==
  \A i, j \in NetworkNodes : send[i][j] # <<>> \/ channel[i][j] # <<>> =>
    T!Linked(i, j) /\ i \in Kids(root, node) \cup {root}

TreeLinks == \A i \in Kids(root, node) : T!Linked(i, node[i].parent)

TreeInv ==
  /\ TreeTypes /\ Searching /\ TreeLinks
  /\ node[root].parent = "-1"
  /\ Hang(Kids(root, node), root, node) /\ Below(Kids(root, node), node)

LEMMA TreeRooted == TreeInv => T!Rooted
<1> SUFFICES ASSUME TreeInv PROVE T!Rooted
  OBVIOUS
<1>1. \A i \in Kids(root, node) : node[i].parent \in NetworkNodes
  BY DEF TreeInv, TreeTypes, Kids, Hang
<1> QED BY <1>1 DEF TreeInv, TreeTypes, Kids, Hang, Below, TreeLinks, T!Rooted, T!Nbrs, T!Nobody

LEMMA TreeInitInv == T!TreeInit => TreeInv
<1> SUFFICES ASSUME T!TreeInit PROVE TreeInv
  OBVIOUS
<1>1. TreeTypes
  <2>1. <<>> \in Seq({"SEARCH"}) /\ <<"SEARCH">> \in Seq({"SEARCH"})
    OBVIOUS
  <2>2. send \in [NetworkNodes -> [NetworkNodes -> Seq({"SEARCH"})]]
    BY <2>1 DEF T!TreeInit, T!RootSends
  <2>3. channel \in [NetworkNodes -> [NetworkNodes -> Seq({"SEARCH"})]]
    BY <2>1 DEF T!TreeInit, T!Topology, T!Empty
  <2>4. root \in NetworkNodes
    BY DEF T!TreeInit, T!Topology
  <2>5. node \in [NetworkNodes -> [parent : NetworkNodes \cup {"-1"}, reported : BOOLEAN,
                                   told : NetworkNodes \cup {"-1"}]]
    BY DEF T!TreeInit, T!Nobody
  <2> QED BY <2>2, <2>3, <2>4, <2>5 DEF TreeTypes
<1>2. Kids(root, node) = {}
  BY DEF T!TreeInit, T!Topology, T!Nobody, Kids
<1>3. Searching
  BY DEF T!TreeInit, T!Topology, T!RootSends, T!Empty, Searching
<1>4. node[root].parent = "-1"
  BY DEF T!TreeInit, T!Topology, T!Nobody
<1> QED BY <1>1, <1>2, <1>3, <1>4 DEF TreeInv, TreeLinks, Hang, Below

LEMMA TreeLinked ==
  ASSUME UNCHANGED weight
  PROVE  \A i, j : T!Linked(i, j)' <=> T!Linked(i, j)
BY DEF T!Linked, T!Unlinked

\* Messages move and leave the automata as they are.
LEMMA TreeQuiet ==
  ASSUME TreeInv, UNCHANGED <<root, weight>>, TreeTypes', Searching',
         \A i \in NetworkNodes : node'[i].parent = node[i].parent
  PROVE  TreeInv'
<1>1. Kids(root, node)' = Kids(root, node)
  BY DEF Kids
<1>2. TreeLinks'
  BY <1>1, TreeLinked DEF TreeInv, TreeLinks, Kids
<1>3. Hang(Kids(root, node), root, node)'
  BY <1>1 DEF TreeInv, Hang, Kids
<1>4. Below(Kids(root, node), node)'
  BY <1>1 DEF TreeInv, Below, Kids
<1> QED BY <1>1, <1>2, <1>3, <1>4 DEF TreeInv, TreeTypes

LEMMA TreeSendKeeps ==
  ASSUME TreeInv, NEW i \in NetworkNodes, NEW j \in NetworkNodes, T!TreeSend(i, j)
  PROVE  TreeInv'
<1> DEFINE c == Append(channel[i][j], Head(send[i][j]))
<1>1. /\ send[i][j] # <<>> /\ send' = [send EXCEPT ![i][j] = <<>>]
      /\ channel' = [channel EXCEPT ![i][j] = c]
      /\ UNCHANGED <<root, weight, node>>
  BY DEF T!TreeSend, T!Send
<1>2. TreeTypes /\ c \in Seq({"SEARCH"}) /\ <<>> \in Seq({"SEARCH"})
  <2>1. TreeTypes /\ channel[i][j] \in Seq({"SEARCH"}) /\ send[i][j] \in Seq({"SEARCH"})
    BY DEF TreeInv, TreeTypes
  <2>2. <<>> \in Seq({"SEARCH"})
    OBVIOUS
  <2>3. Head(send[i][j]) \in {"SEARCH"}
    BY <1>1, <2>1, HeadAndTail
  <2> QED BY <2>1, <2>2, <2>3
<1> HIDE DEF c
<1>3. TreeTypes'
  <2>1. /\ send' \in [NetworkNodes -> [NetworkNodes -> Seq({"SEARCH"})]]
        /\ channel' \in [NetworkNodes -> [NetworkNodes -> Seq({"SEARCH"})]]
    BY <1>1, <1>2, OneLink DEF TreeTypes
  <2> QED BY <1>1, <1>2, <2>1 DEF TreeTypes
<1>4. Searching'
  <2> SUFFICES ASSUME NEW x \in NetworkNodes, NEW y \in NetworkNodes,
                      send'[x][y] # <<>> \/ channel'[x][y] # <<>>
               PROVE  T!Linked(x, y) /\ x \in Kids(root, node) \cup {root}
    BY <1>1, TreeLinked DEF Searching, Kids
  <2>1. send[x][y] # <<>> \/ channel[x][y] # <<>>
    BY <1>1, <1>2 DEF TreeTypes
  <2> QED BY <2>1 DEF TreeInv, Searching
<1> QED BY <1>1, <1>3, <1>4, TreeQuiet

LEMMA TreeReceiveKeeps ==
  ASSUME TreeInv, NEW i \in NetworkNodes, NEW j \in NetworkNodes, T!TreeReceive(i, j)
  PROVE  TreeInv'
<1> DEFINE c == Tail(channel[i][j])
<1>1. /\ channel[i][j] # <<>> /\ channel' = [channel EXCEPT ![i][j] = c]
      /\ UNCHANGED <<root, weight>>
  BY DEF T!TreeReceive, T!Receive
<1>2. TreeTypes /\ c \in Seq({"SEARCH"})
  <2>1. TreeTypes /\ channel[i][j] \in Seq({"SEARCH"})
    BY DEF TreeInv, TreeTypes
  <2> QED BY <1>1, <2>1, HeadAndTail
<1>3. T!Linked(i, j) /\ i \in Kids(root, node) \cup {root}
  BY <1>1 DEF TreeInv, Searching
<1> HIDE DEF c
<1>4. channel' \in [NetworkNodes -> [NetworkNodes -> Seq({"SEARCH"})]]
      /\ \A x, y \in NetworkNodes : channel'[x][y] # <<>> => channel[x][y] # <<>>
  BY <1>1, <1>2 DEF TreeTypes
<1>5. CASE ~(j # root /\ node[j].parent = "-1")
  <2>1. node' = [node EXCEPT ![j] = node[j]] /\ send' = send
    BY <1>5 DEF T!TreeReceive, T!Receive, T!Nobody
  <2>2. node' = node
    BY <2>1, <1>2 DEF TreeTypes
  <2>3. TreeTypes'
    BY <1>1, <1>2, <1>4, <2>1, <2>2 DEF TreeTypes
  <2>4. Searching'
    BY <1>1, <1>4, <2>1, <2>2, TreeLinked DEF TreeInv, Searching, Kids
  <2> QED BY <1>1, <2>2, <2>3, <2>4, TreeQuiet
<1>6. CASE j # root /\ node[j].parent = "-1"
  <2> DEFINE C == Kids(root, node)
  <2>1. /\ node' = [node EXCEPT ![j] = [node[j] EXCEPT !.parent = i]]
        /\ send' = [send EXCEPT ![j] = [k \in NetworkNodes |->
                      IF k \in T!Nbrs(j) \ {i} THEN <<"SEARCH">> ELSE send[j][k]]]
    BY <1>2, <1>6 DEF T!TreeReceive, T!Receive, T!Nobody, TreeTypes
  <2>2. /\ node'[j].parent = i /\ i # "-1"
        /\ \A x \in NetworkNodes \ {j} : node'[x] = node[x]
    BY <1>2, <2>1, PartsAssumption DEF TreeTypes
  <2>3. Kids(root, node)' = C \cup {j} /\ j \notin C
    BY <1>1, <1>6, <2>2 DEF Kids
  <2>4. i # j
    BY <1>3 DEF T!Linked
  <2>5. TreeTypes'
    <3>1. node' \in [NetworkNodes -> [parent : NetworkNodes \cup {"-1"}, reported : BOOLEAN,
                                      told : NetworkNodes \cup {"-1"}]]
      BY <1>2, <2>1 DEF TreeTypes
    <3>2. <<"SEARCH">> \in Seq({"SEARCH"})
      OBVIOUS
    <3>3. send' \in [NetworkNodes -> [NetworkNodes -> Seq({"SEARCH"})]]
      BY <1>2, <2>1, <3>2 DEF TreeTypes
    <3> QED BY <1>1, <1>2, <1>4, <3>1, <3>3 DEF TreeTypes
  <2>6. Searching'
    <3> SUFFICES ASSUME NEW x \in NetworkNodes, NEW y \in NetworkNodes,
                        send'[x][y] # <<>> \/ channel'[x][y] # <<>>
                 PROVE  T!Linked(x, y) /\ x \in C \cup {j} \cup {root}
      BY <1>1, <2>3, TreeLinked DEF Searching
    <3>1. CASE send[x][y] # <<>> \/ channel[x][y] # <<>>
      BY <3>1 DEF TreeInv, Searching
    <3>2. CASE ~(send[x][y] # <<>> \/ channel[x][y] # <<>>)
      <4>1. x = j /\ y \in T!Nbrs(j)
        BY <1>2, <1>4, <2>1, <3>2 DEF TreeTypes
      <4> QED BY <4>1 DEF T!Nbrs
    <3> QED BY <3>1, <3>2
  <2>7. \A x \in C : x # j /\ node'[x] = node[x]
    BY <2>2, <2>3 DEF Kids
  <2>8. TreeLinks'
    <3>1. T!Linked(j, i)
      BY <1>3 DEF T!Linked
    <3> QED BY <1>1, <2>2, <2>3, <2>7, <3>1, TreeLinked DEF TreeInv, TreeLinks
  <2>9. Hang(C \cup {j}, root, node')
    BY <1>3, <2>2, <2>7 DEF TreeInv, Hang
  <2>10. Below(C \cup {j}, node')
    BY <1>6, <2>2, <2>3, <2>4, <2>7, LeafBelow DEF TreeInv
  <2>11. node'[root].parent = "-1"
    BY <1>2, <1>6, <2>2 DEF TreeInv, TreeTypes
  <2> HIDE DEF C
  <2> QED BY <1>1, <2>3, <2>5, <2>6, <2>8, <2>9, <2>10, <2>11 DEF TreeInv
<1> QED BY <1>5, <1>6

LEMMA ParentKeeps ==
  ASSUME TreeInv, NEW i \in NetworkNodes, T!Parent(i)
  PROVE  TreeInv'
<1>1. /\ node' = [node EXCEPT ![i].reported = TRUE, ![i].told = node[i].parent]
      /\ UNCHANGED <<root, weight, send, channel>> /\ TreeTypes
  BY DEF T!Parent, TreeInv
<1>2. TreeTypes' /\ \A x \in NetworkNodes : node'[x].parent = node[x].parent
  BY <1>1 DEF TreeTypes
<1>3. Searching'
  BY <1>1, <1>2, TreeLinked DEF TreeInv, Searching, Kids
<1> QED BY <1>1, <1>2, <1>3, TreeQuiet

LEMMA TreeNextInv == TreeInv /\ T!TreeSteps => TreeInv'
BY TreeSendKeeps, TreeReceiveKeeps, ParentKeeps DEF T!TreeSteps
-----------------------------------------------------------------------------
(* ShortestPaths. *)

PathsTypes ==
  /\ root \in NetworkNodes
  /\ weight \in [S!Pairs -> Nat]
  /\ node \in [NetworkNodes -> [dist : Nat, parent : NetworkNodes \cup {"-1"}]]
  /\ send \in [NetworkNodes -> [NetworkNodes -> Seq(Nat)]]
  /\ channel \in [NetworkNodes -> [NetworkNodes -> Seq(Nat)]]

\* What the queue q from i says, when the members are n: a distance i had, which may
\* have become shorter.
Tells(q, i, j, n) ==
  /\ q # <<>> => S!Linked(i, j) /\ i \in Kids(root, n) \cup {root}
  /\ \A k \in DOMAIN q : q[k] >= n[i].dist

Distances ==
  \A i, j \in NetworkNodes : Tells(send[i][j], i, j, node) /\ Tells(channel[i][j], i, j, node)

\* A child is at least as far as its parent is now, with the link between them.
Farther ==
  \A i \in Kids(root, node) :
    LET p == node[i].parent IN
    S!Linked(p, i) /\ node[i].dist >= node[p].dist + weight[{p, i}]

Outside == \A i \in NetworkNodes \ Kids(root, node) : i # root => node[i].dist = S!Infinity

PathsInv ==
  /\ PathsTypes /\ Distances /\ Farther /\ Outside
  /\ node[root].parent = "-1" /\ node[root].dist = 0
  /\ Hang(Kids(root, node), root, node) /\ Below(Kids(root, node), node)

LEMMA LinkedBack ==
  ASSUME NEW i \in NetworkNodes, NEW j \in NetworkNodes, S!Linked(i, j)
  PROVE  /\ S!Linked(j, i) /\ {i, j} = {j, i} /\ i # j
         /\ weight \in [S!Pairs -> Nat] => weight[{i, j}] \in Nat
<1>1. {i, j} = {j, i} /\ i # j
  BY DEF S!Linked
<1>2. S!Linked(j, i)
  BY <1>1 DEF S!Linked
<1>3. {i, j} \in S!Pairs
  <2>1. \A x : {x} # {i, j}
    BY <1>1
  <2> QED BY <2>1 DEF S!Pairs
<1> QED BY <1>1, <1>2, <1>3

LEMMA PathsLinked ==
  ASSUME UNCHANGED weight
  PROVE  /\ \A i, j : S!Linked(i, j)' <=> S!Linked(i, j)
         /\ S!Infinity' = S!Infinity
BY DEF S!Linked, S!Unlinked, S!Infinity

LEMMA PathsRooted == PathsInv => S!Rooted
<1> SUFFICES ASSUME PathsInv PROVE S!Rooted
  OBVIOUS
<1>1. \A i \in Kids(root, node) : node[i].parent \in NetworkNodes /\ S!Linked(i, node[i].parent)
  <2> SUFFICES ASSUME NEW i \in Kids(root, node)
               PROVE  node[i].parent \in NetworkNodes /\ S!Linked(i, node[i].parent)
    OBVIOUS
  <2>1. node[i].parent \in NetworkNodes /\ i \in NetworkNodes
    BY DEF PathsInv, PathsTypes, Kids, Hang
  <2> QED BY <2>1, LinkedBack DEF PathsInv, Farther
<1> QED BY <1>1 DEF PathsInv, PathsTypes, Kids, Hang, Below, S!Rooted, S!Nbrs, S!Nobody

LEMMA PathsInitInv == S!BfsInit \/ S!BellmanFordInit => PathsInv
<1> SUFFICES ASSUME NEW W \in SUBSET Nat, S!PathsInit(W) PROVE PathsInv
  <2>1. {1} \in SUBSET Nat /\ 0..LongestLink \in SUBSET Nat
    BY PartsAssumption
  <2> QED BY <2>1 DEF S!BfsInit, S!BellmanFordInit
<1>0. S!Infinity \in Nat
  <2>1. S!Cardinality(NetworkNodes) = Cardinality(NetworkNodes)
    BY DEF S!Cardinality, Cardinality
  <2>2. Cardinality(NetworkNodes) \in Nat
    BY PartsAssumption, FS_CardinalityType
  <2> DEFINE c == Cardinality(NetworkNodes)
  <2>3. c * LongestLink + 1 \in Nat
    <3> HIDE DEF c
    <3> QED BY <2>2, PartsAssumption DEF c
  <2> QED BY <2>1, <2>3 DEF S!Infinity
<1>1. /\ root \in NetworkNodes /\ channel = S!Empty
      /\ weight \in [S!Pairs -> W \cup {S!Unlinked}]
      /\ node = [i \in NetworkNodes |->
                  [dist |-> IF i = root THEN 0 ELSE S!Infinity, parent |-> "-1"]]
      /\ S!RootSends(0)
  BY DEF S!PathsInit, S!Topology, S!Nobody
<1>2. PathsTypes
  <2>1. S!Unlinked \in Nat
    BY PartsAssumption DEF S!Unlinked
  <2>2. weight \in [S!Pairs -> Nat]
    BY <1>1, <2>1
  <2>3. <<>> \in Seq(Nat) /\ <<0>> \in Seq(Nat)
    OBVIOUS
  <2>4. send \in [NetworkNodes -> [NetworkNodes -> Seq(Nat)]]
    BY <1>1, <2>3 DEF S!RootSends
  <2>5. channel \in [NetworkNodes -> [NetworkNodes -> Seq(Nat)]]
    BY <1>1, <2>3 DEF S!Empty
  <2> QED BY <1>0, <1>1, <2>2, <2>4, <2>5 DEF PathsTypes
<1>3. Kids(root, node) = {}
  BY <1>1 DEF Kids
<1>4. Distances
  <2> SUFFICES ASSUME NEW i \in NetworkNodes, NEW j \in NetworkNodes
               PROVE  Tells(send[i][j], i, j, node) /\ Tells(channel[i][j], i, j, node)
    BY DEF Distances
  <2>1. channel[i][j] = <<>>
    BY <1>1 DEF S!Empty
  <2>2. send[i][j] = IF i = root /\ S!Linked(i, j) THEN <<0>> ELSE <<>>
    BY <1>1 DEF S!RootSends
  <2>3. CASE i = root /\ S!Linked(i, j)
    <3>1. DOMAIN <<0>> = {1} /\ node[i].dist = 0
      BY <1>1, <2>3
    <3> QED BY <2>1, <2>2, <2>3, <3>1 DEF Tells
  <2>4. CASE ~(i = root /\ S!Linked(i, j))
    BY <2>1, <2>2, <2>4 DEF Tells
  <2> QED BY <2>3, <2>4
<1>5. Outside /\ node[root].parent = "-1" /\ node[root].dist = 0
  BY <1>1 DEF Outside
<1> QED BY <1>2, <1>3, <1>4, <1>5 DEF PathsInv, Farther, Hang, Below

LEMMA TellsOn ==
  ASSUME NEW q \in Seq(Nat), NEW i, NEW j, NEW n, Tells(q, i, j, n), n[i].dist \in Nat
  PROVE  /\ q # <<>> => Head(q) >= n[i].dist /\ Tells(Tail(q), i, j, n)
         /\ \A d \in Nat : d >= n[i].dist /\ S!Linked(i, j) /\ i \in Kids(root, n) \cup {root}
                           => Tells(Append(q, d), i, j, n)
         /\ \A m : m[i].dist \in Nat /\ m[i].dist <= n[i].dist /\ Kids(root, n) \subseteq Kids(root, m)
                           => Tells(q, i, j, m)
<1>1. ASSUME q # <<>> PROVE Head(q) >= n[i].dist /\ Tells(Tail(q), i, j, n)
  <2>1. 1 \in DOMAIN q /\ Head(q) = q[1]
    BY <1>1
  <2>2. \A k \in DOMAIN Tail(q) : k + 1 \in DOMAIN q /\ Tail(q)[k] = q[k + 1]
    BY <1>1
  <2> QED BY <1>1, <2>1, <2>2 DEF Tells
<1>2. ASSUME NEW d \in Nat, d >= n[i].dist, S!Linked(i, j), i \in Kids(root, n) \cup {root}
      PROVE  Tells(Append(q, d), i, j, n)
  <2>1. \A k \in DOMAIN Append(q, d) :
           IF k = Len(q) + 1 THEN Append(q, d)[k] = d ELSE k \in DOMAIN q /\ Append(q, d)[k] = q[k]
    OBVIOUS
  <2> QED BY <1>2, <2>1 DEF Tells
<1>3. ASSUME NEW m, m[i].dist \in Nat, m[i].dist <= n[i].dist, Kids(root, n) \subseteq Kids(root, m)
      PROVE  Tells(q, i, j, m)
  <2>1. \A k \in DOMAIN q : q[k] \in Nat /\ q[k] >= n[i].dist
    BY DEF Tells
  <2> QED BY <1>3, <2>1 DEF Tells
<1> QED BY <1>1, <1>2, <1>3

LEMMA PathsQuiet ==
  ASSUME PathsInv, UNCHANGED <<root, weight, node>>,
         send' \in [NetworkNodes -> [NetworkNodes -> Seq(Nat)]],
         channel' \in [NetworkNodes -> [NetworkNodes -> Seq(Nat)]],
         \A i, j \in NetworkNodes : /\ Tells(send'[i][j], i, j, node)
                                    /\ Tells(channel'[i][j], i, j, node)
  PROVE  PathsInv'
<1>1. PathsTypes'
  <2>1. S!Pairs' = S!Pairs
    BY DEF S!Pairs
  <2> QED BY <2>1 DEF PathsInv, PathsTypes
<1>2. Kids(root, node)' = Kids(root, node)
  BY DEF Kids
<1>3. Distances'
  BY <1>2, PathsLinked DEF Distances, Tells
<1>4. Farther' /\ Outside'
  BY <1>2, PathsLinked DEF PathsInv, Farther, Outside
<1>5. Hang(Kids(root, node), root, node)' /\ Below(Kids(root, node), node)'
  BY <1>2 DEF PathsInv, Hang, Below
<1> QED BY <1>1, <1>2, <1>3, <1>4, <1>5 DEF PathsInv

LEMMA PathsSendKeeps ==
  ASSUME PathsInv, NEW i \in NetworkNodes, NEW j \in NetworkNodes, S!PathsSend(i, j)
  PROVE  PathsInv'
<1> DEFINE c == Append(channel[i][j], Head(send[i][j]))
           t == Tail(send[i][j])
<1>1. /\ send[i][j] # <<>> /\ send' = [send EXCEPT ![i][j] = t]
      /\ channel' = [channel EXCEPT ![i][j] = c] /\ UNCHANGED <<root, weight, node>>
  BY DEF S!PathsSend, S!Send
<1>2. PathsTypes
  BY DEF PathsInv
<1>3. channel[i][j] \in Seq(Nat) /\ send[i][j] \in Seq(Nat) /\ node[i].dist \in Nat
  BY <1>2 DEF PathsTypes
<1>4. Head(send[i][j]) \in Nat /\ t \in Seq(Nat)
  BY <1>1, <1>3, HeadAndTail
<1>5. c \in Seq(Nat)
  BY <1>3, <1>4
<1>6. Tells(send[i][j], i, j, node) /\ Tells(channel[i][j], i, j, node)
  BY DEF PathsInv, Distances
<1>7. S!Linked(i, j) /\ i \in Kids(root, node) \cup {root}
  BY <1>1, <1>6 DEF Tells
<1>8. Head(send[i][j]) >= node[i].dist /\ Tells(t, i, j, node)
  BY <1>1, <1>3, <1>6, TellsOn
<1>9. Tells(c, i, j, node)
  BY <1>3, <1>4, <1>6, <1>7, <1>8, TellsOn
<1> HIDE DEF c, t
<1>10. /\ send' \in [NetworkNodes -> [NetworkNodes -> Seq(Nat)]] /\ send'[i][j] = t
       /\ \A x, y \in NetworkNodes : x # i \/ y # j => send'[x][y] = send[x][y]
  <2>1. send \in [NetworkNodes -> [NetworkNodes -> Seq(Nat)]]
    BY <1>2 DEF PathsTypes
  <2> QED BY <1>1, <1>4, <2>1, OneLink
<1>11. /\ channel' \in [NetworkNodes -> [NetworkNodes -> Seq(Nat)]] /\ channel'[i][j] = c
       /\ \A x, y \in NetworkNodes : x # i \/ y # j => channel'[x][y] = channel[x][y]
  <2>1. channel \in [NetworkNodes -> [NetworkNodes -> Seq(Nat)]]
    BY <1>2 DEF PathsTypes
  <2> QED BY <1>1, <1>5, <2>1, OneLink
<1>12. ASSUME NEW x \in NetworkNodes, NEW y \in NetworkNodes
       PROVE  Tells(send'[x][y], x, y, node) /\ Tells(channel'[x][y], x, y, node)
  <2>1. CASE x = i /\ y = j
    BY <1>8, <1>9, <1>10, <1>11, <2>1
  <2>2. CASE x # i \/ y # j
    BY <1>10, <1>11, <2>2 DEF PathsInv, Distances
  <2> QED BY <2>1, <2>2
<1> QED BY <1>1, <1>10, <1>11, <1>12, PathsQuiet

LEMMA PathsReceiveKeeps ==
  ASSUME PathsInv, NEW i \in NetworkNodes, NEW j \in NetworkNodes, S!PathsReceive(i, j)
  PROVE  PathsInv'
<1> DEFINE t == Tail(channel[i][j])
           d == Head(channel[i][j]) + weight[{i, j}]
<1>1. /\ channel[i][j] # <<>> /\ channel' = [channel EXCEPT ![i][j] = t]
      /\ UNCHANGED <<root, weight>>
  BY DEF S!PathsReceive, S!Receive
<1>2. PathsTypes
  BY DEF PathsInv
<1>3. channel[i][j] \in Seq(Nat) /\ node[i].dist \in Nat /\ node[j].dist \in Nat
  BY <1>2 DEF PathsTypes
<1>4. Head(channel[i][j]) \in Nat /\ t \in Seq(Nat)
  BY <1>1, <1>3, HeadAndTail
<1>5. Tells(channel[i][j], i, j, node)
  BY DEF PathsInv, Distances
<1>6. S!Linked(i, j) /\ i \in Kids(root, node) \cup {root}
  BY <1>1, <1>5 DEF Tells
<1>7. Head(channel[i][j]) >= node[i].dist /\ Tells(t, i, j, node)
  BY <1>1, <1>3, <1>5, TellsOn
<1>8. weight[{i, j}] \in Nat /\ i # j
  BY <1>2, <1>6, LinkedBack DEF PathsTypes
<1>9. d \in Nat /\ d >= node[i].dist + weight[{i, j}]
  <2> DEFINE h == Head(channel[i][j])
             w == weight[{i, j}]
             n == node[i].dist
  <2>1. h \in Nat /\ w \in Nat /\ n \in Nat /\ h >= n
    BY <1>3, <1>4, <1>7, <1>8
  <2> HIDE DEF h, w, n
  <2>2. h + w \in Nat /\ h + w >= n + w
    BY <2>1
  <2> QED BY <2>2 DEF h, w, n
<1>10. d < node[j].dist => /\ node' = [node EXCEPT ![j] = [dist |-> d, parent |-> i]]
                           /\ send' = S!Queue(j, S!Nbrs(j) \ {i}, d)
  BY DEF S!PathsReceive, S!Receive
<1>11. ~(d < node[j].dist) => node' = [node EXCEPT ![j] = node[j]] /\ send' = send
  BY DEF S!PathsReceive, S!Receive
<1> HIDE DEF t, d
<1>12. /\ channel' \in [NetworkNodes -> [NetworkNodes -> Seq(Nat)]] /\ channel'[i][j] = t
       /\ \A x, y \in NetworkNodes : x # i \/ y # j => channel'[x][y] = channel[x][y]
  <2>1. channel \in [NetworkNodes -> [NetworkNodes -> Seq(Nat)]]
    BY <1>2 DEF PathsTypes
  <2> QED BY <1>1, <1>4, <2>1, OneLink
<1>13. ASSUME NEW x \in NetworkNodes, NEW y \in NetworkNodes
       PROVE  Tells(channel'[x][y], x, y, node)
  <2>1. CASE x = i /\ y = j
    BY <1>7, <1>12, <2>1
  <2>2. CASE x # i \/ y # j
    BY <1>12, <2>2 DEF PathsInv, Distances
  <2> QED BY <2>1, <2>2
<1>14. CASE ~(d < node[j].dist)
  <2>1. node' = node /\ send' = send
    BY <1>2, <1>11, <1>14 DEF PathsTypes
  <2>2. send' \in [NetworkNodes -> [NetworkNodes -> Seq(Nat)]]
        /\ \A x, y \in NetworkNodes : Tells(send'[x][y], x, y, node)
    BY <1>2, <2>1 DEF PathsInv, Distances, PathsTypes
  <2> QED BY <1>1, <1>12, <1>13, <2>1, <2>2, PathsQuiet
<1>15. CASE d < node[j].dist
  <2> DEFINE C == Kids(root, node)
  <2>1. /\ node' \in [NetworkNodes -> [dist : Nat, parent : NetworkNodes \cup {"-1"}]]
        /\ node'[j].dist = d /\ node'[j].parent = i
        /\ \A x \in NetworkNodes \ {j} : node'[x] = node[x]
    <3> DEFINE r == [dist |-> d, parent |-> i]
    <3>1. r \in [dist : Nat, parent : NetworkNodes \cup {"-1"}] /\ r.dist = d /\ r.parent = i
      BY <1>9
    <3>2. node' = [node EXCEPT ![j] = r]
      BY <1>10, <1>15
    <3> HIDE DEF r
    <3>3. node \in [NetworkNodes -> [dist : Nat, parent : NetworkNodes \cup {"-1"}]]
      BY <1>2 DEF PathsTypes
    <3> QED BY <3>1, <3>2, <3>3
  <2>2. j # root /\ i # "-1"
    BY <1>3, <1>9, <1>15, PartsAssumption DEF PathsInv
  <2>3. Kids(root, node)' = C \cup {j}
    BY <1>1, <2>1, <2>2 DEF Kids
  <2>4. \A x \in NetworkNodes : node[x].dist \in Nat /\ node'[x].dist \in Nat
                               /\ node'[x].dist <= node[x].dist
    <3> SUFFICES ASSUME NEW x \in NetworkNodes
                 PROVE  node[x].dist \in Nat /\ node'[x].dist \in Nat /\ node'[x].dist <= node[x].dist
      OBVIOUS
    <3>1. node[x].dist \in Nat
      BY <1>2 DEF PathsTypes
    <3>2. CASE x = j
      BY <1>9, <1>15, <2>1, <3>1, <3>2
    <3>3. CASE x # j
      BY <2>1, <3>1, <3>3
    <3> QED BY <3>2, <3>3
  <2>5. root \in NetworkNodes /\ C \subseteq NetworkNodes /\ root \notin C
    BY <1>2 DEF PathsTypes, Kids
  <2>6. Kids(root, node) \subseteq Kids(root, node')
    BY <1>1, <2>3
  <2>7. \A x, y \in NetworkNodes :
           send'[x][y] = IF x = j /\ y \in S!Nbrs(j) \ {i} THEN Append(send[x][y], d) ELSE send[x][y]
    <3> DEFINE to == S!Nbrs(j) \ {i}
    <3>1. send' = [send EXCEPT ![j] = [k \in NetworkNodes |->
                     IF k \in to THEN Append(send[j][k], d) ELSE send[j][k]]]
      BY <1>2, <1>10, <1>15 DEF S!Queue, PathsTypes
    <3> HIDE DEF to
    <3>2. send \in [NetworkNodes -> [NetworkNodes -> Seq(Nat)]]
      BY <1>2 DEF PathsTypes
    <3>3. ASSUME NEW x \in NetworkNodes, NEW y \in NetworkNodes
          PROVE  send'[x][y] = IF x = j /\ y \in to THEN Append(send[x][y], d) ELSE send[x][y]
      <4>1. CASE x = j
        BY <3>1, <3>2, <4>1
      <4>2. CASE x # j
        BY <3>1, <3>2, <4>2
      <4> QED BY <4>1, <4>2
    <3> QED BY <3>3 DEF to
  <2>8. send' \in [NetworkNodes -> [NetworkNodes -> Seq(Nat)]]
    <3> DEFINE to == S!Nbrs(j) \ {i}
               row == [k \in NetworkNodes |-> IF k \in to THEN Append(send[j][k], d) ELSE send[j][k]]
    <3>1. send' = [send EXCEPT ![j] = row]
      BY <1>2, <1>10, <1>15 DEF S!Queue, PathsTypes
    <3>2. \A k \in NetworkNodes : send[j][k] \in Seq(Nat) /\ Append(send[j][k], d) \in Seq(Nat)
      BY <1>2, <1>9 DEF PathsTypes
    <3> HIDE DEF to
    <3>3. row \in [NetworkNodes -> Seq(Nat)]
      BY <3>2
    <3> HIDE DEF row
    <3> QED BY <1>2, <3>1, <3>3 DEF PathsTypes
  <2>9. PathsTypes'
    <3>1. S!Pairs' = S!Pairs
      BY DEF S!Pairs
    <3> QED BY <1>1, <1>2, <1>12, <2>1, <2>8, <3>1 DEF PathsTypes
  <2>10. ASSUME NEW x \in NetworkNodes, NEW y \in NetworkNodes
         PROVE  Tells(send'[x][y], x, y, node') /\ Tells(channel'[x][y], x, y, node')
    <3>1. Tells(channel'[x][y], x, y, node')
      <4>1. channel'[x][y] \in Seq(Nat)
        BY <1>12
      <4> QED BY <1>13, <2>4, <2>6, <4>1, TellsOn
    <3>2. send[x][y] \in Seq(Nat) /\ Tells(send[x][y], x, y, node)
      BY <1>2 DEF PathsInv, Distances, PathsTypes
    <3>3. Tells(send[x][y], x, y, node')
      BY <2>4, <2>6, <3>2, TellsOn
    <3>4. CASE x = j /\ y \in S!Nbrs(j) \ {i}
      <4>1. S!Linked(x, y) /\ x \in Kids(root, node') \cup {root}
        BY <1>1, <2>3, <3>4 DEF S!Nbrs
      <4>2. d >= node'[x].dist /\ node'[x].dist \in Nat
        BY <1>9, <2>1, <3>4
      <4>3. Tells(Append(send[x][y], d), x, y, node')
        BY <1>9, <3>2, <3>3, <4>1, <4>2, TellsOn
      <4> QED BY <2>7, <3>1, <3>4, <4>3
    <3>5. CASE ~(x = j /\ y \in S!Nbrs(j) \ {i})
      BY <2>7, <3>1, <3>3, <3>5
    <3> QED BY <3>4, <3>5
  <2>11. Distances'
    BY <1>1, <2>10, PathsLinked DEF Distances, Tells, Kids
  <2>12. ASSUME NEW x \in C \cup {j}
         PROVE  LET p == node'[x].parent IN
                /\ p \in C \cup {root} /\ S!Linked(p, x)
                /\ node'[x].dist >= node'[p].dist + weight[{p, x}]
    <3>1. CASE x = j
      <4>1. node'[i] = node[i]
        BY <1>8, <2>1
      <4> QED BY <1>6, <1>9, <2>1, <3>1, <4>1
    <3>2. CASE x # j
      <4> DEFINE p == node[x].parent
      <4>1. x \in NetworkNodes /\ node'[x] = node[x] /\ x \in C
        BY <2>1, <2>5, <3>2
      <4>2. p \in C \cup {root} /\ S!Linked(p, x) /\ node[x].dist >= node[p].dist + weight[{p, x}]
        BY <4>1 DEF PathsInv, Hang, Farther
      <4>3. p \in NetworkNodes /\ weight[{p, x}] \in Nat
        BY <1>2, <2>5, <4>1, <4>2, LinkedBack DEF PathsTypes
      <4> HIDE DEF p
      <4>4. node'[p].dist <= node[p].dist /\ node'[p].dist \in Nat /\ node[p].dist \in Nat
            /\ node[x].dist \in Nat
        BY <2>4, <4>1, <4>3
      <4>5. node'[x].dist >= node'[p].dist + weight[{p, x}]
        BY <4>1, <4>2, <4>3, <4>4
      <4> QED BY <4>1, <4>2, <4>5 DEF p
    <3> QED BY <3>1, <3>2
  <2>13. Farther' /\ Hang(C \cup {j}, root, node')
    <3>1. \A x, y : S!Linked(x, y)' <=> S!Linked(x, y)
      BY <1>1, PathsLinked
    <3>2. Hang(C \cup {j}, root, node')
      <4>1. \A x \in C \cup {j} : node'[x].parent \in C \cup {root}
        BY <2>12
      <4> HIDE DEF C
      <4> QED BY <4>1 DEF Hang
    <3>3. \A x \in C \cup {j} :
            /\ S!Linked(node'[x].parent, x)
            /\ node'[x].dist >= node'[node'[x].parent].dist + weight[{node'[x].parent, x}]
      BY <2>12
    <3> HIDE DEF C
    <3> QED BY <1>1, <2>3, <3>1, <3>2, <3>3 DEF Farther
  <2>14. Below(C \cup {j}, node')
    <3>1. \A x \in C : node[x].dist >= node[node[x].parent].dist
      <4> SUFFICES ASSUME NEW x \in C PROVE node[x].dist >= node[node[x].parent].dist
        OBVIOUS
      <4> DEFINE p == node[x].parent
      <4>1. p \in NetworkNodes /\ S!Linked(p, x) /\ x \in NetworkNodes
            /\ node[x].dist >= node[p].dist + weight[{p, x}]
        BY <2>5 DEF PathsInv, Hang, Farther
      <4>2. weight[{p, x}] \in Nat
        BY <1>2, <4>1, LinkedBack DEF PathsTypes
      <4> HIDE DEF p
      <4>3. node[x].dist >= node[p].dist
        BY <2>4, <4>1, <4>2
      <4> QED BY <4>3 DEF p
    <3>2. node[i].dist < node[j].dist
      BY <1>3, <1>8, <1>9, <1>15
    <3>3. \A x \in C \cup {root} : node[x].dist \in Nat
      BY <2>4, <2>5
    <3>4. \A x \in C \ {j} : node'[x].parent = node[x].parent
      BY <2>1, <2>5
    <3>5. Below(C, node) /\ Hang(C, root, node)
      BY DEF PathsInv
    <3> HIDE DEF C
    <3>6. i \in C \cup {root}
      BY <1>6 DEF C
    <3>7. node'[j].parent = i /\ j # root /\ root \notin C /\ node[j].dist \in Nat
      BY <1>3, <2>1, <2>2, <2>5
    <3> QED BY <3>1, <3>2, <3>3, <3>4, <3>5, <3>6, <3>7, NearerBelow
  <2>15. Outside' /\ node'[root].parent = "-1" /\ node'[root].dist = 0
    <3>1. S!Infinity' = S!Infinity
      BY <1>1, PathsLinked
    <3>2. node'[root] = node[root]
      BY <2>1, <2>2, <2>5
    <3> QED BY <1>1, <2>1, <2>3, <3>1, <3>2 DEF PathsInv, Outside
  <2> HIDE DEF C
  <2> QED BY <1>1, <2>3, <2>9, <2>11, <2>13, <2>14, <2>15 DEF PathsInv
<1> QED BY <1>14, <1>15

LEMMA PathsNextInv == PathsInv /\ S!PathsSteps => PathsInv'
BY PathsSendKeeps, PathsReceiveKeeps DEF S!PathsSteps

LEMMA NetworkSize ==
  /\ Cardinality(NetworkNodes) \in Nat
  /\ S!Cardinality(NetworkNodes) = Cardinality(NetworkNodes)
  /\ A!Cardinality(NetworkNodes) = Cardinality(NetworkNodes)
<1>1. S!Cardinality(NetworkNodes) = Cardinality(NetworkNodes)
  BY DEF S!Cardinality, Cardinality
<1>2. A!Cardinality(NetworkNodes) = Cardinality(NetworkNodes)
  BY DEF A!Cardinality, Cardinality
<1> QED BY <1>1, <1>2, PartsAssumption, FS_CardinalityType

\* What Reached computes.
LEMMA PathsReached ==
  ASSUME root \in NetworkNodes
  PROVE  \E g : /\ g[0] = {root} /\ S!Reached = g[Cardinality(NetworkNodes)]
               /\ \A k \in 1..Cardinality(NetworkNodes) :
                    g[k] = g[k - 1] \cup UNION {S!Nbrs(i) : i \in g[k - 1]}
<1> DEFINE n == Cardinality(NetworkNodes)
           Next1(s) == s \cup UNION {S!Nbrs(i) : i \in s}
           F == [s \in SUBSET NetworkNodes |-> Next1(s)]
           Steps(h) == h = [k \in 0..n |-> IF k = 0 THEN {root} ELSE h[k - 1] \cup UNION {S!Nbrs(i) : i \in h[k - 1]}]
           g == CHOOSE h : Steps(h)
<1>1. F \in [SUBSET NetworkNodes -> SUBSET NetworkNodes] /\ {root} \in SUBSET NetworkNodes
  BY DEF S!Nbrs
<1>2. n \in Nat /\ S!Cardinality(NetworkNodes) = n
  BY NetworkSize
<1>3. S!Reached = g[n]
  BY <1>2 DEF S!Reached
<1> HIDE DEF n, F
<1>4. PICK f : f \in [0..n -> SUBSET NetworkNodes] /\ f[0] = {root} /\ \A k \in 1..n : f[k] = F[f[k - 1]]
  <2> DEFINE X == SUBSET NetworkNodes
             x == {root}
  <2>1. F \in [X -> X] /\ x \in X
    BY <1>1
  <2> HIDE DEF X, x
  <2>2. PICK f : Iterates(f, n, X, x, F)
    BY <1>2, <2>1, Iteration
  <2> QED BY <2>2 DEF X, x, Iterates
<1>5. Steps(f)
  <2>1. ASSUME NEW k \in 0..n, k # 0 PROVE f[k] = Next1(f[k - 1])
    <3>1. k \in 1..n /\ k - 1 \in 0..n
      BY <1>2, <2>1
    <3>2. f[k] = F[f[k - 1]] /\ f[k - 1] \in SUBSET NetworkNodes
      BY <1>4, <3>1
    <3> QED BY <3>2 DEF F
  <2>2. \A k \in 0..n : f[k] = IF k = 0 THEN {root} ELSE Next1(f[k - 1])
    BY <1>4, <2>1
  <2> HIDE DEF Next1
  <2>3. f = [k \in 0..n |-> IF k = 0 THEN {root} ELSE Next1(f[k - 1])]
    BY <1>4, <2>2
  <2> QED BY <2>3 DEF Next1
<1>6. Steps(g)
  BY <1>5
<1> HIDE DEF g
<1>7. g[0] = {root} /\ \A k \in 1..n : g[k] = Next1(g[k - 1])
  <2> HIDE DEF Next1
  <2>1. g = [k \in 0..n |-> IF k = 0 THEN {root} ELSE Next1(g[k - 1])]
    BY <1>6 DEF Next1
  <2>2. 0 \in 0..n /\ \A k \in 1..n : k \in 0..n /\ k # 0
    BY <1>2
  <2>3. g[0] = {root}
    BY <2>1, <2>2
  <2> QED BY <2>1, <2>2, <2>3
<1> QED BY <1>3, <1>7 DEF n

LEMMA LeastMeans ==
  ASSUME NEW Q \in SUBSET Nat, Q # {}
  PROVE  LET l == CHOOSE d \in Q : \A e \in Q : d <= e IN l \in Q /\ \A e \in Q : l <= e
<1>1. \E d \in Q : \A e \in Q : d <= e
  BY LeastNatural
<1> QED BY <1>1

\* What Shortest computes in n rounds d: of it, that no value is greater than the ones
\* it comes from.
ShortestRounds(d, n) ==
  /\ \A i \in NetworkNodes : d[0][i] = IF i = root THEN 0 ELSE S!Infinity
  /\ \A k \in 0..n : d[k] \in [NetworkNodes -> Nat]
  /\ \A k \in 1..n, i \in NetworkNodes :
       /\ d[k][i] <= d[k - 1][i]
       /\ \A j \in S!Nbrs(i) : d[k][i] <= d[k - 1][j] + weight[{i, j}]
  /\ S!Shortest = [i \in NetworkNodes |-> IF i \in S!Reached THEN d[n][i] ELSE S!Infinity]

LEMMA PathsShortest == PathsTypes => \E d : ShortestRounds(d, Cardinality(NetworkNodes))
<1> SUFFICES ASSUME PathsTypes PROVE \E d : ShortestRounds(d, Cardinality(NetworkNodes))
  OBVIOUS
<1> DEFINE n == Cardinality(NetworkNodes)
           From(v, i) == {v[i]} \cup {v[j] + weight[{i, j}] : j \in S!Nbrs(i)}
           least(Q) == CHOOSE e \in Q : \A f \in Q : e <= f
           Better(v) == [i \in NetworkNodes |-> least(From(v, i))]
           start == [i \in NetworkNodes |-> IF i = root THEN 0 ELSE S!Infinity]
           X == [NetworkNodes -> Nat]
           F == [v \in X |-> Better(v)]
           Steps(h) == h = [k \in 0..n |-> IF k = 0 THEN start ELSE Better(h[k - 1])]
           g == CHOOSE h : Steps(h)
<1>1. n \in Nat /\ S!Cardinality(NetworkNodes) = n /\ S!Infinity \in Nat
  <2> DEFINE c == Cardinality(NetworkNodes)
  <2>1. c \in Nat /\ S!Cardinality(NetworkNodes) = c
    BY NetworkSize
  <2>2. c * LongestLink + 1 \in Nat
    <3> HIDE DEF c
    <3> QED BY <2>1, PartsAssumption
  <2> QED BY <2>1, <2>2 DEF S!Infinity
<1>2. S!Shortest = [i \in NetworkNodes |-> IF i \in S!Reached THEN g[n][i] ELSE S!Infinity]
  BY <1>1 DEF S!Shortest
<1>3. ASSUME NEW v \in X, NEW i \in NetworkNodes
      PROVE  From(v, i) \in SUBSET Nat /\ From(v, i) # {}
  <2>1. \A j \in S!Nbrs(i) : v[j] + weight[{i, j}] \in Nat
    <3> SUFFICES ASSUME NEW j \in S!Nbrs(i) PROVE v[j] + weight[{i, j}] \in Nat
      OBVIOUS
    <3>1. weight[{i, j}] \in Nat /\ v[j] \in Nat
      BY LinkedBack DEF S!Nbrs, PathsTypes
    <3> QED BY <3>1
  <2> QED BY <2>1
<1>4. ASSUME NEW v \in X
      PROVE  /\ Better(v) \in X
             /\ \A i \in NetworkNodes :
                  /\ Better(v)[i] <= v[i]
                  /\ \A j \in S!Nbrs(i) : Better(v)[i] <= v[j] + weight[{i, j}]
  <2>1. ASSUME NEW i \in NetworkNodes
        PROVE  least(From(v, i)) \in Nat /\ \A e \in From(v, i) : least(From(v, i)) <= e
    <3> DEFINE Q == From(v, i)
    <3>1. Q \in SUBSET Nat /\ Q # {}
      BY <1>3
    <3> HIDE DEF Q
    <3>2. least(Q) \in Q /\ \A e \in Q : least(Q) <= e
      BY <3>1, LeastMeans
    <3> QED BY <3>1, <3>2 DEF Q
  <2> HIDE DEF least
  <2>2. \A i \in NetworkNodes : Better(v)[i] = least(From(v, i))
    OBVIOUS
  <2>3. Better(v) \in X
    BY <2>1
  <2>4. \A i \in NetworkNodes : v[i] \in From(v, i)
           /\ \A j \in S!Nbrs(i) : v[j] + weight[{i, j}] \in From(v, i)
    OBVIOUS
  <2> HIDE DEF From
  <2> QED BY <2>1, <2>2, <2>3, <2>4
<1>5. start \in X
  BY <1>1
<1> HIDE DEF Better, start, X, n
<1>6. PICK f : f \in [0..n -> X] /\ f[0] = start /\ \A k \in 1..n : f[k] = F[f[k - 1]]
  <2>1. F \in [X -> X]
    BY <1>4
  <2> HIDE DEF F
  <2>2. PICK f : Iterates(f, n, X, start, F)
    BY <1>1, <1>5, <2>1, Iteration
  <2> QED BY <2>2 DEF Iterates
<1>7. \A k \in 0..n : f[k] = IF k = 0 THEN start ELSE Better(f[k - 1])
  <2> SUFFICES ASSUME NEW k \in 0..n, k # 0 PROVE f[k] = Better(f[k - 1])
    BY <1>6
  <2>1. k \in 1..n /\ k - 1 \in 0..n
    BY <1>1
  <2> QED BY <1>6, <2>1
<1>8. Steps(f)
  BY <1>6, <1>7
<1>9. Steps(g)
  BY <1>8
<1> HIDE DEF g
<1>10. g[0] = start /\ \A k \in 1..n : g[k] = Better(g[k - 1])
  <2>1. 0 \in 0..n /\ \A k \in 1..n : k \in 0..n /\ k # 0
    BY <1>1
  <2> QED BY <1>9, <2>1
<1>11. \A k \in 0..n : g[k] \in X
  <2> DEFINE Q == {k \in 0..n : g[k] \in X}
  <2>1. 0 \in Q
    BY <1>1, <1>5, <1>10
  <2>2. \A k \in 1..n : k - 1 \in Q => k \in Q
    BY <1>1, <1>4, <1>10
  <2> HIDE DEF Q
  <2>3. 0..n \subseteq Q
    BY <1>1, <2>1, <2>2, CountUp
  <2> QED BY <2>3 DEF Q
<1>12. ASSUME NEW k \in 1..n, NEW i \in NetworkNodes
       PROVE  /\ g[k][i] <= g[k - 1][i]
              /\ \A j \in S!Nbrs(i) : g[k][i] <= g[k - 1][j] + weight[{i, j}]
  <2>1. g[k - 1] \in X /\ g[k] = Better(g[k - 1])
    BY <1>1, <1>10, <1>11
  <2> QED BY <1>4, <2>1
<1>13. \A i \in NetworkNodes : g[0][i] = IF i = root THEN 0 ELSE S!Infinity
  BY <1>10 DEF start
<1>14. ShortestRounds(g, n)
  BY <1>2, <1>11, <1>12, <1>13 DEF X, ShortestRounds
<1> QED BY <1>14 DEF n

\* A set that grows until it is all of K, is it after as many steps as K has members.
LEMMA Spread ==
  ASSUME NEW K, IsFiniteSet(K), NEW n \in Nat, Cardinality(K) <= n,
         NEW G \in [0..n -> SUBSET K],
         \A k \in 1..n : /\ G[k - 1] \subseteq G[k]
                         /\ G[k - 1] # K => \E x \in G[k] : x \notin G[k - 1]
  PROVE  G[n] = K
<1> DEFINE Q == {k \in 0..n : G[k] = K \/ Cardinality(G[k]) >= k}
<1>1. ASSUME NEW k \in 0..n
      PROVE  /\ G[k] \in SUBSET K /\ IsFiniteSet(G[k]) /\ Cardinality(G[k]) \in Nat
             /\ Cardinality(G[k]) <= Cardinality(K)
             /\ Cardinality(G[k]) = Cardinality(K) => G[k] = K
  BY FS_Subset, FS_CardinalityType
<1>2. 0 \in Q
  BY <1>1
<1>3. ASSUME NEW k \in 1..n, k - 1 \in Q PROVE k \in Q
  <2>1. k \in 0..n /\ k - 1 \in 0..n
    OBVIOUS
  <2>2. CASE G[k - 1] = K
    <3>1. G[k] = K
      BY <1>1, <2>1, <2>2
    <3> QED BY <2>1, <3>1
  <2>3. CASE G[k - 1] # K
    <3>1. PICK x \in G[k] : x \notin G[k - 1]
      BY <2>3
    <3>2. Cardinality(G[k - 1] \cup {x}) = Cardinality(G[k - 1]) + 1 /\ Cardinality(G[k - 1]) \in Nat
      BY <1>1, <2>1, <3>1, FS_AddElement
    <3>3. Cardinality(G[k - 1] \cup {x}) <= Cardinality(G[k])
      BY <1>1, <2>1, <3>1, FS_Subset
    <3>4. Cardinality(G[k - 1]) >= k - 1
      BY <1>3, <2>3
    <3>5. Cardinality(G[k]) \in Nat
      BY <1>1, <2>1
    <3>6. Cardinality(G[k]) >= k
      BY <3>2, <3>3, <3>4, <3>5
    <3> QED BY <2>1, <3>6
  <2> QED BY <2>2, <2>3
<1> HIDE DEF Q
<1>4. 0..n \subseteq Q
  BY <1>2, <1>3, CountUp
<1>5. n \in 0..n /\ n \in Q
  BY <1>4
<1>6. G[n] = K \/ Cardinality(G[n]) >= n
  BY <1>5 DEF Q
<1>7. CASE Cardinality(G[n]) >= n
  <2>1. Cardinality(K) \in Nat
    BY FS_CardinalityType
  <2> QED BY <1>1, <1>5, <1>7, <2>1
<1> QED BY <1>6, <1>7

\* After k rounds the reference is right about those whose parents are right after k - 1.
LEMMA PathsNeverShort == PathsInv => S!NeverTooShort
<1> SUFFICES ASSUME PathsInv PROVE S!NeverTooShort
  OBVIOUS
<1> DEFINE n == Cardinality(NetworkNodes)
           C == Kids(root, node)
           K == C \cup {root}
<1>1. PathsTypes /\ root \in NetworkNodes /\ n \in Nat
  BY NetworkSize DEF PathsInv, PathsTypes
<1>2. PICK g : /\ g[0] = {root} /\ S!Reached = g[n]
               /\ \A k \in 1..n : g[k] = g[k - 1] \cup UNION {S!Nbrs(x) : x \in g[k - 1]}
  BY <1>1, PathsReached
<1>3. PICK d : ShortestRounds(d, n)
  BY <1>1, PathsShortest
<1>4. C \in SUBSET NetworkNodes /\ root \notin C /\ K \in SUBSET NetworkNodes
  BY <1>1 DEF Kids
<1>5. /\ \A i \in NetworkNodes : node[i].dist \in Nat
      /\ node[root].dist = 0
      /\ \A i \in NetworkNodes \ K : node[i].dist = S!Infinity
  BY DEF PathsInv, PathsTypes, Outside
<1>6. ASSUME NEW i \in C
      PROVE  /\ node[i].parent \in K /\ i \in S!Nbrs(node[i].parent)
             /\ node[i].parent \in S!Nbrs(i) /\ weight[{i, node[i].parent}] \in Nat
             /\ node[i].dist >= node[node[i].parent].dist + weight[{i, node[i].parent}]
  <2> DEFINE p == node[i].parent
  <2>1. p \in K /\ S!Linked(p, i) /\ node[i].dist >= node[p].dist + weight[{p, i}]
    BY DEF PathsInv, Hang, Farther
  <2> HIDE DEF p
  <2>2. p \in NetworkNodes /\ i \in NetworkNodes
    BY <1>4, <2>1
  <2>3. S!Linked(i, p) /\ {p, i} = {i, p} /\ weight[{i, p}] \in Nat
    BY <1>1, <2>1, <2>2, LinkedBack DEF PathsTypes
  <2>4. i \in S!Nbrs(p) /\ p \in S!Nbrs(i)
    BY <2>1, <2>2, <2>3 DEF S!Nbrs
  <2> QED BY <2>1, <2>3, <2>4 DEF p
<1>7. Below(C, node)
  BY DEF PathsInv
<1> HIDE DEF n, C, K
<1> DEFINE Right(k) == {i \in K : i \in g[k] /\ node[i].dist >= d[k][i]}
           G == [k \in 0..n |-> Right(k)]
<1>8. ASSUME NEW k \in 1..n
      PROVE  /\ k \in 0..n /\ k - 1 \in 0..n
             /\ Right(k - 1) \subseteq Right(k)
             /\ root \in Right(k - 1) /\ Right(k - 1) # K => \E x \in Right(k) : x \notin Right(k - 1)
  <2>1. k \in 0..n /\ k - 1 \in 0..n
    BY <1>1
  <2>2. d[k] \in [NetworkNodes -> Nat] /\ d[k - 1] \in [NetworkNodes -> Nat]
        /\ \A u \in NetworkNodes :
             /\ d[k][u] <= d[k - 1][u]
             /\ \A v \in S!Nbrs(u) : d[k][u] <= d[k - 1][v] + weight[{u, v}]
    BY <1>3, <2>1 DEF ShortestRounds
  <2>3. Right(k - 1) \subseteq Right(k)
    <3> SUFFICES ASSUME NEW i \in K, i \in g[k - 1], node[i].dist >= d[k - 1][i]
                 PROVE  i \in g[k] /\ node[i].dist >= d[k][i]
      OBVIOUS
    <3>1. i \in g[k]
      BY <1>2
    <3>2. i \in NetworkNodes
      BY <1>4
    <3>3. node[i].dist \in Nat /\ d[k][i] \in Nat /\ d[k - 1][i] \in Nat /\ d[k][i] <= d[k - 1][i]
      BY <1>5, <2>2, <3>2
    <3> QED BY <3>1, <3>3
  <2>4. ASSUME root \in Right(k - 1), Right(k - 1) # K
        PROVE  \E x \in Right(k) : x \notin Right(k - 1)
    <3> DEFINE U == K \ Right(k - 1)
    <3>1. U \in SUBSET C /\ U # {}
      BY <2>4 DEF K
    <3> HIDE DEF U
    <3>2. PICK i \in U : node[i].parent \notin U
      BY <1>7, <3>1 DEF Below
    <3> DEFINE p == node[i].parent
               w == weight[{i, p}]
    <3>3. i \in C /\ i \in K /\ i \notin Right(k - 1) /\ i \in NetworkNodes
      BY <1>4, <3>1, <3>2 DEF U
    <3>4. p \in K /\ i \in S!Nbrs(p) /\ p \in S!Nbrs(i) /\ w \in Nat /\ node[i].dist >= node[p].dist + w
      BY <1>6, <3>3
    <3>5. p \notin U /\ p \in NetworkNodes
      BY <1>4, <3>2, <3>4
    <3> HIDE DEF p
    <3>6. p \in g[k - 1] /\ node[p].dist >= d[k - 1][p]
      BY <3>4, <3>5 DEF U
    <3>7. i \in g[k]
      BY <1>2, <3>4, <3>6
    <3>8. d[k][i] <= d[k - 1][p] + w
      BY <2>2, <3>3, <3>4
    <3> HIDE DEF w
    <3>9. node[i].dist \in Nat /\ node[p].dist \in Nat /\ d[k][i] \in Nat /\ d[k - 1][p] \in Nat
      BY <1>5, <2>2, <3>3, <3>5
    <3>10. node[i].dist >= d[k][i]
      BY <3>4, <3>6, <3>8, <3>9
    <3> QED BY <3>3, <3>7, <3>10
  <2> QED BY <2>1, <2>3, <2>4
<1>9. root \in Right(0) /\ \A k \in 0..n : root \in Right(k)
  <2> DEFINE Q == {k \in 0..n : root \in Right(k)}
  <2>1. root \in Right(0)
    BY <1>1, <1>2, <1>3, <1>5 DEF K, ShortestRounds
  <2>2. \A k \in 1..n : k - 1 \in Q => k \in Q
    BY <1>8
  <2>3. 0 \in Q
    BY <1>1, <2>1
  <2> HIDE DEF Q
  <2>4. 0..n \subseteq Q
    BY <1>1, <2>2, <2>3, CountUp
  <2> QED BY <2>1, <2>4 DEF Q
<1>10. G[n] = K
  <2>1. IsFiniteSet(K) /\ Cardinality(K) <= n
    BY <1>4, PartsAssumption, FS_Subset DEF n
  <2>2. G \in [0..n -> SUBSET K]
    OBVIOUS
  <2>3. ASSUME NEW k \in 1..n
        PROVE  G[k - 1] \subseteq G[k] /\ (G[k - 1] # K => \E x \in G[k] : x \notin G[k - 1])
    <3> HIDE DEF Right
    <3>1. k \in 0..n /\ k - 1 \in 0..n
      BY <1>8
    <3>2. G[k] = Right(k) /\ G[k - 1] = Right(k - 1) /\ root \in Right(k - 1)
      BY <1>9, <3>1
    <3> QED BY <1>8, <3>2
  <2> HIDE DEF G
  <2> QED BY <1>1, <2>1, <2>2, <2>3, Spread
<1>11. \A i \in K : i \in S!Reached /\ node[i].dist >= d[n][i]
  <2>1. n \in 0..n
    BY <1>1
  <2> QED BY <1>2, <1>10, <2>1
<1>12. \A i \in NetworkNodes \ K : S!Infinity >= d[n][i]
  <2> SUFFICES ASSUME NEW i \in NetworkNodes \ K PROVE S!Infinity >= d[n][i]
    OBVIOUS
  <2> DEFINE inf == S!Infinity
             Q == {k \in 0..n : inf >= d[k][i]}
  <2>1. inf \in Nat
    BY <1>5
  <2>2. 0 \in Q
    BY <1>1, <1>3, <2>1 DEF K, ShortestRounds
  <2> HIDE DEF inf
  <2>3. \A k \in 1..n : k - 1 \in Q => k \in Q
    <3> SUFFICES ASSUME NEW k \in 1..n, inf >= d[k - 1][i] PROVE inf >= d[k][i]
      BY <1>8
    <3>1. d[k][i] <= d[k - 1][i]
      BY <1>3 DEF ShortestRounds
    <3>2. d[k][i] \in Nat /\ d[k - 1][i] \in Nat
      BY <1>3, <1>8 DEF ShortestRounds
    <3> QED BY <2>1, <3>1, <3>2
  <2> HIDE DEF Q
  <2>4. 0..n \subseteq Q
    BY <1>1, <2>2, <2>3, CountUp
  <2>5. n \in Q
    BY <1>1, <2>4
  <2> QED BY <2>5 DEF Q, inf
<1>13. ASSUME NEW i \in NetworkNodes PROVE node[i].dist >= S!Shortest[i]
  <2>1. S!Shortest[i] = IF i \in S!Reached THEN d[n][i] ELSE S!Infinity
    BY <1>3 DEF ShortestRounds
  <2>2. CASE i \in K
    BY <1>11, <2>1, <2>2
  <2>3. CASE i \notin K
    <3>1. node[i].dist = S!Infinity /\ S!Infinity >= d[n][i] /\ node[i].dist \in Nat
      BY <1>5, <1>12, <2>3
    <3> QED BY <2>1, <3>1
  <2> QED BY <2>2, <2>3
<1> QED BY <1>13 DEF S!NeverTooShort
-----------------------------------------------------------------------------
(* BcastAck. *)

AckWords == {"BCAST", "ACK"}

\* What may be on the way on a link: a value, and an answer after it.
InOrder(f) == Len(f) <= 2 /\ (Len(f) = 2 => f[1] = "BCAST" /\ f[2] = "ACK")
HasBcast(f) == Len(f) > 0 /\ f[1] = "BCAST"
HasAck(f) == Len(f) > 0 /\ f[Len(f)] = "ACK"

LEMMA OnTheWay ==
  ASSUME NEW f \in Seq(AckWords), InOrder(f)
  PROVE  /\ Len(f) \in {0, 1, 2}
         /\ Len(f) = 0 <=> f = <<>>
         /\ f # <<>> => /\ Head(f) = f[1] /\ Tail(f) \in Seq(AckWords) /\ Len(Tail(f)) = Len(f) - 1
                        /\ \A i \in 1..Len(Tail(f)) : Tail(f)[i] = f[i + 1]
         /\ \A i \in 1..Len(f) : f[i] \in AckWords
<1>1. Len(f) \in {0, 1, 2}
  <2> DEFINE n == Len(f)
  <2>1. n \in Nat
    BY LenProperties
  <2>2. n <= 2
    BY DEF InOrder
  <2> HIDE DEF n
  <2>3. n \in {0, 1, 2}
    BY <2>1, <2>2
  <2> QED BY <2>3 DEF n
<1>2. Len(f) = 0 <=> f = <<>>
  BY <1>1, EmptySeq, SeqEqual
<1>3. \A i \in 1..Len(f) : f[i] \in AckWords
  BY ElementOfSeq
<1>4. ASSUME f # <<>>
      PROVE  /\ Head(f) = f[1] /\ Tail(f) \in Seq(AckWords) /\ Len(Tail(f)) = Len(f) - 1
             /\ \A i \in 1..Len(Tail(f)) : Tail(f)[i] = f[i + 1]
  BY <1>4, HeadTailProperties
<1> QED BY <1>1, <1>2, <1>3, <1>4

LEMMA AckTaken ==
  ASSUME NEW f \in Seq(AckWords), InOrder(f), f # <<>>, Head(f) # "BCAST"
  PROVE  HasAck(f) /\ ~HasBcast(f) /\ Tail(f) = <<>>
<1>1. Len(f) = 1 /\ f[1] = "ACK"
  BY OnTheWay DEF InOrder, AckWords
<1>2. Tail(f) \in Seq(AckWords) /\ Len(Tail(f)) = 0
  BY <1>1, OnTheWay
<1>3. Tail(f) = <<>>
  BY <1>2, EmptySeq
<1> QED BY <1>1, <1>3 DEF HasAck, HasBcast

LEMMA BcastTaken ==
  ASSUME NEW f \in Seq(AckWords), InOrder(f), f # <<>>, Head(f) = "BCAST"
  PROVE  /\ HasBcast(f) /\ ~HasBcast(Tail(f)) /\ (HasAck(Tail(f)) <=> HasAck(f))
         /\ InOrder(Tail(f)) /\ Tail(f) \in Seq(AckWords)
<1> DEFINE t == Tail(f)
           Taken == HasBcast(f) /\ ~HasBcast(t) /\ (HasAck(t) <=> HasAck(f)) /\ InOrder(t)
<1>1. /\ Len(f) \in {1, 2} /\ f[1] = "BCAST" /\ Len(t) = Len(f) - 1 /\ t \in Seq(AckWords)
      /\ \A i \in 1..Len(t) : t[i] = f[i + 1]
  BY OnTheWay
<1> HIDE DEF t
<1>2. Taken
  <2>1. CASE Len(f) = 1
    BY <1>1, <2>1 DEF InOrder, HasAck, HasBcast
  <2>2. CASE Len(f) = 2
    <3>1. f[2] = "ACK" /\ Len(t) = 1 /\ t[1] = f[2]
      BY <1>1, <2>2 DEF InOrder
    <3> QED BY <1>1, <2>2, <3>1 DEF InOrder, HasAck, HasBcast
  <2> QED BY <1>1, <2>1, <2>2
<1> QED BY <1>1, <1>2 DEF t

LEMMA AckAdded ==
  ASSUME NEW f \in Seq(AckWords), InOrder(f), ~HasAck(f)
  PROVE  /\ Append(f, "ACK") \in Seq(AckWords) /\ InOrder(Append(f, "ACK"))
         /\ HasAck(Append(f, "ACK")) /\ (HasBcast(Append(f, "ACK")) <=> HasBcast(f))
<1>1. Len(f) \in {0, 1} /\ (Len(f) = 1 => f[1] = "BCAST")
  BY OnTheWay DEF InOrder, HasAck, AckWords
<1> QED BY <1>1 DEF InOrder, HasBcast, HasAck, AckWords

LEMMA BcastFirst ==
  LET f == Append(<<>>, "BCAST") IN
  f \in Seq(AckWords) /\ InOrder(f) /\ HasBcast(f) /\ ~HasAck(f)
<1> DEFINE e == <<>>
<1>1. e \in Seq(AckWords) /\ Len(e) = 0
  BY EmptySeq
<1> HIDE DEF e
<1>2. LET f == Append(e, "BCAST") IN
        f \in Seq(AckWords) /\ InOrder(f) /\ HasBcast(f) /\ ~HasAck(f)
  BY <1>1 DEF InOrder, HasBcast, HasAck, AckWords
<1> QED BY <1>2 DEF e

LEMMA NothingOnTheWay ==
  /\ <<>> \in Seq(AckWords) /\ InOrder(<<>>) /\ ~HasBcast(<<>>) /\ ~HasAck(<<>>)
  /\ \A f \in Seq(AckWords) : InOrder(f) /\ ~HasBcast(f) /\ ~HasAck(f) => f = <<>>
<1>1. ASSUME NEW f \in Seq(AckWords), InOrder(f), ~HasBcast(f), ~HasAck(f) PROVE f = <<>>
  BY <1>1, OnTheWay DEF InOrder, HasBcast, HasAck, AckWords
<1>2. <<>> \in Seq(AckWords) /\ InOrder(<<>>) /\ ~HasBcast(<<>>) /\ ~HasAck(<<>>)
  BY DEF InOrder, HasBcast, HasAck
<1> QED BY <1>1, <1>2

\* i, when the members are n, wants an acknowledgement of j.
Asked(n, i, j) == n[i].val = "value" /\ A!Linked(i, j) /\ n[i].parent # j

\* j has the value of i and has not reported.
HeldBy(n, i, j) == n[j].parent = i /\ ~n[j].reported

\* The value i sends to j, when F is on the way: with what became of it, it is in one
\* place, and only if it was sent.
OnePlace(n, F, i, j) ==
  /\ HasBcast(F[i][j]) \/ HeldBy(n, i, j) \/ HasAck(F[j][i]) \/ j \in n[i].acked <=> Asked(n, i, j)
  /\ HasBcast(F[i][j]) => ~HeldBy(n, i, j) /\ ~HasAck(F[j][i]) /\ j \notin n[i].acked
  /\ HeldBy(n, i, j) => ~HasAck(F[j][i]) /\ j \notin n[i].acked
  /\ HasAck(F[j][i]) => j \notin n[i].acked

Member(n, F, i) ==
  /\ n[i].val = "value" <=> i = root \/ n[i].parent # "-1"
  /\ n[i].val # "value" => ~n[i].reported /\ \A j \in NetworkNodes : F[i][j] = <<>>
  /\ n[i].reported =>
       \A j \in NetworkNodes : A!Linked(i, j) => j = n[i].parent \/ j \in n[i].acked
  /\ n[i].parent # "-1" =>
       n[i].parent \in NetworkNodes /\ A!Linked(i, n[i].parent) /\ n[n[i].parent].val = "value"
  /\ \A j \in n[i].acked : n[j].val = "value"

AckMembers == [val : {"null", "value"}, parent : NetworkNodes \cup {"-1"}, reported : BOOLEAN,
               acked : SUBSET NetworkNodes]

AckState(n, F) ==
  /\ n \in [NetworkNodes -> AckMembers] /\ F \in [NetworkNodes -> [NetworkNodes -> Seq(AckWords)]]
  /\ root \in NetworkNodes /\ n[root].parent = "-1"
  /\ \A i, j \in NetworkNodes : InOrder(F[i][j]) /\ OnePlace(n, F, i, j)
  /\ \A i \in NetworkNodes : Member(n, F, i)
  /\ Below(Kids(root, n), n)

LEMMA AckLinked ==
  ASSUME NEW i \in NetworkNodes, NEW j \in NetworkNodes
  PROVE  /\ A!Linked(i, j) <=> A!Linked(j, i)
         /\ A!Linked(i, j) => i # j
BY DEF A!Linked

\* Who sends has the value, and over links only.
LEMMA SenderHasValue ==
  ASSUME NEW n, NEW F, AckState(n, F), NEW i \in NetworkNodes, NEW j \in NetworkNodes, F[i][j] # <<>>
  PROVE  /\ n[i].val = "value" /\ A!Linked(i, j) /\ A!Linked(j, i) /\ i # j
         /\ F[i][j] \in Seq(AckWords) /\ InOrder(F[i][j])
<1>1. F[i][j] \in Seq(AckWords) /\ InOrder(F[i][j])
  BY DEF AckState
<1>2. HasBcast(F[i][j]) \/ HasAck(F[i][j])
  BY <1>1, NothingOnTheWay
<1>3. Asked(n, i, j) \/ Asked(n, j, i)
  BY <1>2 DEF AckState, OnePlace
<1>4. A!Linked(i, j) /\ A!Linked(j, i) /\ i # j
  BY <1>3, AckLinked DEF Asked
<1>5. n[i].val = "value"
  BY DEF AckState, Member
<1> QED BY <1>1, <1>4, <1>5

\* How the members change: j gets i's acknowledgement, j gets its value from i, i reports.
Acked(n, m, j, i) ==
  /\ m \in [NetworkNodes -> AckMembers]
  /\ \A x \in NetworkNodes :
       /\ m[x].val = n[x].val /\ m[x].parent = n[x].parent /\ m[x].reported = n[x].reported
       /\ m[x].acked = IF x = j THEN n[x].acked \cup {i} ELSE n[x].acked

Informed(n, m, j, i) ==
  /\ m \in [NetworkNodes -> AckMembers]
  /\ m[j].val = "value" /\ m[j].parent = i
  /\ m[j].reported = n[j].reported /\ m[j].acked = n[j].acked
  /\ \A x \in NetworkNodes \ {j} : m[x] = n[x]

Reported(n, m, i) ==
  /\ m \in [NetworkNodes -> AckMembers]
  /\ \A x \in NetworkNodes :
       /\ m[x].val = n[x].val /\ m[x].parent = n[x].parent /\ m[x].acked = n[x].acked
       /\ m[x].reported <=> (x = i \/ n[x].reported)

\* How what is on the way changes: j accepts an acknowledgement from i, answers i's value,
\* or takes and passes it on; i reports to its parent p.
AckQueues == [NetworkNodes -> [NetworkNodes -> Seq(AckWords)]]

Accepting(F, G, i, j) ==
  /\ G \in [NetworkNodes -> [NetworkNodes -> Seq(AckWords)]]
  /\ F[i][j] # <<>> /\ Head(F[i][j]) # "BCAST" /\ G[i][j] = Tail(F[i][j])
  /\ \A x, y \in NetworkNodes : x # i \/ y # j => G[x][y] = F[x][y]

Answering(F, G, i, j) ==
  /\ G \in [NetworkNodes -> [NetworkNodes -> Seq(AckWords)]]
  /\ F[i][j] # <<>> /\ Head(F[i][j]) = "BCAST" /\ G[i][j] = Tail(F[i][j])
  /\ i # j => G[j][i] = Append(F[j][i], "ACK")
  /\ \A x, y \in NetworkNodes : (x # i \/ y # j) /\ (x # j \/ y # i) => G[x][y] = F[x][y]

Relaying(F, G, i, j) ==
  /\ G \in [NetworkNodes -> [NetworkNodes -> Seq(AckWords)]]
  /\ F[i][j] # <<>> /\ Head(F[i][j]) = "BCAST" /\ G[i][j] = Tail(F[i][j])
  /\ \A y \in NetworkNodes :
       i # j /\ A!Linked(j, y) /\ y # i => G[j][y] = Append(F[j][y], "BCAST")
  /\ \A x, y \in NetworkNodes :
       (x # i \/ y # j) /\ (x # j \/ ~A!Linked(j, y) \/ y = i) => G[x][y] = F[x][y]

Reporting(F, G, i, p) ==
  /\ G \in [NetworkNodes -> [NetworkNodes -> Seq(AckWords)]]
  /\ i # root => G[i][p] = Append(F[i][p], "ACK")
  /\ \A x, y \in NetworkNodes : x # i \/ y # p => G[x][y] = F[x][y]

LEMMA AckChanges ==
  ASSUME NEW n \in [NetworkNodes -> AckMembers], NEW i \in NetworkNodes, NEW j \in NetworkNodes
  PROVE  /\ Acked(n, [n EXCEPT ![j].acked = @ \cup {i}], j, i)
         /\ Informed(n, [n EXCEPT ![j] = [@ EXCEPT !.val = "value", !.parent = i]], j, i)
         /\ Reported(n, [n EXCEPT ![i].reported = TRUE], i)
<1>1. n[i] \in AckMembers /\ n[j] \in AckMembers
  OBVIOUS
<1>2. ASSUME NEW x \in NetworkNodes, NEW r \in AckMembers
      PROVE  /\ [n EXCEPT ![x] = r] \in [NetworkNodes -> AckMembers]
             /\ [n EXCEPT ![x] = r][x] = r
             /\ \A y \in NetworkNodes \ {x} : [n EXCEPT ![x] = r][y] = n[y]
  OBVIOUS
<1>3. Acked(n, [n EXCEPT ![j].acked = @ \cup {i}], j, i)
  <2> DEFINE r == [n[j] EXCEPT !.acked = @ \cup {i}]
  <2>1. /\ r \in AckMembers /\ r.val = n[j].val /\ r.parent = n[j].parent
        /\ r.reported = n[j].reported /\ r.acked = n[j].acked \cup {i}
    BY <1>1 DEF AckMembers
  <2>2. [n EXCEPT ![j].acked = @ \cup {i}] = [n EXCEPT ![j] = r]
    OBVIOUS
  <2> HIDE DEF r
  <2>3. Acked(n, [n EXCEPT ![j] = r], j, i)
    BY <1>2, <2>1 DEF Acked
  <2> QED BY <2>2, <2>3
<1>4. Informed(n, [n EXCEPT ![j] = [@ EXCEPT !.val = "value", !.parent = i]], j, i)
  <2> DEFINE r == [n[j] EXCEPT !.val = "value", !.parent = i]
  <2>1. /\ r \in AckMembers /\ r.val = "value" /\ r.parent = i
        /\ r.reported = n[j].reported /\ r.acked = n[j].acked
    BY <1>1 DEF AckMembers
  <2>2. [n EXCEPT ![j] = [@ EXCEPT !.val = "value", !.parent = i]] = [n EXCEPT ![j] = r]
    OBVIOUS
  <2> HIDE DEF r
  <2>3. Informed(n, [n EXCEPT ![j] = r], j, i)
    BY <1>2, <2>1 DEF Informed
  <2> QED BY <2>2, <2>3
<1>5. Reported(n, [n EXCEPT ![i].reported = TRUE], i)
  <2> DEFINE r == [n[i] EXCEPT !.reported = TRUE]
  <2>1. /\ r \in AckMembers /\ r.val = n[i].val /\ r.parent = n[i].parent
        /\ r.reported = TRUE /\ r.acked = n[i].acked
    BY <1>1 DEF AckMembers
  <2>2. [n EXCEPT ![i].reported = TRUE] = [n EXCEPT ![i] = r]
    OBVIOUS
  <2> HIDE DEF r
  <2>3. Reported(n, [n EXCEPT ![i] = r], i)
    BY <1>2, <2>1 DEF Reported
  <2> QED BY <2>2, <2>3
<1> QED BY <1>3, <1>4, <1>5

\* j receives an acknowledgement from i.
LEMMA AckArrives ==
  ASSUME NEW n, NEW F, AckState(n, F), NEW i \in NetworkNodes, NEW j \in NetworkNodes,
         NEW m, Acked(n, m, j, i), NEW G, Accepting(F, G, i, j)
  PROVE  AckState(m, G)
<1> USE DEF Accepting
<1>1. /\ n[i].val = "value" /\ A!Linked(i, j) /\ A!Linked(j, i) /\ i # j
      /\ HasAck(F[i][j]) /\ ~HasBcast(F[i][j]) /\ G[i][j] = <<>>
  BY SenderHasValue, AckTaken
<1>2. /\ m \in [NetworkNodes -> AckMembers] /\ root \in NetworkNodes
      /\ \A x \in NetworkNodes :
           /\ m[x].val = n[x].val /\ m[x].parent = n[x].parent /\ m[x].reported = n[x].reported
           /\ m[x].acked = IF x = j THEN n[x].acked \cup {i} ELSE n[x].acked
  BY DEF AckState, Acked
<1>3. \A x, y \in NetworkNodes : InOrder(F[x][y]) /\ OnePlace(n, F, x, y)
  BY DEF AckState
<1>4. \A x \in NetworkNodes : Member(n, F, x)
  BY DEF AckState
<1>5. ASSUME NEW x \in NetworkNodes, NEW y \in NetworkNodes
      PROVE  InOrder(G[x][y]) /\ OnePlace(m, G, x, y)
  <2>1. InOrder(G[x][y])
    <3>1. CASE x = i /\ y = j
      BY <1>1, <3>1, NothingOnTheWay
    <3>2. CASE ~(x = i /\ y = j)
      BY <1>3, <3>2
    <3> QED BY <3>1, <3>2
  <2>2. (Asked(m, x, y) <=> Asked(n, x, y)) /\ (HeldBy(m, x, y) <=> HeldBy(n, x, y))
    BY <1>2 DEF Asked, HeldBy
  <2>3. HasBcast(G[x][y]) <=> HasBcast(F[x][y])
    BY <1>1, NothingOnTheWay
  <2>4. CASE x = j /\ y = i
    <3>1. ~HasAck(G[y][x]) /\ HasAck(F[y][x]) /\ y \in m[x].acked
      BY <1>1, <1>2, <2>4, NothingOnTheWay
    <3> QED BY <1>3, <2>1, <2>2, <2>3, <3>1 DEF OnePlace
  <2>5. CASE ~(x = j /\ y = i)
    <3>1. G[y][x] = F[y][x]
      BY <2>5
    <3>3. y \in m[x].acked <=> y \in n[x].acked
      <4>1. CASE x = j
        <5>1. m[x].acked = n[x].acked \cup {i} /\ y # i
          BY <1>2, <2>5, <4>1
        <5> QED BY <5>1
      <4>2. CASE x # j
        <5>1. m[x].acked = n[x].acked
          BY <1>2, <4>2
        <5> QED BY <5>1
      <4> QED BY <4>1, <4>2
    <3> QED BY <1>3, <2>1, <2>2, <2>3, <3>1, <3>3 DEF OnePlace
  <2> QED BY <2>4, <2>5
<1>6. ~n[j].reported
  <2>1. i \notin n[j].acked /\ Asked(n, j, i)
    BY <1>1, <1>3 DEF OnePlace
  <2> QED BY <1>1, <1>4, <2>1 DEF Member, Asked
<1>7. ASSUME NEW x \in NetworkNodes PROVE Member(m, G, x)
  <2>1. Member(n, F, x)
    BY <1>4
  <2>2. m[x].val # "value" => \A y \in NetworkNodes : G[x][y] = <<>>
    BY <1>1, <1>2, <2>1 DEF Member
  <2>3. \A y \in m[x].acked : m[y].val = "value"
    <3> SUFFICES ASSUME NEW y \in m[x].acked PROVE m[y].val = "value"
      OBVIOUS
    <3>1. n[x].acked \in SUBSET NetworkNodes
      BY DEF AckState, AckMembers
    <3>2. y \in n[x].acked \/ y = i
      <4>1. m[x].acked = IF x = j THEN n[x].acked \cup {i} ELSE n[x].acked
        BY <1>2
      <4> QED BY <4>1
    <3>3. y \in NetworkNodes /\ n[y].val = "value"
      BY <1>1, <2>1, <3>1, <3>2 DEF Member
    <3> QED BY <1>2, <3>3
  <2>4. m[x].reported => m[x].acked = n[x].acked
    BY <1>2, <1>6
  <2>5. n[x].parent # "-1" => m[n[x].parent].val = n[n[x].parent].val
    BY <1>2, <2>1 DEF Member
  <2>6. /\ m[x].val = n[x].val /\ m[x].parent = n[x].parent /\ m[x].reported = n[x].reported
    BY <1>2
  <2> QED BY <2>1, <2>2, <2>3, <2>4, <2>5, <2>6 DEF Member
<1>8. Below(Kids(root, m), m) /\ m[root].parent = "-1"
  <2>1. \A x \in NetworkNodes : m[x].parent = n[x].parent
    BY <1>2
  <2>2. Kids(root, m) = Kids(root, n) /\ Kids(root, n) \subseteq NetworkNodes
    BY <2>1 DEF Kids
  <2>3. Below(Kids(root, n), n) /\ root \in NetworkNodes /\ n[root].parent = "-1"
    BY DEF AckState
  <2>4. ASSUME NEW U \in SUBSET Kids(root, n), U # {} PROVE \E x \in U : m[x].parent \notin U
    <3>1. PICK x \in U : n[x].parent \notin U
      BY <2>3, <2>4 DEF Below
    <3> QED BY <2>1, <2>2, <3>1
  <2>5. Below(Kids(root, m), m)
    BY <2>2, <2>4 DEF Below
  <2> QED BY <2>1, <2>3, <2>5
<1> QED BY <1>2, <1>5, <1>7, <1>8 DEF AckState

\* j, which has the value, receives it from i too and acknowledges it.
LEMMA BcastAgain ==
  ASSUME NEW n, NEW F, AckState(n, F), NEW i \in NetworkNodes, NEW j \in NetworkNodes,
         n[j].val # "null", NEW G, Answering(F, G, i, j)
  PROVE  AckState(n, G)
<1> USE DEF Answering
<1>1. /\ n[i].val = "value" /\ A!Linked(i, j) /\ A!Linked(j, i) /\ i # j
      /\ F[i][j] \in Seq(AckWords) /\ InOrder(F[i][j])
  BY SenderHasValue
<1>2. /\ HasBcast(F[i][j]) /\ ~HasBcast(G[i][j]) /\ (HasAck(G[i][j]) <=> HasAck(F[i][j]))
      /\ InOrder(G[i][j])
  BY <1>1, BcastTaken
<1>3. \A x, y \in NetworkNodes : InOrder(F[x][y]) /\ OnePlace(n, F, x, y)
  BY DEF AckState
<1>4. /\ HasAck(G[j][i]) /\ (HasBcast(G[j][i]) <=> HasBcast(F[j][i])) /\ InOrder(G[j][i])
      /\ ~HasAck(F[j][i])
  <2>1. InOrder(F[j][i]) /\ ~HasAck(F[j][i]) /\ F[j][i] \in Seq(AckWords)
    BY <1>2, <1>3 DEF OnePlace, AckState
  <2>2. G[j][i] = Append(F[j][i], "ACK")
    BY <1>1
  <2> QED BY <2>1, <2>2, AckAdded
<1>5. ASSUME NEW x \in NetworkNodes, NEW y \in NetworkNodes
      PROVE  InOrder(G[x][y]) /\ OnePlace(n, G, x, y)
  <2>1. InOrder(G[x][y])
    BY <1>2, <1>3, <1>4
  <2>2. CASE x = i /\ y = j
    BY <1>2, <1>3, <1>4, <2>1, <2>2 DEF OnePlace
  <2>3. CASE ~(x = i /\ y = j)
    <3>1. HasBcast(G[x][y]) <=> HasBcast(F[x][y])
      BY <1>4, <2>3
    <3>2. HasAck(G[y][x]) <=> HasAck(F[y][x])
      BY <1>2, <2>3
    <3> QED BY <1>3, <2>1, <3>1, <3>2 DEF OnePlace
  <2> QED BY <2>2, <2>3
<1>6. ASSUME NEW x \in NetworkNodes PROVE Member(n, G, x)
  <2>1. Member(n, F, x)
    BY DEF AckState
  <2>2. n[j].val = "value"
    BY DEF AckState, AckMembers
  <2>3. n[x].val # "value" => \A y \in NetworkNodes : G[x][y] = <<>>
    BY <1>1, <2>1, <2>2 DEF Member
  <2> QED BY <2>1, <2>3 DEF Member
<1> QED BY <1>5, <1>6 DEF AckState

\* i reports, with an acknowledgement to its parent.
LEMMA AckReports ==
  ASSUME NEW n, NEW F, AckState(n, F), NEW i \in NetworkNodes, ~n[i].reported,
         \A y \in NetworkNodes : A!Linked(i, y) => y = n[i].parent \/ y \in n[i].acked,
         i = root \/ n[i].parent # "-1",
         NEW m, Reported(n, m, i),
         NEW G, Reporting(F, G, i, n[i].parent)
  PROVE  AckState(m, G)
<1> USE DEF Reporting
<1> DEFINE p == n[i].parent
<1>1. \A x, y \in NetworkNodes : InOrder(F[x][y]) /\ OnePlace(n, F, x, y)
  BY DEF AckState
<1>2. /\ m \in [NetworkNodes -> AckMembers] /\ root \in NetworkNodes /\ "-1" \notin NetworkNodes
      /\ \A x \in NetworkNodes :
           /\ m[x].val = n[x].val /\ m[x].parent = n[x].parent /\ m[x].acked = n[x].acked
           /\ m[x].reported <=> (x = i \/ n[x].reported)
  BY PartsAssumption DEF AckState, Reported
<1>3. /\ i = root => p = "-1"
      /\ i # root => p \in NetworkNodes /\ n[i].val = "value"
      /\ n[i].val = "value"
  BY DEF AckState, Member
<1> HIDE DEF p
<1>4. ASSUME i # root
      PROVE  /\ HasAck(G[i][p]) /\ (HasBcast(G[i][p]) <=> HasBcast(F[i][p])) /\ InOrder(G[i][p])
             /\ HeldBy(n, p, i)
  <2>1. p \in NetworkNodes /\ HeldBy(n, p, i)
    BY <1>3, <1>4 DEF HeldBy, p
  <2>2. ~HasAck(F[i][p]) /\ InOrder(F[i][p]) /\ F[i][p] \in Seq(AckWords)
    BY <1>1, <2>1 DEF OnePlace, AckState
  <2>3. G[i][p] = Append(F[i][p], "ACK")
    BY <1>4 DEF p
  <2> QED BY <2>1, <2>2, <2>3, AckAdded
<1>5. \A x, y \in NetworkNodes : x # i \/ y # p => G[x][y] = F[x][y]
  BY DEF p
<1>6. ASSUME NEW x \in NetworkNodes, NEW y \in NetworkNodes
      PROVE  InOrder(G[x][y]) /\ OnePlace(m, G, x, y)
  <2>1. /\ InOrder(G[x][y])
        /\ HasBcast(G[x][y]) <=> HasBcast(F[x][y])
    <3>1. CASE x = i /\ y = p
      <4>1. i # root
        BY <1>2, <1>3, <3>1
      <4> QED BY <1>4, <3>1, <4>1
    <3>2. CASE ~(x = i /\ y = p)
      BY <1>1, <1>5, <3>2
    <3> QED BY <3>1, <3>2
  <2>2. (Asked(m, x, y) <=> Asked(n, x, y)) /\ (y \in m[x].acked <=> y \in n[x].acked)
    BY <1>2 DEF Asked
  <2>3. CASE x = p /\ y = i
    <3>1. HeldBy(n, x, y) /\ ~HeldBy(m, x, y) /\ HasAck(G[y][x])
      BY <1>2, <1>3, <1>4, <2>3 DEF HeldBy
    <3> QED BY <1>1, <2>1, <2>2, <3>1 DEF OnePlace
  <2>4. CASE ~(x = p /\ y = i)
    <3>1. HeldBy(n, x, y) <=> HeldBy(m, x, y)
      BY <1>2, <2>4 DEF HeldBy, p
    <3>2. G[y][x] = F[y][x]
      BY <1>5, <2>4
    <3> QED BY <1>1, <2>1, <2>2, <3>1, <3>2 DEF OnePlace
  <2> QED BY <2>3, <2>4
<1>7. ASSUME NEW x \in NetworkNodes PROVE Member(m, G, x)
  <2>1. Member(n, F, x)
    BY DEF AckState
  <2>2. m[x].val # "value" => x # i /\ ~m[x].reported /\ \A y \in NetworkNodes : G[x][y] = <<>>
    <3> SUFFICES ASSUME m[x].val # "value"
                 PROVE  x # i /\ ~m[x].reported /\ \A y \in NetworkNodes : G[x][y] = <<>>
      OBVIOUS
    <3>1. x # i /\ n[x].val # "value"
      BY <1>2, <1>3
    <3>2. ~n[x].reported /\ \A y \in NetworkNodes : F[x][y] = <<>>
      BY <2>1, <3>1 DEF Member
    <3>3. \A y \in NetworkNodes : G[x][y] = <<>>
      BY <1>5, <3>1, <3>2
    <3>4. ~m[x].reported
      BY <1>2, <3>1, <3>2
    <3> QED BY <3>1, <3>3, <3>4
  <2>3. \A y \in m[x].acked : m[y].val = "value"
    <3> SUFFICES ASSUME NEW y \in m[x].acked PROVE m[y].val = "value"
      OBVIOUS
    <3>1. y \in NetworkNodes /\ n[y].val = "value"
      BY <1>2, <2>1 DEF Member, AckMembers
    <3> QED BY <1>2, <3>1
  <2>4. m[x].reported => \A y \in NetworkNodes : A!Linked(x, y) => y = m[x].parent \/ y \in m[x].acked
    <3>1. CASE x = i
      BY <1>2, <3>1
    <3>2. CASE x # i
      BY <1>2, <2>1, <3>2 DEF Member
    <3> QED BY <3>1, <3>2
  <2>5. n[x].parent # "-1" => m[n[x].parent].val = n[n[x].parent].val
    BY <1>2, <2>1 DEF Member
  <2> QED BY <1>2, <2>1, <2>2, <2>3, <2>4, <2>5 DEF Member
<1>8. Below(Kids(root, m), m) /\ m[root].parent = "-1"
  <2>1. \A x \in NetworkNodes : m[x].parent = n[x].parent
    BY <1>2
  <2>2. Kids(root, m) = Kids(root, n) /\ Kids(root, n) \subseteq NetworkNodes
    BY <2>1 DEF Kids
  <2>3. Below(Kids(root, n), n) /\ root \in NetworkNodes /\ n[root].parent = "-1"
    BY DEF AckState
  <2>4. ASSUME NEW U \in SUBSET Kids(root, n), U # {} PROVE \E x \in U : m[x].parent \notin U
    <3>1. PICK x \in U : n[x].parent \notin U
      BY <2>3, <2>4 DEF Below
    <3> QED BY <2>1, <2>2, <3>1
  <2>5. Below(Kids(root, m), m)
    BY <2>2, <2>4 DEF Below
  <2> QED BY <2>1, <2>3, <2>5
<1> QED BY <1>2, <1>6, <1>7, <1>8 DEF AckState

\* j receives the value from i for the first time, and passes it on.
LEMMA BcastArrives ==
  ASSUME NEW n, NEW F, AckState(n, F), NEW i \in NetworkNodes, NEW j \in NetworkNodes,
         n[j].val = "null", NEW m, Informed(n, m, j, i), NEW G, Relaying(F, G, i, j)
  PROVE  AckState(m, G)
<1> USE DEF Relaying
<1>1. /\ n[i].val = "value" /\ A!Linked(i, j) /\ A!Linked(j, i) /\ i # j
      /\ F[i][j] \in Seq(AckWords) /\ InOrder(F[i][j])
  BY SenderHasValue
<1>2. /\ HasBcast(F[i][j]) /\ ~HasBcast(G[i][j]) /\ (HasAck(G[i][j]) <=> HasAck(F[i][j]))
      /\ InOrder(G[i][j])
  BY <1>1, BcastTaken
<1>3. \A x, y \in NetworkNodes : InOrder(F[x][y]) /\ OnePlace(n, F, x, y)
  BY DEF AckState
<1>4. /\ n[j].val # "value" /\ ~n[j].reported /\ n[j].parent = "-1" /\ j # root
      /\ \A y \in NetworkNodes : F[j][y] = <<>>
  BY DEF AckState, Member
<1>5. /\ root \in NetworkNodes /\ "-1" \notin NetworkNodes /\ m \in [NetworkNodes -> AckMembers]
      /\ m[j].val = "value" /\ m[j].parent = i /\ ~m[j].reported /\ m[j].acked = n[j].acked
      /\ \A x \in NetworkNodes \ {j} : m[x] = n[x]
  BY <1>4, PartsAssumption DEF AckState, Informed
<1>6. \A y \in NetworkNodes :
        /\ ~HasBcast(F[j][y]) /\ ~HasAck(F[j][y])
        /\ InOrder(G[j][y]) /\ ~HasAck(G[j][y])
        /\ HasBcast(G[j][y]) <=> A!Linked(j, y) /\ y # i
  <2> SUFFICES ASSUME NEW y \in NetworkNodes
               PROVE  /\ ~HasBcast(F[j][y]) /\ ~HasAck(F[j][y])
                      /\ InOrder(G[j][y]) /\ ~HasAck(G[j][y])
                      /\ HasBcast(G[j][y]) <=> A!Linked(j, y) /\ y # i
    OBVIOUS
  <2>1. F[j][y] = <<>>
    BY <1>4
  <2>2. CASE A!Linked(j, y) /\ y # i
    <3>1. G[j][y] = Append(<<>>, "BCAST")
      BY <1>1, <2>1, <2>2
    <3> QED BY <2>1, <2>2, <3>1, BcastFirst, NothingOnTheWay
  <2>3. CASE ~(A!Linked(j, y) /\ y # i)
    <3>1. G[j][y] = <<>>
      BY <1>1, <2>1, <2>3
    <3> QED BY <2>1, <2>3, <3>1, NothingOnTheWay
  <2> QED BY <2>2, <2>3
<1>7. \A x, y \in NetworkNodes : HasAck(G[x][y]) <=> HasAck(F[x][y])
  <2> SUFFICES ASSUME NEW x \in NetworkNodes, NEW y \in NetworkNodes
               PROVE  HasAck(G[x][y]) <=> HasAck(F[x][y])
    OBVIOUS
  <2>1. CASE x = j
    BY <1>6, <2>1
  <2>2. CASE x = i /\ y = j
    BY <1>2, <2>2
  <2>3. CASE x # j /\ ~(x = i /\ y = j)
    BY <2>3
  <2> QED BY <2>1, <2>2, <2>3
<1>8. ASSUME NEW x \in NetworkNodes, NEW y \in NetworkNodes
      PROVE  InOrder(G[x][y]) /\ OnePlace(m, G, x, y)
  <2>1. OnePlace(n, F, x, y) /\ InOrder(F[x][y])
    BY <1>3
  <2>2. HasAck(G[y][x]) <=> HasAck(F[y][x])
    BY <1>7
  <2>3. y \in m[x].acked <=> y \in n[x].acked
    BY <1>5
  <2>4. CASE x = j
    <3>1. ~Asked(n, x, y)
      BY <1>4, <2>4 DEF Asked
    <3>2. ~HeldBy(n, x, y) /\ ~HasAck(G[y][x]) /\ y \notin m[x].acked
      BY <2>1, <2>2, <2>3, <3>1 DEF OnePlace
    <3>3. ~HeldBy(m, x, y)
      <4>1. CASE y = j
        BY <1>1, <1>5, <2>4, <4>1 DEF HeldBy
      <4>2. CASE y # j
        BY <1>5, <3>2, <4>2 DEF HeldBy
      <4> QED BY <4>1, <4>2
    <3>4. Asked(m, x, y) <=> HasBcast(G[x][y])
      BY <1>5, <1>6, <2>4 DEF Asked
    <3>5. InOrder(G[x][y])
      BY <1>6, <2>4
    <3> QED BY <3>2, <3>3, <3>4, <3>5 DEF OnePlace
  <2>5. CASE x # j /\ ~(x = i /\ y = j)
    <3>1. G[x][y] = F[x][y]
      BY <2>5
    <3>2. Asked(m, x, y) <=> Asked(n, x, y)
      BY <1>5, <2>5 DEF Asked
    <3>3. HeldBy(m, x, y) <=> HeldBy(n, x, y)
      <4>1. CASE y = j
        <5>1. x # i /\ x # "-1"
          BY <1>5, <2>5, <4>1
        <5> QED BY <1>4, <1>5, <4>1, <5>1 DEF HeldBy
      <4>2. CASE y # j
        BY <1>5, <4>2 DEF HeldBy
      <4> QED BY <4>1, <4>2
    <3> QED BY <2>1, <2>2, <2>3, <3>1, <3>2, <3>3 DEF OnePlace
  <2>6. CASE x = i /\ y = j
    <3>1. HasBcast(F[x][y]) /\ ~HasBcast(G[x][y]) /\ InOrder(G[x][y])
      BY <1>2, <2>6
    <3>2. ~HasAck(G[y][x]) /\ y \notin m[x].acked
      BY <2>1, <2>2, <2>3, <3>1 DEF OnePlace
    <3>3. HeldBy(m, x, y)
      BY <1>5, <2>6 DEF HeldBy
    <3>4. Asked(m, x, y)
      <4>1. Asked(n, x, y)
        BY <2>1, <3>1 DEF OnePlace
      <4> QED BY <1>1, <1>5, <2>6, <4>1 DEF Asked
    <3> QED BY <3>1, <3>2, <3>3, <3>4 DEF OnePlace
  <2> QED BY <2>4, <2>5, <2>6
<1>9. \A x \in NetworkNodes : n[x].val = "value" => m[x].val = "value"
  BY <1>5
<1>10. ASSUME NEW x \in NetworkNodes PROVE Member(m, G, x)
  <2>1. Member(n, F, x)
    BY DEF AckState
  <2>2. \A y \in m[x].acked : m[y].val = "value"
    <3> SUFFICES ASSUME NEW y \in m[x].acked PROVE m[y].val = "value"
      OBVIOUS
    <3>1. n[x].acked \in SUBSET NetworkNodes /\ m[x].acked = n[x].acked
      <4>1. n[x] \in AckMembers
        BY DEF AckState
      <4> QED BY <1>5, <4>1 DEF AckMembers
    <3>2. n[y].val = "value"
      BY <2>1, <3>1 DEF Member
    <3> QED BY <1>9, <3>1, <3>2
  <2>3. CASE x = j
    <3>1. m[i].val = "value"
      BY <1>1, <1>9
    <3>2. m[j].parent # "-1" /\ m[j].val = "value" /\ ~m[j].reported /\ m[j].parent = i
      BY <1>5
    <3>3. m[x].parent \in NetworkNodes /\ A!Linked(x, m[x].parent) /\ m[m[x].parent].val = "value"
      BY <1>1, <2>3, <3>1, <3>2
    <3> QED BY <2>2, <2>3, <3>2, <3>3 DEF Member
  <2>4. CASE x # j
    <3>1. m[x] = n[x]
      BY <1>5, <2>4
    <3>2. m[x].val # "value" => \A y \in NetworkNodes : G[x][y] = <<>>
      <4> SUFFICES ASSUME m[x].val # "value", NEW y \in NetworkNodes PROVE G[x][y] = <<>>
        OBVIOUS
      <4>1. x # i /\ F[x][y] = <<>>
        BY <1>1, <2>1, <3>1 DEF Member
      <4> QED BY <2>4, <4>1
    <3>3. n[x].parent # "-1" => m[n[x].parent].val = "value"
      BY <1>9, <2>1 DEF Member
    <3> QED BY <2>1, <2>2, <3>1, <3>2, <3>3 DEF Member
  <2> QED BY <2>3, <2>4
<1>11. m[root].parent = "-1" /\ Below(Kids(root, m), m)
  <2> DEFINE C == Kids(root, n)
  <2>1. Kids(root, m) = C \cup {j} /\ j \notin C
    <3>1. j \in NetworkNodes \ {root} /\ m[j].parent # "-1" /\ n[j].parent = "-1"
      BY <1>4, <1>5
    <3>2. \A x \in NetworkNodes \ {j} : m[x].parent = n[x].parent
      BY <1>5
    <3> QED BY <3>1, <3>2 DEF Kids
  <2>2. Hang(C, root, n)
    <3> SUFFICES ASSUME NEW x \in C PROVE n[x].parent \in C \cup {root}
      BY DEF Hang
    <3>1. x \in NetworkNodes /\ n[x].parent # "-1"
      BY DEF Kids
    <3>2. n[x].parent \in NetworkNodes /\ n[n[x].parent].val = "value"
      BY <3>1 DEF AckState, Member
    <3> QED BY <3>2 DEF AckState, Member, Kids
  <2>3. Below(C, n) /\ \A x \in C : m[x].parent = n[x].parent
    <3>1. C \subseteq NetworkNodes
      BY DEF Kids
    <3> QED BY <1>5, <2>1, <3>1 DEF AckState
  <2> HIDE DEF C
  <2>4. Below(C \cup {j}, m)
    <3>1. m[j].parent # j /\ j # root /\ j \notin C
      BY <1>1, <1>4, <1>5, <2>1
    <3>2. \A x \in C : m[x].parent = n[x].parent
      BY <2>3
    <3>3. Below(C, n)
      BY <2>3
    <3>4. ASSUME NEW U \in SUBSET (C \cup {j}), U # {}
          PROVE  \E x \in U : m[x].parent \notin U
      <4>1. CASE U \ {j} = {}
        BY <3>1, <3>4, <4>1
      <4>2. CASE U \ {j} # {}
        <5>1. PICK x \in U \ {j} : n[x].parent \notin U \ {j}
          BY <3>3, <4>2 DEF Below
        <5>2. x \in C /\ n[x].parent # j
          BY <2>2, <3>1, <5>1 DEF Hang
        <5> QED BY <3>2, <5>1, <5>2
      <4> QED BY <4>1, <4>2
    <3> QED BY <3>4 DEF Below
  <2>5. m[root].parent = "-1"
    <3>1. m[root] = n[root]
      BY <1>4, <1>5
    <3> QED BY <3>1 DEF AckState
  <2> QED BY <2>1, <2>4, <2>5
<1> QED BY <1>5, <1>8, <1>10, <1>11 DEF AckState

\* All that is on the way, in the channels and before them.
Flights == [i \in NetworkNodes |-> [j \in NetworkNodes |-> channel[i][j] \o send[i][j]]]

AckInv == send \in AckQueues /\ channel \in AckQueues /\ AckState(node, Flights)

LEMMA FlightsAre ==
  ASSUME send \in AckQueues, channel \in AckQueues
  PROVE  /\ Flights \in AckQueues
         /\ \A i, j \in NetworkNodes : Flights[i][j] = channel[i][j] \o send[i][j]
<1>1. \A i, j \in NetworkNodes : channel[i][j] \o send[i][j] \in Seq(AckWords)
  <2> SUFFICES ASSUME NEW i \in NetworkNodes, NEW j \in NetworkNodes
               PROVE  channel[i][j] \o send[i][j] \in Seq(AckWords)
    OBVIOUS
  <2>1. channel[i][j] \in Seq(AckWords) /\ send[i][j] \in Seq(AckWords)
    BY DEF AckQueues
  <2> QED BY <2>1, ConcatProperties
<1> QED BY <1>1 DEF Flights, AckQueues

\* The root and the links stay.
LEMMA AckStateNext ==
  ASSUME UNCHANGED <<root, weight>>, AckState(node', Flights')
  PROVE  AckState(node, Flights)'
<1>1. \A i, j : A!Linked(i, j)' <=> A!Linked(i, j)
  BY DEF A!Linked, A!Unlinked
<1>2. ASSUME NEW i, NEW j PROVE OnePlace(node', Flights', i, j) <=> OnePlace(node, Flights, i, j)'
  BY <1>1 DEF OnePlace, Asked, HeldBy, HasBcast, HasAck
<1>3. ASSUME NEW i PROVE Member(node', Flights', i) <=> Member(node, Flights, i)'
  BY <1>1 DEF Member
<1>4. Below(Kids(root, node'), node') <=> Below(Kids(root, node), node)'
  BY DEF Below, Kids
<1>5. ASSUME NEW i, NEW j PROVE InOrder(Flights'[i][j]) <=> InOrder(Flights[i][j])'
  BY DEF InOrder
<1> QED BY <1>2, <1>3, <1>4, <1>5 DEF AckState

LEMMA AckInitInv == A!AckInit => AckInv
<1> SUFFICES ASSUME A!AckInit PROVE AckInv
  OBVIOUS
<1> DEFINE n == [i \in NetworkNodes |-> [val |-> IF i = root THEN "value" ELSE "null", parent |-> "-1",
                                         reported |-> FALSE, acked |-> {}]]
<1>1. /\ root \in NetworkNodes /\ node = n
      /\ channel = [i \in NetworkNodes |-> [j \in NetworkNodes |-> <<>>]]
      /\ send = [i \in NetworkNodes |-> [j \in NetworkNodes |->
                   IF i = root /\ A!Linked(i, j) THEN <<"BCAST">> ELSE <<>>]]
  BY DEF A!AckInit, A!Topology, A!RootSends, A!Empty, A!Value, A!Null, A!Nobody, A!Bcast
<1>2. <<"BCAST">> \in Seq(AckWords) /\ <<>> \in Seq(AckWords)
  BY DEF AckWords
<1>3. send \in AckQueues /\ channel \in AckQueues
  BY <1>1, <1>2 DEF AckQueues
<1>4. \A i \in NetworkNodes :
        /\ node[i].val = IF i = root THEN "value" ELSE "null"
        /\ node[i].parent = "-1" /\ ~node[i].reported /\ node[i].acked = {}
  BY <1>1
<1>5. n \in [NetworkNodes -> AckMembers]
  BY DEF AckMembers
<1>6. \A i, j \in NetworkNodes :
        Flights[i][j] = IF i = root /\ A!Linked(i, j) THEN <<"BCAST">> ELSE <<>>
  <2> SUFFICES ASSUME NEW i \in NetworkNodes, NEW j \in NetworkNodes
               PROVE  Flights[i][j] = IF i = root /\ A!Linked(i, j) THEN <<"BCAST">> ELSE <<>>
    OBVIOUS
  <2>1. Flights[i][j] = send[i][j]
    <3>1. channel[i][j] = <<>> /\ send[i][j] \in Seq(AckWords)
      BY <1>1, <1>3 DEF AckQueues
    <3> QED BY <1>3, <3>1, FlightsAre, ConcatEmptySeq
  <2> QED BY <1>1, <2>1
<1>7. /\ InOrder(<<"BCAST">>) /\ HasBcast(<<"BCAST">>) /\ ~HasAck(<<"BCAST">>)
      /\ InOrder(<<>>) /\ ~HasBcast(<<>>) /\ ~HasAck(<<>>)
  BY DEF InOrder, HasBcast, HasAck
<1>8. \A i \in NetworkNodes : i # "-1"
  BY PartsAssumption
<1>9. \A i, j \in NetworkNodes : InOrder(Flights[i][j]) /\ OnePlace(node, Flights, i, j)
  <2> SUFFICES ASSUME NEW i \in NetworkNodes, NEW j \in NetworkNodes
               PROVE  InOrder(Flights[i][j]) /\ OnePlace(node, Flights, i, j)
    OBVIOUS
  <2>1. InOrder(Flights[i][j]) /\ ~HasAck(Flights[j][i])
        /\ (HasBcast(Flights[i][j]) <=> i = root /\ A!Linked(i, j))
    BY <1>6, <1>7
  <2>2. ~HeldBy(node, i, j) /\ j \notin node[i].acked
    BY <1>4, <1>8 DEF HeldBy
  <2>3. Asked(node, i, j) <=> i = root /\ A!Linked(i, j)
    BY <1>4, <1>8 DEF Asked
  <2> QED BY <2>1, <2>2, <2>3 DEF OnePlace
<1>10. \A i \in NetworkNodes : Member(node, Flights, i)
  BY <1>4, <1>6 DEF Member
<1>11. Below(Kids(root, node), node)
  <2>1. Kids(root, node) = {}
    BY <1>4 DEF Kids
  <2> QED BY <2>1 DEF Below
<1> QED BY <1>1, <1>3, <1>4, <1>5, <1>9, <1>10, <1>11, FlightsAre DEF AckInv, AckState, AckQueues

LEMMA AckQueued ==
  ASSUME send \in AckQueues, NEW j \in NetworkNodes, NEW to, NEW w \in AckWords,
         NEW q, q = A!Queue(j, to, w)
  PROVE  /\ q \in AckQueues
         /\ \A x, y \in NetworkNodes :
              q[x][y] = IF x = j /\ y \in to THEN Append(send[x][y], w) ELSE send[x][y]
<1> DEFINE row == [y \in NetworkNodes |-> IF y \in to THEN Append(send[j][y], w) ELSE send[j][y]]
<1>1. q = [send EXCEPT ![j] = row]
  BY DEF A!Queue
<1>2. row \in [NetworkNodes -> Seq(AckWords)]
  BY DEF AckQueues
<1>3. \A y \in NetworkNodes : row[y] = IF y \in to THEN Append(send[j][y], w) ELSE send[j][y]
  OBVIOUS
<1> HIDE DEF row
<1> QED BY <1>1, <1>2, <1>3 DEF AckQueues

LEMMA AckSendKeeps ==
  ASSUME AckInv, NEW i \in NetworkNodes, NEW j \in NetworkNodes, A!AckSend(i, j)
  PROVE  AckInv'
<1> DEFINE c == channel[i][j]
           s == send[i][j]
<1>1. /\ s # <<>> /\ send' = [send EXCEPT ![i][j] = Tail(s)]
      /\ channel' = [channel EXCEPT ![i][j] = Append(c, Head(s))]
      /\ UNCHANGED <<root, weight, node>>
  BY DEF A!AckSend, A!Send
<1>2. c \in Seq(AckWords) /\ s \in Seq(AckWords) /\ send \in AckQueues /\ channel \in AckQueues
  BY DEF AckInv, AckQueues
<1> HIDE DEF c, s
<1>3. Head(s) \in AckWords /\ Tail(s) \in Seq(AckWords)
  BY <1>1, <1>2, HeadAndTail
<1>4. Append(c, Head(s)) \in Seq(AckWords) /\ Append(c, Head(s)) \o Tail(s) = c \o s
  BY <1>1, <1>2, <1>3
<1>5. /\ send' \in AckQueues /\ send'[i][j] = Tail(s)
      /\ \A x, y \in NetworkNodes : x # i \/ y # j => send'[x][y] = send[x][y]
  BY <1>1, <1>2, <1>3, OneLink DEF AckQueues
<1>6. /\ channel' \in AckQueues /\ channel'[i][j] = Append(c, Head(s))
      /\ \A x, y \in NetworkNodes : x # i \/ y # j => channel'[x][y] = channel[x][y]
  <2> DEFINE v == Append(c, Head(s))
  <2>1. channel' = [channel EXCEPT ![i][j] = v] /\ v \in Seq(AckWords)
    BY <1>1, <1>4
  <2> HIDE DEF v
  <2>2. /\ channel' \in AckQueues /\ channel'[i][j] = v
        /\ \A x, y \in NetworkNodes : x # i \/ y # j => channel'[x][y] = channel[x][y]
    BY <1>2, <2>1, OneLink DEF AckQueues
  <2> QED BY <2>2 DEF v
<1>7. Flights' = Flights
  <2>1. \A x, y \in NetworkNodes : channel'[x][y] \o send'[x][y] = channel[x][y] \o send[x][y]
    <3> SUFFICES ASSUME NEW x \in NetworkNodes, NEW y \in NetworkNodes
                 PROVE  channel'[x][y] \o send'[x][y] = channel[x][y] \o send[x][y]
      OBVIOUS
    <3>1. CASE x = i /\ y = j
      BY <1>4, <1>5, <1>6, <3>1 DEF c, s
    <3>2. CASE x # i \/ y # j
      BY <1>5, <1>6, <3>2
    <3> QED BY <3>1, <3>2
  <2> QED BY <2>1 DEF Flights
<1>8. AckState(node', Flights')
  BY <1>1, <1>7 DEF AckInv
<1> QED BY <1>1, <1>5, <1>6, <1>8, AckStateNext DEF AckInv

\* What is queued goes behind what is on the way.
LEMMA FlightsAdd ==
  ASSUME send \in AckQueues, channel \in AckQueues, NEW w \in AckWords,
         NEW i \in NetworkNodes, NEW j \in NetworkNodes
  PROVE  channel[i][j] \o Append(send[i][j], w) = Append(Flights[i][j], w)
<1> DEFINE c == channel[i][j]
           s == send[i][j]
<1>1. c \in Seq(AckWords) /\ s \in Seq(AckWords)
  BY DEF AckQueues
<1>2. Flights[i][j] = c \o s
  BY FlightsAre
<1> HIDE DEF c, s
<1>3. c \o Append(s, w) = Append(c \o s, w)
  BY <1>1
<1> QED BY <1>2, <1>3 DEF c, s

LEMMA FlightsReceive ==
  ASSUME send \in AckQueues, channel \in AckQueues, NEW i \in NetworkNodes, NEW j \in NetworkNodes,
         channel[i][j] # <<>>, channel' = [channel EXCEPT ![i][j] = Tail(@)],
         send' \in AckQueues, send'[i][j] = send[i][j]
  PROVE  /\ channel' \in AckQueues /\ Flights' \in AckQueues
         /\ Flights[i][j] # <<>> /\ Head(Flights[i][j]) = Head(channel[i][j])
         /\ Flights'[i][j] = Tail(Flights[i][j])
         /\ \A x, y \in NetworkNodes :
              x # i \/ y # j => Flights'[x][y] = channel[x][y] \o send'[x][y]
<1> DEFINE c == channel[i][j]
           s == send[i][j]
           t == Tail(c)
<1>1. c \in Seq(AckWords) /\ s \in Seq(AckWords) /\ c # <<>>
  BY DEF AckQueues
<1>2. channel' = [channel EXCEPT ![i][j] = t] /\ send'[i][j] = s
  OBVIOUS
<1>3. Flights[i][j] = c \o s
  BY FlightsAre
<1> HIDE DEF c, s
<1>4. t \in Seq(AckWords) /\ t \o s = Tail(c \o s) /\ Head(c \o s) = Head(c) /\ c \o s # <<>>
  BY <1>1
<1> HIDE DEF t
<1>5. /\ channel' \in AckQueues /\ channel'[i][j] = t
      /\ \A x, y \in NetworkNodes : x # i \/ y # j => channel'[x][y] = channel[x][y]
  <2>1. channel' = [channel EXCEPT ![i][j] = t] /\ t \in Seq(AckWords)
    BY <1>2, <1>4
  <2>2. channel \in [NetworkNodes -> [NetworkNodes -> Seq(AckWords)]]
    BY DEF AckQueues
  <2>3. /\ channel' \in [NetworkNodes -> [NetworkNodes -> Seq(AckWords)]] /\ channel'[i][j] = t
        /\ \A x, y \in NetworkNodes : x # i \/ y # j => channel'[x][y] = channel[x][y]
    BY <2>1, <2>2, OneLink
  <2> QED BY <2>3 DEF AckQueues
<1>6. Flights' \in AckQueues /\ \A x, y \in NetworkNodes : Flights'[x][y] = channel'[x][y] \o send'[x][y]
  <2>1. \A x, y \in NetworkNodes : channel'[x][y] \o send'[x][y] \in Seq(AckWords)
    <3> SUFFICES ASSUME NEW x \in NetworkNodes, NEW y \in NetworkNodes
                 PROVE  channel'[x][y] \o send'[x][y] \in Seq(AckWords)
      OBVIOUS
    <3>1. channel'[x][y] \in Seq(AckWords) /\ send'[x][y] \in Seq(AckWords)
      BY <1>5 DEF AckQueues
    <3> QED BY <3>1, ConcatProperties
  <2> QED BY <2>1 DEF Flights, AckQueues
<1>7. ASSUME NEW x \in NetworkNodes, NEW y \in NetworkNodes, x # i \/ y # j
      PROVE  Flights'[x][y] = channel[x][y] \o send'[x][y]
  <2>1. channel'[x][y] = channel[x][y]
    BY <1>5, <1>7
  <2>2. Flights'[x][y] = channel'[x][y] \o send'[x][y]
    BY <1>6
  <2> QED BY <2>1, <2>2
<1>8. Flights'[i][j] = Tail(Flights[i][j])
  BY <1>2, <1>3, <1>4, <1>5, <1>6
<1>9. Flights[i][j] # <<>> /\ Head(Flights[i][j]) = Head(channel[i][j])
  BY <1>3, <1>4 DEF c
<1> QED BY <1>5, <1>6, <1>7, <1>8, <1>9

LEMMA AckReceiveKeeps ==
  ASSUME AckInv, NEW i \in NetworkNodes, NEW j \in NetworkNodes, A!AckReceive(i, j)
  PROVE  AckInv'
<1> DEFINE h == Head(channel[i][j])
<1>1. /\ send \in AckQueues /\ channel \in AckQueues /\ AckState(node, Flights)
      /\ node \in [NetworkNodes -> AckMembers]
  BY DEF AckInv, AckState
<1>2. /\ channel[i][j] # <<>> /\ channel' = [channel EXCEPT ![i][j] = Tail(@)]
      /\ UNCHANGED <<root, weight>>
      /\ \/ h = "ACK" /\ node' = [node EXCEPT ![j].acked = @ \cup {i}] /\ send' = send
         \/ /\ h = "BCAST" /\ node[j].val = "null"
            /\ node' = [node EXCEPT ![j] = [@ EXCEPT !.val = "value", !.parent = i]]
            /\ send' = A!Queue(j, A!Nbrs(j) \ {i}, "BCAST")
         \/ h = "BCAST" /\ node[j].val # "null" /\ node' = node /\ send' = A!Queue(j, {i}, "ACK")
  <2>1. h \in AckWords
    <3>1. channel[i][j] \in Seq(AckWords) /\ channel[i][j] # <<>>
      BY <1>1 DEF AckQueues, A!AckReceive
    <3> QED BY <3>1, HeadAndTail
  <2>2. A!AckReceive(i, j) /\ h \in {"BCAST", "ACK"}
    BY <2>1 DEF AckWords
  <2>3. CASE h = "ACK"
    BY <2>2, <2>3 DEF A!AckReceive, A!Receive, A!Bcast, A!Ack, A!Null, A!Value
  <2>4. CASE h = "BCAST" /\ node[j].val = "null"
    BY <2>2, <2>4 DEF A!AckReceive, A!Receive, A!Bcast, A!Ack, A!Null, A!Value
  <2>5. CASE h = "BCAST" /\ node[j].val # "null"
    <3>1. [node EXCEPT ![j] = node[j]] = node
      BY <1>1
    <3> QED BY <2>2, <2>5, <3>1 DEF A!AckReceive, A!Receive, A!Bcast, A!Ack, A!Null, A!Value
  <2> QED BY <2>2, <2>3, <2>4, <2>5
<1>3. Flights[i][j] # <<>>
  <2> DEFINE c == channel[i][j]
             s == send[i][j]
  <2>1. c \in Seq(AckWords) /\ s \in Seq(AckWords) /\ c # <<>>
    BY <1>1, <1>2 DEF AckQueues
  <2>2. Flights[i][j] = c \o s
    BY <1>1, FlightsAre
  <2> HIDE DEF c, s
  <2> QED BY <2>1, <2>2
<1>4. i # j
  BY <1>1, <1>3, SenderHasValue
<1>5. \A x, y \in NetworkNodes : Flights[x][y] = channel[x][y] \o send[x][y]
  BY <1>1, FlightsAre
<1> HIDE DEF h
<1>6. CASE h = "ACK" /\ node' = [node EXCEPT ![j].acked = @ \cup {i}] /\ send' = send
  <2>1. /\ channel' \in AckQueues /\ Flights' \in AckQueues
        /\ Flights[i][j] # <<>> /\ Head(Flights[i][j]) = Head(channel[i][j])
        /\ Flights'[i][j] = Tail(Flights[i][j])
        /\ \A x, y \in NetworkNodes : x # i \/ y # j => Flights'[x][y] = channel[x][y] \o send'[x][y]
    <3>1. send' \in AckQueues /\ send'[i][j] = send[i][j]
      BY <1>1, <1>6
    <3> QED BY <1>1, <1>2, <3>1, FlightsReceive
  <2>2. \A x, y \in NetworkNodes : x # i \/ y # j => Flights'[x][y] = Flights[x][y]
    <3> SUFFICES ASSUME NEW x \in NetworkNodes, NEW y \in NetworkNodes, x # i \/ y # j
                 PROVE  Flights'[x][y] = Flights[x][y]
      OBVIOUS
    <3>1. Flights'[x][y] = channel[x][y] \o send[x][y]
      BY <1>6, <2>1
    <3> QED BY <1>5, <3>1
  <2>3. Head(Flights[i][j]) # "BCAST"
    BY <1>6, <2>1 DEF h
  <2>4. AckState(node', Flights')
    <3>1. Acked(node, node', j, i)
      BY <1>1, <1>6, AckChanges
    <3>2. Accepting(Flights, Flights', i, j)
      BY <2>1, <2>2, <2>3 DEF Accepting, AckQueues
    <3> QED BY <1>1, <3>1, <3>2, AckArrives
  <2> QED BY <1>1, <1>2, <1>6, <2>1, <2>4, AckStateNext DEF AckInv
<1>7. CASE /\ h = "BCAST" /\ node[j].val = "null"
           /\ node' = [node EXCEPT ![j] = [@ EXCEPT !.val = "value", !.parent = i]]
           /\ send' = A!Queue(j, A!Nbrs(j) \ {i}, "BCAST")
  <2> DEFINE to == A!Nbrs(j) \ {i}
  <2>1. /\ send' \in AckQueues
        /\ \A x, y \in NetworkNodes :
             send'[x][y] = IF x = j /\ y \in to THEN Append(send[x][y], "BCAST") ELSE send[x][y]
    <3>1. send' = A!Queue(j, to, "BCAST") /\ "BCAST" \in AckWords
      BY <1>7 DEF AckWords
    <3> HIDE DEF to
    <3> QED BY <1>1, <3>1, AckQueued
  <2>2. \A y \in NetworkNodes : y \in to <=> A!Linked(j, y) /\ y # i
    BY DEF A!Nbrs
  <2> HIDE DEF to
  <2>3. send'[i][j] = send[i][j]
    BY <1>4, <2>1
  <2>4. /\ channel' \in AckQueues /\ Flights' \in AckQueues
        /\ Flights[i][j] # <<>> /\ Head(Flights[i][j]) = Head(channel[i][j])
        /\ Flights'[i][j] = Tail(Flights[i][j])
        /\ \A x, y \in NetworkNodes : x # i \/ y # j => Flights'[x][y] = channel[x][y] \o send'[x][y]
    BY <1>1, <1>2, <2>1, <2>3, FlightsReceive
  <2>5. \A x, y \in NetworkNodes :
          (x # i \/ y # j) /\ (x # j \/ ~A!Linked(j, y) \/ y = i) => Flights'[x][y] = Flights[x][y]
    <3> SUFFICES ASSUME NEW x \in NetworkNodes, NEW y \in NetworkNodes,
                        x # i \/ y # j, x # j \/ ~A!Linked(j, y) \/ y = i
                 PROVE  Flights'[x][y] = Flights[x][y]
      OBVIOUS
    <3>1. Flights'[x][y] = channel[x][y] \o send'[x][y]
      BY <2>4
    <3>2. send'[x][y] = send[x][y]
      BY <2>1, <2>2
    <3> QED BY <1>5, <3>1, <3>2
  <2>6. \A y \in NetworkNodes :
          i # j /\ A!Linked(j, y) /\ y # i => Flights'[j][y] = Append(Flights[j][y], "BCAST")
    <3> SUFFICES ASSUME NEW y \in NetworkNodes, i # j, A!Linked(j, y), y # i
                 PROVE  Flights'[j][y] = Append(Flights[j][y], "BCAST")
      OBVIOUS
    <3>1. Flights'[j][y] = channel[j][y] \o Append(send[j][y], "BCAST")
      <4>1. Flights'[j][y] = channel[j][y] \o send'[j][y]
        BY <2>4
      <4>2. send'[j][y] = Append(send[j][y], "BCAST")
        BY <2>1, <2>2
      <4> QED BY <4>1, <4>2
    <3> QED BY <1>1, <3>1, FlightsAdd DEF AckWords
  <2>7. Head(Flights[i][j]) = "BCAST" /\ node[j].val = "null"
    BY <1>7, <2>4 DEF h
  <2>8. AckState(node', Flights')
    <3>1. Informed(node, node', j, i)
      BY <1>1, <1>7, AckChanges
    <3>2. Relaying(Flights, Flights', i, j)
      BY <2>4, <2>5, <2>6, <2>7 DEF Relaying, AckQueues
    <3> QED BY <1>1, <2>7, <3>1, <3>2, BcastArrives
  <2> QED BY <1>1, <1>2, <2>1, <2>4, <2>8, AckStateNext DEF AckInv
<1>8. CASE h = "BCAST" /\ node[j].val # "null" /\ node' = node /\ send' = A!Queue(j, {i}, "ACK")
  <2>1. /\ send' \in AckQueues
        /\ \A x, y \in NetworkNodes :
             send'[x][y] = IF x = j /\ y \in {i} THEN Append(send[x][y], "ACK") ELSE send[x][y]
    <3> DEFINE to == {i}
    <3>1. send' = A!Queue(j, to, "ACK") /\ "ACK" \in AckWords
      BY <1>8 DEF AckWords
    <3> HIDE DEF to
    <3>2. /\ send' \in AckQueues
          /\ \A x, y \in NetworkNodes :
               send'[x][y] = IF x = j /\ y \in to THEN Append(send[x][y], "ACK") ELSE send[x][y]
      BY <1>1, <3>1, AckQueued
    <3> QED BY <3>2 DEF to
  <2>2. send'[i][j] = send[i][j]
    BY <1>4, <2>1
  <2>3. /\ channel' \in AckQueues /\ Flights' \in AckQueues
        /\ Flights[i][j] # <<>> /\ Head(Flights[i][j]) = Head(channel[i][j])
        /\ Flights'[i][j] = Tail(Flights[i][j])
        /\ \A x, y \in NetworkNodes : x # i \/ y # j => Flights'[x][y] = channel[x][y] \o send'[x][y]
    BY <1>1, <1>2, <2>1, <2>2, FlightsReceive
  <2>4. \A x, y \in NetworkNodes :
          (x # i \/ y # j) /\ (x # j \/ y # i) => Flights'[x][y] = Flights[x][y]
    <3> SUFFICES ASSUME NEW x \in NetworkNodes, NEW y \in NetworkNodes,
                        x # i \/ y # j, x # j \/ y # i
                 PROVE  Flights'[x][y] = Flights[x][y]
      OBVIOUS
    <3>1. Flights'[x][y] = channel[x][y] \o send'[x][y]
      BY <2>3
    <3>2. send'[x][y] = send[x][y]
      BY <2>1
    <3> QED BY <1>5, <3>1, <3>2
  <2>5. Flights'[j][i] = Append(Flights[j][i], "ACK")
    <3>1. Flights'[j][i] = channel[j][i] \o Append(send[j][i], "ACK")
      BY <1>4, <2>1, <2>3
    <3> QED BY <1>1, <3>1, FlightsAdd DEF AckWords
  <2>6. Head(Flights[i][j]) = "BCAST" /\ node[j].val # "null"
    BY <1>8, <2>3 DEF h
  <2>7. AckState(node, Flights')
    <3>1. Answering(Flights, Flights', i, j)
      BY <2>3, <2>4, <2>5, <2>6 DEF Answering, AckQueues
    <3> QED BY <1>1, <2>6, <3>1, BcastAgain
  <2> QED BY <1>1, <1>2, <1>8, <2>1, <2>3, <2>7, AckStateNext DEF AckInv
<1> QED BY <1>2, <1>6, <1>7, <1>8

LEMMA AllHaveAcked ==
  ASSUME AckInv, NEW i \in NetworkNodes, A!AllAcked(i)
  PROVE  /\ \A y \in NetworkNodes : A!Linked(i, y) => y = node[i].parent \/ y \in node[i].acked
         /\ i = root \/ node[i].parent # "-1"
<1> DEFINE a == node[i].acked
           p == node[i].parent
           nb == A!Nbrs(i)
<1>1. AckState(node, Flights) /\ node[i] \in AckMembers /\ Member(node, Flights, i)
  BY DEF AckInv, AckState
<1>2. a \subseteq nb
  <2> SUFFICES ASSUME NEW y \in a PROVE y \in nb
    OBVIOUS
  <2>1. y \in NetworkNodes
    BY <1>1 DEF AckMembers
  <2>2. Asked(node, i, y)
    BY <1>1, <2>1 DEF AckState, OnePlace
  <2> QED BY <2>1, <2>2 DEF Asked, A!Nbrs
<1>3. IsFiniteSet(nb) /\ IsFiniteSet(a) /\ nb \subseteq NetworkNodes
  <2>1. nb \subseteq NetworkNodes
    BY DEF A!Nbrs
  <2> QED BY <1>2, <2>1, PartsAssumption, FS_Subset
<1>4. A!Cardinality(nb) = Cardinality(nb) /\ A!Cardinality(a) = Cardinality(a)
  <2> HIDE DEF nb, a
  <2> QED BY DEF A!Cardinality, Cardinality
<1>5. Cardinality(nb) \in Nat /\ Cardinality(a) \in Nat
  BY <1>3, FS_CardinalityType
<1>6. CASE i = root
  <2>1. Cardinality(a) = Cardinality(nb)
    BY <1>4, <1>6 DEF A!AllAcked
  <2> HIDE DEF a, nb
  <2>2. a = nb
    BY <1>2, <1>3, <2>1, FS_Subset
  <2> QED BY <1>6, <2>2 DEF a, nb, A!Nbrs
<1>7. CASE i # root
  <2>1. p # "-1" /\ Cardinality(nb) - Cardinality(a) = 1 /\ p \notin a
    BY <1>4, <1>7 DEF A!AllAcked, A!Nobody
  <2>2. p \in nb
    BY <1>1, <2>1 DEF Member, A!Nbrs
  <2> HIDE DEF a, nb, p
  <2>3. Cardinality(a \cup {p}) = Cardinality(a) + 1 /\ IsFiniteSet(a \cup {p})
    BY <1>3, <2>1, FS_AddElement
  <2>4. Cardinality(a \cup {p}) = Cardinality(nb)
    BY <1>5, <2>1, <2>3
  <2>5. a \cup {p} = nb
    BY <1>2, <1>3, <2>2, <2>4, FS_Subset
  <2> QED BY <2>1, <2>5 DEF a, nb, p, A!Nbrs
<1> QED BY <1>6, <1>7

LEMMA AckReportKeeps ==
  ASSUME AckInv, NEW i \in NetworkNodes, A!Report(i)
  PROVE  AckInv'
<1> DEFINE p == node[i].parent
<1>1. /\ send \in AckQueues /\ channel \in AckQueues /\ AckState(node, Flights)
      /\ Flights \in AckQueues
  BY FlightsAre DEF AckInv
<1>2. /\ A!AllAcked(i) /\ ~node[i].reported /\ node' = [node EXCEPT ![i].reported = TRUE]
      /\ i = root => send' = send
      /\ i # root => send' = A!Queue(i, {p}, "ACK")
      /\ UNCHANGED <<root, weight, channel>>
  BY DEF A!Report, A!Ack
<1>3. /\ \A y \in NetworkNodes : A!Linked(i, y) => y = p \/ y \in node[i].acked
      /\ i = root \/ p # "-1"
  BY <1>2, AllHaveAcked
<1>4. i # root => p \in NetworkNodes
  BY <1>1, <1>3 DEF AckState, Member
<1>5. \A x, y \in NetworkNodes : Flights[x][y] = channel[x][y] \o send[x][y]
  BY <1>1, FlightsAre
<1>6. /\ send' \in AckQueues
      /\ \A x, y \in NetworkNodes :
           send'[x][y] = IF i # root /\ x = i /\ y = p THEN Append(send[x][y], "ACK") ELSE send[x][y]
  <2>1. CASE i = root
    BY <1>1, <1>2, <2>1
  <2>2. CASE i # root
    <3> DEFINE to == {p}
    <3>1. send' = A!Queue(i, to, "ACK") /\ "ACK" \in AckWords
      BY <1>2, <2>2 DEF AckWords
    <3> HIDE DEF to
    <3>2. /\ send' \in AckQueues
          /\ \A x, y \in NetworkNodes :
               send'[x][y] = IF x = i /\ y \in to THEN Append(send[x][y], "ACK") ELSE send[x][y]
      BY <1>1, <3>1, AckQueued
    <3> QED BY <2>2, <3>2 DEF to
  <2> QED BY <2>1, <2>2
<1> HIDE DEF p
<1>7. Flights' \in AckQueues /\ \A x, y \in NetworkNodes : Flights'[x][y] = channel[x][y] \o send'[x][y]
  <2>1. \A x, y \in NetworkNodes : channel[x][y] \o send'[x][y] \in Seq(AckWords)
    <3> SUFFICES ASSUME NEW x \in NetworkNodes, NEW y \in NetworkNodes
                 PROVE  channel[x][y] \o send'[x][y] \in Seq(AckWords)
      OBVIOUS
    <3>1. channel[x][y] \in Seq(AckWords) /\ send'[x][y] \in Seq(AckWords)
      BY <1>1, <1>6 DEF AckQueues
    <3> QED BY <3>1, ConcatProperties
  <2> QED BY <1>2, <2>1 DEF Flights, AckQueues
<1>8. i # root => Flights'[i][p] = Append(Flights[i][p], "ACK")
  <2> SUFFICES ASSUME i # root PROVE Flights'[i][p] = Append(Flights[i][p], "ACK")
    OBVIOUS
  <2>1. p \in NetworkNodes
    BY <1>4
  <2>2. Flights'[i][p] = channel[i][p] \o send'[i][p]
    BY <1>7, <2>1
  <2>3. send'[i][p] = Append(send[i][p], "ACK")
    BY <1>6, <2>1
  <2>4. channel[i][p] \o Append(send[i][p], "ACK") = Append(Flights[i][p], "ACK")
    BY <1>1, <2>1, FlightsAdd DEF AckWords
  <2> QED BY <2>2, <2>3, <2>4
<1>9. \A x, y \in NetworkNodes : x # i \/ y # p => Flights'[x][y] = Flights[x][y]
  <2> SUFFICES ASSUME NEW x \in NetworkNodes, NEW y \in NetworkNodes, x # i \/ y # p
               PROVE  Flights'[x][y] = Flights[x][y]
    OBVIOUS
  <2>1. Flights'[x][y] = channel[x][y] \o send'[x][y]
    BY <1>7
  <2>2. send'[x][y] = send[x][y]
    BY <1>6
  <2> QED BY <1>5, <2>1, <2>2
<1>10. AckState(node', Flights')
  <2>1. Reported(node, node', i)
    BY <1>1, <1>2, AckChanges DEF AckState
  <2>2. Reporting(Flights, Flights', i, p)
    BY <1>7, <1>8, <1>9 DEF Reporting, AckQueues
  <2> QED BY <1>1, <1>2, <1>3, <2>1, <2>2, AckReports DEF p
<1> QED BY <1>1, <1>2, <1>6, <1>10, AckStateNext DEF AckInv

LEMMA AckNextInv == AckInv /\ A!AckSteps => AckInv'
BY AckSendKeeps, AckReceiveKeeps, AckReportKeeps DEF A!AckSteps

LEMMA AckRooted == AckInv => A!Rooted
<1> SUFFICES ASSUME AckInv PROVE A!Rooted
  OBVIOUS
<1>1. AckState(node, Flights) /\ root \in NetworkNodes /\ node[root].parent = "-1"
  BY DEF AckInv, AckState
<1>2. \A i \in Kids(root, node) : node[i].parent \in A!Nbrs(i) \cap (Kids(root, node) \cup {root})
  <2> SUFFICES ASSUME NEW i \in Kids(root, node)
               PROVE  node[i].parent \in A!Nbrs(i) \cap (Kids(root, node) \cup {root})
    OBVIOUS
  <2> DEFINE p == node[i].parent
  <2>1. i \in NetworkNodes /\ p # "-1"
    BY DEF Kids
  <2>2. p \in NetworkNodes /\ A!Linked(i, p) /\ node[p].val = "value"
    BY <1>1, <2>1 DEF AckState, Member
  <2>3. p = root \/ node[p].parent # "-1"
    BY <1>1, <2>2 DEF AckState, Member
  <2> QED BY <2>2, <2>3 DEF Kids, A!Nbrs
<1>3. Below(Kids(root, node), node)
  BY <1>1 DEF AckState
<1> QED BY <1>1, <1>2, <1>3 DEF A!Rooted, A!Nobody, Kids, Below

\* A set that holds the root, and the neighbours of its members, holds all the root reaches.
LEMMA AckReached ==
  ASSUME root \in NetworkNodes, NEW U, root \in U, \A i \in U : A!Nbrs(i) \subseteq U
  PROVE  A!Reached \subseteq U
<1> DEFINE n == Cardinality(NetworkNodes)
           Next1(s) == s \cup UNION {A!Nbrs(i) : i \in s}
           F == [s \in SUBSET NetworkNodes |-> Next1(s)]
           Steps(h) == h = [k \in 0..n |-> IF k = 0 THEN {root} ELSE h[k - 1] \cup UNION {A!Nbrs(i) : i \in h[k - 1]}]
           g == CHOOSE h : Steps(h)
<1>1. F \in [SUBSET NetworkNodes -> SUBSET NetworkNodes] /\ {root} \in SUBSET NetworkNodes
  BY DEF A!Nbrs
<1>2. n \in Nat /\ A!Cardinality(NetworkNodes) = n
  BY NetworkSize
<1>3. A!Reached = g[n]
  BY <1>2 DEF A!Reached
<1> HIDE DEF n, F
<1>4. PICK f : f \in [0..n -> SUBSET NetworkNodes] /\ f[0] = {root} /\ \A k \in 1..n : f[k] = F[f[k - 1]]
  <2> DEFINE X == SUBSET NetworkNodes
             x == {root}
  <2>1. F \in [X -> X] /\ x \in X
    BY <1>1
  <2> HIDE DEF X, x
  <2>2. PICK f : Iterates(f, n, X, x, F)
    BY <1>2, <2>1, Iteration
  <2> QED BY <2>2 DEF X, x, Iterates
<1>5. Steps(f)
  <2>1. ASSUME NEW k \in 0..n, k # 0 PROVE f[k] = Next1(f[k - 1])
    <3>1. k \in 1..n /\ k - 1 \in 0..n
      BY <1>2, <2>1
    <3>2. f[k] = F[f[k - 1]] /\ f[k - 1] \in SUBSET NetworkNodes
      BY <1>4, <3>1
    <3> QED BY <3>2 DEF F
  <2>2. \A k \in 0..n : f[k] = IF k = 0 THEN {root} ELSE Next1(f[k - 1])
    BY <1>4, <2>1
  <2> HIDE DEF Next1
  <2>3. f = [k \in 0..n |-> IF k = 0 THEN {root} ELSE Next1(f[k - 1])]
    BY <1>4, <2>2
  <2> QED BY <2>3 DEF Next1
<1>6. Steps(g)
  BY <1>5
<1> HIDE DEF g
<1>7. g[0] = {root} /\ \A k \in 1..n : g[k] = Next1(g[k - 1])
  <2> HIDE DEF Next1
  <2>1. g = [k \in 0..n |-> IF k = 0 THEN {root} ELSE Next1(g[k - 1])]
    BY <1>6 DEF Next1
  <2>2. 0 \in 0..n /\ \A k \in 1..n : k \in 0..n /\ k # 0
    BY <1>2
  <2>3. g[0] = {root}
    BY <2>1, <2>2
  <2> QED BY <2>1, <2>2, <2>3
<1>8. 0..n \subseteq {k \in 0..n : g[k] \subseteq U}
  <2> DEFINE Q == {k \in 0..n : g[k] \subseteq U}
  <2>1. 0 \in Q
    BY <1>2, <1>7
  <2>2. ASSUME NEW k \in 1..n, k - 1 \in Q PROVE k \in Q
    BY <1>7, <2>2
  <2> HIDE DEF Q
  <2>3. 0..n \subseteq Q
    BY <1>2, <2>1, <2>2, CountUp
  <2> QED BY <2>3 DEF Q
<1> QED BY <1>2, <1>3, <1>8

\* The automata that have the value and have not reported cannot all have their parents
\* among them: one's parent has reported, and it had the one's acknowledgement.
LEMMA AckRootLast == AckInv => A!RootReportsLast
<1> SUFFICES ASSUME AckInv, node[root].reported
             PROVE  /\ \A i \in A!Reached : node[i].reported /\ node[i].val = "value"
                    /\ \A i, j \in NetworkNodes : send[i][j] = <<>> /\ channel[i][j] = <<>>
  BY DEF A!RootReportsLast, A!Value
<1> DEFINE Valued == {i \in NetworkNodes : node[i].val = "value"}
           U == {i \in Valued : ~node[i].reported}
<1>1. /\ AckState(node, Flights) /\ root \in NetworkNodes /\ node[root].parent = "-1"
      /\ \A i \in NetworkNodes : Member(node, Flights, i)
      /\ \A i, j \in NetworkNodes : InOrder(Flights[i][j]) /\ OnePlace(node, Flights, i, j)
  BY DEF AckInv, AckState
<1>2. \A i \in NetworkNodes, j \in NetworkNodes :
        node[i].reported /\ A!Linked(i, j) /\ j # node[i].parent => j \in node[i].acked
  BY <1>1 DEF Member
<1>3. U = {}
  <2> SUFFICES ASSUME U # {} PROVE FALSE
    OBVIOUS
  <2>1. U \in SUBSET Kids(root, node)
    BY <1>1 DEF Kids, Member
  <2> HIDE DEF U
  <2>2. PICK i \in U : node[i].parent \notin U
    BY <1>1, <2>1 DEF AckState, Below
  <2> DEFINE p == node[i].parent
  <2>3. i \in NetworkNodes /\ node[i].val = "value" /\ ~node[i].reported /\ p # "-1"
    BY <2>1 DEF U, Kids
  <2>4. p \in NetworkNodes /\ A!Linked(i, p) /\ node[p].val = "value"
    BY <1>1, <2>3 DEF Member
  <2>5. node[p].reported
    BY <2>2, <2>4 DEF U
  <2>6. HeldBy(node, p, i)
    BY <2>3 DEF HeldBy
  <2> HIDE DEF p
  <2>7. Asked(node, p, i) /\ i \notin node[p].acked
    BY <1>1, <2>3, <2>4, <2>6 DEF OnePlace
  <2> QED BY <1>2, <2>3, <2>4, <2>5, <2>7 DEF Asked
<1>4. \A i \in Valued : node[i].reported
  BY <1>3
<1>5. \A i \in Valued : A!Nbrs(i) \subseteq Valued
  <2> SUFFICES ASSUME NEW i \in Valued, NEW j \in A!Nbrs(i) PROVE node[j].val = "value" /\ j \in NetworkNodes
    OBVIOUS
  <2>1. j \in NetworkNodes /\ A!Linked(i, j) /\ node[i].reported /\ i \in NetworkNodes
    BY <1>4 DEF A!Nbrs
  <2>2. CASE j = node[i].parent
    <3>1. j # "-1"
      BY <2>1, PartsAssumption
    <3> QED BY <1>1, <2>1, <2>2, <3>1 DEF Member
  <2>3. CASE j # node[i].parent
    <3>1. j \in node[i].acked
      BY <1>2, <2>1, <2>3
    <3> QED BY <1>1, <2>1, <3>1 DEF Member
  <2> QED BY <2>2, <2>3
<1>6. root \in Valued
  BY <1>1 DEF Member
<1>7. A!Reached \subseteq Valued
  <2> HIDE DEF Valued
  <2> QED BY <1>1, <1>5, <1>6, AckReached
<1>8. ASSUME NEW i \in NetworkNodes, NEW j \in NetworkNodes, Flights[i][j] # <<>> PROVE FALSE
  <2>1. /\ node[i].val = "value" /\ A!Linked(i, j) /\ A!Linked(j, i)
        /\ Flights[i][j] \in Seq(AckWords) /\ InOrder(Flights[i][j])
    BY <1>1, <1>8, SenderHasValue
  <2>2. i \in Valued /\ j \in Valued
    BY <1>5, <2>1 DEF A!Nbrs
  <2>3. CASE HasBcast(Flights[i][j])
    <3>1. Asked(node, i, j) /\ j \notin node[i].acked
      BY <1>1, <2>3 DEF OnePlace
    <3> QED BY <1>2, <1>4, <2>1, <2>2, <3>1 DEF Asked
  <2>4. CASE HasAck(Flights[i][j])
    <3>1. Asked(node, j, i) /\ i \notin node[j].acked
      BY <1>1, <2>4 DEF OnePlace
    <3> QED BY <1>2, <1>4, <2>1, <2>2, <3>1 DEF Asked
  <2> QED BY <1>8, <2>1, <2>3, <2>4, NothingOnTheWay
<1>9. ASSUME NEW i \in NetworkNodes, NEW j \in NetworkNodes
      PROVE  send[i][j] = <<>> /\ channel[i][j] = <<>>
  <2> DEFINE c == channel[i][j]
             s == send[i][j]
  <2>1. c \in Seq(AckWords) /\ s \in Seq(AckWords)
    BY DEF AckInv, AckQueues
  <2>2. c \o s = <<>>
    <3>1. Flights[i][j] = c \o s
      BY FlightsAre DEF AckInv
    <3> QED BY <1>8, <3>1
  <2> HIDE DEF c, s
  <2>3. s = <<>> /\ c = <<>>
    BY <2>1, <2>2, ConcatEqualIffEmpty
  <2> QED BY <2>3 DEF c, s
<1> QED BY <1>4, <1>7, <1>9
-----------------------------------------------------------------------------
(* LcrRing. *)

\* The automata of the ring that come after o, up to i.
Between(o, i) == {k \in L!Nodes : IF o <= i THEN o < k /\ k <= i ELSE o < k \/ k <= i}

\* o's identifier beats theirs.
Beats(n, o, i) == \A k \in Between(o, i) : n[k].u < n[o].u

\* o's identifier beats all others.
BeatsAll(n, o) == \A k \in L!Nodes \ {o} : n[k].u < n[o].u

\* v, which is at i, has come past weaker automata only.
Rightful(n, v, i) == \E o \in L!Nodes : v = n[o].u /\ Beats(n, o, i)

QueueRightful(n, q, i) == \A p \in 1..Len(q) : Rightful(n, q[p], i)

LcrMembers == [u : 1..LcrSize, send : Seq(1..LcrSize), report : BOOLEAN, leader : BOOLEAN]

LcrInv ==
  /\ node \in [L!Nodes -> LcrMembers]
  /\ channel \in [L!Nodes -> Seq(1..LcrSize)]
  /\ inits \in 0..1 /\ elected \subseteq L!Nodes
  /\ \A i, j \in L!Nodes : node[i].u = node[j].u => i = j
  /\ \A i \in L!Nodes :
       /\ QueueRightful(node, node[i].send, i)
       /\ QueueRightful(node, channel[i], i)
       /\ node[i].leader => BeatsAll(node, i)
  /\ \A i \in elected : BeatsAll(node, i)

LEMMA NextMeans ==
  ASSUME NEW i \in L!Nodes
  PROVE  /\ L!Next(i) \in L!Nodes
         /\ \A o \in L!Nodes : o # L!Next(i) => Between(o, L!Next(i)) = Between(o, i) \cup {L!Next(i)}
         /\ Between(L!Next(i), i) = L!Nodes \ {L!Next(i)}
<1>1. LcrSize \in Nat /\ LcrSize > 0 /\ i \in Nat /\ i <= LcrSize - 1
  BY PartsAssumption DEF L!Nodes
<1>2. L!Next(i) = IF i = LcrSize - 1 THEN 0 ELSE i + 1
  <2>1. CASE i = LcrSize - 1
    BY <1>1, <2>1 DEF L!Next
  <2>2. CASE i # LcrSize - 1
    <3> DEFINE x == i + 1
    <3>1. x \in 0..(LcrSize - 1)
      BY <1>1, <2>2
    <3>2. x % LcrSize = x
      <4> HIDE DEF x
      <4> QED BY <1>1, <3>1
    <3> QED BY <2>2, <3>2 DEF L!Next
  <2> QED BY <2>1, <2>2
<1>3. L!Next(i) \in L!Nodes
  BY <1>1, <1>2 DEF L!Nodes
<1>4. ASSUME NEW o \in L!Nodes, o # L!Next(i)
      PROVE  Between(o, L!Next(i)) = Between(o, i) \cup {L!Next(i)}
  BY <1>1, <1>2, <1>3, <1>4 DEF Between, L!Nodes
<1>5. Between(L!Next(i), i) = L!Nodes \ {L!Next(i)}
  BY <1>1, <1>2, <1>3 DEF Between, L!Nodes
<1> QED BY <1>3, <1>4, <1>5

\* What is rightful at i stays so when it comes to a weaker automaton.
LEMMA RightfulNext ==
  ASSUME NEW n, NEW i \in L!Nodes, NEW v, Rightful(n, v, i), v > n[L!Next(i)].u
  PROVE  Rightful(n, v, L!Next(i))
<1> DEFINE j == L!Next(i)
<1>1. j \in L!Nodes
  BY NextMeans
<1>2. PICK o \in L!Nodes : v = n[o].u /\ Beats(n, o, i)
  BY DEF Rightful
<1>3. CASE o = j
  <2>1. Between(j, j) = {}
    <3> HIDE DEF j
    <3> QED BY <1>1, PartsAssumption DEF Between, L!Nodes
  <2> HIDE DEF j
  <2> QED BY <1>1, <1>2, <1>3, <2>1 DEF Rightful, Beats, j
<1>4. CASE o # j
  <2>1. Between(o, j) = Between(o, i) \cup {j}
    BY <1>4, NextMeans
  <2>2. n[j].u < n[o].u
    BY <1>2
  <2> HIDE DEF j
  <2>3. Beats(n, o, j)
    BY <1>2, <2>1, <2>2 DEF Beats
  <2> QED BY <1>2, <2>3 DEF Rightful, j
<1> QED BY <1>3, <1>4

\* The identifiers stay, and what is rightful with them.
LEMMA SameIdentifiers ==
  ASSUME NEW n, NEW m, \A k \in L!Nodes : m[k].u = n[k].u
  PROVE  /\ \A v, i : Rightful(m, v, i) <=> Rightful(n, v, i)
         /\ \A i \in L!Nodes : BeatsAll(m, i) <=> BeatsAll(n, i)
<1>1. ASSUME NEW o \in L!Nodes, NEW i PROVE Beats(m, o, i) <=> Beats(n, o, i)
  BY DEF Beats, Between
<1> QED BY <1>1 DEF Rightful, BeatsAll

\* The one that beats all has the greatest identifier there is.
LEMMA BestIsStrongest ==
  ASSUME LcrInv, NEW i \in L!Nodes, BeatsAll(node, i)
  PROVE  L!Strongest = {i}
<1> DEFINE f == [k \in L!Nodes |-> node[k].u]
<1>1. LcrSize \in Nat /\ LcrSize > 0
  BY PartsAssumption
<1>2. \A k \in L!Nodes : node[k].u \in 1..LcrSize
  BY DEF LcrInv, LcrMembers
<1>3. \E k \in L!Nodes : node[k].u = LcrSize
  <2> SUFFICES ASSUME \A k \in L!Nodes : node[k].u # LcrSize PROVE FALSE
    OBVIOUS
  <2>1. IsFiniteSet(L!Nodes) /\ Cardinality(L!Nodes) = LcrSize
    BY <1>1, FS_Interval DEF L!Nodes
  <2>2. IsFiniteSet(1..(LcrSize - 1)) /\ Cardinality(1..(LcrSize - 1)) = LcrSize - 1
    BY <1>1, FS_Interval
  <2>3. f \in [L!Nodes -> 1..(LcrSize - 1)]
    BY <1>1, <1>2
  <2> DEFINE D == 1..(LcrSize - 1)
             E == L!Nodes
  <2>4. Cardinality(D) < Cardinality(E) /\ IsFiniteSet(D) /\ IsFiniteSet(E) /\ f \in [E -> D]
    BY <1>1, <2>1, <2>2, <2>3
  <2> HIDE DEF D, E, f
  <2>5. \E x, y \in E : x # y /\ f[x] = f[y]
    BY <2>4, FS_PigeonHole
  <2>6. \E x, y \in L!Nodes : x # y /\ node[x].u = node[y].u
    BY <2>5 DEF E, f
  <2> QED BY <2>6 DEF LcrInv
<1>4. PICK k \in L!Nodes : node[k].u = LcrSize
  BY <1>3
<1>5. k = i
  <2> SUFFICES ASSUME k # i PROVE FALSE
    OBVIOUS
  <2>1. node[k].u < node[i].u
    BY DEF BeatsAll
  <2> QED BY <1>1, <1>2, <1>4, <2>1
<1> QED BY <1>4, <1>5 DEF LcrInv, L!Strongest

LEMMA LcrInitInv == L!LcrInit => LcrInv
<1> SUFFICES ASSUME L!LcrInit PROVE LcrInv
  OBVIOUS
<1>1. PICK uid \in L!Uids :
        node = [i \in L!Nodes |-> [u |-> uid[i], send |-> <<uid[i]>>, report |-> FALSE, leader |-> FALSE]]
  BY DEF L!LcrInit
<1>2. channel = [i \in L!Nodes |-> <<>>] /\ elected = {} /\ inits = 0
  BY DEF L!LcrInit
<1>3. uid \in [L!Nodes -> 1..LcrSize] /\ \A i, j \in L!Nodes : uid[i] = uid[j] => i = j
  BY DEF L!Uids
<1>4. \A i \in L!Nodes :
        /\ node[i] = [u |-> uid[i], send |-> <<uid[i]>>, report |-> FALSE, leader |-> FALSE]
        /\ node[i].u = uid[i] /\ node[i].send = <<uid[i]>> /\ ~node[i].leader
        /\ channel[i] = <<>>
  BY <1>1, <1>2
<1>5. node \in [L!Nodes -> LcrMembers]
  <2>1. \A i \in L!Nodes : <<uid[i]>> \in Seq(1..LcrSize)
    BY <1>3
  <2> QED BY <1>1, <1>3, <2>1 DEF LcrMembers
<1>6. channel \in [L!Nodes -> Seq(1..LcrSize)]
  BY <1>2
<1>7. \A i \in L!Nodes : Rightful(node, node[i].u, i)
  <2> SUFFICES ASSUME NEW i \in L!Nodes PROVE Rightful(node, node[i].u, i)
    OBVIOUS
  <2>1. Between(i, i) = {}
    BY PartsAssumption DEF Between, L!Nodes
  <2> QED BY <2>1 DEF Rightful, Beats
<1>8. ASSUME NEW i \in L!Nodes
      PROVE  QueueRightful(node, node[i].send, i) /\ QueueRightful(node, channel[i], i)
  <2>1. node[i].send = <<node[i].u>> /\ channel[i] = <<>>
    BY <1>4
  <2> DEFINE v == node[i].u
             q == node[i].send
             c == channel[i]
  <2>2. q = <<v>> /\ c = <<>> /\ Rightful(node, v, i)
    BY <1>7, <2>1
  <2> HIDE DEF v, q, c
  <2>3. Len(q) = 1 /\ q[1] = v /\ Len(c) = 0
    BY <2>2
  <2>4. QueueRightful(node, q, i) /\ QueueRightful(node, c, i)
    BY <2>2, <2>3 DEF QueueRightful
  <2> QED BY <2>4 DEF q, c
<1> QED BY <1>2, <1>3, <1>4, <1>5, <1>6, <1>8 DEF LcrInv

LEMMA RightfulQueues ==
  ASSUME NEW n, NEW i, NEW q \in Seq(1..LcrSize), QueueRightful(n, q, i)
  PROVE  /\ \A v \in 1..LcrSize : Rightful(n, v, i) =>
              Append(q, v) \in Seq(1..LcrSize) /\ QueueRightful(n, Append(q, v), i)
         /\ q # <<>> => /\ Tail(q) \in Seq(1..LcrSize) /\ QueueRightful(n, Tail(q), i)
                        /\ Head(q) \in 1..LcrSize /\ Rightful(n, Head(q), i)
<1>1. ASSUME NEW v \in 1..LcrSize, Rightful(n, v, i)
      PROVE  Append(q, v) \in Seq(1..LcrSize) /\ QueueRightful(n, Append(q, v), i)
  <2>1. Append(q, v) \in Seq(1..LcrSize) /\ Len(Append(q, v)) = Len(q) + 1
        /\ Append(q, v)[Len(q) + 1] = v /\ \A p \in 1..Len(q) : Append(q, v)[p] = q[p]
    BY AppendProperties
  <2> QED BY <1>1, <2>1, LenProperties DEF QueueRightful
<1>2. ASSUME q # <<>>
      PROVE  /\ Tail(q) \in Seq(1..LcrSize) /\ QueueRightful(n, Tail(q), i)
             /\ Head(q) \in 1..LcrSize /\ Rightful(n, Head(q), i)
  <2>1. Tail(q) \in Seq(1..LcrSize) /\ Len(Tail(q)) = Len(q) - 1 /\ Head(q) \in 1..LcrSize
        /\ \A p \in 1..Len(Tail(q)) : Tail(q)[p] = q[p + 1]
    BY <1>2, HeadTailProperties
  <2>2. Len(q) \in Nat /\ Len(q) > 0
    BY <1>2, EmptySeq
  <2>3. Head(q) = q[1]
    BY <2>2
  <2> QED BY <2>1, <2>2, <2>3 DEF QueueRightful
<1> QED BY <1>1, <1>2

\* What a step must leave so that all stays as it is.
LEMMA LcrStays ==
  ASSUME LcrInv,
         node' \in [L!Nodes -> LcrMembers], channel' \in [L!Nodes -> Seq(1..LcrSize)],
         inits' \in 0..1, \A k \in L!Nodes : node'[k].u = node[k].u,
         \A k \in L!Nodes : /\ QueueRightful(node, node'[k].send, k)
                            /\ QueueRightful(node, channel'[k], k)
                            /\ node'[k].leader => BeatsAll(node, k),
         elected' \subseteq L!Nodes, \A k \in elected' : BeatsAll(node, k)
  PROVE  LcrInv'
<1>1. /\ \A v, k : Rightful(node', v, k) <=> Rightful(node, v, k)
      /\ \A k \in L!Nodes : BeatsAll(node', k) <=> BeatsAll(node, k)
  BY SameIdentifiers
<1>2. \A k \in L!Nodes : /\ QueueRightful(node', node'[k].send, k)
                         /\ QueueRightful(node', channel'[k], k)
                         /\ node'[k].leader => BeatsAll(node', k)
  BY <1>1 DEF QueueRightful
<1>3. \A k \in elected' : BeatsAll(node', k)
  BY <1>1
<1>4. \A i, j \in L!Nodes : node'[i].u = node'[j].u => i = j
  BY DEF LcrInv
<1> QED BY <1>2, <1>3, <1>4 DEF LcrInv

LEMMA LcrSendKeeps ==
  ASSUME LcrInv, NEW i \in L!Nodes, L!LcrSend(i)
  PROVE  LcrInv'
<1>1. node[i] \in LcrMembers /\ channel[i] \in Seq(1..LcrSize) /\ node[i].send \in Seq(1..LcrSize)
  BY DEF LcrInv, LcrMembers
<1>2. /\ Tail(node[i].send) \in Seq(1..LcrSize) /\ QueueRightful(node, Tail(node[i].send), i)
      /\ Append(channel[i], Head(node[i].send)) \in Seq(1..LcrSize)
      /\ QueueRightful(node, Append(channel[i], Head(node[i].send)), i)
  BY <1>1, RightfulQueues DEF LcrInv, L!LcrSend
<1>3. /\ channel' = [channel EXCEPT ![i] = Append(channel[i], Head(node[i].send))]
      /\ node' = [node EXCEPT ![i] = [node[i] EXCEPT !.send = Tail(node[i].send)]]
      /\ elected' = elected /\ inits' = inits
  BY DEF L!LcrSend
<1>4. [node[i] EXCEPT !.send = Tail(node[i].send)] \in LcrMembers
  BY <1>1, <1>2 DEF LcrMembers
<1>5. node' \in [L!Nodes -> LcrMembers] /\ channel' \in [L!Nodes -> Seq(1..LcrSize)]
  BY <1>2, <1>3, <1>4 DEF LcrInv
<1>6. ASSUME NEW k \in L!Nodes
      PROVE  /\ node'[k].u = node[k].u /\ node'[k].leader = node[k].leader
             /\ node'[k].send = IF k = i THEN Tail(node[i].send) ELSE node[k].send
             /\ channel'[k] = IF k = i THEN Append(channel[i], Head(node[i].send)) ELSE channel[k]
  BY <1>1, <1>3 DEF LcrInv, LcrMembers
<1>7. ASSUME NEW k \in L!Nodes
      PROVE  /\ QueueRightful(node, node'[k].send, k) /\ QueueRightful(node, channel'[k], k)
             /\ node'[k].leader => BeatsAll(node, k)
  BY <1>2, <1>6 DEF LcrInv
<1> QED BY <1>3, <1>5, <1>6, <1>7, LcrStays DEF LcrInv

LEMMA LcrReceiveKeeps ==
  ASSUME LcrInv, NEW i \in L!Nodes, L!LcrReceive(i)
  PROVE  LcrInv'
<1> DEFINE j == L!Next(i)
           v == Head(channel[i])
           r == L!Received(node[j], v)
<1>1. j \in L!Nodes
  BY NextMeans
<1>2. node[j] \in LcrMembers /\ channel[i] \in Seq(1..LcrSize) /\ node[j].send \in Seq(1..LcrSize)
      /\ node[j].u \in 1..LcrSize
  BY <1>1 DEF LcrInv, LcrMembers
<1>3. /\ Tail(channel[i]) \in Seq(1..LcrSize) /\ QueueRightful(node, Tail(channel[i]), i)
      /\ v \in 1..LcrSize /\ Rightful(node, v, i)
  BY <1>2, RightfulQueues DEF LcrInv, L!LcrReceive
<1>4. /\ channel' = [channel EXCEPT ![i] = Tail(channel[i])] /\ node' = [node EXCEPT ![j] = r]
      /\ elected' = elected /\ inits' = inits
  BY DEF L!LcrReceive
<1>5. /\ r \in LcrMembers /\ r.u = node[j].u /\ QueueRightful(node, r.send, j)
      /\ r.leader => BeatsAll(node, j)
  <2> HIDE DEF v, j
  <2>1. CASE v > node[j].u
    <3>1. Rightful(node, v, j)
      BY <1>1, <1>3, <2>1, RightfulNext DEF j
    <3>2. Append(node[j].send, v) \in Seq(1..LcrSize) /\ QueueRightful(node, Append(node[j].send, v), j)
      BY <1>1, <1>2, <1>3, <3>1, RightfulQueues DEF LcrInv
    <3>3. r = [node[j] EXCEPT !.send = Append(node[j].send, v), !.leader = FALSE,
                              !.report = node[j].report \/ node[j].leader]
      BY <2>1 DEF L!Received
    <3> HIDE DEF r
    <3>4. r.u = node[j].u /\ r.send = Append(node[j].send, v) /\ r.leader = FALSE
      BY <1>2, <3>3 DEF LcrMembers
    <3>5. r \in LcrMembers
      BY <1>2, <3>2, <3>3 DEF LcrMembers
    <3> QED BY <3>2, <3>4, <3>5
  <2>2. CASE v = node[j].u
    <3>1. BeatsAll(node, j)
      <4>1. PICK o \in L!Nodes : v = node[o].u /\ Beats(node, o, i)
        BY <1>3 DEF Rightful
      <4>2. o = j
        BY <1>1, <2>2, <4>1 DEF LcrInv
      <4>3. Between(j, i) = L!Nodes \ {j}
        BY NextMeans DEF j
      <4> QED BY <4>1, <4>2, <4>3 DEF Beats, BeatsAll
    <3>2. r = [node[j] EXCEPT !.leader = TRUE, !.report = node[j].report \/ ~node[j].leader]
      BY <1>2, <1>3, <2>2 DEF L!Received
    <3> HIDE DEF r
    <3>3. r.u = node[j].u /\ r.send = node[j].send
      BY <1>2, <3>2 DEF LcrMembers
    <3>4. r \in LcrMembers
      BY <1>2, <3>2 DEF LcrMembers
    <3> QED BY <1>1, <3>1, <3>3, <3>4 DEF LcrInv
  <2>3. CASE v < node[j].u
    <3>1. r = node[j]
      BY <1>2, <1>3, <2>3 DEF L!Received
    <3> QED BY <1>1, <1>2, <3>1 DEF LcrInv
  <2> QED BY <1>2, <1>3, <2>1, <2>2, <2>3
<1> HIDE DEF j, v, r
<1>6. node' \in [L!Nodes -> LcrMembers] /\ channel' \in [L!Nodes -> Seq(1..LcrSize)]
  BY <1>3, <1>4, <1>5 DEF LcrInv
<1>7. ASSUME NEW k \in L!Nodes
      PROVE  /\ node'[k] = IF k = j THEN r ELSE node[k]
             /\ channel'[k] = IF k = i THEN Tail(channel[i]) ELSE channel[k]
  BY <1>4 DEF LcrInv
<1>8. ASSUME NEW k \in L!Nodes
      PROVE  /\ node'[k].u = node[k].u
             /\ QueueRightful(node, node'[k].send, k) /\ QueueRightful(node, channel'[k], k)
             /\ node'[k].leader => BeatsAll(node, k)
  BY <1>3, <1>5, <1>7 DEF LcrInv
<1> QED BY <1>4, <1>6, <1>8, LcrStays DEF LcrInv

LEMMA LcrLeaderKeeps ==
  ASSUME LcrInv, NEW i \in L!Nodes, L!LcrLeader(i)
  PROVE  LcrInv'
<1>1. node[i] \in LcrMembers
  BY DEF LcrInv
<1>2. /\ node' = [node EXCEPT ![i] = [node[i] EXCEPT !.report = FALSE]]
      /\ channel' = channel /\ inits' = inits
      /\ elected' = IF node[i].leader THEN elected \cup {i} ELSE elected
  BY DEF L!LcrLeader
<1>3. [node[i] EXCEPT !.report = FALSE] \in LcrMembers
  BY <1>1 DEF LcrMembers
<1>4. node' \in [L!Nodes -> LcrMembers]
  BY <1>2, <1>3 DEF LcrInv
<1>5. ASSUME NEW k \in L!Nodes
      PROVE  /\ node'[k].u = node[k].u /\ node'[k].leader = node[k].leader
             /\ node'[k].send = node[k].send
  BY <1>1, <1>2 DEF LcrInv, LcrMembers
<1>6. ASSUME NEW k \in L!Nodes
      PROVE  /\ QueueRightful(node, node'[k].send, k) /\ QueueRightful(node, channel'[k], k)
             /\ node'[k].leader => BeatsAll(node, k)
  BY <1>2, <1>5 DEF LcrInv
<1>7. elected' \subseteq L!Nodes /\ \A k \in elected' : BeatsAll(node, k)
  BY <1>2 DEF LcrInv
<1> QED BY <1>2, <1>4, <1>5, <1>6, <1>7, LcrStays DEF LcrInv

LEMMA LcrInitKeeps ==
  ASSUME LcrInv, NEW i \in L!Nodes, L!LcrInitInput(i)
  PROVE  LcrInv'
<1> DEFINE r == [node[i] EXCEPT !.report = FALSE, !.leader = FALSE,
                                !.send = Append(node[i].send, node[i].u)]
<1>1. node[i] \in LcrMembers /\ node[i].send \in Seq(1..LcrSize) /\ node[i].u \in 1..LcrSize
  BY DEF LcrInv, LcrMembers
<1>2. Rightful(node, node[i].u, i)
  <2>1. Between(i, i) = {}
    BY PartsAssumption DEF Between, L!Nodes
  <2> QED BY <2>1 DEF Rightful, Beats
<1>3. /\ Append(node[i].send, node[i].u) \in Seq(1..LcrSize)
      /\ QueueRightful(node, Append(node[i].send, node[i].u), i)
  BY <1>1, <1>2, RightfulQueues DEF LcrInv
<1>4. node' = [node EXCEPT ![i] = r] /\ channel' = channel /\ elected' = elected
      /\ inits < 1 /\ inits' = inits + 1
  BY DEF L!LcrInitInput, LcrInv
<1>5. r \in LcrMembers
  BY <1>1, <1>3 DEF LcrMembers
<1>6. r.u = node[i].u /\ r.leader = FALSE /\ r.send = Append(node[i].send, node[i].u)
  BY <1>1 DEF LcrMembers
<1> HIDE DEF r
<1>7. node' \in [L!Nodes -> LcrMembers]
  BY <1>4, <1>5 DEF LcrInv
<1>8. ASSUME NEW k \in L!Nodes PROVE node'[k] = IF k = i THEN r ELSE node[k]
  BY <1>4 DEF LcrInv
<1>9. ASSUME NEW k \in L!Nodes
      PROVE  /\ node'[k].u = node[k].u
             /\ QueueRightful(node, node'[k].send, k) /\ QueueRightful(node, channel'[k], k)
             /\ node'[k].leader => BeatsAll(node, k)
  BY <1>3, <1>4, <1>6, <1>8 DEF LcrInv
<1>10. inits' \in 0..1
  BY <1>4 DEF LcrInv
<1> QED BY <1>4, <1>7, <1>9, <1>10, LcrStays DEF LcrInv

LEMMA LcrNextInv == LcrInv /\ (L!LcrSteps \/ L!LcrInputs) => LcrInv'
  BY LcrSendKeeps, LcrReceiveKeeps, LcrLeaderKeeps, LcrInitKeeps DEF L!LcrSteps, L!LcrInputs
-----------------------------------------------------------------------------
(* The networks in MCParts. *)

NetworksInv ==
  /\ part = "tree" => TreeInv
  /\ part = "paths" => PathsInv
  /\ part = "ack" => AckInv

networkVars == <<part, root, weight, node, send, channel>>

NetworksStep == StepNetwork \/ UNCHANGED networkVars \/ (part \notin Networks /\ UNCHANGED part)

LEMMA NetworksMove ==
  ASSUME PartsSteps \/ PartsInputs
  PROVE  NetworksStep
<1>1. CASE StepIds \/ StepConnection \/ InputConnection \/ StepSetup \/ InputSetup
  BY <1>1 DEF StepIds, StepConnection, InputConnection, StepSetup, InputSetup, NetworksStep, networkVars,
     SameDistributed, SameNodes, SameNetwork
<1>2. CASE StepSender \/ InputUdp \/ StepManagers \/ InputManagers
  BY <1>2 DEF StepSender, InputUdp, StepManagers, InputManagers, NetworksStep, networkVars,
     SameDistributed, SameNodes, SameNetwork
<1>3. CASE StepTcpRing \/ InputTcpRing
  BY <1>3 DEF StepTcpRing, InputTcpRing, NetworksStep, networkVars, SameNodes, SameNetwork
<1>4. CASE StepRing \/ InputRing
  BY <1>4 DEF StepRing, InputRing, NetworksStep, Networks
<1>5. CASE StepNetwork
  BY <1>5 DEF NetworksStep
<1> QED BY <1>1, <1>2, <1>3, <1>4, <1>5 DEF PartsSteps, PartsInputs

LEMMA NetworksInitInv == PartsInit => NetworksInv
<1> SUFFICES ASSUME PartsInit PROVE NetworksInv
  OBVIOUS
<1>1. part \in Networks => NetworkInit
  BY DEF PartsInit, Networks, Rings
<1>2. CASE part = "tree"
  BY <1>1, <1>2, TreeInitInv DEF NetworkInit, NetworksInv, Networks
<1>3. CASE part = "paths"
  BY <1>1, <1>3, PathsInitInv DEF NetworkInit, NetworksInv, Networks
<1>4. CASE part = "ack"
  BY <1>1, <1>4, AckInitInv DEF NetworkInit, NetworksInv, Networks
<1> QED BY <1>2, <1>3, <1>4 DEF NetworksInv

\* The invariants are about the networks' variables only.
LEMMA NetworksStay ==
  ASSUME NetworksInv, UNCHANGED networkVars
  PROVE  NetworksInv'
<1>1. CASE part = "tree"
  <2>1. TreeInv /\ UNCHANGED <<root, weight, node, send, channel>>
    BY <1>1 DEF NetworksInv, networkVars
  <2>2. Kids(root, node)' = Kids(root, node) /\ \A i, j : T!Linked(i, j)' <=> T!Linked(i, j)
    BY <2>1, TreeLinked DEF Kids
  <2>3. TreeTypes' /\ Searching'
    BY <2>1, <2>2 DEF TreeInv, TreeTypes, Searching
  <2>4. TreeInv'
    BY <2>1, <2>3, TreeQuiet
  <2> QED BY <1>1, <2>4 DEF NetworksInv, networkVars
<1>2. CASE part = "paths"
  <2>1. PathsInv /\ UNCHANGED <<root, weight, node, send, channel>>
    BY <1>2 DEF NetworksInv, networkVars
  <2>2. /\ send' \in [NetworkNodes -> [NetworkNodes -> Seq(Nat)]]
        /\ channel' \in [NetworkNodes -> [NetworkNodes -> Seq(Nat)]]
    BY <2>1 DEF PathsInv, PathsTypes
  <2>3. \A i, j \in NetworkNodes : /\ Tells(send'[i][j], i, j, node)
                                   /\ Tells(channel'[i][j], i, j, node)
    BY <2>1 DEF PathsInv, Distances
  <2>4. PathsInv'
    BY <2>1, <2>2, <2>3, PathsQuiet
  <2> QED BY <1>2, <2>4 DEF NetworksInv, networkVars
<1>3. CASE part = "ack"
  <2>1. node' = node /\ UNCHANGED <<root, weight>> /\ Flights' = Flights /\ AckState(node, Flights)
    BY <1>3 DEF NetworksInv, networkVars, AckInv, Flights
  <2>2. AckState(node', Flights')
    BY <2>1
  <2>3. AckInv'
    BY <1>3, <2>1, <2>2, AckStateNext DEF NetworksInv, networkVars, AckInv
  <2> QED BY <1>3, <2>3 DEF NetworksInv, networkVars
<1> QED BY <1>1, <1>2, <1>3 DEF NetworksInv, networkVars

LEMMA NetworksNextInv == NetworksInv /\ [PartsSteps \/ PartsInputs]_partsVars => NetworksInv'
<1> SUFFICES ASSUME NetworksInv, [PartsSteps \/ PartsInputs]_partsVars PROVE NetworksInv'
  OBVIOUS
<1>1. CASE UNCHANGED networkVars
  BY <1>1, NetworksStay
<1>2. CASE part \notin Networks /\ UNCHANGED part
  BY <1>2 DEF NetworksInv, Networks
<1>3. CASE StepNetwork
  <2>1. UNCHANGED part
    BY <1>3 DEF StepNetwork
  <2>2. CASE part = "tree" /\ T!TreeSteps
    BY <2>1, <2>2, TreeNextInv DEF NetworksInv
  <2>3. CASE part = "paths" /\ S!PathsSteps
    BY <2>1, <2>3, PathsNextInv DEF NetworksInv
  <2>4. CASE part = "ack" /\ A!AckSteps
    BY <2>1, <2>4, AckNextInv DEF NetworksInv
  <2> QED BY <1>3, <2>2, <2>3, <2>4 DEF StepNetwork
<1>4. NetworksStep
  BY <1>1, NetworksMove DEF partsVars, networkVars, NetworksStep
<1> QED BY <1>1, <1>2, <1>3, <1>4 DEF NetworksStep

(* On every network, of any size and with any links and weights: the        *)
(* parents are a tree below the root at all times, no automaton has heard   *)
(* of a distance that is too short, and when the root of the broadcast      *)
(* reports, all it reaches have the value and nothing is under way.         *)
THEOREM WavesAlwaysSound == FairPartsSpec => []WavesSound
<1>1. NetworksInv => WavesSound
  BY TreeRooted, PathsRooted, PathsNeverShort, AckRooted, AckRootLast DEF NetworksInv, WavesSound
<1> QED BY <1>1, NetworksInitInv, NetworksNextInv, PTL DEF FairPartsSpec
-----------------------------------------------------------------------------
(* The ring of asynch_lcr_automata in MCParts. *)

ElectionInv == part = "lcr" => LcrInv

electionVars == <<part, node, channel, elected, inits>>

\* What a step of any part does to the ring.
ElectionStep == \/ part = "lcr" /\ (L!LcrSteps \/ L!LcrInputs) /\ UNCHANGED part
                \/ UNCHANGED electionVars
                \/ part = "peterson" /\ UNCHANGED part
                \/ part \in Networks /\ UNCHANGED <<part, elected>>

LEMMA ElectionMoves ==
  ASSUME [PartsSteps \/ PartsInputs]_partsVars
  PROVE  ElectionStep
<1>1. CASE StepIds \/ StepConnection \/ InputConnection \/ StepSetup \/ InputSetup
  BY <1>1 DEF StepIds, StepConnection, InputConnection, StepSetup, InputSetup, ElectionStep, electionVars,
     SameDistributed, SameNodes, SameElection
<1>2. CASE StepSender \/ InputUdp \/ StepManagers \/ InputManagers
  BY <1>2 DEF StepSender, InputUdp, StepManagers, InputManagers, ElectionStep, electionVars,
     SameDistributed, SameNodes, SameElection
<1>3. CASE StepTcpRing \/ InputTcpRing
  BY <1>3 DEF StepTcpRing, InputTcpRing, ElectionStep, electionVars, SameNodes, SameElection
<1>4. CASE StepRing \/ InputRing
  BY <1>4 DEF StepRing, InputRing, ElectionStep
<1>5. CASE StepNetwork
  BY <1>5 DEF StepNetwork, Networks, ElectionStep, SameElection
<1>6. CASE UNCHANGED partsVars
  BY <1>6 DEF partsVars, ElectionStep, electionVars
<1> QED BY <1>1, <1>2, <1>3, <1>4, <1>5, <1>6 DEF PartsSteps, PartsInputs

LEMMA ElectionInitInv == PartsInit => ElectionInv
  BY LcrInitInv DEF PartsInit, Rings, ElectionInit, ElectionInv

LEMMA ElectionNextInv == ElectionInv /\ [PartsSteps \/ PartsInputs]_partsVars => ElectionInv'
<1> SUFFICES ASSUME ElectionInv, ElectionStep PROVE ElectionInv'
  BY ElectionMoves
<1>1. CASE part = "lcr" /\ (L!LcrSteps \/ L!LcrInputs) /\ UNCHANGED part
  BY <1>1, LcrNextInv DEF ElectionInv
<1>2. CASE UNCHANGED electionVars
  <2>1. CASE part = "lcr"
    <3>1. LcrInv /\ UNCHANGED <<node, channel, elected, inits>>
      BY <1>2, <2>1 DEF electionVars, ElectionInv
    <3>2. LcrInv'
      BY <3>1, LcrStays DEF LcrInv
    <3> QED BY <3>2 DEF ElectionInv
  <2> QED BY <1>2, <2>1 DEF electionVars, ElectionInv
<1>3. CASE (part = "peterson" \/ part \in Networks) /\ UNCHANGED part
  BY <1>3 DEF ElectionInv, Networks
<1> QED BY <1>1, <1>2, <1>3 DEF ElectionStep

\* Only the strongest may tell the network that it leads, and only once does that
\* change what the network knows.
LEMMA LcrElects ==
  ASSUME LcrInv, part = "lcr", L!LcrSteps \/ L!LcrInputs, elected' # elected
  PROVE  Vote!Elect
<1>1. PICK i \in L!Nodes : L!LcrLeader(i)
  BY DEF L!LcrSteps, L!LcrInputs, L!LcrSend, L!LcrReceive, L!LcrInitInput
<1>2. node[i].leader /\ elected' = elected \cup {i} /\ i \notin elected
  BY <1>1 DEF L!LcrLeader
<1>3. L!Strongest = {i}
  BY <1>2, BestIsStrongest DEF LcrInv
<1>4. elected = {}
  <2> SUFFICES ASSUME NEW k \in elected PROVE FALSE
    OBVIOUS
  <2>1. L!Strongest = {k}
    BY BestIsStrongest DEF LcrInv
  <2> QED BY <1>2, <1>3, <2>1
<1> QED BY <1>2, <1>3, <1>4 DEF Vote!Elect

(* On every ring of asynch_lcr_automata, of any size and with its           *)
(* identifiers in any order, also when automata are initialised again while *)
(* identifiers are under way: whoever is elected is the one with the        *)
(* greatest identifier, and no other ever is.  (The elections of            *)
(* peterson_leader_automata are left to TLC.)                               *)
THEOREM OnlyTheStrongestElected ==
  FairPartsSpec => Vote!Init /\ [][part # "peterson" => Vote!Elect]_elected
<1>1. PartsInit => Vote!Init
  BY DEF PartsInit, ElectionInit, L!LcrInit, P!PetersonInit, NetworkInit, NoElection, Vote!Init
<1>2. ElectionInv /\ [PartsSteps \/ PartsInputs]_partsVars
        => [part # "peterson" => Vote!Elect]_elected
  <2> SUFFICES ASSUME ElectionInv, ElectionStep, part # "peterson", elected' # elected PROVE Vote!Elect
    BY ElectionMoves
  <2>1. part = "lcr" /\ (L!LcrSteps \/ L!LcrInputs)
    BY DEF ElectionStep, electionVars
  <2> QED BY <2>1, LcrElects DEF ElectionInv
<1> QED BY <1>1, <1>2, ElectionInitInv, ElectionNextInv, PTL DEF FairPartsSpec
-----------------------------------------------------------------------------
(* PetersonRing, its types. *)

PetersonValues == Seq(1..PetersonSize)

PetersonMembers ==
  [mode : {"ACTIVE", "RELAY"}, status : {"UNKNOWN", "CHOSEN", "REPORTED"},
   uid : [1..3 -> 0..PetersonSize], send : PetersonValues, receive : PetersonValues]

PetersonTypes ==
  /\ node \in [P!Nodes -> PetersonMembers]
  /\ channel \in [P!Nodes -> PetersonValues]
  /\ elected \subseteq P!Nodes

LEMMA PetersonQueues ==
  ASSUME NEW q \in PetersonValues
  PROVE  /\ \A v \in 1..PetersonSize : Append(q, v) \in PetersonValues
         /\ q # <<>> => Tail(q) \in PetersonValues /\ Head(q) \in 1..PetersonSize
<1>1. ASSUME NEW v \in 1..PetersonSize PROVE Append(q, v) \in PetersonValues
  BY AppendProperties DEF PetersonValues
<1>2. ASSUME q # <<>> PROVE Tail(q) \in PetersonValues /\ Head(q) \in 1..PetersonSize
  BY <1>2, HeadTailProperties DEF PetersonValues
<1> QED BY <1>1, <1>2

LEMMA Identifiers ==
  ASSUME NEW a \in 0..PetersonSize, NEW b \in 0..PetersonSize, NEW c \in 0..PetersonSize
  PROVE  <<a, b, c>> \in [1..3 -> 0..PetersonSize]
<1> DEFINE D == 0..PetersonSize
           s == <<a, b, c>>
<1>1. a \in D /\ b \in D /\ c \in D
  OBVIOUS
<1> HIDE DEF D
<1>2. s \in Seq(D) /\ Len(s) = 3
  BY <1>1
<1> HIDE DEF s
<1>3. s \in [1..3 -> D]
  BY <1>2, LenProperties
<1> QED BY <1>3 DEF s, D

LEMMA PetersonInitTypes == P!PetersonInit => PetersonTypes
<1> SUFFICES ASSUME P!PetersonInit PROVE PetersonTypes
  OBVIOUS
<1>1. PICK id \in P!Uids :
        node = [i \in P!Nodes |-> [mode |-> "ACTIVE", status |-> "UNKNOWN", uid |-> <<id[i], P!UID, P!UID>>,
                                  send |-> <<id[i]>>, receive |-> <<>>]]
  BY DEF P!PetersonInit
<1>2. PetersonSize \in Nat
  BY PartsAssumption
<1>3. id \in [P!Nodes -> 1..PetersonSize]
  BY DEF P!Uids
<1>4. ASSUME NEW i \in P!Nodes
      PROVE  [mode |-> "ACTIVE", status |-> "UNKNOWN", uid |-> <<id[i], P!UID, P!UID>>,
              send |-> <<id[i]>>, receive |-> <<>>] \in PetersonMembers
  <2> DEFINE v == id[i]
             u == <<v, P!UID, P!UID>>
  <2>1. v \in 1..PetersonSize /\ v \in 0..PetersonSize /\ P!UID \in 0..PetersonSize
    BY <1>2, <1>3 DEF P!UID
  <2> HIDE DEF v
  <2>2. <<v>> \in PetersonValues /\ <<>> \in PetersonValues
    BY <2>1 DEF PetersonValues
  <2>3. u \in [1..3 -> 0..PetersonSize]
    BY <2>1, Identifiers
  <2> HIDE DEF u
  <2>4. [mode |-> "ACTIVE", status |-> "UNKNOWN", uid |-> u, send |-> <<v>>, receive |-> <<>>] \in PetersonMembers
    BY <2>2, <2>3 DEF PetersonMembers
  <2> QED BY <2>4 DEF u, v
<1>5. node \in [P!Nodes -> PetersonMembers]
  BY <1>1, <1>4
<1>6. channel \in [P!Nodes -> PetersonValues] /\ elected = {}
  BY DEF P!PetersonInit, PetersonValues
<1> QED BY <1>5, <1>6 DEF PetersonTypes

\* The members an internal action gives are members.
LEMMA InternalTypes ==
  ASSUME PetersonTypes, NEW i \in P!Nodes, NEW r \in PetersonMembers, P!Internal(i, r)
  PROVE  PetersonTypes'
BY DEF PetersonTypes, P!Internal

LEMMA PetersonNextTypes ==
  ASSUME PetersonTypes, P!PetersonSteps
  PROVE  PetersonTypes'
<1>1. PICK i \in P!Nodes :
        \/ P!PetersonSend(i) \/ P!PetersonReceive(i) \/ P!PetersonLeader(i)
        \/ P!GetSecondUid(i) \/ P!GetThirdUid(i) \/ P!AdvancePhase(i) \/ P!BecomeRelay(i) \/ P!Relay(i)
  BY DEF P!PetersonSteps
<1> DEFINE r == node[i]
<1>2. PetersonSize \in Nat /\ PetersonSize > 0
  BY PartsAssumption
<1>3. /\ r \in PetersonMembers /\ r.send \in PetersonValues /\ r.receive \in PetersonValues
      /\ r.uid \in [1..3 -> 0..PetersonSize] /\ channel[i] \in PetersonValues
  BY DEF PetersonTypes, PetersonMembers
<1>4. r.receive # <<>> => Tail(r.receive) \in PetersonValues /\ Head(r.receive) \in 1..PetersonSize
  BY <1>3, PetersonQueues
<1>5. \A v \in 1..PetersonSize : Append(r.send, v) \in PetersonValues
  BY <1>3, PetersonQueues
<1>6. CASE P!PetersonSend(i)
  <2> DEFINE q == Append(channel[i], Head(r.send))
             m == [r EXCEPT !.send = Tail(r.send)]
  <2>1. q \in PetersonValues /\ Tail(r.send) \in PetersonValues
    BY <1>3, <1>6, PetersonQueues DEF P!PetersonSend
  <2>2. m \in PetersonMembers
    BY <1>3, <2>1 DEF PetersonMembers
  <2>3. channel' = [channel EXCEPT ![i] = q] /\ node' = [node EXCEPT ![i] = m] /\ elected' = elected
    BY <1>6 DEF P!PetersonSend
  <2> HIDE DEF q, m, r
  <2> QED BY <2>1, <2>2, <2>3 DEF PetersonTypes
<1>7. CASE P!PetersonReceive(i)
  <2> DEFINE j == P!Next(i)
             q == Append(node[j].receive, Head(channel[i]))
             m == [node[j] EXCEPT !.receive = q]
  <2>1. Tail(channel[i]) \in PetersonValues /\ Head(channel[i]) \in 1..PetersonSize
    BY <1>3, <1>7, PetersonQueues DEF P!PetersonReceive
  <2>2. j \in P!Nodes
    BY <1>2 DEF P!Nodes, P!Next
  <2>3. node[j] \in PetersonMembers /\ node[j].receive \in PetersonValues
    BY <2>2 DEF PetersonTypes, PetersonMembers
  <2>4. q \in PetersonValues
    BY <2>1, <2>3, PetersonQueues
  <2>5. m \in PetersonMembers
    BY <2>3, <2>4 DEF PetersonMembers
  <2>6. channel' = [channel EXCEPT ![i] = Tail(channel[i])] /\ node' = [node EXCEPT ![j] = m]
        /\ elected' = elected
    BY <1>7 DEF P!PetersonReceive
  <2> HIDE DEF q, m, j, r
  <2> QED BY <2>1, <2>5, <2>6 DEF PetersonTypes
<1>8. CASE P!PetersonLeader(i)
  <2> DEFINE m == [r EXCEPT !.status = "REPORTED"]
  <2>1. m \in PetersonMembers
    BY <1>3 DEF PetersonMembers
  <2>2. channel' = channel /\ node' = [node EXCEPT ![i] = m] /\ elected' = elected \cup {i}
    BY <1>8 DEF P!PetersonLeader
  <2> HIDE DEF m
  <2> QED BY <2>1, <2>2 DEF PetersonTypes
<1>9. CASE P!GetSecondUid(i)
  <2> DEFINE v == Head(r.receive)
             u == [r.uid EXCEPT ![2] = v]
             s == IF v = r.uid[1] THEN "CHOSEN" ELSE r.status
             m == [r EXCEPT !.uid = u, !.receive = Tail(r.receive), !.send = Append(r.send, v), !.status = s]
  <2>1. v \in 1..PetersonSize /\ Tail(r.receive) \in PetersonValues /\ Append(r.send, v) \in PetersonValues
    BY <1>4, <1>5, <1>9 DEF P!GetSecondUid
  <2>2. u \in [1..3 -> 0..PetersonSize]
    BY <1>2, <1>3, <2>1
  <2>3. s \in {"UNKNOWN", "CHOSEN", "REPORTED"}
    BY <1>3 DEF PetersonMembers
  <2>4. P!Internal(i, m)
    BY <1>9 DEF P!GetSecondUid
  <2> HIDE DEF s, u, v
  <2>5. m \in PetersonMembers
    BY <1>3, <2>1, <2>2, <2>3 DEF PetersonMembers
  <2> HIDE DEF m
  <2> QED BY <2>4, <2>5, InternalTypes
<1>10. CASE P!GetThirdUid(i)
  <2> DEFINE v == Head(r.receive)
             u == [r.uid EXCEPT ![3] = v]
             m == [r EXCEPT !.uid = u, !.receive = Tail(r.receive)]
  <2>1. v \in 1..PetersonSize /\ Tail(r.receive) \in PetersonValues
    BY <1>4, <1>10 DEF P!GetThirdUid
  <2>2. u \in [1..3 -> 0..PetersonSize]
    BY <1>2, <1>3, <2>1
  <2>3. P!Internal(i, m)
    BY <1>10 DEF P!GetThirdUid
  <2> HIDE DEF u, v
  <2>4. m \in PetersonMembers
    BY <1>3, <2>1, <2>2 DEF PetersonMembers
  <2> HIDE DEF m
  <2> QED BY <2>3, <2>4, InternalTypes
<1>11. CASE P!AdvancePhase(i)
  <2> DEFINE v == r.uid[2]
             u == <<v, P!UID, P!UID>>
             m == [r EXCEPT !.uid = u, !.send = Append(r.send, v)]
  <2>1. v > r.uid[1] /\ r.uid[1] \in 0..PetersonSize /\ v \in 0..PetersonSize
    BY <1>3, <1>11 DEF P!AdvancePhase, P!MiddleWins
  <2>2. v \in 1..PetersonSize
    BY <1>2, <2>1
  <2>3. P!UID \in 0..PetersonSize
    BY <1>2 DEF P!UID
  <2>4. P!Internal(i, m)
    BY <1>11 DEF P!AdvancePhase
  <2> HIDE DEF v
  <2>5. u \in [1..3 -> 0..PetersonSize]
    BY <2>1, <2>3, Identifiers
  <2>6. Append(r.send, v) \in PetersonValues
    BY <1>5, <2>2
  <2> HIDE DEF u
  <2>7. m \in PetersonMembers
    BY <1>3, <2>5, <2>6 DEF PetersonMembers
  <2> HIDE DEF m
  <2> QED BY <2>4, <2>7, InternalTypes
<1>12. CASE P!BecomeRelay(i)
  <2> DEFINE m == [r EXCEPT !.mode = "RELAY"]
  <2>1. m \in PetersonMembers
    BY <1>3 DEF PetersonMembers
  <2>2. P!Internal(i, m)
    BY <1>12 DEF P!BecomeRelay
  <2> HIDE DEF m
  <2> QED BY <2>1, <2>2, InternalTypes
<1>13. CASE P!Relay(i)
  <2> DEFINE v == Head(r.receive)
             m == [r EXCEPT !.receive = Tail(r.receive), !.send = Append(r.send, v)]
  <2>1. Tail(r.receive) \in PetersonValues /\ Append(r.send, v) \in PetersonValues
    BY <1>4, <1>5, <1>13 DEF P!Relay
  <2>2. P!Internal(i, m)
    BY <1>13 DEF P!Relay
  <2> HIDE DEF v
  <2>3. m \in PetersonMembers
    BY <1>3, <2>1 DEF PetersonMembers
  <2> HIDE DEF m
  <2> QED BY <2>2, <2>3, InternalTypes
<1> QED BY <1>1, <1>6, <1>7, <1>8, <1>9, <1>10, <1>11, <1>12, <1>13
-----------------------------------------------------------------------------
(* The types of all parts. *)

\* What a step of any part does to the ring of Peterson's algorithm.
LEMMA PetersonMoves ==
  ASSUME [PartsSteps \/ PartsInputs]_partsVars, part = "peterson"
  PROVE  part' = part /\ (P!PetersonSteps \/ UNCHANGED <<node, channel, elected>>)
<1>1. CASE UNCHANGED partsVars
  BY <1>1 DEF partsVars
<1>2. CASE StepRing
  BY <1>2 DEF StepRing
<1>3. CASE InputUdp \/ StepSender
  BY <1>3 DEF InputUdp, StepSender, SameDistributed, SameNodes, SameElection
<1>4. ~(StepIds \/ StepConnection \/ InputConnection \/ StepSetup \/ InputSetup)
  BY DEF StepIds, StepConnection, InputConnection, StepSetup, InputSetup
<1>5. ~(StepManagers \/ InputManagers \/ StepTcpRing \/ InputTcpRing \/ InputRing \/ StepNetwork)
  BY DEF StepManagers, InputManagers, StepTcpRing, InputTcpRing, InputRing, StepNetwork
<1> QED BY <1>1, <1>2, <1>3, <1>4, <1>5 DEF PartsSteps, PartsInputs

PetersonTyped == part = "peterson" => PetersonTypes

LEMMA PetersonInitTyped == PartsInit => PetersonTyped
  BY PetersonInitTypes DEF PartsInit, Rings, ElectionInit, PetersonTyped

LEMMA PartStays == [PartsSteps \/ PartsInputs]_partsVars => part' = part
  BY DEF PartsSteps, PartsInputs, StepIds, StepConnection, InputConnection, StepSetup, InputSetup,
     InputUdp, StepSender, StepManagers, InputManagers, StepTcpRing, InputTcpRing, StepRing, InputRing,
     StepNetwork, partsVars

LEMMA PetersonNextTyped == PetersonTyped /\ [PartsSteps \/ PartsInputs]_partsVars => PetersonTyped'
<1> SUFFICES ASSUME PetersonTyped, [PartsSteps \/ PartsInputs]_partsVars PROVE PetersonTyped'
  OBVIOUS
<1>1. CASE part = "peterson"
  <2>1. PetersonTypes
    BY <1>1 DEF PetersonTyped
  <2>2. part' = part /\ (P!PetersonSteps \/ UNCHANGED <<node, channel, elected>>)
    BY <1>1, PetersonMoves
  <2>3. ASSUME UNCHANGED <<node, channel, elected>> PROVE PetersonTypes'
    BY <2>1, <2>3 DEF PetersonTypes
  <2> QED BY <2>1, <2>2, <2>3, PetersonNextTypes DEF PetersonTyped
<1> QED BY <1>1, PartStays DEF PetersonTyped

\* The type invariants of all parts: the allocator's ids, the ends of a connection,
\* the automata that set connections up, the UDP automata, the managers, the ring
\* automaton, and the rings of both elections, whatever their size.
THEOREM PartsTypesCorrect == FairPartsSpec => []PartsTypeOK
<1>1. Spec => []TypeOK
  <2>1. SetInv => TypeOK
    BY DEF SetInv
  <2> QED BY <2>1, SetInitInv, SetNextInv, PTL DEF Spec
<1>2. FairPartsSpec => [](TypeOK /\ ConnTypeOK /\ SetupTypeOK /\ UdpTypeOK /\ ManagersTypeOK /\ RingTypeOK)
  <2>1. ManagersSpec /\ RingSpec /\ UdpSpec /\ SetupSpec /\ ConnSpec /\ Spec
          => [](TypeOK /\ ConnTypeOK /\ SetupTypeOK /\ UdpTypeOK /\ ManagersTypeOK /\ RingTypeOK)
    BY <1>1, ConnectionTypes, DescriptorsGoOnce, SenderServesRight, ObserversNeverDangle, RingRefersRight, PTL
  <2> QED BY <2>1, PartsBehave
<1>3. ElectionInv => (part = "lcr" => L!LcrTypeOK)
  BY DEF ElectionInv, LcrInv, LcrMembers, L!LcrTypeOK
<1>4. PetersonTyped => (part = "peterson" => P!PetersonTypeOK)
  BY DEF PetersonTyped, PetersonTypes, PetersonMembers, PetersonValues, P!PetersonTypeOK
<1>5. FairPartsSpec => [](ElectionInv /\ PetersonTyped)
  BY ElectionInitInv, ElectionNextInv, PetersonInitTyped, PetersonNextTyped, PTL DEF FairPartsSpec
<1> QED BY <1>2, <1>3, <1>4, <1>5, PTL DEF PartsTypeOK
=============================================================================
