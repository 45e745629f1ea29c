------------------------------ MODULE BcastAck ------------------------------
(***************************************************************************)
(* asynch_bcast_ack_automaton in a bidirectional_network: the root's value *)
(* is passed on to all, and acknowledged to the parent once all other      *)
(* neighbours acknowledged it.                                             *)
(***************************************************************************)
EXTENDS Network

Null == "null"     \* m_val before there is one
Value == "value"   \* the root's
Bcast == "BCAST"
Ack == "ACK"

AckInit ==
    /\ Topology({1})
    /\ node = [i \in Nodes |-> [val |-> IF i = root THEN Value ELSE Null, parent |-> Nobody,
                                reported |-> FALSE, acked |-> {}]]
    /\ RootSends(Bcast)

AckSend(i, j) == Send(i, j, Tail(send[i][j]))

AckReceive(i, j) ==
    /\ channel[i][j] # <<>>
    /\ LET m == Head(channel[i][j]) IN
       CASE m = Ack -> Receive(i, j, [node[j] EXCEPT !.acked = @ \cup {i}], send)
         [] m = Bcast /\ node[j].val = Null ->
               Receive(i, j, [node[j] EXCEPT !.val = Value, !.parent = i],
                             Queue(j, Nbrs(j) \ {i}, Bcast))
         [] m = Bcast /\ node[j].val # Null -> Receive(i, j, node[j], Queue(j, {i}, Ack))

AllAckedButOne(i) ==  \* mutant: the root, too, waits for all but one
    Cardinality(Nbrs(i)) - Cardinality(node[i].acked) <= 1
AllAcked(i) ==
    LET r == node[i] IN
    IF i = root THEN Cardinality(r.acked) = Cardinality(Nbrs(i))
    ELSE /\ r.parent # Nobody
         /\ Cardinality(Nbrs(i)) - Cardinality(r.acked) = 1
         /\ r.parent \notin r.acked

Report(i) ==
    /\ AllAcked(i) /\ ~node[i].reported
    /\ node' = [node EXCEPT ![i].reported = TRUE]
    /\ send' = IF i # root THEN Queue(i, {node[i].parent}, Ack) ELSE send
    /\ UNCHANGED <<root, weight, channel>>

AckSteps == \E i \in Nodes : Report(i) \/ \E j \in Nodes : AckSend(i, j) \/ AckReceive(i, j)

\* When the root reports, everything it reaches has the value and has reported, and
\* nothing is under way.
RootReportsLast ==
    node[root].reported =>
        /\ \A i \in Reached : node[i].reported /\ node[i].val = Value
        /\ \A i, j \in Nodes : send[i][j] = <<>> /\ channel[i][j] = <<>>

AckDone == node[root].reported
=============================================================================
