------------------------------ MODULE MCParts -------------------------------
(***************************************************************************)
(* The parts of the system that do without the rest, each by itself, in    *)
(* one model: which part moves is chosen at the start and the others stay  *)
(* as they are.                                                            *)
(***************************************************************************)
EXTENDS SequentialSet, TcpConnection, TcpSetup, Udp, Managers, TcpRing

CONSTANTS
    LcrSize, PetersonSize,    \* the automata in a ring
    NetworkNodes,             \* the automata of a network
    LongestLink               \* the greatest weight of a link

\* "-1" is the parent of an automaton that has none.
ASSUME PartsAssumption ==
    /\ LcrSize \in Nat \ {0} /\ PetersonSize \in Nat \ {0}
    /\ IsFiniteSet(NetworkNodes) /\ "-1" \notin NetworkNodes
    /\ LongestLink \in Nat \ {0}

VARIABLES
    part,                             \* the part that moves
    node, channel, elected, inits,    \* a ring
    root, weight, send                \* and with node and channel: a network

partsVars == <<part, setVars, connVars, setupVars, udpVars, managerVars, ringVars,
               node, channel, elected, inits, root, weight, send>>

MCUses == [c \in {"a", "b"} |-> IF c = "a" THEN {"send_complete", "connected"}
                                ELSE {"receive", "error"}]
MCSends == [c \in {"a", "b"} |-> IF c = "a" THEN {2} ELSE {}]
MCBinds == [b \in {"b1", "b2"} |->
              [side \in {"output", "input"} |->
                IF b = "b1" THEN IF side = "output" THEN "a1" ELSE "a2"
                ELSE IF side = "output" THEN "a2" ELSE "self"]]

L == INSTANCE LcrRing WITH N <- LcrSize, MaxInits <- 1
P == INSTANCE PetersonRing WITH N <- PetersonSize
T == INSTANCE SpanningTree WITH Nodes <- NetworkNodes, MaxWeight <- 1
S == INSTANCE ShortestPaths WITH Nodes <- NetworkNodes, MaxWeight <- LongestLink
A == INSTANCE BcastAck WITH Nodes <- NetworkNodes, MaxWeight <- 1

Rings == {"lcr", "peterson"}
Networks == {"tree", "paths", "ack"}
UdpParts == {"sender", "receiver"}
Parts == {"ids", "connection", "setup", "managers", "tcp ring"} \cup UdpParts \cup Rings \cup Networks
-----------------------------------------------------------------------------
\* A part that does not move is in one of its initial states.  The sender is looked
\* at with its unbindings and without a receiver, then with a receiver and without
\* unbindings: the two share only the network.
OneInit ==
    /\ part # "setup" => acceptor.alive /\ ~acceptor.errno /\ ~connector.errno
    /\ part \notin UdpParts => ~sender.errno
    /\ part # "receiver" => ~receiver.errno
    /\ part # "tcp ring" => /\ ring.half = "connecting"
                            /\ ~ring.successorConnected /\ ~ring.clearToSend
    /\ unboundCount = IF part = "receiver" THEN MaxUnbound ELSE 0

NoElection == node = <<>> /\ channel = <<>> /\ elected = {} /\ inits = 0
NoNetwork == root = "none" /\ weight = <<>> /\ send = <<>>

\* Nothing depends on where in a ring the numbers begin: the first is the strongest.
ElectionInit ==
    /\ NoNetwork
    /\ \/ part = "lcr" /\ L!LcrInit /\ node[0].u = LcrSize
       \/ part = "peterson" /\ P!PetersonInit /\ node[0].uid[1] = PetersonSize /\ inits = 0

NetworkInit ==
    /\ elected = {} /\ inits = 0
    /\ \/ part = "tree" /\ T!TreeInit
       \/ part = "paths" /\ (S!BfsInit \/ S!BellmanFordInit)
       \/ part = "ack" /\ A!AckInit

PartsInit ==
    /\ part \in Parts
    /\ Init /\ ConnInit /\ SetupInit /\ UdpInit /\ ManagersInit /\ RingInit
    /\ OneInit
    /\ IF part \in Rings THEN ElectionInit
       ELSE IF part \in Networks THEN NetworkInit
       ELSE NoElection /\ NoNetwork

SameIds == UNCHANGED setVars
SameConnection == UNCHANGED connVars
SameSetup == UNCHANGED setupVars
SameUdp == UNCHANGED udpVars
SameManagers == UNCHANGED managerVars
SameRing == UNCHANGED ringVars
SameElection == UNCHANGED <<elected, inits>>
SameNetwork == UNCHANGED <<root, weight, send>>
SameNodes == SameElection /\ SameNetwork /\ UNCHANGED <<node, channel>>
SameDistributed == SameNodes /\ SameRing
SameLibrary == SameConnection /\ SameSetup /\ SameUdp /\ SameManagers

StepIds == /\ part = "ids" /\ Next
           /\ SameLibrary /\ SameDistributed /\ UNCHANGED part
StepConnection == /\ part = "connection" /\ ConnSteps
                  /\ SameIds /\ SameSetup /\ SameUdp /\ SameManagers /\ SameDistributed /\ UNCHANGED part
InputConnection == /\ part = "connection" /\ ConnInputs
                   /\ SameIds /\ SameSetup /\ SameUdp /\ SameManagers /\ SameDistributed /\ UNCHANGED part
StepSetup == /\ part = "setup" /\ SetupSteps
             /\ SameIds /\ SameConnection /\ SameUdp /\ SameManagers /\ SameDistributed /\ UNCHANGED part
InputSetup == /\ part = "setup" /\ SetupInputs
              /\ SameIds /\ SameConnection /\ SameUdp /\ SameManagers /\ SameDistributed /\ UNCHANGED part
StepSender == /\ part \in UdpParts /\ SenderSteps
              /\ SameIds /\ SameConnection /\ SameSetup /\ SameManagers /\ SameDistributed /\ UNCHANGED part
InputUdp == /\ \/ part \in UdpParts /\ SenderInputs
               \/ part = "receiver" /\ (ReceiverSteps \/ ReceiverInputs)
            /\ SameIds /\ SameConnection /\ SameSetup /\ SameManagers /\ SameDistributed /\ UNCHANGED part
StepManagers == /\ part = "managers" /\ ManagersSteps
                /\ SameIds /\ SameConnection /\ SameSetup /\ SameUdp /\ SameDistributed /\ UNCHANGED part
InputManagers == /\ part = "managers" /\ ManagersInputs
                 /\ SameIds /\ SameConnection /\ SameSetup /\ SameUdp /\ SameDistributed /\ UNCHANGED part
StepTcpRing == /\ part = "tcp ring" /\ RingSteps
               /\ SameIds /\ SameLibrary /\ SameNodes /\ UNCHANGED part
InputTcpRing == /\ part = "tcp ring" /\ RingInputs
                /\ SameIds /\ SameLibrary /\ SameNodes /\ UNCHANGED part
StepRing == /\ \/ part = "lcr" /\ L!LcrSteps
               \/ part = "peterson" /\ P!PetersonSteps /\ UNCHANGED inits
            /\ SameIds /\ SameLibrary /\ SameRing /\ SameNetwork /\ UNCHANGED part
InputRing == /\ part = "lcr" /\ L!LcrInputs
             /\ SameIds /\ SameLibrary /\ SameRing /\ SameNetwork /\ UNCHANGED part
StepNetwork == /\ \/ part = "tree" /\ T!TreeSteps
                  \/ part = "paths" /\ S!PathsSteps
                  \/ part = "ack" /\ A!AckSteps
               /\ SameIds /\ SameLibrary /\ SameRing /\ SameElection /\ UNCHANGED part

PartsSteps == \/ StepConnection \/ StepSetup \/ StepSender \/ StepManagers \/ StepTcpRing
              \/ StepRing \/ StepNetwork
PartsInputs == \/ StepIds \/ InputConnection \/ InputSetup \/ InputUdp \/ InputManagers \/ InputTcpRing
               \/ InputRing

\* The scheduler runs what is scheduled: it takes steps as long as there are any.
FairPartsSpec ==
    PartsInit /\ [][PartsSteps \/ PartsInputs]_partsVars /\ WF_partsVars(PartsSteps)
-----------------------------------------------------------------------------
\* Every part's variables have the values they should have: the type invariants.
PartsTypeOK ==
    /\ TypeOK /\ ConnTypeOK /\ SetupTypeOK /\ UdpTypeOK /\ ManagersTypeOK /\ RingTypeOK
    /\ part = "lcr" => L!LcrTypeOK
    /\ part = "peterson" => P!PetersonTypeOK

\* An automaton of lib/tcp_*.cpp and lib/udp_*.cpp, or tcp_ring_automaton, never forgets to schedule an
\* action that is enabled: schedule() at the end of every handler, the scheduling of
\* bound and unbound outputs and the registrations of descriptors together suffice.
EveryEnabledScheduled ==
    ConnEnabledScheduled /\ SetupEnabledScheduled /\ UdpEnabledScheduled /\ RingEnabledScheduled

\* The helpers of binding_manager.hpp and automaton_manager.hpp ask once, and
\* observe each other as long as they have to (observer.cpp); an automaton that uses
\* them (tcp_ring_automaton) refers to each until it asks for its destruction, or
\* one of the assertions of LinkAssertionsHold fails.
HelpersAgree == AsksToBindOnce /\ ObserversAgree /\ RingManagersAgree

\* A message is given to be sent only after the one before it was completed: by each
\* user of the UDP sender while it is bound, and to each successor of
\* tcp_ring_automaton, whose undefined flags can add one message.
OneAtATime == OneOutstandingSend /\ OneMessageOutstanding

\* What an automaton takes on it completes, again and again: bytes are delivered,
\* descriptors handed over, datagrams completed; on every network the spanning tree
\* gets to all the root reaches, distances become the shortest and stay so, and the
\* root of the broadcast reports.  (Only one part moves: the others' conjuncts hold.)
EveryPartProgresses ==
    \A k \in 1..2 :
        []<>(/\ Delivered(<<"a", "b">>[k])
             /\ HandedOver(<<"h1", "h2">>[k])
             /\ Completed(<<"u1", "u2">>[k])
             /\ part = "tree" => T!TreeDone
             /\ part = "paths" => S!PathsDone
             /\ part = "ack" => A!AckDone)

\* asynch_lcr_automaton and peterson_leader_automaton elect as Election says: the
\* strongest, or any, but one and only once, on every ring.
Vote == INSTANCE Election WITH
          candidates <- CASE part = "lcr" -> L!Strongest
                          [] part = "peterson" -> P!Nodes
                          [] OTHER -> {}

ElectsOne == Vote!Spec

\* The parents of the spanning tree, of the shortest paths and of the broadcast are
\* a tree below the root at all times, even with links of weight 0; no distance is
\* too short; and when the root of the broadcast reports, all is done.
WavesSound ==
    /\ part = "tree" => T!Rooted
    /\ part = "paths" => S!Rooted /\ S!NeverTooShort
    /\ part = "ack" => A!Rooted /\ A!RootReportsLast
=============================================================================
