------------------------------ MODULE TcpRing -------------------------------
(***************************************************************************)
(* tcp_ring_automaton: it keeps an acceptor with a connection for its      *)
(* predecessor, and a connection to its successor with a connector, makes  *)
(* new ones when they fail, and passes messages on.  All four are reached  *)
(* through managers: a manager that is asked to destroy its automaton lives*)
(* on until the system has done so, and what the automaton reports in the  *)
(* meantime still arrives.                                                 *)
(*                                                                         *)
(* The accepting and the connecting half share no member, so one of them   *)
(* at a time is looked at; schedule() finds the other's actions queued     *)
(* already.  The ten seconds before a retry may be over at any time.       *)
(***************************************************************************)
EXTENDS Naturals

CONSTANTS
    Listeners,   \* names for the managers of acceptors and connectors
    Links,       \* names for the managers of connections (bounds of the model)
    MaxMessages  \* messages held, in each of the two queues (bound of the model)

ASSUME RingAssumption ==
    /\ Listeners \cap Links = {} /\ {"0", "held"} \cap (Listeners \cup Links) = {}
    /\ MaxMessages \in Nat

VARIABLES
    ring,      \* the members of the automaton, and whether it was aborted
    managed,   \* managed[s]: a manager with what matters of its automaton and its bindings
    ringSched  \* the actions in the scheduler's queue

ringVars == <<ring, managed, ringSched>>

Null == "0"
Unused == [life |-> "unused"]
Slots == Listeners \cup Links

\* A manager that asked for its automaton.  fd: who may hand a descriptor to the
\* connection, or "held"; told: what it reported.
NewManager == [life |-> "asked", bound |-> FALSE, fd |-> Null, told |-> {}, outstanding |-> 0]

Is(m, s, life) == s # Null /\ m[s].life = life

Halves == [accepting |-> {"create_acceptor", "create_predecessor", "accept", "receive"},
           connecting |-> {"create_successor", "connect", "send_successor"}]

\* What there is to schedule for the members r: actions with their parameters.
Parameter(name, r) ==
    CASE name = "accept" -> r.acceptor
      [] name = "send_successor" -> r.successor
      [] OTHER -> Null

\* The precondition of action a for the members r and the managers m.
RingPrecondition(a, r, m) ==
    LET s == a[2] IN
    CASE a[1] = "create_acceptor" -> r.acceptor = Null
      [] a[1] = "create_predecessor" -> r.predecessor = Null
      [] a[1] = "create_successor" -> r.successor = Null
      [] a[1] = "accept" -> /\ s = r.acceptor /\ ~r.acceptFlag
                            /\ Is(m, r.predecessor, "created")
                            /\ s # Null /\ m[s].bound
      [] a[1] = "connect" -> r.connector = Null /\ Is(m, r.successor, "created")
      [] a[1] = "send_successor" -> /\ s = r.successor /\ r.successorConnected
                                    /\ r.clearToSend /\ r.send > 0
                                    /\ s # Null /\ m[s].bound
      [] a[1] = "receive" -> r.recv > 0 /\ r.receiveBound
      [] a[1] = "retry_acceptor" -> r.acceptor # Null
      [] a[1] = "retry_connector" -> r.connector # Null

\* What schedule() puts in the scheduler's queue.
RingSchedule(r, m) ==
    {a \in {<<name, Parameter(name, r)>> : name \in Halves[r.half]} : RingPrecondition(a, r, m)}

\* The constructor sets no member but the addresses: a pointer that is not null by
\* chance ends the program at once and is left out, a flag may have either value.
RingInit ==
    /\ \E half \in DOMAIN Halves, accepted, connected, clear \in BOOLEAN :
        /\ half = "accepting" => ~connected /\ ~clear
        /\ half = "connecting" => ~accepted
        /\ ring = [half |-> half, aborted |-> "no", garbage |-> connected,
                   acceptor |-> Null, predecessor |-> Null, acceptFlag |-> accepted,
                   successor |-> Null, connector |-> Null,
                   successorConnected |-> connected, clearToSend |-> clear,
                   send |-> 0, recv |-> 0, receiveBound |-> FALSE]
    /\ managed = [s \in Slots |-> Unused]
    /\ ringSched = RingSchedule(ring, managed)

\* A handler of action a leaves the members r and the managers m and ends with schedule().
RingHandler(a, r, m) ==
    /\ ring' = r
    /\ managed' = m
    /\ ringSched' = (ringSched \ {a}) \cup RingSchedule(r, m)

RingRuns(a) == a \in ringSched /\ RingPrecondition(a, ring, managed)
Plain(name) == <<name, Null>>
Input == Plain("input")

\* An assertion fails, for a report of a connection (link) or of an acceptor or
\* connector (listener), or a null pointer is followed.
Abort(why) == ring' = [ring EXCEPT !.aborted = why] /\ UNCHANGED <<managed, ringSched>>

AName(names) == CHOOSE s \in names : managed[s] = Unused
AnyName(names) == \E s \in names : managed[s] = Unused

Destroying(names) ==
    [s \in Slots |-> IF s \in names THEN [managed[s] EXCEPT !.life = "ending"] ELSE managed[s]]
-----------------------------------------------------------------------------
CreateAcceptor ==
    LET a == Plain("create_acceptor")
        s == AName(Listeners)
    IN
    /\ RingRuns(a) /\ AnyName(Listeners)
    /\ RingHandler(a, [ring EXCEPT !.acceptor = s], [managed EXCEPT ![s] = NewManager])

\* The acceptor failed: it is replaced ten seconds later.
AcceptorFails(s) ==
    /\ managed[s].life \in {"created", "ending"} /\ "error" \notin managed[s].told
    /\ ring.half = "accepting"
    /\ IF s # ring.acceptor THEN Abort("listener")
       ELSE LET m == [managed EXCEPT ![s].told = @ \cup {"error"}] IN
            /\ ring' = ring /\ managed' = m
            /\ ringSched' = ringSched \cup {Plain("retry_acceptor")} \cup RingSchedule(ring, m)

\* The predecessor goes with the acceptor.
RetryAcceptor ==
    LET a == Plain("retry_acceptor") IN
    /\ RingRuns(a)
    /\ RingHandler(a, [ring EXCEPT !.acceptor = Null, !.predecessor = Null, !.acceptFlag = FALSE],
               Destroying({ring.acceptor, ring.predecessor}))

CreatePredecessor ==
    LET a == Plain("create_predecessor")
        s == AName(Links)
    IN
    /\ RingRuns(a) /\ AnyName(Links)
    /\ RingHandler(a, [ring EXCEPT !.predecessor = s, !.acceptFlag = FALSE],
               [managed EXCEPT ![s] = NewManager])

\* The output accept gives the acceptor the handle of the predecessor.
Accept ==
    \E s \in Listeners :
        LET a == <<"accept", s>> IN
        /\ RingRuns(a)
        /\ RingHandler(a, [ring EXCEPT !.acceptFlag = TRUE],
                   [managed EXCEPT ![ring.predecessor].fd = s])

\* A connection with a descriptor reports e, once.
Reports(s, e) ==
    /\ managed[s].life \in {"created", "ending"} /\ managed[s].fd = "held"
    /\ e \notin managed[s].told

Told(s, e) == [managed EXCEPT ![s].told = @ \cup {e}]

PredecessorConnected(s) ==
    /\ ring.half = "accepting" /\ Reports(s, "connected")
    /\ IF s # ring.predecessor THEN Abort("link")
       ELSE RingHandler(Input, ring, Told(s, "connected"))

PredecessorError(s) ==
    /\ ring.half = "accepting" /\ Reports(s, "error")
    /\ IF s # ring.predecessor THEN Abort("link")
       ELSE RingHandler(Input, [ring EXCEPT !.predecessor = Null, !.acceptFlag = FALSE],
                        Destroying({s}))

\* What arrives from a connection that is no more the predecessor is dropped.
ReceivePredecessor(s) ==
    /\ ring.half = "accepting"
    /\ managed[s].life \in {"created", "ending"} /\ managed[s].fd = "held"
    /\ ring.recv < MaxMessages
    /\ RingHandler(Input, [ring EXCEPT !.recv = IF s = ring.predecessor THEN @ + 1 ELSE @], managed)

ReceiveOutput ==
    LET a == Plain("receive") IN
    /\ RingRuns(a)
    /\ RingHandler(a, [ring EXCEPT !.recv = @ - 1], managed)

\* The user binds receive, which schedules it.
BindReceive ==
    /\ ring.half = "accepting" /\ ~ring.receiveBound
    /\ ring' = [ring EXCEPT !.receiveBound = TRUE]
    /\ ringSched' = ringSched \cup {Plain("receive")}
    /\ UNCHANGED managed
-----------------------------------------------------------------------------
CreateSuccessor ==
    LET a == Plain("create_successor")
        s == AName(Links)
    IN
    /\ RingRuns(a) /\ AnyName(Links)
    /\ RingHandler(a, [ring EXCEPT !.successor = s], [managed EXCEPT ![s] = NewManager])

\* The connector is made with the handle of the successor.
Connect ==
    LET a == Plain("connect")
        s == AName(Listeners)
    IN
    /\ RingRuns(a) /\ AnyName(Listeners)
    /\ RingHandler(a, [ring EXCEPT !.connector = s],
               [managed EXCEPT ![s] = NewManager, ![ring.successor].fd = s])

\* The connector failed, and will hand nothing over: another is made ten seconds later.
ConnectorFails(s) ==
    /\ managed[s].life \in {"created", "ending"} /\ "error" \notin managed[s].told
    /\ ring.half = "connecting"
    /\ \E t \in Links : managed[t] # Unused /\ managed[t].fd = s
    /\ IF s # ring.connector THEN Abort("listener")
       ELSE LET m == Told(s, "error") IN
            /\ ring' = ring /\ managed' = m
            /\ ringSched' = ringSched \cup {Plain("retry_connector")} \cup RingSchedule(ring, m)

RetryConnector ==
    LET a == Plain("retry_connector") IN
    /\ RingRuns(a)
    /\ RingHandler(a, [ring EXCEPT !.connector = Null], Destroying({ring.connector}))

SuccessorConnected(s) ==
    /\ ring.half = "connecting" /\ Reports(s, "connected")
    /\ IF s # ring.successor THEN Abort("link")
       ELSE RingHandler(Input, [ring EXCEPT !.successorConnected = TRUE, !.clearToSend = TRUE],
                        Told(s, "connected"))

\* The connector goes with the successor.
SuccessorError(s) ==
    /\ ring.half = "connecting" /\ Reports(s, "error")
    /\ IF s # ring.successor THEN Abort("link")
       ELSE IF ring.connector = Null THEN Abort("null")
       ELSE RingHandler(Input, [ring EXCEPT !.successor = Null, !.connector = Null,
                                           !.successorConnected = FALSE],
                        Destroying({s, ring.connector}))

SendSuccessor ==
    \E s \in Links :
        LET a == <<"send_successor", s>> IN
        /\ RingRuns(a)
        /\ RingHandler(a, [ring EXCEPT !.clearToSend = FALSE, !.send = @ - 1],
                   [managed EXCEPT ![s].outstanding = @ + 1])

\* The connection has written all; an earlier successor's report changes nothing.
SuccessorSendComplete(s) ==
    /\ managed[s].life \in {"created", "ending"} /\ managed[s].fd = "held"
    /\ managed[s].outstanding > 0
    /\ RingHandler(Input, [ring EXCEPT !.clearToSend = (s = ring.successor) \/ @],
               [managed EXCEPT ![s].outstanding = @ - 1])

\* The user's messages are dropped unless the successor is connected.
SendInputOfRing ==
    /\ ring.half = "connecting" /\ ring.send < MaxMessages
    /\ RingHandler(Input, [ring EXCEPT !.send = IF ring.successorConnected THEN @ + 1 ELSE @], managed)
-----------------------------------------------------------------------------
\* A queued action that is no longer enabled leaves the queue.
RingRunDisabled ==
    /\ \E a \in ringSched : /\ ~RingPrecondition(a, ring, managed)
                            /\ ringSched' = ringSched \ {a}
    /\ UNCHANGED <<ring, managed>>

\* observe(): the automaton observes the managers of its connections.
ObserveManager(s, m) == IF s \in Links THEN RingSchedule(ring, m) ELSE {}

\* The system creates the automaton.
ManagedCreated(s) ==
    LET m == [managed EXCEPT ![s].life = "created"] IN
    /\ managed[s].life = "asked"
    /\ managed' = m
    /\ ringSched' = ringSched \cup ObserveManager(s, m)
    /\ UNCHANGED ring

OutputTo(s) == <<IF s \in Listeners THEN "accept" ELSE "send_successor", s>>

\* The system binds accept to an acceptor or send_successor to a successor, which
\* schedules it.
BindManaged(s) ==
    /\ managed[s].life = "created" /\ ~managed[s].bound
    /\ ring.half = IF s \in Listeners THEN "accepting" ELSE "connecting"
    /\ managed' = [managed EXCEPT ![s].bound = TRUE]
    /\ ringSched' = ringSched \cup {OutputTo(s)}
    /\ UNCHANGED ring

\* A descriptor reaches the connection that its acceptor or connector was given.
HandOver(t) ==
    /\ managed[t].life \in {"created", "ending"} /\ managed[t].fd \in Listeners
    /\ LET s == managed[t].fd IN
        /\ managed[s].life \in {"created", "ending"}
        /\ ring.half = "connecting" => "error" \notin managed[s].told
    /\ managed' = [managed EXCEPT ![t].fd = "held"]
    /\ UNCHANGED <<ring, ringSched>>

\* The system destroys the automaton, and the manager goes: its output is unbound,
\* which schedules it, and nothing is handed over by it any more.
ManagedDestroyed(s) ==
    LET m == [t \in Slots |->
                IF t = s THEN Unused
                ELSE IF managed[t] # Unused /\ managed[t].fd = s
                     THEN [managed[t] EXCEPT !.fd = Null] ELSE managed[t]]
    IN
    /\ managed[s].life = "ending"
    /\ managed' = m
    /\ ringSched' = ringSched \cup ObserveManager(s, m)
                              \cup {a \in {OutputTo(s)} : managed[s].bound}
    /\ UNCHANGED ring

RingRunning == ring.aborted = "no"

RingSteps ==
    /\ RingRunning
    /\ \/ CreateAcceptor \/ RetryAcceptor \/ CreatePredecessor \/ Accept \/ ReceiveOutput
       \/ CreateSuccessor \/ Connect \/ RetryConnector \/ SendSuccessor
       \/ RingRunDisabled
       \/ \E s \in Slots : ManagedCreated(s) \/ BindManaged(s) \/ ManagedDestroyed(s)

RingInputs ==
    /\ RingRunning
    /\ \/ BindReceive \/ SendInputOfRing
       \/ \E s \in Listeners : AcceptorFails(s) \/ ConnectorFails(s)
       \/ \E s \in Links :
            \/ HandOver(s)
            \/ PredecessorConnected(s) \/ PredecessorError(s) \/ ReceivePredecessor(s)
            \/ SuccessorConnected(s) \/ SuccessorError(s) \/ SuccessorSendComplete(s)

RingSpec == RingInit /\ [][RingSteps \/ RingInputs]_ringVars
-----------------------------------------------------------------------------
RingTypeOK ==
    /\ ring \in [half : DOMAIN Halves, aborted : {"no", "link", "listener", "null"}, garbage : BOOLEAN,
                 acceptor : Listeners \cup {Null}, predecessor : Links \cup {Null},
                 acceptFlag : BOOLEAN,
                 successor : Links \cup {Null}, connector : Listeners \cup {Null},
                 successorConnected : BOOLEAN, clearToSend : BOOLEAN,
                 send : 0..MaxMessages, recv : 0..MaxMessages, receiveBound : BOOLEAN]
    /\ \A s \in Slots :
        managed[s] = Unused \/ managed[s] \in
            [life : {"asked", "created", "ending"}, bound : BOOLEAN,
             fd : Listeners \cup {Null, "held"}, told : SUBSET {"connected", "error"},
             outstanding : 0..2]

\* What is enabled is queued, whichever of the reports, creations and bindings came
\* last: schedule(), the observed managers and the bindings suffice.
RingEnabledScheduled == RingRunning => RingSchedule(ring, managed) \subseteq ringSched

\* The automaton refers to a manager exactly as long as it has not asked it to
\* destroy its automaton: none is forgotten with a socket that stays open, none is
\* asked or followed after it is gone; up to the failure of one of the assertions of
\* LinkAssertionsHold, no null pointer is followed and no acceptor or connector
\* fails that the automaton no longer knows.
RingManagersAgree ==
    /\ ring.aborted \notin {"listener", "null"}
    /\ \A s \in Slots :
        (managed[s].life \in {"asked", "created"}) <=>
        (s \in {ring.acceptor, ring.predecessor, ring.successor, ring.connector})

\* "assert (m_predecessor == p);" and "assert (s == m_successor);"
\* (tcp_ring_automaton.hpp, in the effects of predecessor_connected,
\* predecessor_error, successor_connected, successor_error): only the connection
\* that is the predecessor or successor now reports that it is connected or failed.
LinkAssertionsHold == ring.aborted # "link"

\* A connection is not given a message before it has completed the one before,
\* though reports of earlier successors arrive late.  If the flags the constructor
\* leaves undefined begin with a connected successor, one more may be under way.
OneMessageOutstanding ==
    \A s \in Links :
        managed[s] = Unused \/ managed[s].outstanding <= IF ring.garbage THEN 2 ELSE 1
=============================================================================
