------------------------------ MODULE TcpSetup ------------------------------
(***************************************************************************)
(* How descriptors reach tcp_connection_automata: the acceptor, the        *)
(* connector, and the connection_init_automaton each of them creates to    *)
(* hand a descriptor over, with the creations, bindings and destructions   *)
(* the system carries out in between.  Connections are destroyed at any    *)
(* time; one whose creator is destroyed takes its helpers with it.         *)
(***************************************************************************)
EXTENDS Naturals, Sequences, FiniteSets, SequencesExt

CONSTANTS
    Conns,        \* the connection automata
    Called,       \* the one the connector is for
    Fds,          \* the descriptors (bound of the model)
    Helpers,      \* names for the connection_init_automata (bound of the model)
    MaxOffers     \* how often connections are offered, in all (bound of the model)

ASSUME SetupAssumption ==
    /\ Called \in Conns /\ IsFiniteSet(Conns)
    /\ Fds # {} /\ Fds \cap {"-1", "gone"} = {} /\ Helpers # {} /\ MaxOffers \in Nat

VARIABLES
    acceptor,   \* the members of the acceptor, and its actions that are queued
    connector,  \* the same for the connector
    helper,     \* helper[h]: the same for a connection_init_automaton, and where its creation is
    holds,      \* holds[c]: the descriptor of the connection c, or NoFd, or Gone once destroyed
    offers,     \* the connections the acceptor was given, in order (history)
    ignored,    \* the descriptors that were handed to a connection that had one (history)
    opened,     \* the descriptors in use
    closes      \* closes[fd]: how often it was closed

setupVars == <<acceptor, connector, helper, holds, offers, ignored, opened, closes>>

NoFd == "-1"
Gone == "gone"
Free == [state |-> "free"]

\* A helper that the owner asked for: neither it nor its bindings exist yet.
NewHelper(owner, c, fd) ==
    [state |-> "asked", owner |-> owner, conn |-> c, fd |-> fd,
     init |-> "unasked", done |-> "unasked", sched |-> {}]

Live(h) == helper[h].state \in {"START", "SUCCESS", "FAIL", "STOP"}

AcceptorEnabled(r) ==
    {a \in {"error", "schedule_read_ready", "create_helper"} :
        CASE a = "error" -> r.errno /\ ~r.errorReported /\ r.errorBound
          [] a = "schedule_read_ready" ->
                /\ r.state = "SCHEDULE_READ_READY" /\ ~r.errno
                /\ r.connectionQueue # <<>> /\ r.fdQueue = <<>>
          [] a = "create_helper" -> r.connectionQueue # <<>> /\ r.fdQueue # <<>>}

ConnectorEnabled(r) == {a \in {"error"} : r.errno /\ ~r.errorReported /\ r.errorBound}

HelperEnabled(r) ==
    {a \in {"init", "done"} :
        CASE a = "init" -> r.state = "START" /\ r.init = "bound"
          [] a = "done" -> r.state \in {"SUCCESS", "FAIL"} /\ r.done = "bound"}

\* A handler of each automaton leaves the members r and ends with schedule().
AcceptorHandler(a, r) == acceptor' = [r EXCEPT !.sched = (@ \ {a}) \cup AcceptorEnabled(r)]
ConnectorHandler(a, r) == connector' = [r EXCEPT !.sched = (@ \ {a}) \cup ConnectorEnabled(r)]
HelperHandler(a, r) == [r EXCEPT !.sched = (@ \ {a}) \cup HelperEnabled(r)]

\* A name no descriptor, or no helper, has yet.
NewFd == CHOOSE fd \in Fds \ opened : TRUE
AHelper == CHOOSE h \in Helpers : helper[h] = Free

\* The sockets are opened in the constructors, which may fail, and a connect may
\* succeed at once, go on in the background or fail.  The acceptor and the connector
\* share nothing but the connections, so one of them at a time is looked at.
AcceptorInit(there) ==
    \E ok \in BOOLEAN :
        acceptor = [alive |-> there, state |-> "SCHEDULE_READ_READY", errno |-> ~ok,
                    errorReported |-> FALSE, errorBound |-> FALSE,
                    connectionQueue |-> <<>>, fdQueue |-> <<>>, sched |-> {}]

ConnectorInit(there) ==
    \E outcome \in {"connected", "in_progress", "no_socket", "refused"} :
        LET fd == CHOOSE x \in Fds : TRUE
            first == CHOOSE x \in Helpers : TRUE
            socket == there /\ outcome # "no_socket"
        IN
        /\ connector = [alive |-> there, fd |-> IF socket THEN fd ELSE NoFd,
                        errno |-> outcome \in {"no_socket", "refused"},
                        errorReported |-> FALSE, errorBound |-> FALSE,
                        armed |-> there /\ outcome = "in_progress", sched |-> {}]
        /\ helper = [h \in Helpers |-> IF there /\ outcome = "connected" /\ h = first
                                       THEN NewHelper("connector", Called, fd) ELSE Free]
        /\ opened = IF socket THEN {fd} ELSE {}

SetupInit ==
    /\ \E accepts \in BOOLEAN : AcceptorInit(accepts) /\ ConnectorInit(~accepts)
    /\ holds = [c \in Conns |-> NoFd]
    /\ offers = <<>> /\ ignored = {}
    /\ closes = [fd \in Fds |-> 0]
-----------------------------------------------------------------------------
\* accept: the handle of a connection is queued, though it was queued before.
AcceptInput(c) ==
    /\ acceptor.alive
    /\ Len(offers) < MaxOffers
    /\ AcceptorHandler("none", [acceptor EXCEPT !.connectionQueue = Append(@, c)])
    /\ offers' = Append(offers, c)
    /\ UNCHANGED <<connector, helper, holds, ignored, opened, closes>>

AcceptorScheduleReadReady ==
    LET a == "schedule_read_ready" IN
    /\ a \in acceptor.sched
    /\ a \in AcceptorEnabled(acceptor)
    /\ AcceptorHandler(a, [acceptor EXCEPT !.state = "READ_READY_WAIT"])
    /\ UNCHANGED <<connector, helper, holds, offers, ignored, opened, closes>>

\* A peer calls: the descriptor is ready and the acceptor accepts, or fails to.
AcceptorReadReady(ok) ==
    /\ acceptor.alive /\ acceptor.state = "READ_READY_WAIT" /\ ~acceptor.errno
    /\ opened # Fds
    /\ AcceptorHandler("none", [acceptor EXCEPT !.state = "SCHEDULE_READ_READY",
                                                !.fdQueue = IF ok THEN Append(@, NewFd) ELSE @,
                                                !.errno = ~ok])
    /\ opened' = IF ok THEN opened \cup {NewFd} ELSE opened
    /\ UNCHANGED <<connector, helper, holds, offers, ignored, closes>>

\* The first connection and the first descriptor are given to a new helper.
AcceptorCreateHelper ==
    LET a == "create_helper" IN
    /\ a \in acceptor.sched
    /\ a \in AcceptorEnabled(acceptor)
    /\ \E h \in Helpers : helper[h] = Free
    /\ helper' = [helper EXCEPT ![AHelper] = NewHelper("acceptor", Head(acceptor.connectionQueue),
                                                 Head(acceptor.fdQueue))]
    /\ AcceptorHandler(a, [acceptor EXCEPT !.connectionQueue = Tail(@), !.fdQueue = Tail(@)])
    /\ UNCHANGED <<connector, holds, offers, ignored, opened, closes>>

\* The asynchronous connect of the connector ended.
ConnectorWriteReady(ok) ==
    /\ connector.alive /\ connector.armed
    /\ ConnectorHandler("none", [connector EXCEPT !.armed = FALSE, !.errno = ~ok])
    /\ helper' = IF ok THEN [helper EXCEPT ![AHelper] = NewHelper("connector", Called, connector.fd)]
                 ELSE helper
    /\ UNCHANGED <<acceptor, holds, offers, ignored, opened, closes>>

\* The users bind the error outputs, which queues them, and are told of the errors.
BindError ==
    /\ \/ /\ acceptor.alive /\ ~acceptor.errorBound
          /\ acceptor' = [acceptor EXCEPT !.errorBound = TRUE, !.sched = @ \cup {"error"}]
          /\ UNCHANGED connector
       \/ /\ connector.alive /\ ~connector.errorBound
          /\ connector' = [connector EXCEPT !.errorBound = TRUE, !.sched = @ \cup {"error"}]
          /\ UNCHANGED acceptor
    /\ UNCHANGED <<helper, holds, offers, ignored, opened, closes>>

AcceptorError ==
    LET a == "error" IN
    /\ a \in acceptor.sched \cap AcceptorEnabled(acceptor)
    /\ AcceptorHandler(a, [acceptor EXCEPT !.errorReported = TRUE])
    /\ UNCHANGED <<connector, helper, holds, offers, ignored, opened, closes>>

ConnectorError ==
    LET a == "error" IN
    /\ a \in connector.sched \cap ConnectorEnabled(connector)
    /\ ConnectorHandler(a, [connector EXCEPT !.errorReported = TRUE])
    /\ UNCHANGED <<acceptor, helper, holds, offers, ignored, opened, closes>>

\* A queued action that is no longer enabled leaves its queue.
SetupRunDisabled ==
    /\ \/ /\ acceptor.sched \ AcceptorEnabled(acceptor) # {}
          /\ acceptor' = [acceptor EXCEPT !.sched = @ \cap AcceptorEnabled(acceptor)]
          /\ UNCHANGED <<connector, helper>>
       \/ /\ connector.sched \ ConnectorEnabled(connector) # {}
          /\ connector' = [connector EXCEPT !.sched = @ \cap ConnectorEnabled(connector)]
          /\ UNCHANGED <<acceptor, helper>>
       \/ \E h \in Helpers :
            /\ Live(h) /\ helper[h].sched \ HelperEnabled(helper[h]) # {}
            /\ helper' = [helper EXCEPT ![h].sched = @ \cap HelperEnabled(helper[h])]
            /\ UNCHANGED <<acceptor, connector>>
    /\ UNCHANGED <<holds, offers, ignored, opened, closes>>
-----------------------------------------------------------------------------
\* The system creates the helper, whose constructor asks to bind init.
CreateHelper(h) ==
    /\ helper[h].state = "asked"
    /\ helper' = [helper EXCEPT ![h].state = "START", ![h].init = "asked"]
    /\ UNCHANGED <<acceptor, connector, holds, offers, ignored, opened, closes>>

\* The owner learns the handle and its binding manager asks to bind done.
HelperCreated(h) ==
    /\ Live(h) /\ helper[h].done = "unasked"
    /\ helper' = [helper EXCEPT ![h].done = "asked"]
    /\ UNCHANGED <<acceptor, connector, holds, offers, ignored, opened, closes>>

\* The input init of the connection c is bound to another helper than h.
Occupied(c, h) ==
    \E k \in Helpers \ {h} : Live(k) /\ helper[k].conn = c /\ helper[k].init = "bound"

\* The system binds init, or answers that the connection does not exist or that its
\* init is not available: the helper fails.
BindInit(h) ==
    /\ Live(h) /\ helper[h].init = "asked"
    /\ LET r == helper[h] IN
       helper' = [helper EXCEPT ![h] =
          IF holds[r.conn] # Gone /\ ~Occupied(r.conn, h)
          THEN [r EXCEPT !.init = "bound", !.sched = @ \cup {"init"}]
          ELSE HelperHandler("none", [r EXCEPT !.init = "failed", !.state = "FAIL"])]
    /\ UNCHANGED <<acceptor, connector, holds, offers, ignored, opened, closes>>

BindDone(h) ==
    /\ Live(h) /\ helper[h].done = "asked"
    /\ helper' = [helper EXCEPT ![h].done = "bound", ![h].sched = @ \cup {"done"}]
    /\ UNCHANGED <<acceptor, connector, holds, offers, ignored, opened, closes>>

\* init hands the descriptor over; the connection takes it if it has none, and the
\* helper, which does not learn of it, has succeeded.
HelperInit(h) ==
    LET r == helper[h] IN
    /\ Live(h)
    /\ "init" \in r.sched \cap HelperEnabled(r)
    /\ helper' = [helper EXCEPT ![h] = HelperHandler("init", [r EXCEPT !.state = "SUCCESS"])]
    /\ holds' = [holds EXCEPT ![r.conn] = IF @ = NoFd THEN r.fd ELSE @]
    /\ ignored' = IF holds[r.conn] = NoFd THEN ignored ELSE ignored \cup {r.fd}
    /\ UNCHANGED <<acceptor, connector, offers, opened, closes>>

Close(fds) == closes' = [fd \in Fds |-> IF fd \in fds THEN closes[fd] + 1 ELSE closes[fd]]

\* The descriptor a helper gives back with done (in the mutant, also after success).
ReturnedAlways(r) == {r.fd}
Returned(r) == IF r.state = "FAIL" THEN {r.fd} ELSE {}

\* The helper h of owner tells it with done what became of the descriptor.
Done(h, owner) ==
    /\ Live(h) /\ helper[h].owner = owner
    /\ "done" \in helper[h].sched \cap HelperEnabled(helper[h])

\* The acceptor recycles what could not be handed over, and destroys the helper.
AcceptorDone(h) ==
    /\ Done(h, "acceptor")
    /\ AcceptorHandler("none", [acceptor EXCEPT
          !.fdQueue = IF Returned(helper[h]) # {} THEN Append(@, helper[h].fd) ELSE @])
    /\ helper' = [helper EXCEPT ![h] = Free]
    /\ UNCHANGED <<connector, holds, offers, ignored, opened, closes>>

\* The connector closes it, and keeps the helper.
ConnectorDone(h) ==
    /\ Done(h, "connector")
    /\ ConnectorHandler("none", connector)
    /\ helper' = [helper EXCEPT ![h] = HelperHandler("done", [@ EXCEPT !.state = "STOP"])]
    /\ Close(Returned(helper[h]))
    /\ UNCHANGED <<acceptor, holds, offers, ignored, opened>>

\* A connection is destroyed: it closes its descriptor and its bindings go.
DestroyConnection(c) ==
    /\ holds[c] # Gone
    /\ holds' = [holds EXCEPT ![c] = Gone]
    /\ Close({holds[c]})
    /\ helper' = [h \in Helpers |->
          IF Live(h) /\ helper[h].conn = c /\ helper[h].init = "bound"
          THEN [helper[h] EXCEPT !.init = "unbound", !.sched = @ \cup {"init"}] ELSE helper[h]]
    /\ UNCHANGED <<acceptor, connector, offers, ignored, opened>>

\* The helpers of an owner go with it; they close nothing.
WithoutHelpersOf(owner) ==
    [h \in Helpers |-> IF helper[h] # Free /\ helper[h].owner = owner THEN Free ELSE helper[h]]

DestroyAcceptor ==
    /\ acceptor.alive
    /\ acceptor' = [acceptor EXCEPT !.alive = FALSE, !.sched = {}, !.fdQueue = <<>>]
    /\ Close(ToSet(acceptor.fdQueue))
    /\ helper' = WithoutHelpersOf("acceptor")
    /\ UNCHANGED <<connector, holds, offers, ignored, opened>>

DestroyConnector ==
    /\ connector.alive
    /\ connector' = [connector EXCEPT !.alive = FALSE, !.sched = {}, !.armed = FALSE]
    /\ Close({connector.fd})
    /\ helper' = WithoutHelpersOf("connector")
    /\ UNCHANGED <<acceptor, holds, offers, ignored, opened>>

SetupSteps ==
    \/ AcceptorScheduleReadReady \/ AcceptorCreateHelper \/ AcceptorError \/ ConnectorError
    \/ SetupRunDisabled
    \/ \E h \in Helpers :
        \/ CreateHelper(h) \/ HelperCreated(h) \/ BindInit(h) \/ BindDone(h)
        \/ HelperInit(h) \/ AcceptorDone(h) \/ ConnectorDone(h)

SetupInputs ==
    \/ BindError \/ DestroyAcceptor \/ DestroyConnector
    \/ \E c \in Conns : AcceptInput(c) \/ DestroyConnection(c)
    \/ \E ok \in BOOLEAN : AcceptorReadReady(ok) \/ ConnectorWriteReady(ok)

SetupSpec == SetupInit /\ [][SetupSteps \/ SetupInputs]_setupVars
-----------------------------------------------------------------------------
SetupTypeOK ==
    /\ acceptor.connectionQueue \in Seq(Conns) /\ acceptor.fdQueue \in Seq(Fds)
    /\ acceptor.sched \subseteq {"error", "schedule_read_ready", "create_helper"}
    /\ connector.sched \subseteq {"error"} /\ connector.fd \in Fds \cup {NoFd}
    /\ \A h \in Helpers : helper[h] # Free =>
          /\ helper[h].state \in {"asked", "START", "SUCCESS", "FAIL", "STOP"}
          /\ helper[h].conn \in Conns /\ helper[h].fd \in Fds
          /\ helper[h].init \in {"unasked", "asked", "bound", "unbound", "failed"}
          /\ helper[h].done \in {"unasked", "asked", "bound"}
          /\ helper[h].sched \subseteq {"init", "done"}
    /\ holds \in [Conns -> Fds \cup {NoFd, Gone}]
    /\ offers \in Seq(Conns) /\ ignored \subseteq Fds
    /\ opened \subseteq Fds

\* What is enabled in an acceptor, a connector or a helper is queued, whichever of
\* the bindings, answers and inputs came last.
SetupEnabledScheduled ==
    /\ acceptor.alive => AcceptorEnabled(acceptor) \subseteq acceptor.sched
    /\ connector.alive => ConnectorEnabled(connector) \subseteq connector.sched
    /\ \A h \in Helpers : Live(h) => HelperEnabled(helper[h]) \subseteq helper[h].sched

\* Where the descriptor fd is held.
Holders(fd) ==
    {<<"queue", i>> : i \in {j \in DOMAIN acceptor.fdQueue : acceptor.fdQueue[j] = fd}}
    \cup {<<"helper", h>> : h \in {k \in Helpers :
            helper[k] # Free /\ helper[k].fd = fd /\ helper[k].state \in {"asked", "START", "FAIL"}}}
    \cup {<<"connection", c>> : c \in {k \in Conns : holds[k] = fd}}

\* The connections that were offered more than once.
OfferedAgain == {c \in Conns : \E i, j \in DOMAIN offers : i # j /\ offers[i] = c /\ offers[j] = c}

\* A descriptor the acceptor accepted is never held in two places nor closed while it
\* is held.  While the acceptor lives it is held in one place or was closed once,
\* whichever handovers failed, unless a connection that had a descriptor was given it
\* too: then it is lost, which needs a connection that was offered more than once.
\* (Destroying the acceptor may lose what its helpers hold.  The descriptor of the
\* connector is another matter: its destructor closes it again.)
DescriptorsHeldOnce ==
    \A fd \in opened \ {connector.fd} :
        LET places == Cardinality(Holders(fd)) + closes[fd] IN
        /\ places <= 1
        /\ acceptor.alive => (places = 0 <=> fd \in ignored)
        /\ fd \in ignored => OfferedAgain # {}

\* The helper h has handed over or given back what it had, or its connection was
\* destroyed meanwhile.
HandedOver(h) ==
    helper[h] = Free \/ helper[h].state = "STOP" \/ holds[helper[h].conn] = Gone
=============================================================================
