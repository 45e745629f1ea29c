--------------------------------- MODULE Udp ---------------------------------
(***************************************************************************)
(* udp_sender_automaton and udp_receiver_automaton: the sender, which      *)
(* serves several automata, one datagram of each at a time, and forgets    *)
(* those that unbind; the network, which loses, repeats and reorders       *)
(* datagrams; the receiver, which queues what it reads.                    *)
(***************************************************************************)
EXTENDS Naturals, Sequences, FiniteSets, SequencesExt

CONSTANTS
    Users,      \* the automata that send
    Kinds,      \* what is sent: "data", "empty" (no bytes) or "bad" (address)
    MaxSent,    \* datagrams handed to the sender, in all (bound of the model)
    MaxUnbound, \* unbindings, in all (bound of the model)
    MaxQueue    \* datagrams the receiver queues (bound of the model)

ASSUME UdpAssumption == Kinds \subseteq {"data", "empty", "bad"} /\ MaxSent \in Nat

VARIABLES
    sender,     \* the members of the sender, with its queued and registered actions
    bindings,   \* the <<output or input, automaton>> pairs of the sender that are bound
    notices,    \* unbindings the sender has still to be told of, in order
    awaiting,   \* awaiting[u]: whether u waits for a completion since it bound (history)
    network,    \* the datagrams in the network
    receiver,   \* the members of the receiver, with its queued and registered actions
    sentCount, unboundCount

udpVars == <<sender, bindings, notices, awaiting, network, receiver, sentCount, unboundCount>>

Served == {"send", "send_complete"} \X Users

\* The preconditions of the sender; send_complete is an action for each automaton.
SenderEnabled(s, b) ==
    {a \in {"schedule_write_ready", "error"} :
        CASE a = "schedule_write_ready" ->
                ~s.errno /\ s.state = "SCHEDULE_WRITE_READY" /\ s.queue # <<>>
          [] a = "error" -> s.errno /\ ~s.errorReported /\ <<"error", "error">> \in b}
Completable(s, b) == {u \in s.completeSet : <<"send_complete", u>> \in b}

ReceiverEnabled(r) ==
    {a \in {"receive", "error", "schedule_read_ready"} :
        CASE a = "receive" -> r.queue # <<>>
          [] a = "error" -> r.errno /\ ~r.errorReported /\ r.errorBound
          [] a = "schedule_read_ready" -> ~r.errno /\ r.state = "SCHEDULE_READ_READY"}

\* Both sockets are opened in the constructors, which may fail.  The receiver's
\* ends with schedule(), the sender's has nothing to schedule.
SenderInit ==
    \E failed \in BOOLEAN :
        sender = [queue |-> <<>>, sendSet |-> {}, completeSet |-> {},
                  state |-> "SCHEDULE_WRITE_READY", errno |-> failed, errorReported |-> FALSE,
                  sched |-> {}, completing |-> {}, armed |-> FALSE]

ReceiverInit ==
    \E failed \in BOOLEAN :
        LET r == [queue |-> <<>>, state |-> "SCHEDULE_READ_READY", errno |-> failed,
                  errorReported |-> FALSE, errorBound |-> FALSE, sched |-> {}, armed |-> FALSE]
        IN receiver = [r EXCEPT !.sched = ReceiverEnabled(r)]

UdpInit ==
    /\ SenderInit /\ ReceiverInit
    /\ bindings = {} /\ notices = <<>> /\ network = {}
    /\ awaiting = [u \in Users |-> "no"]
    /\ sentCount = 0 /\ unboundCount \in 0..MaxUnbound

\* A handler of the sender leaves the members s, and ends with schedule().
SenderHandler(a, s) == sender' = [s EXCEPT !.sched = (@ \ {a}) \cup SenderEnabled(s, bindings)]
ReceiverHandler(a, r) == receiver' = [r EXCEPT !.sched = (@ \ {a}) \cup ReceiverEnabled(r)]

\* add_to_complete_set also schedules send_complete, which schedule() does not (nor
\* does the mutant).
AddUnscheduled(s, u) == [s EXCEPT !.completeSet = @ \cup {u}]
AddToCompleteSet(s, u) ==
    [s EXCEPT !.completeSet = @ \cup {u}, !.completing = @ \cup {u}]
-----------------------------------------------------------------------------
\* send: taken unless there is an error or the automaton has a datagram or a
\* completion outstanding; a bad address completes at once.
SendDatagram(u, k) ==
    /\ <<"send", u>> \in bindings
    /\ sentCount < MaxSent
    /\ sentCount' = sentCount + 1
    /\ LET taken == ~sender.errno /\ u \notin sender.sendSet \cup sender.completeSet IN
       /\ SenderHandler("none",
             IF ~taken THEN sender
             ELSE IF k = "bad" THEN AddToCompleteSet(sender, u)
             ELSE [sender EXCEPT !.queue = Append(@, <<u, k>>), !.sendSet = @ \cup {u}])
       /\ awaiting' = IF taken THEN [awaiting EXCEPT ![u] = "yes"] ELSE awaiting
    /\ UNCHANGED <<bindings, notices, network, receiver, unboundCount>>

SenderScheduleWriteReady ==
    LET a == "schedule_write_ready" IN
    /\ a \in sender.sched \cap SenderEnabled(sender, bindings)
    /\ SenderHandler(a, [sender EXCEPT !.state = "WRITE_READY_WAIT", !.armed = TRUE])
    /\ UNCHANGED <<bindings, notices, awaiting, network, receiver, sentCount, unboundCount>>

\* The descriptor is ready; the first datagram of the queue, if it was not purged
\* meanwhile, is sent, or an error ends the sending.
SenderWriteReady(ok) ==
    /\ sender.armed
    /\ LET s == [sender EXCEPT !.state = "SCHEDULE_WRITE_READY", !.armed = FALSE]
           item == Head(sender.queue)
           popped == [s EXCEPT !.queue = Tail(@), !.sendSet = @ \ {item[1]}]
       IN  \/ /\ sender.queue = <<>> /\ ok
              /\ SenderHandler("none", s)
              /\ UNCHANGED network
           \/ /\ sender.queue # <<>> /\ ok
              /\ SenderHandler("none", AddToCompleteSet(popped, item[1]))
              /\ network' = network \cup {item}
           \/ /\ sender.queue # <<>> /\ ~ok
              /\ SenderHandler("none", [popped EXCEPT !.errno = TRUE])
              /\ UNCHANGED network
    /\ UNCHANGED <<bindings, notices, awaiting, receiver, sentCount, unboundCount>>

\* send_complete(u) is taken from the scheduler's queue.
SendDatagramComplete(u) ==
    /\ u \in sender.completing
    /\ LET s == [sender EXCEPT !.completing = @ \ {u}] IN
       IF u \in Completable(sender, bindings)
       THEN /\ SenderHandler("none", [s EXCEPT !.completeSet = @ \ {u}])
            /\ awaiting' = [awaiting EXCEPT ![u] = "no"]
       ELSE sender' = s /\ UNCHANGED awaiting
    /\ UNCHANGED <<bindings, notices, network, receiver, sentCount, unboundCount>>

SenderError ==
    LET a == "error" IN
    /\ a \in sender.sched
    /\ IF a \in SenderEnabled(sender, bindings)
       THEN SenderHandler(a, [sender EXCEPT !.errorReported = TRUE])
       ELSE sender' = [sender EXCEPT !.sched = @ \ {a}]
    /\ UNCHANGED <<bindings, notices, awaiting, network, receiver, sentCount, unboundCount>>

\* An output that is bound or unbound is scheduled.
ScheduleOutput(b) ==
    sender' = [sender EXCEPT !.completing = IF b[1] = "send_complete" THEN @ \cup {b[2]} ELSE @,
                             !.sched = IF b[1] = "error" THEN @ \cup {"error"} ELSE @]

\* The system binds, also while unbindings wait to be told: its queue may hold the
\* request to bind before an unbinding puts its notice at the end.
BindSender(b) ==
    /\ b \notin bindings
    /\ bindings' = bindings \cup {b}
    /\ ScheduleOutput(b)
    /\ UNCHANGED <<notices, awaiting, network, receiver, sentCount, unboundCount>>

UnbindSender(b) ==
    /\ b \in bindings
    /\ unboundCount < MaxUnbound
    /\ unboundCount' = unboundCount + 1
    /\ bindings' = bindings \ {b}
    /\ notices' = Append(notices, b)
    /\ awaiting' = [u \in Users |-> IF u = b[2] THEN "no" ELSE awaiting[u]]
    /\ ScheduleOutput(b)
    /\ UNCHANGED <<network, receiver, sentCount>>

\* The queue without the datagram of u; the code asserts that there is one.
Unqueued(s, u) ==
    IF u \in s.sendSet THEN RemoveFirstMatch(s.queue, LAMBDA item : item[1] = u) ELSE s.queue

\* purge: what the automaton u had under way is forgotten (the mutant forgets only
\* what is queued).
PurgeQueue(s, u) == [s EXCEPT !.queue = Unqueued(s, u)]
Purge(s, u) ==
    [s EXCEPT !.queue = Unqueued(s, u), !.sendSet = @ \ {u}, !.completeSet = @ \ {u}]

\* The wrapper of send or send_complete tells its observer, the sender, which does
\* not ask whether the automaton has bound again.
ObserveUnbound ==
    /\ notices # <<>>
    /\ notices' = Tail(notices)
    /\ LET u == Head(notices)[2] IN
       IF Head(notices) \in Served
       THEN /\ sender' = Purge(sender, u)
            /\ awaiting' = [awaiting EXCEPT ![u] = IF @ = "yes" THEN "forgotten" ELSE @]
       ELSE UNCHANGED <<sender, awaiting>>
    /\ UNCHANGED <<bindings, network, receiver, sentCount, unboundCount>>
-----------------------------------------------------------------------------
\* A datagram arrives and may stay behind to arrive again; an empty one is taken
\* for an error, whose number is whatever errno held: zero is refused by an assert
\* of debug builds and ignored by others.
Datagram(item, stays, stale) ==
    /\ receiver.armed
    /\ item \in network
    /\ Len(receiver.queue) < MaxQueue
    /\ network' = IF stays THEN network ELSE network \ {item}
    /\ LET r == [receiver EXCEPT !.state = "SCHEDULE_READ_READY", !.armed = FALSE] IN
       ReceiverHandler("none", IF item[2] = "empty" THEN [r EXCEPT !.errno = stale]
                               ELSE [r EXCEPT !.queue = Append(@, item)])
    /\ UNCHANGED <<sender, bindings, notices, awaiting, sentCount, unboundCount>>

LoseDatagram(item) ==
    /\ item \in network
    /\ network' = network \ {item}
    /\ UNCHANGED <<sender, bindings, notices, awaiting, receiver, sentCount, unboundCount>>

ReceiverScheduleReadReady ==
    LET a == "schedule_read_ready" IN
    /\ a \in receiver.sched \cap ReceiverEnabled(receiver)
    /\ ReceiverHandler(a, [receiver EXCEPT !.state = "READ_READY_WAIT", !.armed = TRUE])
    /\ UNCHANGED <<sender, bindings, notices, awaiting, network, sentCount, unboundCount>>

\* receive does not ask whether anyone is bound: what no one hears is gone.
ReceiveDatagram ==
    LET a == "receive" IN
    /\ a \in receiver.sched \cap ReceiverEnabled(receiver)
    /\ ReceiverHandler(a, [receiver EXCEPT !.queue = Tail(@)])
    /\ UNCHANGED <<sender, bindings, notices, awaiting, network, sentCount, unboundCount>>

\* error is bound, which queues it, and tells of the error.
BindReceiverError ==
    /\ ~receiver.errorBound
    /\ receiver' = [receiver EXCEPT !.errorBound = TRUE, !.sched = @ \cup {"error"}]
    /\ UNCHANGED <<sender, bindings, notices, awaiting, network, sentCount, unboundCount>>

ReceiverError ==
    LET a == "error" IN
    /\ a \in receiver.sched
    /\ IF a \in ReceiverEnabled(receiver)
       THEN ReceiverHandler(a, [receiver EXCEPT !.errorReported = TRUE])
       ELSE receiver' = [receiver EXCEPT !.sched = @ \ {a}]
    /\ UNCHANGED <<sender, bindings, notices, awaiting, network, sentCount, unboundCount>>

SenderSteps ==
    \/ SenderScheduleWriteReady \/ SenderError \/ ObserveUnbound
    \/ \E ok \in BOOLEAN : SenderWriteReady(ok)
    \/ \E u \in Users : SendDatagramComplete(u)

ReceiverSteps == ReceiverScheduleReadReady \/ ReceiveDatagram \/ ReceiverError

SenderInputs ==
    \/ \E u \in Users, k \in Kinds : SendDatagram(u, k)
    \/ \E b \in Served \cup {<<"error", "error">>} : BindSender(b) \/ UnbindSender(b)

ReceiverInputs ==
    \/ BindReceiverError
    \/ \E item \in network :
          LoseDatagram(item) \/ \E stays, stale \in BOOLEAN : Datagram(item, stays, stale)

UdpSpec ==
    UdpInit /\ [][SenderSteps \/ ReceiverSteps \/ SenderInputs \/ ReceiverInputs]_udpVars
-----------------------------------------------------------------------------
UdpTypeOK ==
    /\ sender.queue \in Seq(Users \X Kinds)
    /\ sender.sendSet \subseteq Users /\ sender.completeSet \subseteq Users
    /\ sender.completing \subseteq Users
    /\ sender.sched \subseteq {"schedule_write_ready", "error"}
    /\ bindings \subseteq Served \cup {<<"error", "error">>}
    /\ notices \in Seq(Served \cup {<<"error", "error">>})
    /\ awaiting \in [Users -> {"no", "yes", "forgotten"}]
    /\ network \subseteq Users \X Kinds
    /\ receiver.queue \in Seq(Users \X Kinds)
    /\ receiver.sched \subseteq {"receive", "error", "schedule_read_ready"}

\* No action of the sender or the receiver that is enabled is left unscheduled,
\* though schedule() leaves send_complete out.
UdpEnabledScheduled ==
    /\ SenderEnabled(sender, bindings) \subseteq sender.sched
    /\ Completable(sender, bindings) \subseteq sender.completing
    /\ ReceiverEnabled(receiver) \subseteq receiver.sched
    /\ ~sender.errno /\ sender.state = "WRITE_READY_WAIT" => sender.armed
    /\ ~receiver.errno /\ receiver.state = "READ_READY_WAIT" => receiver.armed

\* An automaton has at most one datagram or one completion outstanding, the set of
\* those with a datagram is that of the queue, and those that unbound have nothing
\* outstanding once the sender was told, however sends, completions, errors, purges
\* and new bindings are interleaved; what an automaton waits for is under way until
\* the socket fails or a purge forgets it.
OneOutstandingSend ==
    LET told(u) == \A i \in DOMAIN notices : notices[i][2] # u IN
    /\ sender.sendSet = {sender.queue[i][1] : i \in DOMAIN sender.queue}
    /\ Len(sender.queue) = Cardinality(sender.sendSet)
    /\ sender.sendSet \cap sender.completeSet = {}
    /\ \A u \in sender.sendSet \cup sender.completeSet : told(u) => <<"send", u>> \in bindings
    /\ \A u \in Users : awaiting[u] = "yes" =>
          u \in sender.sendSet \cup sender.completeSet \/ sender.errno

\* What u waits for is completed, or was forgotten: the purge of an old binding took
\* it and no completion will come; or u is not bound to send_complete, or the socket
\* failed.
Completed(u) ==
    \/ awaiting[u] \in {"no", "forgotten"}
    \/ <<"send_complete", u>> \notin bindings
    \/ sender.errno
=============================================================================
