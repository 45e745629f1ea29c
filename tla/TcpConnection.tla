---------------------------- MODULE TcpConnection ----------------------------
(***************************************************************************)
(* The two tcp_connection_automata at the ends of one TCP connection: the  *)
(* sending and receiving state machines of each, the actions each keeps    *)
(* scheduled, the users that bind, unbind and send, and the kernel between *)
(* them, which accepts part of a write and reports readiness once per      *)
(* registration.                                                           *)
(*                                                                         *)
(* A byte is its position in what the sender took from its user, so a lost,*)
(* repeated or misplaced byte shows.  errno is reduced to zero or not.     *)
(***************************************************************************)
EXTENDS Naturals, Sequences

CONSTANTS
    Ends,      \* the two automata
    Uses,      \* Uses[c]: the outputs the user of c binds
    Releases,  \* the outputs users may unbind again
    Sends,     \* Sends[c]: the sizes of the buffers the user of c sends
    MaxBytes,  \* bytes taken from one user, in all (bound of the model)
    Capacity,    \* bytes the kernel holds in one direction
    MaxUnbinds \* unbindings by the users, in all (bound of the model)

ASSUME ConnectionAssumption ==
    /\ \A c \in Ends : \E p \in Ends : Ends = {c, p} /\ p # c
    /\ MaxBytes \in Nat /\ Capacity \in Nat \ {0} /\ MaxUnbinds \in Nat
    /\ Sends \in [Ends -> SUBSET Nat]
    /\ \A c \in Ends : Uses[c] \subseteq {"send_complete", "receive", "connected", "error"}

VARIABLES
    conn,     \* conn[c]: the members of the automaton
    sched,    \* sched[c]: its actions in the scheduler's queue
    armed,    \* armed[c]: its actions registered for its descriptor
    bound,    \* bound[c]: its outputs with a binding
    pipe,     \* pipe[c]: the bytes in the kernel on their way to c
    taken,    \* taken[c]: how many bytes c took from its user
    got,      \* got[c]: how many bytes c gave to its user
    unbinds   \* unbindings so far

connVars == <<conn, sched, armed, bound, pipe, taken, got, unbinds>>

SendStates == {"SEND_WAIT", "SCHEDULE_WRITE_READY", "WRITE_READY_WAIT", "SEND_COMPLETE_READY"}
ReceiveStates == {"SCHEDULE_READ_READY", "READ_READY_WAIT", "RECEIVE_READY"}
Outputs == {"send_complete", "receive", "connected", "error"}
Actions == Outputs \cup {"schedule_write", "write_ready", "schedule_read", "read_ready"}

Peer(c) == CHOOSE p \in Ends : p # c

\* The bytes of the stream after position n, k of them.
Bytes(n, k) == [i \in 1..k |-> n + i]

\* The precondition of action a, for the members r and the bound outputs b.
Precondition(a, r, b) ==
    LET usable == r.fd /\ ~r.errno IN
    CASE a = "schedule_write" -> usable /\ r.sendState = "SCHEDULE_WRITE_READY"
      [] a = "write_ready"    -> usable /\ r.sendState = "WRITE_READY_WAIT"
      [] a = "schedule_read"  -> usable /\ r.receiveState = "SCHEDULE_READ_READY"
      [] a = "read_ready"     -> usable /\ r.receiveState = "READ_READY_WAIT"
      [] a = "send_complete"  -> r.sendState = "SEND_COMPLETE_READY" /\ a \in b
      [] a = "receive"        -> r.receiveState = "RECEIVE_READY" /\ a \in b
      [] a = "connected"      -> r.fd /\ ~r.connectedReported /\ a \in b
      [] a = "error"          -> r.errno /\ ~r.errorReported /\ a \in b

\* What schedule() puts in the scheduler's queue (in the mutant, receive is forgotten).
ScheduleNoReceive(r, b) ==
    {a \in Actions \ {"write_ready", "read_ready", "receive"} : Precondition(a, r, b)}
Schedule(r, b) == {a \in Actions \ {"write_ready", "read_ready"} : Precondition(a, r, b)}

NewConnection ==
    [alive |-> TRUE, fd |-> FALSE, errno |-> FALSE,
     connectedReported |-> FALSE, errorReported |-> FALSE,
     sendState |-> "SEND_WAIT", sendBuffer |-> <<>>, bytesWritten |-> 0,
     receiveState |-> "SCHEDULE_READ_READY", receiveBuffer |-> <<>>]

ConnInit ==
    /\ conn = [c \in Ends |-> NewConnection]
    /\ sched = [c \in Ends |-> {}]
    /\ armed = [c \in Ends |-> {}]
    /\ bound = [c \in Ends |-> {}]
    /\ pipe = [c \in Ends |-> <<>>]
    /\ taken = [c \in Ends |-> 0]
    /\ got = [c \in Ends |-> 0]
    /\ unbinds = 0

\* The members of c become r; its handler ends with schedule().
Handler(c, queue, r) ==
    /\ conn' = [conn EXCEPT ![c] = r]
    /\ sched' = [sched EXCEPT ![c] = queue \cup Schedule(r, bound[c])]

\* The scheduler takes action a of c from its queue and its precondition holds.
Runs(c, a) == a \in sched[c] /\ Precondition(a, conn[c], bound[c])

\* It takes an action that is no longer enabled: nothing else happens.
RunDisabled(c) ==
    /\ \E a \in sched[c] :
        /\ ~Precondition(a, conn[c], bound[c])
        /\ sched' = [sched EXCEPT ![c] = @ \ {a}]
    /\ UNCHANGED <<conn, armed, bound, pipe, taken, got, unbinds>>

\* The input init: the descriptor is taken, and setting its option may fail, unless
\* there is one already.
InitInput(c) ==
    /\ conn[c].alive
    /\ \/ conn[c].fd /\ Handler(c, sched[c], conn[c])
       \/ /\ ~conn[c].fd
          /\ \E failed \in BOOLEAN :
                Handler(c, sched[c], [conn[c] EXCEPT !.fd = TRUE, !.errno = @ \/ failed])
    /\ UNCHANGED <<armed, bound, pipe, taken, got, unbinds>>

\* The input send: the buffer is taken, or dropped while another is being sent.
SendInput(c, n) ==
    /\ conn[c].alive
    /\ taken[c] + n <= MaxBytes
    /\ IF ~conn[c].errno /\ conn[c].sendState = "SEND_WAIT"
         THEN /\ Handler(c, sched[c], [conn[c] EXCEPT !.sendBuffer = Bytes(taken[c], n),
                                                      !.bytesWritten = 0,
                                                      !.sendState = "SCHEDULE_WRITE_READY"])
              /\ taken' = [taken EXCEPT ![c] = @ + n]
         ELSE Handler(c, sched[c], conn[c]) /\ UNCHANGED taken
    /\ UNCHANGED <<armed, bound, pipe, got, unbinds>>

ScheduleWrite(c) ==
    LET a == "schedule_write" IN
    /\ Runs(c, a)
    /\ Handler(c, sched[c] \ {a}, [conn[c] EXCEPT !.sendState = "WRITE_READY_WAIT"])
    /\ armed' = [armed EXCEPT ![c] = @ \cup {"write_ready"}]
    /\ UNCHANGED <<bound, pipe, taken, got, unbinds>>

\* What is left of the buffer c is sending (the mutant begins again each time).
WholeBuffer(c) == conn[c].sendBuffer
Unwritten(c) == SubSeq(conn[c].sendBuffer, conn[c].bytesWritten + 1, Len(conn[c].sendBuffer))

\* A write succeeds for n bytes, all or part of what is left.
Write(c, n) ==
    LET a == "write_ready"
        total == conn[c].bytesWritten + n
    IN
    /\ Runs(c, a)
    /\ n <= Len(Unwritten(c))
    /\ Handler(c, sched[c] \ {a},
           [conn[c] EXCEPT !.bytesWritten = total,
                           !.sendState = IF total = Len(conn[c].sendBuffer)
                                         THEN "SEND_COMPLETE_READY" ELSE "SCHEDULE_WRITE_READY"])
    /\ IF conn[Peer(c)].alive
         THEN /\ Len(pipe[Peer(c)]) + n <= Capacity
              /\ pipe' = [pipe EXCEPT ![Peer(c)] = @ \o SubSeq(Unwritten(c), 1, n)]
         ELSE UNCHANGED pipe
    /\ UNCHANGED <<armed, bound, taken, got, unbinds>>

\* A write, a read or the question how much there is to read fails, at any time, or
\* nothing is read, which is taken for the end of the stream.
Fail(c, a) ==
    /\ Runs(c, a)
    /\ Handler(c, sched[c] \ {a}, [conn[c] EXCEPT !.errno = TRUE])
    /\ UNCHANGED <<armed, bound, pipe, taken, got, unbinds>>

SendComplete(c) ==
    LET a == "send_complete" IN
    /\ Runs(c, a)
    /\ Handler(c, sched[c] \ {a}, [conn[c] EXCEPT !.sendState = "SEND_WAIT"])
    /\ UNCHANGED <<armed, bound, pipe, taken, got, unbinds>>

ScheduleRead(c) ==
    LET a == "schedule_read" IN
    /\ Runs(c, a)
    /\ Handler(c, sched[c] \ {a}, [conn[c] EXCEPT !.receiveState = "READ_READY_WAIT"])
    /\ armed' = [armed EXCEPT ![c] = @ \cup {"read_ready"}]
    /\ UNCHANGED <<bound, pipe, taken, got, unbinds>>

\* The bytes the kernel has are read (as many as FIONREAD says).
Read(c) ==
    LET a == "read_ready" IN
    /\ Runs(c, a)
    /\ pipe[c] # <<>>
    /\ Handler(c, sched[c] \ {a}, [conn[c] EXCEPT !.receiveBuffer = pipe[c],
                                                  !.receiveState = "RECEIVE_READY"])
    /\ pipe' = [pipe EXCEPT ![c] = <<>>]
    /\ UNCHANGED <<armed, bound, taken, got, unbinds>>

Receive(c) ==
    LET a == "receive" IN
    /\ Runs(c, a)
    /\ Handler(c, sched[c] \ {a}, [conn[c] EXCEPT !.receiveState = "SCHEDULE_READ_READY"])
    /\ got' = [got EXCEPT ![c] = @ + Len(conn[c].receiveBuffer)]
    /\ UNCHANGED <<armed, bound, pipe, taken, unbinds>>

Connected(c) ==
    LET a == "connected" IN
    /\ Runs(c, a)
    /\ Handler(c, sched[c] \ {a}, [conn[c] EXCEPT !.connectedReported = TRUE])
    /\ UNCHANGED <<armed, bound, pipe, taken, got, unbinds>>

Error(c) ==
    LET a == "error" IN
    /\ Runs(c, a)
    /\ Handler(c, sched[c] \ {a}, [conn[c] EXCEPT !.errorReported = TRUE])
    /\ UNCHANGED <<armed, bound, pipe, taken, got, unbinds>>

\* The scheduler finds the descriptor of c ready and queues the action that waits for
\* it: for whatever reason, an error of the socket among them ...
Select(c, a) ==
    /\ a \in armed[c]
    /\ armed' = [armed EXCEPT ![c] = @ \ {a}]
    /\ sched' = [sched EXCEPT ![c] = @ \cup {a}]
    /\ UNCHANGED <<conn, bound, pipe, taken, got, unbinds>>

\* ... and surely when there is something to read or room to write, or the peer is gone.
Ready(c, a) ==
    /\ \/ ~conn[Peer(c)].alive
       \/ a = "read_ready" /\ pipe[c] # <<>>
       \/ a = "write_ready" /\ Len(pipe[Peer(c)]) < Capacity
    /\ Select(c, a)

\* Binding or unbinding an output schedules it (output_bound, output_unbound).
Bind(c, o) ==
    /\ conn[c].alive
    /\ o \notin bound[c]
    /\ bound' = [bound EXCEPT ![c] = @ \cup {o}]
    /\ sched' = [sched EXCEPT ![c] = @ \cup {o}]
    /\ UNCHANGED <<conn, armed, pipe, taken, got, unbinds>>

Unbind(c, o) ==
    /\ unbinds < MaxUnbinds
    /\ o \in bound[c] \cap Releases
    /\ bound' = [bound EXCEPT ![c] = @ \ {o}]
    /\ sched' = [sched EXCEPT ![c] = @ \cup {o}]
    /\ unbinds' = unbinds + 1
    /\ UNCHANGED <<conn, armed, pipe, taken, got>>

\* The automaton is destroyed: its descriptor is closed and its actions leave the queues.
Destroy(c) ==
    /\ conn[c].alive
    /\ conn' = [conn EXCEPT ![c].alive = FALSE]
    /\ sched' = [sched EXCEPT ![c] = {}]
    /\ armed' = [armed EXCEPT ![c] = {}]
    /\ bound' = [bound EXCEPT ![c] = {}]
    /\ UNCHANGED <<pipe, taken, got, unbinds>>

\* A step the scheduler takes for c.
ConnStep(c) ==
    \/ RunDisabled(c)
    \/ ScheduleWrite(c) \/ SendComplete(c) \/ ScheduleRead(c)
    \/ Read(c) \/ Receive(c) \/ Connected(c) \/ Error(c)
    \/ \E n \in 1..Capacity : Write(c, n)
    \/ \E a \in {"read_ready", "write_ready"} : Ready(c, a) \/ Fail(c, a)

\* A step of c's surroundings.
ConnInput(c) ==
    \/ InitInput(c)
    \/ \E a \in {"read_ready", "write_ready"} : Select(c, a)
    \/ \E n \in Sends[c] : SendInput(c, n)
    \/ \E o \in Uses[c] : Bind(c, o) \/ Unbind(c, o)
    \/ Destroy(c)

ConnSteps == \E c \in Ends : ConnStep(c)
ConnInputs == \E c \in Ends : ConnInput(c)

ConnSpec == ConnInit /\ [][ConnSteps \/ ConnInputs]_connVars
-----------------------------------------------------------------------------
ConnTypeOK ==
    /\ conn \in [Ends -> [alive : BOOLEAN, fd : BOOLEAN, errno : BOOLEAN,
                          connectedReported : BOOLEAN, errorReported : BOOLEAN,
                          sendState : SendStates, sendBuffer : Seq(1..MaxBytes),
                          bytesWritten : 0..MaxBytes,
                          receiveState : ReceiveStates,
                          receiveBuffer : Seq(1..MaxBytes)]]
    /\ sched \in [Ends -> SUBSET Actions]
    /\ armed \in [Ends -> SUBSET {"read_ready", "write_ready"}]
    /\ bound \in [Ends -> SUBSET Outputs]
    /\ pipe \in [Ends -> Seq(1..MaxBytes)]
    /\ taken \in [Ends -> 0..MaxBytes]
    /\ got \in [Ends -> 0..MaxBytes]
    /\ unbinds \in 0..MaxUnbinds

\* An action of a connection that is enabled is in the scheduler's queue, or is
\* registered for the descriptor it waits for: whatever the order in which the
\* users bind, unbind and send, none is forgotten.  Every handler ends with
\* schedule(), and binding an output schedules it.
ConnEnabledScheduled ==
    \A c \in Ends : conn[c].alive =>
        \A a \in Actions : Precondition(a, conn[c], bound[c]) => a \in sched[c] \cup armed[c]

\* What c gave its user, holds for it, has in the kernel and has still to be
\* written by the other end is exactly what the other end took from its user, in
\* order, while both ends live: partial writes, resumed writes, reads of what happens
\* to be there and errors in between lose, repeat and misplace nothing.
StreamIntact ==
    \A c \in Ends :
        LET p == Peer(c)
            held == IF conn[c].receiveState = "RECEIVE_READY" THEN conn[c].receiveBuffer ELSE <<>>
            unsent == IF conn[p].sendState \in {"SCHEDULE_WRITE_READY", "WRITE_READY_WAIT"}
                      THEN Unwritten(p) ELSE <<>>
        IN  /\ held \o pipe[c] = Bytes(got[c], Len(held) + Len(pipe[c]))
            /\ conn[c].alive =>
                 held \o pipe[c] \o unsent
                    = Bytes(got[c], Len(held) + Len(pipe[c]) + Len(unsent))
            /\ conn[c].alive /\ conn[p].alive =>
                 got[c] + Len(held) + Len(pipe[c]) + Len(unsent) = taken[p]

\* Every byte c took has reached the user of the other end, or one of the two is
\* dead, not initialised or in error, or the receiver's output receive is not bound.
Delivered(c) ==
    \/ taken[c] = got[Peer(c)]
    \/ ~conn[c].alive \/ ~conn[Peer(c)].alive
    \/ ~conn[c].fd \/ ~conn[Peer(c)].fd
    \/ conn[c].errno \/ conn[Peer(c)].errno
    \/ "receive" \notin bound[Peer(c)]
=============================================================================
