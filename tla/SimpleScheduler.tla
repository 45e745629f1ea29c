-------------------------- MODULE SimpleScheduler --------------------------
(***************************************************************************)
(* The threads and queues of lib/simple_scheduler.cpp: one thread for the  *)
(* system queue, one for timers and file descriptors, and one for each     *)
(* context, which runs the actions of its automata.  The scheduler stops   *)
(* when no runnable object exists (runnable_interface::count).             *)
(*                                                                         *)
(* What runnables do is left to them: while a thread executes one it makes *)
(* calls of the scheduler, MaxCalls of them in a behavior.  A call has two *)
(* halves with other steps between them: the search for a duplicate and    *)
(* the push, or the push and the wakeup.  Module Execution has the locks,  *)
(* and module System the system runnables.  Times are left out: a timer    *)
(* expires some time after it was set.  run may be called again once it    *)
(* has returned.                                                           *)
(***************************************************************************)
EXTENDS Integers, Sequences, FiniteSets, Functions, SequencesExt

CONSTANTS Actions,   \* the actions that are scheduled
          Contexts,  \* the contexts, each with its own thread
          Home,      \* the context of an action: its aid modulo THREAD_COUNT
          Fds,       \* file descriptors
          Closable,  \* those that user code may close
          MaxCalls,  \* bound: calls of the scheduler in a behavior
          SystemThread, IOThread,
          Work,      \* a runnable of the system queue
          Sentinel,  \* pushed to unblock a thread
          Nothing

ASSUME HomeAssumption == Home \in [Actions -> Contexts]
ASSUME MaxCallsAssumption == MaxCalls \in Nat
ASSUME ThreadsAssumption ==
  SystemThread # IOThread /\ {SystemThread, IOThread} \cap Contexts = {}
ASSUME SentinelAssumption == Sentinel \notin Actions
ASSUME NothingAssumption == Nothing \notin Actions \cup {Work}

VARIABLES sysq,     \* m_sysq
          execq,    \* m_execq of each context
          timerq,   \* m_timerq
          fdq,      \* m_readq and m_writeq
          closeq,   \* m_closeq
          pipe,     \* the number of bytes in the wakeup pipe
          pc,       \* where each thread is in its loop
          hold,     \* the runnable each thread is executing
          half,     \* the second half of the call each thread is making
          timers,   \* the I/O thread's time_to_action and action_to_time
          fds,      \* ... its read_actions and write_actions
          batch,    \* ... the ready actions it has not scheduled yet
          woken,    \* ... whether select found the wakeup pipe readable
          open,     \* descriptors that user code has not passed to close
          closed,   \* descriptors that the I/O thread has closed
          due,      \* actions scheduled since they last began to run
          calls     \* the number of calls made

queues == <<sysq, execq, timerq, fdq, closeq>>
ioVars == <<timers, fds, batch, woken, closed>>
userVars == <<open, due, calls>>
schedVars == <<queues, ioVars, userVars, pipe, pc, hold, half>>

Threads == Contexts \cup {SystemThread, IOThread}
Dirs == {"read", "write"}

Steps == {"check", "pop", "run", "timers", "reads", "writes", "closes",
          "select", "dispatch", "exited", "aborted"}

Registration == [dir : Dirs, fd : Fds, act : Actions]
Expired(a) == [dir |-> "timer", fd |-> Nothing, act |-> a]
Ready == Registration \cup {Expired(a) : a \in Actions}

Halves == [do : {"none", "push", "delete", "wake"}, act : Actions \cup {Nothing}]
NoHalf == [do |-> "none", act |-> Nothing]

(* runnable_interface::count: the runnables in the queues, in the maps of  *)
(* the I/O thread, in execution and in the hands of a call.                *)
IsRunnable(x) == x # Sentinel
InUse(t) == hold[t] # Nothing \/ half[t].do \in {"push", "delete"}

NoRunnable ==
  /\ \A i \in DOMAIN sysq : ~IsRunnable(sysq[i])
  /\ \A c \in Contexts : \A i \in DOMAIN execq[c] : ~IsRunnable(execq[c][i])
  /\ timerq = <<>> /\ \A d \in Dirs : fdq[d] = <<>>
  /\ timers = {} /\ fds = {} /\ batch = {}
  /\ \A t \in Threads : ~InUse(t)
-----------------------------------------------------------------------------
(* thread_keep_going, at the head of each loop. *)
FirstStep(t) == IF t = IOThread THEN "timers" ELSE "pop"

UnblockNobody(s) == s  \* mutant
Unblock(s) == Append(s, Sentinel)

KeepGoing(t) ==
  /\ pc[t] = "check" /\ half[t] = NoHalf
  /\ \/ /\ ~NoRunnable
        /\ pc' = [pc EXCEPT ![t] = FirstStep(t)]
        /\ UNCHANGED <<sysq, execq, pipe>>
     \/ /\ NoRunnable
        /\ pc' = [pc EXCEPT ![t] = "exited"]
        /\ sysq' = Unblock(sysq)
        /\ execq' = [c \in Contexts |-> Unblock(execq[c])]
        /\ pipe' = pipe + 1
  /\ UNCHANGED <<timerq, fdq, closeq, hold, half, ioVars, userVars>>

Taken(t, x) ==
  /\ hold' = [hold EXCEPT ![t] = IF x = Sentinel THEN Nothing ELSE x]
  /\ pc' = [pc EXCEPT ![t] = IF x = Sentinel THEN "check" ELSE "run"]
  /\ due' = due \ {x}

PopSystem ==
  /\ pc[SystemThread] = "pop" /\ sysq # <<>>
  /\ Taken(SystemThread, Head(sysq))
  /\ sysq' = Tail(sysq)
  /\ UNCHANGED <<execq, timerq, fdq, closeq, pipe, half, ioVars, open, calls>>

PopExec(c) ==
  /\ pc[c] = "pop" /\ execq[c] # <<>>
  /\ Taken(c, Head(execq[c]))
  /\ execq' = [execq EXCEPT ![c] = Tail(@)]
  /\ UNCHANGED <<sysq, timerq, fdq, closeq, pipe, half, ioVars, open, calls>>

(* The runnable has been executed and is deleted. *)
Delete(t) ==
  /\ pc[t] = "run" /\ half[t] = NoHalf
  /\ hold' = [hold EXCEPT ![t] = Nothing]
  /\ pc' = [pc EXCEPT ![t] = "check"]
  /\ UNCHANGED <<queues, ioVars, userVars, pipe, half>>
-----------------------------------------------------------------------------
(* Calls of the scheduler by the runnable that t executes.                 *)
Calling(t) ==
  /\ pc[t] = "run" /\ half[t] = NoHalf
  /\ calls < MaxCalls
  /\ calls' = calls + 1
  /\ UNCHANGED <<execq, pipe, pc, hold, ioVars>>

(* schedule_execq: the first half says whether to push or to delete.       *)
NeverDuplicate(a) == FALSE  \* mutant: no search
DuplicateOrRunning(a) ==  \* mutant: the running one counts
  a \in Range(execq[Home[a]]) \/ hold[Home[a]] = a
Duplicate(a) == a \in Range(execq[Home[a]])

Search(a) == [do |-> IF Duplicate(a) THEN "delete" ELSE "push", act |-> a]

(* By an automaton, of an action of its own.  Of two threads that run code *)
(* of one automaton, one is that of its context, with an output that is    *)
(* not locked (GuardedCodeExclusive of module Execution).  The I/O thread  *)
(* schedules without regard to anybody.                                    *)
OutsideContext(a) == Threads \ {IOThread, Home[a]}

CallSchedule(t, a) ==
  /\ Calling(t)
  /\ t # Home[a] => \A u \in OutsideContext(a) : half[u].act # a
  /\ half' = [half EXCEPT ![t] = Search(a)]
  /\ due' = due \cup {a}
  /\ UNCHANGED <<sysq, timerq, fdq, closeq, open>>

(* push returns the size of the queue: the first element wakes the I/O     *)
(* thread up.                                                              *)
NeverWake(t, q) == UNCHANGED half  \* mutant
WakeIfFirst(t, q) ==
  half' = [half EXCEPT ![t].do = IF Len(q) = 1 THEN "wake" ELSE "none"]

CallScheduleAfter(t, a) ==
  /\ Calling(t)
  /\ timerq' = Append(timerq, a)
  /\ WakeIfFirst(t, timerq')
  /\ due' = due \cup {a}
  /\ UNCHANGED <<sysq, fdq, closeq, open>>

(* schedule_read_ready, schedule_write_ready: of an open descriptor. *)
CallScheduleFd(t, d, f, a) ==
  /\ Calling(t)
  /\ f \in open
  /\ fdq' = [fdq EXCEPT ![d] = Append(@, [dir |-> d, fd |-> f, act |-> a])]
  /\ WakeIfFirst(t, fdq'[d])
  /\ UNCHANGED <<sysq, timerq, closeq, open, due>>

CallClose(t, f) ==
  /\ Calling(t)
  /\ f \in open \cap Closable
  /\ open' = open \ {f}
  /\ closeq' = Append(closeq, f)
  /\ WakeIfFirst(t, closeq')
  /\ UNCHANGED <<sysq, timerq, fdq, due>>

CallSystem(t) ==
  /\ Calling(t)
  /\ sysq' = Append(sysq, Work)
  /\ UNCHANGED <<timerq, fdq, closeq, half, open, due>>

(* The second half. *)
FinishCall(t) ==
  /\ half[t] # NoHalf
  /\ half' = [half EXCEPT ![t] = NoHalf]
  /\ LET a == half[t].act
     IN execq' = IF half[t].do = "push"
                 THEN [execq EXCEPT ![Home[a]] = Append(@, a)] ELSE execq
  /\ pipe' = IF half[t].do = "wake" THEN pipe + 1 ELSE pipe
  /\ UNCHANGED <<sysq, timerq, fdq, closeq, pc, hold, ioVars, userVars>>
-----------------------------------------------------------------------------
(* process_ioq.  An action has one timer, and a descriptor one action for  *)
(* reading and one for writing; other registrations are deleted.           *)
At(step) == pc[IOThread] = step /\ half[IOThread] = NoHalf
GoTo(step) == pc' = [pc EXCEPT ![IOThread] = step]

AddTimers(T, q) == T \cup Range(q)

RegisterTimers ==
  /\ At("timers")
  /\ timers' = IF timerq = <<>> THEN timers ELSE AddTimers(timers, timerq)
  /\ timerq' = <<>>
  /\ GoTo("reads")
  /\ UNCHANGED <<sysq, execq, fdq, closeq, fds, batch, woken, closed,
                 userVars, pipe, hold, half>>

Registered(F, r) == \E x \in F : x.dir = r.dir /\ x.fd = r.fd

AddRegistrations(F, q) ==
  F \cup {q[i] : i \in {j \in DOMAIN q : /\ ~Registered(F, q[j])
                                       /\ ~Registered({q[k] : k \in 1..(j - 1)}, q[j])}}

RegisterFds(d, step, next) ==
  /\ At(step)
  /\ fds' = AddRegistrations(fds, fdq[d])
  /\ fdq' = [fdq EXCEPT ![d] = <<>>]
  /\ GoTo(next)
  /\ UNCHANGED <<sysq, execq, timerq, closeq, timers, batch, woken, closed,
                 userVars, pipe, hold, half>>

RegisterReads == RegisterFds("read", "reads", "writes")
RegisterWrites == RegisterFds("write", "writes", "closes")

RemoveClosed ==
  /\ At("closes")
  /\ fds' = {r \in fds : r.fd \notin Range(closeq)}
  /\ closed' = closed \cup Range(closeq)
  /\ closeq' = <<>>
  /\ GoTo("select")
  /\ UNCHANGED <<sysq, execq, timerq, fdq, timers, batch, woken,
                 userVars, pipe, hold, half>>

(* select returns: some timers have expired, some descriptors are ready,   *)
(* or there is something in the pipe.                                      *)
SelectReturns(E, F) ==
  /\ At("select")
  /\ \A r \in fds : r.fd \notin closed
  /\ E # {} \/ F # {} \/ pipe > 0
  /\ timers' = timers \ E
  /\ fds' = fds \ F
  /\ batch' = {Expired(a) : a \in E} \cup F
  /\ woken' = (pipe > 0)
  /\ GoTo("dispatch")
  /\ UNCHANGED <<queues, closed, userVars, pipe, hold, half>>

(* EBADF: the assertion on the result of select fails. *)
SelectFails ==
  /\ At("select")
  /\ \E r \in fds : r.fd \in closed
  /\ GoTo("aborted")
  /\ UNCHANGED <<queues, ioVars, userVars, pipe, hold, half>>

(* schedule_execq of the ready actions, in any order. *)
Dispatch ==
  /\ At("dispatch")
  /\ \E x \in batch :
       /\ batch' = batch \ {x}
       /\ half' = [half EXCEPT ![IOThread] = Search(x.act)]
  /\ UNCHANGED <<queues, timers, fds, woken, closed, userVars, pipe, pc, hold>>

(* At most three bytes are read from the pipe. *)
DrainedThree(p) == p - 3  \* mutant
Drained(p) == IF p > 3 THEN p - 3 ELSE 0

DrainPipe ==
  /\ At("dispatch") /\ batch = {}
  /\ pipe' = IF woken THEN Drained(pipe) ELSE pipe
  /\ woken' = FALSE
  /\ GoTo("check")
  /\ UNCHANGED <<queues, timers, fds, batch, closed, userVars, hold, half>>
-----------------------------------------------------------------------------
(* The end of run, once its threads have been joined.                      *)
Joined == \A t \in Threads : pc[t] = "exited"

(* m_model.clear: the destructor of an automaton passes f to close.        *)
CloseLate(f) ==
  /\ Joined
  /\ f \in open \cap Closable
  /\ open' = open \ {f}
  /\ closeq' = Append(closeq, f)
  /\ pipe' = IF closeq = <<>> THEN pipe + 1 ELSE pipe
  /\ UNCHANGED <<sysq, execq, timerq, fdq, ioVars, due, calls, pc, hold, half>>

(* The run queues are cleared, m_closeq is not, and run is called again,   *)
(* with a new pipe and new threads.  A number that was closed is open      *)
(* again, for another file.                                                *)
RunAgain ==
  /\ Joined
  /\ sysq' = <<Work>>
  /\ execq' = [c \in Contexts |-> <<>>]
  /\ pipe' = 0
  /\ pc' = [t \in Threads |-> "check"]
  /\ timers' = {} /\ fds' = {} /\ batch' = {} /\ woken' = FALSE
  /\ closed' = {}
  /\ open' = open \cup closed
  /\ UNCHANGED <<timerq, fdq, closeq, hold, half, due, calls>>

EndOfRun == RunAgain \/ \E f \in Fds : CloseLate(f)
-----------------------------------------------------------------------------
(* run: the constructor of the root has requested something. *)
SchedInit ==
  /\ sysq = <<Work>>
  /\ execq = [c \in Contexts |-> <<>>]
  /\ timerq = <<>> /\ fdq = [d \in Dirs |-> <<>>] /\ closeq = <<>>
  /\ pipe = 0
  /\ pc = [t \in Threads |-> "check"]
  /\ hold = [t \in Threads |-> Nothing]
  /\ half = [t \in Threads |-> NoHalf]
  /\ timers = {} /\ fds = {} /\ batch = {}
  /\ woken = FALSE
  /\ open = Fds /\ closed = {}
  /\ due = {}
  /\ calls = 0

UserStep(t) ==
  \/ \E a \in Actions : CallSchedule(t, a) \/ CallScheduleAfter(t, a)
  \/ \E d \in Dirs, f \in Fds, a \in Actions : CallScheduleFd(t, d, f, a)
  \/ \E f \in Fds : CallClose(t, f)
  \/ CallSystem(t)

IOStep ==
  \/ RegisterTimers \/ RegisterReads \/ RegisterWrites \/ RemoveClosed
  \/ \E E \in SUBSET timers, F \in SUBSET fds : SelectReturns(E, F)
  \/ SelectFails
  \/ Dispatch \/ DrainPipe

Popping(t) == IF t = SystemThread THEN PopSystem ELSE t \in Contexts /\ PopExec(t)

(* run ends when all threads have exited; it need not be called again. *)
SchedNext ==
  /\ pc[IOThread] # "aborted"
  /\ \/ \E t \in Threads :
          UserStep(t) \/ KeepGoing(t) \/ Popping(t) \/ Delete(t) \/ FinishCall(t)
     \/ IOStep
     \/ EndOfRun

SchedSpec == SchedInit /\ [][SchedNext]_schedVars

(* Threads that can run do, user code returns and timers expire; nothing   *)
(* says that a descriptor ever becomes ready.                              *)
ThreadRuns(t) == KeepGoing(t) \/ Popping(t) \/ Delete(t) \/ FinishCall(t)
IORuns ==
  \/ RegisterTimers \/ RegisterReads \/ RegisterWrites \/ RemoveClosed
  \/ \E E \in SUBSET timers, F \in SUBSET fds :
       (E # {} \/ pipe > 0) /\ SelectReturns(E, F)
  \/ SelectFails
  \/ Dispatch \/ DrainPipe

FairSchedSpec ==
  /\ SchedSpec
  /\ \A t \in Threads : WF_schedVars(ThreadRuns(t))
  /\ WF_schedVars(IORuns)
-----------------------------------------------------------------------------
SchedTypeOK ==
  /\ sysq \in Seq({Work, Sentinel})
  /\ execq \in [Contexts -> Seq(Actions \cup {Sentinel})]
  /\ timerq \in Seq(Actions)
  /\ fdq \in [Dirs -> Seq(Registration)]
  /\ closeq \in Seq(Fds)
  /\ pipe \in Nat
  /\ pc \in [Threads -> Steps]
  /\ hold \in [Threads -> Actions \cup {Work, Nothing}]
  /\ half \in [Threads -> Halves]
  /\ timers \in SUBSET Actions
  /\ fds \in SUBSET Registration
  /\ batch \in SUBSET Ready
  /\ woken \in BOOLEAN
  /\ open \in SUBSET Fds /\ closed \in SUBSET Fds
  /\ due \in SUBSET Actions
  /\ calls \in 0..MaxCalls

Copies(a) ==
  Cardinality({i \in DOMAIN execq[Home[a]] : execq[Home[a]][i] = a})

(* "Scheduling is idempotent to prevent unbounded growth of the queue"     *)
(* (papers/paper1/design.tex): the search and the push are two steps, and  *)
(* still there are never more than three copies of an action, one pushed   *)
(* by the I/O thread, one by an output that is not locked and one by the   *)
(* automaton in another thread.  ("Can't someone sneak in a duplicate      *)
(* ...?  The answer is no", says schedule_execq; with any one of the three *)
(* it would be right.)                                                     *)
AtMostThreeCopies ==
  \A a \in Actions :
    Copies(a)
      + Cardinality({t \in Threads : half[t] = [do |-> "push", act |-> a]}) <= 3

(* A scheduled action that has not run since is somewhere from where it    *)
(* will be run: no registration, search for duplicates or expiry loses it. *)
NoLostAction ==
  \A a \in due :
    \/ a \in Range(execq[Home[a]]) \cup Range(timerq) \cup timers
    \/ \E x \in batch : x.act = a
    \/ \E t \in Threads : half[t] = [do |-> "push", act |-> a]

(* When the I/O thread waits in select with nothing in the pipe, it knows  *)
(* of everything in its queues, or someone is about to wake it up.         *)
NoLostWakeup ==
  pc[IOThread] = "select" /\ pipe = 0 =>
    \/ timerq = <<>> /\ closeq = <<>> /\ \A d \in Dirs : fdq[d] = <<>>
    \/ \E t \in Threads : half[t].do = "wake"

(* "a special function for closing file descriptors that purges them from  *)
(* the reactor" (papers/paper1/design.tex): select is never given a        *)
(* descriptor that was closed.                                             *)
ClosedIsPurged == pc[IOThread] = "select" => \A r \in fds : r.fd \notin closed

(* "we push a sentinel value to unblock the processing threads"            *)
(* (thread_keep_going): when there is nothing left to do, run returns.     *)
Stopped == \A t \in Threads : pc[t] \in {"exited", "aborted"}

EventuallyStops == NoRunnable ~> Stopped

(* The same for a program that has not closed a descriptor.                *)
EventuallyStopsUnlessClosed == NoRunnable /\ open = Fds ~> Stopped

(* Whatever is scheduled, now or for later, is eventually run.             *)
EventuallyRuns ==
  \A a \in Actions : a \in due ~> (a \notin due \/ pc[IOThread] = "aborted")
=============================================================================
