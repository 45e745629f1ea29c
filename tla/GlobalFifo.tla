----------------------------- MODULE GlobalFifo -----------------------------
(***************************************************************************)
(* The scheduler of lib/global_fifo_scheduler.cpp: one thread, a queue of  *)
(* configuration runnables, a queue of user actions, timers and file       *)
(* descriptors.  One round of its loop registers what was asked for,       *)
(* removes closed descriptors, waits in select, and runs at most one       *)
(* runnable of each queue.                                                 *)
(*                                                                         *)
(* What runnables do is left to them: while one runs, it makes calls of    *)
(* the scheduler.  Configuration runnables are only counted (module System *)
(* says what they do).  Times are relative to the clock and saturate at    *)
(* Past: of a time in the past only that counts.                           *)
(***************************************************************************)
EXTENDS Integers, Sequences, FiniteSets, Functions, SequencesExt

CONSTANTS UserActions,   \* user actions
          Fds,       \* file descriptors
          MaxOffset, \* the largest offset of schedule_after
          MaxPending, \* bound: fewer requests are waiting when one is added
          MaxConfig, \* bound: fewer configuration runnables are waiting
          Work,      \* a configuration runnable
          Nothing

ASSUME MaxOffsetAssumption == MaxOffset \in Nat
ASSUME MaxConfigAssumption == MaxConfig \in Nat
ASSUME RunnablesAssumption ==
  IsFiniteSet(UserActions) /\ Work # Nothing /\ {Work, Nothing} \cap UserActions = {}

VARIABLES configq,  \* the length of m_configq
          userq,    \* m_userq
          timerq,   \* m_timerq
          fdq,      \* m_readq and m_writeq
          close,    \* m_close
          byTime,   \* time_to_action
          byAction, \* action_to_time
          fds,      \* read_actions and write_actions
          timeout,  \* of the select to come
          pc,       \* where run is
          hold,     \* the runnable in execution
          open,     \* descriptors that user code has not passed to close
          closed,   \* descriptors that have been closed
          wanted    \* history: earliest time asked for since the timer expired

requests == <<timerq, fdq, close>>
timers == <<byTime, byAction>>
fifoVars == <<configq, userq, requests, timers, fds, timeout, pc, hold,
              open, closed, wanted>>

Dirs == {"read", "write"}
Past == -1
Times == Past..MaxOffset
NoTime == MaxOffset + 1  \* after all times

TimeAction == [time : Times, act : UserActions]
Registration == [dir : Dirs, fd : Fds, act : UserActions]

(* runnable_interface::count () = 0 *)
NoRunnable ==
  /\ configq = 0 /\ userq = <<>> /\ timerq = <<>>
  /\ \A d \in Dirs : fdq[d] = <<>>
  /\ byTime = {} /\ fds = {} /\ hold = Nothing

(* schedule_userq: an action in the queue is not added again. *)
ScheduleUser(q, a) == IF a \in Range(q) THEN q ELSE Append(q, a)

(* while (count () != 0) *)
WorkLeftAlways == TRUE  \* mutant
WorkLeft == ~NoRunnable

Earlier(s, t) == IF s < t THEN s ELSE t
-----------------------------------------------------------------------------
(* Calls by the runnable in execution, or by the constructor of the root.  *)
Calling == pc \in {"construct", "runConfig", "runUser"}

Schedule(a) ==
  /\ Calling
  /\ userq' = ScheduleUser(userq, a)
  /\ UNCHANGED <<configq, requests, timers, fds, timeout, pc, hold, open, closed, wanted>>

Requesting ==
  /\ Calling
  /\ Len(timerq) + Len(fdq["read"]) + Len(fdq["write"]) < MaxPending

ScheduleAfter(a, offset) ==
  /\ Requesting
  /\ timerq' = Append(timerq, [time |-> offset, act |-> a])
  /\ wanted' = [wanted EXCEPT ![a] = Earlier(offset, @)]
  /\ UNCHANGED <<configq, userq, fdq, close, timers, fds, timeout, pc, hold, open, closed>>

(* Of a descriptor that is open. *)
ScheduleReady(d, f, a) ==
  /\ Requesting
  /\ f \in open
  /\ fdq' = [fdq EXCEPT ![d] = Append(@, [dir |-> d, fd |-> f, act |-> a])]
  /\ UNCHANGED <<configq, userq, timerq, close, timers, fds, timeout, pc, hold,
                 open, closed, wanted>>

Close(f) ==
  /\ Calling
  /\ f \in open
  /\ open' = open \ {f}
  /\ close' = close \cup {f}
  /\ UNCHANGED <<configq, userq, timerq, fdq, timers, fds, timeout, pc, hold,
                 closed, wanted>>

(* A closed descriptor's number is used again. *)
Open(f) ==
  /\ Calling
  /\ f \in closed
  /\ open' = open \cup {f}
  /\ closed' = closed \ {f}
  /\ UNCHANGED <<configq, userq, requests, timers, fds, timeout, pc, hold, wanted>>

ScheduleConfig ==
  /\ Calling
  /\ configq < MaxConfig
  /\ configq' = configq + 1
  /\ UNCHANGED <<userq, requests, timers, fds, timeout, pc, hold, open, closed, wanted>>

(* The runnable is deleted; the loop goes on with the user queue, or from  *)
(* the start.                                                              *)
Return ==
  /\ Calling
  /\ hold' = Nothing
  /\ pc' = IF pc = "runConfig" THEN "user" ELSE "loop"
  /\ UNCHANGED <<configq, userq, requests, timers, fds, timeout, open, closed, wanted>>
-----------------------------------------------------------------------------
(* A timer request: a later time than the one there is is dropped, an      *)
(* earlier one replaces it, in both maps.                                  *)
AddTimerFirst(m, x) ==  \* mutant: the first one stays
  IF m.byAction[x.act] # NoTime THEN m
  ELSE [byTime |-> m.byTime \cup {x}, byAction |-> [m.byAction EXCEPT ![x.act] = x.time]]
AddTimer(m, x) ==
  IF x.time >= m.byAction[x.act] THEN m
  ELSE [byTime |-> {y \in m.byTime : y.act # x.act} \cup {x},
        byAction |-> [m.byAction EXCEPT ![x.act] = x.time]]

(* Of the requests for a descriptor the first is registered, unless there  *)
(* is one already.                                                         *)
Registered(F, r) == \E x \in F : x.dir = r.dir /\ x.fd = r.fd

AddFds(F, q) ==
  F \cup {q[i] : i \in {j \in DOMAIN q : /\ ~Registered(F, q[j])
                                       /\ ~Registered({q[k] : k \in 1..(j - 1)}, q[j])}}

(* The head of the loop: the requests are registered, timers one by one,   *)
(* and the timeout of select is chosen.                                    *)
RegisterTimer ==
  /\ pc = "loop" /\ timerq # <<>>
  /\ LET m == AddTimer([byTime |-> byTime, byAction |-> byAction], Head(timerq))
     IN byTime' = m.byTime /\ byAction' = m.byAction
  /\ timerq' = Tail(timerq)
  /\ UNCHANGED <<configq, userq, fdq, close, fds, timeout, pc, hold, open, closed, wanted>>

Timeout(T) ==
  IF configq # 0 \/ userq # <<>> THEN "none"
  ELSE IF T # {} THEN "timer" ELSE "forever"

Register ==
  /\ pc = "loop" /\ WorkLeft /\ timerq = <<>>
  /\ timeout' = Timeout(byTime)
  /\ fds' = AddFds(fds, fdq["read"] \o fdq["write"])
  /\ fdq' = [d \in Dirs |-> <<>>]
  /\ pc' = "purge"
  /\ UNCHANGED <<configq, userq, timerq, close, timers, hold, open, closed, wanted>>

(* Closed descriptors are removed and closed.  The section is skipped when *)
(* there is no timer and no registration; m_close is cleared in any case.  *)
PurgedReads(F) == {r \in F : r.dir = "write" \/ r.fd \notin close}  \* mutant
Purged(F) == {r \in F : r.fd \notin close}

Purge ==
  /\ pc = "purge"
  /\ IF fds = {} /\ byTime = {}
     THEN /\ pc' = "config"
          /\ timeout' = "none"
          /\ UNCHANGED <<fds, closed>>
     ELSE /\ pc' = "select"
          /\ fds' = Purged(fds)
          /\ closed' = closed \cup close
          /\ UNCHANGED timeout
  /\ close' = {}
  /\ UNCHANGED <<configq, userq, timerq, fdq, timers, hold, open, wanted>>

(* Scheduling all of S adds those to the queue that are not in it.         *)
Additions(q, S) == SetToSeqs(S \ Range(q))

(* select returns because descriptors F are ready, the time has come, or   *)
(* at once; timers that are past and the actions of F are scheduled.       *)
Select(F) ==
  LET E == {x \in byTime : x.time = Past}
  IN /\ pc = "select"
     /\ \/ F # {}
        \/ timeout = "none"
        \/ timeout = "timer" /\ \E x \in byTime : x.time <= 0
     /\ \E s \in Additions(userq, {x.act : x \in E}) :
          \E r \in Additions(userq \o s, {x.act : x \in F}) : userq' = userq \o s \o r
     /\ byTime' = byTime \ E
     /\ byAction' = [a \in UserActions |-> IF \E x \in E : x.act = a THEN NoTime ELSE byAction[a]]
     /\ wanted' = [a \in UserActions |-> IF \E x \in E : x.act = a THEN NoTime ELSE wanted[a]]
     /\ fds' = fds \ F
     /\ timeout' = "none"
     /\ pc' = "config"
     /\ UNCHANGED <<configq, requests, hold, open, closed>>

PopConfig ==
  /\ pc = "config"
  /\ \/ /\ configq # 0
        /\ configq' = configq - 1
        /\ hold' = Work
        /\ pc' = "runConfig"
     \/ /\ configq = 0
        /\ pc' = "user"
        /\ UNCHANGED <<configq, hold>>
  /\ UNCHANGED <<userq, requests, timers, fds, timeout, open, closed, wanted>>

Newest(q) == Len(q)  \* mutant: a stack
Oldest(q) == 1

PopUser ==
  /\ pc = "user"
  /\ \/ /\ userq # <<>>
        /\ userq' = RemoveAt(userq, Oldest(userq))
        /\ hold' = userq[Oldest(userq)]
        /\ pc' = "runUser"
     \/ /\ userq = <<>>
        /\ pc' = "loop"
        /\ UNCHANGED <<userq, hold>>
  /\ UNCHANGED <<configq, requests, timers, fds, timeout, open, closed, wanted>>

(* No runnable is left: run clears the model, deletes the runnables that   *)
(* this posts, and returns.  It can be called again.                       *)
Stop ==
  /\ pc = "loop" /\ NoRunnable
  /\ pc' = "stopped"
  /\ UNCHANGED <<configq, userq, requests, timers, fds, timeout, hold, open, closed, wanted>>

Run ==
  /\ pc = "stopped"
  /\ pc' = "construct"
  /\ UNCHANGED <<configq, userq, requests, timers, fds, timeout, hold, open, closed, wanted>>
-----------------------------------------------------------------------------
(* time::now advances. *)
OlderOn(t) == t - 1  \* mutant: without saturation
Older(t) == IF t \in {Past, NoTime} THEN t ELSE t - 1

Tick ==
  /\ byTime' = {[x EXCEPT !.time = Older(@)] : x \in byTime}
  /\ byAction' = [a \in UserActions |-> Older(byAction[a])]
  /\ timerq' = [i \in DOMAIN timerq |-> [timerq[i] EXCEPT !.time = Older(@)]]
  /\ wanted' = [a \in UserActions |-> Older(wanted[a])]
  /\ UNCHANGED <<configq, userq, fdq, close, fds, timeout, pc, hold, open, closed>>

FifoInit ==
  /\ configq = 0 /\ userq = <<>> /\ timerq = <<>>
  /\ fdq = [d \in Dirs |-> <<>>] /\ close = {}
  /\ byTime = {} /\ byAction = [a \in UserActions |-> NoTime]
  /\ fds = {}
  /\ timeout = "none" /\ pc = "stopped" /\ hold = Nothing
  /\ open = Fds /\ closed = {}
  /\ wanted = [a \in UserActions |-> NoTime]

Call ==
  \/ \E a \in UserActions : Schedule(a)
  \/ \E a \in UserActions, offset \in 0..MaxOffset : ScheduleAfter(a, offset)
  \/ \E d \in Dirs, f \in Fds, a \in UserActions : ScheduleReady(d, f, a)
  \/ \E f \in Fds : Close(f) \/ Open(f)
  \/ ScheduleConfig

(* What the thread does without descriptors becoming ready. *)
Advance == RegisterTimer \/ Register \/ Purge \/ Select({}) \/ PopConfig \/ PopUser \/ Return \/ Stop

FifoNext ==
  \/ Call \/ Advance \/ Run \/ Tick
  \/ \E F \in SUBSET fds : Select(F)

FifoSpec == FifoInit /\ [][FifoNext]_fifoVars

(* User code returns, the thread runs, time passes; nothing says that a    *)
(* descriptor becomes ready or that run is called.                         *)
FairFifoSpec == FifoSpec /\ WF_fifoVars(Advance) /\ WF_fifoVars(Tick)
-----------------------------------------------------------------------------
FifoTypeOK ==
  /\ configq \in 0..MaxConfig
  /\ userq \in Seq(UserActions)
  /\ timerq \in Seq(TimeAction)
  /\ fdq \in [Dirs -> Seq(Registration)]
  /\ close \in SUBSET Fds
  /\ byTime \in SUBSET TimeAction
  /\ byAction \in [UserActions -> Times \cup {NoTime}]
  /\ fds \in SUBSET Registration
  /\ timeout \in {"none", "timer", "forever"}
  /\ pc \in {"construct", "loop", "purge", "select", "config", "runConfig",
             "user", "runUser", "stopped"}
  /\ hold \in UserActions \cup {Work, Nothing}
  /\ open \in SUBSET Fds /\ closed \in SUBSET Fds
  /\ wanted \in [UserActions -> Times \cup {NoTime}]

(* time_to_action and action_to_time hold the same timers, one for each    *)
(* action: the erase from one by what the other says finds its entry.      *)
TimersAgree ==
  byTime = {[time |-> byAction[a], act |-> a] : a \in {b \in UserActions : byAction[b] # NoTime}}

(* Of all the times an action was scheduled for since its timer expired,   *)
(* the earliest is in force, in whatever order they were asked for and     *)
(* registered.                                                             *)
EarliestTimer ==
  \A a \in UserActions :
    LET T == {x.time : x \in {y \in byTime \cup Range(timerq) : y.act = a}}
    IN IF T = {} THEN wanted[a] = NoTime
       ELSE wanted[a] \in T /\ \A t \in T : wanted[a] <= t

(* The timers in force are those asked for, in both maps. *)
TimersExact == TimersAgree /\ EarliestTimer

(* "a special function for closing file descriptors that purges them from  *)
(* the reactor" (papers/paper1/design.tex): select is never given a        *)
(* descriptor that user code has passed to close, so its number is not one *)
(* that was closed or has a new owner.                                     *)
SelectsOpenOnly == pc = "select" => \A r \in fds : r.fd \in open

Pending(a) == a \in Range(userq) \/ \E x \in byTime \cup Range(timerq) : x.act = a

(* Each action that was scheduled, now or for a time, eventually runs,     *)
(* though others schedule themselves over and over and configuration goes  *)
(* on for ever.                                                            *)
EventuallyExecuted == \A a \in UserActions : Pending(a) ~> hold = a

(* When no runnable is left, run returns, if nothing has been closed: the  *)
(* timeout of select is chosen before closed descriptors are removed, and  *)
(* after a close of the last one it is for ever.                           *)
EventuallyReturns ==
  (pc # "construct" /\ NoRunnable /\ open = Fds) ~> (pc = "stopped" \/ open # Fds)
=============================================================================
