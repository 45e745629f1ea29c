-------------------------- MODULE SchedulerProofs --------------------------
(***************************************************************************)
(* What holds of lib/simple_scheduler.cpp for every number of contexts,    *)
(* actions, descriptors and calls: a scheduled action is not lost, the I/O *)
(* thread does not sleep on what it was asked, and an action is queued at  *)
(* most three times.  The end of run and the next call of it are among the *)
(* steps.                                                                  *)
(***************************************************************************)
EXTENDS SimpleScheduler, SequenceTheorems, FiniteSetTheorems, TLAPS

Push(a) == [do |-> "push", act |-> a]

\* The second half of schedule_execq is for an action.
PushesActions ==
  \A t \in Threads : half[t].do \in {"push", "delete"} => half[t].act \in Actions

\* Appending adds one element.
LEMMA RangeOfAppend ==
  ASSUME NEW S, NEW q \in Seq(S), NEW a \in S
  PROVE  Range(Append(q, a)) = Range(q) \cup {a}
<1>1. /\ Len(q) \in Nat /\ DOMAIN q = 1..Len(q)
      /\ DOMAIN Append(q, a) = 1..(Len(q) + 1)
      /\ \A i \in 1..Len(q) : Append(q, a)[i] = q[i]
      /\ Append(q, a)[Len(q) + 1] = a
  OBVIOUS
<1>2. \A i \in 1..(Len(q) + 1) : i \in 1..Len(q) \/ i = Len(q) + 1
  BY <1>1
<1>3. 1..Len(q) \subseteq 1..(Len(q) + 1) /\ Len(q) + 1 \in 1..(Len(q) + 1)
  BY <1>1
<1>4. ASSUME NEW x \in Range(Append(q, a)) PROVE x \in Range(q) \cup {a}
  BY <1>1, <1>2 DEF Range
<1>5. ASSUME NEW x \in Range(q) \cup {a} PROVE x \in Range(Append(q, a))
  BY <1>1, <1>3 DEF Range
<1> QED BY <1>4, <1>5

\* Taking the first element leaves the others.
LEMMA RangeOfTail ==
  ASSUME NEW S, NEW q \in Seq(S), q # <<>>
  PROVE  Range(q) \ {Head(q)} \subseteq Range(Tail(q))
<1> SUFFICES ASSUME NEW x \in Range(q), x # Head(q) PROVE x \in Range(Tail(q))
  OBVIOUS
<1>1. PICK i \in 1..Len(q) : q[i] = x
  BY DEF Range
<1>2. i # 1
  BY <1>1
<1>3. /\ i - 1 \in 1..Len(Tail(q)) /\ DOMAIN Tail(q) = 1..Len(Tail(q))
      /\ Tail(q)[i - 1] = q[i]
  BY <1>1, <1>2, HeadTailProperties, LenProperties
<1> QED BY <1>1, <1>3 DEF Range

-----------------------------------------------------------------------------
\* Types, with PushesActions.
LEMMA InitType == SchedInit => SchedTypeOK /\ PushesActions
<1> SUFFICES ASSUME SchedInit PROVE SchedTypeOK /\ PushesActions
  OBVIOUS
<1>1. half \in [Threads -> Halves] /\ PushesActions
  BY DEF SchedInit, PushesActions, NoHalf, Halves
<1>2. /\ sysq \in Seq({Work, Sentinel}) /\ closeq \in Seq(Fds) /\ timerq \in Seq(Actions)
      /\ execq \in [Contexts -> Seq(Actions \cup {Sentinel})]
      /\ fdq \in [Dirs -> Seq(Registration)]
  BY DEF SchedInit
<1>3. /\ calls \in 0..MaxCalls /\ pipe \in Nat
      /\ pc \in [Threads -> Steps]
      /\ hold \in [Threads -> Actions \cup {Work, Nothing}]
  BY MaxCallsAssumption DEF SchedInit, Steps
<1>4. /\ timers = {} /\ fds = {} /\ batch = {} /\ woken = FALSE
      /\ open = Fds /\ closed = {} /\ due = {}
  BY DEF SchedInit
<1> QED BY <1>1, <1>2, <1>3, <1>4 DEF SchedTypeOK

LEMMA SearchType ==
  \A a \in Actions :
    Search(a) \in Halves /\ Search(a).act = a /\ Search(a).do \in {"push", "delete"}
BY DEF Search, Halves

\* The second half of a call is what Search, WakeIfFirst or FinishCall makes of it.
LEMMA HalfType ==
  ASSUME SchedTypeOK, PushesActions, NEW t \in Threads,
         \/ \E a \in Actions : half' = [half EXCEPT ![t] = Search(a)]
         \/ \E q : half[t] = NoHalf /\ WakeIfFirst(t, q)
         \/ half' = [half EXCEPT ![t] = NoHalf]
  PROVE  half' \in [Threads -> Halves] /\ PushesActions'
<1> USE DEF SchedTypeOK, PushesActions
<1>1. ASSUME NEW a \in Actions, half' = [half EXCEPT ![t] = Search(a)]
      PROVE  half' \in [Threads -> Halves] /\ PushesActions'
  BY <1>1, SearchType DEF Halves
<1>2. ASSUME NEW q, half[t] = NoHalf, WakeIfFirst(t, q)
      PROVE  half' \in [Threads -> Halves] /\ PushesActions'
  <2>1. \A w : [NoHalf EXCEPT !.do = w] = [do |-> w, act |-> Nothing]
    BY DEF NoHalf
  <2>2. PICK w \in {"wake", "none"} : half' = [half EXCEPT ![t].do = w]
    BY <1>2 DEF WakeIfFirst
  <2>3. half' = [half EXCEPT ![t] = [do |-> w, act |-> Nothing]]
    BY <1>2, <2>1, <2>2
  <2> QED BY <2>2, <2>3 DEF Halves
<1>3. ASSUME half' = [half EXCEPT ![t] = NoHalf]
      PROVE  half' \in [Threads -> Halves] /\ PushesActions'
  BY <1>3 DEF Halves, NoHalf
<1> QED BY <1>1, <1>2, <1>3

\* Every call of the scheduler keeps the types.
LEMMA CallKeepsType ==
  ASSUME SchedTypeOK, PushesActions, NEW t \in Threads, UserStep(t)
  PROVE  (SchedTypeOK /\ PushesActions)'
<1> USE DEF SchedTypeOK, Calling, ioVars
<1>0. Calling(t) => calls' \in 0..MaxCalls
  BY MaxCallsAssumption
<1>1. ASSUME NEW a \in Actions, CallSchedule(t, a) PROVE (SchedTypeOK /\ PushesActions)'
  <2>1. half' \in [Threads -> Halves] /\ PushesActions'
    BY <1>1, HalfType DEF CallSchedule
  <2> QED BY <1>0, <1>1, <2>1 DEF CallSchedule
<1>2. ASSUME NEW a \in Actions, CallScheduleAfter(t, a) PROVE (SchedTypeOK /\ PushesActions)'
  <2>1. half' \in [Threads -> Halves] /\ PushesActions'
    BY <1>2, HalfType DEF CallScheduleAfter
  <2> QED BY <1>0, <1>2, <2>1 DEF CallScheduleAfter
<1>3. ASSUME NEW d \in Dirs, NEW f \in Fds, NEW a \in Actions, CallScheduleFd(t, d, f, a)
      PROVE  (SchedTypeOK /\ PushesActions)'
  <2>1. half' \in [Threads -> Halves] /\ PushesActions'
    BY <1>3, HalfType DEF CallScheduleFd
  <2>2. [dir |-> d, fd |-> f, act |-> a] \in Registration
    BY DEF Registration
  <2>3. fdq' \in [Dirs -> Seq(Registration)]
    BY <1>3, <2>2 DEF CallScheduleFd
  <2> QED BY <1>0, <1>3, <2>1, <2>3 DEF CallScheduleFd
<1>4. ASSUME NEW f \in Fds, CallClose(t, f) PROVE (SchedTypeOK /\ PushesActions)'
  <2>1. half' \in [Threads -> Halves] /\ PushesActions'
    BY <1>4, HalfType DEF CallClose
  <2> QED BY <1>0, <1>4, <2>1 DEF CallClose
<1>5. CASE CallSystem(t)
  <2>1. sysq' \in Seq({Work, Sentinel})
    BY <1>5, AppendProperties DEF CallSystem
  <2> QED BY <1>0, <1>5, <2>1 DEF CallSystem, PushesActions
<1> QED BY <1>1, <1>2, <1>3, <1>4, <1>5 DEF UserStep

\* So does every other step of a thread.
LEMMA ThreadKeepsType ==
  ASSUME SchedTypeOK, PushesActions, NEW t \in Threads,
         KeepGoing(t) \/ Popping(t) \/ Delete(t) \/ FinishCall(t)
  PROVE  (SchedTypeOK /\ PushesActions)'
<1> USE DEF SchedTypeOK, ioVars, userVars
<1>1. CASE KeepGoing(t)
  <2>1. Unblock(sysq) \in Seq({Work, Sentinel})
    BY AppendProperties DEF Unblock
  <2>2. [c \in Contexts |-> Unblock(execq[c])] \in [Contexts -> Seq(Actions \cup {Sentinel})]
    BY AppendProperties DEF Unblock
  <2>3. /\ sysq' \in Seq({Work, Sentinel}) /\ pipe' \in Nat
        /\ execq' \in [Contexts -> Seq(Actions \cup {Sentinel})]
    BY <1>1, <2>1, <2>2 DEF KeepGoing
  <2>4. pc' \in [Threads -> Steps]
    BY <1>1 DEF KeepGoing, FirstStep, Steps
  <2> QED BY <1>1, <2>3, <2>4 DEF KeepGoing, PushesActions
<1>2. CASE Popping(t)
  <2>1. CASE PopSystem
    <3>1. Head(sysq) \in {Work, Sentinel} /\ Tail(sysq) \in Seq({Work, Sentinel})
      BY <2>1, HeadTailProperties DEF PopSystem
    <3> QED BY <2>1, <3>1 DEF PopSystem, Taken, Threads, Steps, PushesActions
  <2>2. ASSUME NEW c \in Contexts, PopExec(c) PROVE (SchedTypeOK /\ PushesActions)'
    <3>1. /\ Head(execq[c]) \in Actions \cup {Sentinel}
          /\ Tail(execq[c]) \in Seq(Actions \cup {Sentinel})
      BY <2>2, HeadTailProperties DEF PopExec
    <3> QED BY <2>2, <3>1 DEF PopExec, Taken, Threads, Steps, PushesActions
  <2> QED BY <1>2, <2>1, <2>2 DEF Popping
<1>3. CASE Delete(t)
  BY <1>3 DEF Delete, queues, Steps, PushesActions
<1>4. CASE FinishCall(t)
  <2>1. half' \in [Threads -> Halves] /\ PushesActions'
    BY <1>4, HalfType DEF FinishCall
  <2>2. pipe' \in Nat
    BY <1>4 DEF FinishCall
  <2>3. execq' \in [Contexts -> Seq(Actions \cup {Sentinel})]
    <3>1. CASE half[t].do = "push"
      <4>1. half[t].act \in Actions /\ Home[half[t].act] \in Contexts
        BY <3>1, HomeAssumption DEF PushesActions
      <4>2. Append(execq[Home[half[t].act]], half[t].act) \in Seq(Actions \cup {Sentinel})
        BY <4>1, AppendProperties
      <4> QED BY <1>4, <3>1, <4>1, <4>2 DEF FinishCall
    <3> QED BY <1>4, <3>1 DEF FinishCall
  <2> QED BY <1>4, <2>1, <2>2, <2>3 DEF FinishCall
<1> QED BY <1>1, <1>2, <1>3, <1>4

\* What AddRegistrations keeps is among the registrations in the queue.
LEMMA RegistrationsType ==
  \A F \in SUBSET Registration, q \in Seq(Registration) :
    /\ AddRegistrations(F, q) \in SUBSET Registration
    /\ Range(q) \in SUBSET Registration
<1> SUFFICES ASSUME NEW F \in SUBSET Registration, NEW q \in Seq(Registration)
             PROVE  /\ AddRegistrations(F, q) \in SUBSET Registration
                    /\ Range(q) \in SUBSET Registration
  OBVIOUS
<1>1. \A i \in DOMAIN q : q[i] \in Registration
  OBVIOUS
<1> QED BY <1>1 DEF AddRegistrations, Range

\* And every step of the I/O thread's own code.
LEMMA IOKeepsType ==
  ASSUME SchedTypeOK, PushesActions, IOStep
  PROVE  (SchedTypeOK /\ PushesActions)'
<1> USE DEF SchedTypeOK, ioVars, userVars, queues
<1>0. ASSUME NEW step \in Steps, GoTo(step) PROVE pc' \in [Threads -> Steps]
  BY <1>0 DEF GoTo
<1>1. CASE RegisterTimers
  <2>1. Range(timerq) \in SUBSET Actions
    BY DEF Range
  <2>2. pc' \in [Threads -> Steps]
    BY <1>0, <1>1 DEF RegisterTimers, Steps
  <2> QED BY <1>1, <2>1, <2>2 DEF RegisterTimers, AddTimers, PushesActions
<1>2. ASSUME NEW d \in Dirs, NEW step, NEW next \in {"writes", "closes"},
             RegisterFds(d, step, next)
      PROVE  (SchedTypeOK /\ PushesActions)'
  <2>1. fds' \in SUBSET Registration
    BY <1>2, RegistrationsType DEF RegisterFds
  <2>2. fdq' \in [Dirs -> Seq(Registration)]
    BY <1>2 DEF RegisterFds
  <2>3. pc' \in [Threads -> Steps]
    BY <1>0, <1>2 DEF RegisterFds, Steps
  <2> QED BY <1>2, <2>1, <2>2, <2>3 DEF RegisterFds, PushesActions
<1>3. CASE RemoveClosed
  <2>1. Range(closeq) \in SUBSET Fds
    BY DEF Range
  <2>2. pc' \in [Threads -> Steps]
    BY <1>0, <1>3 DEF RemoveClosed, Steps
  <2> QED BY <1>3, <2>1, <2>2 DEF RemoveClosed, PushesActions
<1>4. ASSUME NEW E \in SUBSET timers, NEW F \in SUBSET fds, SelectReturns(E, F)
      PROVE  (SchedTypeOK /\ PushesActions)'
  <2>1. batch' \in SUBSET Ready
    BY <1>4 DEF SelectReturns, Ready
  <2>2. pc' \in [Threads -> Steps]
    BY <1>0, <1>4 DEF SelectReturns, Steps
  <2>3. woken' \in BOOLEAN
    BY <1>4 DEF SelectReturns
  <2> QED BY <1>4, <2>1, <2>2, <2>3 DEF SelectReturns, PushesActions
<1>5. CASE SelectFails
  <2>1. pc' \in [Threads -> Steps]
    BY <1>0, <1>5 DEF SelectFails, Steps
  <2> QED BY <1>5, <2>1 DEF SelectFails, PushesActions
<1>6. CASE Dispatch
  <2>1. \A x \in batch : x.act \in Actions
    BY DEF Ready, Expired, Registration
  <2>2. half' \in [Threads -> Halves] /\ PushesActions'
    BY <1>6, <2>1, HalfType DEF Dispatch, Threads
  <2> QED BY <1>6, <2>2 DEF Dispatch
<1>7. CASE DrainPipe
  <2>1. pc' \in [Threads -> Steps]
    BY <1>0, <1>7 DEF DrainPipe, Steps
  <2>2. pipe' \in Nat
    BY <1>7 DEF DrainPipe, Drained
  <2> QED BY <1>7, <2>1, <2>2 DEF DrainPipe, PushesActions
<1>8. RegisterReads \/ RegisterWrites => (SchedTypeOK /\ PushesActions)'
  BY <1>2 DEF RegisterReads, RegisterWrites, Dirs
<1> QED BY <1>1, <1>3, <1>4, <1>5, <1>6, <1>7, <1>8 DEF IOStep

LEMMA NextType ==
  SchedTypeOK /\ PushesActions /\ [SchedNext]_schedVars => (SchedTypeOK /\ PushesActions)'
<1> SUFFICES ASSUME SchedTypeOK, PushesActions, [SchedNext]_schedVars
             PROVE  (SchedTypeOK /\ PushesActions)'
  OBVIOUS
<1>1. CASE UNCHANGED schedVars
  BY <1>1 DEF SchedTypeOK, PushesActions, schedVars, queues, ioVars, userVars
<1>2. ASSUME NEW f \in Fds, CloseLate(f) PROVE (SchedTypeOK /\ PushesActions)'
  <2>1. closeq' \in Seq(Fds) /\ pipe' \in Nat
    BY <1>2, AppendProperties DEF CloseLate, SchedTypeOK
  <2> QED BY <1>2, <2>1 DEF CloseLate, SchedTypeOK, PushesActions, ioVars
<1>3. CASE RunAgain
  <2>1. sysq' \in Seq({Work, Sentinel}) /\ execq' \in [Contexts -> Seq(Actions \cup {Sentinel})]
    BY <1>3 DEF RunAgain
  <2>2. pipe' \in Nat /\ pc' \in [Threads -> Steps]
    BY <1>3 DEF RunAgain, Steps
  <2> QED BY <1>3, <2>1, <2>2 DEF RunAgain, SchedTypeOK, PushesActions
<1> QED BY <1>1, <1>2, <1>3, CallKeepsType, ThreadKeepsType, IOKeepsType
        DEF SchedNext, EndOfRun

-----------------------------------------------------------------------------
(* The I/O thread holds ready actions only while it dispatches them.       *)
BatchHeld == batch # {} => pc[IOThread] = "dispatch"

LEMMA BatchKept ==
  SchedTypeOK /\ BatchHeld /\ [SchedNext]_schedVars => BatchHeld'
<1> SUFFICES ASSUME SchedTypeOK, BatchHeld, [SchedNext]_schedVars PROVE BatchHeld'
  OBVIOUS
<1> USE DEF BatchHeld
<1>0. pc \in [Threads -> Steps] /\ IOThread \in Threads /\ SystemThread # IOThread
  BY ThreadsAssumption DEF SchedTypeOK, Threads
<1>1. CASE UNCHANGED schedVars
  BY <1>1 DEF schedVars, ioVars
<1>2. ASSUME NEW t \in Threads, UserStep(t) PROVE BatchHeld'
  <2>1. UNCHANGED <<batch, pc>>
    BY <1>2 DEF UserStep, CallSchedule, CallScheduleAfter, CallScheduleFd, CallClose,
                CallSystem, Calling, ioVars
  <2> QED BY <2>1
<1>3. ASSUME NEW t \in Threads, KeepGoing(t) \/ Delete(t) PROVE BatchHeld'
  BY <1>0, <1>3 DEF KeepGoing, Delete, ioVars
<1>4. ASSUME NEW t \in Threads, FinishCall(t) PROVE BatchHeld'
  BY <1>4 DEF FinishCall, ioVars
<1>5. ASSUME NEW t \in Threads, Popping(t) PROVE BatchHeld'
  <2>1. PICK u \in Threads : \E x : u # IOThread /\ Taken(u, x) /\ UNCHANGED ioVars
    BY <1>0, <1>5, ThreadsAssumption DEF Popping, PopSystem, PopExec, Threads
  <2>2. PICK x : u # IOThread /\ Taken(u, x) /\ UNCHANGED ioVars
    BY <2>1
  <2> QED BY <1>0, <2>2 DEF Taken, ioVars
<1>6. CASE IOStep
  BY <1>0, <1>6 DEF IOStep, RegisterTimers, RegisterReads, RegisterWrites, RegisterFds,
      RemoveClosed, SelectReturns, SelectFails, Dispatch, DrainPipe, At, GoTo, ioVars
<1>7. CASE EndOfRun
  BY <1>7 DEF EndOfRun, CloseLate, RunAgain, ioVars
<1> QED BY <1>1, <1>2, <1>3, <1>4, <1>5, <1>6, <1>7 DEF SchedNext

-----------------------------------------------------------------------------
(* NoLostAction.                                                           *)
Kept(a) ==
  \/ a \in Range(execq[Home[a]]) \cup Range(timerq) \cup timers
  \/ \E x \in batch : x.act = a
  \/ \E t \in Threads : half[t] = Push(a)

LEMMA LostMeans == NoLostAction <=> \A a \in due : Kept(a)
BY DEF NoLostAction, Kept, Push

\* A call loses nothing, and keeps what it schedules.
LEMMA CallLosesNothing ==
  ASSUME SchedTypeOK, NEW t \in Threads, UserStep(t), \A a \in due : Kept(a)
  PROVE  (\A a \in due : Kept(a))'
<1>1. half[t] = NoHalf
  BY DEF UserStep, CallSchedule, CallScheduleAfter, CallScheduleFd, CallClose,
         CallSystem, Calling
<1>2. \A a : half[t] # Push(a)
  BY <1>1 DEF NoHalf, Push
<1>3. \A u \in Threads \ {t} : half'[u] = half[u]
  BY DEF SchedTypeOK, UserStep, CallSchedule, CallScheduleAfter, CallScheduleFd, CallClose,
         CallSystem, WakeIfFirst
<1>4. UNCHANGED <<execq, timers, batch>>
  BY DEF UserStep, CallSchedule, CallScheduleAfter, CallScheduleFd, CallClose,
         CallSystem, Calling, ioVars
<1>5. Range(timerq) \subseteq Range(timerq')
  <2>1. \A a \in Actions : Range(Append(timerq, a)) = Range(timerq) \cup {a}
    BY RangeOfAppend DEF SchedTypeOK
  <2> QED BY <2>1 DEF UserStep, CallSchedule, CallScheduleAfter, CallScheduleFd, CallClose,
                      CallSystem
<1>6. \A a : Kept(a) => Kept(a)'
  BY <1>2, <1>3, <1>4, <1>5 DEF Kept
<1>7. ASSUME NEW a \in Actions, CallSchedule(t, a) PROVE Kept(a)'
  <2>1. half'[t] = Search(a) /\ UNCHANGED execq
    BY <1>4, <1>7 DEF CallSchedule, SchedTypeOK
  <2> QED BY <2>1 DEF Search, Duplicate, Kept, Push
<1>8. ASSUME NEW a \in Actions, CallScheduleAfter(t, a) PROVE Kept(a)'
  <2>1. a \in Range(timerq')
    BY <1>8, RangeOfAppend DEF CallScheduleAfter, SchedTypeOK
  <2> QED BY <2>1 DEF Kept
<1>9. \A a \in due' : a \in due \/ Kept(a)'
  BY <1>7, <1>8 DEF UserStep, CallSchedule, CallScheduleAfter, CallScheduleFd, CallClose,
                    CallSystem
<1> QED BY <1>6, <1>9

\* A thread that pops an action runs it, and a push arrives.
LEMMA ThreadLosesNothing ==
  ASSUME SchedTypeOK, PushesActions, \A a \in due : Kept(a), NEW t \in Threads,
         KeepGoing(t) \/ Popping(t) \/ Delete(t) \/ FinishCall(t)
  PROVE  (\A a \in due : Kept(a))'
<1>0. \A a \in due : a \in Actions /\ Home[a] \in Contexts
  BY HomeAssumption DEF SchedTypeOK
<1>1. CASE KeepGoing(t)
  <2>1. \A c \in Contexts : Range(execq[c]) \subseteq Range(execq'[c])
    <3>1. \A c \in Contexts : Range(Append(execq[c], Sentinel)) = Range(execq[c]) \cup {Sentinel}
      <4>1. \A c \in Contexts : execq[c] \in Seq(Actions \cup {Sentinel})
        BY DEF SchedTypeOK
      <4> QED BY <4>1, RangeOfAppend
    <3> QED BY <1>1, <3>1 DEF KeepGoing, Unblock
  <2>2. UNCHANGED <<due, timerq, timers, batch, half>>
    BY <1>1 DEF KeepGoing, ioVars, userVars
  <2> QED BY <1>0, <2>1, <2>2 DEF Kept
<1>2. CASE Popping(t)
  <2>1. CASE PopSystem
    BY <2>1 DEF PopSystem, Taken, ioVars, Kept
  <2>2. ASSUME NEW c \in Contexts, PopExec(c) PROVE (\A a \in due : Kept(a))'
    <3>1. due' = due \ {Head(execq[c])} /\ UNCHANGED <<timerq, timers, batch, half>>
      BY <2>2 DEF PopExec, Taken, ioVars
    <3>2. \A b \in Contexts : Range(execq[b]) \ {Head(execq[c])} \subseteq Range(execq'[b])
      <4>1. Range(execq[c]) \ {Head(execq[c])} \subseteq Range(Tail(execq[c]))
        <5>1. execq[c] \in Seq(Actions \cup {Sentinel}) /\ execq[c] # <<>>
          BY <2>2 DEF PopExec, SchedTypeOK
        <5> QED BY <5>1, RangeOfTail
      <4>2. execq' = [execq EXCEPT ![c] = Tail(execq[c])]
        BY <2>2 DEF PopExec
      <4> QED BY <4>1, <4>2 DEF SchedTypeOK
    <3> QED BY <1>0, <3>1, <3>2 DEF Kept
  <2> QED BY <1>2, <2>1, <2>2 DEF Popping
<1>3. CASE Delete(t)
  BY <1>3 DEF Delete, queues, ioVars, userVars, Kept
<1>4. CASE FinishCall(t)
  <2> DEFINE b == half[t].act
  <2>1. UNCHANGED <<due, timerq, timers, batch>>
    BY <1>4 DEF FinishCall, ioVars, userVars
  <2>2. \A c \in Contexts : Range(execq[c]) \subseteq Range(execq'[c])
    <3>1. CASE half[t].do = "push"
      <4>1. b \in Actions /\ execq[Home[b]] \in Seq(Actions \cup {Sentinel})
        BY <3>1, HomeAssumption DEF PushesActions, SchedTypeOK
      <4>2. Range(Append(execq[Home[b]], b)) = Range(execq[Home[b]]) \cup {b}
        BY <4>1, RangeOfAppend
      <4>3. execq' = [execq EXCEPT ![Home[b]] = Append(execq[Home[b]], b)]
        BY <1>4, <3>1 DEF FinishCall
      <4> QED BY <4>2, <4>3 DEF SchedTypeOK
    <3> QED BY <1>4, <3>1 DEF FinishCall
  <2>3. \A u \in Threads \ {t} : half'[u] = half[u]
    BY <1>4 DEF FinishCall, SchedTypeOK
  <2>4. ASSUME NEW a \in due, half[t] = Push(a) PROVE a \in Range(execq'[Home[a]])
    <3>1. execq[Home[a]] \in Seq(Actions \cup {Sentinel})
      BY <1>0 DEF SchedTypeOK
    <3>2. Range(Append(execq[Home[a]], a)) = Range(execq[Home[a]]) \cup {a}
      BY <1>0, <3>1, RangeOfAppend
    <3>3. execq' = [execq EXCEPT ![Home[a]] = Append(execq[Home[a]], a)]
      BY <1>4, <2>4 DEF FinishCall, Push
    <3> QED BY <1>0, <3>2, <3>3 DEF SchedTypeOK
  <2> QED BY <1>0, <2>1, <2>2, <2>3, <2>4 DEF Kept
<1> QED BY <1>1, <1>2, <1>3, <1>4

\* The I/O thread passes on what it takes.
LEMMA IOLosesNothing ==
  ASSUME SchedTypeOK, BatchHeld, \A a \in due : Kept(a), IOStep
  PROVE  (\A a \in due : Kept(a))'
<1>1. UNCHANGED <<due, execq>>
  BY DEF IOStep, RegisterTimers, RegisterReads, RegisterWrites, RegisterFds, RemoveClosed,
         SelectReturns, SelectFails, Dispatch, DrainPipe, userVars, queues
<1>2. CASE RegisterTimers
  BY <1>1, <1>2 DEF RegisterTimers, AddTimers, Range, Kept
<1>3. CASE RegisterReads \/ RegisterWrites \/ RemoveClosed \/ SelectFails \/ DrainPipe
  BY <1>1, <1>3 DEF RegisterReads, RegisterWrites, RegisterFds, RemoveClosed, SelectFails,
                    DrainPipe, queues, ioVars, Kept
<1>4. ASSUME NEW E \in SUBSET timers, NEW F \in SUBSET fds, SelectReturns(E, F)
      PROVE  (\A a \in due : Kept(a))'
  <2>1. batch = {}
    BY <1>4 DEF SelectReturns, At, BatchHeld
  <2>2. timers' = timers \ E /\ UNCHANGED <<timerq, half>>
    BY <1>4 DEF SelectReturns, queues
  <2>3. \A a \in E : \E x \in batch' : x.act = a
    <3>1. \A a \in E : Expired(a) \in batch' /\ Expired(a).act = a
      BY <1>4 DEF SelectReturns, Expired
    <3> QED BY <3>1
  <2> QED BY <1>1, <2>1, <2>2, <2>3 DEF Kept
<1>5. CASE Dispatch
  <2>1. PICK x \in batch : /\ batch' = batch \ {x}
                           /\ half' = [half EXCEPT ![IOThread] = Search(x.act)]
    BY <1>5 DEF Dispatch
  <2>2. half[IOThread] = NoHalf /\ UNCHANGED <<timerq, timers>>
    BY <1>5 DEF Dispatch, At, queues
  <2>3. \A a : half[IOThread] # Push(a)
    BY <2>2 DEF NoHalf, Push
  <2>4. \A u \in Threads \ {IOThread} : half'[u] = half[u]
    BY <2>1 DEF SchedTypeOK
  <2>5. half'[IOThread] = Search(x.act)
    BY <2>1 DEF SchedTypeOK, Threads
  <2>6. Kept(x.act)'
    BY <1>1, <2>5 DEF Search, Duplicate, Push, Kept, Threads
  <2> QED BY <1>1, <2>1, <2>2, <2>3, <2>4, <2>6 DEF Kept
<1> QED BY <1>2, <1>3, <1>4, <1>5 DEF IOStep

-----------------------------------------------------------------------------
(* NoLostWakeup: what the I/O thread has left behind since it last looked  *)
(* at a queue, someone wakes it up for.                                    *)
Awake == pipe > 0 \/ \E t \in Threads : half[t].do = "wake"

Noticed ==
  /\ pc[IOThread] \in {"reads", "writes", "closes", "select"} => timerq = <<>> \/ Awake
  /\ pc[IOThread] \in {"writes", "closes", "select"} => fdq["read"] = <<>> \/ Awake
  /\ pc[IOThread] \in {"closes", "select"} => fdq["write"] = <<>> \/ Awake
  /\ pc[IOThread] = "select" => closeq = <<>> \/ Awake

\* The first element of a queue wakes the thread up.
LEMMA FirstWakes ==
  ASSUME SchedTypeOK, NEW t \in Threads, half[t] = NoHalf,
         NEW S, NEW q \in Seq(S), NEW x \in S, WakeIfFirst(t, Append(q, x)), pipe' = pipe
  PROVE  (Awake => Awake') /\ (q = <<>> => Awake')
<1>1. \A u \in Threads \ {t} : half'[u] = half[u]
  BY DEF WakeIfFirst, SchedTypeOK
<1>2. half[t].do = "none"
  BY DEF NoHalf
<1>3. q = <<>> => half'[t].do = "wake"
  BY DEF WakeIfFirst, SchedTypeOK, Halves
<1> QED BY <1>1, <1>2, <1>3 DEF Awake

LEMMA CallNotices ==
  ASSUME SchedTypeOK, Noticed, NEW t \in Threads, UserStep(t)
  PROVE  Noticed'
<1>1. half[t] = NoHalf /\ UNCHANGED <<pc, pipe>>
  BY DEF UserStep, CallSchedule, CallScheduleAfter, CallScheduleFd, CallClose,
         CallSystem, Calling
<1>2. ASSUME NEW a \in Actions, CallSchedule(t, a) PROVE Noticed'
  <2>1. \A u \in Threads \ {t} : half'[u] = half[u]
    BY <1>2 DEF CallSchedule, SchedTypeOK
  <2>2. half[t].do = "none"
    BY <1>1 DEF NoHalf
  <2> QED BY <1>1, <1>2, <2>1, <2>2 DEF CallSchedule, Noticed, Awake
<1>3. ASSUME NEW a \in Actions, CallScheduleAfter(t, a) PROVE Noticed'
  <2>1. (Awake => Awake') /\ (timerq = <<>> => Awake')
    BY <1>1, <1>3, FirstWakes DEF CallScheduleAfter, SchedTypeOK
  <2> QED BY <1>1, <1>3, <2>1 DEF CallScheduleAfter, Noticed
<1>4. ASSUME NEW d \in Dirs, NEW f \in Fds, NEW a \in Actions, CallScheduleFd(t, d, f, a)
      PROVE  Noticed'
  <2> DEFINE r == [dir |-> d, fd |-> f, act |-> a]
  <2>1. fdq' = [fdq EXCEPT ![d] = Append(fdq[d], r)] /\ fdq[d] \in Seq(Registration)
    BY <1>4 DEF CallScheduleFd, SchedTypeOK
  <2>2. r \in Registration
    BY DEF Registration
  <2>3. WakeIfFirst(t, Append(fdq[d], r))
    BY <1>4, <2>1 DEF CallScheduleFd, SchedTypeOK
  <2>4. (Awake => Awake') /\ (fdq[d] = <<>> => Awake')
    BY <1>1, <2>1, <2>2, <2>3, FirstWakes
  <2>5. \A e \in Dirs : fdq'[e] = fdq[e] \/ e = d
    BY <2>1 DEF SchedTypeOK
  <2>6. UNCHANGED <<timerq, closeq>>
    BY <1>4 DEF CallScheduleFd
  <2> QED BY <1>1, <2>4, <2>5, <2>6 DEF Noticed, Dirs
<1>5. ASSUME NEW f \in Fds, CallClose(t, f) PROVE Noticed'
  <2>1. (Awake => Awake') /\ (closeq = <<>> => Awake')
    BY <1>1, <1>5, FirstWakes DEF CallClose, SchedTypeOK
  <2> QED BY <1>1, <1>5, <2>1 DEF CallClose, Noticed
<1>6. CASE CallSystem(t)
  BY <1>1, <1>6 DEF CallSystem, Noticed, Awake
<1> QED BY <1>2, <1>3, <1>4, <1>5, <1>6 DEF UserStep

LEMMA ThreadNotices ==
  ASSUME SchedTypeOK, Noticed, NEW t \in Threads,
         KeepGoing(t) \/ Popping(t) \/ Delete(t) \/ FinishCall(t)
  PROVE  Noticed'
<1>0. pc \in [Threads -> Steps] /\ IOThread \in Threads /\ pipe \in Nat
  BY DEF SchedTypeOK, Threads
<1>1. CASE KeepGoing(t)
  <2>1. Awake => Awake'
    BY <1>0, <1>1 DEF KeepGoing, Awake
  <2>2. pc'[IOThread] \in {pc[IOThread], "timers", "exited"}
    BY <1>0, <1>1 DEF KeepGoing, FirstStep
  <2> QED BY <1>1, <2>1, <2>2 DEF KeepGoing, Noticed
<1>2. CASE Popping(t)
  <2>1. PICK u \in Threads : \E x : /\ u # IOThread /\ Taken(u, x)
                                    /\ UNCHANGED <<timerq, fdq, closeq, pipe, half>>
    BY <1>0, <1>2, ThreadsAssumption DEF Popping, PopSystem, PopExec, Threads
  <2>2. UNCHANGED <<timerq, fdq, closeq, pipe, half>>
    BY <2>1
  <2>3. pc'[IOThread] = pc[IOThread]
    BY <1>0, <2>1 DEF Taken
  <2> QED BY <2>2, <2>3 DEF Noticed, Awake
<1>3. CASE Delete(t)
  <2>1. pc'[IOThread] \in {pc[IOThread], "check"}
    BY <1>0, <1>3 DEF Delete
  <2> QED BY <1>3, <2>1 DEF Delete, queues, Noticed, Awake
<1>4. CASE FinishCall(t)
  <2>1. \A u \in Threads \ {t} : half'[u] = half[u]
    BY <1>4 DEF FinishCall, SchedTypeOK
  <2>2. Awake => Awake'
    BY <1>0, <1>4, <2>1 DEF FinishCall, Awake
  <2> QED BY <1>4, <2>2 DEF FinishCall, Noticed
<1> QED BY <1>1, <1>2, <1>3, <1>4

LEMMA IONotices ==
  ASSUME SchedTypeOK, Noticed, IOStep
  PROVE  Noticed'
<1> USE DEF At, GoTo
<1>0. pc \in [Threads -> Steps] /\ IOThread \in Threads
  BY DEF SchedTypeOK, Threads
<1>1. CASE RegisterTimers
  BY <1>0, <1>1 DEF RegisterTimers, Noticed
<1>2. CASE RegisterReads
  <2>1. fdq'["read"] = <<>>
    BY <1>2 DEF RegisterReads, RegisterFds, SchedTypeOK, Dirs
  <2>2. UNCHANGED <<timerq, pipe, half>> /\ pc[IOThread] = "reads" /\ pc'[IOThread] = "writes"
    BY <1>0, <1>2 DEF RegisterReads, RegisterFds
  <2> QED BY <2>1, <2>2 DEF Noticed, Awake
<1>3. CASE RegisterWrites
  <2>1. fdq'["write"] = <<>> /\ fdq'["read"] = fdq["read"]
    BY <1>3 DEF RegisterWrites, RegisterFds, SchedTypeOK, Dirs
  <2>2. UNCHANGED <<timerq, pipe, half>> /\ pc[IOThread] = "writes" /\ pc'[IOThread] = "closes"
    BY <1>0, <1>3 DEF RegisterWrites, RegisterFds
  <2> QED BY <2>1, <2>2 DEF Noticed, Awake
<1>4. CASE RemoveClosed
  <2>1. /\ UNCHANGED <<timerq, fdq, pipe, half>> /\ closeq' = <<>>
        /\ pc[IOThread] = "closes" /\ pc'[IOThread] = "select"
    BY <1>0, <1>4 DEF RemoveClosed
  <2> QED BY <2>1 DEF Noticed, Awake
<1>5. CASE ~(RegisterTimers \/ RegisterReads \/ RegisterWrites \/ RemoveClosed)
  <2>1. pc'[IOThread] \in {"dispatch", "aborted", "check"}
    BY <1>0, <1>5 DEF IOStep, SelectReturns, SelectFails, Dispatch, DrainPipe
  <2> QED BY <2>1 DEF Noticed
<1> QED BY <1>1, <1>2, <1>3, <1>4, <1>5

-----------------------------------------------------------------------------
(* AtMostThreeCopies: the copies in the queue, and those about to be pushed. *)
Positions(q, a) == {i \in DOMAIN q : q[i] = a}
Pushers(a) == {t \in Threads : half[t] = Push(a)}

\* Besides the I/O thread and that of its context, one thread pushes an action.
OneOutsider ==
  \A a \in Actions : \A t, u \in OutsideContext(a) :
    half[t] = Push(a) /\ half[u] = Push(a) => t = u

LEMMA CopiesMean ==
  AtMostThreeCopies <=>
    \A a \in Actions : Cardinality(Positions(execq[Home[a]], a)) + Cardinality(Pushers(a)) <= 3
BY DEF AtMostThreeCopies, Copies, Positions, Pushers, Push

\* Appending x adds a copy of x and of nothing else.
LEMMA CopiesOfAppend ==
  ASSUME NEW S, NEW q \in Seq(S), NEW x \in S, NEW a
  PROVE  /\ IsFiniteSet(Positions(q, a)) /\ Cardinality(Positions(q, a)) \in Nat
         /\ Cardinality(Positions(Append(q, x), a)) =
              Cardinality(Positions(q, a)) + (IF x = a THEN 1 ELSE 0)
<1>1. /\ Len(q) \in Nat /\ DOMAIN q = 1..Len(q)
      /\ DOMAIN Append(q, x) = 1..(Len(q) + 1)
      /\ \A i \in 1..Len(q) : Append(q, x)[i] = q[i]
      /\ Append(q, x)[Len(q) + 1] = x
  OBVIOUS
<1>2. IsFiniteSet(1..Len(q))
  BY <1>1, FS_Interval
<1>3. IsFiniteSet(Positions(q, a)) /\ Len(q) + 1 \notin Positions(q, a)
  BY <1>1, <1>2, FS_Subset DEF Positions
<1>4. Positions(Append(q, x), a) =
        IF x = a THEN Positions(q, a) \cup {Len(q) + 1} ELSE Positions(q, a)
  BY <1>1 DEF Positions
<1>5. Cardinality(Positions(q, a)) \in Nat
  BY <1>3, FS_CardinalityType
<1>6. Cardinality(Positions(q, a) \cup {Len(q) + 1}) = Cardinality(Positions(q, a)) + 1
  BY <1>3, FS_AddElement
<1>7. CASE x = a
  BY <1>3, <1>4, <1>5, <1>6, <1>7
<1>8. CASE x # a
  BY <1>3, <1>4, <1>5, <1>8
<1> QED BY <1>7, <1>8

\* Taking the first element adds no copy.
LEMMA CopiesOfTail ==
  ASSUME NEW S, NEW q \in Seq(S), q # <<>>, NEW a
  PROVE  Cardinality(Positions(Tail(q), a)) <= Cardinality(Positions(q, a))
<1> DEFINE later == [i \in Positions(Tail(q), a) |-> i + 1]
<1>1. /\ Tail(q) \in Seq(S) /\ Len(Tail(q)) = Len(q) - 1 /\ Len(q) \in Nat
      /\ \A i \in 1..Len(Tail(q)) : Tail(q)[i] = q[i + 1]
      /\ DOMAIN q = 1..Len(q) /\ DOMAIN Tail(q) = 1..Len(Tail(q))
  BY HeadTailProperties, LenProperties
<1>2. \A i \in Positions(Tail(q), a) : i \in Nat /\ i + 1 \in Positions(q, a)
  BY <1>1 DEF Positions
<1>3. later \in Injection(Positions(Tail(q), a), Positions(q, a))
  BY <1>2 DEF Injection, IsInjective
<1>4. IsFiniteSet(Positions(q, a))
  <2>1. IsFiniteSet(1..Len(q)) /\ Positions(q, a) \subseteq 1..Len(q)
    BY <1>1, FS_Interval DEF Positions
  <2> QED BY <2>1, FS_Subset
<1> QED BY <1>3, <1>4, FS_Injection

\* A set of three threads has three elements at most.
LEMMA ThreeThreads ==
  \A x, y, z : IsFiniteSet({x, y, z}) /\ Cardinality({x, y, z}) <= 3
<1> TAKE x, y, z
<1>1. IsFiniteSet({x}) /\ Cardinality({x}) = 1
  BY FS_Singleton
<1>2. IsFiniteSet({x} \cup {y}) /\ Cardinality({x} \cup {y}) \in {1, 2}
  BY <1>1, FS_AddElement
<1>3. /\ IsFiniteSet(({x} \cup {y}) \cup {z})
      /\ Cardinality(({x} \cup {y}) \cup {z}) \in {1, 2, 3}
  BY <1>2, FS_AddElement
<1>4. ({x} \cup {y}) \cup {z} = {x, y, z}
  OBVIOUS
<1> QED BY <1>3, <1>4

LEMMA PushersFew ==
  ASSUME OneOutsider, NEW a \in Actions
  PROVE  /\ IsFiniteSet(Pushers(a)) /\ Cardinality(Pushers(a)) \in Nat
         /\ Cardinality(Pushers(a)) <= 3
<1>1. PICK u : Pushers(a) \subseteq {u, IOThread, Home[a]}
  BY DEF OneOutsider, Pushers, OutsideContext
<1> DEFINE three == {u, IOThread, Home[a]}
<1>2. IsFiniteSet(three) /\ Cardinality(three) <= 3
  BY ThreeThreads
<1>3. Pushers(a) \subseteq three
  BY <1>1
<1> HIDE DEF three
<1>4. Cardinality(three) \in Nat
  BY <1>2, FS_CardinalityType
<1>5. IsFiniteSet(Pushers(a)) /\ Cardinality(Pushers(a)) <= Cardinality(three)
  BY <1>2, <1>3, FS_Subset
<1>6. Cardinality(Pushers(a)) \in Nat
  BY <1>5, FS_CardinalityType
<1> QED BY <1>2, <1>4, <1>5, <1>6

\* The second halves that a step leaves or finishes.
LEMMA OneOutsiderKept ==
  SchedTypeOK /\ OneOutsider /\ [SchedNext]_schedVars => OneOutsider'
<1> SUFFICES ASSUME SchedTypeOK, OneOutsider, [SchedNext]_schedVars PROVE OneOutsider'
  OBVIOUS
<1>1. ASSUME NEW t \in Threads, NEW a \in Actions, CallSchedule(t, a) PROVE OneOutsider'
  <2>1. /\ \A u \in Threads \ {t} : half'[u] = half[u]
        /\ half'[t] = Search(a)
        /\ t \in OutsideContext(a) => \A u \in OutsideContext(a) : half[u].act # a
    BY <1>1 DEF CallSchedule, SchedTypeOK, OutsideContext
  <2>2. \A b : Search(a) = Push(b) => b = a
    BY DEF Search, Push
  <2>3. t \in OutsideContext(a) => \A u \in OutsideContext(a) : half[u] # Push(a)
    BY <2>1 DEF Push
  <2>4. \A b : OutsideContext(b) \subseteq Threads
    BY DEF OutsideContext
  <2> QED BY <2>1, <2>2, <2>3, <2>4 DEF OneOutsider
<1>2. ASSUME NEW t \in Threads, \A u \in Threads \ {t} : half'[u] = half[u],
             t = IOThread \/ \A b : half'[t] # Push(b)
      PROVE  OneOutsider'
  BY <1>2 DEF OneOutsider, OutsideContext
<1>3. ASSUME NEW t \in Threads, NEW q, half[t] = NoHalf, WakeIfFirst(t, q) PROVE OneOutsider'
  <2>1. /\ \A u \in Threads \ {t} : half'[u] = half[u]
        /\ half'[t].do \in {"wake", "none"}
    BY <1>3 DEF WakeIfFirst, SchedTypeOK, Halves
  <2> QED BY <1>2, <2>1 DEF Push
<1>4. ASSUME NEW t \in Threads, FinishCall(t) PROVE OneOutsider'
  <2>1. (\A u \in Threads \ {t} : half'[u] = half[u]) /\ half'[t] = NoHalf
    BY <1>4 DEF FinishCall, SchedTypeOK
  <2> QED BY <1>2, <2>1 DEF NoHalf, Push
<1>5. CASE Dispatch
  <2>1. IOThread \in Threads /\ \A u \in Threads \ {IOThread} : half'[u] = half[u]
    BY <1>5 DEF Dispatch, SchedTypeOK, Threads
  <2> QED BY <1>2, <2>1
<1>6. CASE UNCHANGED half
  BY <1>6 DEF OneOutsider
<1>7. ASSUME NEW t \in Threads, UserStep(t) PROVE OneOutsider'
  <2>1. half[t] = NoHalf
    BY <1>7 DEF UserStep, CallSchedule, CallScheduleAfter, CallScheduleFd, CallClose,
                CallSystem, Calling
  <2> QED BY <1>1, <1>3, <1>6, <1>7, <2>1
          DEF UserStep, CallScheduleAfter, CallScheduleFd, CallClose, CallSystem
<1>8. ASSUME NEW t \in Threads, KeepGoing(t) \/ Popping(t) \/ Delete(t) PROVE OneOutsider'
  BY <1>6, <1>8 DEF KeepGoing, Popping, PopSystem, PopExec, Delete
<1>9. IOStep => Dispatch \/ UNCHANGED half
  BY DEF IOStep, RegisterTimers, RegisterReads, RegisterWrites, RegisterFds, RemoveClosed,
         SelectReturns, SelectFails, DrainPipe
<1>10. EndOfRun => UNCHANGED half
  BY DEF EndOfRun, CloseLate, RunAgain
<1> QED BY <1>4, <1>5, <1>6, <1>7, <1>8, <1>9, <1>10 DEF SchedNext, schedVars

\* A search finds a copy, or no copy is in the queue.
LEMMA SearchFinds ==
  ASSUME OneOutsider', NEW a \in Actions, ~Duplicate(a), execq' = execq
  PROVE  (Cardinality(Positions(execq[Home[a]], a)) + Cardinality(Pushers(a)) <= 3)'
<1>1. Positions(execq[Home[a]], a) = {}
  BY DEF Duplicate, Range, Positions
<1>2. Cardinality(Positions(execq[Home[a]], a)) = 0
  BY <1>1, FS_EmptySet
<1>3. (Cardinality(Pushers(a)) \in Nat /\ Cardinality(Pushers(a)) <= 3)'
  <2>1. (/\ IsFiniteSet(Pushers(a))
         /\ Cardinality(Pushers(a)) \in Nat /\ Cardinality(Pushers(a)) <= 3)'
    BY PushersFew, PTL
  <2> QED BY <2>1
<1> QED BY <1>2, <1>3

\* No step makes a fourth copy.
LEMMA FewCopiesKept ==
  ASSUME SchedTypeOK, PushesActions, OneOutsider, AtMostThreeCopies, [SchedNext]_schedVars
  PROVE  AtMostThreeCopies'
<1> DEFINE Few(a) == Cardinality(Positions(execq[Home[a]], a)) + Cardinality(Pushers(a)) <= 3
<1>0. (\A a \in Actions : Few(a)) /\ (\A a \in Actions : Few(a)') => AtMostThreeCopies'
  BY DEF AtMostThreeCopies, Copies, Positions, Pushers, Push
<1>1. \A a \in Actions : Few(a)
  BY CopiesMean
<1>2. OneOutsider'
  BY OneOutsiderKept
<1>3. \A a \in Actions : /\ execq[Home[a]] \in Seq(Actions \cup {Sentinel})
                         /\ Home[a] \in Contexts
  BY HomeAssumption DEF SchedTypeOK
<1>4. \A a \in Actions :
        /\ IsFiniteSet(Pushers(a)) /\ Cardinality(Pushers(a)) \in Nat
        /\ Cardinality(Positions(execq[Home[a]], a)) \in Nat
  <2> TAKE a \in Actions
  <2>1. Cardinality(Positions(execq[Home[a]], a)) \in Nat
    BY <1>3, CopiesOfAppend
  <2> QED BY <2>1, PushersFew
\* The steps in the middle of which a thread searches ...
<1>5. ASSUME NEW t \in Threads, half[t] = NoHalf, NEW a \in Actions, UNCHANGED execq,
             half' = [half EXCEPT ![t] = Search(a)]
      PROVE  AtMostThreeCopies'
  <2>1. (\A u \in Threads \ {t} : half'[u] = half[u]) /\ half'[t] = Search(a)
    BY <1>5 DEF SchedTypeOK
  <2>2. ASSUME NEW b \in Actions, b # a \/ Duplicate(a) PROVE Few(b)'
    <3>1. Search(a) # Push(b)
      BY <2>2 DEF Search, Push
    <3>2. NoHalf # Push(b)
      BY DEF NoHalf, Push
    <3>3. Pushers(b)' = Pushers(b)
      BY <1>5, <2>1, <3>1, <3>2 DEF Pushers
    <3> QED BY <1>1, <1>5, <3>3
  <2>3. ~Duplicate(a) => Few(a)'
    BY <1>2, <1>5, SearchFinds
  <2> QED BY <1>0, <1>1, <2>2, <2>3
\* ... those that leave copies and pushes alone ...
<1>6. ASSUME UNCHANGED execq,
             \A t \in Threads, a \in Actions : half'[t] = Push(a) <=> half[t] = Push(a)
      PROVE  AtMostThreeCopies'
  <2>1. \A a \in Actions : Pushers(a)' = Pushers(a)
    BY <1>6 DEF Pushers
  <2> QED BY <1>0, <1>1, <1>6, <2>1
<1>7. ASSUME NEW t \in Threads, NEW q, half[t] = NoHalf, WakeIfFirst(t, q), UNCHANGED execq
      PROVE  AtMostThreeCopies'
  <2>1. /\ \A u \in Threads \ {t} : half'[u] = half[u]
        /\ half'[t].do \in {"wake", "none"}
    BY <1>7 DEF WakeIfFirst, SchedTypeOK, Halves
  <2> QED BY <1>6, <1>7, <2>1 DEF Push, NoHalf
\* ... the end of a push, which turns it into a copy ...
<1>8. ASSUME NEW t \in Threads, FinishCall(t) PROVE AtMostThreeCopies'
  <2>1. (\A u \in Threads \ {t} : half'[u] = half[u]) /\ half'[t] = NoHalf
    BY <1>8 DEF FinishCall, SchedTypeOK
  <2>2. \A b : NoHalf # Push(b)
    BY DEF NoHalf, Push
  <2>3. \A b : Pushers(b)' = Pushers(b) \ {t}
    BY <2>1, <2>2 DEF Pushers
  <2>4. CASE half[t].do # "push"
    <3>1. \A b : half[t] # Push(b)
      BY <2>4 DEF Push
    <3>2. UNCHANGED execq
      BY <1>8, <2>4 DEF FinishCall
    <3> QED BY <1>6, <2>1, <2>2, <3>1, <3>2
  <2>5. CASE half[t].do = "push"
    <3>1. PICK a \in Actions : half[t] = Push(a)
      BY <2>5 DEF PushesActions, SchedTypeOK, Halves, Push
    <3>2. execq' = [execq EXCEPT ![Home[a]] = Append(execq[Home[a]], a)]
      BY <1>8, <3>1 DEF FinishCall, Push
    <3> SUFFICES ASSUME NEW b \in Actions PROVE Few(b)'
      BY <1>0, <1>1
    <3>3. execq'[Home[b]] \in {execq[Home[b]], Append(execq[Home[b]], a)}
      BY <1>3, <3>2 DEF SchedTypeOK
    <3>4. CASE b = a
      <4>1. Cardinality(Pushers(a) \ {t}) = Cardinality(Pushers(a)) - 1
        <5>1. t \in Pushers(a)
          BY <3>1 DEF Pushers
        <5> QED BY <1>4, <5>1, FS_RemoveElement
      <4>2. Cardinality(Positions(Append(execq[Home[a]], a), a)) =
              Cardinality(Positions(execq[Home[a]], a)) + 1
        BY <1>3, CopiesOfAppend
      <4>3. execq'[Home[a]] = Append(execq[Home[a]], a)
        BY <1>3, <3>2 DEF SchedTypeOK
      <4>4. Cardinality(Positions(execq'[Home[a]], a)) + Cardinality(Pushers(a) \ {t}) <= 3
        BY <1>1, <1>4, <4>1, <4>2, <4>3
      <4> QED BY <2>3, <3>4, <4>4 DEF Positions
    <3>5. CASE b # a
      <4>1. t \notin Pushers(b)
        BY <3>1, <3>5 DEF Pushers, Push
      <4>2. Pushers(b)' = Pushers(b)
        BY <2>3, <4>1
      <4>3. Cardinality(Positions(Append(execq[Home[b]], a), b)) =
              Cardinality(Positions(execq[Home[b]], b))
        <5>1. Cardinality(Positions(execq[Home[b]], b)) \in Nat
          BY <1>4
        <5> QED BY <1>3, <3>5, <5>1, CopiesOfAppend
      <4>4. Cardinality(Positions(execq'[Home[b]], b)) = Cardinality(Positions(execq[Home[b]], b))
        BY <3>3, <4>3
      <4> QED BY <1>1, <4>2, <4>4 DEF Positions
    <3> QED BY <3>4, <3>5
  <2> QED BY <2>4, <2>5
\* ... and those that take an element or append a sentinel.
<1>9. ASSUME UNCHANGED half,
             \A a \in Actions : Cardinality(Positions(execq'[Home[a]], a))
                                  <= Cardinality(Positions(execq[Home[a]], a)),
             \A a \in Actions : Cardinality(Positions(execq'[Home[a]], a)) \in Int
      PROVE  AtMostThreeCopies'
  <2>1. \A a \in Actions : Pushers(a)' = Pushers(a)
    BY <1>9 DEF Pushers
  <2> SUFFICES ASSUME NEW a \in Actions PROVE Few(a)'
    BY <1>0, <1>1
  <2>2. Cardinality(Positions(execq'[Home[a]], a)) + Cardinality(Pushers(a)') <= 3
    BY <1>1, <1>4, <1>9, <2>1
  <2> QED BY <2>2 DEF Positions
<1>10. ASSUME NEW t \in Threads, UserStep(t) PROVE AtMostThreeCopies'
  <2>1. half[t] = NoHalf /\ UNCHANGED execq
    BY <1>10 DEF UserStep, CallSchedule, CallScheduleAfter, CallScheduleFd, CallClose,
                 CallSystem, Calling
  <2> QED BY <1>5, <1>6, <1>7, <1>10, <2>1
          DEF UserStep, CallSchedule, CallScheduleAfter, CallScheduleFd, CallClose, CallSystem
<1>11. ASSUME NEW t \in Threads, KeepGoing(t) PROVE AtMostThreeCopies'
  <2>1. UNCHANGED half
    BY <1>11 DEF KeepGoing
  <2>2. \A a \in Actions : execq'[Home[a]] \in {execq[Home[a]], Append(execq[Home[a]], Sentinel)}
    BY <1>3, <1>11 DEF KeepGoing, Unblock
  <2>3. ASSUME NEW a \in Actions
        PROVE  Cardinality(Positions(execq'[Home[a]], a)) =
                 Cardinality(Positions(execq[Home[a]], a))
    <3>1. Cardinality(Positions(Append(execq[Home[a]], Sentinel), a)) =
            Cardinality(Positions(execq[Home[a]], a))
      <4>1. Cardinality(Positions(execq[Home[a]], a)) \in Nat
        BY <1>4
      <4> QED BY <1>3, <4>1, SentinelAssumption, CopiesOfAppend
    <3> QED BY <2>2, <3>1
  <2> QED BY <1>4, <1>9, <2>1, <2>3
<1>12. ASSUME NEW c \in Contexts, PopExec(c) PROVE AtMostThreeCopies'
  <2>1. UNCHANGED half /\ execq[c] # <<>> /\ execq' = [execq EXCEPT ![c] = Tail(execq[c])]
    BY <1>12 DEF PopExec
  <2>2. ASSUME NEW a \in Actions
        PROVE  /\ Cardinality(Positions(execq'[Home[a]], a)) <=
                    Cardinality(Positions(execq[Home[a]], a))
               /\ Cardinality(Positions(execq'[Home[a]], a)) \in Int
    <3>1. CASE Home[a] = c
      <4>1. /\ execq'[Home[a]] = Tail(execq[Home[a]])
            /\ Tail(execq[Home[a]]) \in Seq(Actions \cup {Sentinel})
        BY <1>3, <2>1, <3>1, HeadTailProperties DEF SchedTypeOK
      <4>2. Cardinality(Positions(Tail(execq[Home[a]]), a)) \in Nat
        BY <4>1, CopiesOfAppend
      <4> QED BY <1>3, <2>1, <3>1, <4>1, <4>2, CopiesOfTail
    <3>2. CASE Home[a] # c
      BY <1>3, <1>4, <2>1, <3>2 DEF SchedTypeOK
    <3> QED BY <3>1, <3>2
  <2> QED BY <1>9, <2>1, <2>2
<1>13. CASE Dispatch
  <2>1. PICK x \in batch : half' = [half EXCEPT ![IOThread] = Search(x.act)]
    BY <1>13 DEF Dispatch
  <2>2. x.act \in Actions
    BY DEF SchedTypeOK, Ready, Expired, Registration
  <2>3. half[IOThread] = NoHalf /\ UNCHANGED execq /\ IOThread \in Threads
    BY <1>13 DEF Dispatch, At, queues, Threads
  <2> QED BY <1>5, <2>1, <2>2, <2>3
<1>14. ASSUME NEW t \in Threads, Popping(t) \/ Delete(t) PROVE AtMostThreeCopies'
  <2>1. Delete(t) \/ PopSystem => AtMostThreeCopies'
    BY <1>6 DEF Delete, PopSystem, queues
  <2> QED BY <1>12, <1>14, <2>1 DEF Popping
<1>15. IOStep => Dispatch \/ UNCHANGED <<half, execq>>
  BY DEF IOStep, RegisterTimers, RegisterReads, RegisterWrites, RegisterFds, RemoveClosed,
         SelectReturns, SelectFails, DrainPipe, queues
<1>16. UNCHANGED <<half, execq>> => AtMostThreeCopies'
  BY <1>6
<1>17. CASE EndOfRun
  <2>1. CASE RunAgain
    <3>1. \A a \in Actions : execq'[Home[a]] = <<>>
      BY <1>3, <2>1 DEF RunAgain
    <3>2. \A a \in Actions : Positions(execq'[Home[a]], a) = {}
      BY <3>1 DEF Positions
    <3>3. \A a \in Actions : Cardinality(Positions(execq'[Home[a]], a)) = 0
      BY <3>2, FS_EmptySet
    <3> QED BY <1>4, <1>9, <2>1, <3>3 DEF RunAgain
  <2> QED BY <1>16, <1>17, <2>1 DEF EndOfRun, CloseLate
<1> QED BY <1>8, <1>10, <1>11, <1>13, <1>14, <1>15, <1>16, <1>17
        DEF SchedNext, schedVars, queues

-----------------------------------------------------------------------------
(* A thread ends only when there is nothing left to do, and then nothing   *)
(* comes any more: the end of run throws nothing away.                     *)
RunsHeld == \A t \in Threads : pc[t] = "run" => hold[t] # Nothing
Finished == (\E t \in Threads : pc[t] = "exited") => NoRunnable

LEMMA RunsHeldKept ==
  SchedTypeOK /\ RunsHeld /\ [SchedNext]_schedVars => RunsHeld'
<1> SUFFICES ASSUME SchedTypeOK, RunsHeld, [SchedNext]_schedVars PROVE RunsHeld'
  OBVIOUS
<1> USE DEF RunsHeld
<1>0. pc \in [Threads -> Steps] /\ hold \in [Threads -> Actions \cup {Work, Nothing}]
  BY DEF SchedTypeOK
<1>1. UNCHANGED <<pc, hold>> => RunsHeld'
  OBVIOUS
<1>2. UNCHANGED schedVars => UNCHANGED <<pc, hold>>
  BY DEF schedVars
<1>3. ASSUME NEW t \in Threads, UserStep(t) \/ FinishCall(t) PROVE RunsHeld'
  BY <1>1, <1>3 DEF UserStep, CallSchedule, CallScheduleAfter, CallScheduleFd, CallClose,
                    CallSystem, Calling, FinishCall
<1>4. ASSUME NEW t \in Threads, KeepGoing(t) \/ Delete(t) PROVE RunsHeld'
  BY <1>0, <1>4 DEF KeepGoing, FirstStep, Delete
<1>5. ASSUME NEW t \in Threads, Popping(t) PROVE RunsHeld'
  <2>1. ASSUME NEW x \in Actions \cup {Work, Sentinel}, Taken(t, x) PROVE RunsHeld'
    BY <1>0, <2>1, NothingAssumption DEF Taken
  <2>2. CASE PopSystem /\ t = SystemThread
    <3>1. Head(sysq) \in {Work, Sentinel}
      BY <2>2 DEF PopSystem, SchedTypeOK
    <3> QED BY <2>1, <2>2, <3>1 DEF PopSystem
  <2>3. CASE t \in Contexts /\ PopExec(t)
    <3>1. Head(execq[t]) \in Actions \cup {Sentinel}
      BY <2>3 DEF PopExec, SchedTypeOK
    <3> QED BY <2>1, <2>3, <3>1 DEF PopExec
  <2> QED BY <1>5, <2>2, <2>3 DEF Popping
<1>6. CASE IOStep
  <2>1. UNCHANGED hold /\ pc'[IOThread] # "run"
        /\ \A t \in Threads \ {IOThread} : pc'[t] = pc[t]
    <3>1. IOThread \in Threads
      BY DEF Threads
    <3> QED BY <1>0, <1>6, <3>1
            DEF IOStep, RegisterTimers, RegisterReads, RegisterWrites, RegisterFds,
                RemoveClosed, SelectReturns, SelectFails, Dispatch, DrainPipe, At, GoTo
  <2> QED BY <2>1
<1>7. CASE EndOfRun
  BY <1>1, <1>7 DEF EndOfRun, CloseLate, RunAgain
<1> QED BY <1>1, <1>2, <1>3, <1>4, <1>5, <1>6, <1>7 DEF SchedNext

\* A queue in which nothing but sentinels is left stays so.
OnlySentinels(q) == \A i \in DOMAIN q : q[i] = Sentinel

LEMMA SentinelsStay ==
  ASSUME NEW S, NEW q \in Seq(S), Sentinel \in S, OnlySentinels(q)
  PROVE  /\ OnlySentinels(Append(q, Sentinel))
         /\ q # <<>> => Head(q) = Sentinel /\ OnlySentinels(Tail(q))
BY HeadTailProperties, LenProperties DEF OnlySentinels

LEMMA NothingLeft ==
  NoRunnable <=> /\ OnlySentinels(sysq) /\ \A c \in Contexts : OnlySentinels(execq[c])
                 /\ timerq = <<>> /\ \A d \in Dirs : fdq[d] = <<>>
                 /\ timers = {} /\ fds = {} /\ batch = {}
                 /\ \A t \in Threads : ~InUse(t)
BY DEF NoRunnable, IsRunnable, OnlySentinels

\* Without a runnable nothing happens that could make one.
LEMMA NothingComes ==
  ASSUME SchedTypeOK, RunsHeld, NoRunnable, SchedNext, ~EndOfRun
  PROVE  NoRunnable'
<1>0. \A t \in Threads : pc[t] # "run" /\ hold[t] = Nothing /\ half[t].do \notin {"push", "delete"}
  BY DEF RunsHeld, NoRunnable, InUse
<1>a. /\ OnlySentinels(sysq) /\ \A c \in Contexts : OnlySentinels(execq[c])
      /\ timerq = <<>> /\ \A d \in Dirs : fdq[d] = <<>>
      /\ timers = {} /\ fds = {} /\ batch = {}
  BY NothingLeft
<1>1. ASSUME NEW t \in Threads, KeepGoing(t) PROVE NoRunnable'
  <2>1. /\ sysq' = Append(sysq, Sentinel)
        /\ execq' = [c \in Contexts |-> Append(execq[c], Sentinel)]
    BY <1>1 DEF KeepGoing, Unblock
  <2>2. OnlySentinels(sysq')
    BY <1>a, <2>1, SentinelsStay DEF SchedTypeOK
  <2>3. \A c \in Contexts : OnlySentinels(execq'[c])
    BY <1>a, <2>1, SentinelsStay DEF SchedTypeOK
  <2>4. UNCHANGED <<timerq, fdq, timers, fds, batch, hold, half>>
    BY <1>1 DEF KeepGoing, ioVars
  <2> QED BY <1>0, <1>a, <2>2, <2>3, <2>4 DEF NoRunnable, IsRunnable, InUse, OnlySentinels
<1>2. ASSUME NEW t \in Threads, Popping(t) PROVE NoRunnable'
  <2>1. UNCHANGED <<timerq, fdq, timers, fds, batch, half>>
    BY <1>2 DEF Popping, PopSystem, PopExec, ioVars
  <2>2. CASE PopSystem /\ t = SystemThread
    <3>1. Head(sysq) = Sentinel /\ OnlySentinels(Tail(sysq))
      BY <1>a, <2>2, SentinelsStay DEF PopSystem, SchedTypeOK
    <3>2. \A u \in Threads : hold'[u] = Nothing
      BY <1>0, <2>2, <3>1 DEF PopSystem, Taken, SchedTypeOK
    <3> QED BY <1>0, <1>a, <2>1, <2>2, <3>1, <3>2 DEF PopSystem, NoRunnable, IsRunnable,
                 InUse, OnlySentinels
  <2>3. CASE t \in Contexts /\ PopExec(t)
    <3>1. Head(execq[t]) = Sentinel /\ OnlySentinels(Tail(execq[t]))
      BY <1>a, <2>3, SentinelsStay DEF PopExec, SchedTypeOK
    <3>2. \A u \in Threads : hold'[u] = Nothing
      BY <1>0, <2>3, <3>1 DEF PopExec, Taken, SchedTypeOK
    <3>3. \A c \in Contexts : OnlySentinels(execq'[c])
      BY <1>a, <2>3, <3>1 DEF PopExec, SchedTypeOK
    <3> QED BY <1>0, <1>a, <2>1, <2>3, <3>2, <3>3 DEF PopExec, NoRunnable, IsRunnable,
                 InUse, OnlySentinels
  <2> QED BY <1>2, <2>2, <2>3 DEF Popping
<1>3. ASSUME NEW t \in Threads, FinishCall(t) PROVE NoRunnable'
  <2>1. /\ half' = [half EXCEPT ![t] = NoHalf]
        /\ UNCHANGED <<sysq, execq, timerq, fdq, timers, fds, batch, hold>>
    BY <1>0, <1>3 DEF FinishCall, ioVars
  <2>2. \A u \in Threads : half'[u].do \notin {"push", "delete"}
    BY <1>0, <2>1 DEF NoHalf, SchedTypeOK
  <2> QED BY <1>0, <1>a, <2>1, <2>2 DEF NoRunnable, IsRunnable, InUse, OnlySentinels
<1>4. ASSUME NEW t \in Threads, UserStep(t) \/ Delete(t) PROVE FALSE
  BY <1>0, <1>4 DEF UserStep, CallSchedule, CallScheduleAfter, CallScheduleFd, CallClose,
                    CallSystem, Calling, Delete
<1>5. CASE IOStep
  <2>1. UNCHANGED <<sysq, execq, hold>>
    BY <1>5, <1>a DEF IOStep, RegisterTimers, RegisterReads, RegisterWrites, RegisterFds,
                RemoveClosed, SelectReturns, SelectFails, Dispatch, DrainPipe, queues
  <2>2. UNCHANGED half
    BY <1>5, <1>a DEF IOStep, RegisterTimers, RegisterReads, RegisterWrites, RegisterFds,
                RemoveClosed, SelectReturns, SelectFails, Dispatch, DrainPipe
  <2>3. timerq' = <<>> /\ \A d \in Dirs : fdq'[d] = <<>>
    BY <1>5, <1>a DEF IOStep, RegisterTimers, RegisterReads, RegisterWrites, RegisterFds,
                RemoveClosed, SelectReturns, SelectFails, Dispatch, DrainPipe, queues,
                SchedTypeOK
  <2>4. timers' = {} /\ batch' = {}
    BY <1>5, <1>a DEF IOStep, RegisterTimers, RegisterReads, RegisterWrites, RegisterFds,
                RemoveClosed, SelectReturns, SelectFails, Dispatch, DrainPipe, ioVars
  <2>5. fds' = {}
    <3>1. ASSUME NEW d \in Dirs PROVE AddRegistrations(fds, fdq[d]) = {}
      <4>1. fds = {} /\ DOMAIN fdq[d] = {}
        BY <1>a
      <4> QED BY <4>1 DEF AddRegistrations
    <3> QED BY <1>5, <1>a, <3>1
            DEF IOStep, RegisterTimers, RegisterReads, RegisterWrites, RegisterFds,
                RemoveClosed, SelectReturns, SelectFails, Dispatch, DrainPipe, ioVars, Dirs
  <2> QED BY <1>0, <1>a, <2>1, <2>2, <2>3, <2>4, <2>5
          DEF NoRunnable, IsRunnable, InUse, OnlySentinels
<1> QED BY <1>1, <1>2, <1>3, <1>4, <1>5 DEF SchedNext

LEMMA FinishedKept ==
  ASSUME SchedTypeOK, RunsHeld, Finished, [SchedNext]_schedVars
  PROVE  Finished'
<1>1. CASE UNCHANGED schedVars
  BY <1>1 DEF Finished, NoRunnable, InUse, schedVars, queues, ioVars
<1>2. CASE EndOfRun
  <2>1. CASE RunAgain
    BY <2>1 DEF RunAgain, Finished
  <2>2. ASSUME NEW f \in Fds, CloseLate(f) PROVE Finished'
    <3>1. UNCHANGED <<sysq, execq, timerq, fdq, timers, fds, batch, hold, half, pc>>
      BY <2>2 DEF CloseLate, ioVars
    <3> QED BY <3>1 DEF Finished, NoRunnable, InUse
  <2> QED BY <1>2, <2>1, <2>2 DEF EndOfRun
<1>3. CASE SchedNext /\ ~EndOfRun
  <2>1. NoRunnable => NoRunnable'
    BY <1>3, NothingComes
  <2>2. ASSUME NEW t \in Threads, pc'[t] = "exited", pc[t] # "exited" PROVE NoRunnable
    <3>1. ASSUME NEW u \in Threads, KeepGoing(u) PROVE NoRunnable
      BY <2>2, <3>1 DEF KeepGoing, FirstStep, SchedTypeOK
    <3>2. ASSUME NEW u \in Threads, UserStep(u) \/ FinishCall(u) PROVE FALSE
      BY <2>2, <3>2 DEF UserStep, CallSchedule, CallScheduleAfter, CallScheduleFd, CallClose,
                        CallSystem, Calling, FinishCall
    <3>3. ASSUME NEW u \in Threads, Popping(u) \/ Delete(u) PROVE FALSE
      BY <2>2, <3>3 DEF Popping, PopSystem, PopExec, Taken, Delete, SchedTypeOK
    <3>4. ~IOStep
      BY <2>2 DEF IOStep, RegisterTimers, RegisterReads, RegisterWrites, RegisterFds,
                  RemoveClosed, SelectReturns, SelectFails, Dispatch, DrainPipe, At, GoTo,
                  SchedTypeOK
    <3> QED BY <1>3, <3>1, <3>2, <3>3, <3>4 DEF SchedNext
  <2> QED BY <2>1, <2>2 DEF Finished
<1> QED BY <1>1, <1>2, <1>3

\* The end of run throws no scheduled action away.
LEMMA EndLosesNothing ==
  ASSUME SchedTypeOK, Finished, \A a \in due : Kept(a), EndOfRun
  PROVE  (\A a \in due : Kept(a))'
<1>1. CASE RunAgain
  <2>1. NoRunnable
    BY <1>1 DEF RunAgain, Joined, Finished, Threads
  <2>2. ASSUME NEW a \in due PROVE FALSE
    <3>1. Home[a] \in Contexts /\ a \in Actions
      BY HomeAssumption DEF SchedTypeOK
    <3>2. a \notin Range(execq[Home[a]])
      BY <2>1, <3>1, NothingLeft, SentinelAssumption DEF OnlySentinels, Range
    <3>3. a \notin Range(timerq) \cup timers /\ batch = {}
      BY <2>1 DEF NoRunnable, Range
    <3>4. \A t \in Threads : half[t] # Push(a)
      BY <2>1 DEF NoRunnable, InUse, Push
    <3> QED BY <3>2, <3>3, <3>4 DEF Kept
  <2> QED BY <1>1, <2>2 DEF RunAgain
<1>2. ASSUME NEW f \in Fds, CloseLate(f) PROVE (\A a \in due : Kept(a))'
  BY <1>2 DEF CloseLate, ioVars, Kept
<1> QED BY <1>1, <1>2 DEF EndOfRun

LEMMA EndNotices ==
  ASSUME EndOfRun PROVE Noticed'
<1>1. IOThread \in Threads
  BY DEF Threads
<1>2. pc'[IOThread] \in {"exited", "check"}
  BY <1>1 DEF EndOfRun, CloseLate, RunAgain, Joined
<1> QED BY <1>2 DEF Noticed

-----------------------------------------------------------------------------
(* The invariant and the theorems. *)
IInv ==
  /\ SchedTypeOK /\ PushesActions /\ BatchHeld /\ NoLostAction /\ Noticed
  /\ RunsHeld /\ Finished
  /\ OneOutsider /\ AtMostThreeCopies

LEMMA InitHolds == SchedInit => IInv
<1> SUFFICES ASSUME SchedInit PROVE IInv
  OBVIOUS
<1>1. \A t \in Threads, a \in Actions : half[t] # Push(a)
  BY DEF SchedInit, NoHalf, Push
<1>2. BatchHeld /\ NoLostAction /\ OneOutsider
  BY <1>1 DEF SchedInit, BatchHeld, NoLostAction, OneOutsider, OutsideContext
<1>3. Noticed
  BY DEF SchedInit, Noticed, Threads
<1>6. RunsHeld /\ Finished
  BY DEF SchedInit, RunsHeld, Finished
<1>4. ASSUME NEW a \in Actions
      PROVE  Cardinality(Positions(execq[Home[a]], a)) + Cardinality(Pushers(a)) <= 3
  <2>1. execq[Home[a]] = <<>>
    BY HomeAssumption DEF SchedInit
  <2>2. Positions(execq[Home[a]], a) = {} /\ Pushers(a) = {}
    BY <1>1, <2>1 DEF Positions, Pushers
  <2> QED BY <2>2, FS_EmptySet
<1>5. AtMostThreeCopies
  BY <1>4, CopiesMean
<1> QED BY <1>2, <1>3, <1>5, <1>6, InitType DEF IInv

LEMMA NextKeeps == IInv /\ [SchedNext]_schedVars => IInv'
<1> SUFFICES ASSUME IInv, [SchedNext]_schedVars PROVE IInv'
  OBVIOUS
<1> USE DEF IInv
<1>1. (SchedTypeOK /\ PushesActions)' /\ BatchHeld' /\ OneOutsider' /\ AtMostThreeCopies'
  BY NextType, BatchKept, OneOutsiderKept, FewCopiesKept
<1>4. RunsHeld' /\ Finished'
  BY RunsHeldKept, FinishedKept
<1>2. NoLostAction'
  <2>1. \A a \in due : Kept(a)
    BY LostMeans
  <2>2. CASE UNCHANGED schedVars
    BY <2>2 DEF NoLostAction, schedVars, queues, ioVars, userVars
  <2>3. CASE SchedNext
    <3>1. (\A a \in due : Kept(a))'
      BY <2>1, <2>3, CallLosesNothing, ThreadLosesNothing, IOLosesNothing, EndLosesNothing
         DEF SchedNext
    <3> QED BY <3>1 DEF NoLostAction, Kept, Push
  <2> QED BY <2>2, <2>3
<1>3. Noticed'
  <2>1. CASE UNCHANGED schedVars
    BY <2>1 DEF Noticed, Awake, schedVars, queues
  <2>2. CASE SchedNext
    BY <2>2, CallNotices, ThreadNotices, IONotices, EndNotices DEF SchedNext
  <2> QED BY <2>1, <2>2
<1> QED BY <1>1, <1>2, <1>3, <1>4

\* Every reachable state satisfies the invariant.
THEOREM SchedInvariance == SchedSpec => []IInv
BY InitHolds, NextKeeps, PTL DEF SchedSpec

\* The values of the threads, queues and maps of lib/simple_scheduler.cpp are
\* those that SchedTypeOK says.
THEOREM SchedTypeCorrect == SchedSpec => []SchedTypeOK
<1>1. IInv => SchedTypeOK
  BY DEF IInv
<1> QED BY <1>1, SchedInvariance, PTL

\* What is scheduled stays in a queue, among the timers, in the I/O thread's hands
\* or in those of a call until it begins to run: schedule_execq drops a call only
\* when a copy is there, and no expiry and no registration loses one.
THEOREM NothingIsLost == SchedSpec => []NoLostAction
<1>1. IInv => NoLostAction
  BY DEF IInv
<1> QED BY <1>1, SchedInvariance, PTL

\* process_ioq does not wait in select with an empty pipe while something is in one
\* of its queues, unless the thread that put it there is about to write to the pipe.
THEOREM WakeupsArrive == SchedSpec => []NoLostWakeup
<1>1. IInv => NoLostWakeup
  <2> SUFFICES ASSUME IInv, pc[IOThread] = "select", pipe = 0,
                      ~\E t \in Threads : half[t].do = "wake"
               PROVE  timerq = <<>> /\ closeq = <<>> /\ \A d \in Dirs : fdq[d] = <<>>
    BY DEF NoLostWakeup
  <2>1. ~Awake
    BY DEF Awake
  <2> QED BY <2>1 DEF IInv, Noticed, Dirs
<1> QED BY <1>1, SchedInvariance, PTL

\* schedule_execq searches and pushes in two critical sections, and an output that
\* is not locked may schedule beside a locked action or hook of its automaton: still
\* there are at most three copies of an action, queued or about to be.
THEOREM DuplicatesAreFew == SchedSpec => []AtMostThreeCopies
<1>1. IInv => AtMostThreeCopies
  BY DEF IInv
<1> QED BY <1>1, SchedInvariance, PTL

\* "Notice that the post-conditions match the preconditions", assert (!keep_going ())
\* at the end of run: when the threads have been joined no runnable is left.
THEOREM RunEndsIdle == SchedSpec => [](Joined => NoRunnable)
<1>1. IInv => (Joined => NoRunnable)
  BY DEF IInv, Finished, Joined, Threads
<1> QED BY <1>1, SchedInvariance, PTL
=============================================================================
