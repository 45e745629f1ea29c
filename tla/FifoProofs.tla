----------------------------- MODULE FifoProofs -----------------------------
(***************************************************************************)
(* What holds of lib/global_fifo_scheduler.cpp for every number of actions,*)
(* descriptors and requests: select gets descriptors only that are open,   *)
(* although closed ones are removed after new ones were registered, and    *)
(* their numbers are used again; and the two maps of timers agree and hold *)
(* the earliest time that each action was scheduled for.                   *)
(***************************************************************************)
EXTENDS GlobalFifo, SequenceTheorems, FiniteSetTheorems, TLAPS

\* A descriptor that is registered, or is about to be, is open or is going to be
\* purged: it cannot be closed, and its number used again, before it is.
FdsKnown ==
  /\ \A r \in fds : r.fd \in open \cup close
  /\ \A d \in Dirs : \A i \in DOMAIN fdq[d] : fdq[d][i].fd \in open \cup close

\* From the registration to the end of select nobody asks for a descriptor, and what
\* is purged is what user code had closed.
RoundInOrder ==
  /\ pc \in {"purge", "select"} => \A d \in Dirs : fdq[d] = <<>>
  /\ pc = "select" => \A r \in fds : r.fd \in open

FdTypes == fdq \in [Dirs -> Seq(Registration)]

IInv == FdTypes /\ FdsKnown /\ RoundInOrder

LEMMA InitHolds == FifoInit => IInv
BY DEF FifoInit, IInv, FdTypes, FdsKnown, RoundInOrder

\* What AddFds adds is among the requests.
LEMMA RequestsRegistered ==
  ASSUME NEW F, NEW q \in Seq(Registration), NEW r \in AddFds(F, q)
  PROVE  r \in F \/ \E i \in DOMAIN q : r = q[i]
BY DEF AddFds

\* An element of two sequences put together is one of either.
LEMMA ConcatElements ==
  ASSUME NEW S, NEW p \in Seq(S), NEW w \in Seq(S), NEW i \in DOMAIN (p \o w)
  PROVE  \/ i \in DOMAIN p /\ (p \o w)[i] = p[i]
         \/ i - Len(p) \in DOMAIN w /\ (p \o w)[i] = w[i - Len(p)]
<1>1. /\ p \o w \in Seq(S) /\ Len(p \o w) = Len(p) + Len(w)
      /\ \A j \in 1..(Len(p) + Len(w)) : (p \o w)[j] = IF j <= Len(p) THEN p[j] ELSE w[j - Len(p)]
  BY ConcatProperties
<1>2. /\ Len(p) \in Nat /\ Len(w) \in Nat /\ DOMAIN p = 1..Len(p) /\ DOMAIN w = 1..Len(w)
      /\ DOMAIN (p \o w) = 1..(Len(p) + Len(w))
  BY <1>1, LenProperties
<1> QED BY <1>1, <1>2

LEMMA CallKeeps == IInv /\ (Call \/ Run) => IInv'
<1> SUFFICES ASSUME IInv, Call \/ Run PROVE IInv'
  OBVIOUS
<1> USE DEF IInv, FdTypes, FdsKnown, RoundInOrder, requests, Calling, Requesting
<1>1. CASE Run
  BY <1>1 DEF Run
<1>2. ASSUME NEW a \in UserActions, Schedule(a) PROVE IInv'
  BY <1>2 DEF Schedule
<1>3. ASSUME NEW a \in UserActions, NEW offset \in 0..MaxOffset, ScheduleAfter(a, offset) PROVE IInv'
  BY <1>3 DEF ScheduleAfter
<1>4. ASSUME NEW d \in Dirs, NEW f \in Fds, NEW a \in UserActions, ScheduleReady(d, f, a)
      PROVE  IInv'
  <2> DEFINE r == [dir |-> d, fd |-> f, act |-> a]
  <2>1. r \in Registration /\ r.fd \in open
    BY <1>4 DEF ScheduleReady, Registration
  <2>2. fdq' = [fdq EXCEPT ![d] = Append(fdq[d], r)] /\ UNCHANGED <<fds, open, close>>
    BY <1>4 DEF ScheduleReady
  <2>3. pc' = pc /\ pc \notin {"purge", "select"}
    BY <1>4 DEF ScheduleReady
  <2> HIDE DEF r
  <2>4. FdTypes'
    BY <2>1, <2>2
  <2>5. \A e \in Dirs : \A i \in DOMAIN fdq'[e] :
          fdq'[e][i] = r \/ (i \in DOMAIN fdq[e] /\ fdq'[e][i] = fdq[e][i])
    BY <2>1, <2>2
  <2> QED BY <2>1, <2>2, <2>3, <2>4, <2>5
<1>5. ASSUME NEW f \in Fds, Close(f) PROVE IInv'
  BY <1>5 DEF Close
<1>6. ASSUME NEW f \in Fds, Open(f) PROVE IInv'
  BY <1>6 DEF Open
<1>7. CASE ScheduleConfig
  BY <1>7 DEF ScheduleConfig
<1> QED BY <1>1, <1>2, <1>3, <1>4, <1>5, <1>6, <1>7 DEF Call

LEMMA RoundKeeps ==
  ASSUME IInv, RegisterTimer \/ Register \/ Purge \/ PopConfig \/ PopUser \/ Return \/ Stop \/ Tick
  PROVE  IInv'
<1> USE DEF IInv, FdTypes, FdsKnown, RoundInOrder, requests
<1>1. CASE Register
  <2> DEFINE q == fdq["read"] \o fdq["write"]
  <2>1. /\ fds' = AddFds(fds, q) /\ fdq' = [d \in Dirs |-> <<>>] /\ pc' = "purge"
        /\ UNCHANGED <<open, close>>
    BY <1>1 DEF Register
  <2>2. fdq["read"] \in Seq(Registration) /\ fdq["write"] \in Seq(Registration)
    BY DEF Dirs
  <2>3. q \in Seq(Registration) /\ \A i \in DOMAIN q : q[i].fd \in open \cup close
    <3>1. \A i \in DOMAIN q :
            \/ i \in DOMAIN fdq["read"] /\ q[i] = fdq["read"][i]
            \/ i - Len(fdq["read"]) \in DOMAIN fdq["write"]
               /\ q[i] = fdq["write"][i - Len(fdq["read"])]
      BY <2>2, ConcatElements
    <3> QED BY <2>2, <3>1 DEF Dirs
  <2> HIDE DEF q
  <2>4. \A r \in fds' : r.fd \in open \cup close
    BY <2>1, <2>3, RequestsRegistered
  <2> QED BY <2>1, <2>4
<1>2. CASE Purge
  BY <1>2 DEF Purge, Purged
<1>3. CASE PopConfig \/ PopUser \/ Return \/ Stop
  BY <1>3 DEF PopConfig, PopUser, Return, Stop
<1>4. CASE Tick
  BY <1>4 DEF Tick
<1>5. CASE RegisterTimer
  BY <1>5 DEF RegisterTimer
<1> QED BY <1>1, <1>2, <1>3, <1>4, <1>5

LEMMA SelectKeeps ==
  ASSUME IInv, NEW F, Select(F)
  PROVE  IInv'
BY DEF Select, IInv, FdTypes, FdsKnown, RoundInOrder, requests

\* select gets no descriptor that user code has closed: close takes effect in the
\* round that registered the descriptor, or in an earlier one.
THEOREM OpenOnly == FifoSpec => []SelectsOpenOnly
<1>1. IInv /\ UNCHANGED fifoVars => IInv'
  BY DEF fifoVars, requests, IInv, FdTypes, FdsKnown, RoundInOrder
<1>2. IInv /\ FifoNext => IInv'
  BY CallKeeps, RoundKeeps, SelectKeeps DEF FifoNext, Advance
<1>3. IInv => SelectsOpenOnly
  BY DEF IInv, RoundInOrder, SelectsOpenOnly
<1> QED BY <1>1, <1>2, <1>3, InitHolds, PTL DEF FifoSpec
-----------------------------------------------------------------------------
(* Types. *)

\* A sequence of all elements of a set.
LEMMA AdditionsType ==
  ASSUME NEW q, NEW S \in SUBSET UserActions, NEW s \in Additions(q, S)
  PROVE  s \in Seq(UserActions)
<1> DEFINE T == S \ Range(q)
<1>1. IsFiniteSet(T)
  BY RunnablesAssumption, FS_Subset
<1>2. Cardinality(T) \in Nat
  BY <1>1, FS_CardinalityType
<1>3. s \in [1..Cardinality(T) -> T]
  BY DEF Additions, SetToSeqs
<1>4. T \subseteq UserActions
  OBVIOUS
<1> HIDE DEF T
<1>5. s \in [1..Cardinality(T) -> UserActions]
  BY <1>3, <1>4
<1> QED BY <1>2, <1>5

LEMMA TimesApart == Times \subseteq Int /\ NoTime \in Int /\ \A t \in Times : t < NoTime
BY MaxOffsetAssumption DEF Times, NoTime, Past

LEMMA CallTypes ==
  ASSUME FifoTypeOK, Call
  PROVE  FifoTypeOK'
<1> USE DEF FifoTypeOK, requests, timers, Calling, Requesting
<1>1. ASSUME NEW a \in UserActions, Schedule(a) PROVE FifoTypeOK'
  BY <1>1 DEF Schedule, ScheduleUser
<1>2. ASSUME NEW a \in UserActions, NEW offset \in 0..MaxOffset, ScheduleAfter(a, offset)
      PROVE  FifoTypeOK'
  <2>1. offset \in Times /\ [time |-> offset, act |-> a] \in TimeAction
    BY MaxOffsetAssumption DEF Times, Past, TimeAction
  <2>2. timerq' \in Seq(TimeAction)
    BY <1>2, <2>1 DEF ScheduleAfter
  <2>3. \A t : Earlier(offset, t) = offset \/ Earlier(offset, t) = t
    BY DEF Earlier
  <2>4. wanted' \in [UserActions -> Times \cup {NoTime}]
    BY <1>2, <2>1, <2>3 DEF ScheduleAfter
  <2> QED BY <1>2, <2>2, <2>4 DEF ScheduleAfter
<1>3. ASSUME NEW d \in Dirs, NEW f \in Fds, NEW a \in UserActions, ScheduleReady(d, f, a)
      PROVE  FifoTypeOK'
  <2> DEFINE x == [dir |-> d, fd |-> f, act |-> a]
  <2>1. x \in Registration
    BY DEF Registration
  <2>2. fdq' = [fdq EXCEPT ![d] = Append(@, x)]
    BY <1>3 DEF ScheduleReady
  <2> HIDE DEF x
  <2>3. fdq' \in [Dirs -> Seq(Registration)]
    BY <2>1, <2>2
  <2> QED BY <1>3, <2>3 DEF ScheduleReady
<1>4. ASSUME NEW f \in Fds, Close(f) \/ Open(f) PROVE FifoTypeOK'
  BY <1>4 DEF Close, Open
<1>5. CASE ScheduleConfig
  <2>1. configq' \in 0..MaxConfig
    BY <1>5, MaxConfigAssumption DEF ScheduleConfig
  <2> QED BY <1>5, <2>1 DEF ScheduleConfig
<1> QED BY <1>1, <1>2, <1>3, <1>4, <1>5 DEF Call

LEMMA RegisterTypes ==
  ASSUME FifoTypeOK, RegisterTimer \/ Register \/ Purge
  PROVE  FifoTypeOK'
<1>1. CASE RegisterTimer
  <2> DEFINE x == Head(timerq)
  <2>1. timerq' \in Seq(TimeAction) /\ x \in TimeAction
    BY <1>1 DEF RegisterTimer, FifoTypeOK
  <2>2. x.time \in Times /\ x.act \in UserActions
    BY <2>1 DEF TimeAction
  <2>3. \/ byTime' = byTime /\ byAction' = byAction
        \/ /\ byTime' = {y \in byTime : y.act # x.act} \cup {x}
           /\ byAction' = [byAction EXCEPT ![x.act] = x.time]
    BY <1>1 DEF RegisterTimer, AddTimer
  <2>4. byTime' \in SUBSET TimeAction /\ byAction' \in [UserActions -> Times \cup {NoTime}]
    BY <2>1, <2>2, <2>3 DEF FifoTypeOK
  <2> QED BY <1>1, <2>1, <2>4 DEF RegisterTimer, FifoTypeOK
<1>2. CASE Register
  <2>1. fdq["read"] \in Seq(Registration) /\ fdq["write"] \in Seq(Registration)
    BY DEF FifoTypeOK, Dirs
  <2>2. fds' \in SUBSET Registration
    <3> DEFINE q == fdq["read"] \o fdq["write"]
    <3>1. fds' = AddFds(fds, q)
      BY <1>2 DEF Register
    <3>2. q \in Seq(Registration)
      BY <2>1, ConcatProperties
    <3> HIDE DEF q
    <3>3. \A i \in DOMAIN q : q[i] \in Registration
      BY <3>2
    <3> QED BY <3>1, <3>2, <3>3, RequestsRegistered DEF FifoTypeOK
  <2>3. fdq' \in [Dirs -> Seq(Registration)] /\ timeout' \in {"none", "timer", "forever"}
    BY <1>2 DEF Register, Timeout
  <2> QED BY <1>2, <2>2, <2>3 DEF Register, FifoTypeOK, timers
<1>3. CASE Purge
  BY <1>3 DEF Purge, Purged, FifoTypeOK, timers
<1> QED BY <1>1, <1>2, <1>3

LEMMA SelectTypes ==
  ASSUME FifoTypeOK, NEW F \in SUBSET fds, Select(F)
  PROVE  FifoTypeOK'
<1> DEFINE E == {x \in byTime : x.time = Past}
           A == {x.act : x \in E}
           B == {x.act : x \in F}
<1>1. A \in SUBSET UserActions /\ B \in SUBSET UserActions
  BY DEF FifoTypeOK, TimeAction, Registration
<1> HIDE DEF A, B
<1>2. PICK s \in Additions(userq, A) :
        \E w \in Additions(userq \o s, B) : userq' = userq \o s \o w
  BY DEF Select, A, B
<1>3. s \in Seq(UserActions) /\ userq \in Seq(UserActions)
      /\ \A w \in Additions(userq \o s, B) : w \in Seq(UserActions)
  BY <1>1, AdditionsType DEF FifoTypeOK
<1>4. userq' \in Seq(UserActions)
  BY <1>2, <1>3, ConcatProperties
<1>5. /\ byTime' \in SUBSET TimeAction /\ fds' \in SUBSET Registration
      /\ byAction' \in [UserActions -> Times \cup {NoTime}]
      /\ wanted' \in [UserActions -> Times \cup {NoTime}]
  BY DEF Select, FifoTypeOK
<1> QED BY <1>4, <1>5 DEF Select, FifoTypeOK, requests

LEMMA RunTypes ==
  ASSUME FifoTypeOK, PopConfig \/ PopUser \/ Return \/ Stop \/ Run
  PROVE  FifoTypeOK'
<1> USE DEF FifoTypeOK, requests, timers
<1>1. CASE PopConfig
  <2>1. configq' \in 0..MaxConfig
    BY <1>1, MaxConfigAssumption DEF PopConfig
  <2> QED BY <1>1, <2>1 DEF PopConfig
<1>2. CASE PopUser
  <2>1. CASE userq = <<>>
    BY <1>2, <2>1 DEF PopUser
  <2>2. CASE userq # <<>>
    <3>1. Len(userq) \in Nat /\ Len(userq) # 0
      BY <2>2, EmptySeq
    <3>2. SubSeq(userq, 1, 0) \in Seq(UserActions) /\ SubSeq(userq, 2, Len(userq)) \in Seq(UserActions)
      BY <3>1, SubSeqProperties
    <3>3. userq' \in Seq(UserActions) /\ hold' \in UserActions
      <4>1. userq' = SubSeq(userq, 1, 0) \o SubSeq(userq, 2, Len(userq)) /\ hold' = userq[1]
        BY <1>2, <2>2 DEF PopUser, RemoveAt, Oldest
      <4> QED BY <3>1, <3>2, <4>1, ConcatProperties
    <3> QED BY <1>2, <2>2, <3>3 DEF PopUser
  <2> QED BY <2>1, <2>2
<1>3. CASE Return \/ Stop \/ Run
  BY <1>3 DEF Return, Stop, Run, Calling
<1> QED BY <1>1, <1>2, <1>3

\* Times stay in their range, and keep their order.
LEMMA OlderTimes ==
  /\ \A t \in Times : Older(t) \in Times
  /\ Older(NoTime) = NoTime
  /\ \A s, t \in Times : s <= t => Older(s) <= Older(t)
BY MaxOffsetAssumption DEF Older, Times, Past, NoTime

LEMMA TickTypes ==
  ASSUME FifoTypeOK, Tick
  PROVE  FifoTypeOK'
<1>1. \A x \in TimeAction : [x EXCEPT !.time = Older(@)] \in TimeAction
  BY OlderTimes DEF TimeAction
<1>2. byTime' \in SUBSET TimeAction
  BY <1>1 DEF Tick, FifoTypeOK
<1>3. timerq' \in Seq(TimeAction)
  <2>1. Len(timerq) \in Nat /\ \A i \in 1..Len(timerq) : timerq[i] \in TimeAction
    BY DEF FifoTypeOK
  <2>2. timerq' = [i \in 1..Len(timerq) |-> [timerq[i] EXCEPT !.time = Older(@)]]
    BY DEF Tick, FifoTypeOK
  <2>3. timerq' \in [1..Len(timerq) -> TimeAction]
    BY <1>1, <2>1, <2>2
  <2> QED BY <2>1, <2>3
<1>4. /\ byAction' \in [UserActions -> Times \cup {NoTime}]
      /\ wanted' \in [UserActions -> Times \cup {NoTime}]
  BY OlderTimes DEF Tick, FifoTypeOK
<1> QED BY <1>2, <1>3, <1>4 DEF Tick, FifoTypeOK

LEMMA NextTypes == FifoTypeOK /\ [FifoNext]_fifoVars => FifoTypeOK'
<1> SUFFICES ASSUME FifoTypeOK, [FifoNext]_fifoVars PROVE FifoTypeOK'
  OBVIOUS
<1>1. CASE UNCHANGED fifoVars
  BY <1>1 DEF fifoVars, requests, timers, FifoTypeOK
<1>2. CASE Select({})
  BY <1>2, SelectTypes
<1>3. ASSUME NEW F \in SUBSET fds, Select(F) PROVE FifoTypeOK'
  BY <1>3, SelectTypes
<1> QED
  BY <1>1, <1>2, <1>3, CallTypes, RegisterTypes, RunTypes, TickTypes DEF FifoNext, Advance

(* The queues and maps of the scheduler, and the place of the thread in    *)
(* its loop, have their types.                                             *)
THEOREM FifoTypeCorrect == FifoSpec => []FifoTypeOK
<1>1. FifoInit => FifoTypeOK
  BY MaxConfigAssumption DEF FifoInit, FifoTypeOK
<1> QED BY <1>1, NextTypes, PTL DEF FifoSpec
-----------------------------------------------------------------------------
(* Timers. *)

\* When select processes timers, all requests have been registered.
TimersRegistered == pc \in {"purge", "select"} => timerq = <<>>

TimersInv == FifoTypeOK /\ TimersExact /\ TimersRegistered

\* Functions f from actions to times and sets T of timers that hold the same.
Agree(T, f) ==
  /\ \A x \in T : f[x.act] = x.time
  /\ \A a \in UserActions : f[a] # NoTime => [time |-> f[a], act |-> a] \in T

\* The times asked for the action a that are in T or not registered yet.
TimesOf(T, q, a) == {x.time : x \in {y \in T \cup Range(q) : y.act = a}}

\* A time is asked for by a request not registered yet.
Asked(q, a, t) == \E i \in DOMAIN q : q[i].act = a /\ q[i].time = t

IsEarliest(w, S) == IF S = {} THEN w = NoTime ELSE w \in S /\ \A t \in S : w <= t

TimerType(T, f, q) ==
  /\ T \in SUBSET TimeAction /\ q \in Seq(TimeAction)
  /\ f \in [UserActions -> Times \cup {NoTime}]

LEMMA AgreeMeans ==
  ASSUME NEW T, NEW f, NEW q, TimerType(T, f, q)
  PROVE  T = {[time |-> f[a], act |-> a] : a \in {b \in UserActions : f[b] # NoTime}} <=> Agree(T, f)
<1> DEFINE S == {[time |-> f[a], act |-> a] : a \in {b \in UserActions : f[b] # NoTime}}
<1>1. \A x \in T : /\ x.act \in UserActions /\ x.time # NoTime
                   /\ x = [time |-> x.time, act |-> x.act]
  BY TimesApart DEF TimerType, TimeAction
<1>2. T = S => Agree(T, f)
  BY DEF Agree
<1>3. ASSUME Agree(T, f) PROVE T = S
  <2>1. ASSUME NEW x \in T PROVE x \in S
    BY <1>1, <1>3, <2>1 DEF Agree
  <2>2. S \subseteq T
    BY <1>3 DEF Agree
  <2> QED BY <2>1, <2>2
<1> QED BY <1>2, <1>3

LEMMA TimesKnown ==
  ASSUME NEW T, NEW f, NEW q, TimerType(T, f, q), Agree(T, f), NEW a \in UserActions
  PROVE  /\ TimesOf(T, q, a) \subseteq Times
         /\ f[a] \in Times \cup {NoTime}
         /\ \A t : t \in TimesOf(T, q, a) <=>
              (t = f[a] /\ t # NoTime) \/ Asked(q, a, t)
<1>1. \A x \in T : f[x.act] = x.time /\ x.time \in Times /\ x.time # NoTime
  BY TimesApart DEF Agree, TimerType, TimeAction
<1>2. \A b \in UserActions : f[b] # NoTime => [time |-> f[b], act |-> b] \in T
  BY DEF Agree
<1>3. \A i \in DOMAIN q : q[i].time \in Times
  <2>1. \A i \in DOMAIN q : q[i] \in TimeAction
    BY DEF TimerType
  <2> QED BY <2>1 DEF TimeAction
<1>4. Range(q) = {q[i] : i \in DOMAIN q}
  BY DEF Range
<1>5. \A t : t \in TimesOf(T, q, a) <=>
         \/ \E x \in T : x.act = a /\ x.time = t
         \/ \E i \in DOMAIN q : q[i].act = a /\ q[i].time = t
  BY <1>4 DEF TimesOf
<1>6. ASSUME NEW t PROVE (\E x \in T : x.act = a /\ x.time = t) <=> t = f[a] /\ t # NoTime
  <2>1. ASSUME NEW x \in T, x.act = a, x.time = t PROVE t = f[a] /\ t # NoTime
    BY <1>1, <2>1
  <2>2. ASSUME t = f[a], t # NoTime PROVE \E x \in T : x.act = a /\ x.time = t
    <3>1. [time |-> t, act |-> a] \in T
      BY <1>2, <2>2
    <3> QED BY <3>1
  <2> QED BY <2>1, <2>2
<1>7. TimesOf(T, q, a) \subseteq Times
  BY <1>1, <1>3, <1>5
<1> QED BY <1>5, <1>6, <1>7 DEF TimerType, Asked

\* The invariant, without the comprehensions.
Exact(T, f, q, w) ==
  Agree(T, f) /\ \A a \in UserActions : IsEarliest(w[a], TimesOf(T, q, a))

LEMMA ExactMeans ==
  ASSUME FifoTypeOK
  PROVE  TimersExact <=> Exact(byTime, byAction, timerq, wanted)
<1>1. TimerType(byTime, byAction, timerq)
  BY DEF FifoTypeOK, TimerType
<1>2. TimersAgree <=> Agree(byTime, byAction)
  BY <1>1, AgreeMeans DEF TimersAgree
<1>3. EarliestTimer <=> \A a \in UserActions : IsEarliest(wanted[a], TimesOf(byTime, timerq, a))
  BY DEF EarliestTimer, IsEarliest, TimesOf
<1> QED BY <1>2, <1>3 DEF TimersExact, Exact

LEMMA ExactMeansNext ==
  ASSUME FifoTypeOK'
  PROVE  TimersExact' <=> Exact(byTime', byAction', timerq', wanted')
<1>1. TimerType(byTime', byAction', timerq')
  BY DEF FifoTypeOK, TimerType
<1>2. TimersAgree' <=> Agree(byTime', byAction')
  BY <1>1, AgreeMeans DEF TimersAgree
<1>3. EarliestTimer' <=> \A a \in UserActions : IsEarliest(wanted'[a], TimesOf(byTime', timerq', a))
  BY DEF EarliestTimer, IsEarliest, TimesOf
<1> QED BY <1>2, <1>3 DEF TimersExact, Exact

LEMMA AskedTail ==
  ASSUME NEW q \in Seq(TimeAction), q # <<>>, NEW a, NEW t
  PROVE  Asked(q, a, t) <=> (Head(q).act = a /\ Head(q).time = t) \/ Asked(Tail(q), a, t)
<1>1. /\ Len(q) \in Nat /\ Len(q) > 0 /\ DOMAIN q = 1..Len(q)
      /\ Head(q) = q[1]
      /\ DOMAIN Tail(q) = 1..(Len(q) - 1)
      /\ \A i \in 1..(Len(q) - 1) : Tail(q)[i] = q[i + 1]
  OBVIOUS
<1>2. ASSUME NEW i \in DOMAIN q, q[i].act = a, q[i].time = t, i # 1 PROVE Asked(Tail(q), a, t)
  <2>1. i - 1 \in DOMAIN Tail(q) /\ Tail(q)[i - 1] = q[i]
    BY <1>1, <1>2
  <2> QED BY <2>1, <1>2 DEF Asked
<1>3. ASSUME Asked(Tail(q), a, t) PROVE Asked(q, a, t)
  <2>1. PICK i \in DOMAIN Tail(q) : Tail(q)[i].act = a /\ Tail(q)[i].time = t
    BY <1>3 DEF Asked
  <2>2. i + 1 \in DOMAIN q /\ q[i + 1] = Tail(q)[i]
    BY <1>1
  <2> QED BY <2>1, <2>2 DEF Asked
<1>4. (Head(q).act = a /\ Head(q).time = t) => Asked(q, a, t)
  BY <1>1 DEF Asked
<1>5. Asked(q, a, t) => (Head(q).act = a /\ Head(q).time = t) \/ Asked(Tail(q), a, t)
  BY <1>1, <1>2 DEF Asked
<1> QED BY <1>3, <1>4, <1>5

LEMMA AskedAppend ==
  ASSUME NEW q \in Seq(TimeAction), NEW x \in TimeAction, NEW a, NEW t
  PROVE  Asked(Append(q, x), a, t) <=> (x.act = a /\ x.time = t) \/ Asked(q, a, t)
<1> DEFINE p == Append(q, x)
<1>1. /\ Len(q) \in Nat /\ DOMAIN q = 1..Len(q)
      /\ DOMAIN p = 1..(Len(q) + 1)
      /\ p[Len(q) + 1] = x
      /\ \A i \in 1..Len(q) : p[i] = q[i]
  OBVIOUS
<1> HIDE DEF p
<1>2. Asked(q, a, t) => Asked(p, a, t)
  BY <1>1 DEF Asked
<1>3. (x.act = a /\ x.time = t) => Asked(p, a, t)
  BY <1>1 DEF Asked
<1>4. ASSUME NEW i \in DOMAIN p, p[i].act = a, p[i].time = t
      PROVE  (x.act = a /\ x.time = t) \/ Asked(q, a, t)
  <2>1. CASE i = Len(q) + 1
    BY <2>1, <1>1, <1>4
  <2>2. CASE i # Len(q) + 1
    <3>1. i \in DOMAIN q /\ q[i] = p[i]
      BY <2>2, <1>1
    <3> QED BY <3>1, <1>4 DEF Asked
  <2> QED BY <2>1, <2>2
<1>5. Asked(p, a, t) => (x.act = a /\ x.time = t) \/ Asked(q, a, t)
  BY <1>4 DEF Asked
<1> QED BY <1>2, <1>3, <1>5 DEF p

\* A request that is not the earliest is dropped, one that is replaces the
\* timer there is; in either case the earliest time stays.
LEMMA AddTimerExact ==
  ASSUME NEW T, NEW f, NEW q, NEW w \in [UserActions -> Times \cup {NoTime}],
         TimerType(T, f, q), q # <<>>, Exact(T, f, q, w),
         NEW U, NEW g,
         U = AddTimer([byTime |-> T, byAction |-> f], Head(q)).byTime,
         g = AddTimer([byTime |-> T, byAction |-> f], Head(q)).byAction,
         TimerType(U, g, Tail(q))
  PROVE  Exact(U, g, Tail(q), w)
<1> DEFINE x == Head(q)
<1>1. /\ x \in TimeAction /\ x.act \in UserActions /\ x.time \in Times
      /\ x = [time |-> x.time, act |-> x.act]
  <2>1. x \in TimeAction
    BY DEF TimerType
  <2> QED BY <2>1 DEF TimeAction
<1>2. q \in Seq(TimeAction) /\ f \in [UserActions -> Times \cup {NoTime}]
  BY DEF TimerType
<1>3. \A y \in T : y.act \in UserActions /\ f[y.act] = y.time
  BY DEF TimerType, TimeAction, Exact, Agree
<1>4. \A a \in UserActions : f[a] # NoTime => [time |-> f[a], act |-> a] \in T
  BY DEF Exact, Agree
<1>5. x = Head(q)
  OBVIOUS
<1> HIDE DEF x
<1>6. \A a \in UserActions : IsEarliest(w[a], TimesOf(T, q, a))
  BY DEF Exact
<1>7. ASSUME NEW a \in UserActions, NEW t
      PROVE  t \in TimesOf(T, q, a) <=>
               (t = f[a] /\ t # NoTime) \/ (x.act = a /\ x.time = t) \/ Asked(Tail(q), a, t)
  BY TimesKnown, AskedTail, <1>2, <1>5 DEF Exact
<1>8. NoTime \in Int /\ \A t \in Times : t \in Int /\ t < NoTime
  BY MaxOffsetAssumption DEF NoTime, Times, Past
<1>9. CASE x.time >= f[x.act]
  <2>1. U = T /\ g = f
    BY <1>9, <1>5 DEF AddTimer
  <2>2. Agree(U, g)
    BY <2>1 DEF Exact
  <2>3. ASSUME NEW a \in UserActions PROVE IsEarliest(w[a], TimesOf(U, Tail(q), a))
    <3>1. TimesOf(T, q, a) \subseteq Times /\ f[a] \in Times \cup {NoTime}
      BY TimesKnown DEF Exact
    <3>2. \A t : t \in TimesOf(U, Tail(q), a) <=>
             (t = f[a] /\ t # NoTime) \/ Asked(Tail(q), a, t)
      BY <2>1, <2>2, TimesKnown
    <3>3. f[x.act] # NoTime
      BY <1>1, <1>2, <1>8, <1>9
    <3>4. IsEarliest(w[a], TimesOf(T, q, a))
      BY <1>6
    <3>5. ASSUME a # x.act PROVE \A t : t \in TimesOf(U, Tail(q), a) <=> t \in TimesOf(T, q, a)
      BY <3>2, <3>5, <1>7
    <3>6. ASSUME a = x.act PROVE \A t : t \in TimesOf(T, q, a) <=>
             t \in TimesOf(U, Tail(q), a) \/ t = x.time
      BY <3>2, <3>6, <1>7
    <3>7. CASE a # x.act
      <4>1. TimesOf(U, Tail(q), a) = TimesOf(T, q, a)
        BY <3>5, <3>7
      <4> QED BY <4>1, <3>4
    <3>8. CASE a = x.act
      <4>1. f[a] \in TimesOf(U, Tail(q), a) /\ f[a] <= x.time
        BY <3>2, <3>3, <3>8, <1>1, <1>2, <1>8, <1>9
      <4>2. f[a] \in TimesOf(T, q, a)
        BY <4>1, <3>6, <3>8
      <4>3. w[a] \in TimesOf(T, q, a) /\ \A t \in TimesOf(T, q, a) : w[a] <= t
        BY <4>2, <3>4 DEF IsEarliest
      <4>4. w[a] <= f[a] /\ w[a] \in Int /\ f[a] \in Int
        BY <4>2, <4>3, <3>1, <1>8
      <4>5. w[a] \in TimesOf(U, Tail(q), a)
        BY <4>1, <4>3, <4>4, <3>6, <3>8, <1>1, <1>8
      <4> QED BY <4>3, <4>5, <3>6, <3>8 DEF IsEarliest
    <3> QED BY <3>7, <3>8
  <2> QED BY <2>2, <2>3 DEF Exact
<1>10. CASE ~(x.time >= f[x.act])
  <2>1. U = {y \in T : y.act # x.act} \cup {x} /\ g = [f EXCEPT ![x.act] = x.time]
    BY <1>10, <1>5 DEF AddTimer
  <2>2. \A a \in UserActions : g[a] = IF a = x.act THEN x.time ELSE f[a]
    BY <1>2, <2>1
  <2>3. Agree(U, g)
    <3>1. ASSUME NEW y \in U PROVE g[y.act] = y.time
      BY <2>1, <2>2, <1>1, <1>3
    <3>2. ASSUME NEW a \in UserActions, g[a] # NoTime PROVE [time |-> g[a], act |-> a] \in U
      <4>1. CASE a = x.act
        BY <4>1, <2>1, <2>2, <1>1
      <4>2. CASE a # x.act
        BY <4>2, <3>2, <2>1, <2>2, <1>4
      <4> QED BY <4>1, <4>2
    <3> QED BY <3>1, <3>2 DEF Agree
  <2>4. ASSUME NEW a \in UserActions PROVE IsEarliest(w[a], TimesOf(U, Tail(q), a))
    <3>1. TimesOf(T, q, a) \subseteq Times /\ f[a] \in Times \cup {NoTime}
      BY TimesKnown DEF Exact
    <3>2. \A t : t \in TimesOf(U, Tail(q), a) <=>
             (t = g[a] /\ t # NoTime) \/ Asked(Tail(q), a, t)
      BY <2>3, TimesKnown
    <3>3. g[a] = IF a = x.act THEN x.time ELSE f[a]
      BY <2>2
    <3>4. IsEarliest(w[a], TimesOf(T, q, a))
      BY <1>6
    <3>5. x.time # NoTime
      BY <1>1, <1>8
    <3>6. ASSUME a # x.act PROVE \A t : t \in TimesOf(U, Tail(q), a) <=> t \in TimesOf(T, q, a)
      BY <3>2, <3>3, <3>6, <1>7
    <3>7. ASSUME a = x.act PROVE \A t : t \in TimesOf(T, q, a) <=>
             t \in TimesOf(U, Tail(q), a) \/ (t = f[a] /\ t # NoTime)
      BY <3>2, <3>3, <3>5, <3>7, <1>7
    <3>8. CASE a # x.act
      <4>1. TimesOf(U, Tail(q), a) = TimesOf(T, q, a)
        BY <3>6, <3>8
      <4> QED BY <4>1, <3>4
    <3>9. CASE a = x.act
      <4>1. x.time \in TimesOf(U, Tail(q), a) /\ x.time < f[a]
        BY <3>2, <3>3, <3>5, <3>9, <1>1, <1>2, <1>8, <1>10
      <4>2. x.time \in TimesOf(T, q, a)
        BY <4>1, <3>7, <3>9
      <4>3. w[a] \in TimesOf(T, q, a) /\ \A t \in TimesOf(T, q, a) : w[a] <= t
        BY <4>2, <3>4 DEF IsEarliest
      <4>4. w[a] \in Int /\ w[a] <= x.time /\ w[a] # f[a]
        BY <4>1, <4>2, <4>3, <3>1, <1>1, <1>8
      <4>5. w[a] \in TimesOf(U, Tail(q), a) /\ \A t \in TimesOf(U, Tail(q), a) : w[a] <= t
        BY <4>3, <4>4, <3>7, <3>9
      <4> QED BY <4>5 DEF IsEarliest
    <3> QED BY <3>8, <3>9
  <2> QED BY <2>3, <2>4 DEF Exact
<1> QED BY <1>9, <1>10

\* A new request takes the place of the earliest time if it is earlier.
LEMMA AskExact ==
  ASSUME NEW T, NEW f, NEW q, NEW w \in [UserActions -> Times \cup {NoTime}],
         TimerType(T, f, q), Exact(T, f, q, w),
         NEW a \in UserActions, NEW o \in 0..MaxOffset,
         NEW p, p = Append(q, [time |-> o, act |-> a]),
         NEW v, v = [w EXCEPT ![a] = Earlier(o, @)]
  PROVE  Exact(T, f, p, v)
<1> DEFINE x == [time |-> o, act |-> a]
<1>1. /\ x \in TimeAction /\ x.act = a /\ x.time = o
      /\ o \in Times /\ o \in Int /\ NoTime \in Int /\ o < NoTime
      /\ \A t \in Times : t \in Int /\ t < NoTime
  BY MaxOffsetAssumption DEF TimeAction, Times, Past, NoTime
<1>2. p = Append(q, x)
  OBVIOUS
<1> HIDE DEF x
<1>3. q \in Seq(TimeAction) /\ p \in Seq(TimeAction) /\ TimerType(T, f, p)
  BY <1>1, <1>2 DEF TimerType
<1>4. Agree(T, f)
  BY DEF Exact
<1>5. \A b \in UserActions : v[b] = IF b = a THEN Earlier(o, w[b]) ELSE w[b]
  OBVIOUS
<1>6. ASSUME NEW b \in UserActions PROVE IsEarliest(v[b], TimesOf(T, p, b))
  <2>1. IsEarliest(w[b], TimesOf(T, q, b))
    BY DEF Exact
  <2>2. TimesOf(T, q, b) \subseteq Times
    BY <1>3, <1>4, TimesKnown
  <2>3. \A t : t \in TimesOf(T, q, b) <=> (t = f[b] /\ t # NoTime) \/ Asked(q, b, t)
    BY <1>3, <1>4, TimesKnown
  <2>4. \A t : t \in TimesOf(T, p, b) <=> (t = f[b] /\ t # NoTime) \/ Asked(p, b, t)
    BY <1>3, <1>4, TimesKnown
  <2>5. \A t : Asked(p, b, t) <=> (b = a /\ o = t) \/ Asked(q, b, t)
    BY <1>1, <1>2, <1>3, AskedAppend
  <2>6. CASE b # a
    <3>1. \A t : t \in TimesOf(T, p, b) <=> t \in TimesOf(T, q, b)
      BY <2>3, <2>4, <2>5, <2>6
    <3>2. TimesOf(T, p, b) = TimesOf(T, q, b)
      BY <3>1
    <3> QED BY <2>1, <2>6, <3>2, <1>5
  <2>7. CASE b = a
    <3>1. \A t : t \in TimesOf(T, p, b) <=> t = o \/ t \in TimesOf(T, q, b)
      BY <2>3, <2>4, <2>5, <2>7
    <3>2. v[b] = IF o < w[b] THEN o ELSE w[b]
      BY <2>7, <1>5 DEF Earlier
    <3>3. CASE TimesOf(T, q, b) = {}
      <4>1. v[b] = o
        BY <2>1, <3>2, <3>3, <1>1 DEF IsEarliest
      <4>2. TimesOf(T, p, b) = {o}
        BY <3>1, <3>3
      <4> QED BY <4>1, <4>2, <1>1 DEF IsEarliest
    <3>4. CASE TimesOf(T, q, b) # {}
      <4>1. /\ w[b] \in TimesOf(T, q, b) /\ w[b] \in Int
            /\ \A t \in TimesOf(T, q, b) : w[b] <= t /\ t \in Int
        BY <2>1, <2>2, <3>4, <1>1 DEF IsEarliest
      <4>2. v[b] \in TimesOf(T, p, b)
        BY <4>1, <3>1, <3>2
      <4>3. \A t \in TimesOf(T, p, b) : v[b] <= t
        BY <4>1, <3>1, <3>2, <1>1
      <4> QED BY <4>2, <4>3 DEF IsEarliest
    <3> QED BY <3>3, <3>4
  <2> QED BY <2>6, <2>7
<1> QED BY <1>4, <1>6 DEF Exact

\* Timers that have expired are in neither map, and nothing is wanted of them.
LEMMA ExpireExact ==
  ASSUME NEW T, NEW f, NEW w \in [UserActions -> Times \cup {NoTime}],
         TimerType(T, f, <<>>), Exact(T, f, <<>>, w),
         NEW E, E = {x \in T : x.time = Past},
         NEW U, U = T \ E,
         NEW g, g = [a \in UserActions |-> IF \E x \in E : x.act = a THEN NoTime ELSE f[a]],
         NEW v, v = [a \in UserActions |-> IF \E x \in E : x.act = a THEN NoTime ELSE w[a]],
         TimerType(U, g, <<>>)
  PROVE  Exact(U, g, <<>>, v)
<1>1. Agree(T, f)
  BY DEF Exact
<1>2. \A x \in T : x.act \in UserActions /\ f[x.act] = x.time
  BY <1>1 DEF Agree, TimerType, TimeAction
<1>3. \A a \in UserActions : f[a] # NoTime => [time |-> f[a], act |-> a] \in T
  BY <1>1 DEF Agree
<1>4. ASSUME NEW a \in UserActions PROVE (\E x \in E : x.act = a) <=> f[a] = Past
  <2>1. ASSUME NEW x \in E, x.act = a PROVE f[a] = Past
    BY <1>2, <2>1
  <2>2. ASSUME f[a] = Past PROVE \E x \in E : x.act = a
    <3>1. f[a] # NoTime
      BY <2>2, MaxOffsetAssumption DEF Past, NoTime
    <3> DEFINE x == [time |-> f[a], act |-> a]
    <3>2. x \in T /\ x.time = f[a] /\ x.act = a
      BY <1>3, <3>1
    <3> HIDE DEF x
    <3>3. x \in E
      BY <3>2, <2>2
    <3> QED BY <3>2, <3>3
  <2> QED BY <2>1, <2>2
<1>5. \A a \in UserActions : g[a] = IF f[a] = Past THEN NoTime ELSE f[a]
  BY <1>4
<1>6. \A a \in UserActions : v[a] = IF f[a] = Past THEN NoTime ELSE w[a]
  BY <1>4
<1>7. Agree(U, g)
  <2>1. ASSUME NEW x \in U PROVE g[x.act] = x.time
    <3>1. x \in T /\ x.time # Past
      BY <2>1
    <3> QED BY <3>1, <1>2, <1>5
  <2>2. ASSUME NEW a \in UserActions, g[a] # NoTime PROVE [time |-> g[a], act |-> a] \in U
    <3>1. g[a] = f[a] /\ f[a] # Past /\ f[a] # NoTime
      BY <2>2, <1>5
    <3> DEFINE x == [time |-> f[a], act |-> a]
    <3>2. x \in T /\ x.time = f[a]
      BY <1>3, <3>1
    <3>3. x \in U
      BY <3>1, <3>2
    <3> QED BY <3>1, <3>3
  <2> QED BY <2>1, <2>2 DEF Agree
<1>8. \A a, t : ~Asked(<<>>, a, t)
  BY DEF Asked
<1>9. ASSUME NEW a \in UserActions PROVE IsEarliest(v[a], TimesOf(U, <<>>, a))
  <2>1. IsEarliest(w[a], TimesOf(T, <<>>, a))
    BY DEF Exact
  <2>2. \A t : t \in TimesOf(T, <<>>, a) <=> (t = f[a] /\ t # NoTime)
    BY <1>1, <1>8, TimesKnown
  <2>3. \A t : t \in TimesOf(U, <<>>, a) <=> (t = g[a] /\ t # NoTime)
    BY <1>7, <1>8, TimesKnown
  <2>4. CASE f[a] = Past
    <3>1. TimesOf(U, <<>>, a) = {} /\ v[a] = NoTime
      BY <2>3, <2>4, <1>5, <1>6
    <3> QED BY <3>1 DEF IsEarliest
  <2>5. CASE f[a] # Past
    <3>1. g[a] = f[a] /\ v[a] = w[a]
      BY <2>5, <1>5, <1>6
    <3>2. \A t : t \in TimesOf(U, <<>>, a) <=> t \in TimesOf(T, <<>>, a)
      BY <2>2, <2>3, <3>1
    <3>3. TimesOf(U, <<>>, a) = TimesOf(T, <<>>, a)
      BY <3>2
    <3> QED BY <3>1, <3>3, <2>1
  <2> QED BY <2>4, <2>5
<1> QED BY <1>7, <1>9 DEF Exact

\* As time passes, the order of times stays.
LEMMA OlderOrder ==
  /\ \A t \in Times \cup {NoTime} : Older(t) \in Times \cup {NoTime}
  /\ \A t \in Times \cup {NoTime} : Older(t) = NoTime <=> t = NoTime
  /\ \A s, t \in Times : s <= t => Older(s) <= Older(t)
BY MaxOffsetAssumption DEF Times, NoTime, Older, Past

OlderTimers(T) == {[x EXCEPT !.time = Older(@)] : x \in T}
OlderQueue(q) == [i \in DOMAIN q |-> [q[i] EXCEPT !.time = Older(@)]]
OlderMap(f) == [a \in UserActions |-> Older(f[a])]

LEMMA TickExact ==
  ASSUME NEW T, NEW f, NEW q, NEW w \in [UserActions -> Times \cup {NoTime}],
         TimerType(T, f, q), Exact(T, f, q, w),
         NEW U, U = OlderTimers(T), NEW g, g = OlderMap(f),
         NEW p, p = OlderQueue(q), NEW v, v = OlderMap(w),
         TimerType(U, g, p)
  PROVE  Exact(U, g, p, v)
<1> DEFINE Later(x) == [x EXCEPT !.time = Older(@)]
<1>1. Agree(T, f) /\ f \in [UserActions -> Times \cup {NoTime}]
  BY DEF Exact, TimerType
<1>2. \A x \in TimeAction : /\ x.act \in UserActions
                            /\ Later(x).act = x.act /\ Later(x).time = Older(x.time)
  BY DEF TimeAction
<1>3. \A x \in TimeAction : \A t, b : x.time = t /\ x.act = b =>
        Later(x) = [time |-> Older(t), act |-> b]
  BY DEF TimeAction
<1>4. U = {Later(x) : x \in T} /\ p = [i \in DOMAIN q |-> Later(q[i])]
  BY DEF OlderTimers, OlderQueue
<1> HIDE DEF Later
<1>5. \A x \in T : x \in TimeAction /\ f[x.act] = x.time
  BY <1>1 DEF TimerType, Agree
<1>6. \A i \in DOMAIN q : q[i] \in TimeAction
  BY DEF TimerType
<1>7. \A a \in UserActions : g[a] = Older(f[a]) /\ v[a] = Older(w[a])
  BY DEF OlderMap
<1>8. Agree(U, g)
  <2>1. ASSUME NEW y \in U PROVE g[y.act] = y.time
    <3>1. PICK x \in T : y = Later(x)
      BY <1>4
    <3> QED BY <3>1, <1>2, <1>5, <1>7
  <2>2. ASSUME NEW a \in UserActions, g[a] # NoTime PROVE [time |-> g[a], act |-> a] \in U
    <3>1. f[a] # NoTime /\ g[a] = Older(f[a])
      BY <2>2, <1>1, <1>7, OlderOrder
    <3> DEFINE x == [time |-> f[a], act |-> a]
    <3>2. x \in T /\ x.time = f[a] /\ x.act = a
      BY <1>1, <3>1 DEF Agree
    <3> HIDE DEF x
    <3>3. Later(x) = [time |-> Older(f[a]), act |-> a]
      BY <1>3, <1>5, <3>2
    <3>4. Later(x) \in U
      BY <1>4, <3>2
    <3> QED BY <3>1, <3>3, <3>4
  <2> QED BY <2>1, <2>2 DEF Agree
<1>9. ASSUME NEW a, NEW t PROVE Asked(p, a, t) <=> \E u : Asked(q, a, u) /\ t = Older(u)
  <2>1. DOMAIN p = DOMAIN q /\ \A i \in DOMAIN q : p[i].act = q[i].act /\ p[i].time = Older(q[i].time)
    BY <1>2, <1>4, <1>6
  <2> QED BY <2>1 DEF Asked
<1>10. ASSUME NEW a \in UserActions PROVE IsEarliest(v[a], TimesOf(U, p, a))
  <2>1. IsEarliest(w[a], TimesOf(T, q, a))
    BY DEF Exact
  <2>2. TimesOf(T, q, a) \subseteq Times
    BY <1>1, TimesKnown
  <2>3. \A t : t \in TimesOf(T, q, a) <=> (t = f[a] /\ t # NoTime) \/ Asked(q, a, t)
    BY <1>1, TimesKnown
  <2>4. \A t : t \in TimesOf(U, p, a) <=> (t = g[a] /\ t # NoTime) \/ Asked(p, a, t)
    BY <1>8, TimesKnown
  <2>5. g[a] = Older(f[a]) /\ (g[a] # NoTime <=> f[a] # NoTime)
    BY <1>1, <1>7, OlderOrder
  <2>6. \A t : t \in TimesOf(U, p, a) <=> \E u \in TimesOf(T, q, a) : t = Older(u)
    <3>1. ASSUME NEW t \in TimesOf(U, p, a) PROVE \E u \in TimesOf(T, q, a) : t = Older(u)
      <4>1. CASE t = g[a] /\ t # NoTime
        <5>1. f[a] \in TimesOf(T, q, a)
          BY <4>1, <2>3, <2>5
        <5> QED BY <4>1, <5>1, <2>5
      <4>2. CASE Asked(p, a, t)
        BY <4>2, <2>3, <1>9
      <4> QED BY <3>1, <4>1, <4>2, <2>4
    <3>2. ASSUME NEW u \in TimesOf(T, q, a) PROVE Older(u) \in TimesOf(U, p, a)
      <4>1. CASE u = f[a] /\ u # NoTime
        BY <4>1, <2>4, <2>5
      <4>2. CASE Asked(q, a, u)
        BY <4>2, <2>4, <1>9
      <4> QED BY <4>1, <4>2, <2>3
    <3> QED BY <3>1, <3>2
  <2>7. CASE TimesOf(T, q, a) = {}
    <3>1. TimesOf(U, p, a) = {} /\ v[a] = NoTime
      BY <2>1, <2>6, <2>7, <1>7 DEF IsEarliest, Older
    <3> QED BY <3>1 DEF IsEarliest
  <2>8. CASE TimesOf(T, q, a) # {}
    <3>1. w[a] \in TimesOf(T, q, a) /\ \A u \in TimesOf(T, q, a) : w[a] <= u
      BY <2>1, <2>8 DEF IsEarliest
    <3>2. \A u \in TimesOf(T, q, a) : Older(w[a]) <= Older(u)
      BY <2>2, <3>1, OlderOrder
    <3>3. v[a] \in TimesOf(U, p, a)
      BY <2>6, <3>1, <1>7
    <3>4. \A t \in TimesOf(U, p, a) : v[a] <= t
      BY <2>6, <3>2, <1>7
    <3> QED BY <3>3, <3>4 DEF IsEarliest
  <2> QED BY <2>7, <2>8
<1> QED BY <1>8, <1>10 DEF Exact
-----------------------------------------------------------------------------
LEMMA TimersInit == FifoInit => TimersExact /\ TimersRegistered
BY DEF FifoInit, TimersExact, TimersAgree, EarliestTimer, TimersRegistered, Range

LEMMA TimersNext == TimersInv /\ [FifoNext]_fifoVars => TimersInv'
<1> SUFFICES ASSUME TimersInv, [FifoNext]_fifoVars PROVE TimersInv'
  OBVIOUS
<1>1. FifoTypeOK /\ FifoTypeOK' /\ TimersRegistered
  BY NextTypes DEF TimersInv
<1>2. /\ TimerType(byTime, byAction, timerq)
      /\ TimerType(byTime', byAction', timerq')
      /\ wanted \in [UserActions -> Times \cup {NoTime}]
      /\ timerq \in Seq(TimeAction)
  BY <1>1 DEF FifoTypeOK, TimerType
<1>3. Exact(byTime, byAction, timerq, wanted)
  BY <1>1, ExactMeans DEF TimersInv
<1>4. SUFFICES Exact(byTime', byAction', timerq', wanted') /\ TimersRegistered'
  BY <1>1, ExactMeansNext DEF TimersInv
<1>5. ASSUME UNCHANGED <<byTime, byAction, timerq, wanted>>
      PROVE  Exact(byTime', byAction', timerq', wanted')
  BY <1>3, <1>5
<1>6. CASE UNCHANGED fifoVars
  BY <1>1, <1>5, <1>6 DEF fifoVars, requests, timers, TimersRegistered
<1>7. ASSUME NEW a \in UserActions, Schedule(a)
      PROVE  Exact(byTime', byAction', timerq', wanted') /\ TimersRegistered'
  BY <1>1, <1>5, <1>7 DEF Schedule, requests, timers, TimersRegistered
<1>8. ASSUME NEW a \in UserActions, NEW offset \in 0..MaxOffset, ScheduleAfter(a, offset)
      PROVE  Exact(byTime', byAction', timerq', wanted') /\ TimersRegistered'
  <2>1. /\ timerq' = Append(timerq, [time |-> offset, act |-> a])
        /\ wanted' = [wanted EXCEPT ![a] = Earlier(offset, @)]
        /\ byTime' = byTime /\ byAction' = byAction
        /\ pc' \in {"construct", "runConfig", "runUser"}
    BY <1>8 DEF ScheduleAfter, Requesting, Calling, timers
  <2>2. Exact(byTime, byAction, timerq', wanted')
    BY <1>2, <1>3, <2>1, AskExact
  <2> QED BY <2>1, <2>2 DEF TimersRegistered
<1>9. ASSUME NEW d \in Dirs, NEW f \in Fds, NEW a \in UserActions, ScheduleReady(d, f, a)
      PROVE  Exact(byTime', byAction', timerq', wanted') /\ TimersRegistered'
  BY <1>1, <1>5, <1>9 DEF ScheduleReady, timers, TimersRegistered
<1>10. ASSUME NEW f \in Fds, Close(f) \/ Open(f)
       PROVE  Exact(byTime', byAction', timerq', wanted') /\ TimersRegistered'
  BY <1>1, <1>5, <1>10 DEF Close, Open, requests, timers, TimersRegistered
<1>11. CASE ScheduleConfig
  BY <1>1, <1>5, <1>11 DEF ScheduleConfig, requests, timers, TimersRegistered
<1>12. CASE RegisterTimer
  <2> DEFINE m == AddTimer([byTime |-> byTime, byAction |-> byAction], Head(timerq))
  <2>1. /\ timerq # <<>> /\ timerq' = Tail(timerq)
        /\ byTime' = m.byTime /\ byAction' = m.byAction
        /\ wanted' = wanted /\ pc' = "loop"
    BY <1>12 DEF RegisterTimer
  <2>2. Exact(byTime', byAction', Tail(timerq), wanted)
    BY <1>2, <1>3, <2>1, AddTimerExact
  <2> QED BY <2>1, <2>2 DEF TimersRegistered
<1>13. CASE Register
  BY <1>5, <1>13 DEF Register, timers, TimersRegistered
<1>14. CASE Purge
  BY <1>1, <1>5, <1>14 DEF Purge, timers, TimersRegistered
<1>15. ASSUME NEW F, Select(F)
       PROVE  Exact(byTime', byAction', timerq', wanted') /\ TimersRegistered'
  <2> DEFINE E == {x \in byTime : x.time = Past}
  <2>1. /\ pc = "select" /\ pc' = "config" /\ timerq' = timerq
        /\ byTime' = byTime \ E
        /\ byAction' = [a \in UserActions |-> IF \E x \in E : x.act = a THEN NoTime ELSE byAction[a]]
        /\ wanted' = [a \in UserActions |-> IF \E x \in E : x.act = a THEN NoTime ELSE wanted[a]]
    BY <1>15 DEF Select, requests
  <2>2. timerq = <<>> /\ timerq' = <<>>
    BY <1>1, <2>1 DEF TimersRegistered
  <2>3. E = {x \in byTime : x.time = Past}
    OBVIOUS
  <2> HIDE DEF E
  <2>4. Exact(byTime', byAction', <<>>, wanted')
    BY <1>2, <1>3, <2>1, <2>2, <2>3, ExpireExact
  <2> QED BY <2>1, <2>2, <2>4 DEF TimersRegistered
<1>16. CASE PopConfig \/ PopUser \/ Return \/ Stop \/ Run
  BY <1>1, <1>5, <1>16
     DEF PopConfig, PopUser, Return, Calling, Stop, Run, requests, timers, TimersRegistered
<1>17. CASE Tick
  <2>1. Exact(byTime', byAction', timerq', wanted')
    <3>1. /\ byTime' = OlderTimers(byTime) /\ byAction' = OlderMap(byAction)
          /\ timerq' = OlderQueue(timerq) /\ wanted' = OlderMap(wanted)
      BY <1>17 DEF Tick, OlderTimers, OlderQueue, OlderMap
    <3> QED BY <3>1, <1>2, <1>3, TickExact
  <2>2. timerq = <<>> => timerq' = <<>>
    BY <1>17 DEF Tick
  <2>3. pc' = pc
    BY <1>17 DEF Tick
  <2> QED BY <1>1, <2>1, <2>2, <2>3 DEF TimersRegistered
<1> QED
  BY <1>6, <1>7, <1>8, <1>9, <1>10, <1>11, <1>12, <1>13, <1>14, <1>15, <1>16, <1>17
     DEF FifoNext, Call, Advance

(* The timers in force are those asked for, in both maps: of the times an  *)
(* action was scheduled for, whatever order the requests were made and     *)
(* registered in and however much time passed between, the earliest.  The  *)
(* invariant also says that no request is left when select expires timers. *)
THEOREM TimersInForce == FifoSpec => []TimersExact
<1>1. FifoInit => TimersInv
  BY FifoTypeCorrect, TimersInit, MaxConfigAssumption DEF FifoInit, FifoTypeOK, TimersInv
<1>2. TimersInv => TimersExact
  BY DEF TimersInv
<1> QED BY <1>1, <1>2, TimersNext, PTL DEF FifoSpec
=============================================================================
