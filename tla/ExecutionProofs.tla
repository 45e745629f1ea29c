-------------------------- MODULE ExecutionProofs --------------------------
(***************************************************************************)
(* Proofs about Execution, for any number of automata, threads, output     *)
(* members and bindings: executors do not deadlock, hold their locks as    *)
(* long as they need them, and exclude each other where they lock.         *)
(*                                                                         *)
(* The argument.  owner says who holds each mutex and job how far each     *)
(* thread has come; HeldExactly ties the two together, and holds because   *)
(* unlock_in_order goes through the bindings that lock_in_order went       *)
(* through, which nobody changes while a reader is at work (WriterAlone).  *)
(* LocksAscending is what lock_in_order is named for.  From these each     *)
(* theorem follows without looking at a step again.                        *)
(***************************************************************************)
EXTENDS Execution, TLAPS, FiniteSetTheorems, WellFoundedInduction

\* The phases of a thread that has an action in hand.
AtWork == {"locking", "running", "unlocking"}

\* The mutexes that t must hold, by what it is doing.
Held(t) ==
  IF job[t].phase = "locking" THEN LockSet(job[t].act) \ job[t].todo
  ELSE IF job[t].phase = "running" THEN LockSet(job[t].act)
  ELSE IF job[t].phase = "unlocking" THEN job[t].todo
  ELSE {}

\* A thread holds the mutexes that its job says, and no other.
HeldExactly == \A a \in Aids, t \in Threads : owner[a] = t <=> a \in Held(t)

\* What a thread has locked is less than what it has yet to lock.
LocksAscending ==
  \A t \in Threads : job[t].phase = "locking" =>
    /\ job[t].todo \subseteq LockSet(job[t].act)
    /\ \A a \in LockSet(job[t].act) \ job[t].todo, b \in job[t].todo : a < b

\* A thread runs code of automata of its own action only, once all are locked; an
\* output action is run by the thread of its automaton's context.
InsideOwn ==
  \A t \in Threads :
    /\ job[t].phase \in AtWork => job[t].act \in Actions
    /\ job[t].phase \in AtWork /\ job[t].act.member # Alone => t = Home[job[t].act.aid]
    /\ job[t].phase = "running" => job[t].todo \subseteq Inputs(job[t].act)
    /\ job[t].inside # NoAid =>
         /\ job[t].phase = "running"
         /\ job[t].inside \in {job[t].act.aid} \cup Inputs(job[t].act)

\* The unique lock of the registry: nobody else is at work.
WriterAlone ==
  \A t, u \in Threads : t # u /\ job[t].phase = "writing" => job[u].phase = "idle"

\* The inductive invariant.
IInv == ExecTypeOK /\ HeldExactly /\ LocksAscending /\ InsideOwn /\ WriterAlone
-----------------------------------------------------------------------------
\* A nonempty set of naturals has a least member, and Least names it.
LEMMA LeastIsLeast ==
  ASSUME NEW S \in SUBSET Nat, S # {}
  PROVE  Least(S) \in S /\ \A a \in S : Least(S) <= a
<1> DEFINE Less == OpToRel(<, Nat)
<1>1. IsWellFoundedOn(Less, Nat)
  BY NatLessThanWellFounded, Zenon
<1>2. \A x, y \in Nat : <<x, y>> \in Less <=> x < y
  BY Zenon DEF OpToRel
<1> HIDE DEF Less
<1>3. PICK m \in S : \A k \in S : <<k, m>> \notin Less
  BY WFMin, <1>1
<1>4. \A k \in S : ~(k < m)
  BY <1>2, <1>3
<1>5. \A k \in S : m <= k
  <2>1. SUFFICES ASSUME NEW k \in S PROVE m <= k
    OBVIOUS
  <2>2. k \in Nat /\ m \in Nat
    OBVIOUS
  <2> QED BY <2>2, <1>4
<1> QED BY <1>5 DEF Least

\* lock_in_order and unlock_in_order go through the same automata, among them
\* every input of the action.
LEMMA LocksAreAids ==
  ASSUME links \in SUBSET R!Link, NEW act \in Actions
  PROVE  /\ Inputs(act) \subseteq LockSet(act)
         /\ LockSet(act) \subseteq Aids
         /\ LockSet(act) = UnlockSet(act)
<1>1. Inputs(act) \subseteq Aids
  BY DEF Inputs, R!Link
<1>2. act.member = Alone => Inputs(act) = {}
  BY AloneAssumption DEF Inputs, R!Link, Outputs
<1>3. act.aid \in Aids
  BY DEF Actions
<1> QED BY <1>1, <1>2, <1>3 DEF LockSet, UnlockSet

\* What every step leaves of the jobs: one of the right type for t, the others' own.
Only(t, phase, act, todo, inside) ==
  /\ job'[t].phase = phase /\ job'[t].act = act
  /\ job'[t].todo = todo /\ job'[t].inside = inside
  /\ \A u \in Threads : u # t => job'[u] = job[u]

\* model::execute... takes the shared lock: nothing is locked yet, so all of the
\* action's automata are still to be locked.
LEMMA BeginKeeps ==
  ASSUME IInv, NEW t \in Threads, NEW act \in Actions, Begin(t, act)
  PROVE  IInv'
<1>0. LockSet(act) \in SUBSET Aids
  BY LocksAreAids DEF IInv, ExecTypeOK
<1>1. Idle \in Job /\ Idle.inside = NoAid
  BY DEF Idle, Job, NoAction
<1>2. Only(t, "locking", act, LockSet(act), NoAid)
  BY <1>1 DEF Begin, IInv, ExecTypeOK, Job, Only
<1>3. ExecTypeOK'
  BY <1>0, <1>1 DEF Begin, IInv, ExecTypeOK, Job
<1>4. links' = links /\ owner' = owner /\ job[t].phase = "idle" /\ Writing = {}
  BY DEF Begin
<1>5. HeldExactly'
  BY <1>2, <1>4 DEF IInv, HeldExactly, Held, Only, LockSet, Inputs
<1>6. LocksAscending'
  BY <1>2, <1>4 DEF IInv, LocksAscending, Only, LockSet, Inputs
<1>7. InsideOwn'
  <2>1. act.member # Alone => t = Home[act.aid]
    BY DEF Begin
  <2> QED BY <1>2, <1>4, <2>1 DEF IInv, InsideOwn, AtWork, Only, Inputs
<1>8. WriterAlone'
  BY <1>2, <1>4 DEF IInv, WriterAlone, Only, Writing
<1> QED BY <1>3, <1>5, <1>6, <1>7, <1>8 DEF IInv

\* lock_in_order locks the least automaton left, which is greater than those before.
LEMMA LockKeeps ==
  ASSUME IInv, NEW t \in Threads, Lock(t)
  PROVE  IInv'
<1>1. PICK a \in Aids : /\ LocksNext(t, a) /\ owner[a] = NoThread
                       /\ owner' = [owner EXCEPT ![a] = t]
                       /\ job' = [job EXCEPT ![t].todo = @ \ {a}]
  BY DEF Lock
<1>2. links' = links /\ live' = live /\ job[t].phase = "locking"
  BY DEF Lock
<1>3. Only(t, "locking", job[t].act, job[t].todo \ {a}, job[t].inside)
  BY <1>1, <1>2 DEF IInv, ExecTypeOK, Job, Only
<1>4. a \in job[t].todo /\ a \in LockSet(job[t].act) /\ \A b \in job[t].todo \ {a} : a < b
  <2>1. a \in job[t].todo /\ a = Least(job[t].todo)
    BY <1>1 DEF LocksNext
  <2>2. job[t].todo \in SUBSET Nat
    BY DEF IInv, ExecTypeOK, Job, Aids
  <2>3. \A b \in job[t].todo : a <= b
    BY <2>1, <2>2, LeastIsLeast
  <2>4. ASSUME NEW b \in job[t].todo \ {a} PROVE a < b
    <3>1. b \in Nat /\ a \in Nat /\ a <= b /\ a # b
      BY <2>1, <2>2, <2>3
    <3> QED BY <3>1
  <2> QED BY <1>2, <2>1, <2>4 DEF IInv, LocksAscending
<1>5. ExecTypeOK'
  BY <1>1, <1>2 DEF IInv, ExecTypeOK, Job
<1>6. HeldExactly'
  BY <1>1, <1>2, <1>3, <1>4, NoThreadAssumption
     DEF IInv, ExecTypeOK, HeldExactly, Held, Only, LockSet, Inputs
<1>7. LocksAscending'
  BY <1>2, <1>3, <1>4 DEF IInv, LocksAscending, Only, LockSet, Inputs
<1>8. InsideOwn'
  BY <1>2, <1>3 DEF IInv, InsideOwn, AtWork, Only, Inputs
<1>9. WriterAlone'
  BY <1>2, <1>3 DEF IInv, WriterAlone, Only
<1> QED BY <1>5, <1>6, <1>7, <1>8, <1>9 DEF IInv

\* The precondition is evaluated with every lock of the action held.
LEMMA EnterUserCodeKeeps ==
  ASSUME IInv, NEW t \in Threads, EnterUserCode(t)
  PROVE  IInv'
<1>1. /\ links' = links /\ live' = live /\ owner' = owner
      /\ job[t].phase = "locking" /\ job[t].todo = {}
  BY DEF EnterUserCode
<1>2. job[t].act \in Actions /\ job[t].act.aid \in Aids
  BY <1>1 DEF IInv, InsideOwn, AtWork, Actions
<1>3. Inputs(job[t].act) \in SUBSET Aids
  BY <1>2, LocksAreAids DEF IInv, ExecTypeOK
<1>4. Only(t, "running", job[t].act, Inputs(job[t].act), job[t].act.aid)
  BY DEF EnterUserCode, IInv, ExecTypeOK, Job, Only
<1>5. ExecTypeOK'
  <2> DEFINE todo == Inputs(job[t].act)
             aid == job[t].act.aid
  <2>1. /\ todo \in SUBSET Aids /\ aid \in Aids
        /\ job' = [job EXCEPT ![t].phase = "running", ![t].inside = aid, ![t].todo = todo]
    BY <1>2, <1>3 DEF EnterUserCode
  <2> HIDE DEF todo, aid
  <2> DEFINE r == [job[t] EXCEPT !.phase = "running", !.inside = aid, !.todo = todo]
  <2>2. r \in Job
    BY <2>1 DEF IInv, ExecTypeOK, Job
  <2>3. job' = [job EXCEPT ![t] = r]
    BY <2>1 DEF IInv, ExecTypeOK
  <2> HIDE DEF r
  <2> QED BY <1>1, <2>2, <2>3 DEF IInv, ExecTypeOK
<1>6. HeldExactly'
  BY <1>1, <1>4 DEF IInv, HeldExactly, Held, Only, LockSet, Inputs
<1>7. LocksAscending'
  BY <1>1, <1>4 DEF IInv, LocksAscending, Only, LockSet, Inputs
<1>8. InsideOwn'
  BY <1>1, <1>2, <1>4 DEF IInv, InsideOwn, AtWork, Only, Inputs
<1>9. WriterAlone'
  BY <1>1, <1>4 DEF IInv, WriterAlone, Only
<1> QED BY <1>5, <1>6, <1>7, <1>8, <1>9 DEF IInv

\* The effect of an input runs in an automaton that the thread has locked.
LEMMA RunInputKeeps ==
  ASSUME IInv, NEW t \in Threads, RunInput(t)
  PROVE  IInv'
<1> DEFINE next == Least(job[t].todo)
<1>1. /\ links' = links /\ live' = live /\ owner' = owner
      /\ job[t].phase = "running" /\ job[t].todo # {}
  BY DEF RunInput
<1>2. job' = [job EXCEPT ![t].inside = next, ![t].todo = @ \ {next}]
  BY DEF RunInput
<1>3. next \in job[t].todo
  BY <1>1, LeastIsLeast DEF IInv, ExecTypeOK, Job, Aids
<1>4. next \in Aids /\ next \in Inputs(job[t].act)
  BY <1>1, <1>3 DEF IInv, ExecTypeOK, Job, InsideOwn
<1> HIDE DEF next
<1>5. Only(t, "running", job[t].act, job[t].todo \ {next}, next)
  BY <1>1, <1>2 DEF IInv, ExecTypeOK, Job, Only
<1>6. ExecTypeOK'
  BY <1>1, <1>2, <1>4, ZenonT(30) DEF IInv, ExecTypeOK, Job
<1>7. HeldExactly'
  BY <1>1, <1>5 DEF IInv, HeldExactly, Held, Only, LockSet, Inputs
<1>8. LocksAscending'
  BY <1>1, <1>5 DEF IInv, LocksAscending, Only, LockSet, Inputs
<1>9. InsideOwn'
  BY <1>1, <1>4, <1>5 DEF IInv, InsideOwn, AtWork, Only, Inputs
<1>10. WriterAlone'
  BY <1>1, <1>5 DEF IInv, WriterAlone, Only
<1> QED BY <1>6, <1>7, <1>8, <1>9, <1>10 DEF IInv

\* unlock_in_order starts with all that lock_in_order took.
LEMMA LeaveUserCodeKeeps ==
  ASSUME IInv, NEW t \in Threads, LeaveUserCode(t)
  PROVE  IInv'
<1>1. /\ links' = links /\ live' = live /\ owner' = owner
      /\ job[t].phase = "running"
  BY DEF LeaveUserCode
<1>2. job[t].act \in Actions
  BY <1>1 DEF IInv, InsideOwn, AtWork
<1>3. LockSet(job[t].act) \in SUBSET Aids /\ UnlockSet(job[t].act) = LockSet(job[t].act)
  BY <1>2, LocksAreAids DEF IInv, ExecTypeOK
<1>4. Only(t, "unlocking", job[t].act, LockSet(job[t].act), NoAid)
  BY <1>3 DEF LeaveUserCode, IInv, ExecTypeOK, Job, Only
<1>5. ExecTypeOK'
  <2> DEFINE todo == UnlockSet(job[t].act)
  <2>1. /\ todo \in SUBSET Aids
        /\ job' = [job EXCEPT ![t].phase = "unlocking", ![t].inside = NoAid, ![t].todo = todo]
    BY <1>3 DEF LeaveUserCode
  <2> HIDE DEF todo
  <2> DEFINE r == [job[t] EXCEPT !.phase = "unlocking", !.inside = NoAid, !.todo = todo]
  <2>2. r \in Job
    BY <2>1 DEF IInv, ExecTypeOK, Job
  <2>3. job' = [job EXCEPT ![t] = r]
    BY <2>1 DEF IInv, ExecTypeOK
  <2> HIDE DEF r
  <2> QED BY <1>1, <2>2, <2>3 DEF IInv, ExecTypeOK
<1>6. HeldExactly'
  BY <1>1, <1>4 DEF IInv, HeldExactly, Held, Only, LockSet, Inputs
<1>7. LocksAscending'
  BY <1>1, <1>4 DEF IInv, LocksAscending, Only, LockSet, Inputs
<1>8. InsideOwn'
  BY <1>1, <1>2, <1>4 DEF IInv, InsideOwn, AtWork, Only, Inputs
<1>9. WriterAlone'
  BY <1>1, <1>4 DEF IInv, WriterAlone, Only
<1> QED BY <1>5, <1>6, <1>7, <1>8, <1>9 DEF IInv

\* unlock_in_order releases a mutex that the thread holds.
LEMMA UnlockKeeps ==
  ASSUME IInv, NEW t \in Threads, Unlock(t)
  PROVE  IInv'
<1> DEFINE a == Least(job[t].todo)
<1>1. /\ links' = links /\ live' = live
      /\ job[t].phase = "unlocking" /\ job[t].todo # {}
      /\ owner' = [owner EXCEPT ![a] = NoThread]
      /\ job' = [job EXCEPT ![t].todo = @ \ {a}]
  BY DEF Unlock
<1>2. a \in job[t].todo
  BY <1>1, LeastIsLeast DEF IInv, ExecTypeOK, Job, Aids
<1>3. a \in Aids /\ owner[a] = t
  BY <1>1, <1>2 DEF IInv, ExecTypeOK, Job, HeldExactly, Held
<1> HIDE DEF a
<1>4. Only(t, "unlocking", job[t].act, job[t].todo \ {a}, job[t].inside)
  BY <1>1 DEF IInv, ExecTypeOK, Job, Only
<1>5. ExecTypeOK'
  BY <1>1, <1>3 DEF IInv, ExecTypeOK, Job
<1>6. HeldExactly'
  BY <1>1, <1>2, <1>3, <1>4, NoThreadAssumption
     DEF IInv, ExecTypeOK, HeldExactly, Held, Only, LockSet, Inputs
<1>7. LocksAscending'
  BY <1>1, <1>4 DEF IInv, LocksAscending, Only, LockSet, Inputs
<1>8. InsideOwn'
  BY <1>1, <1>4 DEF IInv, InsideOwn, AtWork, Only, Inputs
<1>9. WriterAlone'
  BY <1>1, <1>4 DEF IInv, WriterAlone, Only
<1> QED BY <1>5, <1>6, <1>7, <1>8, <1>9 DEF IInv

\* The shared lock is released when no mutex is left.
LEMMA FinishKeeps ==
  ASSUME IInv, NEW t \in Threads, Finish(t)
  PROVE  IInv'
<1>1. /\ links' = links /\ live' = live /\ owner' = owner
      /\ job[t].phase = "unlocking" /\ job[t].todo = {}
  BY DEF Finish
<1>2. Only(t, "idle", NoAction, {}, NoAid)
  BY DEF Finish, IInv, ExecTypeOK, Only, Idle
<1>3. ExecTypeOK'
  BY DEF Finish, IInv, ExecTypeOK, Job, Idle
<1>4. HeldExactly'
  BY <1>1, <1>2 DEF IInv, HeldExactly, Held, Only, LockSet, Inputs
<1>5. LocksAscending'
  BY <1>1, <1>2 DEF IInv, LocksAscending, Only, LockSet, Inputs
<1>6. InsideOwn'
  BY <1>1, <1>2 DEF IInv, InsideOwn, AtWork, Only, Inputs
<1>7. WriterAlone'
  BY <1>1, <1>2 DEF IInv, WriterAlone, Only
<1> QED BY <1>3, <1>4, <1>5, <1>6, <1>7 DEF IInv

\* The unique lock is taken when every thread is idle.
LEMMA BeginWriteKeeps ==
  ASSUME IInv, NEW t \in Threads, BeginWrite(t)
  PROVE  IInv'
<1>1. /\ links' = links /\ live' = live /\ owner' = owner
      /\ job[t].phase = "idle" /\ Writing = {} /\ Running = {}
  BY DEF BeginWrite, RegistryFree
<1>2. Only(t, "writing", job[t].act, job[t].todo, job[t].inside)
  BY DEF BeginWrite, IInv, ExecTypeOK, Job, Only
<1>3. \A u \in Threads : job[u].phase = "idle"
  BY <1>1 DEF Writing, Running, IInv, ExecTypeOK, Job
<1>4. ExecTypeOK'
  BY DEF BeginWrite, IInv, ExecTypeOK, Job
<1>5. HeldExactly'
  BY <1>1, <1>2 DEF IInv, HeldExactly, Held, Only, LockSet, Inputs
<1>6. LocksAscending'
  BY <1>1, <1>2 DEF IInv, LocksAscending, Only, LockSet, Inputs
<1>7. InsideOwn'
  BY <1>1, <1>2 DEF IInv, InsideOwn, AtWork, Only, Inputs
<1>8. WriterAlone'
  BY <1>2, <1>3 DEF WriterAlone, Only
<1> QED BY <1>4, <1>5, <1>6, <1>7, <1>8 DEF IInv

\* The registry changes while every other thread is idle, so that no action is
\* locked by bindings that are not there any more.
LEMMA EndWriteKeeps ==
  ASSUME IInv, NEW t \in Threads, EndWrite(t)
  PROVE  IInv'
<1>1. /\ job[t].phase = "writing" /\ owner' = owner /\ job' = [job EXCEPT ![t] = Idle]
      /\ R!Change \/ UNCHANGED <<live, links>>
  BY DEF EndWrite
<1>2. \A u \in Threads : u # t => job[u].phase = "idle"
  BY <1>1 DEF IInv, WriterAlone
<1>3. \A u \in Threads : job'[u].phase = "idle" /\ job'[u].inside = NoAid
  BY <1>1, <1>2 DEF IInv, ExecTypeOK, Idle, InsideOwn
<1>4. links' \in SUBSET R!Link /\ live' \in SUBSET Aids
  <2>1. CASE UNCHANGED <<live, links>>
    BY <2>1 DEF IInv, ExecTypeOK
  <2>2. CASE \E a \in Aids : R!Enter(a)
    BY <2>2 DEF R!Enter, IInv, ExecTypeOK
  <2>3. CASE \E o \in Outputs, i \in Aids : R!Connect(o, i)
    BY <2>3 DEF R!Connect, R!Link, IInv, ExecTypeOK
  <2>4. CASE \E l \in links : R!Disconnect(l)
    BY <2>4 DEF R!Disconnect, IInv, ExecTypeOK
  <2>5. CASE \E D \in SUBSET live : R!Leave(D)
    BY <2>5 DEF R!Leave, IInv, ExecTypeOK
  <2> QED BY <1>1, <2>1, <2>2, <2>3, <2>4, <2>5 DEF R!Change
<1>5. ExecTypeOK'
  BY <1>1, <1>4 DEF IInv, ExecTypeOK, Job, Idle
<1>6. HeldExactly'
  <2>1. \A u \in Threads : Held(u) = {}
    BY <1>1, <1>2 DEF Held
  <2>2. \A u \in Threads : Held(u)' = {}
    BY <1>3 DEF Held
  <2> QED BY <1>1, <2>1, <2>2 DEF IInv, HeldExactly
<1>7. LocksAscending' /\ InsideOwn' /\ WriterAlone'
  BY <1>3 DEF LocksAscending, InsideOwn, WriterAlone, AtWork
<1> QED BY <1>5, <1>6, <1>7 DEF IInv
-----------------------------------------------------------------------------
\* When run starts its threads they are idle and hold nothing.
LEMMA InitHolds == ExecInit => IInv
<1> SUFFICES ASSUME ExecInit PROVE IInv
  OBVIOUS
<1>1. \A t \in Threads : job[t] = Idle /\ job[t].phase = "idle" /\ job[t].inside = NoAid
  BY DEF ExecInit, Idle
<1>2. ExecTypeOK
  BY MaxAidAssumption DEF ExecInit, ExecTypeOK, Job, Idle, Aids
<1>3. HeldExactly
  BY <1>1, NoThreadAssumption DEF ExecInit, HeldExactly, Held
<1>4. LocksAscending /\ InsideOwn /\ WriterAlone
  BY <1>1 DEF LocksAscending, InsideOwn, WriterAlone, AtWork
<1> QED BY <1>2, <1>3, <1>4 DEF IInv

\* Every step of a thread keeps the invariant.
LEMMA NextKeeps == IInv /\ [ExecNext]_execVars => IInv'
<1> SUFFICES ASSUME IInv, [ExecNext]_execVars PROVE IInv'
  OBVIOUS
<1>1. CASE UNCHANGED execVars
  BY <1>1 DEF execVars, IInv, ExecTypeOK, HeldExactly, Held, LocksAscending, InsideOwn,
              WriterAlone, LockSet, Inputs
<1>2. ASSUME NEW t \in Threads, NEW act \in Actions, Begin(t, act) PROVE IInv'
  BY <1>2, BeginKeeps
<1>3. ASSUME NEW t \in Threads, BeginWrite(t) PROVE IInv'
  BY <1>3, BeginWriteKeeps
<1>4. ASSUME NEW t \in Threads, Continue(t) PROVE IInv'
  BY <1>4, LockKeeps, EnterUserCodeKeeps, RunInputKeeps, LeaveUserCodeKeeps, UnlockKeeps,
     FinishKeeps, EndWriteKeeps DEF Continue
<1> QED BY <1>1, <1>2, <1>3, <1>4 DEF ExecNext

\* The invariant holds in every execution of actions and operations of the registry.
THEOREM ExecInvariance == ExecSpec => []IInv
  BY InitHolds, NextKeeps, PTL DEF ExecSpec

\* Threads, mutexes and bindings have their types; in particular no operation of the
\* registry leaves a binding record of an automaton that there cannot be.
THEOREM ExecTypeCorrect == ExecSpec => []ExecTypeOK
<1>1. IInv => ExecTypeOK
  BY DEF IInv
<1> QED BY <1>1, ExecInvariance, PTL

\* No mutex is held and no user code runs while the registry changes, and a thread that
\* unlocks what its bindings say unlocks what it locked, and all of it.
THEOREM LocksAreHeld == ExecSpec => []LocksHeldThroughout
<1>1. ASSUME IInv PROVE RegistryQuiescent
  <2> SUFFICES ASSUME NEW w \in Writing
               PROVE  /\ Cardinality(Writing) = 1
                      /\ \A a \in Aids : owner[a] = NoThread
                      /\ \A t \in Threads : job[t].inside = NoAid
    BY DEF RegistryQuiescent
  <2>1. w \in Threads /\ job[w].phase = "writing"
    BY DEF Writing
  <2>2. \A t \in Threads : t # w => job[t].phase = "idle"
    BY <1>1, <2>1 DEF IInv, WriterAlone
  <2>3. Writing = {w}
    BY <2>1, <2>2 DEF Writing
  <2>4. \A t \in Threads : Held(t) = {}
    BY <2>1, <2>2 DEF Held
  <2>5. \A a \in Aids : owner[a] = NoThread
    BY <1>1, <2>4 DEF IInv, ExecTypeOK, HeldExactly
  <2>6. \A t \in Threads : job[t].inside = NoAid
    BY <1>1, <2>1, <2>2 DEF IInv, InsideOwn
  <2> QED BY <2>3, <2>5, <2>6, FS_Singleton
<1>2. ASSUME IInv PROVE ReleasesWhatItLocked
  BY <1>2 DEF IInv, ExecTypeOK, Job, HeldExactly, Held, ReleasesWhatItLocked
<1>3. IInv => LocksHeldThroughout
  BY <1>1, <1>2 DEF LocksHeldThroughout
<1> QED BY <1>3, ExecInvariance, PTL

\* Of two threads in user code of one automaton, one is the thread of its context and
\* runs an output without an input of a greater aid, which lock_in_order does not lock.
THEOREM GuardedCodeIsExclusive == ExecSpec => []GuardedCodeExclusive
<1>1. ASSUME IInv PROVE GuardedCodeExclusive
  <2> SUFFICES ASSUME NEW t \in Threads, NEW u \in Threads, t # u,
                      job[t].inside = job[u].inside, job[t].inside # NoAid,
                      ~Unguarded(t), ~Unguarded(u)
               PROVE  FALSE
    <3>1. ASSUME NEW x \in Threads, Unguarded(x), job[x].inside # NoAid
          PROVE  x = Home[job[x].inside]
      BY <1>1, <3>1 DEF IInv, InsideOwn, AtWork, Unguarded
    <3> QED BY <3>1 DEF GuardedCodeExclusive
  <2>1. ASSUME NEW x \in {t, u} PROVE job[x].inside \in Held(x) \cap Aids
    <3>1. /\ x \in Threads /\ job[x].phase = "running" /\ job[x].act \in Actions
          /\ job[x].inside \in {job[x].act.aid} \cup Inputs(job[x].act)
      BY <1>1 DEF IInv, InsideOwn, AtWork
    <3>2. /\ Inputs(job[x].act) \subseteq LockSet(job[x].act)
          /\ LockSet(job[x].act) \subseteq Aids
      BY <1>1, <3>1, LocksAreAids DEF IInv, ExecTypeOK
    <3>3. ~Unguarded(x)
      BY <2>1
    <3>4. job[x].inside = job[x].act.aid => job[x].inside \in LockSet(job[x].act)
      <4> SUFFICES ASSUME job[x].inside = job[x].act.aid, job[x].act.member # Alone
                   PROVE  job[x].act.aid \in LockSet(job[x].act)
        BY DEF LockSet
      <4>1. PICK i \in Inputs(job[x].act) : ~(i < job[x].act.aid)
        BY <3>3 DEF Unguarded
      <4>2. i \in Int /\ job[x].act.aid \in Int
        BY <3>1, <3>2 DEF Aids, Actions
      <4>3. job[x].act.aid = i \/ job[x].act.aid < i
        BY <4>1, <4>2
      <4> QED BY <3>2, <4>1, <4>3 DEF LockSet
    <3> QED BY <3>1, <3>2, <3>4 DEF Held
  <2>2. owner[job[t].inside] = t /\ owner[job[t].inside] = u
    BY <1>1, <2>1 DEF IInv, HeldExactly
  <2> QED BY <2>2
<1> QED BY <1>1, ExecInvariance, PTL

\* Threads never wait for each other's mutexes in a circle: in a circle each thread
\* would wait for a greater aid than the one before it.
THEOREM NoCircularWait == ExecSpec => []NoWaitCycle
<1>1. ASSUME IInv PROVE NoWaitCycle
  <2> SUFFICES ASSUME NEW S \in SUBSET Threads, S # {},
                      \A t \in S : \E u \in S : WaitsFor(t, u)
               PROVE  FALSE
    BY DEF NoWaitCycle
  <2> DEFINE W(t) == Least(job[t].todo)
             Distances == {MaxAid - W(t) : t \in S}
  <2>1. ASSUME NEW t \in S
        PROVE  /\ job[t].phase = "locking" /\ W(t) \in job[t].todo /\ W(t) \in Aids
               /\ \E u \in S : W(t) \in LockSet(job[u].act) \ job[u].todo
    <3>1. PICK u \in S, a \in Aids : job[t].phase = "locking" /\ LocksNext(t, a) /\ owner[a] = u
      BY DEF WaitsFor
    <3>2. job[u].phase = "locking"
      BY DEF WaitsFor
    <3>3. a \in Held(u)
      BY <1>1, <3>1 DEF IInv, HeldExactly
    <3> QED BY <3>1, <3>2, <3>3 DEF LocksNext, Held
  <2>2. ASSUME NEW t \in S PROVE \E u \in S : W(t) < W(u)
    <3>1. PICK u \in S : W(t) \in LockSet(job[u].act) \ job[u].todo
      BY <2>1
    <3>2. job[u].phase = "locking" /\ W(u) \in job[u].todo
      BY <2>1
    <3> QED BY <1>1, <3>1, <3>2 DEF IInv, LocksAscending
  <2> HIDE DEF W
  <2>3. Distances \in SUBSET Nat /\ Distances # {}
    BY <2>1, MaxAidAssumption DEF Aids
  <2>4. PICK t \in S : \A u \in S : MaxAid - W(t) <= MaxAid - W(u)
    <3>1. Least(Distances) \in Distances /\ \A d \in Distances : Least(Distances) <= d
      BY <2>3, LeastIsLeast
    <3> QED BY <3>1
  <2>5. PICK u \in S : W(t) < W(u)
    BY <2>2
  <2>6. W(t) \in Int /\ W(u) \in Int /\ MaxAid \in Int
    BY <2>1, MaxAidAssumption DEF Aids
  <2> QED BY <2>4, <2>5, <2>6
<1> QED BY <1>1, ExecInvariance, PTL
=============================================================================
