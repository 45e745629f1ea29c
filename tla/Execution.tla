----------------------------- MODULE Execution -----------------------------
(***************************************************************************)
(* The execution of actions by several threads: model::execute... in       *)
(* lib/model.cpp under the shared lock of m_mutex, and the locking of      *)
(* automata by the executors in include/ioa/action_executor.hpp.           *)
(*                                                                         *)
(* A thread takes the shared lock, the mutexes of the automata of its      *)
(* action in the order of their aids, runs the user code of one automaton  *)
(* after the other, and releases everything.  The thread that serves the   *)
(* system queue also changes the registry, under the unique lock; what it  *)
(* can change is said by Registry.                                         *)
(***************************************************************************)
EXTENDS Integers, FiniteSets

CONSTANTS MaxAid,   \* the largest aid
          Members,  \* output members of an automaton
          Threads,  \* the threads of the scheduler
          Writers,  \* those that serve the system queue
          Home,     \* the thread of the context of an automaton, aid % THREAD_COUNT
          NoThread, \* owner of a free mutex
          Alone     \* an action of one automaton: internal, system, bound ...

ASSUME MaxAidAssumption == MaxAid \in Nat
ASSUME WritersAssumption == Writers \subseteq Threads
ASSUME HomeAssumption == Home \in [0..MaxAid -> Threads \ Writers]
ASSUME NoThreadAssumption == NoThread \notin Threads
ASSUME AloneAssumption == Alone \notin Members

VARIABLES live,   \* m_records, as far as executions see it
          links,  \* the binding records of the executors in m_bindings
          owner,  \* the thread that holds the mutex of an automaton
          job     \* what each thread is doing

execVars == <<live, links, owner, job>>

Aids == 0..MaxAid
NoAid == -1
Outputs == [aid : Aids, member : Members]
Actions == [aid : Aids, member : Members \cup {Alone}]

R == INSTANCE Registry WITH Ids <- Aids, Drivers <- Outputs

NoAction == [aid |-> NoAid, member |-> Alone]

(* todo: the automata still to be locked, run or unlocked, in this order.  *)
(* inside: the automaton whose code the thread is running.                 *)
Job == [phase : {"idle", "locking", "running", "unlocking", "writing"},
        act : Actions \cup {NoAction}, todo : SUBSET Aids,
        inside : Aids \cup {NoAid}]

Idle == [phase |-> "idle", act |-> NoAction, todo |-> {}, inside |-> NoAid]

Running == {t \in Threads : job[t].phase \in {"locking", "running", "unlocking"}}
Writing == {t \in Threads : job[t].phase = "writing"}
-----------------------------------------------------------------------------
Least(S) == CHOOSE a \in S : \A b \in S : a <= b

Inputs(act) == {l.input : l \in {k \in links : k.output = act}}

(* lock_in_order locks the output automaton just before the first input    *)
(* automaton with a greater aid, so not at all if there is none.           *)
LockSetInputsAbove(act) ==  \* mutant: no input below the output
  IF act.member = Alone THEN {act.aid}
  ELSE {a \in Inputs(act) \cup {act.aid} : \E i \in Inputs(act) : act.aid < i /\ act.aid <= a}
LockSet(act) ==
  IF act.member = Alone THEN {act.aid}
  ELSE Inputs(act) \cup {a \in {act.aid} : \E i \in Inputs(act) : a < i}

(* unlock_in_order goes through the same loop. *)
UnlockSetNoAid(act) ==  \* mutant: the handle was reset
  IF act.member = Alone THEN {NoAid} ELSE Inputs(act)
UnlockSet(act) ==
  IF act.member = Alone THEN {act.aid}
  ELSE Inputs(act) \cup {a \in {act.aid} : \E i \in Inputs(act) : a < i}

(* The automaton that a thread locks next. *)
LocksAny(t, a) == a \in job[t].todo  \* mutant: in any order
LocksNext(t, a) == a \in job[t].todo /\ a = Least(job[t].todo)
-----------------------------------------------------------------------------
(* The shared lock; an action of an automaton that is gone does nothing.   *)
(* schedule_execq puts the actions of an automaton in the queue of one     *)
(* context; the system queue has system actions and hooks, of any          *)
(* automaton, and no output actions of users.                              *)
Begin(t, act) ==
  /\ job[t].phase = "idle"
  /\ Writing = {}
  /\ act.aid \in live
  /\ t = Home[act.aid] \/ (t \in Writers /\ act.member = Alone)
  /\ job' = [job EXCEPT ![t] = [Idle EXCEPT !.phase = "locking", !.act = act,
                                            !.todo = LockSet(act)]]
  /\ UNCHANGED <<live, links, owner>>

Lock(t) ==
  /\ job[t].phase = "locking"
  /\ \E a \in Aids :
       /\ LocksNext(t, a)
       /\ owner[a] = NoThread
       /\ owner' = [owner EXCEPT ![a] = t]
       /\ job' = [job EXCEPT ![t].todo = @ \ {a}]
  /\ UNCHANGED <<live, links>>

(* All locks are taken: the precondition is evaluated, in user code.       *)
EnterUserCode(t) ==
  /\ job[t].phase = "locking" /\ job[t].todo = {}
  /\ job' = [job EXCEPT ![t].phase = "running", ![t].inside = job[t].act.aid,
                        ![t].todo = Inputs(job[t].act)]
  /\ UNCHANGED <<live, links, owner>>

(* The effect of the next input automaton. *)
RunInputAgain(t) ==  \* mutant: the loop does not advance
  /\ job[t].phase = "running" /\ job[t].todo # {}
  /\ job' = [job EXCEPT ![t].inside = Least(job[t].todo)]
  /\ UNCHANGED <<live, links, owner>>
RunInput(t) ==
  /\ job[t].phase = "running" /\ job[t].todo # {}
  /\ LET a == Least(job[t].todo)
     IN job' = [job EXCEPT ![t].inside = a, ![t].todo = @ \ {a}]
  /\ UNCHANGED <<live, links, owner>>

(* After the last input, or at once when the precondition was false. *)
LeaveUserCode(t) ==
  /\ job[t].phase = "running"
  /\ job[t].todo = {} \/ job[t].inside = job[t].act.aid
  /\ job' = [job EXCEPT ![t].phase = "unlocking", ![t].inside = NoAid,
                        ![t].todo = UnlockSet(job[t].act)]
  /\ UNCHANGED <<live, links, owner>>

Unlock(t) ==
  /\ job[t].phase = "unlocking" /\ job[t].todo # {}
  /\ LET a == Least(job[t].todo)
     IN /\ owner' = [owner EXCEPT ![a] = NoThread]
        /\ job' = [job EXCEPT ![t].todo = @ \ {a}]
  /\ UNCHANGED <<live, links>>

(* The shared lock is released. *)
Finish(t) ==
  /\ job[t].phase = "unlocking" /\ job[t].todo = {}
  /\ job' = [job EXCEPT ![t] = Idle]
  /\ UNCHANGED <<live, links, owner>>

(* The unique lock. *)
NoReaderNeeded == Writing = {}  \* mutant: without waiting for the readers
RegistryFree == Writing = {} /\ Running = {}

BeginWrite(t) ==
  /\ t \in Writers
  /\ job[t].phase = "idle"
  /\ RegistryFree
  /\ job' = [job EXCEPT ![t].phase = "writing"]
  /\ UNCHANGED <<live, links, owner>>

(* An operation of the registry, which can be refused; then the release.   *)
EndWrite(t) ==
  /\ job[t].phase = "writing"
  /\ R!Change \/ UNCHANGED <<live, links>>
  /\ job' = [job EXCEPT ![t] = Idle]
  /\ UNCHANGED owner
-----------------------------------------------------------------------------
(* run creates the root before the threads start. *)
ExecInit ==
  /\ live = {0}
  /\ links = {}
  /\ owner = [a \in Aids |-> NoThread]
  /\ job = [t \in Threads |-> Idle]

(* The steps of a thread once it has started something. *)
Continue(t) ==
  \/ Lock(t) \/ EnterUserCode(t) \/ RunInput(t) \/ LeaveUserCode(t)
  \/ Unlock(t) \/ Finish(t) \/ EndWrite(t)

ExecNext ==
  \E t \in Threads :
    \/ \E act \in Actions : Begin(t, act)
    \/ BeginWrite(t)
    \/ Continue(t)

(* A thread that can go on is eventually run; a mutex is not promised to   *)
(* any one thread of those that wait for it.                               *)
ExecSpec == ExecInit /\ [][ExecNext]_execVars
FairExecSpec == ExecSpec /\ \A t \in Threads : WF_execVars(Continue(t))
-----------------------------------------------------------------------------
ExecTypeOK ==
  /\ live \in SUBSET Aids
  /\ links \in SUBSET R!Link
  /\ owner \in [Aids -> Threads \cup {NoThread}]
  /\ job \in [Threads -> Job]

(* "locks are acquired in a fixed order to prevent deadlock"               *)
(* (papers/paper1/design.tex): threads never wait for each other's         *)
(* automata in a circle, whatever is bound to what.                        *)
WaitsFor(t, u) == \E a \in Aids : job[t].phase = "locking" /\ LocksNext(t, a) /\ owner[a] = u

NoWaitCycle ==
  \A S \in SUBSET Threads :
    S # {} => \E t \in S : \A u \in S : ~WaitsFor(t, u)

(* While the registry changes, which may delete automata and the mutexes   *)
(* in their records, no mutex is held and no user code runs.               *)
RegistryQuiescent ==
  Writing # {} =>
    /\ Cardinality(Writing) = 1
    /\ \A a \in Aids : owner[a] = NoThread
    /\ \A t \in Threads : job[t].inside = NoAid

(* The bindings an executor reads when it unlocks are those it read when   *)
(* it locked: a thread holds only mutexes of its action that it has yet to *)
(* release, and all those it takes on releasing are its own.               *)
ReleasesWhatItLocked ==
  /\ \A a \in Aids : owner[a] # NoThread =>
       /\ job[owner[a]].phase \in {"locking", "running", "unlocking"}
       /\ job[owner[a]].phase = "unlocking" => a \in job[owner[a]].todo
  /\ \A t \in Threads : job[t].phase = "unlocking" =>
       \A a \in job[t].todo : owner[a] = t

(* Locks are held as long as what they protect is in use. *)
LocksHeldThroughout == RegistryQuiescent /\ ReleasesWhatItLocked

(* The output of an action that lock_in_order does not lock. *)
Unguarded(t) ==
  /\ job[t].act.member # Alone
  /\ job[t].inside = job[t].act.aid
  /\ \A i \in Inputs(job[t].act) : i < job[t].act.aid

(* Of two threads in code of one automaton, one is the thread of its       *)
(* context and runs an output of it that is not locked; the other is there *)
(* as an input, or as the system thread.  So three never are.  Inputs,     *)
(* internal and system actions, and outputs with an input of a greater     *)
(* aid, exclude each other.                                                *)
GuardedCodeExclusive ==
  \A t, u \in Threads :
    t # u /\ job[t].inside = job[u].inside /\ job[t].inside # NoAid =>
      \E v \in {t, u} : v = Home[job[t].inside] /\ Unguarded(v)

(* "Once the locks are acquired, the precondition is evaluated ..."        *)
(* (papers/paper1/design.tex): an automaton runs in one thread at a time.  *)
OneThreadPerAutomaton ==
  \A t, u \in Threads :
    t # u /\ job[t].inside = job[u].inside => job[t].inside = NoAid

(* As long as threads are at work, actions (or changes of the registry)    *)
(* are finished.                                                           *)
SomeoneFinishes == \E t \in Threads : Finish(t) \/ EndWrite(t)

Progress == []<>(\A t \in Threads : job[t].phase = "idle")
            \/ []<><<SomeoneFinishes>>_execVars
=============================================================================
