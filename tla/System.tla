------------------------------- MODULE System ------------------------------
(***************************************************************************)
(* The automata (lib/automaton.cpp), the registry (Model) and the system   *)
(* queue that carries requests and notifications between them              *)
(* (m_sysq of lib/simple_scheduler.cpp, served by one thread).             *)
(*                                                                         *)
(* An automaton asks for children and bindings through helpers, which it   *)
(* keeps in sets: ...Send (to be requested), ...Recv (requested), ...Done  *)
(* (granted).  A call of user code (UserCreate ...) and the execution of a *)
(* runnable by the system thread are the steps; both hold the automaton's  *)
(* lock.  A request leaves the automaton under its lock and is pushed      *)
(* after the unlock, so user calls can come between (inhand).              *)
(*                                                                         *)
(* User calls respect what create, bind, unbind and destroy assert of      *)
(* their argument.  The runnables that only call the bound and unbound     *)
(* hooks of user actions are left out.                                     *)
(***************************************************************************)
EXTENDS Model, Sequences, SequencesExt

CONSTANT MaxQueue  \* bound: no user call when the system queue is longer

ASSUME MaxQueueAssumption == MaxQueue \in Nat
ASSUME RootAssumption == 1 \in Aids /\ Instances # {}

VARIABLES helpers,  \* the ten helper sets of each automaton
          sysq,     \* m_sysq
          inhand,   \* request taken from an automaton and not yet pushed
          aborted   \* the result whose assertion stopped the program, or ""

systemVars == <<helpers, sysq, inhand, aborted>>
allVars == <<modelVars, systemVars>>

Ops == {"sys_create", "sys_bind", "sys_unbind", "sys_destroy",
        "create", "bind", "unbind", "destroy",
        "created", "bound", "unbound", "destroyed"}
BoundResults == {"BIND_KEY_EXISTS", "OUTPUT_AUTOMATON_DNE",
                 "INPUT_AUTOMATON_DNE", "BINDING_EXISTS",
                 "INPUT_ACTION_UNAVAILABLE", "OUTPUT_ACTION_UNAVAILABLE", "BOUND"}
Results == BoundResults \cup
           {"", "CREATE_KEY_EXISTS", "INSTANCE_EXISTS", "AUTOMATON_CREATED",
            "CREATE_KEY_DNE", "AUTOMATON_DESTROYED", "BIND_KEY_DNE", "UNBOUND"}

Runnable == [op : Ops, aid : Aids, key : CreateKeys \cup BindKeys \cup {NoKey},
             result : Results]

HelperSets == [createSend : SUBSET CreateKeys, createRecv : SUBSET CreateKeys,
               createDone : SUBSET CreateKeys, destroySend : SUBSET CreateKeys,
               destroyRecv : SUBSET CreateKeys,
               bindSend : SUBSET BindKeys, bindRecv : SUBSET BindKeys,
               bindDone : SUBSET BindKeys, unbindSend : SUBSET BindKeys,
               unbindRecv : SUBSET BindKeys]

NoHelpers == [createSend |-> {}, createRecv |-> {}, createDone |-> {},
              destroySend |-> {}, destroyRecv |-> {},
              bindSend |-> {}, bindRecv |-> {}, bindDone |-> {},
              unbindSend |-> {}, unbindRecv |-> {}]

NoRequest == [op |-> "", aid |-> NoAid, key |-> NoKey, result |-> ""]

Sys(op, a) == [op |-> op, aid |-> a, key |-> NoKey, result |-> ""]
Request(op, a, k) == [op |-> op, aid |-> a, key |-> k, result |-> ""]
EventSwapped(op, a, r, k) == [op |-> op, aid |-> a, key |-> r, result |-> k]  \* mutant
Event(op, a, r, k) == [op |-> op, aid |-> a, key |-> k, result |-> r]

(* schedule_sysq, called for each of rs in turn *)
PushAllFront(q, rs) == rs \o q  \* mutant: a stack
PushAll(q, rs) == q \o rs
Push(q, r) == PushAll(q, <<r>>)
-----------------------------------------------------------------------------
(* The preconditions of the four system outputs, and automaton::schedule,  *)
(* which pushes one runnable for each that holds.                          *)
SysCreatePre(s) == s.createSend # {}
SysBindPre(s) == s.bindSend # {}
SysUnbindPre(s) == s.unbindSend \cap s.bindDone # {}
SysDestroyPre(s) == s.destroySend \cap s.createDone # {}

If(b, r) == IF b THEN <<r>> ELSE <<>>

(* Mutants: sys_bind, sys_unbind forgotten. *)
ScheduleNoBind(a, s) ==
  If(SysCreatePre(s), Sys("sys_create", a))
  \o If(SysUnbindPre(s), Sys("sys_unbind", a))
  \o If(SysDestroyPre(s), Sys("sys_destroy", a))
ScheduleNoUnbind(a, s) ==
  If(SysCreatePre(s), Sys("sys_create", a)) \o If(SysBindPre(s), Sys("sys_bind", a))
  \o If(SysDestroyPre(s), Sys("sys_destroy", a))
Schedule(a, s) ==
  If(SysCreatePre(s), Sys("sys_create", a)) \o If(SysBindPre(s), Sys("sys_bind", a))
  \o If(SysUnbindPre(s), Sys("sys_unbind", a))
  \o If(SysDestroyPre(s), Sys("sys_destroy", a))

(* A request by automaton a: its helper sets become s. *)
UserCall(a, s) ==
  /\ a \in Live /\ aborted = ""
  /\ Len(sysq) < MaxQueue
  /\ helpers' = [helpers EXCEPT ![a] = s]
  /\ sysq' = PushAll(sysq, Schedule(a, s))
  /\ UNCHANGED <<modelVars, inhand, aborted>>

CreatePlaces(s) == <<s.createSend, s.createRecv, s.createDone, s.destroySend, s.destroyRecv>>
BindPlaces(s) == <<s.bindSend, s.bindRecv, s.bindDone, s.unbindSend, s.unbindRecv>>

UserCreate(a, h) ==
  LET s == helpers[a]
  IN /\ h \notin UNION Range(CreatePlaces(s))
     /\ UserCall(a, [s EXCEPT !.createSend = @ \cup {h}])

UserBind(a, h) ==
  LET s == helpers[a]
  IN /\ h \notin UNION Range(BindPlaces(s))
     /\ UserCall(a, [s EXCEPT !.bindSend = @ \cup {h}])

(* A request that was not sent yet is withdrawn; otherwise the opposite    *)
(* request waits until the first one has been granted.                     *)
UserDestroy(a, h) ==
  LET s == helpers[a]
  IN /\ h \notin s.destroySend \cup s.destroyRecv
     /\ \/ /\ h \in s.createSend
           /\ UserCall(a, [s EXCEPT !.createSend = @ \ {h}])
        \/ /\ h \in s.createRecv \cup s.createDone
           /\ UserCall(a, [s EXCEPT !.destroySend = @ \cup {h}])

UserUnbind(a, h) ==
  LET s == helpers[a]
  IN /\ h \notin s.unbindSend \cup s.unbindRecv
     /\ \/ /\ h \in s.bindSend
           /\ UserCall(a, [s EXCEPT !.bindSend = @ \ {h}])
        \/ /\ h \in s.bindRecv \cup s.bindDone
           /\ UserCall(a, [s EXCEPT !.unbindSend = @ \cup {h}])
-----------------------------------------------------------------------------
(* Runnables for an automaton that is gone do nothing. *)
Skip ==
  /\ sysq' = Tail(sysq)
  /\ UNCHANGED <<modelVars, helpers, inhand, aborted>>

(* A system output: the automaton moves the helper h, schedules, and hands *)
(* out a request.                                                          *)
Output(a, s, request) ==
  /\ helpers' = [helpers EXCEPT ![a] = s]
  /\ sysq' = PushAll(Tail(sysq), Schedule(a, s))
  /\ inhand' = request
  /\ UNCHANGED <<modelVars, aborted>>

ExecuteSysCreate(a) ==
  LET s == helpers[a]
  IN IF a \in aids /\ SysCreatePre(s)
     THEN \E h \in s.createSend :
            Output(a, [s EXCEPT !.createSend = @ \ {h}, !.createRecv = @ \cup {h}],
                   Request("create", a, h))
     ELSE Skip

ExecuteSysBind(a) ==
  LET s == helpers[a]
  IN IF a \in aids /\ SysBindPre(s)
     THEN \E h \in s.bindSend :
            Output(a, [s EXCEPT !.bindSend = @ \ {h}, !.bindRecv = @ \cup {h}],
                   Request("bind", a, h))
     ELSE Skip

ExecuteSysUnbind(a) ==
  LET s == helpers[a]
  IN IF a \in aids /\ SysUnbindPre(s)
     THEN \E h \in s.unbindSend \cap s.bindDone :
            Output(a, [s EXCEPT !.unbindSend = @ \ {h}, !.unbindRecv = @ \cup {h}],
                   Request("unbind", a, h))
     ELSE Skip

ExecuteSysDestroy(a) ==
  LET s == helpers[a]
  IN IF a \in aids /\ SysDestroyPre(s)
     THEN \E h \in s.destroySend \cap s.createDone :
            Output(a, [s EXCEPT !.destroySend = @ \ {h}, !.destroyRecv = @ \cup {h}],
                   Request("destroy", a, h))
     ELSE Skip

(* schedule_sysq of the request, after the automaton was unlocked. *)
PushRequest ==
  /\ inhand # NoRequest
  /\ sysq' = Push(sysq, inhand)
  /\ inhand' = NoRequest
  /\ UNCHANGED <<modelVars, helpers, aborted>>
-----------------------------------------------------------------------------
(* The requests run an operation of the registry, which posts notifications.*)
Post(posts) ==
  /\ sysq' = PushAll(Tail(sysq), posts)
  /\ UNCHANGED <<inhand, aborted>>

Refused(posts) == Post(posts) /\ UNCHANGED <<modelVars, helpers>>

(* The allocator returns the address of a live automaton or a new one.     *)
Addresses ==
  instances \cup (IF Instances = instances THEN {}
                  ELSE {CHOOSE i \in Instances : i \notin instances})

(* Bound: MaxAid aids are taken in one behavior, so that none recurs (the  *)
(* code has 2^31 or 2^63); from then on allocators return live addresses.  *)
RunCreate(a, k) ==
  \/ a \notin aids /\ Skip
  \/ /\ a \in aids
     /\ CreateKeyExists(a, k) \/ counter = MaxAid
     /\ Refused(<<Event("created", a,
                        IF CreateKeyExists(a, k) THEN "CREATE_KEY_EXISTS"
                        ELSE "INSTANCE_EXISTS", k)>>)
  \/ /\ counter < MaxAid
     /\ \E i \in Addresses :
          /\ Create(a, k, i)
          /\ Post(<<Event("created", a,
                          IF i \in instances THEN "INSTANCE_EXISTS"
                          ELSE "AUTOMATON_CREATED", k)>>)
     /\ UNCHANGED helpers

RunBind(a, k) ==
  \/ a \notin aids /\ Skip
  \/ /\ a \in aids
     /\ \E o \in Aids, m \in Outputs, i \in Aids, n \in Inputs :
          LET r == BindResult(a, k, Act(o, m, i), Act(i, n, o))
          IN \/ /\ r = "BOUND"
                /\ Bind(a, k, Act(o, m, i), Act(i, n, o))
                /\ Post(<<Event("bound", a, "BOUND", k)>>)
                /\ UNCHANGED helpers
             \/ r # "BOUND" /\ Refused(<<Event("bound", a, r, k)>>)

RunUnbind(a, k) ==
  \/ a \notin aids /\ Skip
  \/ /\ a \in aids /\ BindingsOf(a, k) = {}
     /\ Refused(<<Event("unbound", a, "BIND_KEY_DNE", k)>>)
  \/ /\ Unbind(a, k)
     /\ Post(<<Event("unbound", a, "UNBOUND", k)>>)
     /\ UNCHANGED helpers

(* inner_destroy destroys a subtree children first, siblings in the order  *)
(* of their keys (addresses): each automaton comes right after the         *)
(* automata below it.                                                      *)
DestroyOrders(t) ==
  {s \in SetToSeqs(Subtree(t)) :
     \A j \in DOMAIN s : \A d \in Subtree(s[j]) :
       \E i \in DOMAIN s : s[i] = d /\ i <= j /\ j - i < Cardinality(Subtree(s[j]))}

UnboundEventsOfOutputs(a, D) ==  \* mutant: inputs forgotten
  {Event("unbound", b.binder, "UNBOUND", b.key) :
     b \in {c \in Dissolved({a}) \ Dissolved(D) : c.output.aid = a}}
UnboundEvents(a, D) ==
  {Event("unbound", b.binder, "UNBOUND", b.key) : b \in Dissolved({a}) \ Dissolved(D)}

DestroyedEvent(a) ==
  If(records[a].parent # NoAid,
     Event("destroyed", records[a].parent, "AUTOMATON_DESTROYED", records[a].key))

(* What the destruction of the automata s, in this order, may post: for    *)
(* each the bindings it still had, in any order, then the notification of  *)
(* its parent.                                                             *)
DestroyPosts(s) ==
  LET unbound == [j \in DOMAIN s |-> UnboundEvents(s[j], {s[i] : i \in 1..(j - 1)})]
      posts == [j \in DOMAIN s |-> unbound[j] \cup Range(DestroyedEvent(s[j]))]
  IN {p \in SetToSeqs(UNION Range(posts)) :
        \A i, k \in DOMAIN p : i < k =>
          \A m, n \in DOMAIN s : p[i] \in posts[m] /\ p[k] \in posts[n] =>
            m < n \/ (m = n /\ p[i] \in unbound[m])}

RunDestroy(a, k) ==
  \/ a \notin aids /\ Skip
  \/ /\ a \in aids /\ ~CreateKeyExists(a, k)
     /\ Refused(<<Event("destroyed", a, "CREATE_KEY_DNE", k)>>)
  \/ /\ Destroy(a, k)
     /\ \E s \in DestroyOrders(records[a].children[k]) :
          \E posts \in DestroyPosts(s) : Post(posts)
     /\ helpers' = [x \in Aids |-> IF x \in Live' THEN helpers[x] ELSE NoHelpers]
-----------------------------------------------------------------------------
(* The notifications: the asserts of sys_..._effect, and the effects.      *)
CreatedOK(s, e) == e.result # "CREATE_KEY_EXISTS" /\ e.key \in s.createRecv
BoundOK(s, e) == e.result # "BIND_KEY_EXISTS" /\ e.key \in s.bindRecv
UnboundOK(s, e) ==
  e.result # "BIND_KEY_DNE" /\ (e.key \in s.bindRecv) # (e.key \in s.bindDone)
DestroyedOK(s, e) ==
  e.result # "CREATE_KEY_DNE" /\ (e.key \in s.createRecv) # (e.key \in s.createDone)

CreatedEffect(s, e) ==
  IF e.result = "AUTOMATON_CREATED"
  THEN [s EXCEPT !.createRecv = @ \ {e.key}, !.createDone = @ \cup {e.key}]
  ELSE [s EXCEPT !.createRecv = @ \ {e.key}, !.destroySend = @ \ {e.key}]

BoundEffectKeeps(s, e) ==  \* mutant: a failed bind is not erased
  IF e.result = "BOUND"
  THEN [s EXCEPT !.bindRecv = @ \ {e.key}, !.bindDone = @ \cup {e.key}]
  ELSE [s EXCEPT !.unbindSend = @ \ {e.key}]
BoundEffect(s, e) ==
  IF e.result = "BOUND"
  THEN [s EXCEPT !.bindRecv = @ \ {e.key}, !.bindDone = @ \cup {e.key}]
  ELSE [s EXCEPT !.bindRecv = @ \ {e.key}, !.unbindSend = @ \ {e.key}]

(* The second of each pair of sets is searched when the first has not the  *)
(* helper.                                                                 *)
WithoutFirst(first, second, h) == IF h \in first THEN second ELSE second \ {h}

UnboundEffect(s, e) ==
  [s EXCEPT !.bindRecv = @ \ {e.key},
            !.bindDone = WithoutFirst(s.bindRecv, @, e.key),
            !.unbindSend = @ \ {e.key},
            !.unbindRecv = WithoutFirst(s.unbindSend, @, e.key)]

DestroyedEffectKeeps(s, e) ==  \* mutant: m_create_done is not erased
  [s EXCEPT !.createRecv = @ \ {e.key},
            !.destroySend = @ \ {e.key},
            !.destroyRecv = WithoutFirst(s.destroySend, @, e.key)]
DestroyedEffect(s, e) ==
  [s EXCEPT !.createRecv = @ \ {e.key},
            !.createDone = WithoutFirst(s.createRecv, @, e.key),
            !.destroySend = @ \ {e.key},
            !.destroyRecv = WithoutFirst(s.destroySend, @, e.key)]

Notify(e, ok, s) ==
  \/ e.aid \notin aids /\ Skip
  \/ /\ e.aid \in aids /\ ok
     /\ helpers' = [helpers EXCEPT ![e.aid] = s]
     /\ sysq' = PushAll(Tail(sysq), Schedule(e.aid, s))
     /\ UNCHANGED <<modelVars, inhand, aborted>>
  \/ /\ e.aid \in aids /\ ~ok
     /\ aborted' = e.result
     /\ UNCHANGED <<modelVars, helpers, sysq, inhand>>

(* process_sysq executes the runnable at the head of the queue. *)
RunHead(op) ==
  /\ aborted = "" /\ inhand = NoRequest
  /\ sysq # <<>> /\ Head(sysq).op = op
  /\ LET e == Head(sysq)
         a == e.aid
         s == helpers[a]
     IN CASE op = "sys_create" -> ExecuteSysCreate(a)
          [] op = "sys_bind" -> ExecuteSysBind(a)
          [] op = "sys_unbind" -> ExecuteSysUnbind(a)
          [] op = "sys_destroy" -> ExecuteSysDestroy(a)
          [] op = "create" -> RunCreate(a, e.key)
          [] op = "bind" -> RunBind(a, e.key)
          [] op = "unbind" -> RunUnbind(a, e.key)
          [] op = "destroy" -> RunDestroy(a, e.key)
          [] op = "created" -> Notify(e, CreatedOK(s, e), CreatedEffect(s, e))
          [] op = "bound" -> Notify(e, BoundOK(s, e), BoundEffect(s, e))
          [] op = "unbound" -> Notify(e, UnboundOK(s, e), UnboundEffect(s, e))
          [] op = "destroyed" -> Notify(e, DestroyedOK(s, e), DestroyedEffect(s, e))

SysThread == PushRequest \/ \E op \in Ops : RunHead(op)

(* An assertion failed: the program is gone. *)
Stopped == aborted # "" /\ UNCHANGED allVars

(* run creates the root before it starts the threads. *)
SysInit ==
  /\ counter = 1
  /\ aids = {1}
  /\ LET i == CHOOSE x \in Instances : TRUE
     IN /\ instances = {i}
        /\ records = [a \in {1} |-> NewRecord(i, NoAid, NoKey)]
  /\ executors = {} /\ bindings = {}
  /\ helpers = [a \in Aids |-> NoHelpers]
  /\ sysq = <<>>
  /\ inhand = NoRequest
  /\ aborted = ""

SysNext ==
  \/ \E a \in Aids, h \in CreateKeys : UserCreate(a, h) \/ UserDestroy(a, h)
  \/ \E a \in Aids, h \in BindKeys : UserBind(a, h) \/ UserUnbind(a, h)
  \/ SysThread
  \/ Stopped

(* The system thread runs whenever its queue is not empty. *)
SysSpec == SysInit /\ [][SysNext]_allVars
FairSysSpec == SysSpec /\ WF_allVars(SysThread)
-----------------------------------------------------------------------------
SysTypeOK ==
  /\ TypeOK
  /\ helpers \in [Aids -> HelperSets]
  /\ sysq \in Seq(Runnable)
  /\ inhand \in Runnable \cup {NoRequest}
  /\ aborted \in Results

(* "We prevent this in create", "... in bind", "... in destroy", and the   *)
(* sanity checks of the notification effects: whatever the interleaving of *)
(* requests, destructions and notifications, no assertion fails but the    *)
(* one of UnbindPreventsKeyDNE below.                                      *)
SanityChecksHold == aborted \in {"", "BIND_KEY_DNE"}

(* sys_unbound_effect, on BIND_KEY_DNE_RESULT: "We prevent this in unbind."*)
UnbindPreventsKeyDNE == aborted # "BIND_KEY_DNE"

(* The queue with the request that is on its way to it. *)
Underway == sysq \o If(inhand # NoRequest, inhand)

InFlight(a, k, ops) ==
  LET q == Underway
  IN Cardinality({i \in DOMAIN q : q[i].aid = a /\ q[i].key = k /\ q[i].op \in ops})

(* Exactly one answer for each request: a helper waits for an answer       *)
(* exactly while its request or the answer is on the way, and never are    *)
(* two on the way for one helper.                                          *)
OneAnswerPerRequest ==
  aborted = "" =>
    \A a \in Live :
      /\ \A h \in CreateKeys :
           InFlight(a, h, {"create", "created"})
             = IF h \in helpers[a].createRecv THEN 1 ELSE 0
      /\ \A h \in BindKeys :
           InFlight(a, h, {"bind", "bound"})
             = IF h \in helpers[a].bindRecv THEN 1 ELSE 0

LastNews(a, k, results) ==
  LET N == {i \in DOMAIN sysq :
              sysq[i].aid = a /\ sysq[i].key = k /\ sysq[i].result \in results}
  IN IF N = {} THEN "" ELSE sysq[Max(N)].result

(* What an automaton believes once it has seen all notifications under way *)
(* to it is what the registry holds, for its children and its bindings.    *)
ViewsAgree ==
  aborted = "" =>
    \A a \in Live :
      /\ \A h \in CreateKeys :
           LET n == LastNews(a, h, {"AUTOMATON_CREATED", "AUTOMATON_DESTROYED"})
           IN CreateKeyExists(a, h) <=>
                \/ n = "AUTOMATON_CREATED"
                \/ n = "" /\ h \in helpers[a].createDone
      /\ \A h \in BindKeys :
           LET n == LastNews(a, h, {"BOUND", "UNBOUND"})
           IN BindKeyExists(a, h) <=>
                \/ n = "BOUND"
                \/ n = "" /\ h \in helpers[a].bindDone

(* The helpers are reused, and a request can be in the queue while what it *)
(* refers to disappears.  Still a binding is undone, and a child destroyed,*)
(* only for a helper that is waiting for just that: a late request never   *)
(* hits a later binding or child of the same helper.                       *)
Wanted ==
  /\ \A b \in bindings \ bindings' :
       {b.output.aid, b.input.aid, b.binder} \subseteq DOMAIN records' =>
         b.key \in helpers[b.binder].unbindRecv \cap helpers[b.binder].bindDone
  /\ \A a \in Live \cap DOMAIN records', k \in CreateKeys :
       records[a].children[k] # NoAid /\ records'[a].children[k] = NoAid =>
         k \in helpers[a].destroyRecv \cap helpers[a].createDone

NoLateRequestHits == [][Wanted]_allVars

(* ~automaton signals the helpers of each set in turn.  A helper deletes   *)
(* itself on the signal, so it must be in one set only: "a helper is in    *)
(* one place or another" (automaton.hpp).                                  *)
Signals(places, h) == Cardinality({p \in DOMAIN places : h \in places[p]})

SignalsOnce ==
  \A a \in Live \ DOMAIN records' :
    /\ \A h \in CreateKeys : Signals(CreatePlaces(helpers[a]), h) <= 1
    /\ \A h \in BindKeys : Signals(BindPlaces(helpers[a]), h) <= 1

DestructorSignalsOnce == [][SignalsOnce]_allVars

Gone(a) == a \notin Live \/ aborted # ""

(* Every request of an automaton is answered, and what it gives back is    *)
(* eventually given back: an unbind or destroy that has to wait until the  *)
(* bind or create is granted is not forgotten.                             *)
EventuallyAnswered ==
  /\ \A a \in Aids, h \in CreateKeys :
       h \in helpers[a].createSend \cup helpers[a].createRecv
         ~> Gone(a) \/ h \notin helpers[a].createSend \cup helpers[a].createRecv
  /\ \A a \in Aids, h \in BindKeys :
       h \in helpers[a].bindSend \cup helpers[a].bindRecv
         ~> Gone(a) \/ h \notin helpers[a].bindSend \cup helpers[a].bindRecv

EventuallyReleased ==
  /\ \A a \in Aids, h \in CreateKeys :
       h \in helpers[a].destroySend \cup helpers[a].destroyRecv
         ~> Gone(a) \/ h \notin helpers[a].destroySend \cup helpers[a].destroyRecv
  /\ \A a \in Aids, h \in BindKeys :
       h \in helpers[a].unbindSend \cup helpers[a].unbindRecv
         ~> Gone(a) \/ h \notin helpers[a].unbindSend \cup helpers[a].unbindRecv
============================================================================
