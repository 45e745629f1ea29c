---------------------------- MODULE SystemProofs ----------------------------
(***************************************************************************)
(* The automata and the registry agree, for any number of automata, of     *)
(* helpers and of requests under way, whatever is destroyed meanwhile:     *)
(* each request has one answer, an automaton's view becomes that of the    *)
(* registry, no late request hits a later child or binding, and of the     *)
(* assertions of lib/automaton.cpp only one can fail.                      *)
(*                                                                         *)
(* The argument.  For one helper of one automaton only few things can be   *)
(* under way at a time.  ChildHelper and BindHelper list them, with the    *)
(* order in which they are in the queue where that matters, the sets the   *)
(* helper is in and what the registry has.  A step takes the head of the   *)
(* queue and appends; StepMoves says what that does to what is under way   *)
(* and to its order, and nothing else is said of positions in the queue.   *)
(***************************************************************************)
EXTENDS System, ModelProofs, SequenceTheorems, FiniteSetTheorems

SysOps == {"sys_create", "sys_bind", "sys_unbind", "sys_destroy"}

\* What can be under way: the system outputs to be executed, requests and answers.
\* Of the results that a request can have, those are missing that do not occur.
SysItems == [op : SysOps, aid : Aids, key : {NoKey}, result : {""}]
Items ==
  [op : {"create", "destroy"}, aid : Aids, key : CreateKeys, result : {""}]
  \cup [op : {"bind", "unbind"}, aid : Aids, key : BindKeys, result : {""}]
  \cup [op : {"created"}, aid : Aids, key : CreateKeys,
        result : {"AUTOMATON_CREATED", "INSTANCE_EXISTS"}]
  \cup [op : {"destroyed"}, aid : Aids, key : CreateKeys, result : {"AUTOMATON_DESTROYED"}]
  \cup [op : {"bound"}, aid : Aids, key : BindKeys, result : BoundResults \ {"BIND_KEY_EXISTS"}]
  \cup [op : {"unbound"}, aid : Aids, key : BindKeys, result : {"UNBOUND", "BIND_KEY_DNE"}]

On(q, x) == \E i \in DOMAIN q : q[i] = x
InOrder(q, x, y) == \E i, j \in DOMAIN q : i < j /\ q[i] = x /\ q[j] = y

In(x) == On(Underway, x)
Before(x, y) == InOrder(Underway, x, y)

\* The queue, and the request that is on its way to it.
QueueTypes ==
  /\ sysq \in Seq(SysItems \cup Items)
  /\ inhand \in Items \cup {NoRequest}

\* Nothing that concerns a live automaton is under way twice.
Once == \A x \in Items : x.aid \in Live => ~Before(x, x)

\* What is under way concerns automata that were created; aids do not recur.
AidsPassed ==
  /\ \A x \in SysItems \cup Items : In(x) => x.aid <= counter
  /\ \A a \in Live : a <= counter

OnlyLiveHelp == \A a \in Aids \ Live : helpers[a] = NoHelpers

ChildHelper(a, k) ==
  LET s == helpers[a]
      create == Request("create", a, k)
      created == Event("created", a, "AUTOMATON_CREATED", k)
      failed == Event("created", a, "INSTANCE_EXISTS", k)
      destroy == Request("destroy", a, k)
      destroyed == Event("destroyed", a, "AUTOMATON_DESTROYED", k)
      exists == CreateKeyExists(a, k)
  IN \/ \* nothing was requested, or all is done
        /\ k \notin s.createRecv \cup s.createDone \cup s.destroySend \cup s.destroyRecv
        /\ ~In(create) /\ ~In(created) /\ ~In(failed) /\ ~In(destroy) /\ ~In(destroyed)
        /\ ~exists
     \/ \* create was requested
        /\ k \in s.createRecv
        /\ k \notin s.createSend \cup s.createDone \cup s.destroyRecv
        /\ ~In(destroy) /\ ~In(destroyed)
        /\ \/ In(create) /\ ~In(created) /\ ~In(failed) /\ ~exists
           \/ ~In(create) /\ In(created) /\ ~In(failed) /\ exists
           \/ ~In(create) /\ ~In(created) /\ In(failed) /\ ~exists
     \/ \* the child is known
        /\ k \in s.createDone
        /\ k \notin s.createSend \cup s.createRecv
        /\ ~In(create) /\ ~In(created) /\ ~In(failed)
        /\ \/ k \notin s.destroyRecv /\ ~In(destroy) /\ ~In(destroyed) /\ exists
           \/ /\ k \in s.destroyRecv \ s.destroySend
              /\ \/ In(destroy) /\ ~In(destroyed) /\ exists
                 \/ ~In(destroy) /\ In(destroyed) /\ ~exists

Answers == BoundResults \ {"BIND_KEY_EXISTS"}
Failures == Answers \ {"BOUND"}

BindHelper(a, k) ==
  LET s == helpers[a]
      bind == Request("bind", a, k)
      Bound(r) == Event("bound", a, r, k)
      unbind == Request("unbind", a, k)
      unbound == Event("unbound", a, "UNBOUND", k)
      late == Event("unbound", a, "BIND_KEY_DNE", k)
      exists == BindKeyExists(a, k)
  IN /\ ~(In(unbind) /\ In(late))
     /\ \/ \* nothing was requested, or all is done; an unbind may be late
           /\ k \notin s.bindRecv \cup s.bindDone \cup s.unbindSend \cup s.unbindRecv
           /\ ~In(bind) /\ ~In(unbound) /\ \A r \in Answers : ~In(Bound(r))
           /\ ~exists
        \/ \* bind was requested
           /\ k \in s.bindRecv
           /\ k \notin s.bindSend \cup s.bindDone \cup s.unbindRecv
           /\ \/ /\ In(bind) /\ ~In(unbound) /\ \A r \in Answers : ~In(Bound(r))
                 /\ In(unbind) => Before(unbind, bind)
                 /\ ~exists
              \/ /\ \E r \in Failures :
                      /\ In(Bound(r)) /\ \A t \in Answers \ {r} : ~In(Bound(t))
                      /\ In(late) => Before(late, Bound(r))
                 /\ ~In(bind) /\ ~In(unbind) /\ ~In(unbound)
                 /\ ~exists
              \/ /\ In(Bound("BOUND")) /\ \A t \in Failures : ~In(Bound(t))
                 /\ ~In(bind) /\ ~In(unbind)
                 /\ In(late) => Before(late, Bound("BOUND"))
                 /\ In(unbound) => Before(Bound("BOUND"), unbound)
                 /\ exists <=> ~In(unbound)
        \/ \* the binding is known
           /\ k \in s.bindDone
           /\ k \notin s.bindSend \cup s.bindRecv
           /\ ~In(bind) /\ \A r \in Answers : ~In(Bound(r))
           /\ exists <=> ~In(unbound)
           /\ \/ k \notin s.unbindRecv /\ ~In(unbind) /\ ~In(late)
              \/ /\ k \in s.unbindRecv \ s.unbindSend
                 /\ exists => In(unbind)
                 /\ In(late) => Before(unbound, late)

\* A request that has to do with a live automaton is in order.
HelpersInOrder ==
  \A a \in Live :
    /\ \A k \in CreateKeys : ChildHelper(a, k)
    /\ \A k \in BindKeys : BindHelper(a, k)

SysInv ==
  /\ IInv /\ IsFiniteSet(bindings)
  /\ helpers \in [Aids -> HelperSets] /\ QueueTypes /\ SanityChecksHold
  /\ Once /\ AidsPassed /\ OnlyLiveHelp /\ HelpersInOrder
-----------------------------------------------------------------------------
(* Sequences, seen through what is on them and in which order. *)
LEMMA OnEmpty ==
  ASSUME NEW x, NEW y
  PROVE  ~On(<<>>, x) /\ ~InOrder(<<>>, x, y)
BY DEF On, InOrder

LEMMA OnSingle ==
  ASSUME NEW r, NEW x, NEW y
  PROVE  (On(<<r>>, x) <=> x = r) /\ ~InOrder(<<r>>, x, y)
BY DEF On, InOrder

LEMMA OnType ==
  ASSUME NEW S, NEW q \in Seq(S), NEW x, On(q, x)
  PROVE  x \in S
BY DEF On

LEMMA OnConcat ==
  ASSUME NEW S, NEW p \in Seq(S), NEW q \in Seq(S), NEW x, NEW y
  PROVE  /\ On(p \o q, x) <=> On(p, x) \/ On(q, x)
         /\ InOrder(p \o q, x, y) <=>
              InOrder(p, x, y) \/ InOrder(q, x, y) \/ (On(p, x) /\ On(q, y))
<1> DEFINE r == p \o q
<1>1. /\ Len(p) \in Nat /\ Len(q) \in Nat
      /\ DOMAIN p = 1..Len(p) /\ DOMAIN q = 1..Len(q)
      /\ DOMAIN r = 1..(Len(p) + Len(q))
      /\ \A i \in 1..Len(p) : r[i] = p[i]
      /\ \A i \in 1..Len(q) : r[i + Len(p)] = q[i]
      /\ \A i \in 1..(Len(p) + Len(q)) : i \in 1..Len(p) \/ i - Len(p) \in 1..Len(q)
  BY ConcatProperties, LenProperties
<1>2. /\ \A i \in DOMAIN p : i \in DOMAIN r /\ r[i] = p[i]
      /\ \A i \in DOMAIN q : i + Len(p) \in DOMAIN r /\ r[i + Len(p)] = q[i]
  BY <1>1
<1>3. \A i \in DOMAIN r :
        \/ i \in DOMAIN p /\ r[i] = p[i]
        \/ i - Len(p) \in DOMAIN q /\ r[i] = q[i - Len(p)]
  BY <1>1
<1> HIDE DEF r
<1>4. On(r, x) <=> On(p, x) \/ On(q, x)
  BY <1>2, <1>3 DEF On
<1>5. ASSUME InOrder(r, x, y)
      PROVE  InOrder(p, x, y) \/ InOrder(q, x, y) \/ (On(p, x) /\ On(q, y))
  <2>1. PICK i \in DOMAIN r, j \in DOMAIN r : i < j /\ r[i] = x /\ r[j] = y
    BY <1>5 DEF InOrder
  <2>2. CASE j \in 1..Len(p)
    BY <1>1, <2>1, <2>2 DEF InOrder
  <2>3. CASE i \in 1..Len(p) /\ j - Len(p) \in 1..Len(q)
    BY <1>1, <1>3, <2>1, <2>3 DEF On
  <2>4. CASE i - Len(p) \in 1..Len(q) /\ j - Len(p) \in 1..Len(q)
    <3>1. q[i - Len(p)] = x /\ q[j - Len(p)] = y /\ i - Len(p) < j - Len(p)
      BY <1>1, <1>3, <2>1, <2>4
    <3>. QED
      BY <1>1, <2>4, <3>1 DEF InOrder
  <2>. QED
    BY <1>1, <2>1, <2>2, <2>3, <2>4
<1>6. ASSUME InOrder(q, x, y)
      PROVE  InOrder(r, x, y)
  <2>1. PICK i \in DOMAIN q, j \in DOMAIN q : i < j /\ q[i] = x /\ q[j] = y
    BY <1>6 DEF InOrder
  <2>2. i + Len(p) < j + Len(p)
    BY <1>1, <2>1
  <2>. QED
    BY <1>1, <1>2, <2>1, <2>2 DEF InOrder
<1>7. ASSUME InOrder(p, x, y)
      PROVE  InOrder(r, x, y)
  BY <1>1, <1>7 DEF InOrder
<1>8. ASSUME On(p, x), On(q, y)
      PROVE  InOrder(r, x, y)
  <2>1. PICK i \in 1..Len(p), j \in 1..Len(q) : p[i] = x /\ q[j] = y
    BY <1>1, <1>8 DEF On
  <2>2. i < j + Len(p)
    BY <1>1, <2>1
  <2>. QED
    BY <1>1, <1>2, <2>1, <2>2 DEF InOrder
<1>. QED
  BY <1>4, <1>5, <1>6, <1>7, <1>8 DEF r

LEMMA OnHeadTail ==
  ASSUME NEW S, NEW q \in Seq(S), q # <<>>, NEW x, NEW y
  PROVE  /\ Head(q) \in S /\ Tail(q) \in Seq(S)
         /\ On(q, x) <=> x = Head(q) \/ On(Tail(q), x)
         /\ InOrder(q, x, y) <=> InOrder(Tail(q), x, y) \/ (x = Head(q) /\ On(Tail(q), y))
<1>1. Head(q) \in S /\ Tail(q) \in Seq(S) /\ q = <<Head(q)>> \o Tail(q)
  <2>1. /\ Head(q) \in S /\ Tail(q) \in Seq(S) /\ Len(q) \in Nat \ {0}
        /\ Len(Tail(q)) = Len(q) - 1
        /\ \A i \in 1..Len(Tail(q)) : Tail(q)[i] = q[i + 1]
    BY HeadTailProperties, EmptySeq
  <2>2. <<Head(q)>> \in Seq(S) /\ Len(<<Head(q)>>) = 1 /\ <<Head(q)>>[1] = q[1]
    BY <2>1
  <2> DEFINE r == <<Head(q)>> \o Tail(q)
  <2>3. /\ r \in Seq(S) /\ Len(r) = Len(q)
        /\ \A i \in 1..Len(q) : r[i] = IF i <= 1 THEN <<Head(q)>>[i] ELSE Tail(q)[i - 1]
    BY <2>1, <2>2, ConcatProperties
  <2>4. \A i \in 1..Len(q) : r[i] = q[i]
    <3> HIDE DEF r
    <3>1. \A i \in 1..Len(q) : i <= 1 => i = 1
      BY <2>1
    <3>2. \A i \in 1..Len(q) : ~(i <= 1) => Tail(q)[i - 1] = q[i]
      BY <2>1
    <3>. QED
      BY <2>2, <2>3, <3>1, <3>2
  <2>. QED
    BY <2>1, <2>3, <2>4, SeqEqual
<1> DEFINE h == <<Head(q)>>
           t == Tail(q)
<1>2. h \in Seq(S) /\ t \in Seq(S) /\ q = h \o t
  BY <1>1
<1>3. /\ On(h \o t, x) <=> On(h, x) \/ On(t, x)
      /\ InOrder(h \o t, x, y) <=>
           InOrder(h, x, y) \/ InOrder(t, x, y) \/ (On(h, x) /\ On(t, y))
  BY <1>2, OnConcat
<1>4. (On(h, x) <=> x = Head(q)) /\ ~InOrder(h, x, y)
  BY OnSingle
<1>. QED
  BY <1>1, <1>2, <1>3, <1>4

LEMMA IfType ==
  ASSUME NEW S, NEW b \in BOOLEAN, NEW r, b => r \in S
  PROVE  If(b, r) \in Seq(S)
<1>1. CASE b
  BY <1>1 DEF If
<1>2. CASE ~b
  BY <1>2, EmptySeq DEF If
<1>. QED
  BY <1>1, <1>2

(* Only system outputs are scheduled, each for the automaton itself. *)
LEMMA ScheduleType ==
  ASSUME NEW a \in Aids, NEW s
  PROVE  /\ Schedule(a, s) \in Seq(SysItems)
         /\ \A x : On(Schedule(a, s), x) => x \in SysItems /\ x.aid = a
<1> DEFINE S == {x \in SysItems : x.aid = a}
<1>1. \A op \in SysOps : Sys(op, a) \in S
  BY DEF Sys, SysItems
<1> HIDE DEF S
<1> DEFINE c == If(SysCreatePre(s), Sys("sys_create", a))
           b == If(SysBindPre(s), Sys("sys_bind", a))
           u == If(SysUnbindPre(s), Sys("sys_unbind", a))
           d == If(SysDestroyPre(s), Sys("sys_destroy", a))
<1>2. c \in Seq(S) /\ b \in Seq(S) /\ u \in Seq(S) /\ d \in Seq(S)
  BY <1>1, IfType DEF SysOps, SysCreatePre, SysBindPre, SysUnbindPre, SysDestroyPre
<1>3. Schedule(a, s) = c \o b \o u \o d
  BY DEF Schedule
<1> HIDE DEF c, b, u, d
<1>4. Schedule(a, s) \in Seq(S)
  BY <1>2, <1>3, ConcatProperties
<1>5. \A x : On(Schedule(a, s), x) => x \in S
  BY <1>4, OnType
<1>6. Schedule(a, s) \in Seq(SysItems)
  BY <1>4, SeqMonotonic DEF S
<1>. QED
  BY <1>5, <1>6 DEF S

LEMMA ItemsApart == SysItems \cap Items = {} /\ NoRequest \notin SysItems \cup Items
BY DEF SysItems, Items, SysOps, NoRequest

(* The queue with the request that is on its way to it is a queue. *)
LEMMA UnderwayType ==
  ASSUME QueueTypes
  PROVE  /\ Underway \in Seq(SysItems \cup Items)
         /\ inhand = NoRequest => Underway = sysq
<1>1. If(inhand # NoRequest, inhand) \in Seq(SysItems \cup Items)
  BY IfType DEF QueueTypes
<1>2. inhand = NoRequest => If(inhand # NoRequest, inhand) = <<>>
  BY DEF If
<1>. QED
  BY <1>1, <1>2, ConcatProperties, ConcatEmptySeq DEF QueueTypes, Underway

LEMMA InOrderOn ==
  ASSUME NEW q, NEW x, NEW y, InOrder(q, x, y)
  PROVE  On(q, x) /\ On(q, y)
BY DEF On, InOrder

(* A step that executes the head h of the queue and appends rs. *)
Moves(h, rs) ==
  /\ \A x : On(Underway', x) => In(x) \/ On(rs, x)
  /\ \A x \in Items : x.aid \in Live =>
       (On(Underway', x) <=> (In(x) /\ x # h) \/ On(rs, x))
  /\ \A x, y \in Items :
       x # h /\ (Before(x, y) \/ (In(x) /\ On(rs, y))) => InOrder(Underway', x, y)
  /\ \A x \in Items : x.aid \in Live /\ InOrder(Underway', x, x) =>
       InOrder(rs, x, x) \/ (In(x) /\ x # h /\ On(rs, x))
  /\ In(h) /\ (h \in Items /\ h.aid \in Live => \A x : ~Before(x, h))

LEMMA StepMoves ==
  ASSUME QueueTypes, Once, inhand = NoRequest, sysq # <<>>,
         NEW rs \in Seq(SysItems \cup Items), Underway' = Tail(sysq) \o rs
  PROVE  Head(sysq) \in SysItems \cup Items /\ Moves(Head(sysq), rs)
<1> DEFINE h == Head(sysq)
           t == Tail(sysq)
           U == Underway'
<1>1. /\ h \in SysItems \cup Items /\ t \in Seq(SysItems \cup Items)
      /\ \A x : In(x) <=> x = h \/ On(t, x)
      /\ \A x, y : Before(x, y) <=> InOrder(t, x, y) \/ (x = h /\ On(t, y))
  BY UnderwayType, OnHeadTail DEF QueueTypes, In, Before
<1>2. /\ \A x : On(U, x) <=> On(t, x) \/ On(rs, x)
      /\ \A x, y : InOrder(U, x, y) <=>
           InOrder(t, x, y) \/ InOrder(rs, x, y) \/ (On(t, x) /\ On(rs, y))
  BY <1>1, OnConcat
<1>3. \A x, y : InOrder(t, x, y) => On(t, x) /\ On(t, y)
  BY InOrderOn
<1> HIDE DEF h, t, U
<1>4. h \in Items /\ h.aid \in Live => ~On(t, h)
  BY <1>1 DEF Once
<1>5. \A x \in Items : x.aid \in Live => ~InOrder(t, x, x)
  BY <1>1 DEF Once
<1>6. Moves(h, rs)
  <2>1. \A x \in Items : x.aid \in Live =>
          (On(U, x) <=> (In(x) /\ x # h) \/ On(rs, x))
    BY <1>1, <1>2, <1>4
  <2>2. \A x, y : x # h /\ (Before(x, y) \/ (In(x) /\ On(rs, y))) => InOrder(U, x, y)
    BY <1>1, <1>2
  <2>3. \A x \in Items : x.aid \in Live /\ InOrder(U, x, x) =>
          InOrder(rs, x, x) \/ (In(x) /\ x # h /\ On(rs, x))
    BY <1>1, <1>2, <1>4, <1>5
  <2>4. h \in Items /\ h.aid \in Live => \A x : ~Before(x, h)
    BY <1>1, <1>3, <1>4
  <2>. QED
    BY <1>1, <1>2, <2>1, <2>2, <2>3, <2>4 DEF Moves, U
<1>. QED
  BY <1>1, <1>6 DEF h

(* A step that only schedules system outputs leaves the other items alone. *)
LEMMA UserMoves ==
  ASSUME QueueTypes, NEW rs \in Seq(SysItems), sysq' = sysq \o rs, inhand' = inhand
  PROVE  /\ QueueTypes'
         /\ \A x : On(Underway', x) => In(x) \/ On(rs, x)
         /\ \A x \in Items : On(Underway', x) <=> In(x)
         /\ \A x, y \in Items : InOrder(Underway', x, y) <=> Before(x, y)
<1> DEFINE S == SysItems \cup Items
           i == If(inhand # NoRequest, inhand)
<1>1. sysq \in Seq(S) /\ rs \in Seq(S) /\ i \in Seq(S)
  BY SeqMonotonic, IfType DEF QueueTypes
<1>2. sysq \o rs \in Seq(S)
  BY <1>1, ConcatProperties
<1>3. Underway = sysq \o i /\ Underway' = (sysq \o rs) \o i
  BY DEF Underway
<1>4. \A x \in Items : ~On(rs, x)
  BY OnType, ItemsApart
<1> HIDE DEF S, i
<1>5. /\ \A x : In(x) <=> On(sysq, x) \/ On(i, x)
      /\ \A x, y : Before(x, y) <=>
           InOrder(sysq, x, y) \/ InOrder(i, x, y) \/ (On(sysq, x) /\ On(i, y))
  BY <1>1, <1>3, OnConcat DEF In, Before
<1>6. /\ \A x : On(Underway', x) <=> On(sysq \o rs, x) \/ On(i, x)
      /\ \A x, y : InOrder(Underway', x, y) <=>
           InOrder(sysq \o rs, x, y) \/ InOrder(i, x, y) \/ (On(sysq \o rs, x) /\ On(i, y))
  BY <1>1, <1>2, <1>3, OnConcat
<1>7. /\ \A x : On(sysq \o rs, x) <=> On(sysq, x) \/ On(rs, x)
      /\ \A x, y : InOrder(sysq \o rs, x, y) <=>
           InOrder(sysq, x, y) \/ InOrder(rs, x, y) \/ (On(sysq, x) /\ On(rs, y))
  BY <1>1, OnConcat
<1>8. \A x, y \in Items : ~InOrder(rs, x, y)
  BY <1>4, InOrderOn
<1>9. QueueTypes'
  BY <1>2 DEF QueueTypes, S
<1>. QED
  BY <1>4, <1>5, <1>6, <1>7, <1>8, <1>9
-----------------------------------------------------------------------------
ChildOps == {"create", "created", "destroy", "destroyed"}
BindOps == {"bind", "bound", "unbind", "unbound"}

ChildItem(x, a, k) == x \in Items /\ x.aid = a /\ x.key = k /\ x.op \in ChildOps
BindItem(x, a, k) == x \in Items /\ x.aid = a /\ x.key = k /\ x.op \in BindOps

LEMMA ItemFields ==
  ASSUME NEW x \in Items
  PROVE  /\ x.aid \in Aids
         /\ x.op \in ChildOps => x.key \in CreateKeys /\ ChildItem(x, x.aid, x.key)
         /\ x.op \in BindOps => x.key \in BindKeys /\ BindItem(x, x.aid, x.key)
         /\ x.op \in ChildOps \cup BindOps /\ ChildOps \cap BindOps = {}
BY DEF Items, ChildOps, BindOps, ChildItem, BindItem

LEMMA ChildItems ==
  ASSUME NEW a \in Aids, NEW k \in CreateKeys
  PROVE  /\ ChildItem(Request("create", a, k), a, k)
         /\ ChildItem(Request("destroy", a, k), a, k)
         /\ ChildItem(Event("created", a, "AUTOMATON_CREATED", k), a, k)
         /\ ChildItem(Event("created", a, "INSTANCE_EXISTS", k), a, k)
         /\ ChildItem(Event("destroyed", a, "AUTOMATON_DESTROYED", k), a, k)
BY DEF ChildItem, ChildOps, Items, Request, Event

LEMMA BindItems ==
  ASSUME NEW a \in Aids, NEW k \in BindKeys
  PROVE  /\ BindItem(Request("bind", a, k), a, k)
         /\ BindItem(Request("unbind", a, k), a, k)
         /\ \A r \in Answers : BindItem(Event("bound", a, r, k), a, k)
         /\ BindItem(Event("unbound", a, "UNBOUND", k), a, k)
         /\ BindItem(Event("unbound", a, "BIND_KEY_DNE", k), a, k)
BY DEF BindItem, BindOps, Items, Request, Event, Answers, BoundResults

\* The items of a helper are all different.
LEMMA ChildItemsApart ==
  ASSUME NEW a, NEW k
  PROVE  LET create == Request("create", a, k)
             created == Event("created", a, "AUTOMATON_CREATED", k)
             failed == Event("created", a, "INSTANCE_EXISTS", k)
             destroy == Request("destroy", a, k)
             destroyed == Event("destroyed", a, "AUTOMATON_DESTROYED", k)
         IN /\ create # created /\ create # failed /\ create # destroy /\ create # destroyed
            /\ created # failed /\ created # destroy /\ created # destroyed
            /\ failed # destroy /\ failed # destroyed /\ destroy # destroyed
BY DEF Request, Event

LEMMA BindItemsApart ==
  ASSUME NEW a, NEW k
  PROVE  LET bind == Request("bind", a, k)
             Bound(r) == Event("bound", a, r, k)
             unbind == Request("unbind", a, k)
             unbound == Event("unbound", a, "UNBOUND", k)
             late == Event("unbound", a, "BIND_KEY_DNE", k)
         IN /\ bind # unbind /\ bind # unbound /\ bind # late
            /\ unbind # unbound /\ unbind # late /\ unbound # late
            /\ \A r : /\ bind # Bound(r) /\ unbind # Bound(r)
                      /\ unbound # Bound(r) /\ late # Bound(r)
            /\ \A r, v : Bound(r) = Bound(v) => r = v
BY DEF Request, Event

\* What an item of a helper is, by its op.
LEMMA ChildItemCases ==
  ASSUME NEW x, NEW a, NEW k, ChildItem(x, a, k)
  PROVE  /\ x.op = "create" => x = Request("create", a, k)
         /\ x.op = "destroy" => x = Request("destroy", a, k)
         /\ x.op = "created" => \/ x = Event("created", a, "AUTOMATON_CREATED", k)
                                \/ x = Event("created", a, "INSTANCE_EXISTS", k)
         /\ x.op = "destroyed" => x = Event("destroyed", a, "AUTOMATON_DESTROYED", k)
         /\ x.op \in {"create", "destroy", "created", "destroyed"}
BY DEF ChildItem, ChildOps, Items, Request, Event

LEMMA BindItemCases ==
  ASSUME NEW x, NEW a, NEW k, BindItem(x, a, k)
  PROVE  /\ x.op = "bind" => x = Request("bind", a, k)
         /\ x.op = "unbind" => x = Request("unbind", a, k)
         /\ x.op = "bound" => \E r \in Answers : x = Event("bound", a, r, k)
         /\ x.op = "unbound" => \/ x = Event("unbound", a, "UNBOUND", k)
                                \/ x = Event("unbound", a, "BIND_KEY_DNE", k)
         /\ x.op \in {"bind", "unbind", "bound", "unbound"}
BY DEF BindItem, BindOps, Items, Request, Event, Answers, BoundResults

(* A helper none of whose items move, and which stays in the same sets but *)
(* for the ones an automaton may put it in itself, stays in order.         *)
LEMMA ChildKept ==
  ASSUME NEW a \in Aids, NEW k \in CreateKeys, ChildHelper(a, k),
         \A x : ChildItem(x, a, k) => (On(Underway', x) <=> In(x)),
         CreateKeyExists(a, k)' <=> CreateKeyExists(a, k),
         k \in helpers'[a].createRecv <=> k \in helpers[a].createRecv,
         k \in helpers'[a].createDone <=> k \in helpers[a].createDone,
         k \in helpers'[a].destroyRecv <=> k \in helpers[a].destroyRecv,
         k \in helpers'[a].createSend /\ k \notin helpers[a].createSend =>
           k \notin helpers[a].createRecv \cup helpers[a].createDone,
         k \in helpers'[a].destroySend /\ k \notin helpers[a].destroySend =>
           /\ k \in helpers[a].createRecv \cup helpers[a].createDone
           /\ k \notin helpers[a].destroyRecv
  PROVE  ChildHelper(a, k)'
<1> DEFINE create == Request("create", a, k)
           created == Event("created", a, "AUTOMATON_CREATED", k)
           failed == Event("created", a, "INSTANCE_EXISTS", k)
           destroy == Request("destroy", a, k)
           destroyed == Event("destroyed", a, "AUTOMATON_DESTROYED", k)
<1>1. /\ On(Underway', create) <=> In(create)
      /\ On(Underway', created) <=> In(created)
      /\ On(Underway', failed) <=> In(failed)
      /\ On(Underway', destroy) <=> In(destroy)
      /\ On(Underway', destroyed) <=> In(destroyed)
  BY ChildItems
<1>. QED
  BY <1>1 DEF ChildHelper, In

LEMMA BindKept ==
  ASSUME NEW a \in Aids, NEW k \in BindKeys, BindHelper(a, k),
         \A x : BindItem(x, a, k) => (On(Underway', x) <=> In(x)),
         \A x, y : BindItem(x, a, k) /\ BindItem(y, a, k) /\ Before(x, y) =>
           InOrder(Underway', x, y),
         BindKeyExists(a, k)' <=> BindKeyExists(a, k),
         k \in helpers'[a].bindRecv <=> k \in helpers[a].bindRecv,
         k \in helpers'[a].bindDone <=> k \in helpers[a].bindDone,
         k \in helpers'[a].unbindRecv <=> k \in helpers[a].unbindRecv,
         k \in helpers'[a].bindSend /\ k \notin helpers[a].bindSend =>
           k \notin helpers[a].bindRecv \cup helpers[a].bindDone,
         k \in helpers'[a].unbindSend /\ k \notin helpers[a].unbindSend =>
           /\ k \in helpers[a].bindRecv \cup helpers[a].bindDone
           /\ k \notin helpers[a].unbindRecv
  PROVE  BindHelper(a, k)'
<1> DEFINE bind == Request("bind", a, k)
           Bound(r) == Event("bound", a, r, k)
           unbind == Request("unbind", a, k)
           unbound == Event("unbound", a, "UNBOUND", k)
           late == Event("unbound", a, "BIND_KEY_DNE", k)
<1>0. /\ BindItem(bind, a, k) /\ BindItem(unbind, a, k)
      /\ \A r \in Answers : BindItem(Bound(r), a, k)
      /\ BindItem(unbound, a, k) /\ BindItem(late, a, k)
  BY BindItems
<1> HIDE DEF bind, Bound, unbind, unbound, late
<1>1. /\ On(Underway', bind) <=> In(bind)
      /\ \A r \in Answers : On(Underway', Bound(r)) <=> In(Bound(r))
      /\ On(Underway', unbind) <=> In(unbind)
      /\ On(Underway', unbound) <=> In(unbound)
      /\ On(Underway', late) <=> In(late)
  BY <1>0
<1>2. /\ Before(unbind, bind) => InOrder(Underway', unbind, bind)
      /\ \A r \in Answers : /\ Before(late, Bound(r)) => InOrder(Underway', late, Bound(r))
                            /\ Before(Bound(r), unbound) => InOrder(Underway', Bound(r), unbound)
      /\ Before(unbound, late) => InOrder(Underway', unbound, late)
  BY <1>0
<1>3. "BOUND" \in Answers /\ Failures \subseteq Answers
  BY DEF Answers, Failures, BoundResults
<1>. QED
  BY <1>1, <1>2, <1>3 DEF BindHelper, In, Before, bind, Bound, unbind, unbound, late

(* What the registry changes for the automaton a: no other has more or     *)
(* less children or bindings, but new automata, which have none, may come. *)
ChangesFor(a) ==
  /\ IInv' /\ IsFiniteSet(bindings')
  /\ Live \subseteq Live' /\ counter <= counter'
  /\ \A c \in Live' \ Live :
       /\ counter < c /\ c <= counter'
       /\ \A k \in CreateKeys : ~CreateKeyExists(c, k)'
       /\ \A k \in BindKeys : ~BindKeyExists(c, k)'
  /\ \A b \in Live \ {a} :
       /\ \A k \in CreateKeys : CreateKeyExists(b, k)' <=> CreateKeyExists(b, k)
       /\ \A k \in BindKeys : BindKeyExists(b, k)' <=> BindKeyExists(b, k)

(* A step for the automaton a: it executes h and appends rs, and touches   *)
(* nothing of the others.                                                  *)
Local(h, a, rs) ==
  /\ a \in Live /\ inhand = NoRequest /\ Moves(h, rs)
  /\ h.aid = a /\ \A x \in SysItems \cup Items : On(rs, x) => x.aid = a
  /\ \A x \in Items : On(rs, x) => ~InOrder(rs, x, x) /\ (In(x) => x = h)
  /\ QueueTypes' /\ aborted' = aborted /\ ChangesFor(a)
  /\ helpers' \in [Aids -> HelperSets] /\ \A b \in Aids \ {a} : helpers'[b] = helpers[b]

LEMMA LocalStep ==
  ASSUME SysInv, NEW a, NEW h, NEW rs, Local(h, a, rs),
         \A k \in CreateKeys : ChildHelper(a, k)',
         \A k \in BindKeys : BindHelper(a, k)'
  PROVE  SysInv'
<1>1. TypeOK /\ TypeOK' /\ counter \in Int /\ counter' \in Int /\ Aids \subseteq Int
  BY MaxAidAssumption DEF Local, ChangesFor, SysInv, IInv, TypeOK, Aids
<1>2. \A c \in Live' \ Live : c \in Aids /\ counter < c
  BY <1>1 DEF Local, ChangesFor, TypeOK
<1>3. \A x \in SysItems \cup Items : On(Underway', x) => x.aid <= counter
  BY <1>1 DEF Local, ChangesFor, Moves, SysInv, AidsPassed
<1>4. \A x \in SysItems \cup Items : x.aid \in Int
  BY <1>1 DEF SysItems, Items
<1>5. \A x \in Items : On(Underway', x) /\ x.aid \in Live' => x.aid \in Live
  <2>1. \A n \in Int : ~(n <= counter /\ counter < n)
    BY <1>1
  <2>. QED
    BY <1>2, <1>3, <1>4, <2>1
<1>6. Once'
  <2>1. \A x \in Items : InOrder(Underway', x, x) => x.aid \notin Live
    BY InOrderOn DEF Local, ChangesFor, Moves
  <2>. QED
    BY <1>5, <2>1, InOrderOn DEF Once, Before
<1>7. AidsPassed'
  <2>1. \A x \in SysItems \cup Items : On(Underway', x) => x.aid <= counter'
    BY <1>1, <1>3, <1>4 DEF Local, ChangesFor
  <2>2. \A c \in Live' : c <= counter'
    BY <1>1 DEF Local, ChangesFor, SysInv, AidsPassed, TypeOK
  <2>. QED
    BY <2>1, <2>2 DEF AidsPassed, In
<1>8. OnlyLiveHelp'
  BY DEF Local, ChangesFor, SysInv, OnlyLiveHelp
<1>9. ASSUME NEW b \in Live \ {a}
      PROVE  /\ \A k \in CreateKeys : ChildHelper(b, k)'
             /\ \A k \in BindKeys : BindHelper(b, k)'
  <2>1. b \in Aids /\ helpers'[b] = helpers[b]
    BY <1>1 DEF Local, ChangesFor, TypeOK
  <2>2. \A x \in Items : x.aid = b => (On(Underway', x) <=> In(x)) /\ x # h
    BY DEF Local, ChangesFor, Moves
  <2>3. \A x, y \in Items : x.aid = b /\ Before(x, y) => InOrder(Underway', x, y)
    BY <2>2 DEF Local, ChangesFor, Moves
  <2>4. ASSUME NEW k \in CreateKeys
        PROVE  ChildHelper(b, k)'
    <3>1. ChildHelper(b, k) /\ (CreateKeyExists(b, k)' <=> CreateKeyExists(b, k))
      BY DEF Local, ChangesFor, SysInv, HelpersInOrder
    <3>. QED
      BY <2>1, <2>2, <3>1, ChildKept DEF ChildItem
  <2>5. ASSUME NEW k \in BindKeys
        PROVE  BindHelper(b, k)'
    <3>1. BindHelper(b, k) /\ (BindKeyExists(b, k)' <=> BindKeyExists(b, k))
      BY DEF Local, ChangesFor, SysInv, HelpersInOrder
    <3>. QED
      BY <2>1, <2>2, <2>3, <3>1, BindKept DEF BindItem
  <2>. QED
    BY <2>4, <2>5
<1>10. ASSUME NEW c \in Live' \ Live
       PROVE  /\ \A k \in CreateKeys : ChildHelper(c, k)'
              /\ \A k \in BindKeys : BindHelper(c, k)'
  <2>1. helpers'[c] = NoHelpers /\ c \in Aids
    BY <1>2 DEF Local, ChangesFor, SysInv, OnlyLiveHelp
  <2>2. \A x \in Items : x.aid = c => ~On(Underway', x)
    BY <1>5
  <2>3. ASSUME NEW k \in CreateKeys
        PROVE  ChildHelper(c, k)'
    <3>1. \A x : ChildItem(x, c, k) => ~On(Underway', x)
      BY <2>2 DEF ChildItem
    <3>2. ~CreateKeyExists(c, k)'
      BY DEF Local, ChangesFor
    <3>. QED
      BY <2>1, <3>1, <3>2, ChildItems DEF ChildHelper, In, NoHelpers
  <2>4. ASSUME NEW k \in BindKeys
        PROVE  BindHelper(c, k)'
    <3>1. \A x : BindItem(x, c, k) => ~On(Underway', x)
      BY <2>2 DEF BindItem
    <3>2. ~BindKeyExists(c, k)'
      BY DEF Local, ChangesFor
    <3>. QED
      BY <2>1, <3>1, <3>2, BindItems DEF BindHelper, In, NoHelpers
  <2>. QED
    BY <2>3, <2>4
<1>11. HelpersInOrder'
  BY <1>9, <1>10 DEF HelpersInOrder
<1>. QED
  BY <1>6, <1>7, <1>8, <1>11 DEF Local, ChangesFor, SysInv, SanityChecksHold

\* The helper sets s and t differ at most in the child, or binding, helper j.
ChildSetsBut(s, t, j) ==
  \A k : k # j =>
    /\ k \in t.createSend <=> k \in s.createSend
    /\ k \in t.createRecv <=> k \in s.createRecv
    /\ k \in t.createDone <=> k \in s.createDone
    /\ k \in t.destroySend <=> k \in s.destroySend
    /\ k \in t.destroyRecv <=> k \in s.destroyRecv
BindSetsBut(s, t, j) ==
  \A k : k # j =>
    /\ k \in t.bindSend <=> k \in s.bindSend
    /\ k \in t.bindRecv <=> k \in s.bindRecv
    /\ k \in t.bindDone <=> k \in s.bindDone
    /\ k \in t.unbindSend <=> k \in s.unbindSend
    /\ k \in t.unbindRecv <=> k \in s.unbindRecv
SameChildSets(s, t) ==
  /\ t.createSend = s.createSend /\ t.createRecv = s.createRecv
  /\ t.createDone = s.createDone
  /\ t.destroySend = s.destroySend /\ t.destroyRecv = s.destroyRecv
SameBindSets(s, t) ==
  /\ t.bindSend = s.bindSend /\ t.bindRecv = s.bindRecv /\ t.bindDone = s.bindDone
  /\ t.unbindSend = s.unbindSend /\ t.unbindRecv = s.unbindRecv

LEMMA LocalMoves ==
  ASSUME NEW h, NEW a, NEW rs, Local(h, a, rs)
  PROVE  /\ \A x \in Items : x.aid = a /\ x # h /\ ~On(rs, x) => (On(Underway', x) <=> In(x))
         /\ \A x, y \in Items : x # h /\ Before(x, y) => InOrder(Underway', x, y)
BY DEF Local, Moves

(* A step that concerns the child helper j of the automaton a. *)
LEMMA ChildStep ==
  ASSUME SysInv, NEW a, NEW h, NEW rs, Local(h, a, rs), NEW j \in CreateKeys,
         h \in Items => ChildItem(h, a, j),
         \A x \in Items : On(rs, x) => ChildItem(x, a, j),
         ChildSetsBut(helpers[a], helpers'[a], j), SameBindSets(helpers[a], helpers'[a]),
         \A k \in CreateKeys : k # j => (CreateKeyExists(a, k)' <=> CreateKeyExists(a, k)),
         \A k \in BindKeys : BindKeyExists(a, k)' <=> BindKeyExists(a, k),
         ChildHelper(a, j)'
  PROVE  SysInv'
<1>1. a \in Live /\ a \in Aids
  BY DEF Local, SysInv, IInv, TypeOK
<1>2. ASSUME NEW k \in CreateKeys, k # j
      PROVE  ChildHelper(a, k)'
  <2>1. \A x : ChildItem(x, a, k) => (On(Underway', x) <=> In(x))
    BY <1>2, LocalMoves DEF ChildItem
  <2>2. ChildHelper(a, k)
    BY <1>1 DEF SysInv, HelpersInOrder
  <2>. QED
    BY <1>1, <1>2, <2>1, <2>2, ChildKept DEF ChildSetsBut
<1>3. ASSUME NEW k \in BindKeys
      PROVE  BindHelper(a, k)'
  <2>1. \A x : BindItem(x, a, k) => x # h /\ ~On(rs, x)
    BY ItemFields DEF ChildItem, BindItem
  <2>2. /\ \A x : BindItem(x, a, k) => (On(Underway', x) <=> In(x))
        /\ \A x, y : BindItem(x, a, k) /\ BindItem(y, a, k) /\ Before(x, y) =>
             InOrder(Underway', x, y)
    BY <2>1, LocalMoves DEF BindItem
  <2>3. BindHelper(a, k)
    BY <1>1 DEF SysInv, HelpersInOrder
  <2>. QED
    BY <1>1, <1>3, <2>2, <2>3, BindKept DEF SameBindSets
<1>. QED
  BY <1>2, <1>3, LocalStep

(* A step that concerns the binding helper j of the automaton a. *)
LEMMA BindStep ==
  ASSUME SysInv, NEW a, NEW h, NEW rs, Local(h, a, rs), NEW j \in BindKeys,
         h \in Items => BindItem(h, a, j),
         \A x \in Items : On(rs, x) => BindItem(x, a, j),
         BindSetsBut(helpers[a], helpers'[a], j), SameChildSets(helpers[a], helpers'[a]),
         \A k \in CreateKeys : CreateKeyExists(a, k)' <=> CreateKeyExists(a, k),
         \A k \in BindKeys : k # j => (BindKeyExists(a, k)' <=> BindKeyExists(a, k)),
         BindHelper(a, j)'
  PROVE  SysInv'
<1>1. a \in Live /\ a \in Aids
  BY DEF Local, SysInv, IInv, TypeOK
<1>2. ASSUME NEW k \in BindKeys, k # j
      PROVE  BindHelper(a, k)'
  <2>1. \A x : BindItem(x, a, k) => x # h /\ ~On(rs, x)
    BY <1>2 DEF BindItem
  <2>2. /\ \A x : BindItem(x, a, k) => (On(Underway', x) <=> In(x))
        /\ \A x, y : BindItem(x, a, k) /\ BindItem(y, a, k) /\ Before(x, y) =>
             InOrder(Underway', x, y)
    BY <2>1, LocalMoves DEF BindItem
  <2>3. BindHelper(a, k)
    BY <1>1 DEF SysInv, HelpersInOrder
  <2>. QED
    BY <1>1, <1>2, <2>2, <2>3, BindKept DEF BindSetsBut
<1>3. ASSUME NEW k \in CreateKeys
      PROVE  ChildHelper(a, k)'
  <2>1. \A x : ChildItem(x, a, k) => x # h /\ ~On(rs, x)
    BY ItemFields DEF ChildItem, BindItem
  <2>2. \A x : ChildItem(x, a, k) => (On(Underway', x) <=> In(x))
    BY <2>1, LocalMoves DEF ChildItem
  <2>3. ChildHelper(a, k)
    BY <1>1 DEF SysInv, HelpersInOrder
  <2>. QED
    BY <1>1, <1>3, <2>2, <2>3, ChildKept DEF SameChildSets
<1>. QED
  BY <1>2, <1>3, LocalStep
-----------------------------------------------------------------------------
(* What an automaton may do to its helper sets by itself. *)
Allowed(s, t) ==
  /\ t.createRecv = s.createRecv /\ t.createDone = s.createDone
  /\ t.destroyRecv = s.destroyRecv
  /\ t.bindRecv = s.bindRecv /\ t.bindDone = s.bindDone /\ t.unbindRecv = s.unbindRecv
  /\ \A k \in t.createSend \ s.createSend : k \notin s.createRecv \cup s.createDone
  /\ \A k \in t.destroySend \ s.destroySend :
       k \in s.createRecv \cup s.createDone /\ k \notin s.destroyRecv
  /\ \A k \in t.bindSend \ s.bindSend : k \notin s.bindRecv \cup s.bindDone
  /\ \A k \in t.unbindSend \ s.unbindSend :
       k \in s.bindRecv \cup s.bindDone /\ k \notin s.unbindRecv

LEMMA RegistryKept ==
  ASSUME IInv, UNCHANGED modelVars
  PROVE  /\ IInv' /\ Live' = Live /\ counter' = counter /\ bindings' = bindings
         /\ \A a, k : /\ CreateKeyExists(a, k)' <=> CreateKeyExists(a, k)
                      /\ BindKeyExists(a, k)' <=> BindKeyExists(a, k)
<1>1. IInv'
  BY NextTypeOK, NextSafe DEF IInv
<1>. QED
  BY <1>1 DEF modelVars, Live, CreateKeyExists, BindKeyExists

(* A step in which no item of a live automaton comes or goes. *)
LEMMA QuietStep ==
  ASSUME SysInv, UNCHANGED modelVars, QueueTypes', SanityChecksHold',
         \A x \in SysItems \cup Items : On(Underway', x) => In(x) \/ x.aid \in Live,
         \A x \in Items : x.aid \in Live => (On(Underway', x) <=> In(x)),
         \A x, y \in Items : x.aid \in Live /\ Before(x, y) => InOrder(Underway', x, y),
         \A x \in Items : x.aid \in Live => ~InOrder(Underway', x, x),
         helpers' \in [Aids -> HelperSets],
         \A b \in Aids : Allowed(helpers[b], helpers'[b]),
         \A b \in Aids \ Live : helpers'[b] = helpers[b]
  PROVE  SysInv'
<1>1. /\ IInv' /\ Live' = Live /\ counter' = counter /\ bindings' = bindings
      /\ \A a, k : /\ CreateKeyExists(a, k)' <=> CreateKeyExists(a, k)
                   /\ BindKeyExists(a, k)' <=> BindKeyExists(a, k)
  BY RegistryKept DEF SysInv
<1>2. Live \subseteq Aids
  BY DEF SysInv, IInv, TypeOK
<1>3. Once' /\ AidsPassed' /\ OnlyLiveHelp'
  BY <1>1 DEF SysInv, Once, Before, AidsPassed, In, OnlyLiveHelp
<1>4. ASSUME NEW a \in Live, NEW k \in CreateKeys
      PROVE  ChildHelper(a, k)'
  <2>1. ChildHelper(a, k) /\ a \in Aids
    BY <1>2 DEF SysInv, HelpersInOrder
  <2>2. \A x : ChildItem(x, a, k) => (On(Underway', x) <=> In(x))
    BY DEF ChildItem
  <2>. QED
    BY <1>1, <2>1, <2>2, ChildKept DEF Allowed
<1>5. ASSUME NEW a \in Live, NEW k \in BindKeys
      PROVE  BindHelper(a, k)'
  <2>1. BindHelper(a, k) /\ a \in Aids
    BY <1>2 DEF SysInv, HelpersInOrder
  <2>2. /\ \A x : BindItem(x, a, k) => (On(Underway', x) <=> In(x))
        /\ \A x, y : BindItem(x, a, k) /\ BindItem(y, a, k) /\ Before(x, y) =>
             InOrder(Underway', x, y)
    BY DEF BindItem
  <2>. QED
    BY <1>1, <2>1, <2>2, BindKept DEF Allowed
<1>6. HelpersInOrder'
  BY <1>1, <1>4, <1>5 DEF HelpersInOrder
<1>. QED
  BY <1>1, <1>3, <1>6 DEF SysInv

LEMMA AllowedSame == \A s : Allowed(s, s)
BY DEF Allowed

(* The automaton a changes its helper sets to s in a call by user code. *)
LEMMA UserCallKeeps ==
  ASSUME SysInv, NEW a \in Aids, NEW s \in HelperSets, Allowed(helpers[a], s), UserCall(a, s)
  PROVE  SysInv'
<1>1. a \in Live /\ sysq' = sysq \o Schedule(a, s) /\ inhand' = inhand
  BY DEF UserCall, PushAll
<1>2. Schedule(a, s) \in Seq(SysItems) /\ QueueTypes /\ Once
  BY ScheduleType DEF SysInv
<1>3. /\ QueueTypes'
      /\ \A x : On(Underway', x) => In(x) \/ On(Schedule(a, s), x)
      /\ \A x \in Items : On(Underway', x) <=> In(x)
      /\ \A x, y \in Items : InOrder(Underway', x, y) <=> Before(x, y)
  BY <1>1, <1>2, UserMoves
<1>4. \A x : On(Schedule(a, s), x) => x.aid = a
  BY ScheduleType
<1>5. UNCHANGED modelVars /\ SanityChecksHold'
  BY DEF UserCall, SysInv, SanityChecksHold
<1>6. /\ helpers' \in [Aids -> HelperSets]
      /\ \A b \in Aids : Allowed(helpers[b], helpers'[b])
      /\ \A b \in Aids \ Live : helpers'[b] = helpers[b]
  BY <1>1, AllowedSame DEF UserCall, SysInv
<1>7. \A x \in Items : x.aid \in Live => ~InOrder(Underway', x, x)
  BY <1>2, <1>3 DEF Once
<1>. QED
  BY <1>1, <1>3, <1>4, <1>5, <1>6, <1>7, QuietStep

\* The four calls.
LEMMA UserStep ==
  ASSUME SysInv,
         \/ \E a \in Aids, h \in CreateKeys : UserCreate(a, h) \/ UserDestroy(a, h)
         \/ \E a \in Aids, h \in BindKeys : UserBind(a, h) \/ UserUnbind(a, h)
  PROVE  SysInv'
<1>1. \A a \in Aids : helpers[a] \in HelperSets
  BY DEF SysInv
<1>2. ASSUME NEW a \in Aids, NEW h \in CreateKeys, UserCreate(a, h)
      PROVE  SysInv'
  <2> DEFINE s == helpers[a]
             t == [s EXCEPT !.createSend = @ \cup {h}]
  <2>1. h \notin s.createRecv /\ h \notin s.createDone
    BY <1>2 DEF UserCreate, CreatePlaces, Range
  <2>2. t \in HelperSets /\ Allowed(s, t)
    BY <1>1, <2>1 DEF HelperSets, Allowed
  <2>. QED
    BY <1>2, <2>2, UserCallKeeps DEF UserCreate
<1>3. ASSUME NEW a \in Aids, NEW h \in BindKeys, UserBind(a, h)
      PROVE  SysInv'
  <2> DEFINE s == helpers[a]
             t == [s EXCEPT !.bindSend = @ \cup {h}]
  <2>1. h \notin s.bindRecv /\ h \notin s.bindDone
    BY <1>3 DEF UserBind, BindPlaces, Range
  <2>2. t \in HelperSets /\ Allowed(s, t)
    BY <1>1, <2>1 DEF HelperSets, Allowed
  <2>. QED
    BY <1>3, <2>2, UserCallKeeps DEF UserBind
<1>4. ASSUME NEW a \in Aids, NEW h \in CreateKeys, UserDestroy(a, h)
      PROVE  SysInv'
  <2> DEFINE s == helpers[a]
             t == [s EXCEPT !.createSend = @ \ {h}]
             u == [s EXCEPT !.destroySend = @ \cup {h}]
  <2>1. t \in HelperSets /\ Allowed(s, t)
    BY <1>1 DEF HelperSets, Allowed
  <2>2. h \in s.createRecv \cup s.createDone /\ h \notin s.destroySend \cup s.destroyRecv
        => u \in HelperSets /\ Allowed(s, u)
    BY <1>1 DEF HelperSets, Allowed
  <2>. QED
    BY <1>4, <2>1, <2>2, UserCallKeeps DEF UserDestroy
<1>5. ASSUME NEW a \in Aids, NEW h \in BindKeys, UserUnbind(a, h)
      PROVE  SysInv'
  <2> DEFINE s == helpers[a]
             t == [s EXCEPT !.bindSend = @ \ {h}]
             u == [s EXCEPT !.unbindSend = @ \cup {h}]
  <2>1. t \in HelperSets /\ Allowed(s, t)
    BY <1>1 DEF HelperSets, Allowed
  <2>2. h \in s.bindRecv \cup s.bindDone /\ h \notin s.unbindSend \cup s.unbindRecv
        => u \in HelperSets /\ Allowed(s, u)
    BY <1>1 DEF HelperSets, Allowed
  <2>. QED
    BY <1>5, <2>1, <2>2, UserCallKeeps DEF UserUnbind
<1>. QED
  BY <1>2, <1>3, <1>4, <1>5
-----------------------------------------------------------------------------
\* A step of the system thread, which executes the head of the queue.
Executes == SysInv /\ aborted = "" /\ inhand = NoRequest /\ sysq # <<>>

LEMMA HeadPosts ==
  ASSUME Executes, NEW rs \in Seq(SysItems \cup Items),
         sysq' = Tail(sysq) \o rs, inhand' = inhand
  PROVE  /\ QueueTypes' /\ Head(sysq) \in SysItems \cup Items
         /\ Moves(Head(sysq), rs)
<1>1. QueueTypes /\ Once /\ sysq \in Seq(SysItems \cup Items)
  BY DEF Executes, SysInv, QueueTypes
<1>2. Tail(sysq) \in Seq(SysItems \cup Items)
  BY <1>1, OnHeadTail DEF Executes
<1>3. QueueTypes'
  BY <1>2, ConcatProperties DEF Executes, QueueTypes
<1>4. Underway' = Tail(sysq) \o rs
  <2>1. sysq' \in Seq(SysItems \cup Items) /\ inhand' = NoRequest
    BY <1>3 DEF QueueTypes, Executes
  <2>2. If(inhand # NoRequest, inhand)' = <<>>
    BY <2>1 DEF If
  <2>. QED
    BY <2>1, <2>2, ConcatEmptySeq DEF Underway
<1>. QED
  BY <1>1, <1>3, <1>4, StepMoves DEF Executes

\* Nothing but system outputs is pushed.
LEMMA HeadSchedules ==
  ASSUME Executes, NEW rs \in Seq(SysItems),
         sysq' = Tail(sysq) \o rs, inhand' = inhand
  PROVE  /\ QueueTypes' /\ Head(sysq) \in SysItems \cup Items
         /\ Moves(Head(sysq), rs) /\ \A x \in Items : ~On(rs, x)
<1>1. rs \in Seq(SysItems \cup Items)
  BY SeqMonotonic
<1>2. \A x \in Items : ~On(rs, x)
  BY OnType, ItemsApart
<1>. QED
  BY <1>1, <1>2, HeadPosts

(* A runnable of an automaton that is gone, and a system output without    *)
(* precondition, do nothing.                                               *)
LEMMA SkipStep ==
  ASSUME Executes, Skip, Head(sysq) \in SysItems \/ Head(sysq).aid \notin Live
  PROVE  SysInv'
<1> DEFINE h == Head(sysq)
           e == <<>>
<1>1. SysInv /\ sysq \in Seq(SysItems \cup Items) /\ Once
  BY DEF Executes, SysInv, QueueTypes
<1>2. e \in Seq(SysItems) /\ sysq' = Tail(sysq) \o e
  BY <1>1, OnHeadTail, ConcatEmptySeq, EmptySeq DEF Executes, Skip
<1>3. \A x, y : ~On(e, x) /\ ~InOrder(e, x, y)
  BY OnEmpty
<1> HIDE DEF e
<1>4. QueueTypes' /\ Moves(h, e)
  BY <1>2, HeadSchedules DEF Skip
<1>5. \A x \in Items : x.aid \in Live => x # h
  BY ItemsApart
<1>6. /\ \A x \in SysItems \cup Items : On(Underway', x) => In(x)
      /\ \A x \in Items : x.aid \in Live => (On(Underway', x) <=> In(x))
      /\ \A x, y \in Items : x.aid \in Live /\ Before(x, y) => InOrder(Underway', x, y)
      /\ \A x \in Items : x.aid \in Live => ~InOrder(Underway', x, x)
  BY <1>3, <1>4, <1>5 DEF Moves
<1>7. UNCHANGED modelVars /\ SanityChecksHold' /\ helpers' = helpers
  BY <1>1 DEF Skip, SysInv, SanityChecksHold
<1>8. helpers' \in [Aids -> HelperSets] /\ \A b \in Aids : Allowed(helpers[b], helpers'[b])
  BY <1>1, <1>7, AllowedSame DEF SysInv
<1>. QED
  BY <1>1, <1>4, <1>6, <1>7, <1>8, QuietStep

\* The request r leaves the automaton a, and is pushed after what a schedules.
Pushed(a, s, r) == Schedule(a, s) \o <<r>>

LEMMA OutputLocal ==
  ASSUME Executes, NEW a \in Live, Head(sysq) \in SysItems, Head(sysq).aid = a,
         NEW s \in HelperSets, NEW r \in Items, r.aid = a, ~In(r), Output(a, s, r)
  PROVE  /\ Local(Head(sysq), a, Pushed(a, s, r))
         /\ \A x \in Items : On(Pushed(a, s, r), x) <=> x = r
         /\ \A x \in Items : x.aid = a => (On(Underway', x) <=> In(x) \/ x = r)
         /\ \A x, y \in Items : Before(x, y) \/ (In(x) /\ y = r) => InOrder(Underway', x, y)
         /\ \A k : /\ CreateKeyExists(a, k)' <=> CreateKeyExists(a, k)
                   /\ BindKeyExists(a, k)' <=> BindKeyExists(a, k)
         /\ helpers'[a] = s
<1> DEFINE S == SysItems \cup Items
           sched == Schedule(a, s)
           rs == Pushed(a, s, r)
           t == Tail(sysq)
<1>1. a \in Aids /\ SysInv /\ IInv /\ QueueTypes /\ Once /\ sysq \in Seq(S)
  BY DEF Executes, SysInv, IInv, TypeOK, QueueTypes
<1>2. sched \in Seq(SysItems) /\ \A x : On(sched, x) => x \in SysItems /\ x.aid = a
  BY <1>1, ScheduleType
<1>3. sched \in Seq(S) /\ <<r>> \in Seq(S) /\ t \in Seq(S)
  <2>1. t \in Seq(S)
    BY <1>1, OnHeadTail DEF Executes
  <2>2. sched \in Seq(S)
    BY <1>2, SeqMonotonic
  <2>3. <<r>> \in Seq(S)
    OBVIOUS
  <2>. QED
    BY <2>1, <2>2, <2>3
<1>4. rs \in Seq(S) /\ rs = sched \o <<r>>
  BY <1>3, ConcatProperties DEF Pushed
<1>5. r # NoRequest
  BY ItemsApart
<1>6. sysq' = t \o sched /\ inhand' = r
  BY DEF Output, PushAll
<1>7. QueueTypes'
  BY <1>3, <1>6, ConcatProperties DEF QueueTypes
<1>8. Underway' = t \o rs
  <2>1. If(inhand # NoRequest, inhand)' = <<r>>
    BY <1>5, <1>6 DEF If
  <2>2. Underway' = (t \o sched) \o <<r>>
    BY <1>6, <2>1 DEF Underway
  <2>. QED
    BY <1>3, <1>4, <2>2, ConcatAssociative
<1>9. Moves(Head(sysq), rs)
  BY <1>1, <1>4, <1>8, StepMoves DEF Executes
<1> HIDE DEF rs, sched, t, S
<1>10. /\ \A x : On(rs, x) <=> On(sched, x) \/ x = r
       /\ \A x, y : InOrder(rs, x, y) <=> InOrder(sched, x, y) \/ (On(sched, x) /\ y = r)
  <2>1. /\ \A x : On(rs, x) <=> On(sched, x) \/ On(<<r>>, x)
        /\ \A x, y : InOrder(rs, x, y) <=>
             InOrder(sched, x, y) \/ InOrder(<<r>>, x, y) \/ (On(sched, x) /\ On(<<r>>, y))
    BY <1>3, <1>4, OnConcat
  <2>. QED
    BY <2>1, OnSingle
<1>11. /\ \A x \in Items : On(rs, x) <=> x = r
       /\ \A x \in Items : ~InOrder(rs, x, x)
       /\ \A x \in S : On(rs, x) => x.aid = a
  BY <1>2, <1>10, ItemsApart, InOrderOn DEF S
<1>12. UNCHANGED modelVars /\ aborted' = aborted
  BY DEF Output
<1>13. /\ IInv' /\ Live' = Live /\ counter' = counter /\ bindings' = bindings
       /\ \A b, k : /\ CreateKeyExists(b, k)' <=> CreateKeyExists(b, k)
                    /\ BindKeyExists(b, k)' <=> BindKeyExists(b, k)
  BY <1>1, <1>12, RegistryKept
<1>14. /\ helpers' \in [Aids -> HelperSets] /\ helpers'[a] = s
       /\ \A b \in Aids \ {a} : helpers'[b] = helpers[b]
  BY <1>1 DEF SysInv, Output
<1>15. ChangesFor(a)
  BY <1>1, <1>13, MaxAidAssumption DEF ChangesFor, SysInv, IInv, TypeOK, Aids
<1>16. Local(Head(sysq), a, rs)
  BY <1>7, <1>9, <1>11, <1>12, <1>14, <1>15 DEF Local, Executes, S
<1>17. /\ \A x \in Items : x.aid = a => (On(Underway', x) <=> In(x) \/ x = r)
       /\ \A x, y \in Items : Before(x, y) \/ (In(x) /\ y = r) => InOrder(Underway', x, y)
  <2>1. \A x \in Items : x # Head(sysq)
    BY ItemsApart
  <2>. QED
    BY <1>9, <1>11, <2>1 DEF Moves
<1>. QED
  BY <1>11, <1>13, <1>14, <1>16, <1>17 DEF rs

LEMMA HeadType ==
  ASSUME Executes
  PROVE  /\ Head(sysq) \in SysItems \cup Items
         /\ Head(sysq).op \in SysOps <=> Head(sysq) \in SysItems
         /\ Head(sysq).aid \in Aids /\ In(Head(sysq))
         /\ Head(sysq).op \in Ops
         /\ aids = Live /\ Live \subseteq Aids
<1>1. sysq \in Seq(SysItems \cup Items)
  BY DEF Executes, SysInv, QueueTypes
<1>2. Head(sysq) \in SysItems \cup Items /\ On(sysq, Head(sysq))
  BY <1>1, OnHeadTail DEF Executes
<1>3. In(Head(sysq))
  BY <1>2, UnderwayType DEF In, Executes, SysInv
<1>4. \A x \in SysItems : x.op \in SysOps /\ x.aid \in Aids /\ x.op \in Ops
  BY DEF SysItems, SysOps, Ops
<1>5. \A x \in Items : x.op \notin SysOps /\ x.aid \in Aids /\ x.op \in Ops
  BY DEF Items, SysOps, Ops
<1>6. aids = Live /\ Live \subseteq Aids
  BY DEF Executes, SysInv, IInv, Safe, RegistriesAgree, TypeOK
<1>. QED
  BY <1>2, <1>3, <1>4, <1>5, <1>6

(* The system outputs: a helper that may be sent is a helper of which      *)
(* nothing is under way, and its request gets under way.                   *)
LEMMA SysCreateStep ==
  ASSUME Executes, Head(sysq).op = "sys_create",
         NEW a, Head(sysq).aid = a, ExecuteSysCreate(a)
  PROVE  SysInv'
<1> DEFINE s == helpers[a]
<1>1. Head(sysq) \in SysItems /\ a \in Aids /\ aids = Live /\ SysInv
  BY HeadType DEF SysOps, Executes
<1>2. CASE Skip
  BY <1>1, <1>2, SkipStep
<1>3. ASSUME a \in Live, NEW h \in s.createSend,
             Output(a, [s EXCEPT !.createSend = @ \ {h}, !.createRecv = @ \cup {h}],
                    Request("create", a, h))
      PROVE  SysInv'
  <2> DEFINE t == [s EXCEPT !.createSend = @ \ {h}, !.createRecv = @ \cup {h}]
             r == Request("create", a, h)
  <2>1. s \in HelperSets /\ h \in CreateKeys
    BY <1>1 DEF SysInv, HelperSets
  <2>2. /\ t \in HelperSets /\ ChildSetsBut(s, t, h) /\ SameBindSets(s, t)
        /\ t.createSend = s.createSend \ {h} /\ t.createRecv = s.createRecv \cup {h}
        /\ t.createDone = s.createDone /\ t.destroyRecv = s.destroyRecv
    BY <2>1 DEF HelperSets, ChildSetsBut, SameBindSets
  <2>3. ChildHelper(a, h) /\ ChildItem(r, a, h) /\ r \in Items /\ r.aid = a
    BY <1>1, <1>3, <2>1, ChildItems DEF SysInv, HelpersInOrder, ChildItem
  <2>4. /\ h \notin s.createRecv \cup s.createDone \cup s.destroyRecv
        /\ ~In(Request("create", a, h)) /\ ~In(Request("destroy", a, h))
        /\ ~In(Event("created", a, "AUTOMATON_CREATED", h))
        /\ ~In(Event("created", a, "INSTANCE_EXISTS", h))
        /\ ~In(Event("destroyed", a, "AUTOMATON_DESTROYED", h))
        /\ ~CreateKeyExists(a, h)
    BY <1>3, <2>3 DEF ChildHelper
  <2>5. Output(a, t, r)
    BY <1>3
  <2> HIDE DEF t, r
  <2>6. /\ Local(Head(sysq), a, Pushed(a, t, r))
        /\ \A x \in Items : On(Pushed(a, t, r), x) <=> x = r
        /\ \A x \in Items : x.aid = a => (On(Underway', x) <=> In(x) \/ x = r)
        /\ \A x, y \in Items : Before(x, y) \/ (In(x) /\ y = r) => InOrder(Underway', x, y)
        /\ \A k : /\ CreateKeyExists(a, k)' <=> CreateKeyExists(a, k)
                  /\ BindKeyExists(a, k)' <=> BindKeyExists(a, k)
        /\ helpers'[a] = t
    BY <1>1, <1>3, <2>2, <2>3, <2>4, <2>5, OutputLocal DEF r
  <2>7. /\ \A x : ChildItem(x, a, h) => (On(Underway', x) <=> In(x) \/ x = r)
        /\ \A x : ChildItem(x, a, h) /\ In(x) => InOrder(Underway', x, r)
    BY <2>3, <2>6 DEF ChildItem
  <2>8. /\ On(Underway', Request("create", a, h))
        /\ ~On(Underway', Event("created", a, "AUTOMATON_CREATED", h))
        /\ ~On(Underway', Event("created", a, "INSTANCE_EXISTS", h))
        /\ ~On(Underway', Request("destroy", a, h))
        /\ ~On(Underway', Event("destroyed", a, "AUTOMATON_DESTROYED", h))
    BY <1>1, <2>1, <2>4, <2>7, ChildItems DEF Request, Event, r
  <2>9. ChildHelper(a, h)'
    BY <2>2, <2>4, <2>6, <2>8 DEF ChildHelper, In, Before, r
  <2>10. /\ Head(sysq) \notin Items
         /\ \A x \in Items : On(Pushed(a, t, r), x) => ChildItem(x, a, h)
         /\ ChildSetsBut(helpers[a], helpers'[a], h) /\ SameBindSets(helpers[a], helpers'[a])
    BY <1>1, <2>2, <2>3, <2>6, ItemsApart
  <2>. QED
    BY <1>1, <2>1, <2>6, <2>9, <2>10, ChildStep
<1>. QED
  BY <1>1, <1>2, <1>3 DEF ExecuteSysCreate

LEMMA SysDestroyStep ==
  ASSUME Executes, Head(sysq).op = "sys_destroy",
         NEW a, Head(sysq).aid = a, ExecuteSysDestroy(a)
  PROVE  SysInv'
<1> DEFINE s == helpers[a]
<1>1. Head(sysq) \in SysItems /\ a \in Aids /\ aids = Live /\ SysInv
  BY HeadType DEF SysOps, Executes
<1>2. CASE Skip
  BY <1>1, <1>2, SkipStep
<1>3. ASSUME a \in Live, NEW h \in s.destroySend \cap s.createDone,
             Output(a, [s EXCEPT !.destroySend = @ \ {h}, !.destroyRecv = @ \cup {h}],
                    Request("destroy", a, h))
      PROVE  SysInv'
  <2> DEFINE t == [s EXCEPT !.destroySend = @ \ {h}, !.destroyRecv = @ \cup {h}]
             r == Request("destroy", a, h)
  <2>1. s \in HelperSets /\ h \in CreateKeys
    BY <1>1 DEF SysInv, HelperSets
  <2>2. /\ t \in HelperSets /\ ChildSetsBut(s, t, h) /\ SameBindSets(s, t)
        /\ t.destroySend = s.destroySend \ {h} /\ t.destroyRecv = s.destroyRecv \cup {h}
        /\ t.createSend = s.createSend /\ t.createRecv = s.createRecv /\ t.createDone = s.createDone
    BY <2>1 DEF HelperSets, ChildSetsBut, SameBindSets
  <2>3. ChildHelper(a, h) /\ ChildItem(r, a, h) /\ r \in Items /\ r.aid = a
    BY <1>1, <1>3, <2>1, ChildItems DEF SysInv, HelpersInOrder, ChildItem
  <2>4. /\ h \in s.createDone /\ h \notin s.createSend \cup s.createRecv
        /\ ~In(Request("create", a, h)) /\ ~In(Request("destroy", a, h))
        /\ ~In(Event("created", a, "AUTOMATON_CREATED", h))
        /\ ~In(Event("created", a, "INSTANCE_EXISTS", h))
        /\ ~In(Event("destroyed", a, "AUTOMATON_DESTROYED", h))
        /\ CreateKeyExists(a, h)
    BY <1>3, <2>3 DEF ChildHelper
  <2>5. Output(a, t, r)
    BY <1>3
  <2> HIDE DEF t, r
  <2>6. /\ Local(Head(sysq), a, Pushed(a, t, r))
        /\ \A x \in Items : On(Pushed(a, t, r), x) <=> x = r
        /\ \A x \in Items : x.aid = a => (On(Underway', x) <=> In(x) \/ x = r)
        /\ \A x, y \in Items : Before(x, y) \/ (In(x) /\ y = r) => InOrder(Underway', x, y)
        /\ \A k : /\ CreateKeyExists(a, k)' <=> CreateKeyExists(a, k)
                  /\ BindKeyExists(a, k)' <=> BindKeyExists(a, k)
        /\ helpers'[a] = t
    BY <1>1, <1>3, <2>2, <2>3, <2>4, <2>5, OutputLocal DEF r
  <2>7. /\ \A x : ChildItem(x, a, h) => (On(Underway', x) <=> In(x) \/ x = r)
        /\ \A x : ChildItem(x, a, h) /\ In(x) => InOrder(Underway', x, r)
    BY <2>3, <2>6 DEF ChildItem
  <2>8. /\ On(Underway', Request("destroy", a, h))
        /\ ~On(Underway', Event("created", a, "AUTOMATON_CREATED", h))
        /\ ~On(Underway', Event("created", a, "INSTANCE_EXISTS", h))
        /\ ~On(Underway', Request("create", a, h))
        /\ ~On(Underway', Event("destroyed", a, "AUTOMATON_DESTROYED", h))
    BY <1>1, <2>1, <2>4, <2>7, ChildItems DEF Request, Event, r
  <2>9. ChildHelper(a, h)'
    BY <2>2, <2>4, <2>6, <2>8 DEF ChildHelper, In, Before, r
  <2>10. /\ Head(sysq) \notin Items
         /\ \A x \in Items : On(Pushed(a, t, r), x) => ChildItem(x, a, h)
         /\ ChildSetsBut(helpers[a], helpers'[a], h) /\ SameBindSets(helpers[a], helpers'[a])
    BY <1>1, <2>2, <2>3, <2>6, ItemsApart
  <2>. QED
    BY <1>1, <2>1, <2>6, <2>9, <2>10, ChildStep
<1>. QED
  BY <1>1, <1>2, <1>3 DEF ExecuteSysDestroy

LEMMA SysBindStep ==
  ASSUME Executes, Head(sysq).op = "sys_bind",
         NEW a, Head(sysq).aid = a, ExecuteSysBind(a)
  PROVE  SysInv'
<1> DEFINE s == helpers[a]
<1>1. Head(sysq) \in SysItems /\ a \in Aids /\ aids = Live /\ SysInv
  BY HeadType DEF SysOps, Executes
<1>2. CASE Skip
  BY <1>1, <1>2, SkipStep
<1>3. ASSUME a \in Live, NEW h \in s.bindSend,
             Output(a, [s EXCEPT !.bindSend = @ \ {h}, !.bindRecv = @ \cup {h}],
                    Request("bind", a, h))
      PROVE  SysInv'
  <2> DEFINE t == [s EXCEPT !.bindSend = @ \ {h}, !.bindRecv = @ \cup {h}]
             r == Request("bind", a, h)
  <2>1. s \in HelperSets /\ h \in BindKeys
    BY <1>1 DEF SysInv, HelperSets
  <2>2. /\ t \in HelperSets /\ BindSetsBut(s, t, h) /\ SameChildSets(s, t)
        /\ t.bindSend = s.bindSend \ {h} /\ t.bindRecv = s.bindRecv \cup {h}
        /\ t.bindDone = s.bindDone /\ t.unbindRecv = s.unbindRecv
    BY <2>1 DEF HelperSets, BindSetsBut, SameChildSets
  <2>3. BindHelper(a, h) /\ BindItem(r, a, h) /\ r \in Items /\ r.aid = a
    BY <1>1, <1>3, <2>1, BindItems DEF SysInv, HelpersInOrder, BindItem
  <2>4. /\ h \notin s.bindRecv \cup s.bindDone \cup s.unbindRecv
        /\ ~In(Request("bind", a, h)) /\ ~In(Event("unbound", a, "UNBOUND", h))
        /\ \A v \in Answers : ~In(Event("bound", a, v, h))
        /\ ~(In(Request("unbind", a, h)) /\ In(Event("unbound", a, "BIND_KEY_DNE", h)))
        /\ ~BindKeyExists(a, h)
    BY <1>3, <2>3 DEF BindHelper
  <2>5. Output(a, t, r)
    BY <1>3
  <2> HIDE DEF t, r
  <2>6. /\ Local(Head(sysq), a, Pushed(a, t, r))
        /\ \A x \in Items : On(Pushed(a, t, r), x) <=> x = r
        /\ \A x \in Items : x.aid = a => (On(Underway', x) <=> In(x) \/ x = r)
        /\ \A x, y \in Items : Before(x, y) \/ (In(x) /\ y = r) => InOrder(Underway', x, y)
        /\ \A k : /\ CreateKeyExists(a, k)' <=> CreateKeyExists(a, k)
                  /\ BindKeyExists(a, k)' <=> BindKeyExists(a, k)
        /\ helpers'[a] = t
    BY <1>1, <1>3, <2>2, <2>3, <2>4, <2>5, OutputLocal DEF r
  <2>7. /\ \A x : BindItem(x, a, h) => (On(Underway', x) <=> In(x) \/ x = r)
        /\ \A x : BindItem(x, a, h) /\ In(x) => InOrder(Underway', x, r)
    BY <2>3, <2>6 DEF BindItem
  <2>8. /\ On(Underway', Request("bind", a, h))
        /\ ~On(Underway', Event("unbound", a, "UNBOUND", h))
        /\ \A v \in Answers : ~On(Underway', Event("bound", a, v, h))
        /\ On(Underway', Request("unbind", a, h)) =>
             InOrder(Underway', Request("unbind", a, h), Request("bind", a, h))
        /\ ~(/\ On(Underway', Request("unbind", a, h))
             /\ On(Underway', Event("unbound", a, "BIND_KEY_DNE", h)))
    BY <1>1, <2>1, <2>4, <2>7, BindItems DEF Request, Event, r
  <2>9. BindHelper(a, h)'
    BY <2>2, <2>4, <2>6, <2>8 DEF BindHelper, In, Before, r
  <2>10. /\ Head(sysq) \notin Items
         /\ \A x \in Items : On(Pushed(a, t, r), x) => BindItem(x, a, h)
         /\ BindSetsBut(helpers[a], helpers'[a], h) /\ SameChildSets(helpers[a], helpers'[a])
    BY <1>1, <2>2, <2>3, <2>6, ItemsApart
  <2>. QED
    BY <1>1, <2>1, <2>6, <2>9, <2>10, BindStep
<1>. QED
  BY <1>1, <1>2, <1>3 DEF ExecuteSysBind

LEMMA SysUnbindStep ==
  ASSUME Executes, Head(sysq).op = "sys_unbind",
         NEW a, Head(sysq).aid = a, ExecuteSysUnbind(a)
  PROVE  SysInv'
<1> DEFINE s == helpers[a]
<1>1. Head(sysq) \in SysItems /\ a \in Aids /\ aids = Live /\ SysInv
  BY HeadType DEF SysOps, Executes
<1>2. CASE Skip
  BY <1>1, <1>2, SkipStep
<1>3. ASSUME a \in Live, NEW h \in s.unbindSend \cap s.bindDone,
             Output(a, [s EXCEPT !.unbindSend = @ \ {h}, !.unbindRecv = @ \cup {h}],
                    Request("unbind", a, h))
      PROVE  SysInv'
  <2> DEFINE t == [s EXCEPT !.unbindSend = @ \ {h}, !.unbindRecv = @ \cup {h}]
             r == Request("unbind", a, h)
  <2>1. s \in HelperSets /\ h \in BindKeys
    BY <1>1 DEF SysInv, HelperSets
  <2>2. /\ t \in HelperSets /\ BindSetsBut(s, t, h) /\ SameChildSets(s, t)
        /\ t.unbindSend = s.unbindSend \ {h} /\ t.unbindRecv = s.unbindRecv \cup {h}
        /\ t.bindSend = s.bindSend /\ t.bindRecv = s.bindRecv /\ t.bindDone = s.bindDone
    BY <2>1 DEF HelperSets, BindSetsBut, SameChildSets
  <2>3. BindHelper(a, h) /\ BindItem(r, a, h) /\ r \in Items /\ r.aid = a
    BY <1>1, <1>3, <2>1, BindItems DEF SysInv, HelpersInOrder, BindItem
  <2>4. /\ h \in s.bindDone /\ h \notin s.bindSend \cup s.bindRecv
        /\ ~In(Request("bind", a, h)) /\ \A v \in Answers : ~In(Event("bound", a, v, h))
        /\ ~In(Request("unbind", a, h)) /\ ~In(Event("unbound", a, "BIND_KEY_DNE", h))
        /\ BindKeyExists(a, h) <=> ~In(Event("unbound", a, "UNBOUND", h))
    BY <1>3, <2>3 DEF BindHelper
  <2>5. Output(a, t, r)
    BY <1>3
  <2> HIDE DEF t, r
  <2>6. /\ Local(Head(sysq), a, Pushed(a, t, r))
        /\ \A x \in Items : On(Pushed(a, t, r), x) <=> x = r
        /\ \A x \in Items : x.aid = a => (On(Underway', x) <=> In(x) \/ x = r)
        /\ \A x, y \in Items : Before(x, y) \/ (In(x) /\ y = r) => InOrder(Underway', x, y)
        /\ \A k : /\ CreateKeyExists(a, k)' <=> CreateKeyExists(a, k)
                  /\ BindKeyExists(a, k)' <=> BindKeyExists(a, k)
        /\ helpers'[a] = t
    BY <1>1, <1>3, <2>2, <2>3, <2>4, <2>5, OutputLocal DEF r
  <2>7. /\ \A x : BindItem(x, a, h) => (On(Underway', x) <=> In(x) \/ x = r)
        /\ \A x : BindItem(x, a, h) /\ In(x) => InOrder(Underway', x, r)
    BY <2>3, <2>6 DEF BindItem
  <2>8. /\ On(Underway', Request("unbind", a, h))
        /\ ~On(Underway', Request("bind", a, h))
        /\ \A v \in Answers : ~On(Underway', Event("bound", a, v, h))
        /\ ~On(Underway', Event("unbound", a, "BIND_KEY_DNE", h))
        /\ On(Underway', Event("unbound", a, "UNBOUND", h)) <=>
             In(Event("unbound", a, "UNBOUND", h))
    BY <1>1, <2>1, <2>4, <2>7, BindItems DEF Request, Event, r
  <2>9. BindHelper(a, h)'
    BY <2>2, <2>4, <2>6, <2>8 DEF BindHelper, In, Before, r
  <2>10. /\ Head(sysq) \notin Items
         /\ \A x \in Items : On(Pushed(a, t, r), x) => BindItem(x, a, h)
         /\ BindSetsBut(helpers[a], helpers'[a], h) /\ SameChildSets(helpers[a], helpers'[a])
    BY <1>1, <2>2, <2>3, <2>6, ItemsApart
  <2>. QED
    BY <1>1, <2>1, <2>6, <2>9, <2>10, BindStep
<1>. QED
  BY <1>1, <1>2, <1>3 DEF ExecuteSysUnbind

-----------------------------------------------------------------------------
\* A notification: the automaton a goes on to the helper sets s, and schedules.
LEMMA NotifyLocal ==
  ASSUME Executes, NEW a \in Live, Head(sysq) \in Items, Head(sysq).aid = a,
         NEW s \in HelperSets, helpers' = [helpers EXCEPT ![a] = s],
         sysq' = PushAll(Tail(sysq), Schedule(a, s)),
         UNCHANGED <<modelVars, inhand, aborted>>
  PROVE  /\ Local(Head(sysq), a, Schedule(a, s))
         /\ \A x \in Items : ~On(Schedule(a, s), x)
         /\ \A x \in Items : x.aid = a => (On(Underway', x) <=> In(x) /\ x # Head(sysq))
         /\ \A x, y \in Items : x # Head(sysq) /\ Before(x, y) => InOrder(Underway', x, y)
         /\ \A x : ~Before(x, Head(sysq))
         /\ \A k : /\ CreateKeyExists(a, k)' <=> CreateKeyExists(a, k)
                   /\ BindKeyExists(a, k)' <=> BindKeyExists(a, k)
         /\ helpers'[a] = s
<1> DEFINE rs == Schedule(a, s)
           h == Head(sysq)
<1>1. a \in Aids /\ SysInv /\ IInv
  BY DEF Executes, SysInv, IInv, TypeOK
<1>2. rs \in Seq(SysItems) /\ \A x : On(rs, x) => x \in SysItems /\ x.aid = a
  BY <1>1, ScheduleType
<1>3. sysq' = Tail(sysq) \o rs /\ inhand' = inhand
  BY DEF PushAll
<1> HIDE DEF rs
<1>4. QueueTypes' /\ Moves(h, rs) /\ \A x \in Items : ~On(rs, x)
  BY <1>2, <1>3, HeadSchedules
<1>5. /\ IInv' /\ Live' = Live /\ counter' = counter /\ bindings' = bindings
      /\ \A b, k : /\ CreateKeyExists(b, k)' <=> CreateKeyExists(b, k)
                   /\ BindKeyExists(b, k)' <=> BindKeyExists(b, k)
  BY <1>1, RegistryKept
<1>6. ChangesFor(a)
  BY <1>1, <1>5, MaxAidAssumption DEF ChangesFor, SysInv, IInv, TypeOK, Aids
<1>7. /\ helpers' \in [Aids -> HelperSets] /\ helpers'[a] = s
      /\ \A b \in Aids \ {a} : helpers'[b] = helpers[b]
  BY <1>1 DEF SysInv
<1>8. Local(h, a, rs)
  BY <1>2, <1>4, <1>6, <1>7 DEF Local, Executes
<1>9. /\ \A x \in Items : x.aid = a => (On(Underway', x) <=> In(x) /\ x # h)
      /\ \A x, y \in Items : x # h /\ Before(x, y) => InOrder(Underway', x, y)
      /\ \A x : ~Before(x, h)
  BY <1>4 DEF Moves
<1>. QED
  BY <1>4, <1>5, <1>7, <1>8, <1>9 DEF rs

\* A request of the automaton a is answered with e.
LEMMA AnswerLocal ==
  ASSUME Executes, NEW a \in Live, Head(sysq) \in Items, Head(sysq).aid = a,
         NEW e \in Items, e.aid = a, ~In(e), Post(<<e>>), helpers' = helpers, ChangesFor(a)
  PROVE  /\ Local(Head(sysq), a, <<e>>)
         /\ \A x : On(<<e>>, x) <=> x = e
         /\ \A x \in Items : x.aid = a =>
              (On(Underway', x) <=> (In(x) /\ x # Head(sysq)) \/ x = e)
         /\ \A x, y \in Items : x # Head(sysq) /\ (Before(x, y) \/ (In(x) /\ y = e)) =>
              InOrder(Underway', x, y)
         /\ \A x : ~Before(x, Head(sysq))
<1> DEFINE rs == <<e>>
           h == Head(sysq)
<1>1. SysInv /\ Live \subseteq Aids
  BY DEF Executes, SysInv, IInv, TypeOK
<1>2. rs \in Seq(SysItems \cup Items)
  OBVIOUS
<1>3. \A x, y : (On(rs, x) <=> x = e) /\ ~InOrder(rs, x, y)
  BY OnSingle
<1>4. sysq' = Tail(sysq) \o rs /\ inhand' = inhand /\ aborted' = aborted
  BY DEF Post, PushAll
<1> HIDE DEF rs
<1>5. QueueTypes' /\ Moves(h, rs)
  BY <1>2, <1>4, HeadPosts
<1>6. Local(h, a, rs)
  BY <1>1, <1>3, <1>4, <1>5 DEF Local, Executes, SysInv
<1>7. /\ \A x \in Items : x.aid = a => (On(Underway', x) <=> (In(x) /\ x # h) \/ x = e)
      /\ \A x, y \in Items : x # h /\ (Before(x, y) \/ (In(x) /\ y = e)) =>
           InOrder(Underway', x, y)
      /\ \A x : ~Before(x, h)
  BY <1>3, <1>5 DEF Moves
<1>. QED
  BY <1>3, <1>6, <1>7 DEF rs

\* Steps that leave what is under way, the helpers and the registry alone.
LEMMA StutterStep ==
  ASSUME SysInv, UNCHANGED <<modelVars, helpers, Underway>>, QueueTypes', SanityChecksHold'
  PROVE  SysInv'
<1>1. \A x, y : (On(Underway', x) <=> In(x)) /\ (InOrder(Underway', x, y) <=> Before(x, y))
  BY DEF In, Before
<1>2. \A b \in Aids : Allowed(helpers[b], helpers'[b])
  BY AllowedSame
<1>3. Once /\ helpers' \in [Aids -> HelperSets]
  BY DEF SysInv
<1>. QED
  BY <1>1, <1>2, <1>3, QuietStep DEF Once

LEMMA AbortStep ==
  ASSUME Executes, aborted' = "BIND_KEY_DNE", UNCHANGED <<modelVars, helpers, sysq, inhand>>
  PROVE  SysInv'
BY StutterStep DEF Executes, SysInv, QueueTypes, Underway, SanityChecksHold

\* What the effects of created do to the helper sets.
LEMMA CreatedSets ==
  ASSUME NEW s \in HelperSets, NEW e, NEW k \in CreateKeys, e.key = k
  PROVE  LET t == CreatedEffect(s, e)
         IN /\ t \in HelperSets /\ ChildSetsBut(s, t, k) /\ SameBindSets(s, t)
            /\ t.createSend = s.createSend /\ t.createRecv = s.createRecv \ {k}
            /\ t.destroyRecv = s.destroyRecv
            /\ e.result = "AUTOMATON_CREATED" => k \in t.createDone
            /\ e.result # "AUTOMATON_CREATED" =>
                 t.createDone = s.createDone /\ k \notin t.destroySend
<1>1. CASE e.result = "AUTOMATON_CREATED"
  <2> DEFINE t == [s EXCEPT !.createRecv = @ \ {k}, !.createDone = @ \cup {k}]
  <2>1. CreatedEffect(s, e) = t
    BY <1>1 DEF CreatedEffect
  <2>2. t \in HelperSets /\ SameBindSets(s, t)
    BY DEF HelperSets, SameBindSets
  <2>3. /\ t.createSend = s.createSend /\ t.createRecv = s.createRecv \ {k}
        /\ t.createDone = s.createDone \cup {k}
        /\ t.destroySend = s.destroySend /\ t.destroyRecv = s.destroyRecv
    BY DEF HelperSets
  <2> HIDE DEF t
  <2>. QED
    BY <1>1, <2>1, <2>2, <2>3 DEF ChildSetsBut
<1>2. CASE e.result # "AUTOMATON_CREATED"
  <2> DEFINE t == [s EXCEPT !.createRecv = @ \ {k}, !.destroySend = @ \ {k}]
  <2>1. CreatedEffect(s, e) = t
    BY <1>2 DEF CreatedEffect
  <2>2. t \in HelperSets /\ SameBindSets(s, t)
    BY DEF HelperSets, SameBindSets
  <2>3. /\ t.createSend = s.createSend /\ t.createRecv = s.createRecv \ {k}
        /\ t.createDone = s.createDone
        /\ t.destroySend = s.destroySend \ {k} /\ t.destroyRecv = s.destroyRecv
    BY DEF HelperSets
  <2> HIDE DEF t
  <2>. QED
    BY <1>2, <2>1, <2>2, <2>3 DEF ChildSetsBut
<1>. QED
  BY <1>1, <1>2

(* created: the helper waits for it, and is granted or forgotten. *)
LEMMA CreatedStep ==
  ASSUME Executes, Head(sysq).op = "created", NEW a, Head(sysq).aid = a,
         NEW e, e = Head(sysq), NEW s, s = helpers[a], NEW k, k = e.key,
         Notify(e, CreatedOK(s, e), CreatedEffect(s, e))
  PROVE  SysInv'
<1>1. /\ e \in Items /\ a \in Aids /\ aids = Live /\ SysInv /\ In(e)
      /\ e.op = "created" /\ helpers \in [Aids -> HelperSets]
  BY HeadType DEF SysOps, Executes, SysInv
<1>2. CASE a \notin Live /\ Skip
  BY <1>1, <1>2, SkipStep
<1>3. CASE a \in Live
  <2> DEFINE t == CreatedEffect(s, e)
             created == Event("created", a, "AUTOMATON_CREATED", k)
             failed == Event("created", a, "INSTANCE_EXISTS", k)
  <2>1. k \in CreateKeys /\ ChildItem(e, a, k) /\ s \in HelperSets
    BY <1>1, ItemFields DEF ChildOps
  <2>2. e = created \/ e = failed
    BY <1>1, <2>1, ChildItemCases
  <2>3. ChildHelper(a, k)
    BY <1>1, <1>3, <2>1 DEF SysInv, HelpersInOrder
  <2>4. /\ k \in s.createRecv
        /\ k \notin s.createSend \cup s.createDone \cup s.destroyRecv
        /\ ~In(Request("create", a, k)) /\ ~In(Request("destroy", a, k))
        /\ ~In(Event("destroyed", a, "AUTOMATON_DESTROYED", k))
        /\ \/ e = created /\ ~In(failed) /\ CreateKeyExists(a, k)
           \/ e = failed /\ ~In(created) /\ ~CreateKeyExists(a, k)
    BY <1>1, <2>2, <2>3 DEF ChildHelper
  <2>5. CreatedOK(s, e) /\ e.aid = a
    BY <2>2, <2>4 DEF CreatedOK, Event
  <2>6. /\ helpers' = [helpers EXCEPT ![a] = t]
        /\ sysq' = PushAll(Tail(sysq), Schedule(a, t))
        /\ UNCHANGED <<modelVars, inhand, aborted>>
    BY <1>1, <1>3, <2>5 DEF Notify
  <2>7. /\ t \in HelperSets /\ ChildSetsBut(s, t, k) /\ SameBindSets(s, t)
        /\ k \notin t.createSend \cup t.createRecv \cup t.destroyRecv
        /\ e = created => k \in t.createDone
        /\ e = failed => k \notin t.createDone \cup t.destroySend
    BY <2>1, <2>2, <2>4, CreatedSets DEF Event
  <2> HIDE DEF t
  <2>8. /\ Local(e, a, Schedule(a, t))
        /\ \A x \in Items : ~On(Schedule(a, t), x)
        /\ \A x \in Items : x.aid = a => (On(Underway', x) <=> In(x) /\ x # e)
        /\ \A x : /\ CreateKeyExists(a, x)' <=> CreateKeyExists(a, x)
                  /\ BindKeyExists(a, x)' <=> BindKeyExists(a, x)
        /\ helpers'[a] = t
    BY <1>1, <1>3, <2>6, <2>7, NotifyLocal
  <2>9. \A x : ChildItem(x, a, k) => (On(Underway', x) <=> In(x) /\ x # e)
    BY <2>8 DEF ChildItem
  <2>10. /\ ~On(Underway', created) /\ ~On(Underway', failed)
         /\ ~On(Underway', Request("create", a, k)) /\ ~On(Underway', Request("destroy", a, k))
         /\ ~On(Underway', Event("destroyed", a, "AUTOMATON_DESTROYED", k))
    BY <1>1, <2>1, <2>4, <2>9, ChildItems
  <2>11. ChildHelper(a, k)'
    BY <2>4, <2>7, <2>8, <2>10 DEF ChildHelper, In
  <2>12. /\ \A x \in Items : On(Schedule(a, t), x) => ChildItem(x, a, k)
         /\ ChildSetsBut(helpers[a], helpers'[a], k) /\ SameBindSets(helpers[a], helpers'[a])
    BY <2>7, <2>8
  <2>. QED
    BY <1>1, <2>1, <2>8, <2>11, <2>12, ChildStep
<1>. QED
  BY <1>1, <1>2, <1>3 DEF Notify

LEMMA BoundSets ==
  ASSUME NEW s \in HelperSets, NEW e, NEW k \in BindKeys, e.key = k
  PROVE  LET t == BoundEffect(s, e)
         IN /\ t \in HelperSets /\ BindSetsBut(s, t, k) /\ SameChildSets(s, t)
            /\ t.bindSend = s.bindSend /\ t.bindRecv = s.bindRecv \ {k}
            /\ t.unbindRecv = s.unbindRecv
            /\ e.result = "BOUND" => k \in t.bindDone
            /\ e.result # "BOUND" => t.bindDone = s.bindDone /\ k \notin t.unbindSend
<1>1. CASE e.result = "BOUND"
  <2> DEFINE t == [s EXCEPT !.bindRecv = @ \ {k}, !.bindDone = @ \cup {k}]
  <2>1. BoundEffect(s, e) = t
    BY <1>1 DEF BoundEffect
  <2>2. t \in HelperSets /\ SameChildSets(s, t)
    BY DEF HelperSets, SameChildSets
  <2>3. /\ t.bindSend = s.bindSend
        /\ t.bindRecv = s.bindRecv \ {k}
        /\ t.bindDone = s.bindDone \cup {k}
        /\ t.unbindSend = s.unbindSend
        /\ t.unbindRecv = s.unbindRecv
    BY DEF HelperSets
  <2> HIDE DEF t
  <2>. QED
    BY <1>1, <2>1, <2>2, <2>3 DEF BindSetsBut
<1>2. CASE e.result # "BOUND"
  <2> DEFINE t == [s EXCEPT !.bindRecv = @ \ {k}, !.unbindSend = @ \ {k}]
  <2>1. BoundEffect(s, e) = t
    BY <1>2 DEF BoundEffect
  <2>2. t \in HelperSets /\ SameChildSets(s, t)
    BY DEF HelperSets, SameChildSets
  <2>3. /\ t.bindSend = s.bindSend
        /\ t.bindRecv = s.bindRecv \ {k}
        /\ t.bindDone = s.bindDone
        /\ t.unbindSend = s.unbindSend \ {k}
        /\ t.unbindRecv = s.unbindRecv
    BY DEF HelperSets
  <2> HIDE DEF t
  <2>. QED
    BY <1>2, <2>1, <2>2, <2>3 DEF BindSetsBut
<1>. QED
  BY <1>1, <1>2

LEMMA UnboundSets ==
  ASSUME NEW s \in HelperSets, NEW e, NEW k \in BindKeys, e.key = k, k \notin s.bindRecv
  PROVE  LET t == UnboundEffect(s, e)
         IN /\ t \in HelperSets /\ BindSetsBut(s, t, k) /\ SameChildSets(s, t)
            /\ k \notin t.bindRecv \cup t.bindDone \cup t.unbindSend
            /\ k \in t.unbindRecv => k \in s.unbindSend \cap s.unbindRecv
<1>1. CASE k \in s.unbindSend
  <2> DEFINE t == [s EXCEPT !.bindRecv = @ \ {k}, !.bindDone = @ \ {k}, !.unbindSend = @ \ {k}]
  <2>1. UnboundEffect(s, e) = t
    BY <1>1 DEF UnboundEffect, WithoutFirst, HelperSets
  <2>2. t \in HelperSets /\ SameChildSets(s, t)
    BY DEF HelperSets, SameChildSets
  <2>3. /\ t.bindSend = s.bindSend
        /\ t.bindRecv = s.bindRecv \ {k}
        /\ t.bindDone = s.bindDone \ {k}
        /\ t.unbindSend = s.unbindSend \ {k}
        /\ t.unbindRecv = s.unbindRecv
    BY DEF HelperSets
  <2> HIDE DEF t
  <2>. QED
    BY <1>1, <2>1, <2>2, <2>3 DEF BindSetsBut
<1>2. CASE k \notin s.unbindSend
  <2> DEFINE t == [s EXCEPT !.bindRecv = @ \ {k}, !.bindDone = @ \ {k}, !.unbindSend = @ \ {k}, !.unbindRecv = @ \ {k}]
  <2>1. UnboundEffect(s, e) = t
    BY <1>2 DEF UnboundEffect, WithoutFirst, HelperSets
  <2>2. t \in HelperSets /\ SameChildSets(s, t)
    BY DEF HelperSets, SameChildSets
  <2>3. /\ t.bindSend = s.bindSend
        /\ t.bindRecv = s.bindRecv \ {k}
        /\ t.bindDone = s.bindDone \ {k}
        /\ t.unbindSend = s.unbindSend \ {k}
        /\ t.unbindRecv = s.unbindRecv \ {k}
    BY DEF HelperSets
  <2> HIDE DEF t
  <2>. QED
    BY <1>2, <2>1, <2>2, <2>3 DEF BindSetsBut
<1>. QED
  BY <1>1, <1>2

LEMMA DestroyedSets ==
  ASSUME NEW s \in HelperSets, NEW e, NEW k \in CreateKeys, e.key = k, k \notin s.createRecv
  PROVE  LET t == DestroyedEffect(s, e)
         IN /\ t \in HelperSets /\ ChildSetsBut(s, t, k) /\ SameBindSets(s, t)
            /\ k \notin t.createRecv \cup t.createDone \cup t.destroySend
            /\ k \in t.destroyRecv => k \in s.destroySend \cap s.destroyRecv
<1>1. CASE k \in s.destroySend
  <2> DEFINE t == [s EXCEPT !.createRecv = @ \ {k}, !.createDone = @ \ {k}, !.destroySend = @ \ {k}]
  <2>1. DestroyedEffect(s, e) = t
    BY <1>1 DEF DestroyedEffect, WithoutFirst, HelperSets
  <2>2. t \in HelperSets /\ SameBindSets(s, t)
    BY DEF HelperSets, SameBindSets
  <2>3. /\ t.createSend = s.createSend
        /\ t.createRecv = s.createRecv \ {k}
        /\ t.createDone = s.createDone \ {k}
        /\ t.destroySend = s.destroySend \ {k}
        /\ t.destroyRecv = s.destroyRecv
    BY DEF HelperSets
  <2> HIDE DEF t
  <2>. QED
    BY <1>1, <2>1, <2>2, <2>3 DEF ChildSetsBut
<1>2. CASE k \notin s.destroySend
  <2> DEFINE t == [s EXCEPT !.createRecv = @ \ {k}, !.createDone = @ \ {k}, !.destroySend = @ \ {k}, !.destroyRecv = @ \ {k}]
  <2>1. DestroyedEffect(s, e) = t
    BY <1>2 DEF DestroyedEffect, WithoutFirst, HelperSets
  <2>2. t \in HelperSets /\ SameBindSets(s, t)
    BY DEF HelperSets, SameBindSets
  <2>3. /\ t.createSend = s.createSend
        /\ t.createRecv = s.createRecv \ {k}
        /\ t.createDone = s.createDone \ {k}
        /\ t.destroySend = s.destroySend \ {k}
        /\ t.destroyRecv = s.destroyRecv \ {k}
    BY DEF HelperSets
  <2> HIDE DEF t
  <2>. QED
    BY <1>2, <2>1, <2>2, <2>3 DEF ChildSetsBut
<1>. QED
  BY <1>1, <1>2

\* Nothing comes before the head, if its automaton is live.
LEMMA HeadFirst ==
  ASSUME Executes, Head(sysq) \in Items, Head(sysq).aid \in Live, NEW x
  PROVE  ~Before(x, Head(sysq))
<1>1. /\ sysq \in Seq(SysItems \cup Items) /\ Underway = sysq /\ Once
  BY UnderwayType DEF Executes, SysInv, QueueTypes
<1>2. /\ InOrder(sysq, x, Head(sysq)) =>
           On(Tail(sysq), Head(sysq))
      /\ InOrder(sysq, Head(sysq), Head(sysq)) <=>
           \/ InOrder(Tail(sysq), Head(sysq), Head(sysq))
           \/ On(Tail(sysq), Head(sysq))
  BY <1>1, OnHeadTail, InOrderOn DEF Executes
<1>. QED
  BY <1>1, <1>2 DEF Once, Before

(* destroyed: the helper was granted and given back, and is forgotten. *)
LEMMA DestroyedStep ==
  ASSUME Executes, Head(sysq).op = "destroyed", NEW a, Head(sysq).aid = a,
         NEW e, e = Head(sysq), NEW s, s = helpers[a], NEW k, k = e.key,
         Notify(e, DestroyedOK(s, e), DestroyedEffect(s, e))
  PROVE  SysInv'
<1>1. /\ e \in Items /\ a \in Aids /\ aids = Live /\ SysInv /\ In(e)
      /\ e.op = "destroyed" /\ helpers \in [Aids -> HelperSets]
  BY HeadType DEF SysOps, Executes, SysInv
<1>2. CASE a \notin Live /\ Skip
  BY <1>1, <1>2, SkipStep
<1>3. CASE a \in Live
  <2> DEFINE t == DestroyedEffect(s, e)
  <2>1. k \in CreateKeys /\ ChildItem(e, a, k) /\ s \in HelperSets
    BY <1>1, ItemFields DEF ChildOps
  <2>2. e = Event("destroyed", a, "AUTOMATON_DESTROYED", k)
    BY <1>1, <2>1, ChildItemCases
  <2>3. ChildHelper(a, k)
    BY <1>1, <1>3, <2>1 DEF SysInv, HelpersInOrder
  <2>4. /\ k \in s.createDone /\ k \notin s.createSend \cup s.createRecv
        /\ k \in s.destroyRecv \ s.destroySend
        /\ ~In(Request("create", a, k)) /\ ~In(Request("destroy", a, k))
        /\ ~In(Event("created", a, "AUTOMATON_CREATED", k))
        /\ ~In(Event("created", a, "INSTANCE_EXISTS", k))
        /\ ~CreateKeyExists(a, k)
    BY <1>1, <2>2, <2>3 DEF ChildHelper
  <2>5. DestroyedOK(s, e) /\ e.aid = a
    BY <2>2, <2>4 DEF DestroyedOK, Event
  <2>6. /\ helpers' = [helpers EXCEPT ![a] = t]
        /\ sysq' = PushAll(Tail(sysq), Schedule(a, t))
        /\ UNCHANGED <<modelVars, inhand, aborted>>
    BY <1>1, <1>3, <2>5 DEF Notify
  <2>7. /\ t \in HelperSets /\ ChildSetsBut(s, t, k) /\ SameBindSets(s, t)
        /\ k \notin t.createRecv \cup t.createDone \cup t.destroySend \cup t.destroyRecv
    BY <2>1, <2>2, <2>4, DestroyedSets DEF Event
  <2> HIDE DEF t
  <2>8. /\ Local(e, a, Schedule(a, t))
        /\ \A x \in Items : ~On(Schedule(a, t), x)
        /\ \A x \in Items : x.aid = a => (On(Underway', x) <=> In(x) /\ x # e)
        /\ \A x, y \in Items : x # e /\ Before(x, y) => InOrder(Underway', x, y)
        /\ \A x : /\ CreateKeyExists(a, x)' <=> CreateKeyExists(a, x)
                  /\ BindKeyExists(a, x)' <=> BindKeyExists(a, x)
        /\ helpers'[a] = t
    BY <1>1, <1>3, <2>6, <2>7, NotifyLocal
  <2>9. \A x : ChildItem(x, a, k) => (On(Underway', x) <=> In(x) /\ x # e)
    BY <2>8 DEF ChildItem
  <2>10. /\ ~On(Underway', Request("create", a, k)) /\ ~On(Underway', Request("destroy", a, k))
         /\ ~On(Underway', Event("created", a, "AUTOMATON_CREATED", k))
         /\ ~On(Underway', Event("created", a, "INSTANCE_EXISTS", k))
         /\ ~On(Underway', Event("destroyed", a, "AUTOMATON_DESTROYED", k))
    BY <1>1, <2>1, <2>2, <2>4, <2>8, <2>9, ChildItems
  <2>11. ChildHelper(a, k)'
    BY <2>4, <2>7, <2>8, <2>10 DEF ChildHelper, In, Before
  <2>12. /\ \A x \in Items : On(Schedule(a, t), x) => ChildItem(x, a, k)
         /\ ChildSetsBut(helpers[a], helpers'[a], k) /\ SameBindSets(helpers[a], helpers'[a])
    BY <2>7, <2>8
  <2>. QED
    BY <1>1, <2>1, <2>8, <2>11, <2>12, ChildStep
<1>. QED
  BY <1>1, <1>2, <1>3 DEF Notify

\* What an answer to bind that is due says of its helper.
LEMMA BoundPending ==
  ASSUME NEW a, NEW k, BindHelper(a, k), NEW r \in Answers,
         In(Event("bound", a, r, k)), \A x : ~Before(x, Event("bound", a, r, k))
  PROVE  LET s == helpers[a]
             unbound == Event("unbound", a, "UNBOUND", k)
         IN /\ k \in s.bindRecv /\ k \notin s.bindSend \cup s.bindDone \cup s.unbindRecv
            /\ ~In(Request("bind", a, k)) /\ ~In(Request("unbind", a, k))
            /\ ~In(Event("unbound", a, "BIND_KEY_DNE", k))
            /\ \A v \in Answers \ {r} : ~In(Event("bound", a, v, k))
            /\ r # "BOUND" => ~BindKeyExists(a, k) /\ ~In(unbound)
            /\ r = "BOUND" => (BindKeyExists(a, k) <=> ~In(unbound))
BY DEF BindHelper, Failures

(* bound: the helper waits for it, and is granted or forgotten.  No late   *)
(* answer to an unbind comes after it.                                     *)
LEMMA BoundStep ==
  ASSUME Executes, Head(sysq).op = "bound", NEW a, Head(sysq).aid = a,
         NEW e, e = Head(sysq), NEW s, s = helpers[a], NEW k, k = e.key,
         Notify(e, BoundOK(s, e), BoundEffect(s, e))
  PROVE  SysInv'
<1>1. /\ e \in Items /\ a \in Aids /\ aids = Live /\ SysInv /\ In(e)
      /\ e.op = "bound" /\ helpers \in [Aids -> HelperSets]
  BY HeadType DEF SysOps, Executes, SysInv
<1>2. CASE a \notin Live /\ Skip
  BY <1>1, <1>2, SkipStep
<1>3. CASE a \in Live
  <2> DEFINE t == BoundEffect(s, e)
             bind == Request("bind", a, k)
             unbind == Request("unbind", a, k)
             Bound(v) == Event("bound", a, v, k)
             unbound == Event("unbound", a, "UNBOUND", k)
             late == Event("unbound", a, "BIND_KEY_DNE", k)
  <2>1. k \in BindKeys /\ BindItem(e, a, k) /\ s \in HelperSets
    BY <1>1, ItemFields DEF BindOps
  <2>2. e = Bound(e.result) /\ e.result \in Answers
    BY <1>1, <2>1, BindItemCases DEF Event
  <2>3. BindHelper(a, k)
    BY <1>1, <1>3, <2>1 DEF SysInv, HelpersInOrder
  <2> DEFINE r == e.result
  <2>4. /\ k \in s.bindRecv /\ k \notin s.bindSend \cup s.bindDone \cup s.unbindRecv
        /\ ~In(bind) /\ ~In(unbind) /\ ~In(late)
        /\ \A v \in Answers \ {r} : ~In(Bound(v))
        /\ r # "BOUND" => ~BindKeyExists(a, k) /\ ~In(unbound)
        /\ r = "BOUND" => (BindKeyExists(a, k) <=> ~In(unbound))
    BY <1>1, <1>3, <2>2, <2>3, HeadFirst, BoundPending
  <2>5. BoundOK(s, e) /\ e.aid = a
    BY <2>2, <2>4 DEF BoundOK, Event, Answers
  <2>6. /\ helpers' = [helpers EXCEPT ![a] = t]
        /\ sysq' = PushAll(Tail(sysq), Schedule(a, t))
        /\ UNCHANGED <<modelVars, inhand, aborted>>
    BY <1>1, <1>3, <2>5 DEF Notify
  <2>7. /\ t \in HelperSets /\ BindSetsBut(s, t, k) /\ SameChildSets(s, t)
        /\ k \notin t.bindSend \cup t.bindRecv \cup t.unbindRecv
        /\ r = "BOUND" => k \in t.bindDone
        /\ r # "BOUND" => k \notin t.bindDone \cup t.unbindSend
    BY <2>1, <2>2, <2>4, BoundSets DEF Event
  <2> HIDE DEF t
  <2>8. /\ Local(e, a, Schedule(a, t))
        /\ \A x \in Items : ~On(Schedule(a, t), x)
        /\ \A x \in Items : x.aid = a => (On(Underway', x) <=> In(x) /\ x # e)
        /\ \A x, y \in Items : x # e /\ Before(x, y) => InOrder(Underway', x, y)
        /\ \A x : /\ CreateKeyExists(a, x)' <=> CreateKeyExists(a, x)
                  /\ BindKeyExists(a, x)' <=> BindKeyExists(a, x)
        /\ helpers'[a] = t
    BY <1>1, <1>3, <2>6, <2>7, NotifyLocal
  <2>9. \A x : BindItem(x, a, k) => (On(Underway', x) <=> In(x) /\ x # e)
    BY <2>8 DEF BindItem
  <2>10. /\ ~On(Underway', bind) /\ ~On(Underway', unbind) /\ ~On(Underway', late)
         /\ \A v \in Answers : ~On(Underway', Bound(v))
         /\ On(Underway', unbound) <=> In(unbound)
    BY <1>1, <2>1, <2>2, <2>4, <2>8, <2>9, BindItems DEF Event
  <2>11. BindHelper(a, k)'
    BY <2>4, <2>7, <2>8, <2>10 DEF BindHelper, In, Before
  <2>12. /\ \A x \in Items : On(Schedule(a, t), x) => BindItem(x, a, k)
         /\ BindSetsBut(helpers[a], helpers'[a], k) /\ SameChildSets(helpers[a], helpers'[a])
    BY <2>7, <2>8
  <2>. QED
    BY <1>1, <2>1, <2>8, <2>11, <2>12, BindStep
<1>. QED
  BY <1>1, <1>2, <1>3 DEF Notify

\* What an unbound that is due says of its helper.
LEMMA UnboundPending ==
  ASSUME NEW a, NEW k, BindHelper(a, k), In(Event("unbound", a, "UNBOUND", k)),
         \A x : ~Before(x, Event("unbound", a, "UNBOUND", k))
  PROVE  LET s == helpers[a]
         IN /\ k \in s.bindDone /\ k \notin s.bindSend \cup s.bindRecv
            /\ k \in s.unbindRecv => k \notin s.unbindSend
            /\ ~In(Request("bind", a, k)) /\ \A v \in Answers : ~In(Event("bound", a, v, k))
            /\ ~(/\ In(Request("unbind", a, k))
                 /\ In(Event("unbound", a, "BIND_KEY_DNE", k)))
            /\ ~BindKeyExists(a, k)
BY DEF BindHelper

(* unbound: the helper was granted, and is forgotten; or the answer is     *)
(* late, and the assertion fails.                                          *)
LEMMA UnboundStep ==
  ASSUME Executes, Head(sysq).op = "unbound", NEW a, Head(sysq).aid = a,
         NEW e, e = Head(sysq), NEW s, s = helpers[a], NEW k, k = e.key,
         Notify(e, UnboundOK(s, e), UnboundEffect(s, e))
  PROVE  SysInv'
<1>1. /\ e \in Items /\ a \in Aids /\ aids = Live /\ SysInv /\ In(e)
      /\ e.op = "unbound" /\ helpers \in [Aids -> HelperSets]
  BY HeadType DEF SysOps, Executes, SysInv
<1>2. CASE a \notin Live /\ Skip
  BY <1>1, <1>2, SkipStep
<1>3. k \in BindKeys /\ BindItem(e, a, k) /\ s \in HelperSets
  BY <1>1, ItemFields DEF BindOps
<1>4. \/ e = Event("unbound", a, "UNBOUND", k)
      \/ e = Event("unbound", a, "BIND_KEY_DNE", k)
  BY <1>1, <1>3, BindItemCases
<1>5. CASE a \in Live /\ e = Event("unbound", a, "BIND_KEY_DNE", k)
  <2>1. ~UnboundOK(s, e) /\ e.result = "BIND_KEY_DNE" /\ e.aid = a
    BY <1>5 DEF UnboundOK, Event
  <2>. QED
    BY <1>1, <1>5, <2>1, AbortStep DEF Notify
<1>6. CASE a \in Live /\ e = Event("unbound", a, "UNBOUND", k)
  <2> DEFINE t == UnboundEffect(s, e)
             bind == Request("bind", a, k)
             unbind == Request("unbind", a, k)
             Bound(v) == Event("bound", a, v, k)
             late == Event("unbound", a, "BIND_KEY_DNE", k)
  <2>1. BindHelper(a, k)
    BY <1>1, <1>6, <1>3 DEF SysInv, HelpersInOrder
  <2>2. /\ k \in s.bindDone /\ k \notin s.bindSend \cup s.bindRecv
        /\ k \in s.unbindRecv => k \notin s.unbindSend
        /\ ~In(bind) /\ \A v \in Answers : ~In(Bound(v))
        /\ ~(In(unbind) /\ In(late))
        /\ ~BindKeyExists(a, k)
    BY <1>1, <1>6, <2>1, HeadFirst, UnboundPending
  <2>3. UnboundOK(s, e) /\ e.aid = a
    BY <1>6, <2>2 DEF UnboundOK, Event
  <2>4. /\ helpers' = [helpers EXCEPT ![a] = t]
        /\ sysq' = PushAll(Tail(sysq), Schedule(a, t))
        /\ UNCHANGED <<modelVars, inhand, aborted>>
    BY <1>1, <1>6, <2>3 DEF Notify
  <2>5. /\ t \in HelperSets /\ BindSetsBut(s, t, k) /\ SameChildSets(s, t)
        /\ k \notin t.bindRecv \cup t.bindDone \cup t.unbindSend \cup t.unbindRecv
    BY <1>3, <2>2, UnboundSets
  <2> HIDE DEF t
  <2>6. /\ Local(e, a, Schedule(a, t))
        /\ \A x \in Items : ~On(Schedule(a, t), x)
        /\ \A x \in Items : x.aid = a => (On(Underway', x) <=> In(x) /\ x # e)
        /\ \A x : /\ CreateKeyExists(a, x)' <=> CreateKeyExists(a, x)
                  /\ BindKeyExists(a, x)' <=> BindKeyExists(a, x)
        /\ helpers'[a] = t
    BY <1>1, <1>6, <2>4, <2>5, NotifyLocal
  <2>7. \A x : BindItem(x, a, k) => (On(Underway', x) <=> In(x) /\ x # e)
    BY <2>6 DEF BindItem
  <2>8. /\ ~On(Underway', bind) /\ \A v \in Answers : ~On(Underway', Bound(v))
        /\ ~On(Underway', e) /\ ~(On(Underway', unbind) /\ On(Underway', late))
    BY <1>1, <1>3, <2>2, <2>7, BindItems
  <2>9. BindHelper(a, k)'
    BY <1>6, <2>2, <2>5, <2>6, <2>8 DEF BindHelper, In
  <2>10. /\ \A x \in Items : On(Schedule(a, t), x) => BindItem(x, a, k)
         /\ BindSetsBut(helpers[a], helpers'[a], k) /\ SameChildSets(helpers[a], helpers'[a])
    BY <2>5, <2>6
  <2>. QED
    BY <1>1, <1>3, <2>6, <2>9, <2>10, BindStep
<1>. QED
  BY <1>1, <1>2, <1>4, <1>5, <1>6 DEF Notify
-----------------------------------------------------------------------------
(* The operations of the registry. *)

\* As long as the aids do not run out, the next one is new.
LEMMA NextAid ==
  ASSUME counter \in Aids, counter < MaxAid, \A a \in aids : a <= counter,
         NEW c, AidSet!Takes(counter, aids, c)
  PROVE  c = counter + 1 /\ c \in Aids /\ counter < c
<1>1. counter \in Nat /\ counter + 1 <= MaxAid /\ MaxAid \in Nat
  BY MaxAidAssumption DEF Aids
<1>2. \A m, d \in Nat : m < d => m % d = m
  OBVIOUS
<1>3. (counter + 1) % (MaxAid + 1) = counter + 1
  BY <1>1, <1>2
<1>4. AidSet!Nth(counter, 1) = counter + 1
  BY <1>3 DEF AidSet!Nth
<1>5. counter + 1 \notin aids
  BY <1>1
<1>6. PICK n \in 1..(MaxAid + 1) :
        /\ c = AidSet!Nth(counter, n)
        /\ \A j \in 1..(n - 1) : AidSet!Nth(counter, j) \in aids
  BY DEF AidSet!Takes
<1>7. n = 1
  <2>1. SUFFICES ASSUME n # 1
                 PROVE  FALSE
    OBVIOUS
  <2>2. 1 \in 1..(n - 1)
    BY <1>1, <2>1
  <2>. QED
    BY <1>4, <1>5, <1>6, <2>2
<1>. QED
  BY <1>1, <1>4, <1>6, <1>7 DEF Aids

(* create takes a new aid, and adds the one child, if it succeeds. *)
LEMMA CreateChanges ==
  ASSUME SysInv, NEW a \in Live, NEW k \in CreateKeys, NEW i \in Instances,
         counter < MaxAid, Create(a, k, i)
  PROVE  /\ ChangesFor(a)
         /\ \A j \in CreateKeys \ {k} : CreateKeyExists(a, j)' <=> CreateKeyExists(a, j)
         /\ \A j \in BindKeys : BindKeyExists(a, j)' <=> BindKeyExists(a, j)
         /\ CreateKeyExists(a, k)' <=> i \notin instances
<1>1. /\ IInv /\ TypeOK /\ a \in Aids /\ aids = Live /\ counter \in Aids
      /\ \A b \in aids : b <= counter
      /\ \A b \in Live : records[b] \in Record
  BY DEF SysInv, IInv, TypeOK, Safe, RegistriesAgree, AidsPassed
<1>2. IInv'
  BY <1>1, NextTypeOK, NextSafe DEF IInv, Next
<1>3. ~CreateKeyExists(a, k)
  BY DEF Create
<1>4. CASE InstanceExists(i)
  <2>1. PICK c \in Aids : AidSet!Takes(counter, aids, c) /\ counter' = c
    BY <1>4 DEF InstanceExists
  <2>2. counter <= counter'
    BY <1>1, <2>1, NextAid, MaxAidAssumption DEF Aids
  <2>3. i \in instances /\ UNCHANGED <<records, bindings>>
    BY <1>4 DEF InstanceExists
  <2>. QED
    BY <1>1, <1>2, <1>3, <2>2, <2>3
       DEF ChangesFor, CreateKeyExists, BindKeyExists, SysInv, Live
<1>5. CASE Created(a, k, i)
  <2>1. PICK c \in Aids :
          /\ AidSet!Takes(counter, aids, c) /\ counter' = c
          /\ records' = AddChild(a, k, c, i)
    BY <1>5 DEF Created
  <2>2. c = counter + 1 /\ counter < c
    BY <1>1, <2>1, NextAid
  <2>3. c \notin Live /\ counter <= counter' /\ c <= counter' /\ c # NoAid
    <3>1. \A b \in Live : b <= counter /\ b \in Int
      BY <1>1, MaxAidAssumption DEF TypeOK, Aids
    <3>. QED
      BY <1>1, <2>1, <2>2, <3>1, MaxAidAssumption DEF Aids, NoAid
  <2>4. Live' = Live \cup {c} /\ bindings' = bindings /\ i \notin instances
    BY <1>5, <2>1 DEF AddChild, Live, Created
  <2>5. \A b \in Live \ {a} : records'[b] = records[b]
    BY <2>1, <2>3 DEF AddChild
  <2>6. records'[a] = [records[a] EXCEPT !.children[k] = c]
    BY <2>1, <2>3 DEF AddChild
  <2>7. records'[c] = NewRecord(i, a, k)
    BY <2>1 DEF AddChild
  <2>8. /\ \A j \in CreateKeys : ~CreateKeyExists(c, j)'
        /\ \A j \in BindKeys : ~BindKeyExists(c, j)'
    BY <2>7 DEF NewRecord, CreateKeyExists, BindKeyExists
  <2>9. /\ records'[a].bindKeys = records[a].bindKeys
        /\ records'[a].children[k] = c
        /\ \A j \in CreateKeys \ {k} : records'[a].children[j] = records[a].children[j]
    BY <1>1, <2>6 DEF Record
  <2>10. ChangesFor(a)
    <3>1. \A b \in Live \ {a} :
            /\ \A j \in CreateKeys : CreateKeyExists(b, j)' <=> CreateKeyExists(b, j)
            /\ \A j \in BindKeys : BindKeyExists(b, j)' <=> BindKeyExists(b, j)
      BY <2>5 DEF CreateKeyExists, BindKeyExists
    <3>2. Live \subseteq Live' /\ \A b \in Live' \ Live : b = c
      BY <2>4
    <3>3. IsFiniteSet(bindings')
      BY <2>4 DEF SysInv
    <3>. QED
      BY <1>2, <2>1, <2>2, <2>3, <2>8, <3>1, <3>2, <3>3 DEF ChangesFor
  <2>. QED
    BY <2>3, <2>4, <2>9, <2>10 DEF CreateKeyExists, BindKeyExists
<1>. QED
  BY <1>4, <1>5 DEF Create

\* bind and unbind change the keys of one binder only.
LEMMA KeyChanges ==
  ASSUME SysInv, NEW a \in Live, NEW k, IInv', IsFiniteSet(bindings'),
         UNCHANGED treeVars, DOMAIN records' = Live,
         \A b \in Live : records'[b].children = records[b].children,
         \A b \in Live \ {a} : records'[b].bindKeys = records[b].bindKeys,
         \A j \in BindKeys \ {k} : j \in records'[a].bindKeys <=> j \in records[a].bindKeys
  PROVE  /\ ChangesFor(a)
         /\ \A j \in CreateKeys : CreateKeyExists(a, j)' <=> CreateKeyExists(a, j)
         /\ \A j \in BindKeys \ {k} : BindKeyExists(a, j)' <=> BindKeyExists(a, j)
<1>1. counter' = counter /\ counter <= counter' /\ Live' = Live
  BY MaxAidAssumption DEF treeVars, SysInv, IInv, TypeOK, Aids, Live
<1>2. /\ \A b \in Live, j \in CreateKeys : CreateKeyExists(b, j)' <=> CreateKeyExists(b, j)
      /\ \A b \in Live \ {a}, j \in BindKeys : BindKeyExists(b, j)' <=> BindKeyExists(b, j)
      /\ \A j \in BindKeys \ {k} : BindKeyExists(a, j)' <=> BindKeyExists(a, j)
  BY DEF CreateKeyExists, BindKeyExists
<1>. QED
  BY <1>1, <1>2 DEF ChangesFor

LEMMA BindChanges ==
  ASSUME SysInv, NEW a \in Live, NEW k \in BindKeys,
         NEW out \in Action, NEW in \in Action, Bind(a, k, out, in)
  PROVE  /\ ChangesFor(a) /\ BindKeyExists(a, k)'
         /\ \A j \in CreateKeys : CreateKeyExists(a, j)' <=> CreateKeyExists(a, j)
         /\ \A j \in BindKeys \ {k} : BindKeyExists(a, j)' <=> BindKeyExists(a, j)
<1>1. /\ IInv /\ TypeOK /\ a \in Aids /\ a \in aids
      /\ \A b \in Live : records[b] \in Record
  BY DEF SysInv, IInv, TypeOK, Safe, RegistriesAgree
<1>2. AddBinding(a, k, out, in) /\ BindResult(a, k, out, in) = "BOUND"
  BY DEF Bind
<1>3. IInv'
  BY <1>1, <1>2, BindTypeOK, AddBindingSafe DEF IInv
<1>4. IsFiniteSet(bindings')
  BY <1>2, FS_AddElement DEF AddBinding, SysInv
<1>5. records' = [records EXCEPT ![a].bindKeys = @ \cup {k}] /\ UNCHANGED treeVars
  BY <1>2 DEF AddBinding
<1>6. /\ DOMAIN records' = Live
      /\ \A b \in Live \ {a} : records'[b] = records[b]
      /\ records'[a] = [records[a] EXCEPT !.bindKeys = @ \cup {k}]
  BY <1>5 DEF Live
<1>7. /\ records'[a].children = records[a].children
      /\ records'[a].bindKeys = records[a].bindKeys \cup {k}
  BY <1>1, <1>6 DEF Record
<1>8. BindKeyExists(a, k)'
  BY <1>7 DEF BindKeyExists
<1>9. /\ \A b \in Live : records'[b].children = records[b].children
      /\ \A b \in Live \ {a} : records'[b].bindKeys = records[b].bindKeys
      /\ \A j \in BindKeys \ {k} : j \in records'[a].bindKeys <=> j \in records[a].bindKeys
  BY <1>6, <1>7
<1>. QED
  BY <1>3, <1>4, <1>5, <1>6, <1>8, <1>9, KeyChanges

\* A binder has a key in use exactly when it has the binding.
LEMMA KeyOfBinding ==
  ASSUME IInv, NEW a \in Live, NEW k
  PROVE  BindKeyExists(a, k) <=> BindingsOf(a, k) # {}
BY DEF IInv, Safe, BindKeysExact, BindKeyExists, BindingsOf

LEMMA UnbindChanges ==
  ASSUME SysInv, NEW a \in Live, NEW k \in BindKeys, Unbind(a, k)
  PROVE  /\ ChangesFor(a) /\ ~BindKeyExists(a, k)'
         /\ \A j \in CreateKeys : CreateKeyExists(a, j)' <=> CreateKeyExists(a, j)
         /\ \A j \in BindKeys \ {k} : BindKeyExists(a, j)' <=> BindKeyExists(a, j)
<1> DEFINE B == BindingsOf(a, k)
<1>1. /\ IInv /\ TypeOK /\ a \in Aids
      /\ \A b \in Live : records[b] \in Record
  BY DEF SysInv, IInv, TypeOK
<1>2. IInv'
  BY <1>1, NextTypeOK, NextSafe DEF IInv, Next
<1>3. RemoveBindings(B) /\ B # {}
  BY DEF Unbind
<1>4. IsFiniteSet(bindings')
  BY <1>3, FS_Difference DEF RemoveBindings, SysInv
<1>5. /\ DOMAIN records' = Live /\ UNCHANGED treeVars
      /\ \A b \in Live : records'[b] = WithoutKeys(b, records[b], B)
  BY <1>3 DEF RemoveBindings
<1>6. \A b \in Live : /\ records'[b].children = records[b].children
                      /\ records'[b].bindKeys =
                           records[b].bindKeys \ {c.key : c \in {d \in B : d.binder = b}}
  BY <1>1, <1>5 DEF WithoutKeys, Record
<1>7. \A c \in B : c.binder = a /\ c.key = k
  BY DEF BindingsOf
<1>8. {c.key : c \in {d \in B : d.binder = a}} = {k}
  BY <1>3, <1>7
<1> HIDE DEF B
<1>9. ASSUME NEW b \in Live \ {a}
      PROVE  records'[b].bindKeys = records[b].bindKeys
  <2>1. {c.key : c \in {d \in B : d.binder = b}} = {}
    BY <1>7
  <2>. QED
    BY <1>6, <2>1
<1>10. records'[a].bindKeys = records[a].bindKeys \ {k}
  BY <1>6, <1>8
<1>11. /\ ~BindKeyExists(a, k)'
       /\ \A j \in BindKeys \ {k} : j \in records'[a].bindKeys <=> j \in records[a].bindKeys
  BY <1>10 DEF BindKeyExists
<1>. QED
  BY <1>2, <1>4, <1>5, <1>6, <1>9, <1>11, KeyChanges

LEMMA NothingChanges ==
  ASSUME SysInv, UNCHANGED modelVars, NEW a
  PROVE  /\ ChangesFor(a)
         /\ \A j : /\ CreateKeyExists(a, j)' <=> CreateKeyExists(a, j)
                   /\ BindKeyExists(a, j)' <=> BindKeyExists(a, j)
<1>1. IInv /\ counter \in Int
  BY MaxAidAssumption DEF SysInv, IInv, TypeOK, Aids
<1>. QED
  BY <1>1, RegistryKept DEF ChangesFor, SysInv
-----------------------------------------------------------------------------
(* The requests. *)

\* create, whatever the answer: the helper goes on waiting for it.
LEMMA CreateAnswered ==
  ASSUME Executes, NEW a \in Live, Head(sysq).aid = a, NEW k \in CreateKeys,
         Head(sysq) = Request("create", a, k),
         NEW r \in {"AUTOMATON_CREATED", "INSTANCE_EXISTS"},
         Post(<<Event("created", a, r, k)>>), helpers' = helpers, ChangesFor(a),
         \A j \in CreateKeys \ {k} : CreateKeyExists(a, j)' <=> CreateKeyExists(a, j),
         \A j \in BindKeys : BindKeyExists(a, j)' <=> BindKeyExists(a, j),
         CreateKeyExists(a, k)' <=> r = "AUTOMATON_CREATED"
  PROVE  SysInv'
<1> DEFINE s == helpers[a]
           create == Request("create", a, k)
           created == Event("created", a, "AUTOMATON_CREATED", k)
           failed == Event("created", a, "INSTANCE_EXISTS", k)
           destroy == Request("destroy", a, k)
           destroyed == Event("destroyed", a, "AUTOMATON_DESTROYED", k)
           e == Event("created", a, r, k)
<1>1. SysInv /\ a \in Aids /\ In(Head(sysq))
  BY HeadType DEF Executes
<1>2. /\ ChildItem(create, a, k) /\ ChildItem(created, a, k) /\ ChildItem(failed, a, k)
      /\ ChildItem(destroy, a, k) /\ ChildItem(destroyed, a, k)
  BY <1>1, ChildItems
<1>3. create \in Items /\ created \in Items /\ failed \in Items
  BY <1>2 DEF ChildItem
<1>4. ChildHelper(a, k)
  BY <1>1 DEF SysInv, HelpersInOrder
<1>5. /\ k \in s.createRecv
      /\ k \notin s.createSend \cup s.createDone \cup s.destroyRecv
      /\ ~In(created) /\ ~In(failed) /\ ~In(destroy) /\ ~In(destroyed)
  BY <1>1, <1>4 DEF ChildHelper
<1>6. /\ r = "AUTOMATON_CREATED" => e = created
      /\ r # "AUTOMATON_CREATED" => e = failed
      /\ e.aid = a
  BY DEF Event
<1>7. /\ create # created /\ create # failed /\ created # failed
      /\ destroy # created /\ destroy # failed
      /\ destroyed # created /\ destroyed # failed
  BY ChildItemsApart
<1> HIDE DEF create, e, created, failed, destroy, destroyed
<1>8. e \in Items /\ ChildItem(e, a, k) /\ ~In(e) /\ e # create
  BY <1>2, <1>3, <1>5, <1>6, <1>7
<1>9. /\ Local(create, a, <<e>>)
      /\ \A x : On(<<e>>, x) <=> x = e
      /\ \A x \in Items : x.aid = a => (On(Underway', x) <=> (In(x) /\ x # create) \/ x = e)
  BY <1>1, <1>3, <1>6, <1>8, AnswerLocal DEF create, e
<1>10. \A x : ChildItem(x, a, k) => (On(Underway', x) <=> (In(x) /\ x # create) \/ x = e)
  BY <1>9 DEF ChildItem
<1>11. /\ ~On(Underway', create) /\ ~On(Underway', destroy) /\ ~On(Underway', destroyed)
       /\ On(Underway', created) <=> r = "AUTOMATON_CREATED"
       /\ On(Underway', failed) <=> r # "AUTOMATON_CREATED"
  BY <1>2, <1>5, <1>6, <1>7, <1>8, <1>10
<1>12. ChildHelper(a, k)'
  BY <1>5, <1>11 DEF ChildHelper, In, create, created, failed, destroy, destroyed
<1>13. /\ \A x \in Items : On(<<e>>, x) => ChildItem(x, a, k)
       /\ ChildSetsBut(helpers[a], helpers'[a], k) /\ SameBindSets(helpers[a], helpers'[a])
  BY <1>8, <1>9 DEF ChildSetsBut, SameBindSets
<1>. QED
  BY <1>1, <1>2, <1>9, <1>12, <1>13, ChildStep

LEMMA RunCreateStep ==
  ASSUME Executes, Head(sysq).op = "create", NEW a, Head(sysq).aid = a,
         NEW k, Head(sysq).key = k, RunCreate(a, k)
  PROVE  SysInv'
<1> DEFINE h == Head(sysq)
<1>1. h \in Items /\ a \in Aids /\ aids = Live /\ SysInv /\ In(h)
  BY HeadType DEF SysOps, Executes
<1>2. CASE a \notin Live /\ Skip
  BY <1>1, <1>2, SkipStep
<1>3. k \in CreateKeys /\ h = Request("create", a, k)
  BY <1>1, ItemFields, ChildItemCases DEF ChildOps
<1>4. a \in Live => ~CreateKeyExists(a, k)
  BY <1>1, <1>3 DEF SysInv, HelpersInOrder, ChildHelper
<1>5. CASE a \in Live /\ Refused(<<Event("created", a, "INSTANCE_EXISTS", k)>>)
  BY <1>1, <1>3, <1>4, <1>5, NothingChanges, CreateAnswered DEF Refused
<1>6. ASSUME a \in Live, counter < MaxAid, NEW i \in Addresses, Create(a, k, i), helpers' = helpers,
             Post(<<Event("created", a, IF i \in instances THEN "INSTANCE_EXISTS"
                                        ELSE "AUTOMATON_CREATED", k)>>)
      PROVE  SysInv'
  <2> DEFINE r == IF i \in instances THEN "INSTANCE_EXISTS" ELSE "AUTOMATON_CREATED"
  <2>1. instances \subseteq Instances
    BY <1>1 DEF SysInv, IInv, TypeOK
  <2>2. i \in Instances
    BY <2>1 DEF Addresses
  <2>3. /\ ChangesFor(a)
        /\ \A j \in CreateKeys \ {k} : CreateKeyExists(a, j)' <=> CreateKeyExists(a, j)
        /\ \A j \in BindKeys : BindKeyExists(a, j)' <=> BindKeyExists(a, j)
        /\ CreateKeyExists(a, k)' <=> i \notin instances
    BY <1>1, <1>3, <1>6, <2>2, CreateChanges
  <2>4. /\ r \in {"AUTOMATON_CREATED", "INSTANCE_EXISTS"}
        /\ r = "AUTOMATON_CREATED" <=> i \notin instances
        /\ Post(<<Event("created", a, r, k)>>)
    BY <1>6
  <2> HIDE DEF r
  <2>. QED
    BY <1>1, <1>3, <1>6, <2>3, <2>4, CreateAnswered
<1>. QED
  BY <1>1, <1>2, <1>4, <1>5, <1>6 DEF RunCreate, Create, Refused

\* What a bind that is due says of its helper.
LEMMA BindPending ==
  ASSUME NEW a, NEW k, BindHelper(a, k), In(Request("bind", a, k)),
         \A x : ~Before(x, Request("bind", a, k))
  PROVE  LET s == helpers[a]
         IN /\ k \in s.bindRecv /\ k \notin s.bindSend \cup s.bindDone \cup s.unbindRecv
            /\ ~In(Request("unbind", a, k)) /\ ~In(Event("unbound", a, "UNBOUND", k))
            /\ \A v \in Answers : ~In(Event("bound", a, v, k))
            /\ ~BindKeyExists(a, k)
BY DEF BindHelper

\* bind, whatever the answer; a late answer to an unbind is before it.
LEMMA BindAnswered ==
  ASSUME Executes, NEW a \in Live, Head(sysq).aid = a, NEW k \in BindKeys,
         Head(sysq) = Request("bind", a, k), NEW r \in Answers,
         Post(<<Event("bound", a, r, k)>>), helpers' = helpers, ChangesFor(a),
         \A j \in CreateKeys : CreateKeyExists(a, j)' <=> CreateKeyExists(a, j),
         \A j \in BindKeys \ {k} : BindKeyExists(a, j)' <=> BindKeyExists(a, j),
         BindKeyExists(a, k)' <=> r = "BOUND"
  PROVE  SysInv'
<1> DEFINE s == helpers[a]
           bind == Request("bind", a, k)
           Bound(v) == Event("bound", a, v, k)
           unbind == Request("unbind", a, k)
           unbound == Event("unbound", a, "UNBOUND", k)
           late == Event("unbound", a, "BIND_KEY_DNE", k)
<1>1. SysInv /\ a \in Aids /\ In(Head(sysq))
  BY HeadType DEF Executes
<1>2. /\ BindItem(bind, a, k) /\ BindItem(unbind, a, k)
      /\ \A v \in Answers : BindItem(Bound(v), a, k)
      /\ BindItem(unbound, a, k) /\ BindItem(late, a, k)
  BY <1>1, BindItems
<1>3. bind \in Items /\ Bound(r) \in Items /\ Bound(r).aid = a /\ late \in Items
  BY <1>2 DEF BindItem
<1>4. BindHelper(a, k)
  BY <1>1 DEF SysInv, HelpersInOrder
<1>5. /\ k \in s.bindRecv /\ k \notin s.bindSend \cup s.bindDone \cup s.unbindRecv
      /\ ~In(unbind) /\ ~In(unbound) /\ \A v \in Answers : ~In(Bound(v))
  BY <1>1, <1>3, <1>4, HeadFirst, BindPending
<1>6. /\ unbind # Bound(r) /\ unbound # Bound(r) /\ late # Bound(r) /\ bind # Bound(r)
      /\ late # bind /\ \A v : Bound(v) = Bound(r) => v = r
  BY BindItemsApart
<1> HIDE DEF bind, Bound, unbind, unbound, late
<1>7. /\ Local(bind, a, <<Bound(r)>>)
      /\ \A x : On(<<Bound(r)>>, x) <=> x = Bound(r)
      /\ \A x \in Items : x.aid = a =>
           (On(Underway', x) <=> (In(x) /\ x # bind) \/ x = Bound(r))
      /\ \A x, y \in Items : x # bind /\ (Before(x, y) \/ (In(x) /\ y = Bound(r))) =>
           InOrder(Underway', x, y)
  BY <1>1, <1>3, <1>5, AnswerLocal DEF bind, Bound
<1>8. \A x : BindItem(x, a, k) => (On(Underway', x) <=> (In(x) /\ x # bind) \/ x = Bound(r))
  BY <1>7 DEF BindItem
<1>9. /\ ~On(Underway', bind) /\ ~On(Underway', unbind) /\ ~On(Underway', unbound)
      /\ On(Underway', Bound(r)) /\ \A v \in Answers \ {r} : ~On(Underway', Bound(v))
      /\ On(Underway', late) => InOrder(Underway', late, Bound(r))
  BY <1>2, <1>3, <1>5, <1>6, <1>7, <1>8
<1>10. BindHelper(a, k)'
  BY <1>5, <1>9
     DEF BindHelper, In, Before, Failures, bind, Bound, unbind, unbound, late
<1>11. /\ \A x \in Items : On(<<Bound(r)>>, x) => BindItem(x, a, k)
       /\ BindSetsBut(helpers[a], helpers'[a], k) /\ SameChildSets(helpers[a], helpers'[a])
  BY <1>2, <1>7 DEF BindSetsBut, SameChildSets
<1>. QED
  BY <1>1, <1>2, <1>7, <1>10, <1>11, BindStep

LEMMA RunBindStep ==
  ASSUME Executes, Head(sysq).op = "bind", NEW a, Head(sysq).aid = a,
         NEW k, Head(sysq).key = k, RunBind(a, k)
  PROVE  SysInv'
<1> DEFINE h == Head(sysq)
<1>1. h \in Items /\ a \in Aids /\ aids = Live /\ SysInv /\ In(h)
  BY HeadType DEF SysOps, Executes
<1>2. CASE a \notin Live /\ Skip
  BY <1>1, <1>2, SkipStep
<1>3. k \in BindKeys /\ h = Request("bind", a, k)
  BY <1>1, ItemFields, BindItemCases DEF BindOps
<1>4. a \in Live => ~BindKeyExists(a, k)
  BY <1>1, <1>3, HeadFirst, BindPending DEF SysInv, HelpersInOrder
<1>5. ASSUME a \in Live, NEW o \in Aids, NEW m \in Outputs, NEW i \in Aids, NEW n \in Inputs,
             NEW r, r = BindResult(a, k, Act(o, m, i), Act(i, n, o)),
             \/ /\ r = "BOUND"
                /\ Bind(a, k, Act(o, m, i), Act(i, n, o))
                /\ Post(<<Event("bound", a, "BOUND", k)>>)
                /\ UNCHANGED helpers
             \/ r # "BOUND" /\ Refused(<<Event("bound", a, r, k)>>)
      PROVE  SysInv'
  <2>1. r \in Answers
    BY <1>4, <1>5 DEF BindResult, Answers, BoundResults
  <2>2. Act(o, m, i) \in Action /\ Act(i, n, o) \in Action
    BY ActType DEF Members
  <2>3. CASE /\ r = "BOUND" /\ Bind(a, k, Act(o, m, i), Act(i, n, o))
             /\ Post(<<Event("bound", a, "BOUND", k)>>) /\ helpers' = helpers
    <3>1. /\ ChangesFor(a) /\ BindKeyExists(a, k)'
          /\ \A j \in CreateKeys : CreateKeyExists(a, j)' <=> CreateKeyExists(a, j)
          /\ \A j \in BindKeys \ {k} : BindKeyExists(a, j)' <=> BindKeyExists(a, j)
      BY <1>1, <1>3, <1>5, <2>2, <2>3, BindChanges
    <3>. QED
      BY <1>1, <1>3, <1>5, <2>1, <2>3, <3>1, BindAnswered
  <2>4. CASE r # "BOUND" /\ Refused(<<Event("bound", a, r, k)>>)
    <3>1. /\ Post(<<Event("bound", a, r, k)>>) /\ helpers' = helpers /\ UNCHANGED modelVars
      BY <2>4 DEF Refused
    <3>2. /\ ChangesFor(a)
          /\ \A j : /\ CreateKeyExists(a, j)' <=> CreateKeyExists(a, j)
                    /\ BindKeyExists(a, j)' <=> BindKeyExists(a, j)
      BY <1>1, <3>1, NothingChanges
    <3>. QED
      BY <1>1, <1>3, <1>4, <1>5, <2>1, <2>4, <3>1, <3>2, BindAnswered
  <2>. QED
    BY <1>5, <2>3, <2>4
<1>. QED
  BY <1>1, <1>2, <1>5 DEF RunBind

\* What an unbind that is due says of its helper.
LEMMA UnbindPending ==
  ASSUME NEW a, NEW k, BindHelper(a, k), In(Request("unbind", a, k))
  PROVE  LET s == helpers[a]
             unbound == Event("unbound", a, "UNBOUND", k)
         IN /\ ~In(Event("unbound", a, "BIND_KEY_DNE", k))
            /\ \A v \in Answers : ~In(Event("bound", a, v, k))
            /\ \/ /\ k \notin s.bindRecv \cup s.bindDone \cup s.unbindSend \cup s.unbindRecv
                  /\ ~In(Request("bind", a, k)) /\ ~In(unbound) /\ ~BindKeyExists(a, k)
               \/ /\ k \in s.bindRecv /\ k \notin s.bindSend \cup s.bindDone \cup s.unbindRecv
                  /\ In(Request("bind", a, k)) /\ ~In(unbound) /\ ~BindKeyExists(a, k)
               \/ /\ k \in s.bindDone /\ k \notin s.bindSend \cup s.bindRecv
                  /\ k \in s.unbindRecv \ s.unbindSend
                  /\ ~In(Request("bind", a, k)) /\ (BindKeyExists(a, k) <=> ~In(unbound))
<1>1. "BOUND" \in Answers /\ Failures = Answers \ {"BOUND"}
  BY DEF Answers, Failures, BoundResults
<1>. QED
  BY <1>1 DEF BindHelper

(* unbind: the binding is undone if it exists.  If not, the answer is late:*)
(* it finds a helper of which an unbound is before it, or which has been   *)
(* used again, or is not in use.                                           *)
LEMMA UnbindAnswered ==
  ASSUME Executes, NEW a \in Live, Head(sysq).aid = a, NEW k \in BindKeys,
         Head(sysq) = Request("unbind", a, k),
         NEW r \in {"UNBOUND", "BIND_KEY_DNE"}, r = "UNBOUND" <=> BindKeyExists(a, k),
         Post(<<Event("unbound", a, r, k)>>), helpers' = helpers, ChangesFor(a),
         \A j \in CreateKeys : CreateKeyExists(a, j)' <=> CreateKeyExists(a, j),
         \A j \in BindKeys \ {k} : BindKeyExists(a, j)' <=> BindKeyExists(a, j),
         ~BindKeyExists(a, k)'
  PROVE  SysInv'
<1> DEFINE s == helpers[a]
           bind == Request("bind", a, k)
           Bound(v) == Event("bound", a, v, k)
           unbind == Request("unbind", a, k)
           unbound == Event("unbound", a, "UNBOUND", k)
           late == Event("unbound", a, "BIND_KEY_DNE", k)
           e == Event("unbound", a, r, k)
<1>1. SysInv /\ a \in Aids /\ In(Head(sysq))
  BY HeadType DEF Executes
<1>2. /\ BindItem(bind, a, k) /\ BindItem(unbind, a, k)
      /\ \A v \in Answers : BindItem(Bound(v), a, k)
      /\ BindItem(unbound, a, k) /\ BindItem(late, a, k)
  BY <1>1, BindItems
<1>3. BindHelper(a, k)
  BY <1>1 DEF SysInv, HelpersInOrder
<1>4. /\ ~In(late) /\ \A v \in Answers : ~In(Bound(v))
      /\ \/ /\ k \notin s.bindRecv \cup s.bindDone \cup s.unbindSend \cup s.unbindRecv
            /\ ~In(bind) /\ ~In(unbound) /\ ~BindKeyExists(a, k)
         \/ /\ k \in s.bindRecv /\ k \notin s.bindSend \cup s.bindDone \cup s.unbindRecv
            /\ In(bind) /\ ~In(unbound) /\ ~BindKeyExists(a, k)
         \/ /\ k \in s.bindDone /\ k \notin s.bindSend \cup s.bindRecv
            /\ k \in s.unbindRecv \ s.unbindSend
            /\ ~In(bind) /\ (BindKeyExists(a, k) <=> ~In(unbound))
  BY <1>1, <1>3, UnbindPending
<1>5. /\ r = "UNBOUND" => e = unbound
      /\ r # "UNBOUND" => e = late
      /\ e.aid = a
  BY DEF Event
<1>6. /\ bind # unbind /\ bind # unbound /\ bind # late /\ unbind # unbound /\ unbind # late
      /\ unbound # late /\ \A v : unbind # Bound(v) /\ unbound # Bound(v) /\ late # Bound(v)
  BY BindItemsApart
<1> HIDE DEF bind, Bound, unbind, unbound, late, e
<1>7. /\ unbind \in Items /\ unbound \in Items
      /\ e \in Items /\ BindItem(e, a, k) /\ ~In(e) /\ e # unbind /\ e # bind
      /\ \A v : Bound(v) # e
  BY <1>2, <1>4, <1>5, <1>6 DEF BindItem
<1>8. /\ Local(unbind, a, <<e>>)
      /\ \A x : On(<<e>>, x) <=> x = e
      /\ \A x \in Items : x.aid = a => (On(Underway', x) <=> (In(x) /\ x # unbind) \/ x = e)
      /\ \A x, y \in Items : x # unbind /\ (Before(x, y) \/ (In(x) /\ y = e)) =>
           InOrder(Underway', x, y)
  BY <1>1, <1>5, <1>7, AnswerLocal DEF unbind, e
<1>9. \A x : BindItem(x, a, k) => (On(Underway', x) <=> (In(x) /\ x # unbind) \/ x = e)
  BY <1>8 DEF BindItem
<1>10. /\ ~On(Underway', unbind) /\ \A v \in Answers : ~On(Underway', Bound(v))
       /\ On(Underway', bind) <=> In(bind)
       /\ On(Underway', unbound) <=> In(unbound) \/ e = unbound
       /\ On(Underway', late) <=> e = late
       /\ In(unbound) => InOrder(Underway', unbound, e)
  BY <1>2, <1>4, <1>6, <1>7, <1>8, <1>9
<1>11. ASSUME r = "UNBOUND"
       PROVE  BindHelper(a, k)'
  <2>1. /\ k \in s.bindDone /\ k \notin s.bindSend \cup s.bindRecv
        /\ k \in s.unbindRecv \ s.unbindSend
        /\ ~On(Underway', bind) /\ On(Underway', unbound) /\ ~On(Underway', late)
    BY <1>4, <1>5, <1>6, <1>10, <1>11
  <2>. QED
    BY <1>10, <2>1 DEF BindHelper, In, Before, bind, Bound, unbind, unbound, late
<1>12. ASSUME r # "UNBOUND"
       PROVE  BindHelper(a, k)'
  <2>1. On(Underway', late) /\ (On(Underway', unbound) <=> In(unbound))
    BY <1>5, <1>6, <1>10, <1>12
  <2>2. In(unbound) => InOrder(Underway', unbound, late)
    BY <1>5, <1>10, <1>12
  <2>3. \/ /\ k \notin s.bindRecv \cup s.bindDone \cup s.unbindSend \cup s.unbindRecv
           /\ ~On(Underway', bind) /\ ~On(Underway', unbound)
        \/ /\ k \in s.bindRecv /\ k \notin s.bindSend \cup s.bindDone \cup s.unbindRecv
           /\ On(Underway', bind) /\ ~On(Underway', unbound)
        \/ /\ k \in s.bindDone /\ k \notin s.bindSend \cup s.bindRecv
           /\ k \in s.unbindRecv \ s.unbindSend
           /\ ~On(Underway', bind) /\ On(Underway', unbound)
           /\ InOrder(Underway', unbound, late)
    BY <1>4, <1>10, <1>12, <2>1, <2>2
  <2>. QED
    BY <1>10, <2>1, <2>3 DEF BindHelper, In, Before, bind, Bound, unbind, unbound, late
<1>13. /\ \A x \in Items : On(<<e>>, x) => BindItem(x, a, k)
       /\ BindSetsBut(helpers[a], helpers'[a], k) /\ SameChildSets(helpers[a], helpers'[a])
  BY <1>7, <1>8 DEF BindSetsBut, SameChildSets
<1>. QED
  BY <1>1, <1>2, <1>8, <1>11, <1>12, <1>13, BindStep

LEMMA RunUnbindStep ==
  ASSUME Executes, Head(sysq).op = "unbind", NEW a, Head(sysq).aid = a,
         NEW k, Head(sysq).key = k, RunUnbind(a, k)
  PROVE  SysInv'
<1> DEFINE h == Head(sysq)
<1>1. h \in Items /\ a \in Aids /\ aids = Live /\ SysInv /\ IInv
  BY HeadType DEF SysOps, Executes, SysInv
<1>2. CASE a \notin Live /\ Skip
  BY <1>1, <1>2, SkipStep
<1>3. k \in BindKeys /\ h = Request("unbind", a, k)
  BY <1>1, ItemFields, BindItemCases DEF BindOps
<1>4. CASE a \in Live /\ BindingsOf(a, k) = {} /\ Refused(<<Event("unbound", a, "BIND_KEY_DNE", k)>>)
  <2>1. ~BindKeyExists(a, k)
    BY <1>1, <1>4, KeyOfBinding
  <2>2. /\ Post(<<Event("unbound", a, "BIND_KEY_DNE", k)>>) /\ helpers' = helpers
        /\ UNCHANGED modelVars
    BY <1>4 DEF Refused
  <2>3. /\ ChangesFor(a)
        /\ \A j : /\ CreateKeyExists(a, j)' <=> CreateKeyExists(a, j)
                  /\ BindKeyExists(a, j)' <=> BindKeyExists(a, j)
    BY <1>1, <2>2, NothingChanges
  <2>. QED
    BY <1>1, <1>3, <1>4, <2>1, <2>2, <2>3, UnbindAnswered
<1>5. CASE /\ a \in Live /\ Unbind(a, k) /\ helpers' = helpers
           /\ Post(<<Event("unbound", a, "UNBOUND", k)>>)
  <2>1. BindKeyExists(a, k)
    BY <1>1, <1>5, KeyOfBinding DEF Unbind
  <2>2. /\ ChangesFor(a) /\ ~BindKeyExists(a, k)'
        /\ \A j \in CreateKeys : CreateKeyExists(a, j)' <=> CreateKeyExists(a, j)
        /\ \A j \in BindKeys \ {k} : BindKeyExists(a, j)' <=> BindKeyExists(a, j)
    BY <1>1, <1>3, <1>5, UnbindChanges
  <2>. QED
    BY <1>1, <1>3, <1>5, <2>1, <2>2, UnbindAnswered
<1>. QED
  BY <1>1, <1>2, <1>4, <1>5 DEF RunUnbind, Unbind
-----------------------------------------------------------------------------
(* The destruction of the automaton t and all below it, the child k of a. *)

\* A sequence of the elements of a set.
LEMMA SequenceOfSet ==
  ASSUME NEW S, IsFiniteSet(S), NEW p \in SetToSeqs(S)
  PROVE  /\ p \in Seq(S) /\ \A x : On(p, x) <=> x \in S
         /\ \A x : ~InOrder(p, x, x)
         /\ \A i, j \in DOMAIN p : p[i] = p[j] => i = j
<1> DEFINE n == Cardinality(S)
<1>1. n \in Nat /\ IsFiniteSet(1..n) /\ Cardinality(1..n) = n
  BY FS_CardinalityType, FS_Interval
<1>2. p \in [1..n -> S] /\ \A i, j \in 1..n : i # j => p[i] # p[j]
  BY DEF SetToSeqs
<1> HIDE DEF n
<1>3. p \in Injection(1..n, S)
  BY <1>2 DEF Injection, IsInjective
<1>4. p \in Surjection(1..n, S)
  BY <1>1, <1>3, FS_Injection DEF n
<1>5. \A x : On(p, x) <=> x \in S
  BY <1>2, <1>4 DEF On, Surjection
<1>6. \A x : ~InOrder(p, x, x)
  BY <1>1, <1>2 DEF InOrder
<1>. QED
  BY <1>1, <1>2, <1>5, <1>6

\* What the destruction of the automata D says to the automata.
UnboundOf(D) == {Event("unbound", b.binder, "UNBOUND", b.key) : b \in Dissolved(D)}
DestroyedOf(D) ==
  {Event("destroyed", records[d].parent, "AUTOMATON_DESTROYED", records[d].key) :
     d \in {x \in D : records[x].parent # NoAid}}

Earlier(s, j) == {s[i] : i \in 1..(j - 1)}

\* Each binding that dissolves does so with the first of its automata.
LEMMA FirstInvolved ==
  ASSUME NEW D, NEW n \in Nat, NEW s \in [1..n -> D], \A d \in D : \E j \in 1..n : s[j] = d,
         \A i, j \in 1..n : s[i] = s[j] => i = j, NEW b \in Dissolved(D)
  PROVE  \E j \in 1..n : b \in Dissolved({s[j]}) \ Dissolved(Earlier(s, j))
<1> DEFINE Hit(j) == b.output.aid = s[j] \/ b.input.aid = s[j] \/ b.binder = s[j]
<1>1. b \in bindings /\ \E j \in 1..n : Hit(j)
  BY DEF Dissolved, Involves
<1>2. \A j \in 1..n : b \in Dissolved({s[j]}) <=> Hit(j)
  BY <1>1 DEF Dissolved, Involves
<1>3. ASSUME NEW j \in 1..n, \A i \in 1..n : i < j => ~Hit(i)
      PROVE  b \notin Dissolved(Earlier(s, j))
  <2>1. \A i \in 1..(j - 1) : i \in 1..n /\ i < j
    OBVIOUS
  <2>. QED
    BY <1>3, <2>1 DEF Dissolved, Involves, Earlier
<1>4. PICK j \in 1..n : Hit(j)
  BY <1>1
<1>5. \E m \in 1..n : Hit(m) /\ \A i \in 1..n : i < m => ~Hit(i)
  <2>1. SUFFICES ASSUME \A m \in 1..n : Hit(m) => \E i \in 1..n : i < m /\ Hit(i)
                 PROVE  FALSE
    OBVIOUS
  <2>2. PICK j2 \in 1..n : j2 < j /\ Hit(j2)
    BY <1>4, <2>1
  <2>3. PICK j3 \in 1..n : j3 < j2 /\ Hit(j3)
    BY <2>1, <2>2
  <2>4. PICK j4 \in 1..n : j4 < j3 /\ Hit(j4)
    BY <2>1, <2>3
  <2>5. j # j2 /\ j # j3 /\ j # j4 /\ j2 # j3 /\ j2 # j4 /\ j3 # j4
    BY <2>2, <2>3, <2>4
  <2>6. /\ s[j] # s[j2] /\ s[j] # s[j3] /\ s[j] # s[j4]
        /\ s[j2] # s[j3] /\ s[j2] # s[j4] /\ s[j3] # s[j4]
    BY <2>5
  <2>. QED
    BY <1>4, <2>2, <2>3, <2>4, <2>6
<1>. QED
  BY <1>2, <1>3, <1>5

LEMMA PostsOf ==
  ASSUME IInv, IsFiniteSet(bindings), NEW t \in Live,
         NEW s \in DestroyOrders(t), NEW p \in DestroyPosts(s)
  PROVE  /\ p \in Seq(Items) /\ \A x : ~InOrder(p, x, x)
         /\ \A x : On(p, x) <=> x \in UnboundOf(Subtree(t)) \cup DestroyedOf(Subtree(t))
         /\ \A x : On(p, x) => x.aid \in Live
<1> DEFINE D == Subtree(t)
           U == UnboundOf(D) \cup DestroyedOf(D)
           n == Cardinality(D)
           unbound == [j \in DOMAIN s |-> UnboundEvents(s[j], {s[i] : i \in 1..(j - 1)})]
           posts == [j \in DOMAIN s |-> unbound[j] \cup Range(DestroyedEvent(s[j]))]
<1>1. /\ TypeOK /\ ParentsAndChildrenAgree /\ NoDanglingBinding
      /\ D \subseteq Live /\ Live \subseteq Aids /\ IsFiniteSet(Aids)
  <2>1. IsFiniteSet(Aids)
    BY MaxAidAssumption, FS_Interval DEF Aids
  <2>. QED
    BY <2>1, SubtreeClosed DEF IInv, Safe, TypeOK
<1>2. IsFiniteSet(D)
  BY <1>1, FS_Subset
<1>3. s \in SetToSeqs(D) /\ p \in SetToSeqs(UNION Range(posts))
  BY DEF DestroyOrders, DestroyPosts
<1>4. /\ n \in Nat /\ s \in [1..n -> D] /\ \A d \in D : \E j \in 1..n : s[j] = d
      /\ \A i, j \in 1..n : s[i] = s[j] => i = j
  <2>1. s \in [1..n -> D] /\ n \in Nat
    BY <1>2, <1>3, FS_CardinalityType DEF SetToSeqs
  <2>2. /\ \A x : On(s, x) <=> x \in D
        /\ \A i, j \in DOMAIN s : s[i] = s[j] => i = j
    BY <1>2, <1>3, SequenceOfSet
  <2>. QED
    BY <2>1, <2>2 DEF On
<1> HIDE DEF D, n
<1>5. \A x : x \in UNION Range(posts) <=>
             \E j \in 1..n : \/ x \in UnboundEvents(s[j], Earlier(s, j))
                             \/ x \in Range(DestroyedEvent(s[j]))
  <2>1. DOMAIN s = 1..n /\ \A j : Earlier(s, j) = {s[i] : i \in 1..(j - 1)}
    BY <1>4 DEF Earlier
  <2>2. /\ DOMAIN posts = 1..n
        /\ \A j \in 1..n : posts[j] = UnboundEvents(s[j], Earlier(s, j))
                                        \cup Range(DestroyedEvent(s[j]))
    BY <2>1
  <2> HIDE DEF posts
  <2>3. Range(posts) = {posts[j] : j \in 1..n}
    BY <2>2 DEF Range
  <2>4. \A x : x \in UNION Range(posts) <=> \E j \in 1..n : x \in posts[j]
    BY <2>3
  <2>. QED
    BY <2>2, <2>4
<1>6. \A d : Range(DestroyedEvent(d)) =
               IF records[d].parent # NoAid
               THEN {Event("destroyed", records[d].parent, "AUTOMATON_DESTROYED", records[d].key)}
               ELSE {}
  BY DEF DestroyedEvent, If, Range
<1>7. UNION Range(posts) = U
  <2>1. ASSUME NEW j \in 1..n, NEW x \in UnboundEvents(s[j], Earlier(s, j))
        PROVE  x \in UnboundOf(D)
    BY <1>4 DEF UnboundEvents, UnboundOf, Dissolved, Involves
  <2>2. ASSUME NEW b \in Dissolved(D)
        PROVE  \E j \in 1..n : Event("unbound", b.binder, "UNBOUND", b.key)
                                 \in UnboundEvents(s[j], Earlier(s, j))
    <3>1. PICK j \in 1..n : b \in Dissolved({s[j]}) \ Dissolved(Earlier(s, j))
      BY <1>4, FirstInvolved
    <3>. QED
      BY <3>1 DEF UnboundEvents
  <2>3. \A x : x \in DestroyedOf(D) <=> \E j \in 1..n : x \in Range(DestroyedEvent(s[j]))
    BY <1>4, <1>6 DEF DestroyedOf
  <2>4. \A x : x \in UnboundOf(D) <=>
               \E j \in 1..n : x \in UnboundEvents(s[j], Earlier(s, j))
    BY <2>1, <2>2 DEF UnboundOf
  <2>. QED
    BY <1>5, <2>3, <2>4
<1>8. ASSUME NEW x \in UnboundOf(D)
      PROVE  x \in Items /\ x.aid \in Live
  <2>1. PICK b \in Dissolved(D) : x = Event("unbound", b.binder, "UNBOUND", b.key)
    BY DEF UnboundOf
  <2>2. b \in Binding /\ b.binder \in Live
    BY <1>1, <2>1 DEF Dissolved, TypeOK, NoDanglingBinding
  <2>. QED
    BY <2>1, <2>2 DEF Binding, Items, Event
<1>9. ASSUME NEW x \in DestroyedOf(D)
      PROVE  x \in Items /\ x.aid \in Live
  <2>1. PICK d \in D : /\ records[d].parent # NoAid
                       /\ x = Event("destroyed", records[d].parent,
                                    "AUTOMATON_DESTROYED", records[d].key)
    BY DEF DestroyedOf
  <2>2. records[d].parent \in Live /\ records[d].key \in CreateKeys
    BY <1>1, <2>1 DEF ParentsAndChildrenAgree
  <2>. QED
    BY <1>1, <2>1, <2>2 DEF Items, Event
<1>10. IsFiniteSet(U)
  <2>1. IsFiniteSet(Dissolved(D)) /\ IsFiniteSet({x \in D : records[x].parent # NoAid})
    BY <1>2, FS_Subset DEF Dissolved
  <2>2. [b \in Dissolved(D) |-> Event("unbound", b.binder, "UNBOUND", b.key)]
          \in Surjection(Dissolved(D), UnboundOf(D))
    BY DEF Surjection, UnboundOf
  <2>3. [d \in {x \in D : records[x].parent # NoAid} |->
           Event("destroyed", records[d].parent, "AUTOMATON_DESTROYED", records[d].key)]
          \in Surjection({x \in D : records[x].parent # NoAid}, DestroyedOf(D))
    BY DEF Surjection, DestroyedOf
  <2>. QED
    BY <2>1, <2>2, <2>3, FS_Surjection, FS_Union
<1>11. p \in SetToSeqs(U)
  BY <1>3, <1>7
<1> HIDE DEF U, posts, unbound
<1>12. p \in Seq(U) /\ (\A x : On(p, x) <=> x \in U) /\ \A x : ~InOrder(p, x, x)
  BY <1>10, <1>11, SequenceOfSet
<1>13. U \subseteq Items /\ \A x \in U : x.aid \in Live
  BY <1>8, <1>9 DEF U
<1>. QED
  BY <1>12, <1>13, SeqMonotonic DEF U, D

(* Of the automata that remain, one loses its child, and those lose their  *)
(* bindings whose bindings dissolve; and just these are told.              *)
LEMMA DestroyChanges ==
  ASSUME IInv, IInv', NEW a \in Live, NEW k \in CreateKeys, CreateKeyExists(a, k),
         NEW t, t = records[a].children[k], InnerDestroy(t)
  PROVE  /\ t \in Live /\ Live' = Live \ Subtree(t)
         /\ \A b \in Live', j \in CreateKeys :
              CreateKeyExists(b, j)' <=> CreateKeyExists(b, j) /\ ~(b = a /\ j = k)
         /\ \A b \in Live', j \in BindKeys : BindKeyExists(b, j)' => BindKeyExists(b, j)
<1>1. /\ TypeOK /\ t \in Live /\ records[t].parent = a /\ records[t].key = k
  BY DEF IInv, Safe, ParentsAndChildrenAgree
<1>2. /\ Live' = Live \ Subtree(t)
      /\ \A x \in Live' :
           /\ records'[x].bindKeys \subseteq records[x].bindKeys
           /\ \A j \in CreateKeys :
                records'[x].children[j] =
                  IF x = a /\ j = k THEN NoAid ELSE records[x].children[j]
  <2>1. DOMAIN records' = Live \ Subtree(t)
    BY <1>1, InnerDestroyRecords
  <2>2. \A x \in Live \ Subtree(t) :
          /\ records'[x].bindKeys \subseteq records[x].bindKeys
          /\ \A j \in CreateKeys :
               records'[x].children[j] =
                 IF x = a /\ j = k THEN NoAid ELSE records[x].children[j]
    <3>1. \A x \in Live \ Subtree(t) :
            /\ records'[x].instance = records[x].instance
            /\ records'[x].parent = records[x].parent
            /\ records'[x].key = records[x].key
            /\ records'[x].bindKeys =
                 records[x].bindKeys
                   \ {b.key : b \in {c \in Dissolved(Subtree(t)) : c.binder = x}}
            /\ \A j \in CreateKeys :
                 records'[x].children[j] =
                   IF x = records[t].parent /\ j = records[t].key THEN NoAid
                   ELSE records[x].children[j]
      BY <1>1, InnerDestroyRecords
    <3>. QED
      BY <1>1, <3>1
  <2>3. Live' = Live \ Subtree(t)
    BY <2>1 DEF Live
  <2>. QED
    BY <2>2, <2>3
<1>. QED
  BY <1>1, <1>2 DEF CreateKeyExists, BindKeyExists

LEMMA DestroyedPosted ==
  ASSUME IInv, NEW a \in Live, NEW k \in CreateKeys, CreateKeyExists(a, k),
         NEW t, t = records[a].children[k], NEW x, x.aid \in Live \ Subtree(t)
  PROVE  x \in DestroyedOf(Subtree(t)) <=> x = Event("destroyed", a, "AUTOMATON_DESTROYED", k)
<1>1. /\ TypeOK /\ ParentsAndChildrenAgree
      /\ t \in Live /\ records[t].parent = a /\ records[t].key = k
      /\ a # NoAid
  BY DEF IInv, Safe, ParentsAndChildrenAgree, TypeOK, Aids, NoAid
<1>2. /\ t \in Subtree(t) /\ Subtree(t) \subseteq Live
      /\ \A b \in Live, j \in CreateKeys :
           /\ CreateKeyExists(b, j)
           /\ records[b].children[j] \in Subtree(t)
           /\ records[b].children[j] # t
           => b \in Subtree(t)
  BY <1>1, SubtreeClosed
<1>3. ASSUME NEW d \in Subtree(t), records[d].parent # NoAid,
             x = Event("destroyed", records[d].parent, "AUTOMATON_DESTROYED", records[d].key)
      PROVE  x = Event("destroyed", a, "AUTOMATON_DESTROYED", k)
  <2> DEFINE b == records[d].parent
             j == records[d].key
  <2>1. x.aid = b
    BY <1>3 DEF Event
  <2>2. b \in Live /\ j \in CreateKeys /\ records[b].children[j] = d /\ d # NoAid
    <3>1. d \in Live /\ d \in Aids
      BY <1>1, <1>2 DEF TypeOK
    <3>2. d # NoAid
      BY <3>1, MaxAidAssumption DEF Aids, NoAid
    <3>. QED
      BY <1>1, <1>3, <3>1, <3>2 DEF ParentsAndChildrenAgree
  <2>3. d = t
    BY <1>2, <2>1, <2>2 DEF CreateKeyExists
  <2>. QED
    BY <1>1, <1>3, <2>3
<1>4. Event("destroyed", a, "AUTOMATON_DESTROYED", k) \in DestroyedOf(Subtree(t))
  BY <1>1, <1>2 DEF DestroyedOf
<1>. QED
  BY <1>3, <1>4 DEF DestroyedOf

LEMMA UnboundPosted ==
  ASSUME IInv, IInv', NEW t \in Live, InnerDestroy(t), NEW x,
         x.aid \in Live', Live' \subseteq Live
  PROVE  x \in UnboundOf(Subtree(t)) <=>
           \E j \in BindKeys : /\ x = Event("unbound", x.aid, "UNBOUND", j)
                               /\ BindKeyExists(x.aid, j) /\ ~BindKeyExists(x.aid, j)'
<1> DEFINE B == Dissolved(Subtree(t))
<1>1. /\ bindings' = bindings \ B /\ B \subseteq bindings
      /\ \A b \in bindings : b.key \in BindKeys
  BY DEF InnerDestroy, Dissolved, IInv, TypeOK, Binding
<1>2. /\ \A b, c \in bindings : b.binder = c.binder /\ b.key = c.key => b = c
      /\ \A j : BindKeyExists(x.aid, j) <=>
                  \E b \in bindings : b.binder = x.aid /\ b.key = j
      /\ \A j : BindKeyExists(x.aid, j)' <=>
                  \E b \in bindings' : b.binder = x.aid /\ b.key = j
  BY DEF IInv, Safe, BindKeysExact, BindKeyExists
<1> HIDE DEF B
<1>3. \A j : BindKeyExists(x.aid, j) /\ ~BindKeyExists(x.aid, j)' <=>
               \E b \in B : b.binder = x.aid /\ b.key = j
  BY <1>1, <1>2
<1>4. x \in UnboundOf(Subtree(t)) <=>
        \E b \in B : x = Event("unbound", b.binder, "UNBOUND", b.key)
  BY DEF UnboundOf, B
<1>5. \A b : x = Event("unbound", b.binder, "UNBOUND", b.key) => x.aid = b.binder
  BY DEF Event
<1>6. \A b \in B : b.key \in BindKeys
  BY <1>1
<1>. QED
  BY <1>3, <1>4, <1>5, <1>6

\* What a destroy that is due says of its helper.
LEMMA DestroyPending ==
  ASSUME NEW a, NEW k, ChildHelper(a, k), In(Request("destroy", a, k))
  PROVE  LET s == helpers[a]
         IN /\ k \in s.createDone /\ k \notin s.createSend \cup s.createRecv
            /\ k \in s.destroyRecv \ s.destroySend
            /\ ~In(Request("create", a, k))
            /\ ~In(Event("created", a, "AUTOMATON_CREATED", k))
            /\ ~In(Event("created", a, "INSTANCE_EXISTS", k))
            /\ ~In(Event("destroyed", a, "AUTOMATON_DESTROYED", k))
            /\ CreateKeyExists(a, k)
BY DEF ChildHelper

\* A binding that exists has no unbound under way.
LEMMA BoundHelper ==
  ASSUME NEW a, NEW k, BindHelper(a, k), BindKeyExists(a, k)
  PROVE  LET s == helpers[a]
             Bound(r) == Event("bound", a, r, k)
             unbind == Request("unbind", a, k)
             unbound == Event("unbound", a, "UNBOUND", k)
             late == Event("unbound", a, "BIND_KEY_DNE", k)
         IN /\ ~In(Request("bind", a, k)) /\ ~In(unbound) /\ ~(In(unbind) /\ In(late))
            /\ \/ /\ k \in s.bindRecv /\ k \notin s.bindSend \cup s.bindDone \cup s.unbindRecv
                  /\ In(Bound("BOUND")) /\ \A v \in Failures : ~In(Bound(v))
                  /\ ~In(unbind) /\ (In(late) => Before(late, Bound("BOUND")))
               \/ /\ k \in s.bindDone /\ k \notin s.bindSend \cup s.bindRecv
                  /\ \A v \in Answers : ~In(Bound(v))
                  /\ ~In(late)
                  /\ \/ k \notin s.unbindRecv /\ ~In(unbind)
                     \/ k \in s.unbindRecv \ s.unbindSend
<1>1. ASSUME Before(Event("unbound", a, "UNBOUND", k), Event("unbound", a, "BIND_KEY_DNE", k))
      PROVE  In(Event("unbound", a, "UNBOUND", k))
  BY <1>1, InOrderOn DEF In, Before
<1>. QED
  BY <1>1 DEF BindHelper

\* The binding of a helper is dissolved, and its automaton is told.
LEMMA BindingDissolved ==
  ASSUME NEW a \in Aids, NEW k \in BindKeys, BindHelper(a, k),
         BindKeyExists(a, k), ~BindKeyExists(a, k)', helpers'[a] = helpers[a],
         NEW u, u = Event("unbound", a, "UNBOUND", k),
         \A x : BindItem(x, a, k) => (On(Underway', x) <=> In(x) \/ x = u),
         \A x, y : BindItem(x, a, k) /\ BindItem(y, a, k) /\ (Before(x, y) \/ (In(x) /\ y = u)) =>
           InOrder(Underway', x, y)
  PROVE  BindHelper(a, k)'
<1> DEFINE s == helpers[a]
           bind == Request("bind", a, k)
           Bound(v) == Event("bound", a, v, k)
           unbind == Request("unbind", a, k)
           late == Event("unbound", a, "BIND_KEY_DNE", k)
<1>1. /\ BindItem(bind, a, k) /\ BindItem(unbind, a, k)
      /\ \A v \in Answers : BindItem(Bound(v), a, k)
      /\ BindItem(u, a, k) /\ BindItem(late, a, k)
  BY BindItems
<1>2. bind # u /\ unbind # u /\ late # u /\ \A v : Bound(v) # u
  BY BindItemsApart
<1>3. "BOUND" \in Answers /\ Failures \subseteq Answers
  BY DEF Answers, Failures, BoundResults
<1>4. /\ ~In(bind) /\ ~In(u) /\ ~(In(unbind) /\ In(late))
      /\ \/ /\ k \in s.bindRecv /\ k \notin s.bindSend \cup s.bindDone \cup s.unbindRecv
            /\ In(Bound("BOUND")) /\ \A v \in Failures : ~In(Bound(v))
            /\ ~In(unbind) /\ (In(late) => Before(late, Bound("BOUND")))
         \/ /\ k \in s.bindDone /\ k \notin s.bindSend \cup s.bindRecv
            /\ \A v \in Answers : ~In(Bound(v))
            /\ ~In(late)
            /\ \/ k \notin s.unbindRecv /\ ~In(unbind)
               \/ k \in s.unbindRecv \ s.unbindSend
  BY BoundHelper
<1> HIDE DEF bind, Bound, unbind, late
<1>5. /\ On(Underway', bind) <=> In(bind)
      /\ On(Underway', unbind) <=> In(unbind)
      /\ On(Underway', late) <=> In(late)
      /\ \A v \in Answers : On(Underway', Bound(v)) <=> In(Bound(v))
      /\ On(Underway', u)
  BY <1>1, <1>2
<1>6. /\ Before(late, Bound("BOUND")) => InOrder(Underway', late, Bound("BOUND"))
      /\ In(Bound("BOUND")) => InOrder(Underway', Bound("BOUND"), u)
  BY <1>1, <1>3
<1>. QED
  BY <1>3, <1>4, <1>5, <1>6 DEF BindHelper, In, Before, bind, Bound, unbind, late

(* destroy: of the automata that remain, the helper of the child and those *)
(* of the bindings that dissolve get the notifications they wait for, or   *)
(* do not expect yet; nothing happens to the other helpers.                *)
LEMMA DestroyKeeps ==
  ASSUME Executes, NEW a \in Live, NEW k \in CreateKeys, NEW h, h = Head(sysq),
         h = Request("destroy", a, k), h.aid = a,
         Destroy(a, k), NEW t, t = records[a].children[k],
         NEW s \in DestroyOrders(t), NEW p \in DestroyPosts(s), Post(p),
         helpers' = [x \in Aids |-> IF x \in Live' THEN helpers[x] ELSE NoHelpers]
  PROVE  SysInv'
<1> DEFINE destroyed == Event("destroyed", a, "AUTOMATON_DESTROYED", k)
           Unbound(b, j) == Event("unbound", b, "UNBOUND", j)
<1>1. /\ SysInv /\ IInv /\ IsFiniteSet(bindings) /\ a \in Aids /\ In(h) /\ Live \subseteq Aids
      /\ helpers \in [Aids -> HelperSets]
  BY HeadType DEF Executes, SysInv
<1>2. ChildItem(h, a, k) /\ h \in Items /\ ChildItem(destroyed, a, k)
  BY <1>1, ChildItems DEF ChildItem
<1>3. CreateKeyExists(a, k) /\ InnerDestroy(t)
  BY DEF Destroy
<1>4. IInv'
  <2>1. TypeOK' /\ Safe'
    BY <1>1, NextTypeOK, NextSafe DEF IInv, Next
  <2>. QED
    BY <2>1 DEF IInv
<1>5. /\ t \in Live /\ Live' = Live \ Subtree(t)
      /\ \A b \in Live', j \in CreateKeys :
           CreateKeyExists(b, j)' <=> CreateKeyExists(b, j) /\ ~(b = a /\ j = k)
      /\ \A b \in Live', j \in BindKeys : BindKeyExists(b, j)' => BindKeyExists(b, j)
  BY <1>1, <1>3, <1>4, DestroyChanges
<1>6. /\ p \in Seq(Items) /\ \A x : ~InOrder(p, x, x)
      /\ \A x : On(p, x) <=> x \in UnboundOf(Subtree(t)) \cup DestroyedOf(Subtree(t))
      /\ \A x : On(p, x) => x.aid \in Live
  BY <1>1, <1>5, PostsOf
<1>7. QueueTypes' /\ Moves(h, p)
  <2>1. p \in Seq(SysItems \cup Items)
    BY <1>6, SeqMonotonic
  <2>2. sysq' = Tail(sysq) \o p /\ inhand' = inhand
    BY DEF Post, PushAll
  <2>. QED
    BY <2>1, <2>2, HeadPosts
<1> HIDE DEF destroyed, Unbound
<1>8. \A x : x.aid \in Live' =>
        (On(p, x) <=>
           \/ x = destroyed
           \/ \E j \in BindKeys : /\ x = Unbound(x.aid, j)
                                  /\ BindKeyExists(x.aid, j) /\ ~BindKeyExists(x.aid, j)')
  <2>1. ASSUME NEW x, x.aid \in Live'
        PROVE  On(p, x) <=>
                 \/ x = destroyed
                 \/ \E j \in BindKeys : /\ x = Unbound(x.aid, j)
                                        /\ BindKeyExists(x.aid, j) /\ ~BindKeyExists(x.aid, j)'
    <3>1. x \in DestroyedOf(Subtree(t)) <=> x = destroyed
      BY <1>1, <1>3, <1>5, <2>1, DestroyedPosted DEF destroyed
    <3>2. x \in UnboundOf(Subtree(t)) <=>
            \E j \in BindKeys : /\ x = Unbound(x.aid, j)
                                /\ BindKeyExists(x.aid, j) /\ ~BindKeyExists(x.aid, j)'
      BY <1>1, <1>3, <1>4, <1>5, <2>1, UnboundPosted DEF Unbound
    <3>. QED
      BY <1>6, <3>1, <3>2
  <2>. QED
    BY <2>1
<1>9. /\ ChildHelper(a, k) /\ k \in helpers[a].createDone
      /\ k \notin helpers[a].createSend \cup helpers[a].createRecv
      /\ k \in helpers[a].destroyRecv \ helpers[a].destroySend
      /\ ~In(Request("create", a, k)) /\ ~In(destroyed)
      /\ ~In(Event("created", a, "AUTOMATON_CREATED", k))
      /\ ~In(Event("created", a, "INSTANCE_EXISTS", k))
  BY <1>1, DestroyPending DEF SysInv, HelpersInOrder, destroyed
<1>10. \A x : x.aid \in Live' /\ On(p, x) => ~In(x)
  <2>1. ASSUME NEW b \in Live', NEW j \in BindKeys, BindKeyExists(b, j)
        PROVE  ~In(Unbound(b, j))
    BY <1>1, <1>5, <2>1, BoundHelper DEF SysInv, HelpersInOrder, Unbound
  <2>. QED
    BY <1>8, <1>9, <2>1
<1>11. Once'
  <2>1. \A x \in Items : x.aid \in Live' => ~InOrder(Underway', x, x)
    BY <1>5, <1>6, <1>7, <1>10 DEF Moves
  <2>. QED
    BY <2>1 DEF Once, Before
<1>12. AidsPassed' /\ OnlyLiveHelp' /\ IsFiniteSet(bindings') /\ SanityChecksHold'
  <2>1. counter' = counter /\ aborted' = aborted /\ bindings' \subseteq bindings
    BY <1>3 DEF InnerDestroy, Post
  <2>2. \A x \in SysItems \cup Items : On(Underway', x) => x.aid <= counter
    BY <1>1, <1>6, <1>7 DEF Moves, SysInv, AidsPassed
  <2>3. \A b \in Live' : b <= counter
    BY <1>1, <1>5 DEF SysInv, AidsPassed
  <2>4. AidsPassed'
    BY <2>1, <2>2, <2>3 DEF AidsPassed, In
  <2>5. IsFiniteSet(bindings')
    BY <1>1, <2>1, FS_Subset
  <2>. QED
    BY <1>1, <2>1, <2>4, <2>5 DEF OnlyLiveHelp, SysInv, SanityChecksHold
<1>13. /\ helpers' \in [Aids -> HelperSets]
       /\ \A b \in Live' : b \in Aids /\ b \in Live /\ helpers'[b] = helpers[b]
  <2>1. NoHelpers \in HelperSets
    BY DEF NoHelpers, HelperSets
  <2>. QED
    BY <1>1, <1>5, <2>1
<1>14. /\ \A x \in Items : x.aid \in Live' => (On(Underway', x) <=> (In(x) /\ x # h) \/ On(p, x))
       /\ \A x, y \in Items : x # h /\ (Before(x, y) \/ (In(x) /\ On(p, y))) =>
            InOrder(Underway', x, y)
  BY <1>7, <1>13 DEF Moves
<1>15. ASSUME NEW b \in Live', NEW j \in CreateKeys
       PROVE  ChildHelper(b, j)'
  <2>1. \A x : ChildItem(x, b, j) =>
          (On(Underway', x) <=> (In(x) /\ x # h) \/ x = destroyed)
    <3>1. \A x : ChildItem(x, b, j) => x \in Items /\ x.aid \in Live'
      BY <1>15 DEF ChildItem
    <3>2. \A x, i : ChildItem(x, b, j) => x # Unbound(x.aid, i)
      BY DEF ChildItem, Unbound, Event, ChildOps
    <3>. QED
      BY <1>8, <1>14, <3>1, <3>2
  <2>2. CASE b = a /\ j = k
    <3>1. ~CreateKeyExists(a, k)' /\ helpers'[a] = helpers[a]
      BY <1>5, <1>13, <1>15, <2>2
    <3>2. /\ h # destroyed /\ Request("create", a, k) # destroyed
          /\ Event("created", a, "AUTOMATON_CREATED", k) # destroyed
          /\ Event("created", a, "INSTANCE_EXISTS", k) # destroyed
      BY ChildItemsApart DEF destroyed
    <3>3. /\ ~On(Underway', h) /\ On(Underway', destroyed)
          /\ ~On(Underway', Request("create", a, k))
          /\ ~On(Underway', Event("created", a, "AUTOMATON_CREATED", k))
          /\ ~On(Underway', Event("created", a, "INSTANCE_EXISTS", k))
      BY <1>1, <1>2, <1>9, <2>1, <2>2, <3>2, ChildItems
    <3>. QED
      BY <1>9, <2>2, <3>1, <3>3 DEF ChildHelper, In, destroyed
  <2>3. CASE ~(b = a /\ j = k)
    <3>1. \A x : ChildItem(x, b, j) => x # h /\ x # destroyed
      BY <1>2, <2>3 DEF ChildItem
    <3>2. /\ ChildHelper(b, j) /\ b \in Aids /\ helpers'[b] = helpers[b]
          /\ CreateKeyExists(b, j)' <=> CreateKeyExists(b, j)
      BY <1>1, <1>5, <1>13, <1>15, <2>3 DEF SysInv, HelpersInOrder
    <3>. QED
      BY <2>1, <3>1, <3>2, ChildKept
  <2>. QED
    BY <2>2, <2>3
<1>16. ASSUME NEW b \in Live', NEW j \in BindKeys
       PROVE  BindHelper(b, j)'
  <2>1. /\ BindHelper(b, j) /\ b \in Aids /\ helpers'[b] = helpers[b]
        /\ BindKeyExists(b, j)' => BindKeyExists(b, j)
    BY <1>1, <1>5, <1>13, <1>16 DEF SysInv, HelpersInOrder
  <2>2. /\ BindItem(Unbound(b, j), b, j)
        /\ \A x : BindItem(x, b, j) => /\ x \in Items /\ x.aid \in Live' /\ x.aid = b
                                       /\ x # h /\ x # destroyed
    BY <1>2, <1>16, <2>1, BindItems, ItemFields DEF BindItem, ChildItem, Unbound
  <2>3. \A x, i : BindItem(x, b, j) /\ x = Unbound(b, i) => i = j
    BY DEF BindItem, Unbound, Event
  <2>4. \A x : BindItem(x, b, j) =>
          (On(p, x) <=> /\ x = Unbound(b, j)
                        /\ BindKeyExists(b, j) /\ ~BindKeyExists(b, j)')
    BY <1>8, <2>2, <2>3
  <2>5. CASE BindKeyExists(b, j) /\ ~BindKeyExists(b, j)'
    <3>1. /\ \A x : BindItem(x, b, j) => (On(Underway', x) <=> In(x) \/ x = Unbound(b, j))
          /\ \A x, y : BindItem(x, b, j) /\ BindItem(y, b, j)
                       /\ (Before(x, y) \/ (In(x) /\ y = Unbound(b, j))) =>
               InOrder(Underway', x, y)
      BY <1>14, <2>2, <2>4, <2>5
    <3>. QED
      BY <2>1, <2>5, <3>1, BindingDissolved DEF Unbound
  <2>6. CASE BindKeyExists(b, j)' <=> BindKeyExists(b, j)
    <3>1. /\ \A x : BindItem(x, b, j) => (On(Underway', x) <=> In(x))
          /\ \A x, y : BindItem(x, b, j) /\ BindItem(y, b, j) /\ Before(x, y) =>
               InOrder(Underway', x, y)
      BY <1>14, <2>2, <2>4, <2>6
    <3>. QED
      BY <2>1, <2>6, <3>1, BindKept
  <2>. QED
    BY <2>1, <2>5, <2>6
<1>17. HelpersInOrder'
  BY <1>15, <1>16 DEF HelpersInOrder
<1>. QED
  BY <1>4, <1>7, <1>11, <1>12, <1>13, <1>17 DEF SysInv

LEMMA RunDestroyStep ==
  ASSUME Executes, Head(sysq).op = "destroy", NEW a, Head(sysq).aid = a,
         NEW k, Head(sysq).key = k, RunDestroy(a, k)
  PROVE  SysInv'
<1> DEFINE h == Head(sysq)
<1>1. h \in Items /\ a \in Aids /\ aids = Live /\ SysInv /\ In(h)
  BY HeadType DEF SysOps, Executes
<1>2. CASE a \notin Live /\ Skip
  BY <1>1, <1>2, SkipStep
<1>3. k \in CreateKeys /\ h = Request("destroy", a, k)
  BY <1>1, ItemFields, ChildItemCases DEF ChildOps
<1>4. a \in Live => CreateKeyExists(a, k)
  BY <1>1, <1>3, DestroyPending DEF SysInv, HelpersInOrder
<1>5. CASE /\ a \in Live /\ Destroy(a, k)
           /\ \E s \in DestroyOrders(records[a].children[k]) :
                \E posts \in DestroyPosts(s) : Post(posts)
           /\ helpers' = [x \in Aids |-> IF x \in Live' THEN helpers[x] ELSE NoHelpers]
  BY <1>1, <1>3, <1>5, DestroyKeeps
<1>. QED
  BY <1>1, <1>2, <1>4, <1>5 DEF RunDestroy, Destroy
-----------------------------------------------------------------------------
(* All steps. *)

LEMMA RunHeadStep ==
  ASSUME SysInv, NEW op \in Ops, RunHead(op)
  PROVE  SysInv'
<1> DEFINE a == Head(sysq).aid
           k == Head(sysq).key
           s == helpers[a]
<1>1. Executes /\ Head(sysq).op = op
  BY DEF RunHead, Executes
<1>2. CASE op = "sys_create"
  BY <1>1, <1>2, SysCreateStep DEF RunHead
<1>3. CASE op = "sys_bind"
  BY <1>1, <1>3, SysBindStep DEF RunHead
<1>4. CASE op = "sys_unbind"
  BY <1>1, <1>4, SysUnbindStep DEF RunHead
<1>5. CASE op = "sys_destroy"
  BY <1>1, <1>5, SysDestroyStep DEF RunHead
<1>6. CASE op = "create"
  BY <1>1, <1>6, RunCreateStep DEF RunHead
<1>7. CASE op = "bind"
  BY <1>1, <1>7, RunBindStep DEF RunHead
<1>8. CASE op = "unbind"
  BY <1>1, <1>8, RunUnbindStep DEF RunHead
<1>9. CASE op = "destroy"
  BY <1>1, <1>9, RunDestroyStep DEF RunHead
<1>10. CASE op = "created"
  BY <1>1, <1>10, CreatedStep DEF RunHead
<1>11. CASE op = "bound"
  BY <1>1, <1>11, BoundStep DEF RunHead
<1>12. CASE op = "unbound"
  BY <1>1, <1>12, UnboundStep DEF RunHead
<1>13. CASE op = "destroyed"
  BY <1>1, <1>13, DestroyedStep DEF RunHead
<1>. QED
  BY <1>2, <1>3, <1>4, <1>5, <1>6, <1>7, <1>8, <1>9, <1>10, <1>11, <1>12, <1>13 DEF Ops

\* The request that was on its way to the queue gets there.
LEMMA PushRequestStep ==
  ASSUME SysInv, PushRequest
  PROVE  SysInv'
<1> DEFINE S == SysItems \cup Items
<1>1. QueueTypes /\ sysq \in Seq(S) /\ inhand \in S /\ inhand \in Items /\ inhand # NoRequest
  BY DEF SysInv, QueueTypes, PushRequest
<1>2. sysq' = sysq \o <<inhand>> /\ inhand' = NoRequest
  BY DEF PushRequest, Push, PushAll
<1>3. sysq' \in Seq(S)
  <2>1. <<inhand>> \in Seq(S)
    BY <1>1
  <2>. QED
    BY <1>1, <1>2, <2>1, ConcatProperties
<1>4. Underway = sysq' /\ Underway' = sysq'
  <2>1. If(inhand # NoRequest, inhand) = <<inhand>>
    BY <1>1 DEF If
  <2>2. If(inhand # NoRequest, inhand)' = <<>>
    BY <1>2 DEF If
  <2>. QED
    BY <1>2, <1>3, <2>1, <2>2, ConcatEmptySeq DEF Underway
<1>5. QueueTypes'
  BY <1>2, <1>3 DEF QueueTypes
<1>6. UNCHANGED <<modelVars, helpers, aborted>>
  BY DEF PushRequest
<1>7. UNCHANGED <<modelVars, helpers, Underway>> /\ SanityChecksHold'
  BY <1>4, <1>6 DEF SysInv, SanityChecksHold
<1>. QED
  BY <1>5, <1>7, StutterStep

LEMMA StutteringStep ==
  ASSUME SysInv, UNCHANGED allVars
  PROVE  SysInv'
<1>1. UNCHANGED <<modelVars, helpers, sysq, inhand, aborted>>
  BY DEF allVars, systemVars
<1>2. Underway' = Underway /\ QueueTypes' /\ SanityChecksHold'
  BY <1>1 DEF Underway, SysInv, QueueTypes, SanityChecksHold
<1>. QED
  BY <1>1, <1>2, StutterStep

LEMMA SysNextKeeps == SysInv /\ [SysNext]_allVars => SysInv'
<1> SUFFICES ASSUME SysInv, [SysNext]_allVars
             PROVE  SysInv'
  OBVIOUS
<1>1. CASE \/ \E a \in Aids, h \in CreateKeys : UserCreate(a, h) \/ UserDestroy(a, h)
           \/ \E a \in Aids, h \in BindKeys : UserBind(a, h) \/ UserUnbind(a, h)
  BY <1>1, UserStep
<1>2. CASE PushRequest
  BY <1>2, PushRequestStep
<1>3. ASSUME NEW op \in Ops, RunHead(op)
      PROVE  SysInv'
  BY <1>3, RunHeadStep
<1>4. CASE UNCHANGED allVars
  BY <1>4, StutteringStep
<1>. QED
  BY <1>1, <1>2, <1>3, <1>4 DEF SysNext, SysThread, Stopped

\* One root, which has asked for nothing.
LEMMA InitInv == SysInit => SysInv
<1> SUFFICES ASSUME SysInit
             PROVE  SysInv
  OBVIOUS
<1>1. PICK i \in Instances :
        /\ instances = {i}
        /\ records = [a \in {1} |-> NewRecord(i, NoAid, NoKey)]
  BY RootAssumption DEF SysInit
<1>2. /\ counter = 1 /\ aids = {1} /\ executors = {} /\ bindings = {}
      /\ helpers = [a \in Aids |-> NoHelpers]
      /\ sysq = <<>> /\ inhand = NoRequest /\ aborted = ""
  BY DEF SysInit
<1>3. 1 \in Aids /\ NoAid \notin {1}
  BY RootAssumption DEF NoAid
<1>4. Live = {1} /\ records[1] = NewRecord(i, NoAid, NoKey)
  BY <1>1 DEF Live
<1>5. /\ records[1] \in Record /\ records[1].parent = NoAid /\ records[1].bindKeys = {}
      /\ records[1].instance = i
      /\ \A k \in CreateKeys : records[1].children[k] = NoAid
  BY <1>4, NewRecordType DEF NewRecord
<1>6. TypeOK
  BY <1>1, <1>2, <1>3, <1>4, <1>5 DEF TypeOK
<1>7. Safe
  <2>1. RegistriesAgree
    BY <1>1, <1>2, <1>4, <1>5 DEF RegistriesAgree
  <2>2. ParentsAndChildrenAgree
    BY <1>4, <1>5 DEF ParentsAndChildrenAgree, CreateKeyExists
  <2>3. TreeWellFounded
    BY <1>3, <1>4, <1>5 DEF TreeWellFounded
  <2>4. NoDanglingBinding /\ OneExecutorPerOutput /\ ActionsDisjoint
    BY <1>2 DEF NoDanglingBinding, OneExecutorPerOutput, ActionsDisjoint
  <2>5. BindKeysExact
    BY <1>2, <1>4, <1>5 DEF BindKeysExact
  <2>. QED
    BY <2>1, <2>2, <2>3, <2>4, <2>5 DEF Safe
<1>8. Underway = <<>> /\ QueueTypes
  <2>1. QueueTypes
    BY <1>2, EmptySeq DEF QueueTypes
  <2>. QED
    BY <1>2, <2>1, UnderwayType
<1>9. \A x, y : ~In(x) /\ ~Before(x, y)
  BY <1>8, OnEmpty DEF In, Before
<1>10. Once /\ AidsPassed
  <2>1. Once /\ \A x \in SysItems \cup Items : In(x) => x.aid <= counter
    BY <1>9 DEF Once
  <2>2. counter = 1 /\ Live = {1}
    BY <1>2, <1>4
  <2>3. \A a \in Live : a <= counter
    BY <2>2
  <2>. QED
    BY <2>1, <2>3 DEF AidsPassed
<1>11. NoHelpers \in HelperSets
  BY DEF NoHelpers, HelperSets
<1>12. /\ helpers \in [Aids -> HelperSets] /\ OnlyLiveHelp /\ SanityChecksHold
       /\ helpers[1] = NoHelpers
  BY <1>2, <1>3, <1>11 DEF OnlyLiveHelp, SanityChecksHold
<1>13. IsFiniteSet(bindings)
  BY <1>2, FS_EmptySet
<1>14. /\ \A k \in CreateKeys : ChildHelper(1, k)
       /\ \A k \in BindKeys : BindHelper(1, k)
  <2>1. \A k \in CreateKeys : ~CreateKeyExists(1, k)
    BY <1>5 DEF CreateKeyExists
  <2>2. \A k \in BindKeys : ~BindKeyExists(1, k)
    BY <1>5 DEF BindKeyExists
  <2>. QED
    BY <1>9, <1>12, <2>1, <2>2 DEF ChildHelper, BindHelper, NoHelpers
<1>15. HelpersInOrder
  BY <1>4, <1>14 DEF HelpersInOrder
<1>. QED
  BY <1>6, <1>7, <1>8, <1>10, <1>12, <1>13, <1>15 DEF SysInv, IInv

(* The invariant of the automata, the registry and the queue between them. *)
THEOREM SysInvariance == SysSpec => []SysInv
BY InitInv, SysNextKeeps, PTL DEF SysSpec

(* The automata, the queue and the registry keep to their types. *)
THEOREM SysTypeCorrect == SysSpec => []SysTypeOK
<1>1. SysInv => SysTypeOK
  <2> SUFFICES ASSUME SysInv
               PROVE  SysTypeOK
    OBVIOUS
  <2>1. SysItems \subseteq Runnable
    BY DEF SysItems, Runnable, SysOps, Ops, Results
  <2>2. Items \subseteq Runnable
    BY DEF Items, Runnable, Ops, Results, BoundResults
  <2>3. sysq \in Seq(Runnable) /\ inhand \in Runnable \cup {NoRequest}
    BY <2>1, <2>2, SeqMonotonic DEF SysInv, QueueTypes
  <2>4. aborted \in Results
    BY DEF SysInv, SanityChecksHold, Results
  <2>. QED
    BY <2>3, <2>4 DEF SysInv, IInv, SysTypeOK
<1>. QED
  BY <1>1, SysInvariance, PTL

(* Of the assertions of lib/automaton.cpp no other fails than the one that *)
(* expects an unbind to find its binding.                                  *)
THEOREM SanityChecks == SysSpec => []SanityChecksHold
<1>1. SysInv => SanityChecksHold
  BY DEF SysInv
<1>. QED
  BY <1>1, SysInvariance, PTL

(* The registry stays safe under the requests of the automata. *)
THEOREM SysRegistrySafe == SysSpec => []Safe
<1>1. SysInv => Safe
  BY DEF SysInv, IInv
<1>. QED
  BY <1>1, SysInvariance, PTL
-----------------------------------------------------------------------------
(* One answer per request. *)

\* One item of the set X is on the queue q, once, or none is.
LEMMA OnePosition ==
  ASSUME NEW q, NEW X, NEW x \in X, On(q, x), ~InOrder(q, x, x),
         \A i \in DOMAIN q : i \in Int, \A y \in X : On(q, y) => y = x
  PROVE  Cardinality({i \in DOMAIN q : q[i] \in X}) = 1
<1> DEFINE N == {i \in DOMAIN q : q[i] \in X}
<1>1. PICK m \in DOMAIN q : q[m] = x
  BY DEF On
<1>2. ASSUME NEW i \in DOMAIN q, q[i] \in X
      PROVE  i = m
  <2>1. q[i] = x
    BY <1>2 DEF On
  <2>2. ~(i < m) /\ ~(m < i)
    BY <1>1, <2>1 DEF InOrder
  <2>. QED
    BY <1>1, <2>2
<1>3. N = {m}
  BY <1>1, <1>2
<1>. QED
  BY <1>3, FS_Singleton

LEMMA NoPosition ==
  ASSUME NEW q, NEW X, \A y \in X : ~On(q, y)
  PROVE  Cardinality({i \in DOMAIN q : q[i] \in X}) = 0
<1>1. {i \in DOMAIN q : q[i] \in X} = {}
  BY DEF On
<1>. QED
  BY <1>1, FS_EmptySet

LEMMA OneAnswerToCreate ==
  ASSUME SysInv, NEW a \in Live, NEW h \in CreateKeys
  PROVE  InFlight(a, h, {"create", "created"}) = IF h \in helpers[a].createRecv THEN 1 ELSE 0
<1> DEFINE q == Underway
           create == Request("create", a, h)
           created == Event("created", a, "AUTOMATON_CREATED", h)
           failed == Event("created", a, "INSTANCE_EXISTS", h)
           X == {create, created, failed}
<1>1. /\ q \in Seq(SysItems \cup Items) /\ a \in Aids /\ ChildHelper(a, h) /\ Once
      /\ \A i \in DOMAIN q : i \in Int /\ q[i] \in SysItems \cup Items
  BY UnderwayType DEF SysInv, HelpersInOrder, IInv, TypeOK
<1>2. ASSUME NEW x \in SysItems \cup Items
      PROVE  x.aid = a /\ x.key = h /\ x.op \in {"create", "created"} <=> x \in X
  <2>1. x \in SysItems => x.op \notin {"create", "created"}
    BY DEF SysItems, SysOps
  <2>2. x.aid = a /\ x.key = h /\ x.op \in {"create", "created"} => x \in X
    <3>1. x \in Items /\ x.aid = a /\ x.key = h /\ x.op \in {"create", "created"} =>
            ChildItem(x, a, h)
      BY DEF ChildItem, ChildOps
    <3>. QED
      BY <2>1, <3>1, ChildItemCases
  <2>3. /\ create.aid = a /\ create.key = h /\ create.op = "create"
        /\ created.aid = a /\ created.key = h /\ created.op = "created"
        /\ failed.aid = a /\ failed.key = h /\ failed.op = "created"
    BY DEF Request, Event
  <2>4. \A y \in X : y = create \/ y = created \/ y = failed
    OBVIOUS
  <2> HIDE DEF create, created, failed, X
  <2>. QED
    BY <2>2, <2>3, <2>4
<1>3. InFlight(a, h, {"create", "created"}) = Cardinality({i \in DOMAIN q : q[i] \in X})
  <2>1. {i \in DOMAIN q : q[i].aid = a /\ q[i].key = h /\ q[i].op \in {"create", "created"}}
          = {i \in DOMAIN q : q[i] \in X}
    BY <1>1, <1>2
  <2>. QED
    BY <2>1 DEF InFlight
<1>4. \A x \in X : x \in Items /\ x.aid = a
  BY <1>1, ChildItems DEF ChildItem
<1> HIDE DEF q
<1>5. CASE h \in helpers[a].createRecv
  <2>1. PICK x \in X : On(q, x) /\ \A y \in X : On(q, y) => y = x
    BY <1>1, <1>5 DEF ChildHelper, In, q
  <2>2. ~InOrder(q, x, x)
    BY <1>1, <1>4 DEF Once, Before, q
  <2> HIDE DEF X
  <2>3. Cardinality({i \in DOMAIN q : q[i] \in X}) = 1
    BY <1>1, <2>1, <2>2, OnePosition
  <2>. QED
    BY <1>3, <1>5, <2>3
<1>6. CASE h \notin helpers[a].createRecv
  <2>1. \A x \in X : ~On(q, x)
    BY <1>1, <1>6 DEF ChildHelper, In, q
  <2>. QED
    BY <1>3, <1>6, <2>1, NoPosition
<1>. QED
  BY <1>5, <1>6

LEMMA OneAnswerToBind ==
  ASSUME SysInv, NEW a \in Live, NEW h \in BindKeys
  PROVE  InFlight(a, h, {"bind", "bound"}) = IF h \in helpers[a].bindRecv THEN 1 ELSE 0
<1> DEFINE q == Underway
           bind == Request("bind", a, h)
           Bound(r) == Event("bound", a, r, h)
           X == {bind} \cup {Bound(r) : r \in Answers}
<1>1. /\ q \in Seq(SysItems \cup Items) /\ a \in Aids /\ BindHelper(a, h) /\ Once
      /\ \A i \in DOMAIN q : i \in Int /\ q[i] \in SysItems \cup Items
  BY UnderwayType DEF SysInv, HelpersInOrder, IInv, TypeOK
<1>2. ASSUME NEW x \in SysItems \cup Items
      PROVE  x.aid = a /\ x.key = h /\ x.op \in {"bind", "bound"} <=> x \in X
  <2>1. x \in SysItems => x.op \notin {"bind", "bound"}
    BY DEF SysItems, SysOps
  <2>2. x.aid = a /\ x.key = h /\ x.op \in {"bind", "bound"} => x \in X
    <3>1. x \in Items /\ x.aid = a /\ x.key = h /\ x.op \in {"bind", "bound"} =>
            BindItem(x, a, h)
      BY DEF BindItem, BindOps
    <3>. QED
      BY <2>1, <3>1, BindItemCases
  <2>3. /\ bind.aid = a /\ bind.key = h /\ bind.op = "bind"
        /\ \A r : Bound(r).aid = a /\ Bound(r).key = h /\ Bound(r).op = "bound"
    BY DEF Request, Event
  <2>4. \A y \in X : y = bind \/ \E r : y = Bound(r)
    OBVIOUS
  <2> HIDE DEF bind, Bound, X
  <2>. QED
    BY <2>2, <2>3, <2>4
<1>3. InFlight(a, h, {"bind", "bound"}) = Cardinality({i \in DOMAIN q : q[i] \in X})
  <2>1. {i \in DOMAIN q : q[i].aid = a /\ q[i].key = h /\ q[i].op \in {"bind", "bound"}}
          = {i \in DOMAIN q : q[i] \in X}
    BY <1>1, <1>2
  <2>. QED
    BY <2>1 DEF InFlight
<1>4. \A x \in X : x \in Items /\ x.aid = a
  BY <1>1, BindItems DEF BindItem
<1>5. "BOUND" \in Answers /\ Failures = Answers \ {"BOUND"}
  BY DEF Answers, Failures, BoundResults
<1> HIDE DEF q
<1>6. CASE h \in helpers[a].bindRecv
  <2>1. PICK x \in X : On(q, x) /\ \A y \in X : On(q, y) => y = x
    <3>1. \/ On(q, bind) /\ \A r \in Answers : ~On(q, Bound(r))
          \/ /\ ~On(q, bind)
             /\ \E r \in Answers : On(q, Bound(r)) /\ \A v \in Answers \ {r} : ~On(q, Bound(v))
      BY <1>1, <1>5, <1>6 DEF BindHelper, In, q
    <3>. QED
      BY <3>1
  <2>2. ~InOrder(q, x, x)
    BY <1>1, <1>4 DEF Once, Before, q
  <2> HIDE DEF X
  <2>3. Cardinality({i \in DOMAIN q : q[i] \in X}) = 1
    BY <1>1, <2>1, <2>2, OnePosition
  <2>. QED
    BY <1>3, <1>6, <2>3
<1>7. CASE h \notin helpers[a].bindRecv
  <2>1. \A x \in X : ~On(q, x)
    BY <1>1, <1>7 DEF BindHelper, In, q
  <2>. QED
    BY <1>3, <1>7, <2>1, NoPosition
<1>. QED
  BY <1>6, <1>7

(* Each create and each bind has one answer: a helper waits exactly as     *)
(* long as its request or the answer is under way, and only one is.        *)
THEOREM OneAnswer == SysSpec => []OneAnswerPerRequest
<1>1. SysInv => OneAnswerPerRequest
  BY OneAnswerToCreate, OneAnswerToBind DEF OneAnswerPerRequest
<1>. QED
  BY <1>1, SysInvariance, PTL
-----------------------------------------------------------------------------
(* Views. *)

\* What is on its way to the queue is a request, and no notification.
RequestInHand == inhand.result = ""

LEMMA RequestInHandKept ==
  ASSUME RequestInHand, [SysNext]_allVars
  PROVE  RequestInHand'
<1>1. CASE \E a \in Aids, h \in CreateKeys : UserCreate(a, h) \/ UserDestroy(a, h)
  BY <1>1 DEF UserCreate, UserDestroy, UserCall, RequestInHand
<1>2. CASE \E a \in Aids, h \in BindKeys : UserBind(a, h) \/ UserUnbind(a, h)
  BY <1>2 DEF UserBind, UserUnbind, UserCall, RequestInHand
<1>3. CASE PushRequest
  BY <1>3 DEF PushRequest, NoRequest, RequestInHand
<1>4. ASSUME NEW op \in Ops, RunHead(op)
      PROVE  RequestInHand'
  <2>1. CASE op \in SysOps
    <3>1. \A a, s, o, k : Output(a, s, Request(o, a, k)) => RequestInHand'
      <4>1. \A o, a, k : Request(o, a, k).result = ""
        BY DEF Request
      <4>2. \A a, s, r : Output(a, s, r) => inhand' = r
        BY DEF Output
      <4>3. \A r : inhand' = r /\ r.result = "" => RequestInHand'
        BY DEF RequestInHand
      <4>. QED
        BY <4>1, <4>2, <4>3
    <3>2. Skip => RequestInHand'
      BY DEF Skip, RequestInHand
    <3>3. \A a : /\ ExecuteSysCreate(a) => RequestInHand'
                 /\ ExecuteSysBind(a) => RequestInHand'
                 /\ ExecuteSysUnbind(a) => RequestInHand'
                 /\ ExecuteSysDestroy(a) => RequestInHand'
      BY <3>1, <3>2 DEF ExecuteSysCreate, ExecuteSysBind, ExecuteSysUnbind, ExecuteSysDestroy
    <3>. QED
      BY <1>4, <2>1, <3>3 DEF RunHead, SysOps
  <2>2. CASE op \in {"create", "bind", "unbind", "destroy"}
    <3>1. inhand' = inhand
      BY <1>4, <2>2
         DEF RunHead, RunCreate, RunBind, RunUnbind, RunDestroy, Refused, Post, Skip
    <3>. QED
      BY <3>1 DEF RequestInHand
  <2>3. CASE op \in {"created", "bound", "unbound", "destroyed"}
    <3>1. inhand' = inhand
      BY <1>4, <2>3 DEF RunHead, Notify, Skip
    <3>. QED
      BY <3>1 DEF RequestInHand
  <2>. QED
    BY <2>1, <2>2, <2>3 DEF Ops, SysOps
<1>5. CASE UNCHANGED allVars
  BY <1>5 DEF allVars, systemVars, RequestInHand
<1>. QED
  BY <1>1, <1>2, <1>3, <1>4, <1>5 DEF SysNext, SysThread, Stopped

LEMMA OnlyRequestsInHand == SysSpec => []RequestInHand
<1>1. SysInit => RequestInHand
  <2>1. NoRequest.result = ""
    BY DEF NoRequest
  <2>. QED
    BY <2>1 DEF SysInit, RequestInHand
<1>. QED
  BY <1>1, RequestInHandKept, PTL DEF SysSpec

\* So a notification that is under way is on the queue.
LEMMA NewsOnQueue ==
  ASSUME SysInv, RequestInHand
  PROVE  /\ sysq \in Seq(SysItems \cup Items)
         /\ \A x : x.result # "" => (On(sysq, x) <=> In(x))
         /\ \A x, y : InOrder(sysq, x, y) => Before(x, y)
<1> DEFINE last == If(inhand # NoRequest, inhand)
<1>1. /\ sysq \in Seq(SysItems \cup Items)
      /\ last \in Seq(SysItems \cup Items)
  BY IfType DEF SysInv, QueueTypes
<1>2. Underway = sysq \o last
  BY DEF Underway
<1>3. \A x : On(last, x) => x.result = ""
  <2>1. CASE inhand # NoRequest
    <3>1. last = <<inhand>>
      BY <2>1 DEF If
    <3>2. \A x : On(<<inhand>>, x) => x = inhand
      BY OnSingle
    <3>. QED
      BY <3>1, <3>2 DEF RequestInHand
  <2>2. CASE inhand = NoRequest
    <3>1. last = <<>>
      BY <2>2 DEF If
    <3>. QED
      BY <3>1, OnEmpty
  <2>. QED
    BY <2>1, <2>2
<1> HIDE DEF last
<1>4. \A x, y : /\ On(sysq \o last, x) <=> On(sysq, x) \/ On(last, x)
                /\ InOrder(sysq, x, y) => InOrder(sysq \o last, x, y)
  BY <1>1, OnConcat
<1>. QED
  BY <1>1, <1>2, <1>3, <1>4 DEF In, Before

\* Two items that are not repeated are in one order.
LEMMA OneWay ==
  ASSUME NEW S, NEW q \in Seq(S), NEW x, NEW y,
         ~InOrder(q, x, x), ~InOrder(q, y, y), InOrder(q, x, y)
  PROVE  ~InOrder(q, y, x)
<1>1. PICK i \in DOMAIN q, j \in DOMAIN q : i < j /\ q[i] = x /\ q[j] = y
  BY DEF InOrder
<1>2. ASSUME NEW m \in DOMAIN q, NEW n \in DOMAIN q, m < n, q[m] = y, q[n] = x
      PROVE  FALSE
  <2>1. ~(n < i) /\ ~(i < n) /\ ~(m < j) /\ ~(j < m)
    BY <1>1, <1>2 DEF InOrder
  <2>. QED
    BY <1>1, <1>2, <2>1
<1>. QED
  BY <1>2 DEF InOrder

LEMMA LastNewsIs ==
  ASSUME NEW S, sysq \in Seq(S), NEW a, NEW k, NEW R,
         NEW x, x.aid = a, x.key = k, x.result \in R, On(sysq, x),
         \A y : y.aid = a /\ y.key = k /\ y.result \in R => ~InOrder(sysq, x, y)
  PROVE  LastNews(a, k, R) = x.result
<1> DEFINE N == {i \in DOMAIN sysq :
                   sysq[i].aid = a /\ sysq[i].key = k /\ sysq[i].result \in R}
<1>1. PICK i \in DOMAIN sysq : sysq[i] = x
  BY DEF On
<1>2. i \in N /\ N \subseteq Int
  BY <1>1
<1>3. \A j \in N : ~(i < j)
  BY <1>1 DEF InOrder
<1>4. LastNews(a, k, R) = sysq[Max(N)].result
  BY <1>2 DEF LastNews
<1> HIDE DEF N
<1>5. \A j \in N : i >= j
  BY <1>2, <1>3
<1>6. Max(N) \in N /\ \A j \in N : Max(N) >= j
  BY <1>2, <1>5 DEF Max
<1>7. Max(N) = i
  BY <1>2, <1>5, <1>6
<1>. QED
  BY <1>1, <1>4, <1>7

LEMMA NoNews ==
  ASSUME NEW a, NEW k, NEW R,
         \A x : On(sysq, x) => ~(x.aid = a /\ x.key = k /\ x.result \in R)
  PROVE  LastNews(a, k, R) = ""
<1>1. {i \in DOMAIN sysq :
         sysq[i].aid = a /\ sysq[i].key = k /\ sysq[i].result \in R} = {}
  BY DEF On
<1>. QED
  BY <1>1 DEF LastNews

\* The results tell the notifications apart.
LEMMA NewsItems ==
  ASSUME NEW x \in SysItems \cup Items
  PROVE  /\ x.result = "AUTOMATON_CREATED" => x = Event("created", x.aid, "AUTOMATON_CREATED", x.key)
         /\ x.result = "AUTOMATON_DESTROYED" =>
              x = Event("destroyed", x.aid, "AUTOMATON_DESTROYED", x.key)
         /\ x.result = "BOUND" => x = Event("bound", x.aid, "BOUND", x.key)
         /\ x.result = "UNBOUND" => x = Event("unbound", x.aid, "UNBOUND", x.key)
BY DEF SysItems, Items, Event, BoundResults

LEMMA ChildView ==
  ASSUME SysInv, RequestInHand, NEW a \in Live, NEW h \in CreateKeys
  PROVE  LET n == LastNews(a, h, {"AUTOMATON_CREATED", "AUTOMATON_DESTROYED"})
         IN CreateKeyExists(a, h) <=>
              \/ n = "AUTOMATON_CREATED"
              \/ n = "" /\ h \in helpers[a].createDone
<1> DEFINE R == {"AUTOMATON_CREATED", "AUTOMATON_DESTROYED"}
           created == Event("created", a, "AUTOMATON_CREATED", h)
           destroyed == Event("destroyed", a, "AUTOMATON_DESTROYED", h)
           n == LastNews(a, h, R)
<1>1. ChildHelper(a, h) /\ a \in Aids
  BY DEF SysInv, HelpersInOrder, IInv, TypeOK
<1>2. /\ created.aid = a /\ created.key = h /\ created.result = "AUTOMATON_CREATED"
      /\ destroyed.aid = a /\ destroyed.key = h /\ destroyed.result = "AUTOMATON_DESTROYED"
      /\ created.result \in R /\ destroyed.result \in R
  BY DEF Event
<1>3. created \in Items /\ destroyed \in Items
  BY <1>1, ChildItems DEF ChildItem
<1>4. ~Before(created, created) /\ ~Before(destroyed, destroyed)
  BY <1>2, <1>3 DEF SysInv, Once
<1>5. sysq \in Seq(SysItems \cup Items) /\ \A x, y : InOrder(sysq, x, y) => Before(x, y)
  BY NewsOnQueue
<1>6. (On(sysq, created) <=> In(created)) /\ (On(sysq, destroyed) <=> In(destroyed))
  BY <1>2, NewsOnQueue
<1>7. ASSUME NEW x, On(sysq, x), x.aid = a, x.key = h, x.result \in R
      PROVE  x = created \/ x = destroyed
  BY <1>5, <1>7, OnType, NewsItems
<1>8. \/ In(created) /\ ~In(destroyed) /\ CreateKeyExists(a, h)
      \/ In(destroyed) /\ ~In(created) /\ ~CreateKeyExists(a, h)
      \/ /\ ~In(created) /\ ~In(destroyed)
         /\ CreateKeyExists(a, h) <=> h \in helpers[a].createDone
  BY <1>1 DEF ChildHelper
<1> HIDE DEF created, destroyed, n, R
<1>9. CASE In(created) /\ ~In(destroyed) /\ CreateKeyExists(a, h)
  <2>1. \A y : y.aid = a /\ y.key = h /\ y.result \in R => ~InOrder(sysq, created, y)
    BY <1>4, <1>5, <1>6, <1>7, <1>9, InOrderOn
  <2>2. n = "AUTOMATON_CREATED"
    <3>1. n = created.result
      BY <1>2, <1>5, <1>6, <1>9, <2>1, LastNewsIs DEF n
    <3>. QED
      BY <1>2, <3>1
  <2>. QED
    BY <1>9, <2>2 DEF n, R
<1>10. CASE In(destroyed) /\ ~In(created) /\ ~CreateKeyExists(a, h)
  <2>1. \A y : y.aid = a /\ y.key = h /\ y.result \in R => ~InOrder(sysq, destroyed, y)
    BY <1>4, <1>5, <1>6, <1>7, <1>10, InOrderOn
  <2>2. n = "AUTOMATON_DESTROYED"
    <3>1. n = destroyed.result
      BY <1>2, <1>5, <1>6, <1>10, <2>1, LastNewsIs DEF n
    <3>. QED
      BY <1>2, <3>1
  <2>. QED
    BY <1>10, <2>2 DEF n, R
<1>11. CASE /\ ~In(created) /\ ~In(destroyed)
            /\ CreateKeyExists(a, h) <=> h \in helpers[a].createDone
  <2>1. n = ""
    BY <1>6, <1>7, <1>11, NoNews DEF n
  <2>. QED
    BY <1>11, <2>1 DEF n, R
<1>. QED
  BY <1>8, <1>9, <1>10, <1>11

LEMMA BindView ==
  ASSUME SysInv, RequestInHand, NEW a \in Live, NEW h \in BindKeys
  PROVE  LET n == LastNews(a, h, {"BOUND", "UNBOUND"})
         IN BindKeyExists(a, h) <=>
              \/ n = "BOUND"
              \/ n = "" /\ h \in helpers[a].bindDone
<1> DEFINE R == {"BOUND", "UNBOUND"}
           bound == Event("bound", a, "BOUND", h)
           unbound == Event("unbound", a, "UNBOUND", h)
           n == LastNews(a, h, R)
<1>1. BindHelper(a, h) /\ a \in Aids
  BY DEF SysInv, HelpersInOrder, IInv, TypeOK
<1>2. /\ bound.aid = a /\ bound.key = h /\ bound.result = "BOUND"
      /\ unbound.aid = a /\ unbound.key = h /\ unbound.result = "UNBOUND"
      /\ "BOUND" \in Answers /\ bound.result \in R /\ unbound.result \in R
  BY DEF Event, Answers, BoundResults
<1>3. bound \in Items /\ unbound \in Items
  BY <1>1, <1>2, BindItems DEF BindItem
<1>4. ~Before(bound, bound) /\ ~Before(unbound, unbound)
  BY <1>2, <1>3 DEF SysInv, Once
<1>5. sysq \in Seq(SysItems \cup Items) /\ \A x, y : InOrder(sysq, x, y) => Before(x, y)
  BY NewsOnQueue
<1>6. (On(sysq, bound) <=> In(bound)) /\ (On(sysq, unbound) <=> In(unbound))
  BY <1>2, NewsOnQueue
<1>7. ASSUME NEW x, On(sysq, x), x.aid = a, x.key = h, x.result \in R
      PROVE  x = bound \/ x = unbound
  BY <1>5, <1>7, OnType, NewsItems
<1>8. \/ In(bound) /\ ~In(unbound) /\ BindKeyExists(a, h)
      \/ /\ In(unbound) /\ ~BindKeyExists(a, h)
         /\ In(bound) => Before(bound, unbound)
      \/ /\ ~In(bound) /\ ~In(unbound)
         /\ BindKeyExists(a, h) <=> h \in helpers[a].bindDone
  BY <1>1, <1>2 DEF BindHelper, Failures
<1> HIDE DEF bound, unbound, n, R
<1>9. CASE In(bound) /\ ~In(unbound) /\ BindKeyExists(a, h)
  <2>1. \A y : y.aid = a /\ y.key = h /\ y.result \in R => ~InOrder(sysq, bound, y)
    BY <1>4, <1>5, <1>6, <1>7, <1>9, InOrderOn
  <2>2. n = "BOUND"
    <3>1. n = bound.result
      BY <1>2, <1>5, <1>6, <1>9, <2>1, LastNewsIs DEF n
    <3>. QED
      BY <1>2, <3>1
  <2>. QED
    BY <1>9, <2>2 DEF n, R
<1>10. CASE /\ In(unbound) /\ ~BindKeyExists(a, h)
            /\ In(bound) => Before(bound, unbound)
  <2>1. ~Before(unbound, bound)
    <3>1. Before(unbound, bound) => In(bound)
      BY InOrderOn DEF Before, In
    <3>2. Underway \in Seq(SysItems \cup Items)
      BY UnderwayType DEF SysInv
    <3>. QED
      BY <1>4, <1>10, <3>1, <3>2, OneWay DEF Before
  <2>2. \A y : y.aid = a /\ y.key = h /\ y.result \in R => ~InOrder(sysq, unbound, y)
    BY <1>4, <1>5, <1>7, <2>1, InOrderOn
  <2>3. n = "UNBOUND"
    <3>1. n = unbound.result
      BY <1>2, <1>5, <1>6, <1>10, <2>2, LastNewsIs DEF n
    <3>. QED
      BY <1>2, <3>1
  <2>. QED
    BY <1>10, <2>3 DEF n, R
<1>11. CASE /\ ~In(bound) /\ ~In(unbound)
            /\ BindKeyExists(a, h) <=> h \in helpers[a].bindDone
  <2>1. n = ""
    BY <1>6, <1>7, <1>11, NoNews DEF n
  <2>. QED
    BY <1>11, <2>1 DEF n, R
<1>. QED
  BY <1>8, <1>9, <1>10, <1>11

(* Once an automaton has seen the notifications that are under way to it,  *)
(* it believes to have just the children and the bindings that the         *)
(* registry holds for it.                                                  *)
THEOREM ViewsBecomeRegistry == SysSpec => []ViewsAgree
<1>1. SysInv /\ RequestInHand => ViewsAgree
  BY ChildView, BindView DEF ViewsAgree
<1>. QED
  BY <1>1, SysInvariance, OnlyRequestsInHand, PTL
-----------------------------------------------------------------------------
(* No late request hits. *)

\* Nothing is lost.
LEMMA WantedIfKept ==
  ASSUME bindings \subseteq bindings',
         \A b \in Live \cap Live', j \in CreateKeys : CreateKeyExists(b, j) => CreateKeyExists(b, j)'
  PROVE  Wanted
BY DEF Wanted, CreateKeyExists, Live

LEMMA WantedIfUnchanged == UNCHANGED modelVars => Wanted
BY DEF modelVars, Wanted

LEMMA CreateWanted ==
  ASSUME Executes, Head(sysq).op = "create", NEW a, Head(sysq).aid = a,
         NEW k, Head(sysq).key = k, RunCreate(a, k)
  PROVE  Wanted
<1>1. Head(sysq) \in Items /\ aids = Live /\ SysInv
  BY HeadType DEF SysOps, Executes
<1>2. k \in CreateKeys
  BY <1>1, ItemFields DEF ChildOps
<1>3. CASE UNCHANGED modelVars
  BY <1>3, WantedIfUnchanged
<1>4. ASSUME NEW i \in Addresses, counter < MaxAid, Create(a, k, i)
      PROVE  Wanted
  <2>1. i \in Instances /\ a \in Live
    BY <1>1, <1>4 DEF Addresses, Create, SysInv, IInv, TypeOK
  <2>2. /\ ChangesFor(a)
        /\ \A j \in CreateKeys \ {k} : CreateKeyExists(a, j)' <=> CreateKeyExists(a, j)
    BY <1>1, <1>2, <1>4, <2>1, CreateChanges
  <2>3. bindings' = bindings /\ ~CreateKeyExists(a, k)
    BY <1>4 DEF Create, InstanceExists, Created
  <2>4. \A b \in Live \cap Live', j \in CreateKeys :
          CreateKeyExists(b, j) => CreateKeyExists(b, j)'
    BY <2>2, <2>3 DEF ChangesFor
  <2>. QED
    BY <2>3, <2>4, WantedIfKept
<1>. QED
  BY <1>3, <1>4 DEF RunCreate, Skip, Refused

LEMMA BindWanted ==
  ASSUME Executes, Head(sysq).op = "bind", NEW a, Head(sysq).aid = a,
         NEW k, Head(sysq).key = k, RunBind(a, k)
  PROVE  Wanted
<1>1. CASE UNCHANGED modelVars
  BY <1>1, WantedIfUnchanged
<1>2. ASSUME NEW out, NEW in, Bind(a, k, out, in)
      PROVE  Wanted
  <2>1. bindings \subseteq bindings'
    BY <1>2 DEF Bind, AddBinding
  <2>2. a \in Live /\ \A b \in Live : records[b] \in Record
    BY <1>2 DEF Bind, Executes, SysInv, IInv, TypeOK, Safe, RegistriesAgree
  <2>3. records' = [records EXCEPT ![a].bindKeys = @ \cup {k}]
    BY <1>2 DEF Bind, AddBinding
  <2>4. /\ \A b \in Live \ {a} : records'[b] = records[b]
        /\ records'[a] = [records[a] EXCEPT !.bindKeys = @ \cup {k}]
    BY <2>2, <2>3 DEF Live
  <2>5. \A b \in Live : records'[b].children = records[b].children
    BY <2>2, <2>4 DEF Record
  <2>6. \A b \in Live \cap Live', j \in CreateKeys :
          CreateKeyExists(b, j) => CreateKeyExists(b, j)'
    BY <2>5 DEF CreateKeyExists
  <2>. QED
    BY <2>1, <2>6, WantedIfKept
<1>. QED
  BY <1>1, <1>2 DEF RunBind, Skip, Refused

LEMMA UnbindWanted ==
  ASSUME Executes, Head(sysq).op = "unbind", NEW a, Head(sysq).aid = a,
         NEW k, Head(sysq).key = k, RunUnbind(a, k)
  PROVE  Wanted
<1> DEFINE h == Head(sysq)
<1>1. h \in Items /\ aids = Live /\ SysInv /\ IInv /\ In(h)
  BY HeadType DEF SysOps, Executes, SysInv
<1>2. k \in BindKeys /\ h = Request("unbind", a, k)
  BY <1>1, ItemFields, BindItemCases DEF BindOps
<1>3. CASE UNCHANGED modelVars
  BY <1>3, WantedIfUnchanged
<1>4. CASE Unbind(a, k)
  <2>1. a \in Live
    BY <1>1, <1>4 DEF Unbind
  <2>2. /\ ChangesFor(a)
        /\ \A j \in CreateKeys : CreateKeyExists(a, j)' <=> CreateKeyExists(a, j)
    BY <1>1, <1>2, <1>4, <2>1, UnbindChanges
  <2>3. \A b \in Live \cap Live', j \in CreateKeys :
          CreateKeyExists(b, j) => CreateKeyExists(b, j)'
    BY <2>2 DEF ChangesFor
  <2>4. BindKeyExists(a, k)
    BY <1>1, <1>4, <2>1, KeyOfBinding DEF Unbind
  <2>5. k \in helpers[a].unbindRecv \cap helpers[a].bindDone
    BY <1>1, <1>2, <2>1, <2>4, UnbindPending DEF SysInv, HelpersInOrder
  <2>6. \A b \in bindings \ bindings' : b.binder = a /\ b.key = k
    BY <1>4 DEF Unbind, RemoveBindings, BindingsOf
  <2>. QED
    BY <2>3, <2>5, <2>6 DEF Wanted, CreateKeyExists, Live
<1>. QED
  BY <1>3, <1>4 DEF RunUnbind, Skip, Refused

LEMMA DestroyWanted ==
  ASSUME Executes, Head(sysq).op = "destroy", NEW a, Head(sysq).aid = a,
         NEW k, Head(sysq).key = k, RunDestroy(a, k)
  PROVE  Wanted
<1> DEFINE h == Head(sysq)
<1>1. h \in Items /\ aids = Live /\ SysInv /\ IInv /\ In(h)
  BY HeadType DEF SysOps, Executes, SysInv
<1>2. k \in CreateKeys /\ h = Request("destroy", a, k)
  BY <1>1, ItemFields, ChildItemCases DEF ChildOps
<1>3. CASE UNCHANGED modelVars
  BY <1>3, WantedIfUnchanged
<1>4. CASE Destroy(a, k)
  <2> DEFINE t == records[a].children[k]
  <2>1. a \in Live /\ CreateKeyExists(a, k) /\ InnerDestroy(t)
    BY <1>1, <1>4 DEF Destroy
  <2>2. IInv'
    <3>1. TypeOK' /\ Safe'
      BY <1>1, <1>2, <1>4, <2>1, NextTypeOK, NextSafe DEF IInv, Next, TypeOK
    <3>. QED
      BY <3>1 DEF IInv
  <2> HIDE DEF t
  <2>3. /\ Live' = Live \ Subtree(t)
        /\ \A b \in Live', j \in CreateKeys :
             CreateKeyExists(b, j)' <=> CreateKeyExists(b, j) /\ ~(b = a /\ j = k)
    BY <1>1, <1>2, <2>1, <2>2, DestroyChanges DEF t
  <2>4. k \in helpers[a].destroyRecv \cap helpers[a].createDone
    BY <1>1, <1>2, <2>1, DestroyPending DEF SysInv, HelpersInOrder
  <2>5. \A b \in bindings \ bindings' : b.output.aid \in Subtree(t) \/ b.input.aid \in Subtree(t)
                                        \/ b.binder \in Subtree(t)
    BY <2>1 DEF InnerDestroy, Dissolved, Involves
  <2>6. \A b \in bindings \ bindings' : ~({b.output.aid, b.input.aid, b.binder} \subseteq Live')
    BY <2>3, <2>5
  <2>7. \A b \in Live \cap Live', j \in CreateKeys :
          CreateKeyExists(b, j) /\ ~CreateKeyExists(b, j)' => b = a /\ j = k
    BY <2>3
  <2>. QED
    BY <2>4, <2>6, <2>7 DEF Wanted, CreateKeyExists, Live
<1>. QED
  BY <1>3, <1>4 DEF RunDestroy, Skip, Refused

LEMMA StepWanted ==
  ASSUME SysInv, [SysNext]_allVars
  PROVE  Wanted
<1>1. CASE \E a \in Aids, h \in CreateKeys : UserCreate(a, h) \/ UserDestroy(a, h)
  BY <1>1, WantedIfUnchanged DEF UserCreate, UserDestroy, UserCall
<1>2. CASE \E a \in Aids, h \in BindKeys : UserBind(a, h) \/ UserUnbind(a, h)
  BY <1>2, WantedIfUnchanged DEF UserBind, UserUnbind, UserCall
<1>3. CASE PushRequest \/ UNCHANGED allVars
  BY <1>3, WantedIfUnchanged DEF PushRequest, allVars
<1>4. ASSUME NEW op \in Ops, RunHead(op)
      PROVE  Wanted
  <2>1. Executes /\ Head(sysq).op = op
    BY <1>4 DEF RunHead, Executes
  <2>2. CASE op \in SysOps
    <3>1. UNCHANGED modelVars
      BY <1>4, <2>2
         DEF RunHead, SysOps, ExecuteSysCreate, ExecuteSysBind, ExecuteSysUnbind,
             ExecuteSysDestroy, Output, Skip
    <3>. QED
      BY <3>1, WantedIfUnchanged
  <2>3. CASE op = "create"
    BY <1>4, <2>1, <2>3, CreateWanted DEF RunHead
  <2>4. CASE op = "bind"
    BY <1>4, <2>1, <2>4, BindWanted DEF RunHead
  <2>5. CASE op = "unbind"
    BY <1>4, <2>1, <2>5, UnbindWanted DEF RunHead
  <2>6. CASE op = "destroy"
    BY <1>4, <2>1, <2>6, DestroyWanted DEF RunHead
  <2>7. CASE op \in {"created", "bound", "unbound", "destroyed"}
    <3>1. UNCHANGED modelVars
      BY <1>4, <2>7 DEF RunHead, Notify, Skip
    <3>. QED
      BY <3>1, WantedIfUnchanged
  <2>. QED
    BY <2>2, <2>3, <2>4, <2>5, <2>6, <2>7 DEF Ops, SysOps
<1>. QED
  BY <1>1, <1>2, <1>3, <1>4 DEF SysNext, SysThread, Stopped

(* A request that comes late, when what it was meant for is gone, takes    *)
(* nothing from a helper that is in use again.                             *)
THEOREM NoLateRequest == SysSpec => NoLateRequestHits
<1>1. SysInv /\ [SysNext]_allVars => [Wanted]_allVars
  BY StepWanted
<1>. QED
  BY <1>1, SysInvariance, PTL DEF SysSpec, NoLateRequestHits
=============================================================================
