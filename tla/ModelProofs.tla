---------------------------- MODULE ModelProofs ----------------------------
(***************************************************************************)
(* Proofs about Model.                                                     *)
(***************************************************************************)
EXTENDS Model, TLAPS

(* The subtree of a live automaton contains it, is closed under children,  *)
(* and is entered from outside at its root only: a child in it that is not *)
(* its root has its parent in it.                                          *)
LEMMA SubtreeClosed ==
  ASSUME TypeOK, ParentsAndChildrenAgree, NEW t \in Live
  PROVE  /\ t \in Subtree(t)
         /\ Subtree(t) \subseteq Live
         /\ \A x \in Subtree(t), k \in CreateKeys :
              CreateKeyExists(x, k) => records[x].children[k] \in Subtree(t)
         /\ \A x \in Live, k \in CreateKeys :
              /\ CreateKeyExists(x, k)
              /\ records[x].children[k] \in Subtree(t)
              /\ records[x].children[k] # t
              => x \in Subtree(t)
<1> DEFINE Closed(S) == t \in S /\ \A x \in S : Children(x) \subseteq S
<1>0. \A d : d \in Subtree(t) <=>
               d \in Live /\ \A S \in SUBSET Live : Closed(S) => d \in S
  BY DEF Subtree
<1>1. t \in Subtree(t) /\ Subtree(t) \subseteq Live
  BY <1>0
<1>2. ASSUME NEW x \in Live, NEW k \in CreateKeys, CreateKeyExists(x, k)
      PROVE  /\ records[x].children[k] \in Children(x)
             /\ records[x].children[k] \in Live
             /\ records[records[x].children[k]].parent = x
  BY <1>2 DEF Children, CreateKeyExists, ParentsAndChildrenAgree
<1>3. ASSUME NEW x \in Subtree(t), NEW k \in CreateKeys, CreateKeyExists(x, k)
      PROVE  records[x].children[k] \in Subtree(t)
  <2>1. x \in Live
    BY <1>1
  <2>2. ASSUME NEW S \in SUBSET Live, Closed(S)
        PROVE  records[x].children[k] \in S
    BY <1>0, <1>2, <1>3, <2>1, <2>2
  <2>. QED
    BY <1>0, <1>2, <1>3, <2>1, <2>2
<1>4. ASSUME NEW x \in Live, NEW k \in CreateKeys, CreateKeyExists(x, k),
             records[x].children[k] \in Subtree(t),
             records[x].children[k] # t
      PROVE  x \in Subtree(t)
  <2> DEFINE c == records[x].children[k]
             S == Subtree(t) \ {c}
  <2>1. SUFFICES ASSUME x \notin Subtree(t)
                 PROVE  FALSE
    OBVIOUS
  <2>2. ASSUME NEW y \in S
        PROVE  Children(y) \subseteq S
    <3>1. SUFFICES ASSUME NEW j \in CreateKeys, CreateKeyExists(y, j)
                   PROVE  records[y].children[j] \in S
      BY DEF Children, CreateKeyExists
    <3>2. y \in Live /\ y # x
      BY <1>1, <2>1
    <3>3. records[y].children[j] # c
      BY <1>2, <1>4, <3>1, <3>2
    <3>. QED
      BY <1>3, <3>1, <3>3
  <2>3. S \in SUBSET Live /\ Closed(S)
    BY <1>1, <1>4, <2>2
  <2>. QED
    BY <1>0, <1>4, <2>3
<1>. QED
  BY <1>1, <1>3, <1>4
-----------------------------------------------------------------------------
(* What the order of the checks of bind leaves for a successful one.       *)
LEMMA BoundMeans ==
  ASSUME NEW binder, NEW key, NEW out, NEW in,
         BindResult(binder, key, out, in) = "BOUND"
  PROVE  /\ ~BindKeyExists(binder, key)
         /\ out.aid \in Live /\ in.aid \in Live
         /\ ~InputUnavailable(in)
         /\ ~OutputUnavailable(out, in)
BY DEF BindResult

LEMMA ActType ==
  ASSUME NEW o \in Aids, NEW m \in Members, NEW i \in Aids
  PROVE  Act(o, m, i) \in Action /\ Act(o, m, i).aid = o
BY DEF Act, Action, Pids

LEMMA NewRecordType ==
  ASSUME NEW i \in Instances, NEW p \in Aids \cup {NoAid},
         NEW k \in CreateKeys \cup {NoKey}
  PROVE  NewRecord(i, p, k) \in Record
BY DEF NewRecord, Record

LEMMA RecordChildType ==
  ASSUME NEW r \in Record, NEW k \in CreateKeys, NEW c \in Aids \cup {NoAid}
  PROVE  [r EXCEPT !.children[k] = c] \in Record
BY DEF Record

LEMMA RecordKeysType ==
  ASSUME NEW r \in Record, NEW a, NEW B
  PROVE  WithoutKeys(a, r, B) \in Record
BY DEF Record, WithoutKeys

LEMMA InitTypeOK == Init => TypeOK
BY MaxAidAssumption DEF Init, TypeOK, Live, Aids

(* A successful bind keeps the variables in their types. *)
LEMMA BindTypeOK ==
  ASSUME TypeOK, NEW a \in Aids, NEW k \in BindKeys,
         NEW out \in Action, NEW in \in Action, Bind(a, k, out, in)
  PROVE  TypeOK'
<1> USE DEF Live
<1>1. out.aid \in Live /\ in.aid \in Live
  BY BoundMeans DEF Bind
<1>2. AddBinding(a, k, out, in)
  BY DEF Bind
<1>3. /\ records[out.aid].instance \in Instances
      /\ records[in.aid].instance \in Instances
  BY <1>1 DEF TypeOK, Record
<1>4. executors' \in SUBSET Executor
  BY <1>2, <1>3 DEF AddBinding, TypeOK, Executor
<1>5. bindings' \in SUBSET Binding
  BY <1>2, <1>3 DEF AddBinding, TypeOK, Binding
<1>6. DOMAIN records' = Live /\ records' \in [Live -> Record]
  BY <1>2, ZenonT(30) DEF AddBinding, TypeOK, Record
<1>. QED
  BY <1>2, <1>4, <1>5, <1>6 DEF AddBinding, TypeOK, treeVars

(* Every operation keeps the variables in their types. *)
LEMMA NextTypeOK == TypeOK /\ [Next]_modelVars => TypeOK'
<1> SUFFICES ASSUME TypeOK, [Next]_modelVars
             PROVE  TypeOK'
  OBVIOUS
<1> USE DEF Live
<1>1. ASSUME NEW i \in Instances, InstanceExists(i)
      PROVE  TypeOK'
  BY <1>1 DEF InstanceExists, TypeOK
<1>2. ASSUME NEW i \in Instances, CreateRoot(i)
      PROVE  TypeOK'
  <2>1. CASE InstanceExists(i)
    BY <1>1, <2>1
  <2>2. CASE ~InstanceExists(i)
    <3>1. PICK a \in Aids :
            /\ counter' = a
            /\ aids' = aids \cup {a}
            /\ records' = [x \in Live \cup {a} |->
                             IF x = a THEN NewRecord(i, NoAid, NoKey)
                             ELSE records[x]]
      BY <1>2, <2>2 DEF CreateRoot
    <3>2. /\ instances' = instances \cup {i}
          /\ UNCHANGED <<executors, bindings>>
      BY <1>2, <2>2 DEF CreateRoot
    <3>3. NewRecord(i, NoAid, NoKey) \in Record
      BY NewRecordType
    <3>. QED
      BY <3>1, <3>2, <3>3 DEF TypeOK
  <2>. QED
    BY <2>1, <2>2
<1>3. ASSUME NEW a \in Aids, NEW k \in CreateKeys, NEW i \in Instances,
             Create(a, k, i)
      PROVE  TypeOK'
  <2>1. CASE InstanceExists(i)
    BY <1>1, <2>1
  <2>2. CASE Created(a, k, i)
    <3>1. PICK c \in Aids :
            /\ counter' = c
            /\ aids' = aids \cup {c}
            /\ records' = AddChild(a, k, c, i)
      BY <2>2 DEF Created
    <3>2. /\ instances' = instances \cup {i}
          /\ UNCHANGED <<executors, bindings>>
      BY <2>2 DEF Created
    <3>3. NewRecord(i, a, k) \in Record
      BY NewRecordType
    <3>4. \A x \in Live : [records[x] EXCEPT !.children[k] = c] \in Record
      BY RecordChildType DEF TypeOK
    <3>5. DOMAIN records' = Live \cup {c} /\ records' \in [Live \cup {c} -> Record]
      BY <3>1, <3>3, <3>4 DEF AddChild, TypeOK
    <3>. QED
      BY <3>1, <3>2, <3>5 DEF TypeOK
  <2>. QED
    BY <1>3, <2>1, <2>2 DEF Create
<1>4. ASSUME NEW a \in Aids, NEW k \in BindKeys, BindAny(a, k)
      PROVE  TypeOK'
  <2>1. PICK o \in Aids, m \in Outputs, i \in Aids, n \in Inputs :
          Bind(a, k, Act(o, m, i), Act(i, n, o))
    BY <1>4 DEF BindAny
  <2>2. Act(o, m, i) \in Action /\ Act(i, n, o) \in Action
    BY ActType DEF Members
  <2>. QED
    BY <2>1, <2>2, BindTypeOK
<1>5. ASSUME NEW a \in Aids, NEW k \in BindKeys, Unbind(a, k)
      PROVE  TypeOK'
  <2>1. RemoveBindings(BindingsOf(a, k))
    BY <1>5 DEF Unbind
  <2>2. DOMAIN records' = Live /\ records' \in [Live -> Record]
    BY <2>1, RecordKeysType DEF RemoveBindings, TypeOK
  <2>. QED
    BY <2>1, <2>2 DEF RemoveBindings, NonEmpty, TypeOK, treeVars
<1>6. ASSUME NEW t, InnerDestroy(t)
      PROVE  TypeOK'
  <2> DEFINE D == Subtree(t)
  <2>1. ASSUME NEW a \in Live
        PROVE  ForgetChild(t, a, WithoutKeys(a, records[a], Dissolved(D))) \in Record
    <3>1. WithoutKeys(a, records[a], Dissolved(D)) \in Record
      BY RecordKeysType DEF TypeOK
    <3>. QED
      BY <3>1 DEF ForgetChild, Record
  <2>2. DOMAIN records' = Live \ D /\ records' \in [Live \ D -> Record]
    BY <1>6, <2>1 DEF InnerDestroy
  <2>. QED
    BY <1>6, <2>2 DEF InnerDestroy, NonEmpty, TypeOK
<1>7. CASE Clear
  BY <1>7 DEF Clear, NonEmpty, TypeOK
<1>8. CASE UNCHANGED modelVars
  BY <1>8 DEF modelVars, TypeOK
<1>. QED
  BY <1>2, <1>3, <1>4, <1>5, <1>6, <1>7, <1>8
     DEF Next, DestroyTarget, Destroy

(* The variables of the registry keep their types in every behavior. *)
THEOREM TypeCorrect == Spec => []TypeOK
<1>. QED
  BY InitTypeOK, NextTypeOK, PTL DEF Spec
-----------------------------------------------------------------------------
(* The inductive invariant: the parts of Safe lean on each other.  A child *)
(* slot is filled with a fresh aid because the registries agree; a destroy *)
(* cuts out a closed subtree because parents and children agree; a binding *)
(* key is fresh because the keys in use are exactly those of the bindings. *)
IInv == TypeOK /\ Safe

LEMMA InitSafe == Init => Safe
BY DEF Init, Safe, Live, RegistriesAgree, ParentsAndChildrenAgree, TreeWellFounded,
       NoDanglingBinding, OneExecutorPerOutput, BindKeysExact, ActionsDisjoint

(* A create that fails because the instance exists changes the counter only.*)
LEMMA InstanceExistsSafe ==
  ASSUME IInv, NEW i \in Instances, InstanceExists(i)
  PROVE  Safe'
<1>1. UNCHANGED <<aids, instances, records, executors, bindings>> /\ Safe
  BY DEF InstanceExists, IInv
<1>2. RegistriesAgree' /\ ParentsAndChildrenAgree' /\ NoDanglingBinding'
  BY <1>1 DEF Safe, Live, RegistriesAgree, ParentsAndChildrenAgree,
              NoDanglingBinding, CreateKeyExists
<1>3. OneExecutorPerOutput' /\ BindKeysExact' /\ ActionsDisjoint'
  BY <1>1 DEF Safe, Live, OneExecutorPerOutput, BindKeysExact, ActionsDisjoint
<1>4. TreeWellFounded'
  BY <1>1 DEF Safe, Live, TreeWellFounded
<1>. QED
  BY <1>2, <1>3, <1>4 DEF Safe

(* Adding an automaton with a fresh aid and a fresh instance, as a root or *)
(* in a free child slot.                                                   *)
LEMMA AddChildSafe ==
  ASSUME IInv, NEW i \in Instances, NEW c \in Aids,
         i \notin instances, c \notin aids,
         aids' = aids \cup {c}, instances' = instances \cup {i},
         UNCHANGED <<executors, bindings>>,
         \/ records' = [x \in Live \cup {c} |->
                          IF x = c THEN NewRecord(i, NoAid, NoKey) ELSE records[x]]
         \/ \E p \in Live, k \in CreateKeys :
              ~CreateKeyExists(p, k) /\ records' = AddChild(p, k, c, i)
  PROVE  Safe'
<1> USE DEF Live, NoAid
<1>0. c \notin Live /\ TypeOK
  BY DEF IInv, Safe, RegistriesAgree
<1>1. /\ DOMAIN records' = Live \cup {c}
      /\ records'[c].instance = i
      /\ records'[c].bindKeys = {}
      /\ \A k \in CreateKeys : records'[c].children[k] = NoAid
      /\ \A x \in Live : /\ x # c
                          /\ records'[x].instance = records[x].instance
                          /\ records'[x].parent = records[x].parent
                          /\ records'[x].key = records[x].key
                          /\ records'[x].bindKeys = records[x].bindKeys
  <2>1. CASE records' = [x \in Live \cup {c} |->
                          IF x = c THEN NewRecord(i, NoAid, NoKey) ELSE records[x]]
    BY <1>0, <2>1 DEF NewRecord
  <2>2. ASSUME NEW p \in Live, NEW k \in CreateKeys, records' = AddChild(p, k, c, i)
        PROVE  <1>1!:
    <3>1. \A x \in Live : records[x] \in Record
      BY <1>0 DEF TypeOK
    <3>2. \A x \in Live :
            records'[x] = IF x = p THEN [records[x] EXCEPT !.children[k] = c]
                                   ELSE records[x]
      BY <1>0, <2>2 DEF AddChild
    <3>3. records'[c] = NewRecord(i, p, k) /\ DOMAIN records' = Live \cup {c}
      BY <1>0, <2>2 DEF AddChild
    <3>4. \A x \in Live : /\ records'[x].instance = records[x].instance
                          /\ records'[x].parent = records[x].parent
                          /\ records'[x].key = records[x].key
                          /\ records'[x].bindKeys = records[x].bindKeys
      BY <3>1, <3>2 DEF Record
    <3>. QED
      BY <1>0, <3>3, <3>4 DEF NewRecord
  <2>. QED
    BY <2>1, <2>2
<1>2. RegistriesAgree'
  BY <1>0, <1>1 DEF IInv, Safe, RegistriesAgree
<1>3. ParentsAndChildrenAgree'
  <2>1. CASE records' = [x \in Live \cup {c} |->
                          IF x = c THEN NewRecord(i, NoAid, NoKey) ELSE records[x]]
    <3>1. records'[c].parent = NoAid /\ \A x \in Live : records'[x] = records[x]
      BY <1>0, <2>1 DEF NewRecord
    <3>. QED
      BY <1>0, <1>1, <3>1
         DEF IInv, Safe, ParentsAndChildrenAgree, CreateKeyExists
  <2>2. ASSUME NEW p \in Live, NEW k \in CreateKeys,
               ~CreateKeyExists(p, k), records' = AddChild(p, k, c, i)
        PROVE  ParentsAndChildrenAgree'
    <3>1. /\ records'[c].parent = p
          /\ records'[c].key = k
          /\ records'[p].children[k] = c
      BY <1>0, <2>2 DEF AddChild, NewRecord, TypeOK, Record
    <3>2. ASSUME NEW x \in Live, NEW j \in CreateKeys, x # p \/ j # k
          PROVE  records'[x].children[j] = records[x].children[j]
      BY <1>0, <2>2, <3>2 DEF AddChild, TypeOK, Record
    <3>3. records[p].children[k] = NoAid
      BY <2>2 DEF CreateKeyExists
    <3>4. ASSUME NEW x \in Live \cup {c}, NEW j \in CreateKeys,
                 records'[x].children[j] # NoAid
          PROVE  /\ records'[x].children[j] \in Live \cup {c}
                 /\ records'[records'[x].children[j]].parent = x
                 /\ records'[records'[x].children[j]].key = j
      <4>1. CASE x = p /\ j = k
        BY <3>1, <4>1
      <4>2. CASE x \in Live /\ (x # p \/ j # k)
        BY <1>1, <3>2, <3>4, <4>2
           DEF IInv, Safe, ParentsAndChildrenAgree, CreateKeyExists
      <4>. QED
        BY <1>1, <3>4, <4>1, <4>2
    <3>5. ASSUME NEW x \in Live \cup {c}, records'[x].parent # NoAid
          PROVE  /\ records'[x].parent \in Live
                 /\ records'[x].key \in CreateKeys
                 /\ records'[records'[x].parent].children[records'[x].key] = x
      <4>1. CASE x = c
        BY <3>1, <4>1
      <4>2. CASE x \in Live
        <5>1. /\ records[x].parent \in Live
              /\ records[x].key \in CreateKeys
              /\ records[records[x].parent].children[records[x].key] = x
          BY <1>1, <3>5, <4>2 DEF IInv, Safe, ParentsAndChildrenAgree
        <5>2. x # NoAid
          BY <4>2 DEF TypeOK, IInv, Aids
        <5>. QED
          BY <1>1, <3>2, <3>3, <4>2, <5>1, <5>2
      <4>. QED
        BY <4>1, <4>2
    <3>. QED
      BY <1>1, <3>4, <3>5 DEF ParentsAndChildrenAgree, CreateKeyExists
  <2>. QED
    BY <2>1, <2>2
<1>4. NoDanglingBinding'
  BY <1>1 DEF IInv, Safe, NoDanglingBinding
<1>5. OneExecutorPerOutput' /\ ActionsDisjoint'
  BY DEF IInv, Safe, OneExecutorPerOutput, ActionsDisjoint
<1>6. BindKeysExact'
  BY <1>0, <1>1 DEF IInv, Safe, BindKeysExact, NoDanglingBinding
<1>7. TreeWellFounded'
  <2>1. \A x \in Live : records[x].parent # c
    BY <1>0 DEF IInv, Safe, ParentsAndChildrenAgree, Aids
  <2>2. records'[c].parent # c
    BY <1>0 DEF AddChild, NewRecord, Aids
  <2>3. ASSUME NEW S \in SUBSET (Live \cup {c}), S # {}
        PROVE  \E a \in S : records'[a].parent \notin S
    <3>1. CASE S = {c}
      BY <2>2, <3>1
    <3>2. CASE S # {c}
      <4>1. S \ {c} \in SUBSET Live /\ S \ {c} # {}
        BY <2>3, <3>2
      <4>2. PICK a \in S \ {c} : records[a].parent \notin S \ {c}
        BY <4>1 DEF IInv, Safe, TreeWellFounded
      <4>. QED
        BY <1>1, <2>1, <2>3, <4>2
    <3>. QED
      BY <3>1, <3>2
  <2>. QED
    BY <1>1, <2>3 DEF TreeWellFounded
<1>. QED
  BY <1>2, <1>3, <1>4, <1>5, <1>6, <1>7 DEF Safe

(* A bind that passed all its checks. *)
LEMMA AddBindingSafe ==
  ASSUME IInv, NEW binder \in aids, NEW key \in BindKeys,
         NEW out \in Action, NEW in \in Action,
         BindResult(binder, key, out, in) = "BOUND",
         AddBinding(binder, key, out, in)
  PROVE  Safe'
<1> USE DEF Live
<1> DEFINE new == [output |-> out, input |-> in,
                   instance |-> records[in.aid].instance,
                   binder |-> binder, key |-> key]
<1>1. /\ key \notin records[binder].bindKeys
      /\ out.aid \in Live /\ in.aid \in Live
      /\ \A b \in bindings : b.input # in
      /\ out.aid # in.aid
      /\ \A b \in bindings : b.output # out \/ b.input.aid # in.aid
  BY BoundMeans DEF BindKeyExists, InputUnavailable, OutputUnavailable
<1>2. /\ binder \in Live
      /\ TypeOK /\ Safe
      /\ \A x \in Live : records[x] \in Record
  BY DEF IInv, Safe, RegistriesAgree, TypeOK
<1>3. /\ bindings' = bindings \cup {new}
      /\ executors' = IF \E e \in executors : e.output = out THEN executors
                      ELSE executors \cup {[output |-> out,
                                            instance |-> records[out.aid].instance]}
      /\ aids' = aids /\ instances' = instances
  BY DEF AddBinding, treeVars
<1>4. /\ DOMAIN records' = Live
      /\ \A x \in Live : /\ records'[x].instance = records[x].instance
                          /\ records'[x].parent = records[x].parent
                          /\ records'[x].key = records[x].key
                          /\ records'[x].children = records[x].children
                          /\ records'[x].bindKeys =
                               records[x].bindKeys \cup
                                 (IF x = binder THEN {key} ELSE {})
  BY <1>2 DEF AddBinding, Record, TypeOK
<1>5. /\ new.output = out /\ new.input = in /\ new.binder = binder
      /\ new.key = key /\ new.instance = records[in.aid].instance
  OBVIOUS
<1> HIDE DEF new
<1>6. RegistriesAgree' /\ ParentsAndChildrenAgree'
  BY <1>2, <1>3, <1>4
     DEF Safe, RegistriesAgree, ParentsAndChildrenAgree, CreateKeyExists
<1>7. NoDanglingBinding'
  BY <1>1, <1>2, <1>3, <1>4, <1>5 DEF Safe, NoDanglingBinding
<1>8. OneExecutorPerOutput'
  <2>1. CASE \E e \in executors : e.output = out
    BY <1>2, <1>3, <1>5, <2>1 DEF Safe, OneExecutorPerOutput
  <2>2. CASE ~\E e \in executors : e.output = out
    <3> DEFINE fresh == [output |-> out, instance |-> records[out.aid].instance]
    <3>1. executors' = executors \cup {fresh} /\ fresh.output = out
      BY <1>3, <2>2
    <3> HIDE DEF fresh
    <3>2. \A b \in bindings' : \E e \in executors' : e.output = b.output
      BY <1>2, <1>3, <1>5, <3>1 DEF Safe, OneExecutorPerOutput
    <3>3. \A e \in executors' : \E b \in bindings' : b.output = e.output
      BY <1>2, <1>3, <1>5, <3>1 DEF Safe, OneExecutorPerOutput
    <3>4. \A e, f \in executors' : e.output = f.output => e = f
      BY <1>2, <2>2, <3>1 DEF Safe, OneExecutorPerOutput
    <3>. QED
      BY <3>2, <3>3, <3>4 DEF OneExecutorPerOutput
  <2>. QED
    BY <2>1, <2>2
<1>9. BindKeysExact'
  <2>1. \A b \in bindings : b.binder = binder => b.key # key
    BY <1>1, <1>2 DEF Safe, BindKeysExact
  <2>. QED
    BY <1>2, <1>3, <1>4, <1>5, <2>1 DEF Safe, BindKeysExact
<1>10. ActionsDisjoint'
  BY <1>1, <1>2, <1>3, <1>5 DEF Safe, ActionsDisjoint
<1>11. TreeWellFounded'
  BY <1>2, <1>4 DEF Safe, TreeWellFounded
<1>. QED
  BY <1>6, <1>7, <1>8, <1>9, <1>10, <1>11 DEF Safe

(* Removing bindings, and with them the keys their binders hold for them.  *)
LEMMA RemoveBindingsSafe ==
  ASSUME IInv, NEW B \in SUBSET bindings, RemoveBindings(B)
  PROVE  Safe'
<1> USE DEF Live
<1>1. TypeOK /\ Safe /\ \A x \in Live : records[x] \in Record
  BY DEF IInv, TypeOK
<1>2. /\ bindings' = bindings \ B
      /\ executors' = NonEmpty(executors, bindings')
      /\ aids' = aids /\ instances' = instances
  BY DEF RemoveBindings, treeVars
<1>3. /\ DOMAIN records' = Live
      /\ \A x \in Live : /\ records'[x].instance = records[x].instance
                          /\ records'[x].parent = records[x].parent
                          /\ records'[x].key = records[x].key
                          /\ records'[x].children = records[x].children
                          /\ records'[x].bindKeys =
                               records[x].bindKeys \
                                 {b.key : b \in {c \in B : c.binder = x}}
  BY <1>1 DEF RemoveBindings, WithoutKeys, Record
<1>4. RegistriesAgree' /\ ParentsAndChildrenAgree'
  <2>1. RegistriesAgree'
    BY <1>1, <1>2, <1>3 DEF Safe, RegistriesAgree
  <2>2. ParentsAndChildrenAgree'
    BY <1>1, <1>3 DEF Safe, ParentsAndChildrenAgree, CreateKeyExists
  <2> QED BY <2>1, <2>2
<1>5. NoDanglingBinding' /\ OneExecutorPerOutput' /\ ActionsDisjoint'
  BY <1>1, <1>2, <1>3
     DEF Safe, NoDanglingBinding, OneExecutorPerOutput, ActionsDisjoint, NonEmpty
<1>6. BindKeysExact'
  BY <1>1, <1>2, <1>3 DEF Safe, BindKeysExact
<1>7. TreeWellFounded'
  BY <1>1, <1>3 DEF Safe, TreeWellFounded
<1>. QED
  BY <1>4, <1>5, <1>6, <1>7 DEF Safe

\* The records that a destruction leaves.
LEMMA InnerDestroyRecords ==
  ASSUME TypeOK, NEW t \in Live, InnerDestroy(t)
  PROVE  /\ DOMAIN records' = Live \ Subtree(t)
         /\ \A x \in Live \ Subtree(t) :
              /\ records'[x].instance = records[x].instance
              /\ records'[x].parent = records[x].parent
              /\ records'[x].key = records[x].key
              /\ records'[x].bindKeys =
                   records[x].bindKeys
                     \ {b.key : b \in {c \in Dissolved(Subtree(t)) : c.binder = x}}
              /\ \A k \in CreateKeys :
                   records'[x].children[k] =
                     IF x = records[t].parent /\ k = records[t].key THEN NoAid
                     ELSE records[x].children[k]
<1> DEFINE D == Subtree(t)
           B == Dissolved(D)
<1>1. records' = [a \in Live \ D |-> ForgetChild(t, a, WithoutKeys(a, records[a], B))]
  BY DEF InnerDestroy
<1> HIDE DEF D, B
<1>2. ASSUME NEW x \in Live \ D
      PROVE  /\ records'[x].instance = records[x].instance
             /\ records'[x].parent = records[x].parent
             /\ records'[x].key = records[x].key
             /\ records'[x].bindKeys =
                  records[x].bindKeys \ {b.key : b \in {c \in B : c.binder = x}}
             /\ \A k \in CreateKeys :
                  records'[x].children[k] =
                    IF x = records[t].parent /\ k = records[t].key THEN NoAid
                    ELSE records[x].children[k]
  <2> DEFINE r == WithoutKeys(x, records[x], B)
  <2>1. records[x] \in Record
    BY DEF TypeOK
  <2>2. /\ r \in Record
        /\ r.instance = records[x].instance
        /\ r.parent = records[x].parent
        /\ r.key = records[x].key
        /\ r.children = records[x].children
        /\ r.bindKeys =
             records[x].bindKeys \ {b.key : b \in {c \in B : c.binder = x}}
    BY <2>1 DEF WithoutKeys, Record
  <2> HIDE DEF r
  <2>3. records'[x] = ForgetChild(t, x, r)
    BY <1>1 DEF r
  <2>. QED
    BY <2>2, <2>3 DEF ForgetChild, Record
<1>. QED
  BY <1>1, <1>2 DEF D, B

(* inner_destroy: a closed subtree goes, with every binding that needs it. *)
LEMMA InnerDestroySafe ==
  ASSUME IInv, NEW t \in Live, InnerDestroy(t)
  PROVE  Safe'
<1> USE DEF Live
<1> DEFINE D == Subtree(t)
           B == Dissolved(D)
<1>1. TypeOK /\ Safe /\ \A x \in Live : records[x] \in Record
  BY DEF IInv, TypeOK
<1>2. /\ t \in D /\ D \subseteq Live
      /\ \A x \in D, k \in CreateKeys :
           CreateKeyExists(x, k) => records[x].children[k] \in D
      /\ \A x \in Live, k \in CreateKeys :
           /\ CreateKeyExists(x, k)
           /\ records[x].children[k] \in D
           /\ records[x].children[k] # t
           => x \in D
  BY <1>1, SubtreeClosed DEF Safe
<1>3. /\ bindings' = bindings \ B
      /\ executors' = NonEmpty(executors, bindings')
      /\ aids' = aids \ D
      /\ instances' = instances \ Owned(D)
      /\ records' = [a \in Live \ D |->
                       ForgetChild(t, a, WithoutKeys(a, records[a], B))]
  BY DEF InnerDestroy
<1>4. \A b \in bindings' : /\ b \in bindings
                           /\ b.output.aid \notin D
                           /\ b.input.aid \notin D
                           /\ b.binder \notin D
  BY <1>3 DEF Dissolved, Involves
<1>5. \A x \in Live \ D :
        /\ records'[x].instance = records[x].instance
        /\ records'[x].parent = records[x].parent
        /\ records'[x].key = records[x].key
        /\ records'[x].bindKeys =
             records[x].bindKeys \ {b.key : b \in {c \in B : c.binder = x}}
        /\ \A k \in CreateKeys :
             records'[x].children[k] =
               IF x = records[t].parent /\ k = records[t].key THEN NoAid
               ELSE records[x].children[k]
  BY <1>1, InnerDestroyRecords
<1> HIDE DEF D, B
<1>6. DOMAIN records' = Live \ D
  BY <1>3
<1>7. RegistriesAgree'
  BY <1>1, <1>2, <1>3, <1>5, <1>6 DEF Safe, RegistriesAgree, Owned
<1>8. ParentsAndChildrenAgree'
  <2>1. ASSUME NEW p \in Live \ D, NEW k \in CreateKeys,
               records'[p].children[k] # NoAid
        PROVE  /\ records'[p].children[k] \in Live \ D
               /\ records'[records'[p].children[k]].parent = p
               /\ records'[records'[p].children[k]].key = k
    <3> DEFINE c == records[p].children[k]
    <3>1. records'[p].children[k] = c /\ c # NoAid
          /\ ~(p = records[t].parent /\ k = records[t].key)
      BY <1>5, <2>1
    <3>2. c \in Live /\ records[c].parent = p /\ records[c].key = k
      BY <1>1, <3>1 DEF Safe, ParentsAndChildrenAgree, CreateKeyExists
    <3>3. c # t
      BY <3>1, <3>2
    <3>4. c \notin D
      BY <1>2, <3>1, <3>3 DEF CreateKeyExists
    <3>. QED
      BY <1>5, <3>1, <3>2, <3>4
  <2>2. ASSUME NEW a \in Live \ D, records'[a].parent # NoAid
        PROVE  /\ records'[a].parent \in Live \ D
               /\ records'[a].key \in CreateKeys
               /\ records'[records'[a].parent].children[records'[a].key] = a
    <3> DEFINE p == records[a].parent
               k == records[a].key
    <3>1. records'[a].parent = p /\ records'[a].key = k /\ p # NoAid
      BY <1>5, <2>2
    <3>2. p \in Live /\ k \in CreateKeys /\ records[p].children[k] = a
      BY <1>1, <3>1 DEF Safe, ParentsAndChildrenAgree
    <3>3. a # NoAid /\ a # t
      BY <1>1, <1>2 DEF TypeOK, Aids, NoAid
    <3>4. p \notin D
      BY <1>2, <3>2, <3>3 DEF CreateKeyExists
    <3>5. ~(p = records[t].parent /\ k = records[t].key)
      <4>1. SUFFICES ASSUME p = records[t].parent, k = records[t].key
                     PROVE  FALSE
        OBVIOUS
      <4>2. records[p].children[k] = t
        BY <1>1, <3>1, <4>1 DEF Safe, ParentsAndChildrenAgree
      <4>. QED
        BY <3>2, <3>3, <4>2
    <3>. QED
      BY <1>5, <3>1, <3>2, <3>4, <3>5
  <2>. QED
    BY <1>6, <2>1, <2>2 DEF ParentsAndChildrenAgree, CreateKeyExists
<1>9. NoDanglingBinding'
  <2>1. \A e \in executors' : e \in executors /\ e.output.aid \in Live \ D
    <3>1. ASSUME NEW e \in executors'
          PROVE  e \in executors /\ e.output.aid \in Live \ D
      <4>1. PICK b \in bindings' : b.output = e.output
        BY <1>3 DEF NonEmpty
      <4>. QED
        BY <1>1, <1>3, <1>4, <4>1 DEF Safe, NoDanglingBinding, NonEmpty
    <3>. QED
      BY <3>1
  <2>. QED
    BY <1>1, <1>4, <1>5, <1>6, <2>1 DEF Safe, NoDanglingBinding
<1>10. OneExecutorPerOutput' /\ ActionsDisjoint'
  <2>1. bindings' \subseteq bindings /\ executors' = NonEmpty(executors, bindings')
    BY <1>3
  <2>2. OneExecutorPerOutput'
    BY <1>1, <2>1 DEF Safe, OneExecutorPerOutput, NonEmpty
  <2>3. ActionsDisjoint'
    BY <1>1, <2>1 DEF Safe, ActionsDisjoint
  <2>. QED
    BY <2>2, <2>3
<1>11. BindKeysExact'
  <2>1. bindings' = bindings \ B
    BY <1>3
  <2>2. \A b, c \in bindings' : b.binder = c.binder /\ b.key = c.key => b = c
    BY <1>1, <2>1 DEF Safe, BindKeysExact
  <2>3. ASSUME NEW x \in Live \ D
        PROVE  records'[x].bindKeys =
                 {b.key : b \in {c \in bindings' : c.binder = x}}
    <3>1. records[x].bindKeys = {b.key : b \in {c \in bindings : c.binder = x}}
      BY <1>1 DEF Safe, BindKeysExact
    <3>2. records'[x].bindKeys =
            records[x].bindKeys \ {b.key : b \in {c \in B : c.binder = x}}
      BY <1>5
    <3>3. \A b, c \in bindings : b.binder = c.binder /\ b.key = c.key => b = c
      BY <1>1 DEF Safe, BindKeysExact
    <3>4. B \subseteq bindings
      BY DEF B, Dissolved
    <3>. QED
      BY <2>1, <3>1, <3>2, <3>3, <3>4
  <2>. QED
    BY <1>6, <2>2, <2>3 DEF BindKeysExact
<1>12. TreeWellFounded'
  <2>1. ASSUME NEW S \in SUBSET (Live \ D), S # {}
        PROVE  \E a \in S : records'[a].parent \notin S
    <3>1. PICK a \in S : records[a].parent \notin S
      BY <1>1, <2>1 DEF Safe, TreeWellFounded
    <3>. QED
      BY <1>5, <2>1, <3>1
  <2>. QED
    BY <1>6, <2>1 DEF TreeWellFounded
<1>. QED
  BY <1>7, <1>8, <1>9, <1>10, <1>11, <1>12 DEF Safe

(* clear leaves nothing behind. *)
LEMMA ClearSafe == IInv /\ Clear => Safe'
<1> SUFFICES ASSUME IInv, Clear
             PROVE  Safe'
  OBVIOUS
<1>1. DOMAIN records' = {} /\ aids' = {} /\ instances' = {} /\ bindings' = {}
  BY DEF Clear, Owned, IInv, Safe, RegistriesAgree, NoDanglingBinding, Dissolved,
         Involves, Live
<1>2. executors' = {}
  BY <1>1 DEF Clear, NonEmpty
<1>. QED
  BY <1>1, <1>2 DEF Safe, Live, RegistriesAgree, ParentsAndChildrenAgree, TreeWellFounded,
     NoDanglingBinding, OneExecutorPerOutput, BindKeysExact, ActionsDisjoint

LEMMA NextSafe == IInv /\ [Next]_modelVars => Safe'
<1> SUFFICES ASSUME IInv, [Next]_modelVars
             PROVE  Safe'
  OBVIOUS
<1>1. ASSUME NEW i \in Instances, CreateRoot(i)
      PROVE  Safe'
  <2>1. CASE InstanceExists(i)
    BY <2>1, InstanceExistsSafe
  <2>2. CASE ~InstanceExists(i)
    <3>1. PICK c \in Aids :
            /\ AidSet!Takes(counter, aids, c)
            /\ aids' = aids \cup {c}
            /\ records' = [x \in Live \cup {c} |->
                             IF x = c THEN NewRecord(i, NoAid, NoKey)
                             ELSE records[x]]
      BY <1>1, <2>2 DEF CreateRoot
    <3>2. c \notin aids
      BY <3>1 DEF AidSet!Takes
    <3>. QED
      BY <1>1, <2>2, <3>1, <3>2, AddChildSafe DEF CreateRoot
  <2>. QED
    BY <2>1, <2>2
<1>2. ASSUME NEW a \in Aids, NEW k \in CreateKeys, NEW i \in Instances,
             Create(a, k, i)
      PROVE  Safe'
  <2>1. CASE InstanceExists(i)
    BY <2>1, InstanceExistsSafe
  <2>2. CASE Created(a, k, i)
    <3>1. PICK c \in Aids :
            /\ AidSet!Takes(counter, aids, c)
            /\ aids' = aids \cup {c}
            /\ records' = AddChild(a, k, c, i)
      BY <2>2 DEF Created
    <3>2. c \notin aids
      BY <3>1 DEF AidSet!Takes
    <3>3. a \in Live /\ ~CreateKeyExists(a, k)
      BY <1>2 DEF Create, IInv, Safe, RegistriesAgree
    <3>. QED
      BY <2>2, <3>1, <3>2, <3>3, AddChildSafe DEF Created
  <2>. QED
    BY <1>2, <2>1, <2>2 DEF Create
<1>3. ASSUME NEW a \in Aids, NEW k \in BindKeys, BindAny(a, k)
      PROVE  Safe'
  <2>1. PICK o \in Aids, m \in Outputs, i \in Aids, n \in Inputs :
          Bind(a, k, Act(o, m, i), Act(i, n, o))
    BY <1>3 DEF BindAny
  <2>2. Act(o, m, i) \in Action /\ Act(i, n, o) \in Action
    BY ActType DEF Members
  <2>. QED
    BY <2>1, <2>2, AddBindingSafe DEF Bind
<1>4. ASSUME NEW a \in Aids, NEW k \in BindKeys, Unbind(a, k)
      PROVE  Safe'
  BY <1>4, RemoveBindingsSafe DEF Unbind, BindingsOf
<1>5. ASSUME NEW t \in Aids, DestroyTarget(t)
      PROVE  Safe'
  BY <1>5, InnerDestroySafe DEF DestroyTarget, IInv, Safe, RegistriesAgree
<1>6. ASSUME NEW a \in Aids, NEW k \in CreateKeys, Destroy(a, k)
      PROVE  Safe'
  <2>1. records[a].children[k] \in Live
    BY <1>6 DEF Destroy, IInv, Safe, RegistriesAgree, ParentsAndChildrenAgree
  <2>. QED
    BY <1>6, <2>1, InnerDestroySafe DEF Destroy
<1>7. CASE Clear
  BY <1>7, ClearSafe
<1>8. CASE UNCHANGED modelVars
  <2>1. RegistriesAgree' /\ ParentsAndChildrenAgree' /\ NoDanglingBinding'
    BY <1>8 DEF modelVars, IInv, Safe, Live, RegistriesAgree,
                ParentsAndChildrenAgree, NoDanglingBinding, CreateKeyExists
  <2>2. OneExecutorPerOutput' /\ BindKeysExact' /\ ActionsDisjoint'
    BY <1>8 DEF modelVars, IInv, Safe, Live, OneExecutorPerOutput,
                BindKeysExact, ActionsDisjoint
  <2>3. TreeWellFounded'
    BY <1>8 DEF modelVars, IInv, Safe, Live, TreeWellFounded
  <2>. QED
    BY <2>1, <2>2, <2>3 DEF Safe
<1>. QED
  BY <1>1, <1>2, <1>3, <1>4, <1>5, <1>6, <1>7, <1>8 DEF Next

(* The invariant holds in every behavior, for any number of automata,      *)
(* keys, addresses and actions.                                            *)
THEOREM Invariance == Spec => []IInv
<1>1. Init => IInv
  BY InitTypeOK, InitSafe DEF IInv
<1>2. IInv /\ [Next]_modelVars => IInv'
  BY NextTypeOK, NextSafe DEF IInv
<1>. QED
  BY <1>1, <1>2, PTL DEF Spec

(* The parts of the invariant that the runs check, each in every behavior: *)
(* aids, addresses and records of live automata agree;                     *)
THEOREM RegistriesCorrect == Spec => []RegistriesAgree
  BY Invariance, PTL DEF IInv, Safe

(* parents and children are two views of one tree without a cycle;         *)
THEOREM TreeCorrect == Spec => []TreeSound
  BY Invariance, PTL DEF IInv, Safe, TreeSound

(* bindings refer to live automata and to their current instances only;    *)
THEOREM BindingsNeverDangle == Spec => []NoDanglingBinding
  BY Invariance, PTL DEF IInv, Safe

(* each bound output has one executor and no other output has one, the     *)
(* keys a binder holds are those of its bindings, and no automaton takes   *)
(* part twice in the execution of an output.                               *)
THEOREM BindingsCorrect == Spec => []BindingsSound
  BY Invariance, PTL DEF IInv, Safe, BindingsSound

(* A binding is lost with an automaton it needs, or alone, by the unbind   *)
(* that names it.                                                          *)
LEMMA StepLossJustified == IInv /\ [Next]_modelVars => [LossJustified]_modelVars
<1> SUFFICES ASSUME IInv, Next
             PROVE  LossJustified
  BY DEF LossJustified, modelVars
<1>1. CASE UNCHANGED bindings
  BY <1>1 DEF LossJustified
<1>2. ASSUME NEW a \in Aids, NEW k \in BindKeys, BindAny(a, k)
      PROVE  LossJustified
  BY <1>2 DEF BindAny, Bind, AddBinding, LossJustified
<1>3. ASSUME NEW a \in Aids, NEW k \in BindKeys, Unbind(a, k)
      PROVE  LossJustified
  <2>1. ASSUME NEW b \in bindings \ bindings'
        PROVE  /\ bindings \ bindings' = {b}
               /\ b.key \notin records'[b.binder].bindKeys
    <3>1. RemoveBindings(BindingsOf(a, k))
      BY <1>3 DEF Unbind
    <3>2. b \in BindingsOf(a, k) /\ b.binder = a /\ b.key = k
      BY <2>1, <3>1 DEF RemoveBindings, BindingsOf
    <3>3. BindingsOf(a, k) = {b}
      BY <3>2 DEF BindingsOf, IInv, Safe, BindKeysExact
    <3>4. a \in Live /\ records[a] \in Record
      BY <1>3 DEF Unbind, IInv, Safe, RegistriesAgree, TypeOK
    <3>5. records'[a] = WithoutKeys(a, records[a], {b})
      BY <3>1, <3>3, <3>4 DEF RemoveBindings
    <3>6. k \notin records'[a].bindKeys
      BY <3>2, <3>4, <3>5 DEF WithoutKeys, Record
    <3>. QED
      BY <3>1, <3>2, <3>3, <3>6 DEF RemoveBindings
  <2>. QED
    BY <2>1 DEF LossJustified
<1>4. ASSUME NEW t, InnerDestroy(t)
      PROVE  LossJustified
  BY <1>4 DEF InnerDestroy, Dissolved, Involves, LossJustified
<1>5. CASE Clear
  BY <1>5 DEF Clear, LossJustified
<1>. QED
  BY <1>1, <1>2, <1>3, <1>4, <1>5
     DEF Next, CreateRoot, Create, InstanceExists, Created, DestroyTarget, Destroy

THEOREM LossOnlyWhenJustified == Spec => BindingLossJustified
  BY Invariance, StepLossJustified, PTL DEF Spec, BindingLossJustified
-----------------------------------------------------------------------------
(* The registry of lib/model.cpp, with its records, keys, instances and    *)
(* executors, implements Registry: what executions see of it changes one   *)
(* automaton, one link or one departure at a time.                         *)


\* The link that the binding b is to those who execute its output.
Link(b) == [output |-> b.output, input |-> b.input.aid]

\* A link comes from one binding: another with the same output and the same input
\* automaton would make that automaton take part twice.
LEMMA OneBindingPerLink ==
  ASSUME IInv, NEW b \in bindings, NEW c \in bindings, Link(b) = Link(c)
  PROVE  b = c
<1>1. b.output = c.output /\ b.input.aid = c.input.aid
  BY DEF Link
<1> QED BY <1>1 DEF IInv, Safe, ActionsDisjoint

\* The empty registry is an empty Registry.
LEMMA InitRefines == Init => Reg!Empty
BY DEF Init, Reg!Empty, Live, Links

\* A create that succeeds is the entrance of one automaton.
LEMMA EnterRefines ==
  ASSUME IInv, NEW a \in Aids, a \notin aids,
         DOMAIN records' = Live \cup {a}, bindings' = bindings
  PROVE  Reg!Change
<1>1. a \notin Live
  BY DEF IInv, Safe, RegistriesAgree
<1>2. Live' = Live \cup {a} /\ Links' = Links
  BY DEF Live, Links
<1>3. Reg!Enter(a)
  BY <1>1, <1>2 DEF Reg!Enter
<1> QED BY <1>3 DEF Reg!Change

\* A bind adds one link, between two automata that live and are not linked by that output.
LEMMA BindRefines ==
  ASSUME IInv, NEW binder \in aids, NEW key, NEW out \in Action, NEW in \in Action,
         BindResult(binder, key, out, in) = "BOUND", AddBinding(binder, key, out, in)
  PROVE  Reg!Change
<1> DEFINE l == [output |-> out, input |-> in.aid]
           b == [output |-> out, input |-> in, instance |-> records[in.aid].instance,
                 binder |-> binder, key |-> key]
<1>1. /\ out.aid \in Live /\ in.aid \in Live
      /\ ~OutputUnavailable(out, in)
  BY BoundMeans
<1>2. Live' = Live
  BY <1>1 DEF AddBinding, Live
<1>3. bindings' = bindings \cup {b}
  BY DEF AddBinding
<1>4. b.output = out /\ b.input = in
  OBVIOUS
<1> HIDE DEF b
<1>5. Links' = Links \cup {l}
  BY <1>3, <1>4 DEF Links
<1>6. l \notin Links
  BY <1>1 DEF Links, OutputUnavailable
<1>7. Reg!Connect(out, in.aid)
  BY <1>1, <1>2, <1>5, <1>6 DEF Reg!Connect, OutputUnavailable
<1>8. in.aid \in Aids
  BY DEF Action
<1> QED BY <1>7, <1>8 DEF Reg!Change

\* An unbind takes away the link of the one binding that the key names.
LEMMA UnbindRefines ==
  ASSUME IInv, NEW binder \in aids, NEW key, Unbind(binder, key)
  PROVE  Reg!Change
<1> DEFINE B == BindingsOf(binder, key)
<1>1. PICK b \in B : TRUE
  BY DEF Unbind
<1>2. b \in bindings /\ B = {b}
  BY <1>1 DEF BindingsOf, IInv, Safe, BindKeysExact
<1>3. bindings' = bindings \ {b} /\ Live' = Live
  BY <1>2 DEF Unbind, RemoveBindings, Live
<1>4. Link(b) \in Links
  BY <1>2 DEF Links, Link
<1>5. Links' = Links \ {Link(b)}
  <2>1. \A c \in bindings : Link(c) = Link(b) => c = b
    BY <1>2, OneBindingPerLink
  <2>2. Links = {Link(c) : c \in bindings} /\ Links' = {Link(c) : c \in bindings \ {b}}
    BY <1>3 DEF Links, Link
  <2> QED BY <1>2, <2>1, <2>2
<1>6. Reg!Disconnect(Link(b))
  BY <1>3, <1>4, <1>5 DEF Reg!Disconnect
<1> QED BY <1>4, <1>6 DEF Reg!Change

\* A destruction makes a set of automata leave, with all links that involve them.
LEMMA LeaveRefines ==
  ASSUME IInv, NEW D \in SUBSET Live, D # {},
         DOMAIN records' = Live \ D, bindings' = bindings \ Dissolved(D)
  PROVE  Reg!Change
<1>1. Live' = Live \ D
  BY DEF Live
<1>2. Links' \in SUBSET {l \in Links : l.output.aid \notin D /\ l.input \notin D}
  <2> SUFFICES ASSUME NEW l \in Links'
               PROVE  l \in Links /\ l.output.aid \notin D /\ l.input \notin D
    OBVIOUS
  <2>1. PICK b \in bindings \ Dissolved(D) : l = [output |-> b.output, input |-> b.input.aid]
    BY DEF Links
  <2>2. ~Involves(b, D)
    BY <2>1 DEF Dissolved
  <2> QED BY <2>1, <2>2 DEF Links, Involves
<1>3. Reg!Leave(D)
  BY <1>1, <1>2 DEF Reg!Leave
<1> QED BY <1>3 DEF Reg!Change

\* The destruction of one automaton is that of its subtree.
LEMMA InnerDestroyRefines ==
  ASSUME IInv, NEW t \in Live, InnerDestroy(t)
  PROVE  Reg!Change
<1>1. t \in Subtree(t) /\ Subtree(t) \subseteq Live
  BY SubtreeClosed DEF IInv, Safe
<1>2. DOMAIN records' = Live \ Subtree(t) /\ bindings' = bindings \ Dissolved(Subtree(t))
  BY DEF InnerDestroy
<1> QED BY <1>1, <1>2, LeaveRefines

\* Clear makes all leave; with none there, nothing changes.
LEMMA ClearRefines ==
  ASSUME IInv, Clear
  PROVE  Reg!Change \/ UNCHANGED <<Live, Links>>
<1>1. DOMAIN records' = {} /\ bindings' = bindings \ Dissolved(Live)
  BY DEF Clear
<1>2. CASE Live = {}
  <2>1. bindings = {}
    BY <1>2 DEF IInv, Safe, NoDanglingBinding
  <2> QED BY <1>1, <1>2, <2>1 DEF Live, Links
<1>3. CASE Live # {}
  <2>1. DOMAIN records' = Live \ Live
    BY <1>1
  <2> QED BY <1>1, <1>3, <2>1, LeaveRefines
<1> QED BY <1>2, <1>3

\* Every operation of the registry is a change that Registry allows, or changes
\* nothing that executions see.
LEMMA NextRefines == IInv /\ [Next]_modelVars => [Reg!Change]_<<Live, Links>>
<1> SUFFICES ASSUME IInv, [Next]_modelVars
             PROVE  Reg!Change \/ UNCHANGED <<Live, Links>>
  OBVIOUS
<1>1. ASSUME NEW i \in Instances, InstanceExists(i) PROVE UNCHANGED <<Live, Links>>
  BY <1>1 DEF InstanceExists, Live, Links
<1>2. ASSUME NEW i \in Instances, CreateRoot(i) PROVE Reg!Change \/ UNCHANGED <<Live, Links>>
  <2>1. CASE InstanceExists(i)
    BY <1>1, <2>1
  <2>2. CASE ~InstanceExists(i)
    <3>1. PICK a \in Aids : /\ AidSet!Takes(counter, aids, a)
                            /\ DOMAIN records' = Live \cup {a}
      BY <1>2, <2>2 DEF CreateRoot
    <3>2. a \notin aids /\ bindings' = bindings
      BY <1>2, <2>2, <3>1 DEF CreateRoot, AidSet!Takes
    <3> QED BY <3>1, <3>2, EnterRefines
  <2> QED BY <2>1, <2>2
<1>3. ASSUME NEW p \in Aids, NEW k \in CreateKeys, NEW i \in Instances, Create(p, k, i)
      PROVE  Reg!Change \/ UNCHANGED <<Live, Links>>
  <2>1. CASE InstanceExists(i)
    BY <1>1, <2>1
  <2>2. CASE Created(p, k, i)
    <3>1. PICK a \in Aids : /\ AidSet!Takes(counter, aids, a)
                            /\ DOMAIN records' = Live \cup {a}
      BY <2>2 DEF Created, AddChild
    <3>2. a \notin aids /\ bindings' = bindings
      BY <2>2, <3>1 DEF Created, AidSet!Takes
    <3> QED BY <3>1, <3>2, EnterRefines
  <2> QED BY <1>3, <2>1, <2>2 DEF Create
<1>4. ASSUME NEW a \in Aids, NEW k \in BindKeys, BindAny(a, k) PROVE Reg!Change
  <2>1. PICK o \in Aids, m \in Outputs, i \in Aids, n \in Inputs :
          Bind(a, k, Act(o, m, i), Act(i, n, o))
    BY <1>4 DEF BindAny
  <2>2. Act(o, m, i) \in Action /\ Act(i, n, o) \in Action
    BY ActType DEF Members
  <2> QED BY <2>1, <2>2, BindRefines DEF Bind
<1>5. ASSUME NEW a \in Aids, NEW k \in BindKeys, Unbind(a, k) PROVE Reg!Change
  BY <1>5, UnbindRefines DEF Unbind
<1>6. ASSUME NEW a \in Aids, DestroyTarget(a) PROVE Reg!Change
  BY <1>6, InnerDestroyRefines DEF DestroyTarget, IInv, Safe, RegistriesAgree
<1>7. ASSUME NEW a \in Aids, NEW k \in CreateKeys, Destroy(a, k) PROVE Reg!Change
  <2>1. records[a].children[k] \in Live
    BY <1>7 DEF Destroy, IInv, Safe, RegistriesAgree, ParentsAndChildrenAgree
  <2> QED BY <1>7, <2>1, InnerDestroyRefines DEF Destroy
<1>8. CASE UNCHANGED modelVars
  BY <1>8 DEF modelVars, Live, Links
<1> QED
  BY <1>2, <1>3, <1>4, <1>5, <1>6, <1>7, <1>8, ClearRefines DEF Next

\* The registry implements Registry, for every number of automata and keys: Execution,
\* which is built on Registry, stands on what lib/model.cpp does.
THEOREM RegistryImplemented == Spec => ImplementsRegistry
<1>1. Init => Reg!Empty
  BY InitRefines
<1>2. IInv /\ [Next]_modelVars => [Reg!Change]_(Reg!registryVars)
  BY NextRefines DEF Reg!registryVars
<1> QED
  BY <1>1, <1>2, Invariance, PTL DEF Spec, ImplementsRegistry, Reg!Spec
=============================================================================
