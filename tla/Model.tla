------------------------------- MODULE Model -------------------------------
(***************************************************************************)
(* The registry of automata and bindings of lib/model.cpp, with the        *)
(* records of lib/automaton_record.cpp and the binding records that every  *)
(* output executor keeps (output_core in include/ioa/action_executor.hpp). *)
(*                                                                         *)
(* Every operation below runs under the unique lock of m_mutex, so it is   *)
(* one step.  The operations that run under the shared lock (execute...)   *)
(* leave this state alone; module Execution models their locking and       *)
(* module System the automaton code they run.  The notifications an        *)
(* operation posts to the scheduler are the ...Posts operators of System.  *)
(*                                                                         *)
(* An action is named by its automaton, its member pointer and, for a      *)
(* parameterised action, its parameter; an auto_parameterized action takes *)
(* the aid of the automaton it is bound to.  All automata have one type,   *)
(* so an executor finds its instance whenever the automaton is live.       *)
(***************************************************************************)
EXTENDS Integers, FiniteSets

CONSTANTS MaxAid,      \* the largest aid_t
          Instances,   \* addresses an allocator can return
          CreateKeys,  \* keys of create and destroy (helper addresses)
          BindKeys,    \* keys of bind and unbind (helper addresses)
          Outputs,     \* output members of an automaton
          Inputs,      \* input members of an automaton
          AutoMembers, \* those members that are auto_parameterized
          NoKey,       \* m_key of a root automaton
          MaxBindings  \* bound: no bind when this many bindings exist

ASSUME MaxAidAssumption == MaxAid \in Nat
ASSUME NoKeyAssumption == NoKey \notin CreateKeys
ASSUME MaxBindingsAssumption == MaxBindings \in Nat

VARIABLES counter,    \* the counter of m_aids
          aids,       \* m_aids
          instances,  \* m_instances
          records,    \* m_records
          executors,  \* m_bindings: the output executors, without their
          bindings    \* ... binding records, which are kept here

modelVars == <<counter, aids, instances, records, executors, bindings>>
treeVars == <<counter, aids, instances>>

Aids == 0..MaxAid
NoAid == -1

Members == Outputs \cup Inputs
Pids == Aids \cup {NoAid}

(* action_executor: the handle, the member and the parameter. *)
Action == [aid : Aids, member : Members, pid : Pids]

Record == [instance : Instances, parent : Aids \cup {NoAid},
           key : CreateKeys \cup {NoKey},
           children : [CreateKeys -> Aids \cup {NoAid}],
           bindKeys : SUBSET BindKeys]

Executor == [output : Action, instance : Instances]

(* output_core::record; "instance" is the m_instance of the input executor *)
(* that was cloned into it.                                                *)
Binding == [output : Action, input : Action, instance : Instances,
            binder : Aids, key : BindKeys]

Live == DOMAIN records
-----------------------------------------------------------------------------
AidSet == INSTANCE SequentialSet
            WITH MaxId <- MaxAid, MaxUsed <- MaxAid, used <- aids, recent <- <<>>

NewRecord(instance, parent, key) ==
  [instance |-> instance, parent |-> parent, key |-> key,
   children |-> [k \in CreateKeys |-> NoAid], bindKeys |-> {}]

CreateKeyExists(a, key) == records[a].children[key] # NoAid

BindKeyExists(a, key) == key \in records[a].bindKeys

Children(a) == {records[a].children[k] : k \in CreateKeys} \ {NoAid}

(* The automata that inner_destroy (a) destroys: the least set that        *)
(* contains a and is closed under children.                                *)
Subtree(a) ==
  {d \in Live : \A S \in SUBSET Live :
     (a \in S /\ \A x \in S : Children(x) \subseteq S) => d \in S}

(* The entries of m_instances that the destruction of D erases. *)
OwnedForgotten(D) == {}  \* mutant: the erase is missing
Owned(D) == {records[d].instance : d \in D}

(* unbind_automaton: the bindings that do not survive the automata D. *)
InvolvesButBinder(b, D) == b.output.aid \in D \/ b.input.aid \in D  \* mutant
Involves(b, D) == b.output.aid \in D \/ b.input.aid \in D \/ b.binder \in D
Dissolved(D) == {b \in bindings : Involves(b, D)}

(* An executor is erased when its last binding record goes. *)
NonEmpty(E, B) == {e \in E : \E b \in B : b.output = e.output}

(* The destructor of a binding record takes its key from the binder (in    *)
(* the mutant, from the automaton of the output).                          *)
WithoutKeysOfOutput(a, r, B) ==
  [r EXCEPT !.bindKeys = @ \ {b.key : b \in {c \in B : c.output.aid = a}}]
WithoutKeys(a, r, B) ==
  [r EXCEPT !.bindKeys = @ \ {b.key : b \in {c \in B : c.binder = a}}]
-----------------------------------------------------------------------------
Init ==
  /\ counter = 0
  /\ aids = {}
  /\ instances = {}
  /\ records = [a \in {} |-> NewRecord(a, NoAid, NoKey)]
  /\ executors = {}
  /\ bindings = {}

(* Both forms of create take an aid before they run the allocator, and     *)
(* give it back when the allocator returns the address of a live automaton.*)
InstanceExists(instance) ==
  /\ instance \in instances
  /\ \E a \in Aids : AidSet!Takes(counter, aids, a) /\ counter' = a
  /\ UNCHANGED <<aids, instances, records, executors, bindings>>

CreateRoot(instance) ==
  \/ InstanceExists(instance)
  \/ /\ instance \notin instances
     /\ \E a \in Aids :
          /\ AidSet!Takes(counter, aids, a)
          /\ counter' = a
          /\ aids' = aids \cup {a}
          /\ records' = [x \in Live \cup {a} |->
                           IF x = a THEN NewRecord(instance, NoAid, NoKey)
                           ELSE records[x]]
     /\ instances' = instances \cup {instance}
     /\ UNCHANGED <<executors, bindings>>

(* set_parent on the new record and add_child on the parent's. *)
AddChildSwapped(parent, key, a, instance) ==  \* mutant: pair swapped
  [x \in Live \cup {a} |->
     IF x = a THEN NewRecord(instance, parent, key)
     ELSE IF x = parent THEN [records[x] EXCEPT !.children[key] = key]
     ELSE records[x]]
AddChild(parent, key, a, instance) ==
  [x \in Live \cup {a} |->
     IF x = a THEN NewRecord(instance, parent, key)
     ELSE IF x = parent THEN [records[x] EXCEPT !.children[key] = a]
     ELSE records[x]]

Created(creator, key, instance) ==
  /\ instance \notin instances
  /\ \E a \in Aids :
       /\ AidSet!Takes(counter, aids, a)
       /\ counter' = a
       /\ aids' = aids \cup {a}
       /\ records' = AddChild(creator, key, a, instance)
  /\ instances' = instances \cup {instance}
  /\ UNCHANGED <<executors, bindings>>

(* The early returns (creator gone, key in use) change nothing. *)
Create(creator, key, instance) ==
  /\ creator \in aids
  /\ ~CreateKeyExists(creator, key)
  /\ InstanceExists(instance) \/ Created(creator, key, instance)
-----------------------------------------------------------------------------
(* set_parameter: an auto_parameterized action takes its peer's aid. *)
Act(aid, member, peer) ==
  [aid |-> aid, member |-> member,
   pid |-> IF member \in AutoMembers THEN peer ELSE NoAid]

BindingExists(out, in, binder) ==
  \E b \in bindings : b.output = out /\ b.input = in /\ b.binder = binder

InputUnavailable(in) == \E b \in bindings : b.input = in

(* In the mutant, one of the two conditions is missing. *)
OutputUnavailableIfInvolved(out, in) ==
  \E b \in bindings : b.output = out /\ b.input.aid = in.aid
OutputUnavailable(out, in) ==
  \/ out.aid = in.aid
  \/ \E b \in bindings : b.output = out /\ b.input.aid = in.aid

(* The first check of bind that fails names the result. *)
BindResult(binder, key, out, in) ==
  IF BindKeyExists(binder, key) THEN "BIND_KEY_EXISTS" ELSE
  IF out.aid \notin Live THEN "OUTPUT_AUTOMATON_DNE" ELSE
  IF in.aid \notin Live THEN "INPUT_AUTOMATON_DNE" ELSE
  IF BindingExists(out, in, binder) THEN "BINDING_EXISTS" ELSE
  IF InputUnavailable(in) THEN "INPUT_ACTION_UNAVAILABLE" ELSE
  IF OutputUnavailable(out, in) THEN "OUTPUT_ACTION_UNAVAILABLE" ELSE
  "BOUND"

(* The executor of the output is cloned at its first binding. *)
AddBinding(binder, key, out, in) ==
  /\ executors' =
       IF \E e \in executors : e.output = out THEN executors
       ELSE executors \cup {[output |-> out, instance |-> records[out.aid].instance]}
  /\ bindings' = bindings \cup
       {[output |-> out, input |-> in, instance |-> records[in.aid].instance,
         binder |-> binder, key |-> key]}
  /\ records' = [records EXCEPT ![binder].bindKeys = @ \cup {key}]
  /\ UNCHANGED treeVars

Bind(binder, key, out, in) ==
  /\ binder \in aids
  /\ BindResult(binder, key, out, in) = "BOUND"
  /\ AddBinding(binder, key, out, in)

BindingsOfKey(binder, key) == {b \in bindings : b.key = key}  \* mutant
BindingsOf(binder, key) == {b \in bindings : b.binder = binder /\ b.key = key}

RemoveBindings(B) ==
  /\ bindings' = bindings \ B
  /\ executors' = NonEmpty(executors, bindings \ B)
  /\ records' = [a \in Live |-> WithoutKeys(a, records[a], B)]
  /\ UNCHANGED treeVars

Unbind(binder, key) ==
  /\ binder \in aids
  /\ BindingsOf(binder, key) # {}
  /\ RemoveBindings(BindingsOf(binder, key))
-----------------------------------------------------------------------------
(* remove_child on the parent of the root of the destroyed subtree. *)
KeepChild(t, a, r) == r  \* mutant
ForgetChild(t, a, r) ==
  IF a = records[t].parent THEN [r EXCEPT !.children[records[t].key] = NoAid]
  ELSE r

InnerDestroy(t) ==
  LET D == Subtree(t)
      B == Dissolved(D)
  IN /\ bindings' = bindings \ B
     /\ executors' = NonEmpty(executors, bindings \ B)
     /\ records' = [a \in Live \ D |->
                      ForgetChild(t, a, WithoutKeys(a, records[a], B))]
     /\ aids' = aids \ D
     /\ instances' = instances \ Owned(D)
     /\ UNCHANGED counter

DestroyTarget(t) == t \in aids /\ InnerDestroy(t)

Destroy(a, key) ==
  /\ a \in aids
  /\ CreateKeyExists(a, key)
  /\ InnerDestroy(records[a].children[key])

(* clear destroys root after root until no record is left; nothing is left *)
(* over in the other sets exactly when they agree with the records.        *)
Clear ==
  /\ records' = [a \in {} |-> NewRecord(a, NoAid, NoKey)]
  /\ aids' = aids \ Live
  /\ instances' = instances \ Owned(Live)
  /\ bindings' = bindings \ Dissolved(Live)
  /\ executors' = NonEmpty(executors, bindings \ Dissolved(Live))
  /\ UNCHANGED counter
-----------------------------------------------------------------------------
BindAny(binder, key) ==
  /\ Cardinality(bindings) < MaxBindings
  /\ \E o \in Aids, m \in Outputs, i \in Aids, n \in Inputs :
       Bind(binder, key, Act(o, m, i), Act(i, n, o))

Next ==
  \/ \E i \in Instances : CreateRoot(i)
  \/ \E a \in Aids, k \in CreateKeys, i \in Instances : Create(a, k, i)
  \/ \E a \in Aids, k \in BindKeys : BindAny(a, k)
  \/ \E a \in Aids, k \in BindKeys : Unbind(a, k)
  \/ \E a \in Aids : DestroyTarget(a)
  \/ \E a \in Aids, k \in CreateKeys : Destroy(a, k)
  \/ Clear

Spec == Init /\ [][Next]_modelVars
-----------------------------------------------------------------------------
TypeOK ==
  /\ counter \in Aids
  /\ aids \in SUBSET Aids
  /\ instances \in SUBSET Instances
  /\ Live \in SUBSET Aids
  /\ records \in [Live -> Record]
  /\ executors \in SUBSET Executor
  /\ bindings \in SUBSET Binding

(* The three registries of live automata agree: an aid is in use exactly   *)
(* when it has a record, an address exactly when one record owns it.       *)
RegistriesAgree ==
  /\ aids = Live
  /\ instances = {records[a].instance : a \in Live}
  /\ \A a, b \in Live : records[a].instance = records[b].instance => a = b

(* The m_children map of a parent and the m_parent, m_key of a child are   *)
(* two views of one tree: each child is live and names the parent and key  *)
(* that hold it, and each automaton with a parent is held by it.           *)
ParentsAndChildrenAgree ==
  /\ \A p \in Live, k \in CreateKeys :
       CreateKeyExists(p, k) =>
         /\ records[p].children[k] \in Live
         /\ records[records[p].children[k]].parent = p
         /\ records[records[p].children[k]].key = k
  /\ \A a \in Live :
       records[a].parent # NoAid =>
         /\ records[a].parent \in Live
         /\ records[a].key \in CreateKeys
         /\ records[records[a].parent].children[records[a].key] = a

(* No cycle of parents: some member of any set of live automata has its    *)
(* parent outside.  So the recursion of inner_destroy ends, and the loop of*)
(* clear, which looks for a root as long as records remain, finds one.     *)
TreeWellFounded ==
  \A S \in SUBSET Live : S # {} => \E a \in S : records[a].parent \notin S

(* No binding outlives an automaton it needs, and the instances cached in  *)
(* executors are those of the live automata with their aids: execution and *)
(* the destructor of a binding record never follow a dangling pointer.     *)
NoDanglingBinding ==
  /\ \A b \in bindings :
       /\ {b.output.aid, b.input.aid, b.binder} \subseteq Live
       /\ b.instance = records[b.input.aid].instance
  /\ \A e \in executors :
       e.output.aid \in Live /\ e.instance = records[e.output.aid].instance

(* m_bindings holds one executor for an output that is bound, and none for *)
(* an output that is not.                                                  *)
OneExecutorPerOutput ==
  /\ \A b \in bindings : \E e \in executors : e.output = b.output
  /\ \A e \in executors : \E b \in bindings : b.output = e.output
  /\ \A e, f \in executors : e.output = f.output => e = f

(* The keys a binder has in use are the keys of its bindings, one binding  *)
(* per key: unbind finds the binding that the key was given to.            *)
BindKeysExact ==
  /\ \A a \in Live :
       records[a].bindKeys = {b.key : b \in {c \in bindings : c.binder = a}}
  /\ \A b, c \in bindings : b.binder = c.binder /\ b.key = c.key => b = c

(* The automata that one execution of an output involves are distinct, and *)
(* an input action is driven by one output: no automaton takes part twice  *)
(* in an action, none is driven by two outputs on the same input.          *)
ActionsDisjoint ==
  /\ \A b \in bindings : b.output.aid # b.input.aid
  /\ \A b, c \in bindings :
       \/ b = c
       \/ b.input # c.input /\ ~(b.output = c.output /\ b.input.aid = c.input.aid)

(* The tree of automata is one tree, seen from either end. *)
TreeSound == ParentsAndChildrenAgree /\ TreeWellFounded

(* Executors, bindings and keys are in step, and actions are disjoint. *)
BindingsSound == OneExecutorPerOutput /\ BindKeysExact /\ ActionsDisjoint

(* All of the above, the safety of the registry. *)
Safe ==
  /\ RegistriesAgree
  /\ ParentsAndChildrenAgree
  /\ TreeWellFounded
  /\ NoDanglingBinding
  /\ OneExecutorPerOutput
  /\ BindKeysExact
  /\ ActionsDisjoint

(* A binding disappears because an automaton it needs was destroyed, or    *)
(* alone, by an unbind of its binder that names its key: no operation      *)
(* takes down a binding of automata that have nothing to do with it.       *)
LossJustified ==
  \A b \in bindings \ bindings' :
    \/ ~({b.output.aid, b.input.aid, b.binder} \subseteq DOMAIN records')
    \/ /\ bindings \ bindings' = {b}
       /\ b.key \notin records'[b.binder].bindKeys

BindingLossJustified == [][LossJustified]_modelVars

(* Executions see of this module only which automata are live and which    *)
(* are linked by an output action, and that changes as Registry allows.    *)
Links == {[output |-> b.output, input |-> b.input.aid] : b \in bindings}

Reg == INSTANCE Registry
         WITH Ids <- Aids, Drivers <- Action, live <- Live, links <- Links

ImplementsRegistry == Reg!Spec
============================================================================
