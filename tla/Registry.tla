------------------------------ MODULE Registry ------------------------------
(***************************************************************************)
(* What the registry of lib/model.cpp promises to those that execute       *)
(* actions: which automata are live, and which automata take part as       *)
(* inputs in which output action.  Model is shown to implement it, and     *)
(* Execution is built on it.                                               *)
(***************************************************************************)
CONSTANTS Ids,     \* the aids
          Drivers  \* output actions: records with a field "aid"

VARIABLES live,  \* the automata that exist
          links  \* the bindings, as pairs of an output and an input automaton

registryVars == <<live, links>>

Link == [output : Drivers, input : Ids]

Empty == live = {} /\ links = {}

Enter(a) ==
  /\ a \notin live
  /\ live' = live \cup {a}
  /\ UNCHANGED links

(* No automaton drives itself, and it takes part in an action once. *)
Connect(o, i) ==
  /\ {o.aid, i} \subseteq live
  /\ o.aid # i
  /\ [output |-> o, input |-> i] \notin links
  /\ links' = links \cup {[output |-> o, input |-> i]}
  /\ UNCHANGED live

Disconnect(l) ==
  /\ l \in links
  /\ links' = links \ {l}
  /\ UNCHANGED live

(* The links of the automata that leave go with them, and others can go    *)
(* too: those that an automaton which leaves had made.                     *)
Leave(D) ==
  /\ D # {} /\ D \subseteq live
  /\ live' = live \ D
  /\ links' \in SUBSET {l \in links : l.output.aid \notin D /\ l.input \notin D}

Change ==
  \/ \E a \in Ids : Enter(a)
  \/ \E o \in Drivers, i \in Ids : Connect(o, i)
  \/ \E l \in links : Disconnect(l)
  \/ \E D \in SUBSET live : Leave(D)

Spec == Empty /\ [][Change]_registryVars
=============================================================================
