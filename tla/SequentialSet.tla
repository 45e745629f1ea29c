--------------------------- MODULE SequentialSet ---------------------------
(***************************************************************************)
(* The id allocator of lib/sequential_set.hpp.  Ids are handed out in      *)
(* ascending order, an id in use is skipped, and the counter returns to 0  *)
(* after the largest value of the id type.  The class exists because a     *)
(* stale id must not be taken for a new resource ("The Aliasing Problem"): *)
(* an id that was given back must not come out again too soon.             *)
(*                                                                         *)
(* T is aid_t; 0 .. MaxId stands for its non-negative values.              *)
(***************************************************************************)
EXTENDS Integers, FiniteSets, Sequences

CONSTANTS MaxId,    \* the largest value of the id type
          MaxUsed   \* how many ids the client holds at once

ASSUME MaxIdAssumption == MaxId \in Nat
ASSUME MaxUsedAssumption == MaxUsed \in Nat

Ids == 0..MaxId

VARIABLES counter,  \* m_counter
          used,     \* m_used
          recent    \* history: the latest ids handed out, newest last

setVars == <<counter, used, recent>>

(* The n-th value that the loop of take visits: every increment past MaxId *)
(* (which makes m_counter negative) continues from 0.                      *)
NthNoReset(c, n) == c + n
Nth(c, n) == (c + n) % (MaxId + 1)

(* The loop of take stops at t: t is free and all it visited before is not.*)
TakesAnyFree(c, U, t) == t \notin U
Takes(c, U, t) ==
  \E n \in 1..(MaxId + 1) :
    /\ t = Nth(c, n)
    /\ t \notin U
    /\ \A j \in 1..(n - 1) : Nth(c, j) \in U

(* With at most MaxUsed ids held, this many consecutive takes are distinct.*)
Window == MaxId - MaxUsed + 2

Remember(t) ==
  LET s == Append(recent, t)
  IN IF Len(s) > Window THEN Tail(s) ELSE s
-----------------------------------------------------------------------------
Init ==
  /\ counter = 0
  /\ used = {}
  /\ recent = <<>>

Take ==
  /\ Cardinality(used) < MaxUsed
  /\ \E t \in {Nth(counter, n) : n \in 1..(MaxId + 1)} :
       /\ Takes(counter, used, t)
       /\ counter' = t
       /\ used' = used \cup {t}
       /\ recent' = Remember(t)

Replace(t) ==
  /\ used' = used \ {t}
  /\ UNCHANGED <<counter, recent>>

Clear ==
  /\ used' = {}
  /\ UNCHANGED <<counter, recent>>

Next == Take \/ Clear \/ \E t \in used : Replace(t)

Spec == Init /\ [][Next]_setVars
-----------------------------------------------------------------------------
(* The counter and the ids in use stay values of the id type that are not  *)
(* negative: the wrap of take is never missed.                             *)
TypeOK ==
  /\ counter \in Ids
  /\ used \in SUBSET Ids
  /\ recent \in Seq(Ids)

(* What the comment of sequential_set.hpp promises, as an abstract id      *)
(* factory: take returns an id that is free and that is not among the ids  *)
(* handed out lately, whatever the order in which ids are given back.      *)
Factory == INSTANCE IdFactory

RefinesIdFactory == Factory!Spec
============================================================================
