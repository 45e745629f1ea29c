----------------------------- MODULE IdFactory -----------------------------
(***************************************************************************)
(* What a client of sequential_set may rely on: an id handed out is free,  *)
(* and it is none of the last Window - 1 ids handed out.  Which of the     *)
(* remaining ids it is, is left open.                                      *)
(***************************************************************************)
EXTENDS Integers, Sequences

CONSTANTS Ids, Window

VARIABLES used, recent

TakeFresh(t) ==
  /\ t \notin used
  /\ \A i \in 1..Len(recent) : i > Len(recent) - (Window - 1) => recent[i] # t
  /\ used' = used \cup {t}
  /\ recent' = IF Len(recent) < Window
               THEN Append(recent, t) ELSE Tail(Append(recent, t))

GiveBack(S) ==
  /\ used' = used \ S
  /\ UNCHANGED recent

Init == used = {} /\ recent = <<>>

Next == (\E t \in Ids : TakeFresh(t)) \/ (\E S \in SUBSET used : GiveBack(S))

Spec == Init /\ [][Next]_<<used, recent>>
============================================================================
