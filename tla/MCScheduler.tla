---------------------------- MODULE MCScheduler ----------------------------
(* SimpleScheduler with its actions spread over the contexts. *)
EXTENDS SimpleScheduler

SpreadHome ==
  CHOOSE h \in [Actions -> Contexts] : \A c \in Contexts : \E a \in Actions : h[a] = c
=============================================================================
