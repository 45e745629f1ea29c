---------------------------- MODULE MCExecution ----------------------------
(* Execution for TLC: the automata are spread over the contexts of the     *)
(* scheduler as schedule_execq does it, by aid modulo their number.        *)
EXTENDS Execution

Contexts == Threads \ Writers
SpreadHome ==
  CHOOSE h \in [0..MaxAid -> Contexts] :
    \A a, b \in 0..MaxAid :
      h[a] = h[b] <=> a % Cardinality(Contexts) = b % Cardinality(Contexts)
=============================================================================
