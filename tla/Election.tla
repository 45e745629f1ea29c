------------------------------ MODULE Election ------------------------------
(***************************************************************************)
(* What the leader elections promise their network: of the nodes that may  *)
(* be elected one is, once, and no other ever.                             *)
(***************************************************************************)
VARIABLES
    candidates,   \* the nodes that may be elected; fixed by whoever uses the module
    elected       \* the nodes announced as leader

Init == elected = {}

Elect ==
    /\ elected = {}
    /\ \E n \in candidates : elected' = {n}

Spec == Init /\ [][Elect]_elected /\ WF_elected(Elect)
=============================================================================
