------------------------------ MODULE MCModel ------------------------------
(* Model values for the addresses and keys of Model, and their symmetry. *)
EXTENDS Model, TLC

Symmetry ==
  Permutations(Instances) \cup Permutations(CreateKeys) \cup Permutations(BindKeys)
============================================================================
