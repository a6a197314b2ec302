--------------------------- MODULE MCFdOwnership ---------------------------
(* Symmetry for the model checking of FdOwnership: no definition tells one *)
(* process, thread, number, object or variable name from another.          *)
EXTENDS FdOwnership, TLC

Symmetry ==
  Permutations(Proc) \cup Permutations(Thread) \cup Permutations(Number)
    \cup Permutations(Object) \cup Permutations(Unique)
=============================================================================
