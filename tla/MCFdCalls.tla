----------------------------- MODULE MCFdCalls -----------------------------
(* Symmetry for the model checking of FdCalls: the number MapAnon is the   *)
(* only process, thread, number, object or variable name that is told from *)
(* the others.                                                             *)
EXTENDS FdCalls, TLC

Symmetry ==
  Permutations(Proc) \cup Permutations(Thread) \cup Permutations(Object)
    \cup Permutations(Unique) \cup Permutations(Number \ {MapAnon})
=============================================================================
