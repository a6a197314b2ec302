--------------------------- MODULE MCArgdataValues --------------------------
(* Symmetry for the model checking of ArgdataValues: no definition tells   *)
(* one address, array or block from another.                               *)
EXTENDS ArgdataValues

Symmetry == Permutations(Node) \cup Permutations(Array) \cup Permutations(Block)
=============================================================================
