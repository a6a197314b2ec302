------------------------------- MODULE MCIoVec ------------------------------
(* The instance of IoVec that TLC checks.                                  *)
EXTENDS IoVec, TLC

Symmetry == Permutations(Vector)
=============================================================================
