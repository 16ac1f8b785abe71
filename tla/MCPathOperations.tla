-------------------------- MODULE MCPathOperations --------------------------
(* Instances of PathOperations with symmetric paths.                       *)
EXTENDS PathOperations, TLC

PathSymmetry == Permutations(Ordinary)
=============================================================================
