----------------------------- MODULE MCPageFile ------------------------------
(***************************************************************************)
(* Instances of PageFile for TLC.  The two holders are interchangeable in  *)
(* the specification, in the type invariant and in the list invariants.    *)
(***************************************************************************)
EXTENDS PageFile, TLC

HolderSymmetry == Permutations(Holders)
=============================================================================
