------------------------------- MODULE MCFiles ------------------------------
(***************************************************************************)
(* A small instance of Files.                                              *)
(***************************************************************************)
EXTENDS Files, TLC

Symmetry == Permutations(Slots) \cup Permutations(CloudFiles) \cup Permutations(Categories)
=============================================================================
