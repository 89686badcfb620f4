------------------------------ MODULE MCAccess ------------------------------
(* Small instances of Access.                                              *)
EXTENDS Access, TLC

Symmetry == Permutations(Calls) \cup Permutations(Admins)
=============================================================================
