------------------------------- MODULE MCJobs -------------------------------
(* Small instances of Jobs.                                                *)
EXTENDS Jobs, TLC

Symmetry == Permutations(Executors) \cup Permutations(Admins)
=============================================================================
