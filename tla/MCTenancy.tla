------------------------------ MODULE MCTenancy ------------------------------
(* Small instances of Tenancy.                                             *)
EXTENDS Tenancy, TLC

\* The roles that the owner check tells apart.
TwoRoles == {"owner", "administrator"}

Symmetry ==
    Permutations(Organizations) \cup Permutations(Applications) \cup Permutations(Slugs)
    \cup Permutations(Users) \cup Permutations(Names) \cup Permutations(Memberships)
    \cup Permutations(Calls)
=============================================================================
