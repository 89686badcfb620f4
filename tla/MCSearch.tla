------------------------------ MODULE MCSearch ------------------------------
(* Small instances of Search.                                              *)
EXTENDS Search

FiveIds == 1..5
SomeFilters == {FiveIds, {1, 2, 4}}
=============================================================================
