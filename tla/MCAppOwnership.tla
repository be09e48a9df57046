--------------------------- MODULE MCAppOwnership ---------------------------
(* Small instances of AppOwnership.  Users, rows and requests are           *)
(* interchangeable, and so are the owners that an app may start with.       *)
EXTENDS AppOwnership, TLC

Symmetry == Permutations(Users) \union Permutations(Rows) \union Permutations(Requests)
=============================================================================
