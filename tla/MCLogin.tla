------------------------------- MODULE MCLogin -------------------------------
(* Login on small instances, for TLC.                                      *)
EXTENDS Login, TLC

CONSTANTS admin, accountant, wrong, blank, k1, k2, p1, p2

MCRank == admin :> "Admin" @@ accountant :> "Accountant" @@ wrong :> "Employee" @@ blank :> "Admin"

(* The connections are alike, and so are the places for panels.            *)
Symmetry == Permutations(Connections) \cup Permutations(Panels)
=============================================================================
