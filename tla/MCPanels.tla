------------------------------ MODULE MCPanels ------------------------------
(* Panels on small instances, for TLC.                                     *)
EXTENDS Panels, TLC

CONSTANTS me, u1, u2, k1, k2

(* The user of the client is neither the first nor the last.               *)
MCListing(S) == SelectSeq(<<u1, me, u2>>, LAMBDA l : l \in S)

(* The connections are alike.                                              *)
ConnectionSymmetry == Permutations(Connections)
=============================================================================
