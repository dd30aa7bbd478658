------------------------------ MODULE MCServer ------------------------------
(* Server on small instances, for TLC.                                     *)
EXTENDS Server

CONSTANTS t1, t2, t3
=============================================================================
