------------------------------ MODULE Exchange ------------------------------
(***************************************************************************)
(* What a connection of the server promises its client, whatever the       *)
(* threads, the timer and the reactor do: requests and responses           *)
(* alternate, each request that is taken gets at most one response, and a  *)
(* connection that is given up is never taken up again.                    *)
(***************************************************************************)
EXTENDS Naturals

VARIABLES
    phase,      \* waiting for a request, serving one, or gone
    answered    \* responses given so far

vars == <<phase, answered>>

Init == phase = "waiting" /\ answered = 0

Take ==
    /\ phase = "waiting"
    /\ phase' = "serving"
    /\ UNCHANGED answered

Answer ==
    /\ phase = "serving"
    /\ phase' = "waiting"
    /\ answered' = answered + 1

Drop ==
    /\ phase # "gone"
    /\ phase' = "gone"
    /\ UNCHANGED answered

Next == Take \/ Answer \/ Drop

Spec == Init /\ [][Next]_vars
=============================================================================
