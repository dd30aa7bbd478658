-------------------------------- MODULE Shop --------------------------------
(***************************************************************************)
(* What the request handlers promise of the customers, the orders and the  *)
(* stock: whatever statements of several requests interleave or fail, and  *)
(* whenever the process dies, it looks as if each request that changes     *)
(* them were served in one step.                                           *)
(*                                                                         *)
(* The shop counts per distributor.  That is the only count in which a     *)
(* completed order takes what it says, for complete_order takes all that a *)
(* distributor delivers from one of its items.                             *)
(***************************************************************************)
EXTENDS Integers

CONSTANTS
    Tels,           \* keys of customers
    OrderIds,       \* keys of orders
    Distributors,
    Counts,         \* the counts a request may add to the stock, some negative
    NoRow,          \* not a row
    Exact,          \* the stock is never short of what an order takes
    Once            \* an order is completed once

VARIABLES
    customers,      \* the customers there are
    orders,         \* the order of each key: whose it is, what it needs
    total           \* what is in stock of each distributor

vars == <<customers, orders, total>>

Rows == [tel : Tels, need : [Distributors -> Nat], done : BOOLEAN]

Init ==
    /\ customers \subseteq Tels
    /\ orders \in [OrderIds -> Rows \cup {NoRow}]
    /\ \A o \in OrderIds : orders[o] # NoRow => orders[o].tel \in customers
    /\ total \in [Distributors -> Nat]

(* What one request brings, or corrects, is added to one distributor.      *)
Supply ==
    \E d \in Distributors, n \in Counts :
        /\ total[d] + n >= 0
        /\ total' = [total EXCEPT ![d] = @ + n]
        /\ UNCHANGED <<customers, orders>>

Enroll ==
    \E c \in Tels :
        /\ customers' = customers \cup {c}
        /\ UNCHANGED <<orders, total>>

(* A customer leaves with all its orders.                                  *)
Leave ==
    \E c \in customers :
        /\ customers' = customers \ {c}
        /\ orders' = [o \in OrderIds |->
                         IF orders[o] # NoRow /\ orders[o].tel = c THEN NoRow ELSE orders[o]]
        /\ UNCHANGED total

(* A customer places an order, which needs something.                      *)
Place ==
    \E o \in OrderIds :
        /\ orders[o] = NoRow
        /\ orders'[o] \in [tel : customers, need : [Distributors -> Nat], done : {FALSE}]
        /\ \E d \in Distributors : orders'[o].need[d] > 0
        /\ orders' = [orders EXCEPT ![o] = orders'[o]]
        /\ UNCHANGED <<customers, total>>

(* An order is completed, and what it needs leaves the stock: all of it,   *)
(* or what there is if the stock may be short.                             *)
Complete ==
    \E o \in OrderIds :
        /\ orders[o] # NoRow
        /\ Once => ~orders[o].done
        /\ orders' = [orders EXCEPT ![o].done = TRUE]
        /\ total' \in [Distributors -> Nat]
        /\ \A d \in Distributors :
              /\ total[d] - orders[o].need[d] <= total'[d]
              /\ total'[d] <= total[d]
              /\ Exact => total'[d] = total[d] - orders[o].need[d]
        /\ UNCHANGED customers

Next == Enroll \/ Leave \/ Place \/ Supply \/ Complete

Spec == Init /\ [][Next]_vars
=============================================================================
