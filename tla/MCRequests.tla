----------------------------- MODULE MCRequests -----------------------------
(* Requests on small instances, for TLC.                                   *)
EXTENDS Requests, TLC

CONSTANTS root, worker, guest, a, b, c, c1, c2, AMD, HP

Request(op, login, rank, arg) ==
    [op |-> op, login |-> login, rank |-> rank, arg |-> arg]

(* root is an Admin, worker an Employee, guest nobody at first.            *)
MCUsers == root :> "Admin" @@ worker :> "Employee" @@ guest :> NoRow

(* a and b come from one distributor, c from another one.                  *)
MCDistributor == a :> AMD @@ b :> AMD @@ c :> HP

(* Orders with lines for two distributors, which take two items.           *)
MCTwoDistributors == a :> AMD @@ b :> HP @@ c :> HP

MCStock == a :> 3 @@ b :> 1 @@ c :> NoRow
MCLines(na, nb, nc) == a :> na @@ b :> nb @@ c :> nc
MCOrders == <<[tel |-> c1, lines |-> MCLines(1, 1, 0), done |-> FALSE], NoRow, NoRow>>

(* Any thread may serve any request.  Used by the runs without liveness.   *)
ThreadSymmetry == Permutations(Threads)

(* Accounts: the admin and a guest who may have become one.                *)
AccountRequests ==
    {Request("create_user", root, "Admin", [login |-> guest, rank |-> "Admin"]),
     Request("create_user", root, "Admin", [login |-> guest, rank |-> "Employee"]),
     Request("create_user", guest, "Admin", [login |-> worker, rank |-> "Admin"]),
     Request("update_user", guest, "Admin", [login |-> root, rank |-> "Employee"]),
     Request("update_user", root, "Admin", [login |-> guest, rank |-> "Chief"]),
     Request("delete_user", root, "Admin", guest),
     Request("delete_user", guest, "Admin", root),
     Request("auth", worker, "Employee", "none"),
     Request("get_users", root, "Admin", "none"),
     Request("get_ranks", guest, "Employee", "none"),
     Request("get_income", guest, "Employee", "none")}

(* The shop: the worker fills the stock and completes orders.              *)
StockRequests ==
    {Request("complete_order", worker, "Employee", 1),
     Request("complete_order", worker, "Employee", 2),
     Request("complete_order", worker, "Employee", 3),
     Request("add_item_count", worker, "Employee", [item |-> a, count |-> 1]),
     Request("add_item_count", worker, "Employee", [item |-> a, count |-> -3]),
     Request("add_item", worker, "Employee", [item |-> c, count |-> 2]),
     Request("add_item", worker, "Employee", [item |-> c, count |-> -1]),
     Request("delete_customer", worker, "Employee", c1),
     Request("get_orders", guest, "Employee", "none")}

ShopRequests == AccountRequests \cup StockRequests

MCStockOrders ==
    <<[tel |-> c1, lines |-> MCLines(1, 1, 0), done |-> FALSE],
      [tel |-> c2, lines |-> MCLines(1, 0, 0), done |-> FALSE], NoRow>>

(* More of b than there is, with one line for another item of its          *)
(* distributor.                                                            *)
MCShortOrders ==
    <<[tel |-> c1, lines |-> MCLines(1, 2, 0), done |-> FALSE], NoRow, NoRow>>

(* The customers and their orders.                                         *)
OrderRequests ==
    {Request("add_order", worker, "Employee", [tel |-> c1, lines |-> MCLines(2, 1, 0)]),
     Request("add_order", worker, "Employee", [tel |-> c2, lines |-> MCLines(0, 1, 1)]),
     Request("complete_order", worker, "Employee", 1),
     Request("complete_order", worker, "Employee", 2),
     Request("create_customer", worker, "Employee", c2),
     Request("delete_customer", worker, "Employee", c1),
     Request("delete_customer", worker, "Employee", c2),
     Request("add_item", worker, "Employee", [item |-> c, count |-> 2])}
=============================================================================
