--------------------------- MODULE RequestsProofs ---------------------------
(***************************************************************************)
(* Proofs about Requests, for any number of threads, any rows to start     *)
(* with and any requests: what the handlers do to the orders while others  *)
(* add, complete and delete them, statements fail and the process dies.    *)
(***************************************************************************)
EXTENDS Requests, FiniteSetTheorems, TLAPS

Labels == {"idle", "check", "act", "insert", "cascade", "deduct", "finish", "line",
           "commit", "rollback"}

(* What the variables are, as far as the orders depend on them.            *)
Typed ==
    /\ users = [l \in Logins |-> users[l]]
    /\ answer = [t \in Threads |-> answer[t]]
    /\ orders \in [OrderIds -> OrderRows \cup {NoRow}]
    /\ next_order \in Nat
    /\ deductions \in [OrderIds -> Nat]
    /\ pc \in [Threads -> Labels]
    /\ req \in [Threads -> RequestSet \cup {[op |-> "none"]}]
    /\ todo \in [Threads -> SUBSET Items]

(* The record of a transaction.                                            *)
Record(s, o, c, i, l, n) ==
    [stock |-> s, orders |-> o, tels |-> c, items |-> i, lines |-> l, seen |-> n]

(* A transaction is a record, and the orders it has written are rows.      *)
Shaped ==
    /\ tx = [t \in Threads |-> tx[t]]
    /\ \A t \in Threads :
          /\ tx[t] = Record(tx[t].stock, tx[t].orders, tx[t].tels,
                            tx[t].items, tx[t].lines, tx[t].seen)
          /\ tx[t].orders = [o \in DOMAIN tx[t].orders |-> tx[t].orders[o]]

(* A key that has not been handed out has no order and never had one.      *)
Fresh ==
    \A o \in OrderIds : o >= next_order => orders[o] = NoRow /\ deductions[o] = 0

(* No order is empty: something is taken from the stock for each.          *)
LinesGiven ==
    \A o \in OrderIds : orders[o] # NoRow => Ordered(orders[o]) # {}

(* Where a thread is tells what it serves and whether it has written.      *)
Placed(t) ==
    /\ pc[t] # "idle" => req[t] \in RequestSet
    /\ pc[t] \in {"idle", "check", "act", "insert", "cascade", "deduct"} => tx[t] = NoTx
    /\ pc[t] \in {"deduct", "finish"} => req[t].op = "complete_order"
    /\ pc[t] = "line" => req[t].op = "add_order"
    /\ pc[t] \in {"commit", "rollback"} => req[t].op \in {"complete_order", "add_order"}
    /\ tx[t].tels \subseteq customers

(* complete_order writes the row of its order only, which stays while it   *)
(* is locked, and has taken the lines when it commits the row.             *)
Completing(t) ==
    pc[t] # "idle" /\ req[t].op = "complete_order" =>
        /\ req[t].arg < next_order
        /\ DOMAIN tx[t].orders \subseteq {req[t].arg}
        /\ \A o \in DOMAIN tx[t].orders :
              orders[o] # NoRow /\ tx[t].orders[o] = [orders[o] EXCEPT !.done = TRUE]
        /\ tx[t].lines \subseteq {req[t].arg}
        /\ tx[t].lines # {} => orders[req[t].arg] # NoRow
        /\ pc[t] = "finish" =>
              /\ DOMAIN tx[t].orders = {}
              /\ tx[t].stock = <<>> => orders[req[t].arg] = NoRow
              /\ tx[t].stock # <<>> => tx[t].lines # {}
        /\ pc[t] = "commit" =>
              IF DOMAIN tx[t].orders = {}
                THEN /\ tx[t].stock = <<>>
                     /\ orders[req[t].arg] = NoRow \/ orders[req[t].arg].done
                ELSE tx[t].stock # <<>>

(* The row add_order is going to add, with the lines it has added so far.  *)
RowSoFar(t) ==
    [tel   |-> req[t].arg.tel,
     lines |-> [i \in Items |-> IF i \in todo[t] THEN 0 ELSE req[t].arg.lines[i]],
     done  |-> FALSE]

(* add_order writes one new row, which nobody else sees.                   *)
Adding(t) ==
    pc[t] \in {"line", "commit", "rollback"} /\ req[t].op = "add_order" =>
        /\ tx[t].stock = <<>>
        /\ \A o, p \in DOMAIN tx[t].orders : o = p
        /\ \A o \in DOMAIN tx[t].orders :
              /\ o \in OrderIds /\ o < next_order
              /\ orders[o] = NoRow /\ deductions[o] = 0
              /\ pc[t] # "rollback" => tx[t].orders[o] = RowSoFar(t)
              /\ req[t].arg.tel \in tx[t].tels
        /\ pc[t] # "rollback" => DOMAIN tx[t].orders # {}
        /\ pc[t] = "commit" => todo[t] = {}

(* No two transactions write one order, and what one is adding is not what *)
(* another one completes.                                                  *)
Apart(t, u) ==
    t # u =>
        /\ DOMAIN tx[t].orders \cap DOMAIN tx[u].orders = {}
        /\ pc[t] # "idle" /\ req[t].op = "complete_order" /\ req[u].op = "add_order" =>
              req[t].arg \notin DOMAIN tx[u].orders

Each ==
    \A t \in Threads : Placed(t) /\ Completing(t) /\ Adding(t) /\ \A u \in Threads : Apart(t, u)

IInv ==
    /\ Typed /\ Shaped /\ Fresh /\ LinesGiven /\ Each
    /\ OrdersHaveCustomers /\ DoneIffDeducted

-----------------------------------------------------------------------------
(* A thread outside a transaction holds nothing.                           *)
LEMMA NothingHeld ==
    /\ NoTx.stock = <<>> /\ DOMAIN NoTx.orders = {} /\ NoTx.orders = <<>>
    /\ NoTx.tels = {} /\ NoTx.lines = {} /\ NoTx.items = {} /\ NoTx.seen = {}
  BY DEF NoTx

(* Keys are numbers.                                                       *)
LEMMA KeysAreNumbers == OrderIds \subseteq Nat
<1>1. Cardinality(OrderIds) \in Nat
  BY OrderIdsAssumption, FS_CardinalityType
<1> QED
  BY <1>1, OrderIdsAssumption

(* What does not concern a thread leaves what is known of it alone.        *)
Untouched(u) ==
    UNCHANGED <<pc[u], req[u], todo[u], tx[u]>>

LEMMA Frame ==
    ASSUME Typed, NEW u \in Threads, Untouched(u), Placed(u), Completing(u), Adding(u),
           UNCHANGED <<orders, deductions>>, customers \subseteq customers',
           next_order' \in Nat, next_order' >= next_order
    PROVE  Placed(u)' /\ Completing(u)' /\ Adding(u)'
<1>1. Placed(u)'
  BY DEF Untouched, Placed
<1>2. Completing(u)'
  <2>1. CASE pc[u] # "idle" /\ req[u].op = "complete_order"
    <3>1. req[u].arg \in OrderIds
      BY <2>1, RequestsAssumption DEF Placed
    <3>2. req[u].arg < next_order'
      BY <2>1, <3>1, KeysAreNumbers DEF Completing, Typed
    <3> QED
      BY <2>1, <3>2 DEF Untouched, Completing
  <2>2. CASE ~(pc[u] # "idle" /\ req[u].op = "complete_order")
    BY <2>2 DEF Untouched, Completing
  <2> QED
    BY <2>1, <2>2
<1>3. Adding(u)'
  <2>1. CASE pc[u] \in {"line", "commit", "rollback"} /\ req[u].op = "add_order"
    <3>1. RowSoFar(u)' = RowSoFar(u)
      BY DEF Untouched, RowSoFar
    <3>2. \A o \in DOMAIN tx[u].orders : o < next_order'
      BY <2>1, KeysAreNumbers DEF Adding, Typed
    <3> QED
      BY <2>1, <3>1, <3>2 DEF Untouched, Adding
  <2>2. CASE ~(pc[u] \in {"line", "commit", "rollback"} /\ req[u].op = "add_order")
    BY <2>2 DEF Untouched, Adding
  <2> QED
    BY <2>1, <2>2
<1> QED
  BY <1>1, <1>2, <1>3

(* Threads that are apart stay apart when neither gets more.               *)
LEMMA StayApart ==
    ASSUME NEW u \in Threads, NEW v \in Threads, Apart(u, v),
           UNCHANGED <<req[u], req[v]>>,
           pc'[u] # "idle" => pc[u] # "idle",
           DOMAIN tx'[u].orders \subseteq DOMAIN tx[u].orders,
           DOMAIN tx'[v].orders \subseteq DOMAIN tx[v].orders
    PROVE  Apart(u, v)'
  BY DEF Apart

(* Whatever the tables start with, nothing is under way.                   *)
LEMMA InitIInv == Init => IInv
<1> SUFFICES ASSUME Init PROVE IInv
  OBVIOUS
<1> USE DEF Init, DatabaseInit
<1>1. Cardinality(FirstIds) \in Nat
  <2>1. IsFiniteSet(FirstIds)
    BY OrderIdsAssumption, FS_Subset DEF FirstIds
  <2> QED
    BY <2>1, FS_CardinalityType
<1>2. Typed
  <2>6. answer = [t \in Threads |-> answer[t]]
    OBVIOUS
  <2>1. users = [l \in Logins |-> users[l]] /\ orders \in [OrderIds -> OrderRows \cup {NoRow}]
    BY FirstRowsAssumption
  <2>2. next_order \in Nat
    BY <1>1
  <2>3. deductions \in [OrderIds -> Nat]
    OBVIOUS
  <2>4. pc \in [Threads -> Labels] /\ todo \in [Threads -> SUBSET Items]
    BY DEF Labels
  <2>5. req \in [Threads -> RequestSet \cup {[op |-> "none"]}]
    OBVIOUS
  <2> QED
    BY <2>1, <2>2, <2>3, <2>4, <2>5, <2>6 DEF Typed
<1>3. Shaped
  BY DEF Shaped, NoTx, Record
<1>4. Fresh
  <2> SUFFICES ASSUME NEW o \in OrderIds, o >= next_order
               PROVE  orders[o] = NoRow /\ deductions[o] = 0
    BY DEF Fresh
  <2>1. o \notin FirstIds
    BY <1>1, FirstOrdersAssumption, KeysAreNumbers
  <2> QED
    BY <2>1 DEF FirstIds
<1>5. Each
  BY NothingHeld DEF Each, Placed, Completing, Adding, Apart
<1>6. OrdersHaveCustomers
  BY FirstOrdersAssumption DEF OrdersHaveCustomers, FirstIds
<1>8. LinesGiven
  BY FirstOrdersAssumption DEF LinesGiven, FirstIds, Ordered
<1>7. DoneIffDeducted
  <2> SUFFICES ASSUME NEW o \in OrderIds, orders[o] # NoRow
               PROVE  orders[o].done <=> deductions[o] > 0
    BY DEF DoneIffDeducted
  <2>1. deductions[o] = IF FirstOrders[o].done THEN 1 ELSE 0
    OBVIOUS
  <2> QED
    BY <2>1
<1> QED
  BY <1>2, <1>3, <1>4, <1>5, <1>6, <1>7, <1>8 DEF IInv

-----------------------------------------------------------------------------
(* The steps, by what they do to the orders.  Many only move on ...        *)
Quiet(t) ==
    /\ pc[t] \in {"check", "act", "insert", "cascade"}
    /\ \E l \in {"idle", "act", "insert", "cascade"} : pc' = [pc EXCEPT ![t] = l]
    /\ UNCHANGED <<orders, next_order, tx, todo, req, deductions>>
    /\ customers \subseteq customers'

(* ... some delete the orders of a customer nobody needs ...               *)
Deletes(t) ==
    /\ pc[t] = "cascade"
    /\ pc' = [pc EXCEPT ![t] = "idle"]
    /\ TelDeletable(t, req[t].arg)
    /\ customers' = customers \ {req[t].arg}
    /\ orders' = [o \in OrderIds |->
                     IF orders[o] # NoRow /\ orders[o].tel = req[t].arg
                       THEN NoRow ELSE orders[o]]
    /\ UNCHANGED <<next_order, tx, todo, req, deductions>>

(* ... a transaction may be given up ...                                   *)
GivesUp(t) ==
    /\ pc[t] \in {"act", "insert", "deduct", "finish", "line"}
    /\ req[t].op \in {"complete_order", "add_order"}
    /\ pc' = [pc EXCEPT ![t] = "rollback"]
    /\ UNCHANGED <<customers, orders, next_order, tx, todo, req, deductions>>

(* ... or rolled back ...                                                  *)
Reverts(t) ==
    /\ pc' = [pc EXCEPT ![t] = "idle"]
    /\ tx' = [tx EXCEPT ![t] = NoTx]
    /\ todo' = [todo EXCEPT ![t] = {}]
    /\ UNCHANGED <<customers, orders, next_order, req, deductions>>

(* ... a statement may lock one more row ...                               *)
LocksMore(t) ==
    /\ pc[t] = "deduct"
    /\ UNCHANGED <<customers, orders, next_order, pc, tx, todo, req, deductions>>

(* ... or all transactions end with the process.                           *)
Restarts ==
    /\ pc' = [t \in Threads |-> "idle"]
    /\ locks' = [t \in Threads |-> NoLocks]
    /\ tx' = [t \in Threads |-> NoTx]
    /\ todo' = [t \in Threads |-> {}]
    /\ UNCHANGED <<customers, orders, next_order, req, deductions>>

Moves(t) ==
    \/ Receive(t) \/ Quiet(t) \/ Deletes(t) \/ GivesUp(t)
    \/ CompleteSelect(t) \/ LocksMore(t) \/ CompleteDeduct(t) \/ CompleteFinish(t)
    \/ AddOrder(t) \/ AddOrderedItem(t)
    \/ CommitAndReply(t) \/ Reverts(t)

LEMMA ThreadSteps ==
    ASSUME IInv, NEW t \in Threads, Receive(t) \/ Act(t)
    PROVE  Restarts \/ Moves(t)
<1>a. Placed(t)
  BY DEF IInv, Each
<1>1. CASE CheckUser(t) \/ Auth(t) \/ Get(t) \/ GetReport(t)
  <2>1. Quiet(t)
    BY <1>1 DEF CheckUser, Auth, Get, GetReport, At, Goto, Reply, Quiet, tables, history
  <2> QED
    BY <2>1 DEF Moves
<1>2. CASE DeleteUser(t) \/ UpdateUser(t) \/ AddItem(t) \/ AddItemCount(t)
  <2>1. Quiet(t)
    BY <1>2 DEF DeleteUser, UpdateUser, AddItem, AddItemCount, At, Reply, Quiet, history
  <2> QED
    BY <2>1 DEF Moves
<1>3. CASE CreateUserSelect(t) \/ CreateUserInsert(t)
           \/ CreateCustomerSelect(t) \/ CreateCustomerInsert(t)
  <2>1. Quiet(t)
    BY <1>3 DEF CreateUserSelect, CreateUserInsert, CreateCustomerSelect,
                CreateCustomerInsert, At, Goto, Reply, Quiet, tables, history
  <2> QED
    BY <2>1 DEF Moves
<1>4. CASE LockCustomer(t)
  <2>1. Quiet(t)
    BY <1>4 DEF LockCustomer, At, Goto, Reply, Quiet, tables, history
  <2> QED
    BY <2>1 DEF Moves
<1>5. CASE DeleteCustomer(t)
  <2>1. Quiet(t) \/ Deletes(t)
    BY <1>5 DEF DeleteCustomer, At, Reply, Quiet, Deletes, history
  <2> QED
    BY <2>1 DEF Moves
<1>6. CASE CompleteRead(t) \/ CompleteShare(t) \/ CompleteWrite(t)
  <2>1. LocksMore(t)
    BY <1>6 DEF CompleteRead, CompleteShare, CompleteWrite, At, LocksMore, tables, history
  <2> QED
    BY <2>1 DEF Moves
<1>7. CASE StatementFails(t)
  <2>1. CASE req[t].op \in {"complete_order", "add_order"} /\ pc[t] # "check"
    <3>1. GivesUp(t)
      BY <1>7, <2>1 DEF StatementFails, Goto, GivesUp, tables, history
    <3> QED
      BY <3>1 DEF Moves
  <2>2. CASE ~(req[t].op \in {"complete_order", "add_order"} /\ pc[t] # "check")
    <3>1. Quiet(t)
      BY <1>7, <1>a, <2>2 DEF StatementFails, Reply, Placed, Quiet, tables, history
    <3> QED
      BY <3>1 DEF Moves
  <2> QED
    BY <2>1, <2>2
<1>8. CASE CommitFails(t) \/ RollbackAndReply(t)
  <2>1. Reverts(t)
    BY <1>8 DEF CommitFails, RollbackAndReply, Rollback, Reply, Reverts, tables, history
  <2> QED
    BY <2>1 DEF Moves
<1>9. CASE GetFails(t)
  BY <1>9 DEF GetFails, Dies, Restarts, tables, history
<1> QED
  BY <1>1, <1>2, <1>3, <1>4, <1>5, <1>6, <1>7, <1>8, <1>9 DEF Act, Moves

LEMMA Steps ==
    ASSUME IInv, Next
    PROVE  Restarts \/ \E t \in Threads : Moves(t)
<1>1. CASE ServerDies
  BY <1>1 DEF ServerDies, Dies, Restarts, tables, history
<1> QED
  BY <1>1, ThreadSteps DEF Next

-----------------------------------------------------------------------------
(* Three statements write accounts.                                        *)
LEMMA UsersChange ==
    ASSUME NEW t \in Threads, Receive(t) \/ Act(t)
    PROVE  UNCHANGED users \/ UpdateUser(t) \/ DeleteUser(t) \/ CreateUserInsert(t)
<1>1. CASE Receive(t) \/ CheckUser(t) \/ Auth(t) \/ Get(t) \/ GetReport(t)
           \/ CreateUserSelect(t) \/ CreateCustomerSelect(t) \/ LockCustomer(t)
  BY <1>1 DEF Receive, CheckUser, Auth, Get, GetReport, CreateUserSelect,
              CreateCustomerSelect, LockCustomer, tables
<1>2. CASE CreateCustomerInsert(t) \/ DeleteCustomer(t) \/ AddItem(t) \/ AddItemCount(t)
  BY <1>2 DEF CreateCustomerInsert, DeleteCustomer, AddItem, AddItemCount
<1>3. CASE CompleteSelect(t) \/ CompleteRead(t) \/ CompleteShare(t) \/ CompleteWrite(t)
  BY <1>3 DEF CompleteSelect, CompleteRead, CompleteShare, CompleteWrite, tables
<1>4. CASE CompleteDeduct(t) \/ CompleteFinish(t) \/ AddOrder(t) \/ AddOrderedItem(t)
  BY <1>4 DEF CompleteDeduct, CompleteFinish, AddOrder, AddOrderedItem, tables
<1>5. CASE CommitAndReply(t) \/ CommitFails(t) \/ RollbackAndReply(t)
  BY <1>5 DEF CommitAndReply, CommitFails, RollbackAndReply, tables
<1>6. CASE StatementFails(t) \/ GetFails(t)
  BY <1>6 DEF StatementFails, GetFails, Dies, tables
<1> QED
  BY <1>1, <1>2, <1>3, <1>4, <1>5, <1>6 DEF Act

(* No step makes anything but a function of the accounts.                  *)
LEMMA UsersShaped ==
    ASSUME Typed, [Next]_vars
    PROVE  users' = [l \in Logins |-> users'[l]]
<1>0. users = [l \in Logins |-> users[l]]
  BY DEF Typed
<1>1. CASE UNCHANGED users
  BY <1>0, <1>1
<1>2. ASSUME NEW t \in Threads, UpdateUser(t) \/ DeleteUser(t) \/ CreateUserInsert(t)
      PROVE  users' = [l \in Logins |-> users'[l]]
  <2>1. UNCHANGED users \/ \E l, r : users' = [users EXCEPT ![l] = r]
    BY <1>2 DEF UpdateUser, DeleteUser, CreateUserInsert
  <2> QED
    BY <1>0, <2>1
<1>3. UNCHANGED users \/ \E t \in Threads : UpdateUser(t) \/ DeleteUser(t) \/ CreateUserInsert(t)
  <2>1. CASE UNCHANGED vars \/ ServerDies
    BY <2>1 DEF vars, tables, ServerDies, Dies
  <2> QED
    BY <2>1, UsersChange DEF Next
<1> QED
  BY <1>1, <1>2, <1>3

(* A statement goes on to another one, or it ends with an answer, or it    *)
(* locks one more row, or the process dies.                                *)
LEMMA StatementEnds ==
    ASSUME NEW t \in Threads, Act(t)
    PROVE  \/ Dies
           \/ UNCHANGED <<pc, answer>>
           \/ \E l \in Labels \ {"idle"} : Goto(t, l)
           \/ \E a \in {"success", "error", "denied", "bad_config"} : Reply(t, a)
<1>1. CASE CheckUser(t) \/ Auth(t) \/ Get(t) \/ GetReport(t) \/ DeleteUser(t) \/ UpdateUser(t)
  BY <1>1 DEF CheckUser, Auth, Get, GetReport, DeleteUser, UpdateUser, Labels
<1>2. CASE \/ CreateUserSelect(t) \/ CreateUserInsert(t) \/ CreateCustomerSelect(t)
           \/ CreateCustomerInsert(t) \/ LockCustomer(t) \/ DeleteCustomer(t) \/ AddItem(t)
           \/ AddItemCount(t)
  BY <1>2 DEF CreateUserSelect, CreateUserInsert, CreateCustomerSelect, CreateCustomerInsert,
              LockCustomer, DeleteCustomer, AddItem, AddItemCount, Labels
<1>3. CASE CompleteSelect(t) \/ CompleteFinish(t) \/ CompleteDeduct(t)
  <2>1. Goto(t, "commit") \/ Goto(t, "deduct") \/ Goto(t, "rollback") \/ Goto(t, "finish")
    BY <1>3 DEF CompleteSelect, CompleteFinish, CompleteDeduct
  <2> QED
    BY <2>1 DEF Labels
<1>4. CASE AddOrder(t) \/ AddOrderedItem(t)
  <2>1. Goto(t, "rollback") \/ Goto(t, "commit") \/ Goto(t, "line")
    BY <1>4 DEF AddOrder, AddOrderedItem
  <2> QED
    BY <2>1 DEF Labels
<1>5. CASE CommitAndReply(t) \/ CommitFails(t) \/ RollbackAndReply(t)
  BY <1>5 DEF CommitAndReply, CommitFails, RollbackAndReply
<1>8. CASE CompleteRead(t) \/ CompleteShare(t) \/ CompleteWrite(t)
  BY <1>8 DEF CompleteRead, CompleteShare, CompleteWrite
<1>6. CASE StatementFails(t)
  <2>1. Goto(t, "rollback") \/ Reply(t, "error")
    BY <1>6 DEF StatementFails
  <2> QED
    BY <2>1 DEF Labels
<1>7. CASE GetFails(t)
  BY <1>7 DEF GetFails
<1> QED
  BY <1>1, <1>2, <1>3, <1>4, <1>5, <1>6, <1>7, <1>8 DEF Act

LEMMA AnswersShaped ==
    ASSUME Typed, [Next]_vars
    PROVE  answer' = [t \in Threads |-> answer'[t]]
<1>0. answer = [t \in Threads |-> answer[t]]
  BY DEF Typed
<1>1. CASE Dies \/ UNCHANGED vars
  BY <1>0, <1>1 DEF Dies, vars
<1>2. ASSUME NEW t \in Threads, Receive(t) PROVE answer' = [u \in Threads |-> answer'[u]]
  BY <1>0, <1>2 DEF Receive
<1>3. ASSUME NEW t \in Threads, Act(t), ~Dies PROVE answer' = [u \in Threads |-> answer'[u]]
  <2>1. UNCHANGED answer \/ \E a \in {"success", "error", "denied", "bad_config"} :
                                answer' = [answer EXCEPT ![t] = a]
    BY <1>3, StatementEnds DEF Goto, Reply
  <2> QED
    BY <1>0, <2>1
<1> QED
  BY <1>1, <1>2, <1>3 DEF Next, ServerDies

-----------------------------------------------------------------------------
(* What complete_order commits: its order, which exists, as completed.     *)
LEMMA CompletedRow ==
    ASSUME IInv, NEW t \in Threads, pc[t] # "idle", req[t].op = "complete_order",
           NEW o \in DOMAIN tx[t].orders
    PROVE  /\ o = req[t].arg /\ o \in OrderIds
           /\ orders[o] \in OrderRows /\ tx[t].orders[o] \in OrderRows
           /\ tx[t].orders[o].done
           /\ tx[t].orders[o].tel = orders[o].tel
           /\ tx[t].orders[o].lines = orders[o].lines
<1>1. /\ o = req[t].arg
      /\ orders[o] # NoRow /\ tx[t].orders[o] = [orders[o] EXCEPT !.done = TRUE]
  BY DEF IInv, Each, Completing
<1>2. o \in OrderIds
  BY <1>1, RequestsAssumption DEF IInv, Each, Placed
<1>3. orders[o] \in OrderRows
  BY <1>1, <1>2 DEF IInv, Typed
<1> QED
  BY <1>1, <1>2, <1>3 DEF OrderRows

(* What add_order commits: a new order, with all lines of the request, of  *)
(* a customer it keeps from being deleted.                                 *)
LEMMA AddedRow ==
    ASSUME IInv, NEW t \in Threads, pc[t] = "commit", req[t].op = "add_order",
           NEW o \in DOMAIN tx[t].orders
    PROVE  /\ o \in OrderIds /\ o < next_order
           /\ orders[o] = NoRow /\ deductions[o] = 0
           /\ tx[t].orders[o] \in OrderRows
           /\ ~tx[t].orders[o].done
           /\ tx[t].orders[o].tel = req[t].arg.tel
           /\ tx[t].orders[o].lines = req[t].arg.lines
           /\ req[t].arg.tel \in customers
<1>1. /\ o \in OrderIds /\ o < next_order
      /\ orders[o] = NoRow /\ deductions[o] = 0
      /\ tx[t].orders[o] = RowSoFar(t) /\ todo[t] = {}
      /\ req[t].arg.tel \in customers
  BY DEF IInv, Each, Adding, Placed
<1>2. req[t].arg \in [tel : Tels, lines : Lines]
  BY RequestsAssumption DEF IInv, Each, Placed
<1>3. RowSoFar(t) = [tel |-> req[t].arg.tel, lines |-> req[t].arg.lines, done |-> FALSE]
  <2>1. req[t].arg.lines = [i \in Items |-> req[t].arg.lines[i]]
    BY <1>2 DEF Lines
  <2> QED
    BY <1>1, <2>1 DEF RowSoFar
<1> QED
  BY <1>1, <1>2, <1>3 DEF OrderRows

(* A commit replaces the rows that were written and no others.             *)
LEMMA Committed ==
    ASSUME IInv, NEW t \in Threads, CommitAndReply(t)
    PROVE  /\ pc[t] = "commit" /\ req[t].op \in {"complete_order", "add_order"}
           /\ DOMAIN tx[t].orders \subseteq OrderIds
           /\ orders' = [o \in OrderIds |->
                            IF o \in DOMAIN tx[t].orders THEN tx[t].orders[o] ELSE orders[o]]
           /\ \A o \in DOMAIN tx[t].orders : tx[t].orders[o] \in OrderRows
           /\ pc' = [pc EXCEPT ![t] = "idle"] /\ tx' = [tx EXCEPT ![t] = NoTx]
           /\ UNCHANGED <<customers, next_order, req, todo>>
<1>1. pc[t] = "commit" /\ req[t].op \in {"complete_order", "add_order"}
  BY DEF CommitAndReply, IInv, Each, Placed
<1>2. \A o \in DOMAIN tx[t].orders : o \in OrderIds /\ tx[t].orders[o] \in OrderRows
  BY <1>1, CompletedRow, AddedRow
<1>3. orders' = [o \in OrderIds |->
                    IF o \in DOMAIN tx[t].orders THEN tx[t].orders[o] ELSE orders[o]]
  BY DEF CommitAndReply, Commit, Over, IInv, Typed
<1> QED
  BY <1>1, <1>2, <1>3 DEF CommitAndReply, Commit, Reply

(* An order is taken from the stock by the commit that completes it.       *)
LEMMA Counted ==
    ASSUME IInv, NEW t \in Threads, CommitAndReply(t)
    PROVE  deductions' =
              IF req[t].op = "complete_order" /\ DOMAIN tx[t].orders # {}
                THEN [deductions EXCEPT ![req[t].arg] = @ + 1] ELSE deductions
<1>1. pc[t] = "commit" /\ req[t].op \in {"complete_order", "add_order"}
  BY Committed
<1>2. tx[t].stock = <<>> <=> ~(req[t].op = "complete_order" /\ DOMAIN tx[t].orders # {})
  BY <1>1 DEF IInv, Each, Completing, Adding
<1> QED
  BY <1>2 DEF CommitAndReply

(* The variables keep their types.                                         *)
LEMMA StepTyped ==
    ASSUME IInv, [Next]_vars
    PROVE  Typed'
<1>0. Typed
  BY DEF IInv
<1>1. /\ users' = [l \in Logins |-> users'[l]]
      /\ answer' = [t \in Threads |-> answer'[t]]
  BY <1>0, UsersShaped, AnswersShaped
<1>2. CASE UNCHANGED vars
  BY <1>0, <1>2 DEF Typed, vars, tables, history
<1>3. CASE Restarts
  BY <1>0, <1>1, <1>3 DEF Typed, Restarts, Labels
<1>4. ASSUME NEW t \in Threads, Moves(t) PROVE Typed'
  <2>1. CASE Receive(t)
    BY <1>0, <1>1, <2>1 DEF Receive, Typed, Labels, tables, history
  <2>2. CASE Quiet(t) \/ GivesUp(t)
    BY <1>0, <1>1, <2>2 DEF Quiet, GivesUp, Typed, Labels
  <2>3. CASE Deletes(t)
    BY <1>0, <1>1, <2>3 DEF Deletes, Typed, Labels
  <2>4. CASE CompleteSelect(t) \/ CompleteDeduct(t) \/ CompleteFinish(t)
    <3>1. /\ \E l \in Labels : pc' = [pc EXCEPT ![t] = l]
          /\ UNCHANGED <<orders, next_order, req, todo, deductions>>
      BY <2>4 DEF CompleteSelect, CompleteDeduct, CompleteFinish, Goto, Labels, tables, history
    <3> QED
      BY <1>0, <1>1, <3>1 DEF Typed
  <2>5. CASE AddOrder(t) \/ AddOrderedItem(t)
    <3>1. /\ \E l \in Labels : pc' = [pc EXCEPT ![t] = l]
          /\ \E S \in SUBSET Items : todo' = [todo EXCEPT ![t] = S]
          /\ next_order' \in {next_order, next_order + 1}
          /\ UNCHANGED <<orders, req, deductions>>
      BY <1>0, <2>5 DEF AddOrder, AddOrderedItem, Goto, Labels, Ordered, Typed, tables, history
    <3> QED
      BY <1>0, <1>1, <3>1 DEF Typed
  <2>6. CASE CommitAndReply(t)
    <3>1. orders' \in [OrderIds -> OrderRows \cup {NoRow}]
      BY <1>0, <2>6, Committed DEF Typed
    <3>2. deductions' \in [OrderIds -> Nat]
      BY <1>0, <2>6, Counted DEF Typed
    <3>3. pc' \in [Threads -> Labels] /\ UNCHANGED <<next_order, req, todo>>
      BY <1>0, <2>6, Committed DEF Typed, Labels
    <3> QED
      BY <1>0, <1>1, <3>1, <3>2, <3>3 DEF Typed
  <2>7. CASE Reverts(t)
    BY <1>0, <1>1, <2>7 DEF Reverts, Typed, Labels
  <2>8. CASE LocksMore(t)
    BY <1>0, <1>1, <2>8 DEF LocksMore, Typed
  <2> QED
    BY <1>4, <2>1, <2>2, <2>3, <2>4, <2>5, <2>6, <2>7, <2>8 DEF Moves
<1> QED
  BY <1>2, <1>3, <1>4, Steps

-----------------------------------------------------------------------------
(* What assignments to fields of the record of a transaction give.         *)
LEMMA SetStock ==
    ASSUME NEW s, NEW o, NEW c, NEW i, NEW l, NEW n, NEW w
    PROVE  [Record(s, o, c, i, l, n) EXCEPT !.stock = w] = Record(w, o, c, i, l, n)
  BY DEF Record

LEMMA SetOrders ==
    ASSUME NEW s, NEW o, NEW c, NEW i, NEW l, NEW n, NEW w
    PROVE  [Record(s, o, c, i, l, n) EXCEPT !.orders = w] = Record(s, w, c, i, l, n)
  BY DEF Record

LEMMA SetTels ==
    ASSUME NEW s, NEW o, NEW c, NEW i, NEW l, NEW n, NEW w
    PROVE  [Record(s, o, c, i, l, n) EXCEPT !.tels = w] = Record(s, o, w, i, l, n)
  BY DEF Record

LEMMA SetItems ==
    ASSUME NEW s, NEW o, NEW c, NEW i, NEW l, NEW n, NEW w
    PROVE  [Record(s, o, c, i, l, n) EXCEPT !.items = w] = Record(s, o, c, w, l, n)
  BY DEF Record

LEMMA SetLines ==
    ASSUME NEW s, NEW o, NEW c, NEW i, NEW l, NEW n, NEW w
    PROVE  [Record(s, o, c, i, l, n) EXCEPT !.lines = w] = Record(s, o, c, i, w, n)
  BY DEF Record

LEMMA SetSeen ==
    ASSUME NEW s, NEW o, NEW c, NEW i, NEW l, NEW n, NEW w
    PROVE  [Record(s, o, c, i, l, n) EXCEPT !.seen = w] = Record(s, o, c, i, l, w)
  BY DEF Record

LEMMA StockTaken ==
    ASSUME NEW s, NEW i, NEW l
    PROVE  [[[NoTx EXCEPT !.stock = s] EXCEPT !.items = i] EXCEPT !.lines = l] =
              Record(s, <<>>, {}, i, l, {})
<1>0. NoTx = Record(<<>>, <<>>, {}, {}, {}, {})
  BY DEF NoTx, Record
<1>1. [Record(<<>>, <<>>, {}, {}, {}, {}) EXCEPT !.stock = s] = Record(s, <<>>, {}, {}, {}, {})
  BY SetStock
<1>2. [Record(s, <<>>, {}, {}, {}, {}) EXCEPT !.items = i] = Record(s, <<>>, {}, i, {}, {})
  BY SetItems
<1>3. [Record(s, <<>>, {}, i, {}, {}) EXCEPT !.lines = l] = Record(s, <<>>, {}, i, l, {})
  BY SetLines
<1> QED
  BY <1>0, <1>1, <1>2, <1>3

LEMMA OrderBegun ==
    ASSUME NEW w, NEW c, NEW n
    PROVE  [[[NoTx EXCEPT !.orders = w] EXCEPT !.tels = c] EXCEPT !.seen = n] =
              Record(<<>>, w, c, {}, {}, n)
<1>0. NoTx = Record(<<>>, <<>>, {}, {}, {}, {})
  BY DEF NoTx, Record
<1>1. [Record(<<>>, <<>>, {}, {}, {}, {}) EXCEPT !.orders = w] = Record(<<>>, w, {}, {}, {}, {})
  BY SetOrders
<1>2. [Record(<<>>, w, {}, {}, {}, {}) EXCEPT !.tels = c] = Record(<<>>, w, c, {}, {}, {})
  BY SetTels
<1>3. [Record(<<>>, w, c, {}, {}, {}) EXCEPT !.seen = n] = Record(<<>>, w, c, {}, {}, n)
  BY SetSeen
<1> QED
  BY <1>0, <1>1, <1>2, <1>3

(* The steps of the two transactions, with what they do to the record of   *)
(* the transaction spelt out.                                              *)
LEMMA Selected ==
    ASSUME IInv, NEW t \in Threads, CompleteSelect(t)
    PROVE  /\ pc[t] = "act" /\ req[t].op = "complete_order" /\ tx[t] = NoTx
           /\ UNCHANGED <<customers, orders, next_order, req, todo, deductions, tx>>
           /\ \/ pc' = [pc EXCEPT ![t] = "deduct"]
              \/ /\ pc' = [pc EXCEPT ![t] = "commit"]
                 /\ orders[req[t].arg] # NoRow /\ orders[req[t].arg].done
  BY DEF CompleteSelect, At, Goto, IInv, Each, Placed, tables, history

(* The counts complete_order writes when it takes an order from the items  *)
(* R of its lines.                                                         *)
Rests(row, R) == [i \in R |-> Unsigned(AfterDeduction(row, i))]

LEMMA TakenFrom ==
    ASSUME IInv, NEW t \in Threads, CompleteDeduct(t),
           pc'[t] = "finish", orders[req[t].arg] # NoRow
    PROVE  LET row == orders[req[t].arg]
               R   == locks[t].stock
           IN  /\ R # {} /\ R \in OnePerDistributor(Ordered(row))
               /\ Strict => \A i \in R : ~(AfterDeduction(row, i) < 0)
               /\ pc' = [pc EXCEPT ![t] = "finish"]
               /\ tx' = [tx EXCEPT ![t] =
                            Record(Rests(row, R), <<>>, {}, Ordered(row), {req[t].arg}, {})]
<1> DEFINE row == orders[req[t].arg]
           R == locks[t].stock
<1>1. /\ pc[t] = "deduct" /\ req[t].op = "complete_order" /\ tx[t] = NoTx
  BY DEF CompleteDeduct, At, IInv, Each, Placed
<1>2. /\ row # NoRow /\ ~Refused(t) /\ R \in OnePerDistributor(Ordered(row))
      /\ tx' = [tx EXCEPT ![t].stock = [i \in R |-> Unsigned(AfterDeduction(row, i))],
                          ![t].items = Ordered(row),
                          ![t].lines = {req[t].arg}]
      /\ Goto(t, "finish")
  <2>1. ~Goto(t, "rollback")
    BY DEF Goto, IInv, Typed
  <2> QED
    BY <2>1 DEF CompleteDeduct
<1>3. R # {}
  <2>1. req[t].arg \in OrderIds
    BY <1>1, RequestsAssumption DEF IInv, Each, Placed
  <2>2. Ordered(row) # {}
    BY <1>2, <2>1 DEF IInv, LinesGiven
  <2> QED
    BY <1>2, <2>2 DEF OnePerDistributor
<1>4. Strict => \A i \in R : ~(AfterDeduction(row, i) < 0)
  BY <1>2 DEF Refused
<1>5. tx' = [tx EXCEPT ![t].stock = Rests(row, R), ![t].items = Ordered(row),
                       ![t].lines = {req[t].arg}]
  BY <1>2 DEF Rests
<1>6. tx' = [tx EXCEPT ![t] = [[[tx[t] EXCEPT !.stock = Rests(row, R)]
                                  EXCEPT !.items = Ordered(row)] EXCEPT !.lines = {req[t].arg}]]
  BY <1>5
<1>7. [[[NoTx EXCEPT !.stock = Rests(row, R)] EXCEPT !.items = Ordered(row)]
          EXCEPT !.lines = {req[t].arg}] =
         Record(Rests(row, R), <<>>, {}, Ordered(row), {req[t].arg}, {})
  BY StockTaken
<1>8. tx' = [tx EXCEPT ![t] =
                Record(Rests(row, R), <<>>, {}, Ordered(row), {req[t].arg}, {})]
  BY <1>1, <1>6, <1>7
<1> QED
  BY <1>2, <1>3, <1>4, <1>8 DEF Goto

LEMMA Deducted ==
    ASSUME IInv, NEW t \in Threads, CompleteDeduct(t)
    PROVE  /\ pc[t] = "deduct" /\ req[t].op = "complete_order" /\ tx[t] = NoTx
           /\ UNCHANGED <<customers, orders, next_order, req, todo, deductions>>
           /\ \/ pc' = [pc EXCEPT ![t] = "rollback"] /\ UNCHANGED tx
              \/ /\ pc' = [pc EXCEPT ![t] = "finish"]
                 /\ orders[req[t].arg] = NoRow /\ UNCHANGED tx
              \/ /\ pc' = [pc EXCEPT ![t] = "finish"]
                 /\ orders[req[t].arg] # NoRow
                 /\ \E s, i : /\ s # <<>>
                              /\ tx' = [tx EXCEPT ![t] =
                                           Record(s, <<>>, {}, i, {req[t].arg}, {})]
<1> DEFINE row == orders[req[t].arg]
           R == locks[t].stock
<1>1. /\ pc[t] = "deduct" /\ req[t].op = "complete_order" /\ tx[t] = NoTx
      /\ UNCHANGED <<customers, orders, next_order, req, todo, deductions>>
  BY DEF CompleteDeduct, At, IInv, Each, Placed, tables, history
<1>2. CASE Refused(t) /\ Goto(t, "rollback") /\ UNCHANGED tx
  BY <1>1, <1>2 DEF Goto
<1>3. CASE row = NoRow /\ Goto(t, "finish") /\ UNCHANGED tx
  BY <1>1, <1>3 DEF Goto
<1>4. CASE row # NoRow /\ Goto(t, "finish")
  <2>1. pc'[t] = "finish"
    BY <1>4 DEF Goto, IInv, Typed
  <2>2. /\ R # {} /\ pc' = [pc EXCEPT ![t] = "finish"]
        /\ tx' = [tx EXCEPT ![t] =
                     Record(Rests(row, R), <<>>, {}, Ordered(row), {req[t].arg}, {})]
    BY <1>4, <2>1, TakenFrom
  <2>3. Rests(row, R) # <<>>
    <3>1. DOMAIN Rests(row, R) = R
      BY DEF Rests
    <3> QED
      BY <2>2, <3>1
  <2> QED
    BY <1>1, <1>4, <2>2, <2>3
<1> QED
  BY <1>1, <1>2, <1>3, <1>4 DEF CompleteDeduct

LEMMA Finished ==
    ASSUME IInv, NEW t \in Threads, CompleteFinish(t)
    PROVE  /\ pc[t] = "finish" /\ req[t].op = "complete_order"
           /\ OrderWritable(t, req[t].arg)
           /\ UNCHANGED <<customers, orders, next_order, req, todo, deductions>>
           /\ pc' = [pc EXCEPT ![t] = "commit"]
           /\ tx' = IF orders[req[t].arg] = NoRow THEN tx
                    ELSE [tx EXCEPT ![t] =
                            Record(tx[t].stock,
                                   [o \in {req[t].arg} |-> [orders[o] EXCEPT !.done = TRUE]],
                                   tx[t].tels, tx[t].items, tx[t].lines, tx[t].seen)]
<1>1. /\ pc[t] = "finish" /\ req[t].op = "complete_order"
      /\ OrderWritable(t, req[t].arg)
      /\ UNCHANGED <<customers, orders, next_order, req, todo, deductions>>
      /\ pc' = [pc EXCEPT ![t] = "commit"]
  BY DEF CompleteFinish, At, Goto, tables, history
<1> DEFINE w == [o \in {req[t].arg} |-> [orders[o] EXCEPT !.done = TRUE]]
<1>2. tx' = IF orders[req[t].arg] = NoRow THEN tx ELSE [tx EXCEPT ![t].orders = w]
  BY DEF CompleteFinish
<1> HIDE DEF w
<1>3. [tx EXCEPT ![t].orders = w] =
         [tx EXCEPT ![t] =
             Record(tx[t].stock, w, tx[t].tels, tx[t].items, tx[t].lines, tx[t].seen)]
  <2>1. [tx EXCEPT ![t].orders = w] = [tx EXCEPT ![t] = [tx[t] EXCEPT !.orders = w]]
    OBVIOUS
  <2>2. [tx[t] EXCEPT !.orders = w] =
           Record(tx[t].stock, w, tx[t].tels, tx[t].items, tx[t].lines, tx[t].seen)
    <3>1. tx[t] = Record(tx[t].stock, tx[t].orders, tx[t].tels,
                         tx[t].items, tx[t].lines, tx[t].seen)
      BY DEF IInv, Shaped
    <3>2. [Record(tx[t].stock, tx[t].orders, tx[t].tels, tx[t].items, tx[t].lines, tx[t].seen)
              EXCEPT !.orders = w] =
             Record(tx[t].stock, w, tx[t].tels, tx[t].items, tx[t].lines, tx[t].seen)
      BY SetOrders
    <3> QED
      BY ONLY <3>1, <3>2
  <2> QED
    BY <2>1, <2>2
<1> QED
  BY <1>1, <1>2, <1>3 DEF w

LEMMA OrderAdded ==
    ASSUME IInv, NEW t \in Threads, AddOrder(t)
    PROVE  /\ pc[t] = "act" /\ req[t].op = "add_order" /\ tx[t] = NoTx
           /\ UNCHANGED <<customers, orders, req, deductions>>
           /\ \/ /\ pc' = [pc EXCEPT ![t] = "rollback"]
                 /\ UNCHANGED <<next_order, tx, todo>>
              \/ /\ pc' = [pc EXCEPT ![t] = "line"]
                 /\ req[t].arg.tel \in customers /\ next_order \in OrderIds
                 /\ next_order' = next_order + 1
                 /\ todo' = [todo EXCEPT ![t] = Ordered(req[t].arg)]
                 /\ tx' = [tx EXCEPT ![t] =
                       Record(<<>>,
                              [o \in {next_order} |->
                                  [tel |-> req[t].arg.tel, lines |-> [i \in Items |-> 0],
                                   done |-> FALSE]],
                              {req[t].arg.tel}, {}, {}, Stocked)]
<1>1. /\ pc[t] = "act" /\ req[t].op = "add_order" /\ tx[t] = NoTx
      /\ UNCHANGED <<customers, orders, req, deductions>>
  BY DEF AddOrder, At, IInv, Each, Placed, history
<1>2. CASE Strict \/ req[t].arg.tel \notin customers \/ next_order \notin OrderIds
  BY <1>1, <1>2 DEF AddOrder, Goto
<1>3. CASE ~(Strict \/ req[t].arg.tel \notin customers \/ next_order \notin OrderIds)
  <2> DEFINE w == [o \in {next_order} |->
                     [tel |-> req[t].arg.tel, lines |-> [i \in Items |-> 0], done |-> FALSE]]
  <2>1. /\ tx' = [tx EXCEPT ![t].orders = w, ![t].tels = {req[t].arg.tel}, ![t].seen = Stocked]
        /\ pc' = [pc EXCEPT ![t] = "line"]
        /\ next_order' = next_order + 1
        /\ todo' = [todo EXCEPT ![t] = Ordered(req[t].arg)]
    BY <1>3 DEF AddOrder, Goto
  <2> HIDE DEF w
  <2>2. tx' = [tx EXCEPT ![t] = Record(<<>>, w, {req[t].arg.tel}, {}, {}, Stocked)]
    <3>1. tx' = [tx EXCEPT ![t] = [[[tx[t] EXCEPT !.orders = w] EXCEPT !.tels = {req[t].arg.tel}]
                                      EXCEPT !.seen = Stocked]]
      BY <2>1
    <3>2. [[[NoTx EXCEPT !.orders = w] EXCEPT !.tels = {req[t].arg.tel}]
              EXCEPT !.seen = Stocked] =
             Record(<<>>, w, {req[t].arg.tel}, {}, {}, Stocked)
      BY OrderBegun
    <3> QED
      BY <1>1, <3>1, <3>2
  <2> QED
    BY <1>1, <1>3, <2>1, <2>2 DEF w
<1> QED
  BY <1>2, <1>3

LEMMA LineAdded ==
    ASSUME IInv, NEW t \in Threads, AddOrderedItem(t)
    PROVE  /\ pc[t] = "line" /\ req[t].op = "add_order"
           /\ UNCHANGED <<customers, orders, next_order, req, deductions>>
           /\ \/ pc' = [pc EXCEPT ![t] = "rollback"] /\ UNCHANGED <<tx, todo>>
              \/ \E i \in todo[t], o \in DOMAIN tx[t].orders :
                    /\ pc' = [pc EXCEPT ![t] = IF todo[t] = {i} THEN "commit" ELSE "line"]
                    /\ todo' = [todo EXCEPT ![t] = @ \ {i}]
                    /\ tx' = [tx EXCEPT ![t] =
                          Record(tx[t].stock,
                                 [tx[t].orders EXCEPT ![o] =
                                     [@ EXCEPT !.lines[i] = req[t].arg.lines[i]]],
                                 tx[t].tels, tx[t].items \cup {i}, tx[t].lines, tx[t].seen)]
<1>1. /\ pc[t] = "line" /\ req[t].op = "add_order"
      /\ UNCHANGED <<customers, orders, next_order, req, deductions>>
  BY DEF AddOrderedItem, At, tables, history
<1>2. PICK i \in todo[t] :
         IF i \notin tx[t].seen \/ ~IdAfterCall
            THEN /\ Goto(t, "rollback")
                 /\ UNCHANGED <<tx, todo>>
            ELSE /\ \E o \in DOMAIN tx[t].orders :
                       tx' = [tx EXCEPT ![t].orders[o].lines[i] = req[t].arg.lines[i],
                                        ![t].items = @ \cup {i}]
                 /\ todo' = [todo EXCEPT ![t] = @ \ {i}]
                 /\ Goto(t, IF todo[t] = {i} THEN "commit" ELSE "line")
  BY DEF AddOrderedItem
<1>3. CASE i \notin tx[t].seen \/ ~IdAfterCall
  BY <1>1, <1>2, <1>3 DEF Goto
<1>4. CASE ~(i \notin tx[t].seen \/ ~IdAfterCall)
  <2>1. PICK o \in DOMAIN tx[t].orders :
           tx' = [tx EXCEPT ![t].orders[o].lines[i] = req[t].arg.lines[i],
                            ![t].items = @ \cup {i}]
    BY <1>2, <1>4
  <2>2. tx' = [tx EXCEPT ![t] =
                  Record(tx[t].stock,
                         [tx[t].orders EXCEPT ![o] =
                             [@ EXCEPT !.lines[i] = req[t].arg.lines[i]]],
                         tx[t].tels, tx[t].items \cup {i}, tx[t].lines, tx[t].seen)]
    <3> DEFINE w == [tx[t].orders EXCEPT ![o] = [@ EXCEPT !.lines[i] = req[t].arg.lines[i]]]
               n == tx[t].items \cup {i}
    <3>1. tx' = [tx EXCEPT ![t] = [[tx[t] EXCEPT !.orders = w] EXCEPT !.items = n]]
      BY <2>1
    <3> HIDE DEF w, n
    <3>2. [[tx[t] EXCEPT !.orders = w] EXCEPT !.items = n] =
             Record(tx[t].stock, w, tx[t].tels, n, tx[t].lines, tx[t].seen)
      <4>1. tx[t] = Record(tx[t].stock, tx[t].orders, tx[t].tels,
                           tx[t].items, tx[t].lines, tx[t].seen)
        BY DEF IInv, Shaped
      <4>2. [Record(tx[t].stock, tx[t].orders, tx[t].tels, tx[t].items, tx[t].lines, tx[t].seen)
                EXCEPT !.orders = w] =
               Record(tx[t].stock, w, tx[t].tels, tx[t].items, tx[t].lines, tx[t].seen)
        BY SetOrders
      <4>3. [Record(tx[t].stock, w, tx[t].tels, tx[t].items, tx[t].lines, tx[t].seen)
                EXCEPT !.items = n] =
               Record(tx[t].stock, w, tx[t].tels, n, tx[t].lines, tx[t].seen)
        BY SetItems
      <4> QED
        BY ONLY <4>1, <4>2, <4>3
    <3> QED
      BY <3>1, <3>2 DEF w, n
  <2> QED
    BY <1>1, <1>2, <1>4, <2>2 DEF Goto
<1> QED
  BY <1>3, <1>4

-----------------------------------------------------------------------------
(* What transactions have written has a key that was handed out.           *)
LEMMA OldRows ==
    ASSUME IInv, NEW u \in Threads, NEW o \in DOMAIN tx[u].orders
    PROVE  /\ o \in OrderIds /\ o < next_order
           /\ pc[u] # "idle" /\ req[u].op \in {"complete_order", "add_order"}
           /\ req[u].op = "add_order" => orders[o] = NoRow /\ deductions[o] = 0
<1>1. pc[u] \notin {"idle", "check", "act", "insert", "cascade", "deduct"}
  BY NothingHeld DEF IInv, Each, Placed
<1>2. pc[u] \in {"finish", "line", "commit", "rollback"}
  BY <1>1 DEF IInv, Typed, Labels
<1>3. req[u].op \in {"complete_order", "add_order"}
  BY <1>2 DEF IInv, Each, Placed
<1>4. CASE req[u].op = "complete_order"
  <2>1. o = req[u].arg /\ req[u].arg < next_order
    BY <1>2, <1>4 DEF IInv, Each, Completing
  <2> QED
    BY <1>2, <1>4, <2>1, CompletedRow
<1>5. CASE req[u].op = "add_order"
  <2>1. pc[u] \in {"line", "commit", "rollback"}
    BY <1>2, <1>5 DEF IInv, Each, Placed
  <2> QED
    BY <1>5, <2>1 DEF IInv, Each, Adding
<1> QED
  BY <1>3, <1>4, <1>5

(* A step that leaves the orders alone concerns its own thread only.       *)
LEMMA OthersFramed ==
    ASSUME IInv, NEW t \in Threads,
           \A u \in Threads \ {t} : Untouched(u),
           UNCHANGED <<orders, deductions>>, customers \subseteq customers',
           next_order' \in Nat, next_order' >= next_order
    PROVE  \A u \in Threads \ {t} : Placed(u)' /\ Completing(u)' /\ Adding(u)'
  BY Frame DEF IInv, Each

(* If it writes no order and starts no request, all stay apart.            *)
LEMMA AllStayApart ==
    ASSUME IInv, UNCHANGED req,
           \A u \in Threads : pc'[u] # "idle" => pc[u] # "idle",
           \A u \in Threads : DOMAIN tx'[u].orders \subseteq DOMAIN tx[u].orders
    PROVE  \A u, v \in Threads : Apart(u, v)'
  BY StayApart DEF IInv, Each

LEMMA RestartsEach ==
    ASSUME IInv, Restarts
    PROVE  Each'
<1> SUFFICES ASSUME NEW u \in Threads
             PROVE  /\ Placed(u)' /\ Completing(u)' /\ Adding(u)'
                    /\ \A v \in Threads : Apart(u, v)'
  BY DEF Each
<1>1. pc'[u] = "idle" /\ \A v \in Threads : tx'[v] = NoTx
  BY DEF Restarts
<1>2. Placed(u)' /\ Completing(u)' /\ Adding(u)'
  BY <1>1, NothingHeld DEF Placed, Completing, Adding
<1>3. \A v \in Threads : Apart(u, v)'
  BY <1>1, NothingHeld DEF Apart
<1> QED
  BY <1>2, <1>3

LEMMA ReceiveEach ==
    ASSUME IInv, NEW t \in Threads, Receive(t)
    PROVE  Each'
<1>1. PICK r \in RequestSet :
        /\ r.op = "complete_order" => orders[r.arg] # NoRow
        /\ req' = [req EXCEPT ![t] = r]
        /\ pc' = [pc EXCEPT ![t] = IF r.op \in Unchecked THEN "act" ELSE "check"]
  BY DEF Receive
<1>2. /\ pc[t] = "idle" /\ tx[t] = NoTx
      /\ UNCHANGED <<customers, orders, next_order, deductions, tx, todo>>
  BY DEF Receive, IInv, Each, Placed, tables, history
<1>3. req'[t] = r /\ pc'[t] \in {"act", "check"} /\ tx'[t] = NoTx
  BY <1>1, <1>2 DEF IInv, Typed
<1>4. \A u \in Threads \ {t} : Untouched(u)
  BY <1>1, <1>2 DEF Untouched, IInv, Typed
<1>5. \A u \in Threads \ {t} : Placed(u)' /\ Completing(u)' /\ Adding(u)'
  BY <1>2, <1>4, OthersFramed DEF IInv, Typed
<1>6. r.op = "complete_order" => r.arg \in OrderIds /\ r.arg < next_order
  <2> HAVE r.op = "complete_order"
  <2>1. r.arg \in OrderIds /\ orders[r.arg] # NoRow
    BY <1>1, RequestsAssumption
  <2> QED
    BY <2>1, KeysAreNumbers DEF IInv, Fresh, Typed
<1>7. Placed(t)' /\ Completing(t)' /\ Adding(t)'
  BY <1>2, <1>3, <1>6, NothingHeld DEF Placed, Completing, Adding
<1>8. ASSUME NEW u \in Threads, NEW v \in Threads PROVE Apart(u, v)'
  <2>1. CASE u = t /\ v # t
    <3>1. DOMAIN tx'[t].orders = {}
      BY <1>3, NothingHeld
    <3>2. r.op = "complete_order" /\ req[v].op = "add_order" => r.arg \notin DOMAIN tx[v].orders
      BY <1>1, OldRows
    <3> QED
      BY <1>2, <1>3, <1>4, <2>1, <3>1, <3>2 DEF Apart, Untouched
  <2>2. CASE v = t
    BY <1>3, <2>2, NothingHeld DEF Apart
  <2>3. CASE u # t /\ v # t
    BY <1>4, <2>3, StayApart DEF Untouched, IInv, Each
  <2> QED
    BY <2>1, <2>2, <2>3
<1> QED
  BY <1>5, <1>7, <1>8 DEF Each

LEMMA QuietEach ==
    ASSUME IInv, NEW t \in Threads, Quiet(t) \/ GivesUp(t)
    PROVE  Each'
<1>1. /\ UNCHANGED <<orders, next_order, tx, todo, req, deductions>>
      /\ customers \subseteq customers' /\ pc[t] # "idle"
      /\ \E l \in Labels : pc' = [pc EXCEPT ![t] = l]
  BY DEF Quiet, GivesUp, Labels
<1>2. \A u \in Threads \ {t} : Untouched(u)
  BY <1>1 DEF Untouched, IInv, Typed
<1>3. \A u \in Threads \ {t} : Placed(u)' /\ Completing(u)' /\ Adding(u)'
  BY <1>1, <1>2, OthersFramed DEF IInv, Typed
<1>4. Placed(t) /\ Completing(t) /\ Adding(t)
  BY DEF IInv, Each
<1>5. Placed(t)' /\ Completing(t)' /\ Adding(t)'
  <2>1. CASE Quiet(t)
    <3>1. tx[t] = NoTx /\ pc'[t] \in {"idle", "act", "insert", "cascade"}
      BY <1>4, <2>1 DEF Quiet, Placed, IInv, Typed
    <3> QED
      BY <1>1, <1>4, <3>1, NothingHeld DEF Placed, Completing, Adding
  <2>2. CASE GivesUp(t)
    <3>1. /\ pc'[t] = "rollback" /\ req[t].op \in {"complete_order", "add_order"}
          /\ pc[t] \in {"act", "insert", "deduct", "finish", "line"}
      BY <2>2 DEF GivesUp, IInv, Typed
    <3>2. Placed(t)' /\ Completing(t)'
      BY <1>1, <1>4, <3>1 DEF Placed, Completing
    <3>3. Adding(t)'
      <4>1. CASE pc[t] = "line"
        BY <1>1, <1>4, <3>1, <4>1 DEF Adding
      <4>2. CASE pc[t] # "line" /\ req[t].op = "add_order"
        <5>1. tx[t] = NoTx
          BY <1>4, <3>1, <4>2 DEF Placed
        <5> QED
          BY <1>1, <3>1, <5>1, NothingHeld DEF Adding
      <4>3. CASE req[t].op # "add_order"
        BY <1>1, <4>3 DEF Adding
      <4> QED
        BY <4>1, <4>2, <4>3
    <3> QED
      BY <3>2, <3>3
  <2> QED
    BY <2>1, <2>2
<1>6. \A u, v \in Threads : Apart(u, v)'
  BY <1>1, AllStayApart DEF IInv, Typed
<1> QED
  BY <1>3, <1>5, <1>6 DEF Each

(* A customer is deleted with the orders no transaction needs.             *)
LEMMA DeletesEach ==
    ASSUME IInv, NEW t \in Threads, Deletes(t)
    PROVE  Each'
<1>1. /\ pc[t] = "cascade" /\ pc' = [pc EXCEPT ![t] = "idle"] /\ tx[t] = NoTx
      /\ UNCHANGED <<next_order, tx, todo, req, deductions>>
      /\ customers' = customers \ {req[t].arg}
  BY DEF Deletes, IInv, Each, Placed
<1>2. \A o \in OrderIds : orders'[o] \in {orders[o], NoRow}
  BY DEF Deletes
<1>3. ASSUME NEW u \in Threads \ {t}
      PROVE  Placed(u)' /\ Completing(u)' /\ Adding(u)'
  <2>1. Untouched(u)
    BY <1>1 DEF Untouched, IInv, Typed
  <2>2. Placed(u) /\ Completing(u) /\ Adding(u)
    BY DEF IInv, Each
  <2>3. /\ req[t].arg \notin tx[u].tels
        /\ \A o \in DOMAIN tx[u].orders \cup tx[u].lines :
              orders[o] # NoRow => orders[o].tel # req[t].arg
    BY DEF Deletes, TelDeletable, TelWritable, ReadsLines, Others
  <2>4. \A o \in OrderIds \cap (DOMAIN tx[u].orders \cup tx[u].lines) : orders'[o] = orders[o]
    BY <2>3 DEF Deletes
  <2>5. Placed(u)'
    BY <1>1, <2>1, <2>2, <2>3 DEF Placed, Untouched
  <2>6. Completing(u)'
    <3> SUFFICES ASSUME pc[u] # "idle", req[u].op = "complete_order"
                 PROVE  Completing(u)'
      BY <2>1 DEF Completing, Untouched
    <3>1. req[u].arg \in OrderIds
      BY <2>2, RequestsAssumption DEF Placed
    <3>2. orders'[req[u].arg] \in {orders[req[u].arg], NoRow}
      BY <1>2, <3>1
    <3>3. req[u].arg \in DOMAIN tx[u].orders \cup tx[u].lines =>
             orders'[req[u].arg] = orders[req[u].arg]
      BY <2>4, <3>1
    <3> QED
      BY <1>1, <2>1, <2>2, <3>2, <3>3 DEF Completing, Untouched
  <2>7. Adding(u)'
    <3>1. RowSoFar(u)' = RowSoFar(u)
      BY <2>1 DEF RowSoFar, Untouched
    <3> QED
      BY <1>1, <2>1, <2>2, <2>4, <3>1 DEF Adding, Untouched
  <2> QED
    BY <2>5, <2>6, <2>7
<1>4. Placed(t)' /\ Completing(t)' /\ Adding(t)'
  <2>1. pc'[t] = "idle" /\ tx'[t] = NoTx
    BY <1>1 DEF IInv, Typed
  <2> QED
    BY <2>1, NothingHeld DEF Placed, Completing, Adding
<1>5. \A u, v \in Threads : Apart(u, v)'
  BY <1>1, AllStayApart DEF IInv, Typed
<1> QED
  BY <1>3, <1>4, <1>5 DEF Each

LEMMA SelectEach ==
    ASSUME IInv, NEW t \in Threads, CompleteSelect(t)
    PROVE  Each'
<1>1. /\ pc[t] = "act" /\ req[t].op = "complete_order" /\ tx[t] = NoTx
      /\ UNCHANGED <<customers, orders, next_order, req, todo, deductions, tx>>
      /\ \/ pc' = [pc EXCEPT ![t] = "deduct"]
         \/ /\ pc' = [pc EXCEPT ![t] = "commit"]
            /\ orders[req[t].arg] # NoRow /\ orders[req[t].arg].done
  BY Selected
<1>2. \A u \in Threads \ {t} : Untouched(u)
  BY <1>1 DEF Untouched, IInv, Typed
<1>3. \A u \in Threads \ {t} : Placed(u)' /\ Completing(u)' /\ Adding(u)'
  BY <1>1, <1>2, OthersFramed DEF IInv, Typed
<1>4. Placed(t)' /\ Completing(t)' /\ Adding(t)'
  <2>1. Placed(t) /\ Completing(t)
    BY DEF IInv, Each
  <2>2. \/ pc'[t] = "deduct"
        \/ pc'[t] = "commit" /\ orders[req[t].arg].done
    BY <1>1 DEF IInv, Typed
  <2>3. Placed(t)' /\ Adding(t)'
    BY <1>1, <2>1, <2>2, NothingHeld DEF Placed, Adding
  <2>4. Completing(t)'
    BY <1>1, <2>1, <2>2, NothingHeld DEF Completing
  <2> QED
    BY <2>3, <2>4
<1>5. \A u, v \in Threads : Apart(u, v)'
  BY <1>1, AllStayApart DEF IInv, Typed
<1> QED
  BY <1>3, <1>4, <1>5 DEF Each

LEMMA DeductEach ==
    ASSUME IInv, NEW t \in Threads, CompleteDeduct(t)
    PROVE  Each'
<1>1. /\ pc[t] = "deduct" /\ req[t].op = "complete_order" /\ tx[t] = NoTx
      /\ UNCHANGED <<customers, orders, next_order, req, todo, deductions>>
  BY Deducted
<1>2. /\ \A u \in Threads \ {t} : Untouched(u)
      /\ \/ pc'[t] = "rollback" /\ tx'[t] = NoTx
         \/ pc'[t] = "finish" /\ orders[req[t].arg] = NoRow /\ tx'[t] = NoTx
         \/ /\ pc'[t] = "finish" /\ orders[req[t].arg] # NoRow
            /\ \E s, i : s # <<>> /\ tx'[t] = Record(s, <<>>, {}, i, {req[t].arg}, {})
  <2>1. CASE pc' = [pc EXCEPT ![t] = "rollback"] /\ UNCHANGED tx
    BY <1>1, <2>1 DEF Untouched, IInv, Typed
  <2>2. CASE /\ pc' = [pc EXCEPT ![t] = "finish"]
             /\ orders[req[t].arg] = NoRow /\ UNCHANGED tx
    BY <1>1, <2>2 DEF Untouched, IInv, Typed
  <2>3. CASE /\ pc' = [pc EXCEPT ![t] = "finish"]
             /\ orders[req[t].arg] # NoRow
             /\ \E s, i : /\ s # <<>>
                          /\ tx' = [tx EXCEPT ![t] = Record(s, <<>>, {}, i, {req[t].arg}, {})]
    <3>1. PICK s, i : /\ s # <<>>
                      /\ tx' = [tx EXCEPT ![t] = Record(s, <<>>, {}, i, {req[t].arg}, {})]
      BY <2>3
    <3>2. tx = [u \in Threads |-> tx[u]]
      BY DEF IInv, Shaped
    <3>3. /\ tx'[t] = Record(s, <<>>, {}, i, {req[t].arg}, {})
          /\ \A u \in Threads \ {t} : tx'[u] = tx[u]
      BY <3>1, <3>2
    <3> QED
      BY <1>1, <2>3, <3>1, <3>3 DEF Untouched, IInv, Typed
  <2> QED
    BY Deducted, <2>1, <2>2, <2>3
<1>3. \A u \in Threads \ {t} : Placed(u)' /\ Completing(u)' /\ Adding(u)'
  BY <1>1, <1>2, OthersFramed DEF IInv, Typed
<1>4. /\ tx'[t].tels = {} /\ DOMAIN tx'[t].orders = {}
      /\ pc'[t] = "rollback" => tx'[t].lines = {}
      /\ pc'[t] = "finish" =>
            \/ /\ orders[req[t].arg] = NoRow
               /\ tx'[t].stock = <<>> /\ tx'[t].lines = {}
            \/ /\ orders[req[t].arg] # NoRow
               /\ tx'[t].stock # <<>> /\ tx'[t].lines = {req[t].arg}
  <2>1. CASE tx'[t] = NoTx
    BY <1>2, <2>1, NothingHeld DEF Record
  <2>2. CASE tx'[t] # NoTx
    <3>1. PICK s, i : s # <<>> /\ tx'[t] = Record(s, <<>>, {}, i, {req[t].arg}, {})
      BY <1>2, <2>2
    <3>2. /\ tx'[t].stock = s /\ tx'[t].orders = <<>> /\ tx'[t].tels = {}
          /\ tx'[t].lines = {req[t].arg}
      BY <3>1 DEF Record
    <3> QED
      BY <1>2, <2>2, <3>1, <3>2, NothingHeld
  <2> QED
    BY <2>1, <2>2
<1>5. pc'[t] \in {"rollback", "finish"}
  BY <1>2
<1>6. Placed(t)' /\ Completing(t)' /\ Adding(t)'
  <2>1. Placed(t) /\ Completing(t)
    BY DEF IInv, Each
  <2>2. Placed(t)' /\ Adding(t)'
    BY <1>1, <1>4, <1>5, <2>1 DEF Placed, Adding
  <2>3. Completing(t)'
    BY <1>1, <1>4, <1>5, <2>1 DEF Completing
  <2> QED
    BY <2>2, <2>3
<1>7. \A u, v \in Threads : Apart(u, v)'
  <2>1. \A u \in Threads : DOMAIN tx'[u].orders \subseteq DOMAIN tx[u].orders
    BY <1>2, <1>4 DEF Untouched
  <2>2. \A u \in Threads : pc'[u] # "idle" => pc[u] # "idle"
    BY <1>1, <1>2 DEF Untouched
  <2> QED
    BY <1>1, <2>1, <2>2, AllStayApart
<1> QED
  BY <1>3, <1>6, <1>7 DEF Each

LEMMA FinishEach ==
    ASSUME IInv, NEW t \in Threads, CompleteFinish(t)
    PROVE  Each'
<1> DEFINE a == req[t].arg
           w == [o \in {a} |-> [orders[o] EXCEPT !.done = TRUE]]
<1>1. /\ pc[t] = "finish" /\ req[t].op = "complete_order"
      /\ OrderWritable(t, a)
      /\ UNCHANGED <<customers, orders, next_order, req, todo, deductions>>
      /\ pc' = [pc EXCEPT ![t] = "commit"]
  BY Finished
<1>2. /\ \A u \in Threads \ {t} : Untouched(u)
      /\ tx'[t] = IF orders[a] = NoRow THEN tx[t]
                  ELSE Record(tx[t].stock, w, tx[t].tels, tx[t].items, tx[t].lines, tx[t].seen)
  <2>1. tx = [u \in Threads |-> tx[u]]
    BY DEF IInv, Shaped
  <2>2. tx' = IF orders[a] = NoRow THEN tx
              ELSE [tx EXCEPT ![t] =
                      Record(tx[t].stock, w, tx[t].tels, tx[t].items, tx[t].lines, tx[t].seen)]
    BY Finished
  <2> HIDE DEF w
  <2>3. \A u \in Threads \ {t} : tx'[u] = tx[u]
    BY <2>1, <2>2
  <2>4. tx'[t] = IF orders[a] = NoRow THEN tx[t]
                 ELSE Record(tx[t].stock, w, tx[t].tels, tx[t].items, tx[t].lines, tx[t].seen)
    BY <2>1, <2>2
  <2> QED
    BY <1>1, <2>3, <2>4 DEF Untouched, IInv, Typed
<1>3. \A u \in Threads \ {t} : Placed(u)' /\ Completing(u)' /\ Adding(u)'
  BY <1>1, <1>2, OthersFramed DEF IInv, Typed
<1>4. /\ tx'[t].stock = tx[t].stock /\ tx'[t].tels = tx[t].tels /\ tx'[t].lines = tx[t].lines
      /\ tx'[t].orders = IF orders[a] = NoRow THEN tx[t].orders ELSE w
  <2> HIDE DEF w
  <2> QED
    BY <1>2 DEF Record
<1>5. pc'[t] = "commit"
  BY <1>1 DEF IInv, Typed
<1>6. Placed(t) /\ Completing(t)
  BY DEF IInv, Each
<1>7. Placed(t)' /\ Adding(t)'
  BY <1>1, <1>4, <1>5, <1>6 DEF Placed, Adding
<1>8. Completing(t)'
  <2>1. CASE orders[a] = NoRow
    BY <1>1, <1>4, <1>5, <1>6, <2>1 DEF Completing
  <2>2. CASE orders[a] # NoRow
    <3>1. /\ DOMAIN tx'[t].orders = {a}
          /\ tx'[t].orders[a] = [orders[a] EXCEPT !.done = TRUE]
      BY <1>4, <2>2
    <3> HIDE DEF w
    <3> QED
      BY <1>1, <1>4, <1>5, <1>6, <2>2, <3>1 DEF Completing
  <2> QED
    BY <2>1, <2>2
<1>9. ASSUME NEW u \in Threads, NEW v \in Threads PROVE Apart(u, v)'
  <2>1. DOMAIN tx'[t].orders \subseteq {a}
    BY <1>1, <1>4, <1>6 DEF Completing
  <2>2. \A x \in Threads \ {t} : a \notin DOMAIN tx[x].orders
    BY <1>1 DEF OrderWritable, LocksOrder, Others
  <2>3. CASE u = t /\ v # t
    <3>1. Apart(t, v)
      BY DEF IInv, Each
    <3>2. tx'[v] = tx[v] /\ req' = req /\ pc[t] # "idle"
      BY <1>1, <1>2, <2>3 DEF Untouched
    <3>3. DOMAIN tx'[t].orders \cap DOMAIN tx'[v].orders = {}
      BY <2>1, <2>2, <2>3, <3>2
    <3> QED
      BY <2>3, <3>1, <3>2, <3>3 DEF Apart
  <2>4. CASE v = t /\ u # t
    <3>1. tx'[u] = tx[u] /\ req'[t].op = "complete_order"
      BY <1>1, <1>2, <2>4 DEF Untouched
    <3>2. DOMAIN tx'[u].orders \cap DOMAIN tx'[t].orders = {}
      BY <2>1, <2>2, <2>4, <3>1
    <3> QED
      BY <2>4, <3>1, <3>2 DEF Apart
  <2>5. CASE u # t /\ v # t
    BY <1>2, <2>5, StayApart DEF Untouched, IInv, Each
  <2>6. CASE u = t /\ v = t
    BY <2>6 DEF Apart
  <2> QED
    BY <2>3, <2>4, <2>5, <2>6
<1> QED
  BY <1>3, <1>7, <1>8, <1>9 DEF Each

LEMMA OrderEach ==
    ASSUME IInv, NEW t \in Threads, AddOrder(t)
    PROVE  Each'
<1> DEFINE a == req[t].arg
           w == [o \in {next_order} |->
                    [tel |-> a.tel, lines |-> [i \in Items |-> 0], done |-> FALSE]]
<1>1. /\ pc[t] = "act" /\ req[t].op = "add_order" /\ tx[t] = NoTx
      /\ UNCHANGED <<customers, orders, req, deductions>>
  BY OrderAdded
<1>2. CASE pc' = [pc EXCEPT ![t] = "rollback"] /\ UNCHANGED <<next_order, tx, todo>>
  <2>1. GivesUp(t)
    BY <1>1, <1>2 DEF GivesUp
  <2> QED
    BY <2>1, QuietEach
<1>3. CASE /\ pc' = [pc EXCEPT ![t] = "line"]
           /\ a.tel \in customers /\ next_order \in OrderIds
           /\ next_order' = next_order + 1
           /\ todo' = [todo EXCEPT ![t] = Ordered(a)]
           /\ tx' = [tx EXCEPT ![t] = Record(<<>>, w, {a.tel}, {}, {}, Stocked)]
  <2>1. tx = [u \in Threads |-> tx[u]]
    BY DEF IInv, Shaped
  <2>2. /\ tx'[t] = Record(<<>>, w, {a.tel}, {}, {}, Stocked)
        /\ \A u \in Threads \ {t} : tx'[u] = tx[u]
    <3> HIDE DEF w
    <3> QED
      BY <1>3, <2>1
  <2>3. \A u \in Threads \ {t} : Untouched(u)
    BY <1>1, <1>3, <2>2 DEF Untouched, IInv, Typed
  <2>4. next_order' \in Nat /\ next_order' >= next_order
    BY <1>3 DEF IInv, Typed
  <2>5. \A u \in Threads \ {t} : Placed(u)' /\ Completing(u)' /\ Adding(u)'
    BY <1>1, <2>3, <2>4, OthersFramed
  <2>6. /\ tx'[t].stock = <<>> /\ tx'[t].tels = {a.tel} /\ tx'[t].orders = w
    <3> HIDE DEF w
    <3> QED
      BY <2>2 DEF Record
  <2>7. pc'[t] = "line" /\ todo'[t] = Ordered(a) /\ req'[t] = req[t]
    BY <1>1, <1>3 DEF IInv, Typed
  <2>8. req[t] \in RequestSet /\ a \in [tel : Tels, lines : Lines]
    BY <1>1, RequestsAssumption DEF IInv, Each, Placed
  <2>9. DOMAIN tx'[t].orders = {next_order}
    BY <2>6
  <2>10. tx'[t].orders[next_order] = RowSoFar(t)'
    <3>1. \A i \in Items : i \notin Ordered(a) => a.lines[i] = 0
      BY <2>8 DEF Ordered, Lines
    <3>2. [i \in Items |-> IF i \in Ordered(a) THEN 0 ELSE a.lines[i]] = [i \in Items |-> 0]
      BY <3>1
    <3>3. tx'[t].orders[next_order] =
             [tel |-> a.tel, lines |-> [i \in Items |-> 0], done |-> FALSE]
      BY <2>6
    <3>4. RowSoFar(t)' =
             [tel |-> a.tel, lines |-> [i \in Items |-> IF i \in Ordered(a) THEN 0 ELSE a.lines[i]],
              done |-> FALSE]
      BY <2>7 DEF RowSoFar
    <3> HIDE DEF w
    <3> QED
      BY <3>2, <3>3, <3>4
  <2>11. Placed(t)'
    BY <1>1, <1>3, <2>6, <2>7, <2>8 DEF Placed
  <2>12. Completing(t)'
    BY <1>1, <2>7 DEF Completing
  <2>13. Adding(t)'
    <3>1. orders[next_order] = NoRow /\ deductions[next_order] = 0
      BY <1>3 DEF IInv, Fresh, Typed
    <3>2. next_order < next_order'
      BY <1>3 DEF IInv, Typed
    <3> HIDE DEF w
    <3> QED
      BY <1>1, <1>3, <2>6, <2>7, <2>9, <2>10, <3>1, <3>2 DEF Adding
  <2>14. ASSUME NEW u \in Threads, NEW v \in Threads PROVE Apart(u, v)'
    <3>1. \A x \in Threads : next_order \notin DOMAIN tx[x].orders
      BY OldRows DEF IInv, Typed
    <3>2. CASE u = t /\ v # t
      <4>1. DOMAIN tx'[u].orders \cap DOMAIN tx'[v].orders = {}
        BY <2>2, <2>9, <3>1, <3>2
      <4> QED
        BY <1>1, <2>7, <3>2, <4>1 DEF Apart
    <3>3. CASE v = t /\ u # t
      <4>1. DOMAIN tx'[u].orders \cap DOMAIN tx'[v].orders = {}
        BY <2>2, <2>9, <3>1, <3>3
      <4>2. pc[u] # "idle" /\ req[u].op = "complete_order" => req[u].arg # next_order
        BY DEF IInv, Each, Completing, Typed
      <4> QED
        BY <1>1, <2>3, <2>9, <3>3, <4>1, <4>2 DEF Apart, Untouched
    <3>4. CASE u # t /\ v # t
      BY <2>3, <3>4, StayApart DEF Untouched, IInv, Each
    <3>5. CASE u = t /\ v = t
      BY <3>5 DEF Apart
    <3> QED
      BY <3>2, <3>3, <3>4, <3>5
  <2> QED
    BY <2>5, <2>11, <2>12, <2>13, <2>14 DEF Each
<1> QED
  BY OrderAdded, <1>2, <1>3

(* A line of a row is set.                                                 *)
LEMMA LineSet ==
    ASSUME NEW c, NEW f, NEW d, NEW i, NEW n
    PROVE  [[tel |-> c, lines |-> f, done |-> d] EXCEPT !.lines[i] = n] =
              [tel |-> c, lines |-> [f EXCEPT ![i] = n], done |-> d]
<1> DEFINE r == [tel |-> c, lines |-> f, done |-> d]
           g == [f EXCEPT ![i] = n]
<1>1. r.lines = f
  OBVIOUS
<1>2. [r EXCEPT !.lines[i] = n] = [r EXCEPT !.lines = [r.lines EXCEPT ![i] = n]]
  <2> HIDE DEF r
  <2> QED
    OBVIOUS
<1>3. [r EXCEPT !.lines = g] = [tel |-> c, lines |-> g, done |-> d]
  <2> HIDE DEF g
  <2> QED
    OBVIOUS
<1> QED
  BY <1>1, <1>2, <1>3

LEMMA LineEach ==
    ASSUME IInv, NEW t \in Threads, AddOrderedItem(t)
    PROVE  Each'
<1> DEFINE a == req[t].arg
<1>1. /\ pc[t] = "line" /\ req[t].op = "add_order"
      /\ UNCHANGED <<customers, orders, next_order, req, deductions>>
  BY LineAdded
<1>2. CASE pc' = [pc EXCEPT ![t] = "rollback"] /\ UNCHANGED <<tx, todo>>
  <2>1. GivesUp(t)
    BY <1>1, <1>2 DEF GivesUp
  <2> QED
    BY <2>1, QuietEach
<1>3. ASSUME NEW i \in todo[t], NEW o \in DOMAIN tx[t].orders,
             pc' = [pc EXCEPT ![t] = IF todo[t] = {i} THEN "commit" ELSE "line"],
             todo' = [todo EXCEPT ![t] = @ \ {i}],
             tx' = [tx EXCEPT ![t] =
                       Record(tx[t].stock,
                              [tx[t].orders EXCEPT ![o] = [@ EXCEPT !.lines[i] = a.lines[i]]],
                              tx[t].tels, tx[t].items \cup {i}, tx[t].lines, tx[t].seen)]
      PROVE  Each'
  <2> DEFINE w == [tx[t].orders EXCEPT ![o] = [@ EXCEPT !.lines[i] = a.lines[i]]]
  <2>1. tx = [u \in Threads |-> tx[u]]
    BY DEF IInv, Shaped
  <2>2. /\ tx'[t] = Record(tx[t].stock, w, tx[t].tels, tx[t].items \cup {i},
                           tx[t].lines, tx[t].seen)
        /\ \A u \in Threads \ {t} : tx'[u] = tx[u]
    <3>1. tx' = [tx EXCEPT ![t] = Record(tx[t].stock, w, tx[t].tels, tx[t].items \cup {i},
                                         tx[t].lines, tx[t].seen)]
      BY <1>3
    <3> HIDE DEF w
    <3> QED
      BY <2>1, <3>1
  <2>3. \A u \in Threads \ {t} : Untouched(u)
    BY <1>1, <1>3, <2>2 DEF Untouched, IInv, Typed
  <2>4. \A u \in Threads \ {t} : Placed(u)' /\ Completing(u)' /\ Adding(u)'
    BY <1>1, <2>3, OthersFramed DEF IInv, Typed
  <2>5. /\ tx'[t].stock = tx[t].stock /\ tx'[t].tels = tx[t].tels /\ tx'[t].orders = w
    <3> HIDE DEF w
    <3> QED
      BY <2>2 DEF Record
  <2>6. /\ pc'[t] \in {"line", "commit"} /\ todo'[t] = todo[t] \ {i} /\ req'[t] = req[t]
        /\ pc'[t] = "commit" => todo[t] = {i}
    BY <1>1, <1>3 DEF IInv, Typed
  <2>7. Placed(t) /\ Adding(t)
    BY DEF IInv, Each
  <2>8. DOMAIN tx'[t].orders = DOMAIN tx[t].orders
    BY <2>5
  <2>9. \A p \in DOMAIN tx[t].orders : p = o
    BY <1>1, <2>7 DEF Adding
  <2>10. tx'[t].orders[o] = RowSoFar(t)'
    <3>1. tx[t].orders[o] = RowSoFar(t)
      BY <1>1, <2>7 DEF Adding
    <3>2. tx[t].orders = [p \in DOMAIN tx[t].orders |-> tx[t].orders[p]]
      BY DEF IInv, Shaped
    <3>3. tx'[t].orders[o] = [tx[t].orders[o] EXCEPT !.lines[i] = a.lines[i]]
      BY <2>5, <3>2
    <3>4. i \in Items
      BY DEF IInv, Typed
    <3> DEFINE f == [j \in Items |-> IF j \in todo[t] THEN 0 ELSE a.lines[j]]
               g == [j \in Items |-> IF j \in todo[t] \ {i} THEN 0 ELSE a.lines[j]]
               open == FALSE
    <3>5. [f EXCEPT ![i] = a.lines[i]] = g
      BY <3>4
    <3>6. RowSoFar(t) = [tel |-> a.tel, lines |-> f, done |-> open]
          /\ RowSoFar(t)' = [tel |-> a.tel, lines |-> g, done |-> open]
      BY <2>6 DEF RowSoFar
    <3> HIDE DEF f, g, open
    <3>7. [[tel |-> a.tel, lines |-> f, done |-> open] EXCEPT !.lines[i] = a.lines[i]] =
             [tel |-> a.tel, lines |-> [f EXCEPT ![i] = a.lines[i]], done |-> open]
      BY LineSet
    <3> QED
      BY <3>1, <3>3, <3>5, <3>6, <3>7
  <2>11. Placed(t)'
    BY <1>1, <2>5, <2>6, <2>7 DEF Placed
  <2>12. Completing(t)'
    BY <1>1, <2>6 DEF Completing
  <2>13. Adding(t)'
    <3> HIDE DEF w
    <3> QED
      BY <1>1, <2>5, <2>6, <2>7, <2>8, <2>9, <2>10 DEF Adding
  <2>14. \A u, v \in Threads : Apart(u, v)'
    <3>1. \A u \in Threads : DOMAIN tx'[u].orders \subseteq DOMAIN tx[u].orders
      BY <2>2, <2>8
    <3>2. \A u \in Threads : pc'[u] # "idle" => pc[u] # "idle"
      BY <1>1, <2>3 DEF Untouched
    <3> QED
      BY <1>1, <3>1, <3>2, AllStayApart
  <2> QED
    BY <2>4, <2>11, <2>12, <2>13, <2>14 DEF Each
<1> QED
  BY LineAdded, <1>2, <1>3

(* A commit changes no order another transaction has to do with.           *)
LEMMA CommitEach ==
    ASSUME IInv, NEW t \in Threads, CommitAndReply(t)
    PROVE  Each'
<1>1. /\ pc[t] = "commit" /\ req[t].op \in {"complete_order", "add_order"}
      /\ orders' = [o \in OrderIds |->
                       IF o \in DOMAIN tx[t].orders THEN tx[t].orders[o] ELSE orders[o]]
      /\ \A o \in DOMAIN tx[t].orders : tx[t].orders[o] \in OrderRows
      /\ pc' = [pc EXCEPT ![t] = "idle"] /\ tx' = [tx EXCEPT ![t] = NoTx]
      /\ UNCHANGED <<customers, next_order, req, todo>>
  BY Committed
<1>2. /\ \A u \in Threads \ {t} : Untouched(u)
      /\ pc'[t] = "idle" /\ tx'[t] = NoTx
  <2>1. tx = [u \in Threads |-> tx[u]]
    BY DEF IInv, Shaped
  <2> QED
    BY <1>1, <2>1 DEF Untouched, IInv, Typed
<1>3. ASSUME NEW u \in Threads \ {t}
      PROVE  Placed(u)' /\ Completing(u)' /\ Adding(u)'
  <2>1. Untouched(u)
    BY <1>2
  <2>2. Placed(u) /\ Completing(u) /\ Adding(u) /\ Apart(u, t)
    BY DEF IInv, Each
  <2>3. \A o \in DOMAIN tx[u].orders : o \in OrderIds /\ o \notin DOMAIN tx[t].orders
    BY <2>2, OldRows DEF Apart
  <2>4. \A o \in DOMAIN tx[u].orders : orders'[o] = orders[o]
    BY <1>1, <2>3
  <2>5. Placed(u)'
    BY <1>1, <2>1, <2>2 DEF Placed, Untouched
  <2>6. Completing(u)'
    <3> SUFFICES ASSUME pc[u] # "idle", req[u].op = "complete_order"
                 PROVE  Completing(u)'
      BY <2>1 DEF Completing, Untouched
    <3> DEFINE a == req[u].arg
    <3>1. a \in OrderIds
      BY <2>2, RequestsAssumption DEF Placed
    <3>2. CASE a \notin DOMAIN tx[t].orders
      <4>1. orders'[a] = orders[a]
        BY <1>1, <3>1, <3>2
      <4> QED
        BY <1>1, <2>1, <2>2, <2>4, <4>1 DEF Completing, Untouched
    <3>3. CASE a \in DOMAIN tx[t].orders
      <4>1. req[t].op = "complete_order"
        BY <1>1, <2>2, <3>3 DEF Apart
      <4>2. orders[a] # NoRow /\ orders'[a] = tx[t].orders[a]
            /\ tx[t].orders[a] # NoRow /\ tx[t].orders[a].done
        <5>1. orders'[a] = tx[t].orders[a]
          BY <1>1, <3>1, <3>3
        <5>2. orders[a] \in OrderRows /\ tx[t].orders[a] \in OrderRows /\ tx[t].orders[a].done
          BY <1>1, <3>3, <4>1, CompletedRow
        <5> QED
          BY <5>1, <5>2, NoRowAssumption
      <4>3. /\ a < next_order
            /\ DOMAIN tx[u].orders \subseteq {a}
            /\ \A o \in DOMAIN tx[u].orders :
                  orders[o] # NoRow /\ tx[u].orders[o] = [orders[o] EXCEPT !.done = TRUE]
            /\ tx[u].lines \subseteq {a}
            /\ pc[u] = "finish" =>
                  /\ DOMAIN tx[u].orders = {}
                  /\ tx[u].stock = <<>> => orders[a] = NoRow
                  /\ tx[u].stock # <<>> => tx[u].lines # {}
            /\ pc[u] = "commit" =>
                  IF DOMAIN tx[u].orders = {} THEN tx[u].stock = <<>> ELSE tx[u].stock # <<>>
        BY <2>2 DEF Completing
      <4>4. DOMAIN tx[u].orders = {}
        BY <2>3, <3>3, <4>3
      <4> QED
        BY <1>1, <2>1, <4>2, <4>3, <4>4 DEF Completing, Untouched
    <3> QED
      BY <3>2, <3>3
  <2>7. Adding(u)'
    <3>1. RowSoFar(u)' = RowSoFar(u)
      BY <2>1 DEF RowSoFar, Untouched
    <3>2. \A o \in DOMAIN tx[u].orders : deductions'[o] = deductions[o]
      <4>1. CASE req[t].op = "complete_order" /\ DOMAIN tx[t].orders # {}
        <5>1. req[t].arg \in DOMAIN tx[t].orders
          BY <1>1, <4>1, CompletedRow
        <5>2. deductions' = [deductions EXCEPT ![req[t].arg] = @ + 1]
          BY <4>1, Counted
        <5> QED
          BY <2>3, <5>1, <5>2 DEF IInv, Typed
      <4>2. CASE ~(req[t].op = "complete_order" /\ DOMAIN tx[t].orders # {})
        BY <4>2, Counted
      <4> QED
        BY <4>1, <4>2
    <3> QED
      BY <1>1, <2>1, <2>2, <2>4, <3>1, <3>2 DEF Adding, Untouched
  <2> QED
    BY <2>5, <2>6, <2>7
<1>4. Placed(t)' /\ Completing(t)' /\ Adding(t)'
  BY <1>2, NothingHeld DEF Placed, Completing, Adding
<1>5. \A u, v \in Threads : Apart(u, v)'
  <2>1. \A u \in Threads : DOMAIN tx'[u].orders \subseteq DOMAIN tx[u].orders
    BY <1>2, NothingHeld DEF Untouched
  <2>2. \A u \in Threads : pc'[u] # "idle" => pc[u] # "idle"
    BY <1>2 DEF Untouched
  <2> QED
    BY <1>1, <2>1, <2>2, AllStayApart
<1> QED
  BY <1>3, <1>4, <1>5 DEF Each

LEMMA RevertsEach ==
    ASSUME IInv, NEW t \in Threads, Reverts(t)
    PROVE  Each'
<1>1. /\ pc' = [pc EXCEPT ![t] = "idle"] /\ tx' = [tx EXCEPT ![t] = NoTx]
      /\ todo' = [todo EXCEPT ![t] = {}]
      /\ UNCHANGED <<customers, orders, next_order, req, deductions>>
  BY DEF Reverts
<1>2. /\ \A u \in Threads \ {t} : Untouched(u)
      /\ pc'[t] = "idle" /\ tx'[t] = NoTx
  <2>1. tx = [u \in Threads |-> tx[u]]
    BY DEF IInv, Shaped
  <2> QED
    BY <1>1, <2>1 DEF Untouched, IInv, Typed
<1>3. \A u \in Threads \ {t} : Placed(u)' /\ Completing(u)' /\ Adding(u)'
  BY <1>1, <1>2, OthersFramed DEF IInv, Typed
<1>4. Placed(t)' /\ Completing(t)' /\ Adding(t)'
  BY <1>2, NothingHeld DEF Placed, Completing, Adding
<1>5. \A u, v \in Threads : Apart(u, v)'
  <2>1. \A u \in Threads : DOMAIN tx'[u].orders \subseteq DOMAIN tx[u].orders
    BY <1>2, NothingHeld DEF Untouched
  <2>2. \A u \in Threads : pc'[u] # "idle" => pc[u] # "idle"
    BY <1>2 DEF Untouched
  <2> QED
    BY <1>1, <2>1, <2>2, AllStayApart
<1> QED
  BY <1>3, <1>4, <1>5 DEF Each

(* A step that changes none of these variables.                            *)
LEMMA NothingEach ==
    ASSUME IInv, UNCHANGED <<customers, orders, next_order, pc, tx, todo, req, deductions>>
    PROVE  Each'
<1>1. \A u \in Threads : Untouched(u)
  BY DEF Untouched
<1>2. \A u \in Threads : Placed(u)' /\ Completing(u)' /\ Adding(u)'
  BY <1>1, Frame DEF IInv, Typed, Each
<1>3. \A u, v \in Threads : Apart(u, v)'
  BY AllStayApart
<1> QED
  BY <1>2, <1>3 DEF Each

(* What each thread holds and who is apart is kept by every step.          *)
LEMMA StepEach ==
    ASSUME IInv, [Next]_vars
    PROVE  Each'
<1>1. CASE UNCHANGED vars
  BY <1>1, NothingEach DEF vars, tables, history
<1>2. CASE Restarts
  BY <1>2, RestartsEach
<1>3. ASSUME NEW t \in Threads, Moves(t) PROVE Each'
  BY <1>3, ReceiveEach, QuietEach, DeletesEach, SelectEach, DeductEach, FinishEach,
     OrderEach, LineEach, CommitEach, RevertsEach, NothingEach DEF Moves, LocksMore
<1> QED
  BY <1>1, <1>2, <1>3, Steps

-----------------------------------------------------------------------------
(* The record of one transaction is replaced by a record.                  *)
LEMMA RecordReplaced ==
    ASSUME Shaped, NEW t \in Threads, NEW s, NEW o, NEW c, NEW i, NEW l, NEW n,
           o = [x \in DOMAIN o |-> o[x]],
           tx' = [tx EXCEPT ![t] = Record(s, o, c, i, l, n)]
    PROVE  Shaped'
<1>1. /\ tx = [u \in Threads |-> tx[u]]
      /\ \A u \in Threads :
            /\ tx[u] = Record(tx[u].stock, tx[u].orders, tx[u].tels,
                              tx[u].items, tx[u].lines, tx[u].seen)
            /\ tx[u].orders = [x \in DOMAIN tx[u].orders |-> tx[u].orders[x]]
  BY DEF Shaped
<1>2. tx' = [u \in Threads |-> tx'[u]]
  BY <1>1
<1>3. tx'[t] = Record(s, o, c, i, l, n) /\ \A u \in Threads \ {t} : tx'[u] = tx[u]
  BY <1>1
<1>4. /\ tx'[t].stock = s /\ tx'[t].orders = o /\ tx'[t].tels = c
      /\ tx'[t].items = i /\ tx'[t].lines = l /\ tx'[t].seen = n
  BY <1>3 DEF Record
<1>5. /\ tx'[t] = Record(tx'[t].stock, tx'[t].orders, tx'[t].tels,
                         tx'[t].items, tx'[t].lines, tx'[t].seen)
      /\ tx'[t].orders = [x \in DOMAIN tx'[t].orders |-> tx'[t].orders[x]]
  BY <1>3, <1>4
<1>6. ASSUME NEW u \in Threads
      PROVE  /\ tx'[u] = Record(tx'[u].stock, tx'[u].orders, tx'[u].tels,
                                tx'[u].items, tx'[u].lines, tx'[u].seen)
             /\ tx'[u].orders = [x \in DOMAIN tx'[u].orders |-> tx'[u].orders[x]]
  <2>1. CASE u = t
    BY <1>5, <2>1
  <2>2. CASE u # t
    BY <1>1, <1>3, <2>2
  <2> QED
    BY <2>1, <2>2
<1> QED
  BY <1>2, <1>6 DEF Shaped

LEMMA StepShaped ==
    ASSUME IInv, [Next]_vars
    PROVE  Shaped'
<1>0. NoTx = Record(<<>>, <<>>, {}, {}, {}, {}) /\ <<>> = [x \in DOMAIN <<>> |-> <<>>[x]]
  BY DEF NoTx, Record
<1>1. CASE UNCHANGED tx
  BY <1>1 DEF IInv, Shaped
<1>2. CASE Restarts
  <2>1. tx' = [u \in Threads |-> NoTx]
    BY <1>2 DEF Restarts
  <2> QED
    BY <2>1 DEF Shaped, NoTx, Record
<1>3. ASSUME NEW t \in Threads, Moves(t) PROVE Shaped'
  <2>1. CASE Receive(t) \/ Quiet(t) \/ Deletes(t) \/ GivesUp(t) \/ LocksMore(t)
    BY <1>1, <2>1 DEF Receive, Quiet, Deletes, GivesUp, LocksMore
  <2>2. CASE CompleteSelect(t)
    BY <1>1, <2>2, Selected
  <2>3. CASE CompleteDeduct(t)
    <3>1. ASSUME NEW s, NEW i,
                 tx' = [tx EXCEPT ![t] = Record(s, <<>>, {}, i, {req[t].arg}, {})]
          PROVE  Shaped'
      <4>1. Shaped
        BY DEF IInv
      <4> DEFINE o == <<>>
      <4>2. o = [x \in DOMAIN o |-> o[x]]
        BY <1>0
      <4>3. tx' = [tx EXCEPT ![t] = Record(s, o, {}, i, {req[t].arg}, {})]
        BY <3>1
      <4> HIDE DEF o
      <4> QED
        BY <4>1, <4>2, <4>3, RecordReplaced
    <3>2. UNCHANGED tx \/ \E s, i :
             tx' = [tx EXCEPT ![t] = Record(s, <<>>, {}, i, {req[t].arg}, {})]
      <4>1. CASE UNCHANGED tx
        BY <4>1
      <4>2. CASE \E s, i : /\ s # <<>>
                           /\ tx' = [tx EXCEPT ![t] =
                                       Record(s, <<>>, {}, i, {req[t].arg}, {})]
        BY <4>2
      <4> QED
        BY <2>3, <4>1, <4>2, Deducted
    <3> QED
      BY <1>1, <3>1, <3>2
  <2>4. CASE CompleteFinish(t)
    <3> DEFINE w == [o \in {req[t].arg} |-> [orders[o] EXCEPT !.done = TRUE]]
    <3>1. w = [x \in DOMAIN w |-> w[x]]
      OBVIOUS
    <3>2. \/ UNCHANGED tx
          \/ tx' = [tx EXCEPT ![t] = Record(tx[t].stock, w, tx[t].tels, tx[t].items,
                                            tx[t].lines, tx[t].seen)]
      BY <2>4, Finished
    <3> HIDE DEF w
    <3> QED
      BY <1>1, <3>1, <3>2, RecordReplaced DEF IInv
  <2>5. CASE AddOrder(t)
    <3> DEFINE w == [o \in {next_order} |->
                       [tel |-> req[t].arg.tel, lines |-> [i \in Items |-> 0], done |-> FALSE]]
    <3>1. w = [x \in DOMAIN w |-> w[x]]
      OBVIOUS
    <3>2. \/ UNCHANGED tx
          \/ tx' = [tx EXCEPT ![t] = Record(<<>>, w, {req[t].arg.tel}, {}, {}, Stocked)]
      BY <2>5, OrderAdded
    <3> HIDE DEF w
    <3> QED
      BY <1>1, <3>1, <3>2, RecordReplaced DEF IInv
  <2>6. CASE AddOrderedItem(t)
    <3>1. ASSUME NEW i, NEW o \in DOMAIN tx[t].orders,
                 tx' = [tx EXCEPT ![t] =
                          Record(tx[t].stock,
                                 [tx[t].orders EXCEPT ![o] =
                                     [@ EXCEPT !.lines[i] = req[t].arg.lines[i]]],
                                 tx[t].tels, tx[t].items \cup {i}, tx[t].lines, tx[t].seen)]
          PROVE  Shaped'
      <4> DEFINE r == [tx[t].orders[o] EXCEPT !.lines[i] = req[t].arg.lines[i]]
                 w == [tx[t].orders EXCEPT ![o] = r]
      <4>1. w = [x \in DOMAIN w |-> w[x]]
        <5> HIDE DEF r
        <5> QED
          OBVIOUS
      <4>2. tx' = [tx EXCEPT ![t] = Record(tx[t].stock, w, tx[t].tels, tx[t].items \cup {i},
                                           tx[t].lines, tx[t].seen)]
        BY <3>1
      <4> HIDE DEF w
      <4> QED
        BY <4>1, <4>2, RecordReplaced DEF IInv
    <3> QED
      BY <1>1, <2>6, <3>1, LineAdded
  <2>7. CASE CommitAndReply(t) \/ Reverts(t)
    <3>1. tx' = [tx EXCEPT ![t] = NoTx]
      BY <2>7, Committed DEF Reverts
    <3> QED
      BY <1>0, <3>1, RecordReplaced DEF IInv
  <2> QED
    BY <1>3, <2>1, <2>2, <2>3, <2>4, <2>5, <2>6, <2>7 DEF Moves
<1> QED
  BY <1>1, <1>2, <1>3, Steps DEF vars

(* Orders change only when a customer is deleted and by a commit.          *)
LEMMA OrdersChange ==
    ASSUME IInv, [Next]_vars
    PROVE  \/ /\ UNCHANGED <<orders, deductions>>
              /\ customers \subseteq customers'
              /\ next_order' \in {next_order, next_order + 1}
           \/ \E t \in Threads : Deletes(t) \/ CommitAndReply(t)
<1>1. CASE UNCHANGED vars
  BY <1>1 DEF vars, tables, history
<1>2. CASE Restarts
  BY <1>2 DEF Restarts
<1>3. ASSUME NEW t \in Threads, Moves(t), ~Deletes(t), ~CommitAndReply(t)
      PROVE  /\ UNCHANGED <<orders, deductions>>
             /\ customers \subseteq customers'
             /\ next_order' \in {next_order, next_order + 1}
  <2>1. CASE Receive(t) \/ Reverts(t) \/ LocksMore(t)
    BY <2>1 DEF Receive, Reverts, LocksMore, tables, history
  <2>2. CASE Quiet(t) \/ GivesUp(t)
    BY <2>2 DEF Quiet, GivesUp
  <2>3. CASE CompleteSelect(t) \/ CompleteDeduct(t) \/ CompleteFinish(t)
    BY <2>3, Selected, Deducted, Finished
  <2>4. CASE AddOrder(t) \/ AddOrderedItem(t)
    BY <2>4, OrderAdded, LineAdded
  <2> QED
    BY <1>3, <2>1, <2>2, <2>3, <2>4 DEF Moves
<1> QED
  BY <1>1, <1>2, <1>3, Steps

LEMMA StepFresh ==
    ASSUME IInv, [Next]_vars
    PROVE  Fresh'
<1> SUFFICES ASSUME NEW o \in OrderIds, o >= next_order'
             PROVE  orders'[o] = NoRow /\ deductions'[o] = 0
  BY DEF Fresh
<1>0. next_order \in Nat /\ o \in Nat
  BY KeysAreNumbers DEF IInv, Typed
<1>1. CASE /\ UNCHANGED <<orders, deductions>>
           /\ next_order' \in {next_order, next_order + 1}
  BY <1>0, <1>1 DEF IInv, Fresh
<1>2. ASSUME NEW t \in Threads, Deletes(t)
      PROVE  orders'[o] = NoRow /\ deductions'[o] = 0
  BY <1>2 DEF Deletes, IInv, Fresh
<1>3. ASSUME NEW t \in Threads, CommitAndReply(t)
      PROVE  orders'[o] = NoRow /\ deductions'[o] = 0
  <2>1. next_order' = next_order
    BY <1>3, Committed
  <2>2. o \notin DOMAIN tx[t].orders
    BY <1>0, <2>1, OldRows
  <2>3. orders'[o] = orders[o]
    BY <1>3, <2>2, Committed
  <2>4. deductions'[o] = deductions[o]
    <3>1. CASE req[t].op = "complete_order" /\ DOMAIN tx[t].orders # {}
      <4>1. req[t].arg \in DOMAIN tx[t].orders
        BY <1>3, <3>1, Committed, CompletedRow
      <4> QED
        BY <1>3, <2>2, <3>1, <4>1, Counted DEF IInv, Typed
    <3> QED
      BY <1>3, <3>1, Counted
  <2> QED
    BY <2>1, <2>3, <2>4 DEF IInv, Fresh
<1> QED
  BY <1>1, <1>2, <1>3, OrdersChange

LEMMA StepLinesGiven ==
    ASSUME IInv, [Next]_vars
    PROVE  LinesGiven'
<1> SUFFICES ASSUME NEW o \in OrderIds, orders'[o] # NoRow
             PROVE  Ordered(orders'[o]) # {}
  BY DEF LinesGiven, Ordered
<1>1. CASE orders'[o] = orders[o]
  BY <1>1 DEF IInv, LinesGiven
<1>2. ASSUME NEW t \in Threads, Deletes(t)
      PROVE  orders'[o] = orders[o]
  BY <1>2 DEF Deletes
<1>3. ASSUME NEW t \in Threads, CommitAndReply(t), o \in DOMAIN tx[t].orders
      PROVE  Ordered(orders'[o]) # {}
  <2>1. orders'[o] = tx[t].orders[o] /\ pc[t] = "commit"
        /\ req[t].op \in {"complete_order", "add_order"}
    BY <1>3, Committed
  <2>2. CASE req[t].op = "complete_order"
    <3>1. orders[o] # NoRow /\ tx[t].orders[o].lines = orders[o].lines
      BY <1>3, <2>1, <2>2, CompletedRow, NoRowAssumption
    <3>2. Ordered(orders[o]) # {}
      BY <3>1 DEF IInv, LinesGiven
    <3> QED
      BY <2>1, <3>1, <3>2 DEF Ordered
  <2>3. CASE req[t].op = "add_order"
    <3>1. tx[t].orders[o].lines = req[t].arg.lines
      BY <1>3, <2>1, <2>3, AddedRow
    <3>2. \E i \in Items : req[t].arg.lines[i] > 0
      BY <2>1, <2>3, RequestsAssumption DEF IInv, Each, Placed
    <3> QED
      BY <2>1, <3>1, <3>2 DEF Ordered
  <2> QED
    BY <2>1, <2>2, <2>3
<1>4. ASSUME NEW t \in Threads, CommitAndReply(t), o \notin DOMAIN tx[t].orders
      PROVE  orders'[o] = orders[o]
  BY <1>4, Committed
<1> QED
  BY <1>1, <1>2, <1>3, <1>4, OrdersChange

(* Every order keeps or gets a customer.                                   *)
LEMMA StepHaveCustomers ==
    ASSUME IInv, [Next]_vars
    PROVE  OrdersHaveCustomers'
<1> SUFFICES ASSUME NEW o \in OrderIds, orders'[o] # NoRow
             PROVE  orders'[o].tel \in customers'
  BY DEF OrdersHaveCustomers
<1>1. CASE orders'[o] = orders[o] /\ customers \subseteq customers'
  BY <1>1 DEF IInv, OrdersHaveCustomers
<1>2. ASSUME NEW t \in Threads, Deletes(t)
      PROVE  orders'[o].tel \in customers'
  <2>1. orders'[o] = orders[o] /\ orders[o].tel # req[t].arg
    BY <1>2 DEF Deletes
  <2> QED
    BY <1>2, <2>1 DEF Deletes, IInv, OrdersHaveCustomers
<1>3. ASSUME NEW t \in Threads, CommitAndReply(t)
      PROVE  orders'[o].tel \in customers'
  <2>1. customers' = customers /\ pc[t] = "commit"
        /\ req[t].op \in {"complete_order", "add_order"}
    BY <1>3, Committed
  <2>2. CASE o \notin DOMAIN tx[t].orders
    <3>1. orders'[o] = orders[o]
      BY <1>3, <2>2, Committed
    <3> QED
      BY <1>1, <2>1, <3>1
  <2>3. CASE o \in DOMAIN tx[t].orders /\ req[t].op = "complete_order"
    <3>1. orders'[o] = tx[t].orders[o]
      BY <1>3, <2>3, Committed
    <3>2. orders[o] # NoRow /\ tx[t].orders[o].tel = orders[o].tel
      BY <2>1, <2>3, CompletedRow, NoRowAssumption
    <3> QED
      BY <2>1, <3>1, <3>2 DEF IInv, OrdersHaveCustomers
  <2>4. CASE o \in DOMAIN tx[t].orders /\ req[t].op = "add_order"
    <3>1. orders'[o] = tx[t].orders[o]
      BY <1>3, <2>4, Committed
    <3>2. tx[t].orders[o].tel = req[t].arg.tel /\ req[t].arg.tel \in customers
      BY <2>1, <2>4, AddedRow
    <3> QED
      BY <2>1, <3>1, <3>2
  <2> QED
    BY <2>1, <2>2, <2>3, <2>4
<1> QED
  BY <1>1, <1>2, <1>3, OrdersChange

(* The row is marked and the deduction counted by one commit.              *)
LEMMA StepDone ==
    ASSUME IInv, [Next]_vars
    PROVE  DoneIffDeducted'
<1> SUFFICES ASSUME NEW o \in OrderIds, orders'[o] # NoRow
             PROVE  orders'[o].done <=> deductions'[o] > 0
  BY DEF DoneIffDeducted
<1>1. CASE orders'[o] = orders[o] /\ deductions'[o] = deductions[o]
  BY <1>1 DEF IInv, DoneIffDeducted
<1>2. ASSUME NEW t \in Threads, Deletes(t)
      PROVE  orders'[o] = orders[o] /\ deductions'[o] = deductions[o]
  BY <1>2 DEF Deletes
<1>3. ASSUME NEW t \in Threads, CommitAndReply(t)
      PROVE  orders'[o].done <=> deductions'[o] > 0
  <2>1. pc[t] = "commit" /\ req[t].op \in {"complete_order", "add_order"}
    BY <1>3, Committed
  <2>2. CASE o \in DOMAIN tx[t].orders /\ req[t].op = "complete_order"
    <3>1. orders'[o] = tx[t].orders[o]
      BY <1>3, <2>2, Committed
    <3>2. tx[t].orders[o].done /\ o = req[t].arg
      BY <2>1, <2>2, CompletedRow
    <3>3. deductions' = [deductions EXCEPT ![o] = @ + 1]
      BY <1>3, <2>2, <3>2, Counted
    <3>4. deductions'[o] > 0
      BY <3>3 DEF IInv, Typed
    <3> QED
      BY <3>1, <3>2, <3>4
  <2>3. CASE o \in DOMAIN tx[t].orders /\ req[t].op = "add_order"
    <3>1. orders'[o] = tx[t].orders[o]
      BY <1>3, <2>3, Committed
    <3>2. ~tx[t].orders[o].done /\ deductions[o] = 0
      BY <2>1, <2>3, AddedRow
    <3>3. deductions' = deductions
      BY <1>3, <2>3, Counted
    <3> QED
      BY <3>1, <3>2, <3>3
  <2>4. CASE o \notin DOMAIN tx[t].orders
    <3>1. orders'[o] = orders[o]
      BY <1>3, <2>4, Committed
    <3>2. deductions'[o] = deductions[o]
      <4>1. CASE req[t].op = "complete_order" /\ DOMAIN tx[t].orders # {}
        <5>1. req[t].arg \in DOMAIN tx[t].orders
          BY <2>1, <4>1, CompletedRow
        <5> QED
          BY <1>3, <2>4, <4>1, <5>1, Counted DEF IInv, Typed
      <4> QED
        BY <1>3, <4>1, Counted
    <3> QED
      BY <1>1, <3>1, <3>2
  <2> QED
    BY <2>1, <2>2, <2>3, <2>4
<1> QED
  BY <1>1, <1>2, <1>3, OrdersChange

LEMMA Inductive == Spec => []IInv
<1>1. IInv /\ [Next]_vars => IInv'
  <2> SUFFICES ASSUME IInv, [Next]_vars PROVE IInv'
    OBVIOUS
  <2> QED
    BY StepTyped, StepShaped, StepFresh, StepLinesGiven, StepEach, StepHaveCustomers, StepDone
       DEF IInv
<1> QED
  BY InitIInv, <1>1, PTL DEF Spec

-----------------------------------------------------------------------------
(* Every order belongs to a customer, for any number of threads that add   *)
(* orders and delete customers (db.sql:43, 203-206, 238-246).              *)
THEOREM OrdersKeepCustomers == Spec => []OrdersHaveCustomers
<1>1. IInv => OrdersHaveCustomers
  BY DEF IInv
<1> QED
  BY <1>1, Inductive, PTL

(* An order is marked completed exactly when its lines have left the       *)
(* stock, whatever fails and whenever the process dies (db.sql:248-263,    *)
(* Request.hpp:575-588).                                                   *)
THEOREM DoneIsDeducted == Spec => []DoneIffDeducted
<1>1. IInv => DoneIffDeducted
  BY DEF IInv
<1> QED
  BY <1>1, Inductive, PTL

(* What a step does to an order: it appears as it was asked for, and then  *)
(* only its mark changes.                                                  *)
LEMMA WholeSteps ==
    ASSUME IInv, [Next]_vars
    PROVE  OrderAppearsWhole
<1> SUFFICES ASSUME NEW o \in OrderIds, orders'[o] # NoRow
             PROVE  IF orders[o] # NoRow
                      THEN orders'[o].lines = orders[o].lines /\ orders'[o].tel = orders[o].tel
                      ELSE \E t \in Threads :
                              /\ req[t].op = "add_order"
                              /\ orders'[o].lines = req[t].arg.lines
                              /\ orders'[o].tel = req[t].arg.tel
  BY DEF OrderAppearsWhole
<1>1. CASE orders'[o] = orders[o]
  BY <1>1
<1>2. ASSUME NEW t \in Threads, Deletes(t) PROVE orders'[o] = orders[o]
  BY <1>2 DEF Deletes
<1>3. ASSUME NEW t \in Threads, CommitAndReply(t), orders'[o] # orders[o]
      PROVE  IF orders[o] # NoRow
               THEN orders'[o].lines = orders[o].lines /\ orders'[o].tel = orders[o].tel
               ELSE /\ req[t].op = "add_order"
                    /\ orders'[o].lines = req[t].arg.lines
                    /\ orders'[o].tel = req[t].arg.tel
  <2>1. /\ pc[t] = "commit" /\ req[t].op \in {"complete_order", "add_order"}
        /\ o \in DOMAIN tx[t].orders /\ orders'[o] = tx[t].orders[o]
    BY <1>3, Committed
  <2>2. CASE req[t].op = "complete_order"
    BY <2>1, <2>2, CompletedRow, NoRowAssumption
  <2>3. CASE req[t].op = "add_order"
    BY <2>1, <2>3, AddedRow
  <2> QED
    BY <2>1, <2>2, <2>3
<1> QED
  BY <1>1, <1>2, <1>3, OrdersChange

(* add_order is all or nothing and its order never changes, for any number *)
(* of threads (Request.hpp:633-681).                                       *)
THEOREM OrdersAreWhole == Spec => OrdersWhole
<1>1. IInv /\ [Next]_vars => [OrderAppearsWhole]_vars
  BY WholeSteps
<1> QED
  BY <1>1, Inductive, PTL DEF Spec, OrdersWhole

(* Who changes accounts: delete_user and update_user those they name, and  *)
(* create_user one that is not there.                                      *)
LEMMA AccountSteps ==
    ASSUME IInv, Next
    PROVE  AccountKept
<1> SUFFICES ASSUME NEW l \in Logins, users[l] # NoRow, users'[l] # users[l]
             PROVE  \E t \in Threads :
                       /\ pc[t] = "act"
                       /\ \/ req[t].op = "delete_user" /\ req[t].arg = l
                          \/ req[t].op = "update_user" /\ req[t].arg.login = l
  BY DEF AccountKept
<1>0. users = [k \in Logins |-> users[k]]
  BY DEF IInv, Typed
<1>1. ~ServerDies
  BY DEF ServerDies, Dies, tables
<1>2. PICK t \in Threads : Receive(t) \/ Act(t)
  BY <1>1 DEF Next
<1>3. UpdateUser(t) \/ DeleteUser(t) \/ CreateUserInsert(t)
  BY <1>0, <1>2, UsersChange
<1>4. CASE DeleteUser(t)
  <2>1. pc[t] = "act" /\ req[t].op = "delete_user"
        /\ (users' = [users EXCEPT ![req[t].arg] = NoRow] \/ users' = users)
    BY <1>4 DEF DeleteUser, At
  <2>2. req[t].arg = l
    BY <1>0, <2>1
  <2> QED
    BY <2>1, <2>2
<1>5. CASE UpdateUser(t)
  <2>1. pc[t] = "act" /\ req[t].op = "update_user"
        /\ \/ users' = [users EXCEPT ![req[t].arg.login] =
                           IF @ = NoRow THEN NoRow ELSE req[t].arg.rank]
           \/ users' = users
    BY <1>5 DEF UpdateUser, At
  <2>2. req[t].arg.login = l
    BY <1>0, <2>1
  <2> QED
    BY <2>1, <2>2
<1>6. CASE CreateUserInsert(t)
  <2>1. \/ /\ users[req[t].arg.login] = NoRow
           /\ users' = [users EXCEPT ![req[t].arg.login] = req[t].arg.rank]
        \/ users' = users
    BY <1>6 DEF CreateUserInsert
  <2> QED
    BY <1>0, <2>1
<1> QED
  BY <1>3, <1>4, <1>5, <1>6

(* create_user never overwrites an account, for any number of threads that *)
(* create, change and delete it (db.sql:170-181).                          *)
THEOREM AccountsAreKept == Spec => AccountsKept
<1>1. IInv /\ [Next]_vars => [AccountKept]_vars
  BY AccountSteps
<1> QED
  BY <1>1, Inductive, PTL DEF Spec, AccountsKept

(* Which statements answer "success".                                      *)
LEMMA Successes ==
    ASSUME IInv, Next, NEW t \in Threads,
           pc[t] # "idle", pc'[t] = "idle", answer'[t] = "success"
    PROVE  \/ CreateUserInsert(t) \/ CreateCustomerInsert(t)
           \/ CommitAndReply(t) \/ CommitFails(t)
           \/ req[t].op \notin {"create_user", "create_customer", "complete_order", "add_order"}
<1>0. answer = [u \in Threads |-> answer[u]] /\ pc \in [Threads -> Labels]
  BY DEF IInv, Typed
<1>1. ~Dies
  BY DEF Dies
<1>2. PICK u \in Threads : Receive(u) \/ Act(u)
  BY <1>1 DEF Next, ServerDies
<1>3. ~Receive(u)
  BY <1>0 DEF Receive
<1>4. \A l \in Labels \ {"idle"} : ~Goto(u, l)
  BY <1>0 DEF Goto
<1>5. PICK a \in {"success", "error", "denied", "bad_config"} : Reply(u, a)
  BY <1>1, <1>2, <1>3, <1>4, StatementEnds
<1>6. u = t /\ a = "success"
  BY <1>0, <1>5 DEF Reply
<1>7. Act(t) /\ \A b \in {"error", "denied", "bad_config"} : ~Reply(t, b)
  BY <1>0, <1>2, <1>3, <1>6 DEF Reply
<1>8. /\ ~CheckUser(t) /\ ~CreateUserSelect(t) /\ ~CreateCustomerSelect(t)
      /\ ~RollbackAndReply(t)
  <2>1. ~Goto(t, "act") /\ ~Goto(t, "insert")
    BY <1>4, <1>6 DEF Labels
  <2> QED
    BY <1>7, <2>1 DEF CheckUser, CreateUserSelect, CreateCustomerSelect, RollbackAndReply
<1>9. ~CompleteSelect(t) /\ ~CompleteFinish(t) /\ ~CompleteDeduct(t)
      /\ ~AddOrder(t) /\ ~AddOrderedItem(t) /\ ~StatementFails(t) /\ ~GetFails(t)
  <2>1. \A l \in {"commit", "deduct", "rollback", "finish", "line"} : ~Goto(t, l)
    BY <1>4, <1>6 DEF Labels
  <2>2. ~CompleteSelect(t) /\ ~CompleteFinish(t) /\ ~CompleteDeduct(t)
    BY <2>1 DEF CompleteSelect, CompleteFinish, CompleteDeduct
  <2>3. ~AddOrder(t) /\ ~AddOrderedItem(t)
    BY <2>1 DEF AddOrder, AddOrderedItem
  <2>4. ~StatementFails(t) /\ ~GetFails(t)
    BY <1>1, <1>7, <2>1 DEF StatementFails, GetFails
  <2> QED
    BY <2>2, <2>3, <2>4
<1>10. ~CompleteRead(t) /\ ~CompleteShare(t) /\ ~CompleteWrite(t)
  BY DEF CompleteRead, CompleteShare, CompleteWrite
<1> QED
  BY <1>7, <1>8, <1>9, <1>10 DEF Act, Auth, Get, GetReport, DeleteUser, UpdateUser, LockCustomer,
                          DeleteCustomer,                          AddItem, AddItemCount, At, Lists, Reports

LEMMA SuccessSteps ==
    ASSUME IInv, Next
    PROVE  SuccessTrue
<1> SUFFICES ASSUME NEW t \in Threads,
                    pc[t] # "idle", pc'[t] = "idle", answer'[t] = "success"
             PROVE  CASE req[t].op = "create_user" ->
                           /\ users[req[t].arg.login] = NoRow
                           /\ users'[req[t].arg.login] = req[t].arg.rank
                      [] req[t].op = "create_customer" ->
                           req[t].arg \notin customers /\ req[t].arg \in customers'
                      [] req[t].op = "complete_order" ->
                           \/ CommitFailed(t)
                           \/ orders'[req[t].arg] # NoRow => orders'[req[t].arg].done
                      [] req[t].op = "add_order" ->
                           \/ CommitFailed(t)
                           \/ \E o \in OrderIds : orders[o] = NoRow /\ orders'[o] # NoRow
                      [] OTHER -> TRUE
  BY DEF SuccessTrue
<1>0. /\ answer = [u \in Threads |-> answer[u]] /\ users = [l \in Logins |-> users[l]]
      /\ req[t] \in RequestSet
  BY DEF IInv, Typed, Each, Placed
<1>1. CASE CreateUserInsert(t)
  <2>1. req[t].op = "create_user" /\ ~Reply(t, "error")
    BY <1>0, <1>1 DEF CreateUserInsert, At, Reply
  <2>2. /\ users[req[t].arg.login] = NoRow
        /\ users' = [users EXCEPT ![req[t].arg.login] = req[t].arg.rank]
    BY <1>1, <2>1 DEF CreateUserInsert
  <2>3. req[t].arg.login \in Logins
    BY <1>0, <2>1, RequestsAssumption
  <2> QED
    BY <1>0, <2>1, <2>2, <2>3
<1>2. CASE CreateCustomerInsert(t)
  <2>1. req[t].op = "create_customer" /\ ~Reply(t, "error")
    BY <1>0, <1>2 DEF CreateCustomerInsert, At, Reply
  <2>2. req[t].arg \notin customers /\ customers' = customers \cup {req[t].arg}
    BY <1>2, <2>1 DEF CreateCustomerInsert
  <2> QED
    BY <2>1, <2>2
<1>3. CASE CommitAndReply(t)
  <2>1. /\ pc[t] = "commit" /\ req[t].op \in {"complete_order", "add_order"}
        /\ orders' = [o \in OrderIds |->
                         IF o \in DOMAIN tx[t].orders THEN tx[t].orders[o] ELSE orders[o]]
    BY <1>3, Committed
  <2>2. CASE req[t].op = "complete_order"
    <3>1. req[t].arg \in OrderIds
      BY <1>0, <2>2, RequestsAssumption
    <3>2. CASE DOMAIN tx[t].orders = {}
      <4>1. orders[req[t].arg] = NoRow \/ orders[req[t].arg].done
        BY <2>1, <2>2, <3>2 DEF IInv, Each, Completing
      <4> QED
        BY <2>1, <2>2, <3>1, <3>2, <4>1
    <3>3. CASE DOMAIN tx[t].orders # {}
      <4>1. req[t].arg \in DOMAIN tx[t].orders
        BY <2>1, <2>2, <3>3, CompletedRow
      <4>2. tx[t].orders[req[t].arg].done
        BY <2>1, <2>2, <4>1, CompletedRow
      <4> QED
        BY <2>1, <2>2, <3>1, <4>1, <4>2
    <3> QED
      BY <3>2, <3>3
  <2>3. CASE req[t].op = "add_order"
    <3>1. PICK o \in DOMAIN tx[t].orders : TRUE
      BY <2>1, <2>3 DEF IInv, Each, Adding
    <3>2. o \in OrderIds /\ orders[o] = NoRow /\ tx[t].orders[o] \in OrderRows
      BY <2>1, <2>3, AddedRow
    <3>3. orders'[o] # NoRow
      BY <2>1, <3>2, NoRowAssumption
    <3> QED
      BY <2>3, <3>2, <3>3
  <2> QED
    BY <2>1, <2>2, <2>3
<1>4. CASE req[t].op \notin {"create_user", "create_customer", "complete_order", "add_order"}
  BY <1>4
<1>5. CASE CommitFails(t)
  <2>1. pc[t] = "commit" /\ req[t].op \in {"complete_order", "add_order"}
    BY <1>5 DEF CommitFails, IInv, Each, Placed
  <2>2. ~Deadlocked(t)
    BY <2>1 DEF Deadlocked, Awaits
  <2>3. CommitFailed(t)
    BY <1>5, <2>1, <2>2 DEF CommitFails, Fails, CommitFailed
  <2> QED
    BY <2>1, <2>3
<1> QED
  BY <1>1, <1>2, <1>3, <1>4, <1>5, Successes

(* "success" is true when it is given, for any number of threads and any   *)
(* requests, unless a COMMIT failed, which the handlers do not notice      *)
(* (Request.hpp:428-434, 475-481, 576-588, 680-681).                       *)
THEOREM SuccessesAreTrue == Spec => SuccessIsTrue
<1>1. IInv /\ [Next]_vars => [SuccessTrue]_vars
  BY SuccessSteps
<1> QED
  BY <1>1, Inductive, PTL DEF Spec, SuccessIsTrue
=============================================================================
