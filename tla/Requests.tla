------------------------------ MODULE Requests ------------------------------
(***************************************************************************)
(* The request handlers of the server (src/pc_course_server/Request.hpp)   *)
(* over the procedures of src/db.sql.  Connection runs a handler on the    *)
(* thread that read the request, over the SQL connection of that thread;   *)
(* handlers of different clients therefore interleave between statements.  *)
(* A step is one SQL statement of a handler or of a procedure it calls.    *)
(***************************************************************************)
EXTENDS Database, Functions

CONSTANTS
    RequestSet,     \* the requests clients may send
    Strict,         \* sql_mode has STRICT_TRANS_TABLES
    IdAfterCall,    \* insert_id() after a CALL is the id the procedure inserted
    MaxRequests,    \* bound: requests started
    MaxFailures,    \* bound: statements the SQL server fails to execute
    MaxCrashes      \* bound: deaths of the server process

ASSUME SettingsAssumption == Strict \in BOOLEAN /\ IdAfterCall \in BOOLEAN
(* What a request that is not refused for its form asks for; an order      *)
(* without lines is answered with bad_config.                              *)
ASSUME RequestsAssumption ==
    \A r \in RequestSet :
        /\ r.op = "create_user" => r.arg.login \in Logins
        /\ r.op \in {"create_customer", "delete_customer"} => r.arg \in Tels
        /\ r.op \in {"add_item", "add_item_count"} => r.arg.item \in Items /\ r.arg.count \in Int
        /\ r.op = "complete_order" => r.arg \in OrderIds
        /\ r.op = "add_order" =>
              /\ r.arg \in [tel : Tels, lines : Lines]
              /\ \E i \in Items : r.arg.lines[i] > 0
ASSUME LimitsAssumption == {MaxRequests, MaxFailures, MaxCrashes} \subseteq Nat

VARIABLES
    pc,             \* the statement each thread executes next
    req,            \* the request each thread serves, or served last
    todo,           \* add_order: the items still to be added to the order
    answer,         \* the response each thread gave last
    started,        \* requests started
    failures,       \* statements that failed on the SQL server
    crashes,        \* deaths of the server process
    supplied,       \* history: what came into stock, per distributor
    shipped,        \* history: what completed orders took, per distributor
    deductions      \* history: how often each order was taken from the stock

counters == <<started, failures, crashes>>
history == <<supplied, shipped, deductions>>
vars == <<tables, tx, locks, pc, req, todo, answer, counters, history>>

Distributors == {Distributor[i] : i \in Items}

StockOf(d) == SumFunctionOnSet(stock, {i \in Stocked : Distributor[i] = d})
LinesOf(row, d) == SumFunctionOnSet(row.lines, {i \in Items : Distributor[i] = d})

Init ==
    /\ DatabaseInit
    /\ pc = [t \in Threads |-> "idle"]
    /\ req = [t \in Threads |-> [op |-> "none"]]
    /\ todo = [t \in Threads |-> {}]
    /\ answer = [t \in Threads |-> "none"]
    /\ started = 0
    /\ failures = 0
    /\ crashes = 0
    /\ supplied = [d \in Distributors |-> StockOf(d)]
    /\ shipped = [d \in Distributors |-> 0]
    /\ deductions = [o \in OrderIds |->
                        IF FirstOrders[o] # NoRow /\ FirstOrders[o].done THEN 1 ELSE 0]

-----------------------------------------------------------------------------
At(t, label, op) == pc[t] = label /\ req[t].op = op

Goto(t, label) == pc' = [pc EXCEPT ![t] = label] /\ UNCHANGED answer

Reply(t, a) ==
    /\ pc' = [pc EXCEPT ![t] = "idle"]
    /\ answer' = [answer EXCEPT ![t] = a]

(* The ranks check_user_existance is called with.  The other requests are  *)
(* served without a check.                                                 *)
Allowed(op) ==
    CASE op \in {"delete_user", "update_user", "create_user", "get_users"} -> {"Admin"}
      [] op \in {"create_customer", "delete_customer", "add_item",
                 "add_item_count", "complete_order", "add_order"} -> {"Employee", "Admin"}
      [] OTHER -> Ranks

Lists == {"get_users", "get_ranks", "get_orders"}
Reports == {"get_income"}
Unchecked == {"get_ranks", "get_orders", "get_income"}

(* ProcessRequest calls the handler that has the name of the request.      *)
(* Clients complete orders they know of, from get_orders.                  *)
Receive(t) ==
    /\ pc[t] = "idle"
    /\ started < MaxRequests
    /\ started' = started + 1
    /\ \E r \in RequestSet :
          /\ r.op = "complete_order" => orders[r.arg] # NoRow
          /\ req' = [req EXCEPT ![t] = r]
          /\ pc' = [pc EXCEPT ![t] = IF r.op \in Unchecked THEN "act" ELSE "check"]
    /\ answer' = [answer EXCEPT ![t] = "none"]
    /\ UNCHANGED <<tables, tx, locks, todo, failures, crashes, history>>

(* check_user_existance: the rank the client names must be an allowed one  *)
(* and the rank of that user.  A field of the request that is missing or   *)
(* of the wrong type is an exception, here or in the handler, and that is  *)
(* answered with bad_config before anything has been written.              *)
CheckUser(t) ==
    /\ pc[t] = "check"
    /\ \/ Reply(t, "bad_config")
       \/ /\ req[t].rank \notin Allowed(req[t].op)
          /\ Reply(t, "denied")
       \/ /\ req[t].rank \in Allowed(req[t].op)
          /\ users[req[t].login] = req[t].rank
          /\ Goto(t, "act")
    /\ UNCHANGED <<tables, tx, locks, req, todo, counters, history>>

Auth(t) ==
    /\ At(t, "act", "auth")
    /\ Reply(t, "success")
    /\ UNCHANGED <<tables, tx, locks, req, todo, counters, history>>

(* get_users, get_ranks, get_orders and the like: one SELECT.              *)
Get(t) ==
    /\ pc[t] = "act"
    /\ req[t].op \in Lists
    /\ Reply(t, "success")
    /\ UNCHANGED <<tables, tx, locks, req, todo, counters, history>>

(* get_income, get_statistics and the like: one SELECT over a period, the  *)
(* bounds of which may be missing or of the wrong type.                    *)
GetReport(t) ==
    /\ pc[t] = "act"
    /\ req[t].op \in Reports
    /\ Reply(t, "success") \/ Reply(t, "bad_config")
    /\ UNCHANGED <<tables, tx, locks, req, todo, counters, history>>

(* The rows the completion of an order still has to read, then to write.   *)
Unread(t) == Ordered(orders[req[t].arg]) \ locks[t].items
Unwritten(t) == locks[t].picked \ locks[t].stock

(* May the statement of t have to wait for a row that u has?               *)
Awaits(t, u) ==
    /\ t # u
    /\ \/ /\ pc[t] = "deduct" /\ locks[t].lines # {}
          /\ IF Unread(t) # {}
               THEN Unread(t) \cap WrittenItems(u) # {}
               ELSE Unwritten(t) \cap (WrittenItems(u) \cup SharedItems(u)) # {}
       \/ pc[t] = "finish" /\ LocksOrder(u, req[t].arg)
       \/ pc[t] = "line" /\ todo[t] \cap WrittenItems(u) # {}
       \/ pc[t] = "cascade" /\ ReadsLines(u, req[t].arg)

(* The SQL server looks for transactions that wait for each other.         *)
Deadlocked(t) ==
    \E C \in SUBSET Threads :
        /\ t \in C
        /\ \A u \in C : \E v, w \in C : Awaits(u, v) /\ Awaits(w, u)

(* The SQL server fails to execute a statement: a lock wait that timed     *)
(* out, a lost connection.  A deadlock it ends by failing the statement of *)
(* one of those in it, however often that happens.                         *)
Fails(t) ==
    \/ failures < MaxFailures /\ failures' = failures + 1
    \/ Deadlocked(t) /\ UNCHANGED failures
Works == UNCHANGED failures

(* delete_user answers success whether or not the statement succeeded.     *)
DeleteUser(t) ==
    /\ At(t, "act", "delete_user")
    /\ \/ Works /\ users' = [users EXCEPT ![req[t].arg] = NoRow]
       \/ Fails(t) /\ UNCHANGED users
    /\ Reply(t, "success")
    /\ UNCHANGED <<customers, stock, orders, next_order, tx, locks, req, todo,
                   started, crashes, history>>

UpdateUser(t) ==
    /\ At(t, "act", "update_user")
    /\ IF req[t].arg.rank \in Ranks
         THEN /\ users' = [users EXCEPT ![req[t].arg.login] =
                               IF @ = NoRow THEN NoRow ELSE req[t].arg.rank]
              /\ Reply(t, "success")
         ELSE /\ UNCHANGED users
              /\ Reply(t, "error")
    /\ UNCHANGED <<customers, stock, orders, next_order, tx, locks, req, todo, counters, history>>

(* CreateUser looks first ...                                              *)
CreateUserSelect(t) ==
    /\ At(t, "act", "create_user")
    /\ IF users[req[t].arg.login] # NoRow \/ req[t].arg.rank \notin Ranks
         THEN Reply(t, "error")
         ELSE Goto(t, "insert")
    /\ UNCHANGED <<tables, tx, locks, req, todo, counters, history>>

(* Mutant: REPLACE instead of INSERT.                                      *)
CreateUserReplace(t) ==
    /\ At(t, "insert", "create_user")
    /\ users' = [users EXCEPT ![req[t].arg.login] = req[t].arg.rank]
    /\ Reply(t, "success")
    /\ UNCHANGED <<customers, stock, orders, next_order, tx, locks, req, todo, counters, history>>

(* Mutant: the result of the INSERT is not looked at.                      *)
CreateUserUnseen(t) ==
    /\ At(t, "insert", "create_user")
    /\ users' = [users EXCEPT ![req[t].arg.login] = IF @ = NoRow THEN req[t].arg.rank ELSE @]
    /\ Reply(t, "success")
    /\ UNCHANGED <<customers, stock, orders, next_order, tx, locks, req, todo, counters, history>>

(* ... and inserts then; the primary key refuses a second row.             *)
CreateUserInsert(t) ==
    /\ At(t, "insert", "create_user")
    /\ IF users[req[t].arg.login] = NoRow
         THEN /\ users' = [users EXCEPT ![req[t].arg.login] = req[t].arg.rank]
              /\ Reply(t, "success")
         ELSE /\ UNCHANGED users
              /\ Reply(t, "error")
    /\ UNCHANGED <<customers, stock, orders, next_order, tx, locks, req, todo, counters, history>>

CreateCustomerSelect(t) ==
    /\ At(t, "act", "create_customer")
    /\ IF req[t].arg \in customers THEN Reply(t, "error") ELSE Goto(t, "insert")
    /\ UNCHANGED <<tables, tx, locks, req, todo, counters, history>>

CreateCustomerInsert(t) ==
    /\ At(t, "insert", "create_customer")
    /\ TelShareable(t, req[t].arg)
    /\ customers' = customers \cup {req[t].arg}
    /\ Reply(t, IF req[t].arg \in customers THEN "error" ELSE "success")
    /\ UNCHANGED <<users, stock, orders, next_order, tx, locks, req, todo, counters, history>>

(* delete_customer locks the customer and its orders ...                   *)
LockCustomer(t) ==
    /\ At(t, "act", "delete_customer")
    /\ \/ /\ Works
          /\ TelWritable(t, req[t].arg)
          /\ locks' = [locks EXCEPT ![t].tels = {req[t].arg}]
          /\ Goto(t, "cascade")
       \/ Fails(t) /\ Reply(t, "success") /\ UNCHANGED locks
    /\ UNCHANGED <<tables, tx, req, todo, started, crashes, history>>

(* Mutant: the orders of a deleted customer stay.                          *)
DeleteCustomerOnly(t) ==
    /\ At(t, "cascade", "delete_customer")
    /\ customers' = customers \ {req[t].arg}
    /\ locks' = [locks EXCEPT ![t] = NoLocks]
    /\ Reply(t, "success")
    /\ UNCHANGED <<users, stock, orders, next_order, tx, req, todo, counters, history>>

(* ... and deletes the orders with the customer, and the lines with the    *)
(* orders (ON DELETE CASCADE).  It answers success whether or not the      *)
(* statement succeeded.                                                    *)
DeleteCustomer(t) ==
    /\ At(t, "cascade", "delete_customer")
    /\ \/ /\ Works
          /\ TelDeletable(t, req[t].arg)
          /\ customers' = customers \ {req[t].arg}
          /\ orders' = [o \in OrderIds |->
                           IF orders[o] # NoRow /\ orders[o].tel = req[t].arg
                             THEN NoRow ELSE orders[o]]
       \/ Fails(t) /\ UNCHANGED <<customers, orders>>
    /\ locks' = [locks EXCEPT ![t] = NoLocks]
    /\ Reply(t, "success")
    /\ UNCHANGED <<users, stock, next_order, tx, req, todo, started, crashes, history>>

(* The value of a column that takes no negative counts; strict mode        *)
(* refuses those before this.                                              *)
Unsigned(n) == IF n < 0 THEN 0 ELSE n

(* Mutant: REPLACE instead of INSERT.                                      *)
AddItemReplace(t) ==
    /\ At(t, "act", "add_item")
    /\ stock' = [stock EXCEPT ![req[t].arg.item] = Unsigned(req[t].arg.count)]
    /\ supplied' = [supplied EXCEPT
          ![Distributor[req[t].arg.item]] = @ + Unsigned(req[t].arg.count)]
    /\ Reply(t, "success")
    /\ UNCHANGED <<users, customers, orders, next_order, tx, locks, req, todo,
                   counters, shipped, deductions>>

(* add_item: the item gets a new row, while there are keys left.           *)
AddItem(t) ==
    /\ At(t, "act", "add_item")
    /\ IF stock[req[t].arg.item] = NoRow /\ ~(Strict /\ req[t].arg.count < 0)
         THEN /\ stock' = [stock EXCEPT ![req[t].arg.item] = Unsigned(req[t].arg.count)]
              /\ supplied' = [supplied EXCEPT
                    ![Distributor[req[t].arg.item]] = @ + Unsigned(req[t].arg.count)]
              /\ Reply(t, "success")
         ELSE /\ UNCHANGED <<stock, supplied>>
              /\ Reply(t, "error")
    /\ UNCHANGED <<users, customers, orders, next_order, tx, locks, req, todo,
                   counters, shipped, deductions>>

(* Mutant: the new count is computed from the committed row, without a     *)
(* lock.                                                                   *)
AddItemCountUnlocked(t) ==
    /\ At(t, "act", "add_item_count")
    /\ LET i == req[t].arg.item
           n == req[t].arg.count
       IN  IF stock[i] # NoRow /\ stock[i] + n >= 0
             THEN /\ stock' = [stock EXCEPT ![i] = @ + n]
                  /\ supplied' = [supplied EXCEPT ![Distributor[i]] = @ + n]
             ELSE UNCHANGED <<stock, supplied>>
    /\ Reply(t, "success")
    /\ UNCHANGED <<users, customers, orders, next_order, tx, locks, req, todo,
                   counters, shipped, deductions>>

(* add_item_count adds a count that may be negative and waits for the row. *)
(* It answers success whether or not the statement succeeded; a count      *)
(* below 0 makes it fail.                                                  *)
AddItemCount(t) ==
    /\ At(t, "act", "add_item_count")
    /\ LET i == req[t].arg.item
           n == req[t].arg.count
       IN  \/ /\ Works
              /\ ItemWritable(t, i)
              /\ IF stock[i] # NoRow /\ stock[i] + n >= 0
                   THEN /\ stock' = [stock EXCEPT ![i] = @ + n]
                        /\ supplied' = [supplied EXCEPT ![Distributor[i]] = @ + n]
                   ELSE UNCHANGED <<stock, supplied>>
           \/ Fails(t) /\ UNCHANGED <<stock, supplied>>
    /\ Reply(t, "success")
    /\ UNCHANGED <<users, customers, orders, next_order, tx, locks, req, todo,
                   started, crashes, shipped, deductions>>

-----------------------------------------------------------------------------
(* Mutant: CompleteOrder does not look whether the order is completed.     *)
CompleteUnseen(t) ==
    /\ At(t, "act", "complete_order")
    /\ Goto(t, "deduct")
    /\ UNCHANGED <<tables, tx, locks, req, todo, counters, history>>

(* complete_order, in a transaction.  CompleteOrder first looks whether    *)
(* the order is completed already ...                                      *)
CompleteSelect(t) ==
    /\ At(t, "act", "complete_order")
    /\ LET row == orders[req[t].arg]
       IN  Goto(t, IF row # NoRow /\ row.done THEN "commit" ELSE "deduct")
    /\ UNCHANGED <<tables, tx, locks, req, todo, counters, history>>

(* ... then takes its lines from the stock.  The lines are grouped by      *)
(* distributor; all that a distributor delivers is taken from one of its   *)
(* items, whichever the server picks for the group.  A negative count does *)
(* not fit the column: in strict mode the statement fails, otherwise the   *)
(* count becomes 0.                                                        *)
OnePerDistributor(S) ==
    {R \in SUBSET S :
        /\ \A i \in S : \E j \in R : Distributor[i] = Distributor[j]
        /\ \A i, j \in R : Distributor[i] = Distributor[j] => i = j}

AfterDeduction(row, i) == stock[i] - LinesOf(row, Distributor[i])

(* The UPDATE reads the lines of the order under a lock, which one may do  *)
(* unless the order is gone ...                                            *)
CompleteRead(t) ==
    /\ At(t, "deduct", "complete_order")
    /\ orders[req[t].arg] # NoRow
    /\ locks[t].lines = {}
    /\ \E R \in OnePerDistributor(Ordered(orders[req[t].arg])) :
          locks' = [locks EXCEPT ![t].lines = {req[t].arg}, ![t].picked = R]
    /\ UNCHANGED <<tables, tx, pc, req, todo, answer, counters, history>>

(* ... then the items of the lines, one by one ...                         *)
CompleteShare(t) ==
    /\ At(t, "deduct", "complete_order")
    /\ locks[t].lines # {}
    /\ \E i \in Unread(t) :
          /\ ItemShareable(t, i)
          /\ locks' = [locks EXCEPT ![t].items = @ \cup {i}]
    /\ UNCHANGED <<tables, tx, pc, req, todo, answer, counters, history>>

(* ... and then writes one item after the other, until the trigger or the  *)
(* column refuses one.                                                     *)
Refused(t) ==
    Strict /\ \E i \in locks[t].stock : AfterDeduction(orders[req[t].arg], i) < 0

CompleteWrite(t) ==
    /\ At(t, "deduct", "complete_order")
    /\ locks[t].lines # {} /\ Unread(t) = {} /\ ~Refused(t)
    /\ \E i \in Unwritten(t) :
          /\ ItemWritable(t, i)
          /\ locks' = [locks EXCEPT ![t].stock = @ \cup {i}]
    /\ UNCHANGED <<tables, tx, pc, req, todo, answer, counters, history>>

(* That done, the transaction has the new counts and keeps the locks.      *)
CompleteDeduct(t) ==
    /\ At(t, "deduct", "complete_order")
    /\ LET o == req[t].arg
           row == orders[o]
           R == locks[t].stock
       IN  \/ row = NoRow /\ Goto(t, "finish") /\ UNCHANGED tx
           \/ Refused(t) /\ Goto(t, "rollback") /\ UNCHANGED tx
           \/ /\ row # NoRow /\ ~Refused(t)
              /\ R \in OnePerDistributor(Ordered(row))
              /\ tx' = [tx EXCEPT
                    ![t].stock = [i \in R |-> Unsigned(AfterDeduction(row, i))],
                    ![t].items = Ordered(row),
                    ![t].lines = {o}]
              /\ Goto(t, "finish")
    /\ locks' = [locks EXCEPT ![t] = NoLocks]
    /\ UNCHANGED <<tables, req, todo, counters, history>>

(* ... and sets date_of_completion.                                        *)
CompleteFinish(t) ==
    /\ At(t, "finish", "complete_order")
    /\ OrderWritable(t, req[t].arg)
    /\ tx' = IF orders[req[t].arg] = NoRow THEN tx
             ELSE [tx EXCEPT ![t].orders =
                      [o \in {req[t].arg} |-> [orders[o] EXCEPT !.done = TRUE]]]
    /\ Goto(t, "commit")
    /\ UNCHANGED <<tables, locks, req, todo, counters, history>>

(* add_order, in a transaction.  The date of expiry is sent as the string  *)
(* 'FROM_UNIXTIME...', which is no date and which only a lax sql_mode      *)
(* accepts.                                                                *)
AddOrder(t) ==
    /\ At(t, "act", "add_order")
    /\ IF Strict \/ req[t].arg.tel \notin customers \/ next_order \notin OrderIds
         THEN /\ Goto(t, "rollback")
              /\ UNCHANGED <<next_order, tx, locks, todo>>
         ELSE /\ TelShareable(t, req[t].arg.tel)
              /\ next_order' = next_order + 1
              /\ tx' = [tx EXCEPT
                    ![t].orders = [o \in {next_order} |->
                        [tel |-> req[t].arg.tel, lines |-> [i \in Items |-> 0], done |-> FALSE]],
                    ![t].tels = {req[t].arg.tel},
                    ![t].seen = Stocked]
              /\ todo' = [todo EXCEPT ![t] = Ordered(req[t].arg)]
              /\ Goto(t, "line")
    /\ UNCHANGED <<users, customers, stock, orders, locks, req, counters, history>>

(* AddOrderedItem for each line, with the id insert_id() gave.  An id that *)
(* is not that of the new order breaks the foreign key.                    *)
AddOrderedItem(t) ==
    /\ At(t, "line", "add_order")
    /\ \E i \in todo[t] :
          IF i \notin tx[t].seen \/ ~IdAfterCall
            THEN /\ Goto(t, "rollback")
                 /\ UNCHANGED <<tx, locks, todo>>
            ELSE /\ ItemShareable(t, i)
                 /\ \E o \in DOMAIN tx[t].orders :
                       tx' = [tx EXCEPT ![t].orders[o].lines[i] = req[t].arg.lines[i],
                                        ![t].items = @ \cup {i}]
                 /\ todo' = [todo EXCEPT ![t] = @ \ {i}]
                 /\ Goto(t, IF todo[t] = {i} THEN "commit" ELSE "line")
    /\ UNCHANGED <<tables, locks, req, counters, history>>

(* tr.commit(), then the answer.                                           *)
CommitAndReply(t) ==
    /\ pc[t] = "commit"
    /\ Commit(t)
    /\ IF tx[t].stock = <<>>
         THEN UNCHANGED <<shipped, deductions>>
         ELSE /\ deductions' = [deductions EXCEPT ![req[t].arg] = @ + 1]
              /\ shipped' = [d \in Distributors |->
                               shipped[d] + LinesOf(orders[req[t].arg], d)]
    /\ Reply(t, "success")
    /\ UNCHANGED <<users, customers, next_order, locks, req, todo, counters, supplied>>

(* The COMMIT fails, which rolls the transaction back.  The handlers do    *)
(* not look at the result and answer all the same.                         *)
CommitFails(t) ==
    /\ pc[t] = "commit"
    /\ Fails(t)
    /\ Rollback(t)
    /\ Reply(t, "success")
    /\ todo' = [todo EXCEPT ![t] = {}]
    /\ UNCHANGED <<tables, locks, req, started, crashes, history>>

(* Mutant: the handler answers without tr.rollback().                      *)
RollbackForgotten(t) ==
    /\ pc[t] = "rollback"
    /\ Reply(t, "error")
    /\ todo' = [todo EXCEPT ![t] = {}]
    /\ UNCHANGED <<tables, tx, locks, req, counters, history>>

(* tr.rollback(), then the answer.                                         *)
RollbackAndReply(t) ==
    /\ pc[t] = "rollback"
    /\ Rollback(t)
    /\ Reply(t, "error")
    /\ todo' = [todo EXCEPT ![t] = {}]
    /\ UNCHANGED <<tables, locks, req, counters, history>>

-----------------------------------------------------------------------------
(* Mutant: the result of a statement in a transaction is not looked at.    *)
StatementFailsUnseen(t) ==
    /\ Fails(t)
    /\ pc[t] \in {"deduct", "finish", "line"}
    /\ Goto(t, "commit")
    /\ locks' = [locks EXCEPT ![t] = NoLocks]
    /\ UNCHANGED <<tables, tx, req, todo, started, crashes, history>>

(* Mutant: a failed statement is tried again, and the transaction keeps    *)
(* what it has locked.                                                     *)
StatementFailsAgain(t) ==
    /\ Fails(t)
    /\ pc[t] \in {"deduct", "finish", "line"}
    /\ UNCHANGED <<tables, tx, locks, pc, answer, req, todo, started, crashes, history>>

(* Where a handler looks at the result of a failed statement it answers    *)
(* with the error; one with a transaction rolls back first.                *)
StatementFails(t) ==
    /\ Fails(t)
    /\ \/ pc[t] \in {"check", "insert", "deduct", "finish", "line"}
       \/ pc[t] = "act" /\ req[t].op \in {"update_user", "create_user", "create_customer",
                                          "add_item", "complete_order", "add_order"}
    /\ IF req[t].op \in {"complete_order", "add_order"} /\ pc[t] # "check"
         THEN Goto(t, "rollback")
         ELSE Reply(t, "error")
    /\ locks' = [locks EXCEPT ![t] = NoLocks]
    /\ UNCHANGED <<tables, tx, req, todo, started, crashes, history>>

(* The process ends: every transaction is rolled back by the SQL server.   *)
Dies ==
    /\ crashes < MaxCrashes
    /\ crashes' = crashes + 1
    /\ pc' = [t \in Threads |-> "idle"]
    /\ answer' = [t \in Threads |-> "none"]
    /\ tx' = [t \in Threads |-> NoTx]
    /\ locks' = [t \in Threads |-> NoLocks]
    /\ todo' = [t \in Threads |-> {}]
    /\ UNCHANGED <<tables, req, started, history>>

(* A query without a result is serialised all the same, and that ends the  *)
(* process (an assertion or a null pointer).                               *)
GetFails(t) ==
    /\ pc[t] = "act"
    /\ req[t].op \in Lists \cup Reports
    /\ Fails(t)
    /\ Dies

(* The process may end at any time for another reason, like an exception   *)
(* that leaves a handler of Connection.                                    *)
ServerDies == Dies /\ Works

Act(t) ==
    \/ CheckUser(t) \/ Auth(t) \/ Get(t) \/ GetReport(t)
    \/ DeleteUser(t) \/ UpdateUser(t) \/ CreateUserSelect(t) \/ CreateUserInsert(t)
    \/ CreateCustomerSelect(t) \/ CreateCustomerInsert(t)
    \/ LockCustomer(t) \/ DeleteCustomer(t)
    \/ AddItem(t) \/ AddItemCount(t)
    \/ CompleteSelect(t) \/ CompleteRead(t) \/ CompleteShare(t) \/ CompleteWrite(t)
    \/ CompleteDeduct(t) \/ CompleteFinish(t)
    \/ AddOrder(t) \/ AddOrderedItem(t)
    \/ CommitAndReply(t) \/ CommitFails(t) \/ RollbackAndReply(t)
    \/ StatementFails(t) \/ GetFails(t)

Next == (\E t \in Threads : Receive(t) \/ Act(t)) \/ ServerDies

(* A thread that serves a request goes on with it; no client has to send   *)
(* another one.                                                            *)
Fairness == \A t \in Threads : WF_vars(Act(t))

Spec == Init /\ [][Next]_vars
FairSpec == Spec /\ Fairness

-----------------------------------------------------------------------------
TypeOK ==
    /\ users \in [Logins -> Ranks \cup {NoRow}]
    /\ customers \subseteq Tels
    /\ stock \in [Items -> Nat \cup {NoRow}]
    /\ orders \in [OrderIds -> OrderRows \cup {NoRow}]
    /\ next_order \in Nat
    /\ locks \in [Threads -> Locks]
    /\ \A t \in Threads :
          /\ pc[t] \in {"idle", "check", "act", "insert", "cascade", "deduct", "finish",
                       "line", "commit", "rollback"}
          /\ pc[t] # "idle" => req[t] \in RequestSet
          /\ todo[t] \subseteq Items
          /\ answer[t] \in {"none", "success", "error", "denied", "bad_config"}
          /\ pc[t] \in {"idle", "check", "act", "insert", "cascade", "deduct"} => tx[t] = NoTx
          /\ pc[t] \notin {"cascade", "deduct"} => locks[t] = NoLocks

(* No count is lost or made up: what came into the stock of a distributor  *)
(* is there or was taken by completed orders, however requests of several  *)
(* clients interleave, fail or die with the process (db.sql:223-263,       *)
(* Request.hpp:541-594).                                                   *)
StockConserved ==
    \A d \in Distributors : StockOf(d) + shipped[d] = supplied[d]

(* Whatever sql_mode the SQL server has, no count is lost: a lax one lets  *)
(* orders take more than there is, but never less than they say (db.sql:   *)
(* 223-263).                                                               *)
StockNotLost ==
    \A d \in Distributors : StockOf(d) + shipped[d] >= supplied[d]

(* complete_order is all or nothing: an order is marked completed exactly  *)
(* when its lines have left the stock (db.sql:248-263, Request.hpp:        *)
(* 575-588).                                                               *)
DoneIffDeducted ==
    \A o \in OrderIds : orders[o] # NoRow => (orders[o].done <=> deductions[o] > 0)

(* The lines of an order leave the stock once (the check at db.sql:250).   *)
DeductedOnce == \A o \in OrderIds : deductions[o] <= 1

(* An order is completed only if the stock has each of its items in the    *)
(* number ordered: otherwise the trigger complete_order_check raises       *)
(* 'NotEnoughItems' (db.sql:265-272).                                      *)
EnoughInStock ==
    \A o \in OrderIds : deductions'[o] > deductions[o] =>
        \A i \in Ordered(orders[o]) : orders[o].lines[i] <= stock[i]
EnoughItems == [][EnoughInStock]_vars

(* Every order belongs to a customer, also while customers are deleted     *)
(* during add_order (db.sql:43, 203-206, 238-246).                         *)
OrdersHaveCustomers ==
    \A o \in OrderIds : orders[o] # NoRow => orders[o].tel \in customers

(* add_order is all or nothing: an order appears with all the lines that   *)
(* were asked for, and its customer and lines never change afterwards      *)
(* (Request.hpp:633-681).                                                  *)
OrderAppearsWhole ==
    \A o \in OrderIds : orders'[o] # NoRow =>
        IF orders[o] # NoRow
          THEN orders'[o].lines = orders[o].lines /\ orders'[o].tel = orders[o].tel
          ELSE \E t \in Threads :
                  /\ req[t].op = "add_order"
                  /\ orders'[o].lines = req[t].arg.lines
                  /\ orders'[o].tel = req[t].arg.tel
OrdersWhole == [][OrderAppearsWhole]_vars

(* An account that exists is never overwritten by create_user, although    *)
(* the look and the insert are two statements (db.sql:170-181).            *)
AccountKept ==
    \A l \in Logins : users[l] # NoRow /\ users'[l] # users[l] =>
        \E t \in Threads :
            /\ pc[t] = "act"
            /\ \/ req[t].op = "delete_user" /\ req[t].arg = l
               \/ req[t].op = "update_user" /\ req[t].arg.login = l
AccountsKept == [][AccountKept]_vars

(* The answer "success" to a request that creates or completes something   *)
(* is true when it is given: the row is new, or the order is completed (or *)
(* there is none with that id).  One case excepted, which is not looked at *)
(* by the code (Request.hpp:585-586, 680-681): the COMMIT itself failed    *)
(* (Request.hpp:428-434, 475-481, 576-588, 633-681).                       *)
CommitFailed(t) == pc[t] = "commit" /\ failures' = failures + 1
SuccessTrue ==
    \A t \in Threads : pc[t] # "idle" /\ pc'[t] = "idle" /\ answer'[t] = "success" =>
        CASE req[t].op = "create_user" ->
               users[req[t].arg.login] = NoRow /\ users'[req[t].arg.login] = req[t].arg.rank
          [] req[t].op = "create_customer" ->
               req[t].arg \notin customers /\ req[t].arg \in customers'
          [] req[t].op = "complete_order" ->
               \/ CommitFailed(t)
               \/ orders'[req[t].arg] # NoRow => orders'[req[t].arg].done
          [] req[t].op = "add_order" ->
               \/ CommitFailed(t)
               \/ \E o \in OrderIds : orders[o] = NoRow /\ orders'[o] # NoRow
          [] OTHER -> TRUE
SuccessIsTrue == [][SuccessTrue]_vars

(* The tables as the shop sees them.                                       *)
ShopRows == [tel : Tels, need : [Distributors -> Nat], done : BOOLEAN]
ASSUME ShopRowAssumption == NoRow \notin ShopRows

ShopRow(row) ==
    IF row = NoRow THEN NoRow
    ELSE [tel  |-> row.tel,
          need |-> [d \in Distributors |-> LinesOf(row, d)],
          done |-> row.done]

(* The counts that clients add to the stock.                               *)
Counts == {r.arg.count : r \in {q \in RequestSet : q.op \in {"add_item", "add_item_count"}}}

OneThread == \A t, u \in Threads : t = u

Promise == INSTANCE Shop WITH
    orders <- [o \in OrderIds |-> ShopRow(orders[o])],
    total  <- [d \in Distributors |-> StockOf(d)],
    Exact  <- Strict,
    Once   <- OneThread

(* Whoever looks at the customers, the orders and the stock sees requests  *)
(* served one by one, each as a whole or not at all, although they are     *)
(* several statements each, interleave and fail: Requests implements Shop. *)
(* An order is completed only with enough from each of its distributors if *)
(* the SQL server is strict, and once if one thread serves                 *)
(* (Request.hpp:460-681, db.sql:193-272).                                  *)
ImplementsShop == Promise!Spec

(* Every request is answered, or the process dies: no handler waits for    *)
(* ever for rows another one has locked.                                   *)
Answered == \A t \in Threads : (pc[t] # "idle") ~> (pc[t] = "idle")
=============================================================================
