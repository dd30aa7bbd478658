------------------------------ MODULE Database ------------------------------
(***************************************************************************)
(* The tables of src/db.sql, and what the SQL server (MariaDB with InnoDB  *)
(* tables and its default isolation, REPEATABLE READ) does with them: row  *)
(* locks, the uncommitted rows of a transaction, commit and rollback.      *)
(*                                                                         *)
(* The tables below hold committed rows.  A plain SELECT reads those and   *)
(* takes no lock.  INSERT, UPDATE, DELETE and the checks of foreign keys   *)
(* take locks and work on the newest rows, so they wait while another      *)
(* transaction has the row.  Outside a transaction each statement, those   *)
(* of a procedure too, commits at once.                                    *)
(***************************************************************************)
EXTENDS Integers, FiniteSets

CONSTANTS
    Threads,        \* server threads, each with a mysqlpp::Connection of its own
    Logins,         \* keys of User
    Tels,           \* keys of Customer
    Items,          \* keys of Item
    Distributor,    \* the distributor_id of each item
    OrderIds,       \* keys of NewOrder, handed out in ascending order
    NoRow,          \* not a row
    FirstUsers,     \* the rows the tables start with
    FirstTels,
    FirstStock,
    FirstOrders

Ranks == {"Admin", "Employee", "Accountant"}
Lines == [Items -> Nat]
OrderRows == [tel : Tels, lines : Lines, done : BOOLEAN]

ASSUME OrderIdsAssumption == IsFiniteSet(OrderIds) /\ OrderIds = 1..Cardinality(OrderIds)
ASSUME ItemsAssumption == IsFiniteSet(Items)
ASSUME NoRowAssumption == NoRow \notin Ranks \cup Nat \cup OrderRows

ASSUME FirstRowsAssumption ==
    /\ FirstUsers \in [Logins -> Ranks \cup {NoRow}]
    /\ FirstTels \subseteq Tels
    /\ FirstStock \in [Items -> Nat \cup {NoRow}]
    /\ FirstOrders \in [OrderIds -> OrderRows \cup {NoRow}]

FirstIds == {o \in OrderIds : FirstOrders[o] # NoRow}

(* The first orders have the first keys, lines for items there are, and    *)
(* customers.                                                              *)
ASSUME FirstOrdersAssumption ==
    /\ FirstIds = 1..Cardinality(FirstIds)
    /\ \A o \in FirstIds :
          /\ FirstOrders[o].tel \in FirstTels
          /\ \E i \in Items : FirstOrders[o].lines[i] > 0
          /\ \A i \in Items : FirstOrders[o].lines[i] > 0 => FirstStock[i] # NoRow

VARIABLES
    users,          \* User: the rank of each login
    customers,      \* Customer: the telephones
    stock,          \* Item: count_on_warehouse
    orders,         \* NewOrder with its rows of OrderedItem
    next_order,     \* the AUTO_INCREMENT of NewOrder
    tx,             \* the transaction of each thread
    locks           \* what its present statement has locked so far

tables == <<users, customers, stock, orders, next_order>>

(* The rows a transaction has written, which it holds exclusively, and the *)
(* rows it has only read with a lock.                                      *)
NoTx == [stock  |-> <<>>,   \* Item rows written
         orders |-> <<>>,   \* NewOrder rows written, with their OrderedItem
         tels   |-> {},     \* Customer rows referred to
         items  |-> {},     \* Item rows referred to
         lines  |-> {},     \* orders whose OrderedItem rows were read
         seen   |-> {}]     \* the items of its snapshot

(* A statement on several rows locks them one after the other; what a      *)
(* transaction has locked stays locked until it ends.                      *)
NoLocks == [lines  |-> {},   \* orders whose OrderedItem rows it reads
            items  |-> {},   \* Item rows it has read
            picked |-> {},   \* Item rows it is going to write ...
            stock  |-> {},   \* ... and those of them it has locked for that
            tels   |-> {}]   \* Customer rows it deletes, with their NewOrder rows

Locks == [lines : SUBSET OrderIds, items : SUBSET Items, picked : SUBSET Items,
          stock : SUBSET Items, tels : SUBSET Tels]

DatabaseInit ==
    /\ users = FirstUsers
    /\ customers = FirstTels
    /\ stock = FirstStock
    /\ orders = FirstOrders
    /\ next_order = Cardinality(FirstIds) + 1
    /\ tx = [t \in Threads |-> NoTx]
    /\ locks = [t \in Threads |-> NoLocks]

Stocked == {i \in Items : stock[i] # NoRow}
Ordered(row) == {i \in Items : row.lines[i] > 0}

Others(t) == Threads \ {t}

SharedItems(u) == tx[u].items \cup locks[u].items
WrittenItems(u) == DOMAIN tx[u].stock \cup locks[u].stock

(* May t read the item under a lock; may it write the item?                *)
ItemShareable(t, i) == \A u \in Others(t) : i \notin WrittenItems(u)
ItemWritable(t, i) == ItemShareable(t, i) /\ \A u \in Others(t) : i \notin SharedItems(u)

(* Does u keep the order from being changed; does it read lines of an      *)
(* order of the customer?                                                  *)
LocksOrder(u, o) ==
    \/ o \in DOMAIN tx[u].orders
    \/ orders[o] # NoRow /\ orders[o].tel \in locks[u].tels
ReadsLines(u, c) ==
    \E o \in tx[u].lines \cup locks[u].lines : orders[o] # NoRow /\ orders[o].tel = c

OrderWritable(t, o) == \A u \in Others(t) : ~LocksOrder(u, o)

(* May t refer to the customer; may it lock the customer and its orders;   *)
(* may it delete them, with the lines of the orders?                       *)
TelShareable(t, c) == \A u \in Others(t) : c \notin locks[u].tels
TelWritable(t, c) ==
    /\ TelShareable(t, c)
    /\ \A u \in Others(t) :
          /\ c \notin tx[u].tels
          /\ \A o \in DOMAIN tx[u].orders : orders[o] # NoRow => orders[o].tel # c
TelDeletable(t, c) == TelWritable(t, c) /\ \A u \in Others(t) : ~ReadsLines(u, c)

(* The rows of a table where some have been written.                       *)
Over(written, rows) ==
    [k \in DOMAIN rows |-> IF k \in DOMAIN written THEN written[k] ELSE rows[k]]

Commit(t) ==
    /\ stock' = Over(tx[t].stock, stock)
    /\ orders' = Over(tx[t].orders, orders)
    /\ tx' = [tx EXCEPT ![t] = NoTx]

Rollback(t) == tx' = [tx EXCEPT ![t] = NoTx]
=============================================================================
