----------------------------- MODULE StockProofs -----------------------------
(***************************************************************************)
(* Proofs about the stock in Requests: what complete_order takes from it   *)
(* and what add_item and add_item_count put in, for any items, orders and  *)
(* threads.  IInv of RequestsProofs says what the transactions do to the   *)
(* orders; SInv adds what they do to the stock.                            *)
(***************************************************************************)
EXTENDS RequestsProofs, SumTheorems

StockTyped ==
    /\ stock \in [Items -> Nat \cup {NoRow}]
    /\ supplied \in [Distributors -> Int]
    /\ shipped \in [Distributors -> Int]

(* Only two statements lock row by row; a thread elsewhere has no locks    *)
(* but those of its transaction.                                           *)
LocksTyped ==
    /\ locks \in [Threads -> Locks]
    /\ \A t \in Threads : pc[t] \notin {"cascade", "deduct"} => locks[t] = NoLocks

(* There is a row for each item that was ordered.                          *)
LinesStocked ==
    \A o \in OrderIds : orders[o] # NoRow => Ordered(orders[o]) \subseteq Stocked

(* add_order adds lines for items there are.                               *)
AddsStocked(t) ==
    /\ tx[t].seen \subseteq Stocked
    /\ pc[t] \in {"line", "commit"} /\ req[t].op = "add_order" =>
          Ordered(req[t].arg) \ todo[t] \subseteq Stocked

(* A transaction writes counts to rows there are.                          *)
WritesStocked(t) ==
    /\ DOMAIN tx[t].stock \subseteq Stocked
    /\ \A i \in DOMAIN tx[t].stock : tx[t].stock[i] \in Nat

(* What complete_order is going to commit: for each distributor of the     *)
(* order, the count of one item, less all the lines of that distributor.   *)
(* The count is right still, since nobody else changes a locked row.       *)
Takes(t) ==
    pc[t] \in {"finish", "commit"} /\ req[t].op = "complete_order" /\ tx[t].stock # <<>> =>
        /\ orders[req[t].arg] # NoRow
        /\ DOMAIN tx[t].stock \in OnePerDistributor(Ordered(orders[req[t].arg]))
        /\ \A i \in DOMAIN tx[t].stock :
              /\ tx[t].stock[i] = Unsigned(AfterDeduction(orders[req[t].arg], i))
              /\ Strict => ~(AfterDeduction(orders[req[t].arg], i) < 0)

(* No two threads have locked an item to write it.                         *)
StockApart(t, u) == t # u => WrittenItems(t) \cap WrittenItems(u) = {}

EachStocked ==
    \A t \in Threads :
        AddsStocked(t) /\ WritesStocked(t) /\ Takes(t) /\ \A u \in Threads : StockApart(t, u)

SInv == StockTyped /\ LocksTyped /\ LinesStocked /\ EachStocked

(* The accounts, and what a handler that looks before it inserts has seen. *)
AInv ==
    /\ users \in [Logins -> Ranks \cup {NoRow}]
    /\ customers \subseteq Tels
    /\ answer \in [Threads -> {"none", "success", "error", "denied", "bad_config"}]
    /\ \A t \in Threads : pc[t] = "insert" =>
          /\ req[t].op \in {"create_user", "create_customer"}
          /\ req[t].op = "create_user" => req[t].arg.rank \in Ranks

-----------------------------------------------------------------------------
LEMMA NoCounts ==
    /\ NoTx.stock = <<>> /\ DOMAIN NoTx.stock = {} /\ NoTx.seen = {}
    /\ \A s, o, c, i, l, n : /\ Record(s, o, c, i, l, n).stock = s
                             /\ Record(s, o, c, i, l, n).lines = l
                             /\ Record(s, o, c, i, l, n).seen = n
  BY DEF NoTx, Record

(* A step of one thread leaves what the others serve and hold alone.       *)
LEMMA MovesAlone ==
    ASSUME IInv, NEW t \in Threads, Moves(t), NEW u \in Threads, u # t
    PROVE  Untouched(u)
<1>0. tx = [v \in Threads |-> tx[v]] /\ pc \in [Threads -> Labels]
      /\ req = [v \in Threads |-> req[v]] /\ todo = [v \in Threads |-> todo[v]]
  BY DEF IInv, Shaped, Typed
<1>1. CASE Receive(t) \/ Quiet(t) \/ Deletes(t) \/ GivesUp(t) \/ LocksMore(t)
  BY <1>0, <1>1 DEF Receive, Quiet, Deletes, GivesUp, LocksMore, Untouched
<1>2. CASE CompleteSelect(t)
  BY <1>0, <1>2, Selected DEF Untouched
<1>3. CASE CompleteDeduct(t)
  <2>1. /\ \E l : pc' = [pc EXCEPT ![t] = l]
        /\ tx' = tx \/ \E x : tx' = [tx EXCEPT ![t] = x]
        /\ UNCHANGED <<req, todo>>
    BY <1>3, Deducted
  <2> QED
    BY <1>0, <2>1 DEF Untouched
<1>4. CASE CompleteFinish(t)
  <2>1. /\ pc' = [pc EXCEPT ![t] = "commit"]
        /\ tx' = tx \/ \E x : tx' = [tx EXCEPT ![t] = x]
        /\ UNCHANGED <<req, todo>>
    BY <1>4, Finished
  <2> QED
    BY <1>0, <2>1 DEF Untouched
<1>5. CASE AddOrder(t)
  <2>1. /\ \E l : pc' = [pc EXCEPT ![t] = l]
        /\ tx' = tx \/ \E x : tx' = [tx EXCEPT ![t] = x]
        /\ todo' = todo \/ \E x : todo' = [todo EXCEPT ![t] = x]
        /\ req' = req
    BY <1>5, OrderAdded
  <2> QED
    BY <1>0, <2>1 DEF Untouched
<1>6. CASE AddOrderedItem(t)
  <2>1. /\ \E l : pc' = [pc EXCEPT ![t] = l]
        /\ tx' = tx \/ \E x : tx' = [tx EXCEPT ![t] = x]
        /\ todo' = todo \/ \E x : todo' = [todo EXCEPT ![t] = x]
        /\ req' = req
    BY <1>6, LineAdded
  <2> QED
    BY <1>0, <2>1 DEF Untouched
<1>7. CASE CommitAndReply(t)
  BY <1>0, <1>7, Committed DEF Untouched
<1>8. CASE Reverts(t)
  BY <1>0, <1>8 DEF Reverts, Untouched
<1> QED
  BY <1>1, <1>2, <1>3, <1>4, <1>5, <1>6, <1>7, <1>8 DEF Moves

(* Which requests change the tables, and the counts in particular.         *)
LEMMA TableMoves ==
    ASSUME Next
    PROVE  \/ UNCHANGED <<customers, orders, stock, supplied, shipped>>
           \/ \E t \in Threads : \/ AddItem(t) \/ AddItemCount(t) \/ CreateCustomerInsert(t)
                                 \/ DeleteCustomer(t) \/ CommitAndReply(t)
<1> DEFINE Nothing == UNCHANGED <<customers, orders, stock, supplied, shipped>>
<1>1. CASE ServerDies
  BY <1>1 DEF ServerDies, Dies, tables, history
<1>2. ASSUME NEW t \in Threads, Receive(t) \/ Act(t),
             ~AddItem(t), ~AddItemCount(t), ~CreateCustomerInsert(t),
             ~DeleteCustomer(t), ~CommitAndReply(t)
      PROVE  Nothing
  <2>1. CASE Receive(t) \/ CheckUser(t) \/ Auth(t) \/ Get(t) \/ GetReport(t)
             \/ CreateUserSelect(t) \/ CreateCustomerSelect(t) \/ LockCustomer(t)
    BY <2>1 DEF Receive, CheckUser, Auth, Get, GetReport, CreateUserSelect,
                CreateCustomerSelect, LockCustomer, tables, history
  <2>2. CASE DeleteUser(t) \/ UpdateUser(t) \/ CreateUserInsert(t)
    BY <2>2 DEF DeleteUser, UpdateUser, CreateUserInsert, history
  <2>3. CASE CompleteSelect(t) \/ CompleteRead(t) \/ CompleteShare(t) \/ CompleteWrite(t)
    BY <2>3 DEF CompleteSelect, CompleteRead, CompleteShare, CompleteWrite, tables, history
  <2>4. CASE CompleteDeduct(t) \/ CompleteFinish(t) \/ AddOrder(t) \/ AddOrderedItem(t)
    BY <2>4 DEF CompleteDeduct, CompleteFinish, AddOrder, AddOrderedItem, tables, history
  <2>5. CASE CommitFails(t) \/ RollbackAndReply(t) \/ StatementFails(t) \/ GetFails(t)
    BY <2>5 DEF CommitFails, RollbackAndReply, StatementFails, GetFails, Dies, tables, history
  <2> QED
    BY <1>2, <2>1, <2>2, <2>3, <2>4, <2>5 DEF Act
<1> QED
  BY <1>1, <1>2 DEF Next

LEMMA StockMoves ==
    ASSUME Next
    PROVE  \/ UNCHANGED <<stock, supplied, shipped>>
           \/ \E t \in Threads : AddItem(t) \/ AddItemCount(t) \/ CommitAndReply(t)
<1>1. ASSUME NEW t \in Threads, CreateCustomerInsert(t) \/ DeleteCustomer(t)
      PROVE  UNCHANGED <<stock, supplied, shipped>>
  BY <1>1 DEF CreateCustomerInsert, DeleteCustomer, history
<1> QED
  BY <1>1, TableMoves

-----------------------------------------------------------------------------
(* What assignments to the locks of a statement give.                      *)
LEMMA SetLocks ==
    ASSUME NEW l \in Locks, NEW S
    PROVE  /\ S \subseteq Items => [l EXCEPT !.stock = S] \in Locks
           /\ S \subseteq Items => [l EXCEPT !.items = S] \in Locks
           /\ S \subseteq Tels => [l EXCEPT !.tels = S] \in Locks
           /\ [l EXCEPT !.stock = S].stock = S
           /\ [l EXCEPT !.items = S].stock = l.stock
           /\ [l EXCEPT !.tels = S].stock = l.stock
  BY DEF Locks

LEMMA SetRead ==
    ASSUME NEW l \in Locks, NEW S \in SUBSET OrderIds, NEW R \in SUBSET Items
    PROVE  /\ [[l EXCEPT !.lines = S] EXCEPT !.picked = R] \in Locks
           /\ [[l EXCEPT !.lines = S] EXCEPT !.picked = R].stock = l.stock
<1> DEFINE k == [l EXCEPT !.lines = S]
<1>1. k \in Locks /\ k.stock = l.stock
  BY DEF Locks
<1> HIDE DEF k
<1>2. [k EXCEPT !.picked = R] \in Locks /\ [k EXCEPT !.picked = R].stock = k.stock
  BY <1>1 DEF Locks
<1> QED
  BY <1>1, <1>2 DEF k

LEMMA NoLocksIs == NoLocks \in Locks /\ NoLocks.stock = {}
  BY DEF NoLocks, Locks

(* A step of one thread leaves the locks of the others alone, and locks    *)
(* an item for writing only if nobody else has it.                         *)
LockedMore(t) ==
    /\ locks' \in [Threads -> Locks]
    /\ \A u \in Threads \ {t} : locks'[u] = locks[u]
    /\ pc'[t] \notin {"cascade", "deduct"} => locks'[t] = NoLocks
    /\ \A i \in locks'[t].stock \ locks[t].stock : ItemWritable(t, i)

LEMMA LockMoves ==
    ASSUME IInv, LocksTyped, NEW t \in Threads, Receive(t) \/ Act(t), ~Dies
    PROVE  LockedMore(t)
<1>0. /\ locks \in [Threads -> Locks] /\ pc \in [Threads -> Labels]
      /\ pc[t] \notin {"cascade", "deduct"} => locks[t] = NoLocks
      /\ pc[t] # "idle" => req[t] \in RequestSet
  BY DEF LocksTyped, IInv, Typed, Each, Placed
<1>1. ASSUME UNCHANGED locks, pc[t] \notin {"cascade", "deduct"}
      PROVE  LockedMore(t)
  BY <1>0, <1>1, NoLocksIs DEF LockedMore
<1>2. ASSUME locks' = [locks EXCEPT ![t] = NoLocks]
      PROVE  LockedMore(t)
  BY <1>0, <1>2, NoLocksIs DEF LockedMore
<1>3. CASE Receive(t) \/ CheckUser(t) \/ Auth(t) \/ Get(t) \/ GetReport(t)
           \/ DeleteUser(t) \/ UpdateUser(t) \/ CreateUserSelect(t)
           \/ CreateCustomerSelect(t)
  BY <1>1, <1>3 DEF Receive, CheckUser, Auth, Get, GetReport, DeleteUser, UpdateUser,
                    CreateUserSelect, CreateCustomerSelect, At
<1>4. CASE CreateUserInsert(t) \/ CreateCustomerInsert(t) \/ AddItem(t) \/ AddItemCount(t)
           \/ CompleteSelect(t) \/ CompleteFinish(t)
  BY <1>1, <1>4 DEF CreateUserInsert, CreateCustomerInsert, AddItem, AddItemCount,
                    CompleteSelect, CompleteFinish, At
<1>5. CASE AddOrder(t) \/ AddOrderedItem(t) \/ CommitAndReply(t) \/ CommitFails(t)
           \/ RollbackAndReply(t)
  BY <1>1, <1>5 DEF AddOrder, AddOrderedItem, CommitAndReply, CommitFails, RollbackAndReply, At
<1>6. CASE DeleteCustomer(t) \/ CompleteDeduct(t) \/ StatementFails(t)
  BY <1>2, <1>6 DEF DeleteCustomer, CompleteDeduct, StatementFails
<1>7. CASE LockCustomer(t)
  <2>1. CASE UNCHANGED locks
    BY <1>1, <1>7, <2>1 DEF LockCustomer, At
  <2>2. CASE ~UNCHANGED locks
    <3>1. /\ locks' = [locks EXCEPT ![t].tels = {req[t].arg}]
          /\ pc' = [pc EXCEPT ![t] = "cascade"]
      BY <1>7, <2>2 DEF LockCustomer, Goto
    <3>2. {req[t].arg} \subseteq Tels
      BY <1>0, <1>7, RequestsAssumption DEF LockCustomer, At
    <3>3. locks' = [locks EXCEPT ![t] = [locks[t] EXCEPT !.tels = {req[t].arg}]]
      BY <3>1
    <3>4. /\ [locks[t] EXCEPT !.tels = {req[t].arg}] \in Locks
          /\ [locks[t] EXCEPT !.tels = {req[t].arg}].stock = locks[t].stock
      BY <1>0, <3>2, SetLocks
    <3> QED
      BY <1>0, <3>1, <3>3, <3>4 DEF LockedMore
  <2> QED
    BY <2>1, <2>2
<1>8. CASE CompleteRead(t)
  <2>1. PICK R \in OnePerDistributor(Ordered(orders[req[t].arg])) :
           locks' = [locks EXCEPT ![t].lines = {req[t].arg}, ![t].picked = R]
    BY <1>8 DEF CompleteRead
  <2>2. R \in SUBSET Items /\ {req[t].arg} \in SUBSET OrderIds
        /\ pc[t] = "deduct" /\ pc' = pc
    BY <1>0, <1>8, RequestsAssumption DEF CompleteRead, At, OnePerDistributor, Ordered
  <2>3. locks' = [locks EXCEPT ![t] =
                     [[locks[t] EXCEPT !.lines = {req[t].arg}] EXCEPT !.picked = R]]
    BY <2>1
  <2>4. /\ [[locks[t] EXCEPT !.lines = {req[t].arg}] EXCEPT !.picked = R] \in Locks
        /\ [[locks[t] EXCEPT !.lines = {req[t].arg}] EXCEPT !.picked = R].stock =
              locks[t].stock
    BY <1>0, <2>2, SetRead
  <2> QED
    BY <1>0, <2>2, <2>3, <2>4 DEF LockedMore
<1>9. CASE CompleteShare(t)
  <2>1. PICK i \in Unread(t) : locks' = [locks EXCEPT ![t].items = @ \cup {i}]
    BY <1>9 DEF CompleteShare
  <2> DEFINE S == locks[t].items \cup {i}
  <2>2. S \subseteq Items /\ pc[t] = "deduct" /\ pc' = pc
    BY <1>0, <1>9 DEF CompleteShare, At, Unread, Ordered, Locks
  <2>3. locks' = [locks EXCEPT ![t] = [locks[t] EXCEPT !.items = S]]
    BY <2>1
  <2>4. /\ [locks[t] EXCEPT !.items = S] \in Locks
        /\ [locks[t] EXCEPT !.items = S].stock = locks[t].stock
    BY <1>0, <2>2, SetLocks
  <2> QED
    BY <1>0, <2>2, <2>3, <2>4 DEF LockedMore
<1>10. CASE CompleteWrite(t)
  <2>1. PICK i \in Unwritten(t) :
           ItemWritable(t, i) /\ locks' = [locks EXCEPT ![t].stock = @ \cup {i}]
    BY <1>10 DEF CompleteWrite
  <2> DEFINE S == locks[t].stock \cup {i}
  <2>2. S \subseteq Items /\ pc[t] = "deduct" /\ pc' = pc
    BY <1>0, <1>10 DEF CompleteWrite, At, Unwritten, Locks
  <2>3. locks' = [locks EXCEPT ![t] = [locks[t] EXCEPT !.stock = S]]
    BY <2>1
  <2>4. /\ [locks[t] EXCEPT !.stock = S] \in Locks
        /\ [locks[t] EXCEPT !.stock = S].stock = S
    BY <1>0, <2>2, SetLocks
  <2> QED
    BY <1>0, <2>1, <2>2, <2>3, <2>4 DEF LockedMore
<1>11. ~GetFails(t)
  BY DEF GetFails
<1> QED
  BY <1>3, <1>4, <1>5, <1>6, <1>7, <1>8, <1>9, <1>10, <1>11 DEF Act

LEMMA StepLocksTyped ==
    ASSUME IInv, LocksTyped, [Next]_vars
    PROVE  LocksTyped'
<1>1. CASE UNCHANGED vars
  BY <1>1 DEF LocksTyped, vars
<1>2. CASE Dies
  BY <1>2, NoLocksIs DEF Dies, LocksTyped
<1>3. ASSUME NEW t \in Threads, Receive(t) \/ Act(t), ~Dies
      PROVE  LocksTyped'
  <2>1. LockedMore(t)
    BY <1>3, LockMoves
  <2>2. CASE Restarts
    BY <2>2, NoLocksIs DEF Restarts, LocksTyped
  <2>3. CASE Moves(t)
    <3>1. \A u \in Threads \ {t} : Untouched(u)
      BY <2>3, MovesAlone
    <3> QED
      BY <2>1, <3>1 DEF LockedMore, LocksTyped, Untouched
  <2> QED
    BY <1>3, <2>2, <2>3, ThreadSteps
<1> QED
  BY <1>1, <1>2, <1>3 DEF Next, ServerDies

(* What add_item and add_item_count do to the stock, if anything: they add *)
(* what the request says to one item, which then has a row, and count it   *)
(* as supplied.  A negative count of a new item counts for nothing.        *)
Supplied(i, n) ==
    /\ i \in Items /\ n \in Int
    /\ stock' = [stock EXCEPT ![i] = n]
    /\ n >= 0
    /\ supplied' = [supplied EXCEPT ![Distributor[i]] =
                       @ + n - (IF stock[i] = NoRow THEN 0 ELSE stock[i])]
    /\ n - (IF stock[i] = NoRow THEN 0 ELSE stock[i]) \in Counts \cup {0}
    /\ \A u \in Threads : i \notin DOMAIN tx[u].stock
    /\ UNCHANGED <<shipped, orders, tx>>

LEMMA ItemAdded ==
    ASSUME IInv, SInv, NEW t \in Threads, AddItem(t) \/ AddItemCount(t)
    PROVE  UNCHANGED <<stock, supplied, shipped>> \/ \E i, n : Supplied(i, n)
<1>0. /\ pc[t] = "act" /\ req[t] \in RequestSet /\ tx[t] = NoTx
      /\ UNCHANGED <<shipped, orders, tx>>
  BY DEF AddItem, AddItemCount, At, IInv, Each, Placed
<1>1. /\ stock \in [Items -> Nat \cup {NoRow}]
      /\ supplied \in [Distributors -> Int]
      /\ \A u \in Threads : DOMAIN tx[u].stock \subseteq Stocked
  BY DEF SInv, StockTyped, EachStocked, WritesStocked
<1>2. CASE AddItem(t)
  <2> DEFINE i == req[t].arg.item
             n == Unsigned(req[t].arg.count)
  <2>1. i \in Items /\ n \in Int /\ n >= 0
    BY <1>0, <1>2, RequestsAssumption DEF AddItem, At, Unsigned
  <2>2. CASE stock' # stock
    <3>1. /\ stock[i] = NoRow
          /\ stock' = [stock EXCEPT ![i] = n]
          /\ supplied' = [supplied EXCEPT ![Distributor[i]] = @ + n]
      BY <1>2, <2>2 DEF AddItem
    <3>2. \A u \in Threads : i \notin DOMAIN tx[u].stock
      BY <1>1, <3>1 DEF Stocked
    <3>3. Distributor[i] \in Distributors
      BY <2>1 DEF Distributors
    <3>4. supplied[Distributor[i]] + n - 0 = supplied[Distributor[i]] + n
      BY <1>1, <2>1, <3>3
    <3>5. supplied' = [supplied EXCEPT ![Distributor[i]] =
                          @ + n - (IF stock[i] = NoRow THEN 0 ELSE stock[i])]
      BY <3>1, <3>4
    <3>6. n - (IF stock[i] = NoRow THEN 0 ELSE stock[i]) \in Counts \cup {0}
      <4>1. n \in Counts \cup {0}
        BY <1>0, <1>2 DEF AddItem, At, Counts, Unsigned
      <4>2. n - 0 = n
        BY <2>1
      <4> QED
        BY <3>1, <4>1, <4>2
    <3>7. Supplied(i, n)
      BY <1>0, <2>1, <3>1, <3>2, <3>5, <3>6 DEF Supplied
    <3> QED
      BY <3>7
  <2>3. CASE stock' = stock
    <3>1. ~(stock[i] = NoRow /\ stock' = [stock EXCEPT ![i] = n])
      BY <1>1, <2>1, <2>3, NoRowAssumption
    <3> QED
      BY <1>0, <1>2, <3>1 DEF AddItem
  <2> QED
    BY <2>2, <2>3
<1>3. CASE AddItemCount(t)
  <2> DEFINE i == req[t].arg.item
             n == req[t].arg.count
  <2>1. i \in Items /\ n \in Int
    BY <1>0, <1>3, RequestsAssumption DEF AddItemCount, At
  <2>2. CASE stock' # stock
    <3>1. /\ ItemWritable(t, i) /\ stock[i] # NoRow /\ stock[i] + n >= 0
          /\ stock' = [stock EXCEPT ![i] = @ + n]
          /\ supplied' = [supplied EXCEPT ![Distributor[i]] = @ + n]
      BY <1>3, <2>2 DEF AddItemCount
    <3>2. \A u \in Threads : i \notin DOMAIN tx[u].stock
      BY <1>0, <3>1, NoCounts DEF ItemWritable, ItemShareable, WrittenItems, Others
    <3>3. Distributor[i] \in Distributors /\ stock[i] \in Nat
      BY <1>1, <2>1, <3>1 DEF Distributors
    <3>4. /\ supplied[Distributor[i]] + (stock[i] + n) - stock[i] = supplied[Distributor[i]] + n
          /\ stock[i] + n \in Int
      BY <1>1, <2>1, <3>3
    <3>5. supplied' = [supplied EXCEPT ![Distributor[i]] =
                          @ + (stock[i] + n) - (IF stock[i] = NoRow THEN 0 ELSE stock[i])]
      BY <3>1, <3>4
    <3>6. (stock[i] + n) - (IF stock[i] = NoRow THEN 0 ELSE stock[i]) \in Counts \cup {0}
      <4>1. n \in Counts
        BY <1>0, <1>3 DEF AddItemCount, At, Counts
      <4>2. (stock[i] + n) - stock[i] = n
        BY <2>1, <3>3
      <4> QED
        BY <3>1, <4>1, <4>2
    <3>7. Supplied(i, stock[i] + n)
      BY <1>0, <2>1, <3>1, <3>2, <3>4, <3>5, <3>6 DEF Supplied
    <3> QED
      BY <3>7
  <2>3. CASE stock' = stock
    <3>1. CASE UNCHANGED supplied
      BY <1>0, <2>3, <3>1
    <3>2. CASE ~UNCHANGED supplied
      <4>1. /\ ItemWritable(t, i) /\ stock[i] # NoRow /\ stock[i] + n >= 0
            /\ stock' = [stock EXCEPT ![i] = @ + n]
            /\ supplied' = [supplied EXCEPT ![Distributor[i]] = @ + n]
        BY <1>3, <3>2 DEF AddItemCount
      <4>2. stock[i] \in Nat /\ stock[i] + n = stock[i]
        BY <1>1, <2>1, <2>3, <4>1
      <4>3. n = 0
        BY <2>1, <4>2
      <4>4. supplied' = supplied
        <5>1. Distributor[i] \in Distributors
          BY <2>1 DEF Distributors
        <5>2. supplied[Distributor[i]] + n = supplied[Distributor[i]]
          BY <1>1, <4>3, <5>1
        <5> QED
          BY <1>1, <4>1, <5>2
      <4> QED
        BY <3>2, <4>4
    <3> QED
      BY <3>1, <3>2
  <2> QED
    BY <2>2, <2>3
<1> QED
  BY <1>2, <1>3

-----------------------------------------------------------------------------
(* The lines of a distributor add up to a count.                           *)
LEMMA LinesCounted ==
    ASSUME NEW row \in OrderRows, NEW d
    PROVE  LinesOf(row, d) \in Nat
<1>1. IsFiniteSet({i \in Items : Distributor[i] = d})
  BY ItemsAssumption, FS_Subset
<1>2. \A i \in {j \in Items : Distributor[j] = d} : row.lines[i] \in Nat
  BY DEF OrderRows, Lines
<1> QED
  BY <1>1, <1>2, SumType DEF LinesOf

(* complete_order commits the counts it has written; add_order has written *)
(* none.                                                                   *)
LEMMA CountsCommitted ==
    ASSUME IInv, SInv, NEW t \in Threads, CommitAndReply(t)
    PROVE  \/ UNCHANGED <<stock, supplied, shipped>>
           \/ /\ pc[t] = "commit" /\ req[t].op = "complete_order" /\ tx[t].stock # <<>>
              /\ orders[req[t].arg] \in OrderRows
              /\ stock' = [i \in Items |-> IF i \in DOMAIN tx[t].stock THEN tx[t].stock[i]
                                           ELSE stock[i]]
              /\ shipped' = [d \in Distributors |->
                                shipped[d] + LinesOf(orders[req[t].arg], d)]
              /\ supplied' = supplied
<1>0. stock \in [Items -> Nat \cup {NoRow}] /\ Takes(t)
  BY DEF SInv, StockTyped, EachStocked
<1>1. /\ pc[t] = "commit" /\ req[t].op \in {"complete_order", "add_order"}
  BY Committed
<1>2. stock' = [i \in Items |-> IF i \in DOMAIN tx[t].stock THEN tx[t].stock[i] ELSE stock[i]]
  BY <1>0 DEF CommitAndReply, Commit, Over
<1>3. CASE tx[t].stock = <<>>
  <2>1. DOMAIN tx[t].stock = {}
    BY <1>3, NoCounts
  <2> QED
    BY <1>0, <1>2, <1>3, <2>1 DEF CommitAndReply
<1>4. CASE tx[t].stock # <<>>
  <2>1. req[t].op = "complete_order"
    BY <1>1, <1>4 DEF IInv, Each, Adding
  <2>2. orders[req[t].arg] # NoRow
    BY <1>0, <1>1, <1>4, <2>1 DEF Takes
  <2>3. req[t].arg \in OrderIds
    BY <1>1, <2>1, RequestsAssumption DEF IInv, Each, Placed
  <2>4. orders[req[t].arg] \in OrderRows
    BY <2>2, <2>3 DEF IInv, Typed
  <2> QED
    BY <1>1, <1>2, <1>4, <2>1, <2>4 DEF CommitAndReply
<1> QED
  BY <1>3, <1>4

(* Rows stay, and nobody changes a count that another one has written.     *)
LEMMA CountsKept ==
    ASSUME IInv, SInv, [Next]_vars
    PROVE  /\ stock' \in [Items -> Nat \cup {NoRow}]
           /\ Stocked \subseteq Stocked'
           /\ \A u \in Threads : Untouched(u) =>
                 \A i \in DOMAIN tx[u].stock : stock'[i] = stock[i]
<1>0. /\ stock \in [Items -> Nat \cup {NoRow}]
      /\ \A t \in Threads : WritesStocked(t) /\ \A u \in Threads : StockApart(t, u)
  BY DEF SInv, StockTyped, EachStocked
<1>1. CASE stock' = stock
  BY <1>0, <1>1 DEF Stocked
<1>2. ASSUME NEW i, NEW n, Supplied(i, n)
      PROVE  /\ stock' \in [Items -> Nat \cup {NoRow}]
             /\ Stocked \subseteq Stocked'
             /\ \A u \in Threads : \A j \in DOMAIN tx[u].stock : stock'[j] = stock[j]
  <2>1. /\ i \in Items /\ n \in Nat /\ stock' = [stock EXCEPT ![i] = n]
        /\ \A u \in Threads : i \notin DOMAIN tx[u].stock
    BY <1>2 DEF Supplied
  <2>2. stock' \in [Items -> Nat \cup {NoRow}]
    BY <1>0, <2>1
  <2>3. Stocked \subseteq Stocked'
    BY <1>0, <2>1, NoRowAssumption DEF Stocked
  <2>4. \A u \in Threads : \A j \in DOMAIN tx[u].stock : stock'[j] = stock[j]
    <3> SUFFICES ASSUME NEW u \in Threads, NEW j \in DOMAIN tx[u].stock
                 PROVE  stock'[j] = stock[j]
      OBVIOUS
    <3>1. j \in Items /\ j # i
      BY <1>0, <2>1 DEF WritesStocked, Stocked
    <3> QED
      BY <1>0, <2>1, <3>1
  <2> QED
    BY <2>2, <2>3, <2>4
<1>3. ASSUME NEW t \in Threads, CommitAndReply(t), stock' # stock
      PROVE  /\ stock' \in [Items -> Nat \cup {NoRow}]
             /\ Stocked \subseteq Stocked'
             /\ \A u \in Threads : Untouched(u) =>
                   \A i \in DOMAIN tx[u].stock : stock'[i] = stock[i]
  <2>1. /\ pc[t] = "commit"
        /\ stock' = [i \in Items |-> IF i \in DOMAIN tx[t].stock THEN tx[t].stock[i]
                                     ELSE stock[i]]
    BY <1>3, CountsCommitted
  <2>2. \A i \in DOMAIN tx[t].stock : tx[t].stock[i] \in Nat
    BY <1>0 DEF WritesStocked
  <2>3. stock' \in [Items -> Nat \cup {NoRow}]
    BY <1>0, <2>1, <2>2
  <2>4. Stocked \subseteq Stocked'
    BY <1>0, <2>1, <2>2, NoRowAssumption DEF Stocked
  <2>5. ASSUME NEW u \in Threads, Untouched(u), NEW i \in DOMAIN tx[u].stock
        PROVE  stock'[i] = stock[i]
    <3>1. pc'[t] = "idle"
      BY <1>3, Committed DEF IInv, Typed
    <3>2. u # t
      BY <2>1, <2>5, <3>1 DEF Untouched
    <3>3. i \in Items /\ i \notin DOMAIN tx[t].stock
      BY <1>0, <2>5, <3>2 DEF WritesStocked, Stocked, StockApart, WrittenItems
    <3> QED
      BY <2>1, <3>3
  <2> QED
    BY <2>3, <2>4, <2>5
<1>4. CASE Next
  BY <1>1, <1>2, <1>3, <1>4, StockMoves, ItemAdded
<1>5. CASE UNCHANGED vars
  BY <1>1, <1>5 DEF vars, tables
<1> QED
  BY <1>4, <1>5

LEMMA StepStockTyped ==
    ASSUME IInv, SInv, [Next]_vars
    PROVE  StockTyped'
<1>0. /\ stock' \in [Items -> Nat \cup {NoRow}]
      /\ supplied \in [Distributors -> Int] /\ shipped \in [Distributors -> Int]
      /\ stock \in [Items -> Nat \cup {NoRow}]
  BY CountsKept DEF SInv, StockTyped
<1>1. CASE UNCHANGED <<stock, supplied, shipped>>
  BY <1>0, <1>1 DEF StockTyped
<1>2. ASSUME NEW i, NEW n, Supplied(i, n)
      PROVE  StockTyped'
  <2>1. Distributor[i] \in Distributors /\ stock[i] \in Nat \cup {NoRow}
    BY <1>0, <1>2 DEF Supplied, Distributors
  <2>2. supplied[Distributor[i]] + n - (IF stock[i] = NoRow THEN 0 ELSE stock[i]) \in Int
    BY <1>0, <1>2, <2>1 DEF Supplied
  <2>3. supplied' \in [Distributors -> Int] /\ shipped' = shipped
    BY <1>0, <1>2, <2>2 DEF Supplied
  <2> QED
    BY <1>0, <2>3 DEF StockTyped
<1>3. ASSUME NEW t \in Threads, CommitAndReply(t), ~UNCHANGED <<stock, supplied, shipped>>
      PROVE  StockTyped'
  <2>1. /\ orders[req[t].arg] \in OrderRows
        /\ shipped' = [d \in Distributors |-> shipped[d] + LinesOf(orders[req[t].arg], d)]
        /\ supplied' = supplied
    BY <1>3, CountsCommitted
  <2>2. \A d \in Distributors : shipped[d] + LinesOf(orders[req[t].arg], d) \in Int
    BY <1>0, <2>1, LinesCounted
  <2> QED
    BY <1>0, <2>1, <2>2 DEF StockTyped
<1>4. CASE Next
  BY <1>1, <1>2, <1>3, <1>4, StockMoves, ItemAdded
<1>5. CASE UNCHANGED vars
  BY <1>1, <1>5 DEF vars, tables, history
<1> QED
  BY <1>4, <1>5

-----------------------------------------------------------------------------
(* Orders are made of items there are.                                     *)
LEMMA StepLinesStocked ==
    ASSUME IInv, SInv, [Next]_vars
    PROVE  LinesStocked'
<1> SUFFICES ASSUME NEW o \in OrderIds, orders'[o] # NoRow
             PROVE  Ordered(orders'[o]) \subseteq Stocked'
  BY DEF LinesStocked
<1>0. Stocked \subseteq Stocked' /\ LinesStocked
  BY CountsKept DEF SInv
<1>1. CASE orders[o] # NoRow
  <2>1. orders'[o].lines = orders[o].lines
    BY <1>1, WholeSteps DEF OrderAppearsWhole
  <2> QED
    BY <1>0, <1>1, <2>1 DEF LinesStocked, Ordered
<1>2. CASE orders[o] = NoRow
  <2>1. PICK t \in Threads : CommitAndReply(t)
    BY <1>2, OrdersChange DEF Deletes
  <2>2. o \in DOMAIN tx[t].orders /\ orders'[o] = tx[t].orders[o] /\ pc[t] = "commit"
        /\ req[t].op \in {"complete_order", "add_order"}
    BY <1>2, <2>1, Committed
  <2>3. req[t].op = "add_order"
    BY <1>2, <2>2 DEF IInv, Each, Completing
  <2>4. orders'[o].lines = req[t].arg.lines /\ todo[t] = {}
    BY <2>2, <2>3, AddedRow DEF IInv, Each, Adding
  <2>5. Ordered(req[t].arg) \subseteq Stocked
    BY <2>2, <2>3, <2>4 DEF SInv, EachStocked, AddsStocked
  <2> QED
    BY <1>0, <2>4, <2>5 DEF Ordered
<1> QED
  BY <1>1, <1>2

(* What a thread is going to take stays right while others act.            *)
LEMMA StillRight ==
    ASSUME IInv, IInv', SInv, [Next]_vars, NEW u \in Threads, Untouched(u)
    PROVE  AddsStocked(u)' /\ WritesStocked(u)' /\ Takes(u)'
<1>0. /\ Stocked \subseteq Stocked' /\ \A i \in DOMAIN tx[u].stock : stock'[i] = stock[i]
      /\ AddsStocked(u) /\ WritesStocked(u) /\ Takes(u)
  BY CountsKept DEF SInv, EachStocked
<1>1. AddsStocked(u)' /\ WritesStocked(u)'
  BY <1>0 DEF Untouched, AddsStocked, WritesStocked, Ordered
<1>2. CASE pc[u] \in {"finish", "commit"} /\ req[u].op = "complete_order"
           /\ tx[u].stock # <<>>
  <2> DEFINE o == req[u].arg
  <2>1. UNCHANGED <<pc[u], req[u], tx[u]>>
    BY DEF Untouched
  <2>2. o \in OrderIds /\ orders[o] # NoRow
    BY <1>0, <1>2, RequestsAssumption DEF Takes, IInv, Each, Placed
  <2>3. orders'[o] # NoRow
    <3>1. Completing(u)'
      BY DEF IInv, Each
    <3>2. CASE pc[u] = "finish"
      BY <1>2, <2>1, <3>1, <3>2 DEF Completing
    <3>3. CASE pc[u] = "commit"
      <4>1. DOMAIN tx'[u].orders # {}
        BY <1>2, <2>1, <3>1, <3>3 DEF Completing
      <4>2. PICK p \in DOMAIN tx'[u].orders : orders'[p] # NoRow /\ p = req'[u].arg
        BY <1>2, <2>1, <3>1, <4>1 DEF Completing
      <4> QED
        BY <2>1, <4>2
    <3> QED
      BY <1>2, <3>2, <3>3
  <2>4. orders'[o].lines = orders[o].lines
    BY <2>2, <2>3, WholeSteps DEF OrderAppearsWhole
  <2>5. Ordered(orders'[o]) = Ordered(orders[o])
    BY <2>4 DEF Ordered
  <2>6. \A i \in DOMAIN tx[u].stock :
           AfterDeduction(orders[o], i)' = AfterDeduction(orders[o], i)
    BY <1>0, <2>1, <2>4 DEF AfterDeduction, LinesOf
  <2>7. DOMAIN tx'[u].stock \in OnePerDistributor(Ordered(orders'[o]))
    BY <1>0, <1>2, <2>1, <2>5 DEF Takes
  <2>8. \A i \in DOMAIN tx'[u].stock :
           /\ tx'[u].stock[i] = Unsigned(AfterDeduction(orders[req[u].arg], i)')
           /\ Strict => ~(AfterDeduction(orders[req[u].arg], i)' < 0)
    BY <1>0, <1>2, <2>1, <2>6 DEF Takes
  <2>9. OnePerDistributor(Ordered(orders[req[u].arg]))' =
           OnePerDistributor(Ordered(orders'[o]))
    BY <2>1 DEF OnePerDistributor, Ordered
  <2>10. Takes(u)'
    BY <2>1, <2>3, <2>7, <2>8, <2>9 DEF Takes
  <2> QED
    BY <1>1, <2>10
<1>3. CASE ~(pc[u] \in {"finish", "commit"} /\ req[u].op = "complete_order"
             /\ tx[u].stock # <<>>)
  BY <1>1, <1>3 DEF Untouched, Takes
<1> QED
  BY <1>2, <1>3

(* The thread that acts.                                                   *)
Right(t) ==
    /\ AddsStocked(t)' /\ WritesStocked(t)' /\ Takes(t)'
    /\ DOMAIN tx'[t].stock \subseteq WrittenItems(t)

LEMMA NothingWritten ==
    ASSUME NEW t \in Threads, tx'[t] = NoTx, pc'[t] \notin {"line", "commit"}
           \/ req'[t].op = "complete_order"
    PROVE  Right(t)
  BY NoCounts DEF Right, AddsStocked, WritesStocked, Takes

LEMMA NothingTaken ==
    ASSUME SInv, NEW t \in Threads, Stocked \subseteq Stocked', tx'[t] = tx[t],
           pc'[t] = "rollback"
    PROVE  Right(t)
<1>1. AddsStocked(t)' /\ WritesStocked(t)' /\ Takes(t)'
  BY DEF SInv, EachStocked, AddsStocked, WritesStocked, Takes
<1> QED
  BY <1>1 DEF Right, WrittenItems

LEMMA TakesFromStock ==
    ASSUME IInv, SInv, NEW t \in Threads, CompleteDeduct(t)
    PROVE  Right(t)
<1> DEFINE row == orders[req[t].arg]
           R == locks[t].stock
<1>0. /\ pc[t] = "deduct" /\ req[t].op = "complete_order" /\ tx[t] = NoTx
      /\ UNCHANGED <<stock, orders, req>>
      /\ req[t].arg \in OrderIds
      /\ pc \in [Threads -> Labels] /\ tx = [u \in Threads |-> tx[u]]
      /\ stock \in [Items -> Nat \cup {NoRow}]
  BY Deducted, RequestsAssumption
     DEF CompleteDeduct, tables, IInv, Each, Placed, Typed, Shaped, SInv, StockTyped
<1>1. CASE UNCHANGED tx
  <2>1. tx'[t] = NoTx /\ req'[t].op = "complete_order"
    BY <1>0, <1>1
  <2> QED
    BY <2>1, NothingWritten
<1>2. CASE ~UNCHANGED tx
  <2>1. row # NoRow /\ pc'[t] = "finish"
    BY <1>0, <1>2, Deducted
  <2>2. /\ R # {} /\ R \in OnePerDistributor(Ordered(row))
        /\ Strict => \A i \in R : ~(AfterDeduction(row, i) < 0)
        /\ tx' = [tx EXCEPT ![t] =
                     Record(Rests(row, R), <<>>, {}, Ordered(row), {req[t].arg}, {})]
    BY <2>1, TakenFrom
  <2>3. /\ pc'[t] = "finish" /\ tx'[t].stock = Rests(row, R) /\ tx'[t].seen = {}
    <3> DEFINE w == Rests(row, R)
               n == Ordered(row)
    <3>1. tx'[t] = Record(w, <<>>, {}, n, {req[t].arg}, {})
      BY <1>0, <2>2
    <3> HIDE DEF w, n
    <3>2. tx'[t].stock = w /\ tx'[t].seen = {}
      BY <3>1, NoCounts
    <3> QED
      BY <2>1, <3>2 DEF w
  <2>4. DOMAIN tx'[t].stock = R /\ R \subseteq Ordered(row)
    BY <2>2, <2>3 DEF Rests, OnePerDistributor
  <2>5. Ordered(row) \subseteq Stocked /\ row \in OrderRows
    BY <1>0, <2>1 DEF SInv, LinesStocked, IInv, Typed
  <2>6. \A i \in R : AfterDeduction(row, i) \in Int
    BY <1>0, <2>4, <2>5, LinesCounted DEF AfterDeduction, Stocked
  <2>7. \A i \in R : tx'[t].stock[i] = Unsigned(AfterDeduction(row, i))
    BY <2>3 DEF Rests
  <2>8. \A i \in R : tx'[t].stock[i] \in Nat
    BY <2>6, <2>7 DEF Unsigned
  <2>9. WritesStocked(t)' /\ AddsStocked(t)'
    BY <1>0, <2>3, <2>4, <2>5, <2>8 DEF WritesStocked, AddsStocked, Stocked
  <2>10. Takes(t)'
    <3>1. orders'[req'[t].arg] = row
      BY <1>0
    <3>2. \A i \in R : AfterDeduction(orders[req[t].arg], i)' = AfterDeduction(row, i)
      BY <1>0 DEF AfterDeduction, LinesOf
    <3>3. \A i \in R : /\ tx'[t].stock[i] = Unsigned(AfterDeduction(row, i))
                       /\ Strict => ~(AfterDeduction(row, i) < 0)
      BY <2>2, <2>7
    <3>4. OnePerDistributor(Ordered(orders[req[t].arg]))' = OnePerDistributor(Ordered(row))
      BY <3>1 DEF OnePerDistributor, Ordered
    <3> QED
      BY <2>1, <2>2, <2>4, <3>1, <3>2, <3>3, <3>4 DEF Takes
  <2>11. DOMAIN tx'[t].stock \subseteq WrittenItems(t)
    BY <2>4 DEF WrittenItems
  <2> QED
    BY <2>9, <2>10, <2>11 DEF Right
<1> QED
  BY <1>1, <1>2

LEMMA ActsRight ==
    ASSUME IInv, SInv, [Next]_vars, NEW t \in Threads, Moves(t)
    PROVE  Right(t)
<1>0. /\ Stocked \subseteq Stocked' /\ StockTyped
      /\ Placed(t) /\ AddsStocked(t) /\ WritesStocked(t) /\ Takes(t)
      /\ pc \in [Threads -> Labels] /\ tx = [u \in Threads |-> tx[u]]
      /\ req = [u \in Threads |-> req[u]] /\ todo = [u \in Threads |-> todo[u]]
  BY CountsKept DEF SInv, EachStocked, IInv, Each, Typed, Shaped
<1>1. CASE Receive(t) \/ Quiet(t) \/ Deletes(t) \/ LocksMore(t)
  <2>1. pc'[t] \in {"idle", "check", "act", "insert", "cascade", "deduct"} /\ tx'[t] = NoTx
    BY <1>0, <1>1 DEF Receive, Quiet, Deletes, LocksMore, Placed
  <2> QED
    BY <2>1, NothingWritten
<1>2. CASE GivesUp(t)
  BY <1>0, <1>2, NothingTaken DEF GivesUp
<1>3. CASE CompleteSelect(t)
  <2>1. tx'[t] = NoTx /\ req'[t].op = "complete_order"
    BY <1>3, Selected
  <2> QED
    BY <2>1, NothingWritten
<1>4. CASE CompleteDeduct(t)
  BY <1>4, TakesFromStock
<1>5. CASE CompleteFinish(t)
  <2>1. /\ pc[t] = "finish" /\ req[t].op = "complete_order"
        /\ UNCHANGED <<orders, stock, req>> /\ pc'[t] = "commit"
    BY <1>0, <1>5, Finished DEF CompleteFinish, tables
  <2>2. tx'[t].stock = tx[t].stock /\ tx'[t].seen = tx[t].seen
    <3>1. \/ tx' = tx
          \/ \E w : tx' = [tx EXCEPT ![t] = Record(tx[t].stock, w, tx[t].tels, tx[t].items,
                                                   tx[t].lines, tx[t].seen)]
      BY <1>5, Finished
    <3> QED
      BY <1>0, <3>1, NoCounts
  <2>3. AddsStocked(t)' /\ WritesStocked(t)'
    BY <1>0, <2>1, <2>2 DEF AddsStocked, WritesStocked
  <2>4. Takes(t)'
    <3>1. /\ (orders[req[t].arg])' = orders[req[t].arg]
          /\ OnePerDistributor(Ordered(orders[req[t].arg]))' =
                OnePerDistributor(Ordered(orders[req[t].arg]))
          /\ \A i : AfterDeduction(orders[req[t].arg], i)' = AfterDeduction(orders[req[t].arg], i)
      BY <2>1 DEF OnePerDistributor, Ordered, AfterDeduction, LinesOf
    <3>2. CASE tx[t].stock # <<>>
      BY <1>0, <2>1, <2>2, <3>1, <3>2 DEF Takes
    <3> QED
      BY <2>2, <3>2 DEF Takes
  <2> QED
    BY <1>0, <2>2, <2>3, <2>4 DEF Right, WrittenItems
<1>6. CASE AddOrder(t)
  <2>1. tx[t] = NoTx /\ req[t].op = "add_order" /\ UNCHANGED <<req, stock>>
    BY <1>6, OrderAdded DEF AddOrder
  <2>2. CASE pc' = [pc EXCEPT ![t] = "rollback"] /\ UNCHANGED tx
    BY <1>0, <2>2, NothingTaken
  <2>3. CASE ~(pc' = [pc EXCEPT ![t] = "rollback"] /\ UNCHANGED tx)
    <3>1. /\ pc' = [pc EXCEPT ![t] = "line"]
          /\ todo' = [todo EXCEPT ![t] = Ordered(req[t].arg)]
          /\ \E w : tx' = [tx EXCEPT ![t] =
                             Record(<<>>, w, {req[t].arg.tel}, {}, {}, Stocked)]
      BY <1>6, <2>3, OrderAdded
    <3>2. tx'[t].stock = <<>> /\ tx'[t].seen = Stocked
      BY <1>0, <3>1, NoCounts
    <3>3. todo'[t] = Ordered(req'[t].arg)
      BY <1>0, <2>1, <3>1
    <3>4. Ordered(req[t].arg)' = Ordered(req'[t].arg)
      BY DEF Ordered
    <3>5. AddsStocked(t)'
      BY <1>0, <3>2, <3>3, <3>4 DEF AddsStocked
    <3>6. DOMAIN tx'[t].stock = {}
      BY <3>2, NoCounts
    <3>7. req'[t].op # "complete_order"
      BY <2>1
    <3> QED
      BY <3>5, <3>6, <3>7 DEF Right, WritesStocked, Takes
  <2> QED
    BY <2>2, <2>3
<1>7. CASE AddOrderedItem(t)
  <2>1. pc[t] = "line" /\ req[t].op = "add_order" /\ UNCHANGED <<req, stock>>
    BY <1>7, LineAdded DEF AddOrderedItem, tables
  <2>2. CASE pc' = [pc EXCEPT ![t] = "rollback"] /\ UNCHANGED tx
    BY <1>0, <2>2, NothingTaken
  <2>3. CASE ~(pc' = [pc EXCEPT ![t] = "rollback"] /\ UNCHANGED tx)
    <3>1. PICK i : i \in tx[t].seen /\ todo' = [todo EXCEPT ![t] = @ \ {i}]
      BY <2>3, <1>7 DEF AddOrderedItem, Goto
    <3>2. PICK j \in todo[t], o \in DOMAIN tx[t].orders :
             /\ pc' = [pc EXCEPT ![t] = IF todo[t] = {j} THEN "commit" ELSE "line"]
             /\ todo' = [todo EXCEPT ![t] = @ \ {j}]
             /\ tx' = [tx EXCEPT ![t] =
                       Record(tx[t].stock,
                              [tx[t].orders EXCEPT ![o] =
                                  [@ EXCEPT !.lines[j] = req[t].arg.lines[j]]],
                              tx[t].tels, tx[t].items \cup {j}, tx[t].lines, tx[t].seen)]
      <4>1. ~(pc' = [pc EXCEPT ![t] = "rollback"] /\ UNCHANGED <<tx, todo>>)
        BY <2>3
      <4> QED
        BY <1>7, <4>1, LineAdded, Zenon
    <3>3. tx'[t].stock = tx[t].stock /\ tx'[t].seen = tx[t].seen
      BY <1>0, <3>2, NoCounts
    <3>4. AddsStocked(t)'
      <4>1. Ordered(req[t].arg)' = Ordered(req[t].arg)
        BY <2>1 DEF Ordered
      <4>2. Ordered(req[t].arg) \ todo'[t] \subseteq Stocked
        BY <1>0, <2>1, <3>1 DEF AddsStocked
      <4> QED
        BY <1>0, <3>3, <4>1, <4>2 DEF AddsStocked
    <3>5. WritesStocked(t)' /\ Takes(t)'
      BY <1>0, <2>1, <3>3 DEF WritesStocked, Takes
    <3> QED
      BY <1>0, <3>3, <3>4, <3>5 DEF Right, WrittenItems
  <2> QED
    BY <2>2, <2>3
<1>8. CASE CommitAndReply(t)
  <2>1. pc'[t] = "idle" /\ tx'[t] = NoTx
    BY <1>0, <1>8, Committed
  <2> QED
    BY <2>1, NothingWritten
<1>9. CASE Reverts(t)
  <2>1. pc'[t] = "idle" /\ tx'[t] = NoTx
    BY <1>0, <1>9 DEF Reverts
  <2> QED
    BY <2>1, NothingWritten
<1> QED
  BY <1>1, <1>2, <1>3, <1>4, <1>5, <1>6, <1>7, <1>8, <1>9 DEF Moves

LEMMA StepEachStocked ==
    ASSUME IInv, IInv', SInv, [Next]_vars
    PROVE  EachStocked'
<1> SUFFICES ASSUME NEW u \in Threads
             PROVE  /\ AddsStocked(u)' /\ WritesStocked(u)' /\ Takes(u)'
                    /\ \A v \in Threads : StockApart(u, v)'
  BY DEF EachStocked
<1>1. CASE UNCHANGED vars
  <2>1. \A v \in Threads : Untouched(v)
    BY <1>1 DEF vars, Untouched
  <2>2. AddsStocked(u)' /\ WritesStocked(u)' /\ Takes(u)'
    BY <2>1, StillRight
  <2> QED
    BY <1>1, <2>2 DEF vars, SInv, EachStocked, StockApart, WrittenItems
<1>2. CASE Restarts
  <2>1. \A v \in Threads : tx'[v] = NoTx /\ pc'[v] = "idle" /\ locks'[v] = NoLocks
    BY <1>2 DEF Restarts
  <2> QED
    BY <2>1, NoCounts, NoLocksIs DEF AddsStocked, WritesStocked, Takes, StockApart, WrittenItems
<1>3. ASSUME NEW t \in Threads, Receive(t) \/ Act(t), Moves(t), ~Dies
      PROVE  /\ AddsStocked(u)' /\ WritesStocked(u)' /\ Takes(u)'
             /\ \A v \in Threads : StockApart(u, v)'
  <2>1. \A v \in Threads \ {t} : Untouched(v)
    BY <1>3, MovesAlone
  <2>2. Right(t) /\ LockedMore(t)
    BY <1>3, ActsRight, LockMoves DEF SInv
  <2>3. AddsStocked(u)' /\ WritesStocked(u)' /\ Takes(u)'
    BY <2>1, <2>2, StillRight DEF Right
  <2>4. \A v \in Threads \ {t} : WrittenItems(v)' = WrittenItems(v)
    BY <2>1, <2>2 DEF Untouched, LockedMore, WrittenItems
  <2>5. \A v \in Threads \ {t} : WrittenItems(t)' \cap WrittenItems(v) = {}
    <3> SUFFICES ASSUME NEW v \in Threads \ {t}, NEW i \in WrittenItems(t)'
                 PROVE  i \notin WrittenItems(v)
      OBVIOUS
    <3>1. i \in WrittenItems(t) \/ ItemWritable(t, i)
      BY <2>2 DEF Right, LockedMore, WrittenItems
    <3>2. ItemWritable(t, i) => i \notin WrittenItems(v)
      BY DEF ItemWritable, ItemShareable, Others
    <3>3. WrittenItems(t) \cap WrittenItems(v) = {}
      BY DEF SInv, EachStocked, StockApart
    <3> QED
      BY <3>1, <3>2, <3>3
  <2>6. ASSUME NEW v \in Threads, u # v
        PROVE  WrittenItems(u)' \cap WrittenItems(v)' = {}
    <3>1. WrittenItems(u) \cap WrittenItems(v) = {}
      BY <2>6 DEF SInv, EachStocked, StockApart
    <3> QED
      BY <2>4, <2>5, <2>6, <3>1
  <2>7. \A v \in Threads : StockApart(u, v)'
    BY <2>6 DEF StockApart
  <2> QED
    BY <2>3, <2>7
<1>4. Dies => Restarts
  BY DEF Dies, Restarts, tables, history
<1> QED
  BY <1>1, <1>2, <1>3, <1>4, ThreadSteps DEF Next, ServerDies

LEMMA InitSInv == Init => SInv
<1> SUFFICES ASSUME Init PROVE SInv
  OBVIOUS
<1>1. /\ stock = FirstStock /\ orders = FirstOrders
      /\ \A t \in Threads : tx[t] = NoTx /\ pc[t] = "idle"
  BY DEF Init, DatabaseInit
<1>2. stock \in [Items -> Nat \cup {NoRow}]
  BY <1>1, FirstRowsAssumption
<1>3. \A d \in Distributors : StockOf(d) \in Nat
  <2> SUFFICES ASSUME NEW d \in Distributors PROVE StockOf(d) \in Nat
    OBVIOUS
  <2>1. IsFiniteSet({i \in Stocked : Distributor[i] = d})
    BY ItemsAssumption, FS_Subset DEF Stocked
  <2>2. \A i \in {j \in Stocked : Distributor[j] = d} : stock[i] \in Nat
    BY <1>2 DEF Stocked
  <2> QED
    BY <2>1, <2>2, SumType DEF StockOf
<1>4. StockTyped
  <2>1. supplied = [d \in Distributors |-> StockOf(d)] /\ shipped = [d \in Distributors |-> 0]
    BY DEF Init
  <2> QED
    BY <1>2, <1>3, <2>1 DEF StockTyped
<1>5. LinesStocked
  BY <1>1, FirstOrdersAssumption DEF LinesStocked, Ordered, Stocked, FirstIds
<1>6. LocksTyped
  BY NoLocksIs DEF Init, DatabaseInit, LocksTyped
<1>7. EachStocked
  <2>1. \A t \in Threads : WrittenItems(t) = {}
    BY <1>1, NoCounts, NoLocksIs DEF Init, DatabaseInit, WrittenItems
  <2> QED
    BY <1>1, <2>1, NoCounts DEF EachStocked, AddsStocked, WritesStocked, Takes, StockApart
<1> QED
  BY <1>4, <1>5, <1>6, <1>7 DEF SInv

LEMMA StockInductive == Spec => [](IInv /\ SInv)
<1>1. IInv /\ IInv' /\ SInv /\ [Next]_vars => SInv'
  <2> SUFFICES ASSUME IInv, IInv', SInv, [Next]_vars PROVE SInv'
    OBVIOUS
  <2> QED
    BY StepStockTyped, StepLocksTyped, StepLinesStocked, StepEachStocked DEF SInv
<1> QED
  BY InitSInv, <1>1, Inductive, PTL DEF Spec

-----------------------------------------------------------------------------
(* The items of a distributor that are in stock.                           *)
Of(d) == {i \in Stocked : Distributor[i] = d}

LEMMA StockSummed ==
    ASSUME stock \in [Items -> Nat \cup {NoRow}], NEW d
    PROVE  /\ IsFiniteSet(Of(d)) /\ \A i \in Of(d) : i \in Items /\ stock[i] \in Nat
           /\ StockOf(d) = SumFunctionOnSet(stock, Of(d))
           /\ StockOf(d) \in Nat
<1>1. IsFiniteSet(Of(d))
  BY ItemsAssumption, FS_Subset DEF Of, Stocked
<1>2. \A i \in Of(d) : i \in Items /\ stock[i] \in Nat
  BY DEF Of, Stocked
<1>3. StockOf(d) = SumFunctionOnSet(stock, Of(d))
  BY DEF StockOf, Of
<1>4. SumFunctionOnSet(stock, Of(d)) \in Nat
  BY <1>1, <1>2, SumType
<1> QED
  BY <1>1, <1>2, <1>3, <1>4

(* A delivery of one item adds to the stock of its distributor.            *)
LEMMA SuppliedSum ==
    ASSUME SInv, NEW i, NEW n, Supplied(i, n), NEW d
    PROVE  StockOf(d)' = IF Distributor[i] # d THEN StockOf(d)
                         ELSE StockOf(d) + n - (IF stock[i] = NoRow THEN 0 ELSE stock[i])
<1>0. /\ stock \in [Items -> Nat \cup {NoRow}] /\ i \in Items /\ n \in Nat
      /\ stock' = [stock EXCEPT ![i] = n]
  BY DEF SInv, StockTyped, Supplied
<1>1. stock' \in [Items -> Nat \cup {NoRow}]
  BY <1>0
<1>2. /\ IsFiniteSet(Of(d)) /\ \A j \in Of(d) : j \in Items /\ stock[j] \in Nat
      /\ StockOf(d) = SumFunctionOnSet(stock, Of(d)) /\ StockOf(d) \in Nat
  BY <1>0, StockSummed
<1>3. StockOf(d)' = SumFunctionOnSet(stock', Of(d)')
  BY DEF StockOf, Of
<1>4. \A j \in Of(d) : j # i => stock'[j] = stock[j]
  BY <1>0, <1>2
<1>5. CASE Distributor[i] # d
  <2>1. Of(d)' = Of(d)
    BY <1>0, <1>5, NoRowAssumption DEF Of, Stocked
  <2>2. \A j \in Of(d) : stock[j] = stock'[j]
    BY <1>4, <1>5 DEF Of
  <2>3. SumFunctionOnSet(stock, Of(d)) = SumFunctionOnSet(stock', Of(d))
    BY <1>2, <2>2, SumEqual
  <2> QED
    BY <1>2, <1>3, <1>5, <2>1, <2>3
<1>6. CASE Distributor[i] = d /\ stock[i] = NoRow
  <2>1. Of(d)' = Of(d) \cup {i} /\ i \notin Of(d) /\ stock'[i] = n
    BY <1>0, <1>6, NoRowAssumption DEF Of, Stocked
  <2>2. /\ \A j \in Of(d) : stock[j] = stock'[j]
        /\ \A j \in Of(d) \cup {i} : stock'[j] \in Int
    BY <1>0, <1>2, <1>4, <2>1
  <2>3. SumFunctionOnSet(stock, Of(d)) = SumFunctionOnSet(stock', Of(d))
    BY <1>2, <2>2, SumEqual
  <2>4. SumFunctionOnSet(stock', Of(d) \cup {i}) = SumFunctionOnSet(stock', Of(d)) + n
    BY <1>2, <2>1, <2>2, SumAdd
  <2>5. StockOf(d)' = StockOf(d) + n
    BY <1>2, <1>3, <2>1, <2>3, <2>4
  <2> QED
    BY <1>0, <1>2, <1>6, <2>5
<1>7. CASE Distributor[i] = d /\ stock[i] # NoRow
  <2>1. Of(d)' = Of(d) /\ i \in Of(d) /\ stock'[i] = n
    BY <1>0, <1>7, NoRowAssumption DEF Of, Stocked
  <2>2. \A j \in Of(d) : stock[j] \in Int /\ stock'[j] \in Int
    BY <1>0, <1>2, <1>4, <2>1
  <2>3. SumFunctionOnSet(stock', Of(d)) = SumFunctionOnSet(stock, Of(d)) + stock'[i] - stock[i]
    BY <1>2, <1>4, <2>1, <2>2, SumChange
  <2>4. stock[i] \in Nat
    BY <1>2, <2>1
  <2>5. StockOf(d)' = StockOf(d) + n - stock[i]
    BY <1>0, <1>2, <1>3, <2>1, <2>3, <2>4
  <2> QED
    BY <1>7, <2>5
<1> QED
  BY <1>5, <1>6, <1>7

(* The commit of complete_order takes the lines of each distributor from   *)
(* its stock, once, although it writes one item of it only.  A lax server  *)
(* may take less, when the item has less.                                  *)
LEMMA CommittedSum ==
    ASSUME IInv, SInv, NEW t \in Threads, CommitAndReply(t),
           ~UNCHANGED <<stock, supplied, shipped>>, NEW d
    PROVE  /\ StockOf(d)' \in Nat
           /\ StockOf(d)' >= StockOf(d) - LinesOf(orders[req[t].arg], d)
           /\ StockOf(d)' <= StockOf(d)
           /\ Strict => StockOf(d)' = StockOf(d) - LinesOf(orders[req[t].arg], d)
<1> DEFINE row == orders[req[t].arg]
           R == DOMAIN tx[t].stock
<1>0. /\ stock \in [Items -> Nat \cup {NoRow}] /\ WritesStocked(t) /\ Takes(t)
      /\ pc[t] = "commit" /\ req[t].op = "complete_order" /\ tx[t].stock # <<>>
      /\ row \in OrderRows
      /\ stock' = [i \in Items |-> IF i \in R THEN tx[t].stock[i] ELSE stock[i]]
  BY CountsCommitted DEF SInv, StockTyped, EachStocked
<1>1. /\ R \in OnePerDistributor(Ordered(row)) /\ R \subseteq Stocked
      /\ \A i \in R : /\ tx[t].stock[i] \in Nat
                      /\ tx[t].stock[i] = Unsigned(AfterDeduction(row, i))
                      /\ Strict => ~(AfterDeduction(row, i) < 0)
  BY <1>0 DEF Takes, WritesStocked
<1>2. /\ IsFiniteSet(Of(d)) /\ \A j \in Of(d) : j \in Items /\ stock[j] \in Nat
      /\ StockOf(d) = SumFunctionOnSet(stock, Of(d)) /\ StockOf(d) \in Nat
  BY <1>0, StockSummed
<1>3. StockOf(d)' = SumFunctionOnSet(stock', Of(d)')
  BY DEF StockOf, Of
<1>4. Of(d)' = Of(d)
  BY <1>0, <1>1, NoRowAssumption DEF Of, Stocked
<1>5. LinesOf(row, d) \in Nat
  BY <1>0, LinesCounted
<1>6. StockOf(d)' \in Nat
  <2>1. stock' \in [Items -> Nat \cup {NoRow}]
    BY <1>0, <1>1
  <2>2. \A j \in Of(d) : stock'[j] \in Nat
    BY <1>0, <1>1, <1>2
  <2>3. SumFunctionOnSet(stock', Of(d)) \in Nat
    BY <1>2, <2>2, SumType
  <2> QED
    BY <1>3, <1>4, <2>3
<1>7. CASE \E i \in R : Distributor[i] = d
  <2>1. PICK i \in R : Distributor[i] = d
    BY <1>7
  <2>2. i \in Of(d)
    BY <1>1, <2>1 DEF Of
  <2>3. \A j \in Of(d) : j # i => stock'[j] = stock[j]
    <3> SUFFICES ASSUME NEW j \in Of(d), j # i PROVE stock'[j] = stock[j]
      OBVIOUS
    <3>1. Distributor[j] = Distributor[i] /\ j \in Items
      BY <1>2, <2>1 DEF Of
    <3>2. j \notin R
      BY <1>1, <2>1, <3>1 DEF OnePerDistributor
    <3> QED
      BY <1>0, <3>1, <3>2
  <2>4. /\ stock'[i] \in Nat /\ stock'[i] >= stock[i] - LinesOf(row, d)
        /\ stock'[i] <= stock[i]
        /\ Strict => stock'[i] = stock[i] - LinesOf(row, d)
    <3>1. i \in Items /\ stock[i] \in Nat
      BY <1>2, <2>2
    <3>2. stock'[i] \in Nat /\ stock'[i] = Unsigned(AfterDeduction(row, i))
          /\ (Strict => ~(AfterDeduction(row, i) < 0))
      BY <1>0, <1>1, <2>1, <3>1
    <3>3. AfterDeduction(row, i) = stock[i] - LinesOf(row, d)
      BY <2>1 DEF AfterDeduction
    <3> QED
      BY <1>5, <3>1, <3>2, <3>3 DEF Unsigned
  <2>5. \A j \in Of(d) : stock[j] \in Int /\ stock'[j] \in Int
    BY <1>2, <2>3, <2>4
  <2>6. SumFunctionOnSet(stock', Of(d)) = SumFunctionOnSet(stock, Of(d)) + stock'[i] - stock[i]
    BY <1>2, <2>2, <2>3, <2>5, SumChange
  <2>7. stock[i] \in Nat
    BY <1>2, <2>2
  <2>8. StockOf(d)' = StockOf(d) + stock'[i] - stock[i]
    BY <1>2, <1>3, <1>4, <2>6
  <2>9. StockOf(d)' >= StockOf(d) - LinesOf(row, d)
    BY <1>2, <1>5, <2>4, <2>7, <2>8
  <2>10. Strict => StockOf(d)' = StockOf(d) - LinesOf(row, d)
    BY <1>2, <1>5, <2>4, <2>7, <2>8
  <2>11. StockOf(d)' <= StockOf(d)
    BY <1>2, <2>4, <2>7, <2>8
  <2> QED
    BY <1>6, <2>9, <2>10, <2>11
<1>8. CASE ~\E i \in R : Distributor[i] = d
  <2>1. \A j \in Of(d) : stock[j] = stock'[j]
    BY <1>0, <1>2, <1>8 DEF Of
  <2>2. SumFunctionOnSet(stock, Of(d)) = SumFunctionOnSet(stock', Of(d))
    BY <1>2, <2>1, SumEqual
  <2>3. LinesOf(row, d) = 0
    <3>1. IsFiniteSet({i \in Items : Distributor[i] = d})
      BY ItemsAssumption, FS_Subset
    <3>2. ASSUME NEW i \in Items, Distributor[i] = d PROVE row.lines[i] = 0
      <4>1. i \notin Ordered(row)
        BY <1>1, <1>8, <3>2 DEF OnePerDistributor
      <4>2. row.lines[i] \in Nat
        BY <1>0 DEF OrderRows, Lines
      <4> QED
        BY <4>1, <4>2 DEF Ordered
    <3>3. \A i \in {j \in Items : Distributor[j] = d} : row.lines[i] = 0
      BY <3>2
    <3> QED
      BY <3>1, <3>3, SumZero DEF LinesOf
  <2> QED
    BY <1>2, <1>3, <1>4, <1>6, <2>2, <2>3
<1> QED
  BY <1>7, <1>8

(* What a step does to the balance of a distributor.                       *)
Balance(d) == StockOf(d) + shipped[d] - supplied[d]

LEMMA BalanceSteps ==
    ASSUME IInv, SInv, [Next]_vars, NEW d \in Distributors
    PROVE  /\ StockOf(d)' \in Int /\ supplied'[d] \in Int /\ shipped'[d] \in Int
           /\ Balance(d)' >= Balance(d)
           /\ Strict => Balance(d)' = Balance(d)
<1>0. /\ StockOf(d) \in Nat
      /\ supplied \in [Distributors -> Int] /\ shipped \in [Distributors -> Int]
      /\ supplied[d] \in Int /\ shipped[d] \in Int
      /\ stock \in [Items -> Nat \cup {NoRow}]
  BY StockSummed DEF SInv, StockTyped
<1>1. supplied'[d] \in Int /\ shipped'[d] \in Int
  BY StepStockTyped DEF StockTyped
<1> DEFINE Goal == /\ StockOf(d)' \in Int /\ Balance(d)' >= Balance(d)
                   /\ Strict => Balance(d)' = Balance(d)
<1>2. ASSUME UNCHANGED <<stock, supplied, shipped>>
      PROVE  Goal
  <2>1. StockOf(d)' = StockOf(d)
    BY <1>2 DEF StockOf, Stocked
  <2> QED
    BY <1>0, <1>2, <2>1 DEF Balance
<1>3. ASSUME NEW i, NEW n, Supplied(i, n)
      PROVE  Goal
  <2> DEFINE old == IF stock[i] = NoRow THEN 0 ELSE stock[i]
  <2>1. old \in Nat /\ n \in Nat /\ shipped' = shipped
        /\ supplied' = [supplied EXCEPT ![Distributor[i]] = @ + n - old]
    BY <1>0, <1>3 DEF Supplied
  <2>2. StockOf(d)' = IF Distributor[i] # d THEN StockOf(d) ELSE StockOf(d) + n - old
    BY <1>3, SuppliedSum
  <2>3. supplied'[d] = IF Distributor[i] # d THEN supplied[d] ELSE supplied[d] + n - old
    BY <1>0, <2>1
  <2> HIDE DEF old
  <2> QED
    BY <1>0, <2>1, <2>2, <2>3 DEF Balance
<1>4. ASSUME NEW t \in Threads, CommitAndReply(t), ~UNCHANGED <<stock, supplied, shipped>>
      PROVE  Goal
  <2>1. /\ StockOf(d)' \in Nat
        /\ StockOf(d)' >= StockOf(d) - LinesOf(orders[req[t].arg], d)
        /\ Strict => StockOf(d)' = StockOf(d) - LinesOf(orders[req[t].arg], d)
    BY <1>4, CommittedSum
  <2>2. /\ LinesOf(orders[req[t].arg], d) \in Nat
        /\ shipped'[d] = shipped[d] + LinesOf(orders[req[t].arg], d)
        /\ supplied' = supplied
    BY <1>4, CountsCommitted, LinesCounted
  <2> QED
    BY <1>0, <2>1, <2>2 DEF Balance
<1>5. CASE Next
  BY <1>2, <1>3, <1>4, <1>5, <1>1, StockMoves, ItemAdded
<1>6. CASE UNCHANGED vars
  BY <1>2, <1>6, <1>1 DEF vars, tables, history
<1> QED
  BY <1>5, <1>6

LEMMA InitBalance ==
    ASSUME Init, NEW d \in Distributors
    PROVE  StockOf(d) + shipped[d] = supplied[d]
<1>1. StockOf(d) \in Nat
  BY InitSInv, StockSummed DEF SInv, StockTyped
<1>2. supplied[d] = StockOf(d) /\ shipped[d] = 0
  BY DEF Init
<1> QED
  BY <1>1, <1>2

LEMMA BalanceTyped ==
    ASSUME SInv, NEW d \in Distributors
    PROVE  StockOf(d) \in Nat /\ supplied[d] \in Int /\ shipped[d] \in Int
  BY StockSummed DEF SInv, StockTyped

(* No count is lost, whatever sql_mode the SQL server has: what a          *)
(* distributor supplied is in stock or was taken by a completed order      *)
(* (db.sql:223-263).                                                       *)
THEOREM NoStockIsLost == Spec => []StockNotLost
<1>1. Init => StockNotLost
  <2> SUFFICES ASSUME Init, NEW d \in Distributors
               PROVE  StockOf(d) + shipped[d] >= supplied[d]
    BY DEF StockNotLost
  <2> QED
    BY InitBalance, InitSInv, BalanceTyped
<1>2. IInv /\ SInv /\ StockNotLost /\ [Next]_vars => StockNotLost'
  <2> SUFFICES ASSUME IInv, SInv, StockNotLost, [Next]_vars, NEW d \in Distributors
               PROVE  StockOf(d)' + shipped'[d] >= supplied'[d]
    BY DEF StockNotLost
  <2>1. StockOf(d) + shipped[d] >= supplied[d]
    BY DEF StockNotLost
  <2> QED
    BY <2>1, BalanceTyped, BalanceSteps DEF Balance
<1> QED
  BY <1>1, <1>2, StockInductive, PTL DEF Spec

(* No count is lost or made up, for any number of threads, items, orders   *)
(* and distributors, wherever statements fail and the process dies, as     *)
(* long as the SQL server is strict: what a distributor supplied is in     *)
(* stock or was taken by a completed order (db.sql:223-263, Request.hpp:   *)
(* 541-594).                                                               *)
THEOREM StockIsConserved ==
    ASSUME Strict
    PROVE  Spec => []StockConserved
<1>1. Init => StockConserved
  BY InitBalance DEF StockConserved
<1>2. IInv /\ SInv /\ StockConserved /\ [Next]_vars => StockConserved'
  <2> SUFFICES ASSUME IInv, SInv, StockConserved, [Next]_vars, NEW d \in Distributors
               PROVE  StockOf(d)' + shipped'[d] = supplied'[d]
    BY DEF StockConserved
  <2>1. StockOf(d) + shipped[d] = supplied[d]
    BY DEF StockConserved
  <2>2. Balance(d)' = Balance(d)
    BY BalanceSteps
  <2>3. StockOf(d)' \in Int /\ supplied'[d] \in Int /\ shipped'[d] \in Int
    BY BalanceSteps
  <2> QED
    BY <2>1, <2>2, <2>3, BalanceTyped DEF Balance
<1> QED
  BY <1>1, <1>2, StockInductive, PTL DEF Spec

-----------------------------------------------------------------------------
(* Accounts, customers and answers have their types.                       *)
LEMMA AccountsTyped ==
    ASSUME IInv, AInv, [Next]_vars
    PROVE  users' \in [Logins -> Ranks \cup {NoRow}]
<1>0. users \in [Logins -> Ranks \cup {NoRow}]
  BY DEF AInv
<1>1. \/ UNCHANGED users
      \/ \E t \in Threads : DeleteUser(t) \/ UpdateUser(t) \/ CreateUserInsert(t)
  <2>1. CASE UNCHANGED vars \/ ServerDies
    BY <2>1 DEF vars, tables, ServerDies, Dies
  <2> QED
    BY <2>1, UsersChange DEF Next
<1>2. ASSUME NEW t \in Threads, DeleteUser(t) \/ UpdateUser(t)
      PROVE  users' \in [Logins -> Ranks \cup {NoRow}]
  BY <1>0, <1>2 DEF DeleteUser, UpdateUser
<1>3. ASSUME NEW t \in Threads, CreateUserInsert(t)
      PROVE  users' \in [Logins -> Ranks \cup {NoRow}]
  <2>1. req[t].arg.rank \in Ranks
    BY <1>3 DEF CreateUserInsert, At, AInv
  <2> QED
    BY <1>0, <1>3, <2>1 DEF CreateUserInsert
<1> QED
  BY <1>0, <1>1, <1>2, <1>3

LEMMA CustomersTyped ==
    ASSUME IInv, AInv, [Next]_vars
    PROVE  customers' \subseteq Tels
<1>0. customers \subseteq Tels
  BY DEF AInv
<1>1. \/ UNCHANGED customers
      \/ \E t \in Threads : DeleteCustomer(t) \/ CreateCustomerInsert(t)
  <2>1. CASE UNCHANGED vars
    BY <2>1 DEF vars, tables
  <2>2. ASSUME NEW t \in Threads, AddItem(t) \/ AddItemCount(t) \/ CommitAndReply(t)
        PROVE  UNCHANGED customers
    BY <2>2 DEF AddItem, AddItemCount, CommitAndReply
  <2> QED
    BY <2>1, <2>2, TableMoves
<1>2. ASSUME NEW t \in Threads, DeleteCustomer(t)
      PROVE  customers' \subseteq Tels
  BY <1>0, <1>2 DEF DeleteCustomer
<1>3. ASSUME NEW t \in Threads, CreateCustomerInsert(t)
      PROVE  customers' \subseteq Tels
  <2>1. req[t].arg \in Tels
    BY <1>3, RequestsAssumption DEF CreateCustomerInsert, At, IInv, Each, Placed
  <2> QED
    BY <1>0, <1>3, <2>1 DEF CreateCustomerInsert
<1> QED
  BY <1>0, <1>1, <1>2, <1>3

LEMMA AnswersTyped ==
    ASSUME IInv, AInv, [Next]_vars
    PROVE  answer' \in [Threads -> {"none", "success", "error", "denied", "bad_config"}]
<1>0. answer \in [Threads -> {"none", "success", "error", "denied", "bad_config"}]
  BY DEF AInv
<1>1. ASSUME Dies PROVE answer' \in [Threads -> {"none", "success"}]
  BY <1>1 DEF Dies
<1>2. ASSUME NEW t \in Threads, Receive(t) \/ Act(t)
      PROVE  answer' \in [Threads -> {"none", "success", "error", "denied", "bad_config"}]
  <2>1. CASE Receive(t)
    BY <1>0, <2>1 DEF Receive
  <2>2. CASE Act(t)
    BY <1>0, <1>1, <2>2, StatementEnds DEF Goto, Reply
  <2> QED
    BY <1>2, <2>1, <2>2
<1>3. CASE UNCHANGED vars
  BY <1>0, <1>3 DEF vars
<1> QED
  BY <1>0, <1>1, <1>2, <1>3 DEF Next, ServerDies

(* Only a look that found nothing leads to an insert.                      *)
LEMMA InsertsSeen ==
    ASSUME IInv, AInv, [Next]_vars, NEW t \in Threads, pc'[t] = "insert"
    PROVE  /\ req'[t].op \in {"create_user", "create_customer"}
           /\ req'[t].op = "create_user" => req'[t].arg.rank \in Ranks
<1>0. pc \in [Threads -> Labels] /\ req = [u \in Threads |-> req[u]]
  BY DEF IInv, Typed
<1>1. CASE pc'[t] = pc[t] /\ req'[t] = req[t]
  BY <1>1 DEF AInv
<1>2. ASSUME NEW u \in Threads, Act(u), ~(pc'[t] = pc[t] /\ req'[t] = req[t])
      PROVE  /\ req'[t].op \in {"create_user", "create_customer"}
             /\ req'[t].op = "create_user" => req'[t].arg.rank \in Ranks
  <2>0. ~Dies
    BY DEF Dies
  <2>5. ~CompleteRead(u) /\ ~CompleteShare(u) /\ ~CompleteWrite(u)
    BY <1>2 DEF CompleteRead, CompleteShare, CompleteWrite
  <2>1. CASE CreateUserSelect(u) \/ CreateCustomerSelect(u)
    BY <1>0, <1>2, <2>1 DEF CreateUserSelect, CreateCustomerSelect, At, Goto, Reply
  <2>2. CASE \/ CheckUser(u) \/ Auth(u) \/ Get(u) \/ GetReport(u) \/ DeleteUser(u)
             \/ UpdateUser(u) \/ CreateUserInsert(u) \/ CreateCustomerInsert(u)
             \/ LockCustomer(u) \/ DeleteCustomer(u) \/ AddItem(u) \/ AddItemCount(u)
    <3>1. /\ req' = req
          /\ Goto(u, "act") \/ Goto(u, "cascade") \/ \E x : Reply(u, x)
      BY <2>2 DEF CheckUser, Auth, Get, GetReport, DeleteUser, UpdateUser, CreateUserInsert,
                  CreateCustomerInsert, LockCustomer, DeleteCustomer, AddItem, AddItemCount
    <3> QED
      BY <1>0, <1>2, <3>1 DEF Goto, Reply
  <2>3. CASE \/ CompleteSelect(u) \/ CompleteDeduct(u) \/ CompleteFinish(u) \/ AddOrder(u)
             \/ AddOrderedItem(u)
    <3>1. /\ req' = req
          /\ \E l \in {"commit", "deduct", "rollback", "finish", "line"} : Goto(u, l)
      BY <2>3 DEF CompleteSelect, CompleteDeduct, CompleteFinish, AddOrder, AddOrderedItem
    <3> QED
      BY <1>0, <1>2, <3>1 DEF Goto
  <2>4. CASE \/ CommitAndReply(u) \/ CommitFails(u) \/ RollbackAndReply(u)
             \/ StatementFails(u) \/ GetFails(u)
    <3>1. /\ req' = req
          /\ Goto(u, "rollback") \/ \E x : Reply(u, x)
      BY <2>0, <2>4 DEF CommitAndReply, CommitFails, RollbackAndReply, StatementFails,
                        GetFails
    <3> QED
      BY <1>0, <1>2, <3>1 DEF Goto, Reply
  <2> QED
    BY <1>2, <2>1, <2>2, <2>3, <2>4, <2>5 DEF Act
<1>3. ASSUME NEW u \in Threads, Receive(u)
      PROVE  pc'[t] = pc[t] /\ req'[t] = req[t]
  BY <1>0, <1>3 DEF Receive
<1>4. CASE UNCHANGED vars
  BY <1>1, <1>4 DEF vars
<1>5. ~ServerDies
  BY DEF ServerDies, Dies
<1> QED
  BY <1>1, <1>2, <1>3, <1>4, <1>5 DEF Next

LEMMA AccountsInductive == Spec => [](IInv /\ AInv)
<1>1. Init => AInv
  BY FirstRowsAssumption DEF Init, DatabaseInit, AInv
<1>2. IInv /\ AInv /\ [Next]_vars => AInv'
  <2> SUFFICES ASSUME IInv, AInv, [Next]_vars PROVE AInv'
    OBVIOUS
  <2> QED
    BY AccountsTyped, CustomersTyped, AnswersTyped, InsertsSeen DEF AInv
<1> QED
  BY <1>1, <1>2, Inductive, PTL DEF Spec

(* The tables hold what their columns take, counts are never negative, and *)
(* only a thread in a transaction holds rows (db.sql:1-99, Request.hpp).   *)
THEOREM TypeCorrect == Spec => []TypeOK
<1>1. IInv /\ SInv /\ AInv => TypeOK
  BY DEF TypeOK, IInv, SInv, AInv, Typed, StockTyped, LocksTyped, Each, Placed, Labels
<1> QED
  BY <1>1, StockInductive, AccountsInductive, PTL

-----------------------------------------------------------------------------
(* With one thread only, nothing happens between the statements of a       *)
(* handler.  What the handlers look at then is still so when they act.     *)
(* An order that a request is about to take was not taken before.          *)
NotYetTaken(t) ==
    /\ req[t].op = "complete_order"
    /\ \/ pc[t] \in {"deduct", "finish"}
       \/ pc[t] = "commit" /\ tx[t].stock # <<>>
    /\ orders[req[t].arg] # NoRow
    => ~orders[req[t].arg].done

OnceInv == DeductedOnce /\ \A t \in Threads : NotYetTaken(t)

LEMMA StepNotYetTaken ==
    ASSUME OneThread, IInv, NEW t \in Threads, Moves(t), NotYetTaken(t)
    PROVE  NotYetTaken(t)'
<1>0. /\ pc \in [Threads -> Labels] /\ tx = [u \in Threads |-> tx[u]] /\ Placed(t)
      /\ req = [u \in Threads |-> req[u]]
  BY DEF IInv, Typed, Shaped, Each
<1>1. CASE Receive(t) \/ Quiet(t) \/ Deletes(t) \/ GivesUp(t)
  <2>1. pc'[t] \in {"idle", "check", "act", "insert", "cascade", "rollback"}
    BY <1>0, <1>1 DEF Receive, Quiet, Deletes, GivesUp
  <2> QED
    BY <2>1 DEF NotYetTaken
<1>2. CASE CompleteSelect(t)
  <2>1. tx'[t].stock = <<>> /\ UNCHANGED <<orders, req>>
    BY <1>2, Selected, NoCounts
  <2>2. orders[req[t].arg] # NoRow /\ orders[req[t].arg].done => pc'[t] = "commit"
    BY <1>0, <1>2 DEF CompleteSelect, Goto
  <2> QED
    BY <2>1, <2>2 DEF NotYetTaken
<1>3. CASE CompleteDeduct(t)
  <2>1. /\ pc[t] = "deduct" /\ req[t].op = "complete_order"
        /\ orders' = orders /\ req' = req
    BY <1>3, Deducted
  <2>2. orders[req[t].arg] # NoRow => ~orders[req[t].arg].done
    BY <2>1 DEF NotYetTaken
  <2> QED
    BY <2>1, <2>2 DEF NotYetTaken
<1>4. CASE CompleteFinish(t)
  <2>1. /\ pc[t] = "finish" /\ req[t].op = "complete_order"
        /\ orders' = orders /\ req' = req
    BY <1>4, Finished
  <2>2. orders[req[t].arg] # NoRow => ~orders[req[t].arg].done
    BY <2>1 DEF NotYetTaken
  <2> QED
    BY <2>1, <2>2 DEF NotYetTaken
<1>5. CASE AddOrder(t) \/ AddOrderedItem(t)
  <2>1. req'[t].op = "add_order"
    BY <1>5, OrderAdded, LineAdded
  <2> QED
    BY <2>1 DEF NotYetTaken
<1>6. CASE CommitAndReply(t) \/ Reverts(t)
  <2>1. pc'[t] = "idle"
    BY <1>0, <1>6 DEF CommitAndReply, Reverts, Reply
  <2> QED
    BY <2>1 DEF NotYetTaken
<1>7. CASE LocksMore(t)
  BY <1>7 DEF LocksMore, NotYetTaken
<1> QED
  BY <1>1, <1>2, <1>3, <1>4, <1>5, <1>6, <1>7 DEF Moves

LEMMA StepOnce ==
    ASSUME OneThread, IInv, OnceInv, [Next]_vars
    PROVE  OnceInv'
<1>0. deductions \in [OrderIds -> Nat]
  BY DEF IInv, Typed
<1>1. CASE UNCHANGED vars
  BY <1>1 DEF OnceInv, DeductedOnce, NotYetTaken, vars, tables, history
<1>2. CASE Restarts
  BY <1>2 DEF Restarts, OnceInv, DeductedOnce, NotYetTaken
<1>3. ASSUME NEW t \in Threads, Moves(t)
      PROVE  OnceInv'
  <2>1. \A u \in Threads : u = t
    BY DEF OneThread
  <2>2. \A u \in Threads : NotYetTaken(u)'
    BY <1>3, <2>1, StepNotYetTaken DEF OnceInv
  <2>3. DeductedOnce'
    <3>1. CASE deductions' = deductions
      BY <3>1 DEF OnceInv, DeductedOnce
    <3>2. CASE deductions' # deductions
      <4>1. PICK u \in Threads : CommitAndReply(u)
        BY <3>2, OrdersChange DEF Deletes
      <4>2. /\ req[u].op = "complete_order" /\ DOMAIN tx[u].orders # {}
            /\ deductions' = [deductions EXCEPT ![req[u].arg] = @ + 1]
            /\ pc[u] = "commit"
        BY <3>2, <4>1, Counted, Committed
      <4>3. PICK o \in DOMAIN tx[u].orders : TRUE
        BY <4>2
      <4>4. o = req[u].arg /\ o \in OrderIds /\ orders[o] \in OrderRows
        BY <4>2, <4>3, CompletedRow
      <4>5. tx[u].stock # <<>>
        BY <4>2 DEF IInv, Each, Completing
      <4>6. orders[o] # NoRow /\ ~orders[o].done
        BY <4>2, <4>4, <4>5, NoRowAssumption DEF OnceInv, NotYetTaken
      <4>7. deductions[o] = 0
        BY <1>0, <4>4, <4>6 DEF IInv, DoneIffDeducted
      <4>8. deductions' = [deductions EXCEPT ![o] = 1]
        BY <1>0, <4>2, <4>4, <4>7
      <4> QED
        BY <1>0, <4>4, <4>8 DEF OnceInv, DeductedOnce
    <3> QED
      BY <3>1, <3>2
  <2> QED
    BY <2>2, <2>3 DEF OnceInv
<1> QED
  BY <1>1, <1>2, <1>3, Steps

(* One thread takes no order from the stock twice (the check at            *)
(* db.sql:250); two threads may.                                           *)
THEOREM TakenOnce ==
    ASSUME OneThread
    PROVE  Spec => []DeductedOnce
<1>1. Init => OnceInv
  BY DEF Init, OnceInv, DeductedOnce, NotYetTaken
<1>2. IInv /\ OnceInv /\ [Next]_vars => OnceInv'
  BY StepOnce
<1>3. OnceInv => DeductedOnce
  BY DEF OnceInv
<1> QED
  BY <1>1, <1>2, <1>3, Inductive, PTL DEF Spec

-----------------------------------------------------------------------------
(* Shop: what a row is there, and what the tables are.                     *)
LEMMA ShopRowIs ==
    ASSUME NEW row \in OrderRows
    PROVE  /\ row # NoRow /\ ShopRow(row) # NoRow
           /\ ShopRow(row) \in ShopRows
           /\ ShopRow(row) = [tel  |-> row.tel,
                              need |-> [d \in Distributors |-> LinesOf(row, d)],
                              done |-> row.done]
<1>1. row # NoRow
  BY NoRowAssumption
<1>2. ShopRow(row) = [tel  |-> row.tel,
                      need |-> [d \in Distributors |-> LinesOf(row, d)],
                      done |-> row.done]
  BY <1>1 DEF ShopRow
<1>3. [d \in Distributors |-> LinesOf(row, d)] \in [Distributors -> Nat]
  BY LinesCounted
<1>4. ShopRow(row) \in ShopRows
  BY <1>2, <1>3 DEF ShopRows, OrderRows
<1> QED
  BY <1>1, <1>2, <1>4, ShopRowAssumption

LEMMA NoShopRow == ShopRow(NoRow) = NoRow
  BY DEF ShopRow

(* An order with lines needs something of some distributor.                *)
LEMMA NeedsGiven ==
    ASSUME NEW row \in OrderRows, Ordered(row) # {}
    PROVE  \E d \in Distributors : LinesOf(row, d) > 0
<1>1. PICK i \in Items : row.lines[i] > 0
  BY DEF Ordered
<1> DEFINE S == {j \in Items : Distributor[j] = Distributor[i]}
<1>2. IsFiniteSet(S) /\ IsFiniteSet(S \ {i})
  BY ItemsAssumption, FS_Subset
<1>3. \A j \in S : row.lines[j] \in Nat
  BY DEF OrderRows, Lines
<1>4. SumFunctionOnSet(row.lines, S) =
         row.lines[i] + SumFunctionOnSet(row.lines, S \ {i})
  BY <1>2, <1>3, SumRemove
<1>5. SumFunctionOnSet(row.lines, S \ {i}) \in Nat
  BY <1>2, <1>3, SumType
<1>6. SumFunctionOnSet(row.lines, S) > 0
  BY <1>1, <1>3, <1>4, <1>5
<1>7. LinesOf(row, Distributor[i]) > 0
  BY <1>6 DEF LinesOf
<1> QED
  BY <1>7 DEF Distributors

(* The tables as the shop sees them.                                       *)
ShopOrders == [o \in OrderIds |-> ShopRow(orders[o])]
ShopTotal == [d \in Distributors |-> StockOf(d)]

TotalCounted == \A d \in Distributors : StockOf(d) \in Nat

LEMMA TotalTyped == SInv => TotalCounted
  BY StockSummed DEF SInv, StockTyped, TotalCounted

LEMMA ShopTyped ==
    ASSUME IInv, SInv
    PROVE  /\ ShopOrders \in [OrderIds -> ShopRows \cup {NoRow}]
           /\ \A o \in OrderIds :
                 /\ ShopOrders[o] = NoRow <=> orders[o] = NoRow
                 /\ orders[o] # NoRow => /\ orders[o] \in OrderRows
                                         /\ ShopOrders[o].tel = orders[o].tel
                                         /\ ShopOrders[o].done = orders[o].done
           /\ ShopTotal \in [Distributors -> Nat]
<1>1. orders \in [OrderIds -> OrderRows \cup {NoRow}]
  BY DEF IInv, Typed
<1>2. ASSUME NEW o \in OrderIds
      PROVE  /\ ShopOrders[o] \in ShopRows \cup {NoRow}
             /\ ShopOrders[o] = NoRow <=> orders[o] = NoRow
             /\ orders[o] # NoRow => /\ orders[o] \in OrderRows
                                     /\ ShopOrders[o].tel = orders[o].tel
                                     /\ ShopOrders[o].done = orders[o].done
  <2>1. ShopOrders[o] = ShopRow(orders[o])
    BY DEF ShopOrders
  <2>2. CASE orders[o] = NoRow
    BY <2>1, <2>2, NoShopRow
  <2>3. CASE orders[o] # NoRow
    BY <1>1, <2>1, <2>3, ShopRowIs
  <2> QED
    BY <2>2, <2>3
<1> QED
  BY <1>2, TotalTyped DEF ShopOrders, ShopTotal, TotalCounted

(* What a step does to the tables, as the shop sees it.                    *)
LEMMA OrdersSeen ==
    ASSUME orders' = orders PROVE ShopOrders' = ShopOrders
  BY DEF ShopOrders

LEMMA TotalSeen ==
    ASSUME stock' = stock PROVE ShopTotal' = ShopTotal
  BY DEF ShopTotal, StockOf, Stocked

LEMMA SupplySeen ==
    ASSUME IInv, SInv, SInv', NEW t \in Threads, AddItem(t) \/ AddItemCount(t)
    PROVE  UNCHANGED Promise!vars \/ Promise!Supply
<1>1. UNCHANGED <<customers, orders>>
  BY DEF AddItem, AddItemCount
<1>2. CASE UNCHANGED stock
  BY <1>1, <1>2, OrdersSeen, TotalSeen DEF Promise!vars, ShopOrders, ShopTotal
<1>3. CASE ~UNCHANGED stock
  <2>1. PICK i, n : Supplied(i, n)
    BY <1>3, ItemAdded
  <2> DEFINE d == Distributor[i]
             g == n - (IF stock[i] = NoRow THEN 0 ELSE stock[i])
  <2>2. d \in Distributors /\ g \in Counts \cup {0}
    BY <2>1 DEF Supplied, Distributors
  <2>3. \A e \in Distributors : StockOf(e) \in Nat /\ StockOf(e)' \in Nat
    <3>1. (SInv => TotalCounted)'
      BY TotalTyped, PTL
    <3> QED
      BY <3>1, TotalTyped DEF TotalCounted
  <2>4. /\ \A e \in Distributors \ {d} : StockOf(e)' = StockOf(e)
        /\ StockOf(d)' = StockOf(d) + g
    <3>1. n \in Int /\ (stock[i] = NoRow \/ stock[i] \in Int)
      BY <2>1 DEF Supplied, SInv, StockTyped
    <3> QED
      BY <2>1, <2>2, <2>3, <3>1, SuppliedSum
  <2>5. ShopOrders' = ShopOrders /\ ShopTotal' = [e \in Distributors |-> StockOf(e)']
    BY <1>1, OrdersSeen DEF ShopTotal
  <2>6. CASE g = 0
    <3>1. ShopTotal' = ShopTotal
      BY <2>2, <2>3, <2>4, <2>5, <2>6 DEF ShopTotal
    <3> QED
      BY <1>1, <2>5, <3>1 DEF Promise!vars, ShopOrders, ShopTotal
  <2>7. CASE g # 0
    <3>1. g \in Counts /\ ShopTotal[d] + g >= 0
      BY <2>2, <2>3, <2>4, <2>7 DEF ShopTotal
    <3>2. ShopTotal' = [ShopTotal EXCEPT ![d] = @ + g]
      BY <2>2, <2>4, <2>5 DEF ShopTotal
    <3> HIDE DEF d, g
    <3> QED
      BY <1>1, <2>2, <2>5, <3>1, <3>2 DEF Promise!Supply, ShopOrders, ShopTotal
  <2> QED
    BY <2>6, <2>7
<1> QED
  BY <1>2, <1>3

LEMMA EnrollSeen ==
    ASSUME IInv, NEW t \in Threads, CreateCustomerInsert(t)
    PROVE  Promise!Enroll
<1>1. /\ customers' = customers \cup {req[t].arg}
      /\ UNCHANGED <<orders, stock>>
  BY DEF CreateCustomerInsert
<1>2. req[t].arg \in Tels
  BY RequestsAssumption DEF CreateCustomerInsert, At, IInv, Each, Placed
<1> QED
  BY <1>1, <1>2, OrdersSeen, TotalSeen DEF Promise!Enroll, ShopOrders, ShopTotal

LEMMA LeaveSeen ==
    ASSUME IInv, SInv, NEW t \in Threads, DeleteCustomer(t)
    PROVE  UNCHANGED Promise!vars \/ Promise!Leave
<1> DEFINE c == req[t].arg
<1>1. UNCHANGED stock
  BY DEF DeleteCustomer
<1>2. CASE UNCHANGED <<customers, orders>>
  BY <1>1, <1>2, OrdersSeen, TotalSeen DEF Promise!vars, ShopOrders, ShopTotal
<1>3. CASE ~UNCHANGED <<customers, orders>>
  <2>1. /\ customers' = customers \ {c}
        /\ orders' = [o \in OrderIds |->
                         IF orders[o] # NoRow /\ orders[o].tel = c THEN NoRow ELSE orders[o]]
    BY <1>3 DEF DeleteCustomer
  <2>2. c \in customers
    <3> SUFFICES ASSUME c \notin customers PROVE FALSE
      OBVIOUS
    <3>1. \A o \in OrderIds : orders[o] # NoRow => orders[o].tel # c
      BY DEF IInv, OrdersHaveCustomers
    <3>2. customers' = customers
      BY <2>1
    <3>3. orders' = orders
      BY <2>1, <3>1 DEF IInv, Typed
    <3> QED
      BY <1>3, <3>2, <3>3
  <2>3. ShopOrders' = [o \in OrderIds |->
                          IF ShopOrders[o] # NoRow /\ ShopOrders[o].tel = c
                            THEN NoRow ELSE ShopOrders[o]]
    <3>1. ShopOrders' = [o \in OrderIds |-> ShopRow(orders'[o])]
      BY DEF ShopOrders
    <3>2. ASSUME NEW o \in OrderIds
          PROVE  ShopRow(orders'[o]) =
                    IF ShopOrders[o] # NoRow /\ ShopOrders[o].tel = c
                      THEN NoRow ELSE ShopOrders[o]
      <4>1. ShopOrders[o] = ShopRow(orders[o])
        BY DEF ShopOrders
      <4> QED
        BY <2>1, <4>1, ShopTyped, NoShopRow
    <3> QED
      BY <3>1, <3>2
  <2> HIDE DEF c
  <2> QED
    BY <1>1, <2>1, <2>2, <2>3, TotalSeen DEF Promise!Leave, ShopOrders, ShopTotal
<1> QED
  BY <1>2, <1>3

(* Fields of rows, whatever they hold.                                     *)
LEMMA RowDone ==
    ASSUME NEW c, NEW n, NEW b, NEW w
    PROVE  [[tel |-> c, need |-> n, done |-> b] EXCEPT !.done = w] =
              [tel |-> c, need |-> n, done |-> w]
  OBVIOUS

LEMMA RowPlaced ==
    ASSUME NEW C, NEW N, NEW D, NEW c \in C, NEW n \in N, NEW w \in D
    PROVE  /\ [tel |-> c, need |-> n, done |-> w] \in [tel : C, need : N, done : D]
           /\ [tel |-> c, need |-> n, done |-> w].need = n
  OBVIOUS

(* A commit that completes an order, as the shop sees it ...               *)
LEMMA CompleteSeen ==
    ASSUME IInv, SInv, OneThread => OnceInv, NEW t \in Threads, CommitAndReply(t),
           req[t].op = "complete_order", DOMAIN tx[t].orders # {}
    PROVE  Promise!Complete
<1> DEFINE o == req[t].arg
           row == orders[o]
<1>1. pc[t] = "commit" /\ tx[t].stock # <<>>
  BY Committed DEF IInv, Each, Completing
<1>2. /\ DOMAIN tx[t].orders = {o} /\ o \in OrderIds
      /\ row \in OrderRows /\ tx[t].orders[o] \in OrderRows
      /\ tx[t].orders[o].done = TRUE
      /\ tx[t].orders[o].tel = row.tel /\ tx[t].orders[o].lines = row.lines
  <2>1. PICK p \in DOMAIN tx[t].orders : TRUE
    OBVIOUS
  <2>2. \A q \in DOMAIN tx[t].orders : q = o
    BY <1>1, CompletedRow
  <2>3. tx[t].orders[o].done \in BOOLEAN
    BY <1>1, <2>1, <2>2, CompletedRow DEF OrderRows
  <2> QED
    BY <1>1, <2>1, <2>2, <2>3, CompletedRow
<1>3. row # NoRow /\ (OneThread => ~row.done)
  BY <1>1, <1>2, NoRowAssumption DEF OnceInv, NotYetTaken
<1>4. ShopOrders' = [ShopOrders EXCEPT ![o].done = TRUE]
  <2>1. \A p \in OrderIds : orders'[p] = IF p = o THEN tx[t].orders[o] ELSE orders[p]
    BY <1>2, Committed
  <2>2. ShopRow(tx[t].orders[o]) = [ShopRow(row) EXCEPT !.done = TRUE]
    <3> DEFINE need == [d \in Distributors |-> LinesOf(row, d)]
    <3>1. \A d : LinesOf(tx[t].orders[o], d) = LinesOf(row, d)
      BY <1>2 DEF LinesOf
    <3>2. ShopRow(row) = [tel |-> row.tel, need |-> need, done |-> row.done]
      BY <1>2, ShopRowIs
    <3>3. ShopRow(tx[t].orders[o]) = [tel |-> row.tel, need |-> need, done |-> TRUE]
      BY <1>2, <3>1, ShopRowIs
    <3> HIDE DEF need, row
    <3>4. [[tel |-> row.tel, need |-> need, done |-> row.done] EXCEPT !.done = TRUE] =
             [tel |-> row.tel, need |-> need, done |-> TRUE]
      BY RowDone, Zenon
    <3> QED
      BY <3>2, <3>3, <3>4, Zenon
  <2>3. ShopOrders' = [p \in OrderIds |-> ShopRow(orders'[p])]
    BY DEF ShopOrders
  <2> QED
    BY <1>2, <2>1, <2>2, <2>3 DEF ShopOrders
<1>5. ~UNCHANGED <<stock, supplied, shipped>>
  <2>1. shipped' = [d \in Distributors |-> shipped[d] + LinesOf(row, d)]
    BY <1>1 DEF CommitAndReply
  <2>2. PICK d \in Distributors : LinesOf(row, d) > 0
    <3>1. Ordered(row) # {}
      BY <1>2, NoRowAssumption DEF IInv, LinesGiven
    <3> QED
      BY <1>2, <3>1, NeedsGiven
  <2>3. shipped[d] \in Int /\ LinesOf(row, d) \in Nat
    BY <1>2, LinesCounted DEF SInv, StockTyped
  <2>4. shipped'[d] # shipped[d]
    BY <2>1, <2>2, <2>3
  <2> QED
    BY <2>4
<1>6. \A d \in Distributors :
         /\ StockOf(d)' \in Nat /\ StockOf(d) \in Nat /\ LinesOf(row, d) \in Nat
         /\ StockOf(d) - LinesOf(row, d) <= StockOf(d)'
         /\ StockOf(d)' <= StockOf(d)
         /\ Strict => StockOf(d)' = StockOf(d) - LinesOf(row, d)
  <2> SUFFICES ASSUME NEW d \in Distributors
               PROVE  /\ StockOf(d)' \in Nat /\ StockOf(d) \in Nat /\ LinesOf(row, d) \in Nat
                      /\ StockOf(d) - LinesOf(row, d) <= StockOf(d)'
                      /\ StockOf(d)' <= StockOf(d)
                      /\ Strict => StockOf(d)' = StockOf(d) - LinesOf(row, d)
    OBVIOUS
  <2>1. StockOf(d) \in Nat /\ LinesOf(row, d) \in Nat
    BY <1>2, LinesCounted, TotalTyped DEF TotalCounted
  <2>2. /\ StockOf(d)' \in Nat
        /\ StockOf(d)' >= StockOf(d) - LinesOf(row, d)
        /\ StockOf(d)' <= StockOf(d)
        /\ Strict => StockOf(d)' = StockOf(d) - LinesOf(row, d)
    BY <1>5, CommittedSum
  <2> QED
    BY <2>1, <2>2
<1>7. /\ ShopOrders[o] # NoRow /\ ShopOrders[o].done = row.done
      /\ \A d \in Distributors : ShopOrders[o].need[d] = LinesOf(row, d)
  BY <1>2, ShopRowIs DEF ShopOrders
<1>8. customers' = customers
  BY Committed
<1> HIDE DEF o, row
<1>9. /\ ShopTotal' = [d \in Distributors |-> StockOf(d)']
      /\ ShopTotal' \in [Distributors -> Nat]
  BY <1>6 DEF ShopTotal
<1>10. \A d \in Distributors :
          /\ ShopTotal[d] - ShopOrders[o].need[d] <= ShopTotal'[d]
          /\ ShopTotal'[d] <= ShopTotal[d]
          /\ Strict => ShopTotal'[d] = ShopTotal[d] - ShopOrders[o].need[d]
  BY <1>6, <1>7, <1>9 DEF ShopTotal
<1>11. o \in OrderIds /\ ShopOrders[o] # NoRow /\ (OneThread => ~ShopOrders[o].done)
  BY <1>2, <1>3, <1>7
<1> QED
  BY <1>4, <1>8, <1>9, <1>10, <1>11 DEF Promise!Complete, ShopOrders, ShopTotal

(* ... and one that adds an order.                                         *)
LEMMA PlaceSeen ==
    ASSUME IInv, SInv, NEW t \in Threads, CommitAndReply(t), req[t].op = "add_order"
    PROVE  Promise!Place
<1>1. pc[t] = "commit" /\ customers' = customers
  BY Committed
<1>2. PICK o \in DOMAIN tx[t].orders : \A p \in DOMAIN tx[t].orders : p = o
  BY <1>1 DEF IInv, Each, Adding
<1> DEFINE row == tx[t].orders[o]
<1>3. /\ o \in OrderIds /\ orders[o] = NoRow
      /\ row \in OrderRows /\ row.done = FALSE
      /\ row.tel \in customers /\ row.lines = req[t].arg.lines
  BY <1>1, <1>2, AddedRow DEF OrderRows
<1>4. \E d \in Distributors : LinesOf(row, d) > 0
  <2>1. Ordered(row) # {}
    BY <1>1, <1>3, RequestsAssumption DEF Ordered, IInv, Each, Placed
  <2> HIDE DEF row
  <2> QED
    BY <1>3, <2>1, NeedsGiven
<1>5. UNCHANGED stock
  BY CountsCommitted
<1>6. ShopOrders' = [ShopOrders EXCEPT ![o] = ShopRow(row)]
  <2>1. \A p \in OrderIds : orders'[p] = IF p = o THEN row ELSE orders[p]
    BY <1>2, Committed
  <2>2. ShopOrders' = [p \in OrderIds |-> ShopRow(orders'[p])]
    BY DEF ShopOrders
  <2> HIDE DEF row
  <2> QED
    BY <1>3, <2>1, <2>2 DEF ShopOrders
<1>7. /\ ShopRow(row) = [tel  |-> row.tel,
                         need |-> [d \in Distributors |-> LinesOf(row, d)],
                         done |-> row.done]
      /\ [d \in Distributors |-> LinesOf(row, d)] \in [Distributors -> Nat]
      /\ ShopOrders[o] = NoRow
  BY <1>3, ShopRowIs, LinesCounted, NoShopRow DEF ShopOrders
<1> HIDE DEF row
<1>8. /\ ShopOrders'[o] = ShopRow(row)
      /\ ShopRow(row) \in [tel : customers, need : [Distributors -> Nat], done : {FALSE}]
      /\ \E d \in Distributors : ShopRow(row).need[d] > 0
  <2>1. ShopOrders'[o] = ShopRow(row)
    BY <1>3, <1>6 DEF ShopOrders
  <2> DEFINE need == [d \in Distributors |-> LinesOf(row, d)]
  <2>2. /\ ShopRow(row) = [tel |-> row.tel, need |-> need, done |-> FALSE]
        /\ need \in [Distributors -> Nat] /\ row.tel \in customers
    BY <1>3, <1>7
  <2>3. \E d \in Distributors : need[d] > 0
    BY <1>4
  <2> HIDE DEF need
  <2>4. /\ ShopRow(row) \in [tel : customers, need : [Distributors -> Nat], done : {FALSE}]
        /\ ShopRow(row).need = need
    BY <2>2, RowPlaced
  <2> QED
    BY <2>1, <2>3, <2>4
<1>9. ShopTotal' = ShopTotal
  BY <1>5, TotalSeen
<1> QED
  BY <1>1, <1>3, <1>6, <1>7, <1>8, <1>9 DEF Promise!Place, ShopOrders, ShopTotal

(* A commit of nothing changes nothing.                                    *)
LEMMA NothingSeen ==
    ASSUME IInv, SInv, NEW t \in Threads, CommitAndReply(t),
           req[t].op = "complete_order", DOMAIN tx[t].orders = {}
    PROVE  UNCHANGED Promise!vars
<1>1. pc[t] = "commit" /\ customers' = customers
  BY Committed
<1>2. tx[t].stock = <<>>
  BY <1>1 DEF IInv, Each, Completing
<1>3. UNCHANGED stock
  BY <1>2, CountsCommitted
<1>4. orders' = orders
  BY Committed DEF IInv, Typed
<1> QED
  BY <1>1, <1>3, <1>4, OrdersSeen, TotalSeen DEF Promise!vars, ShopOrders, ShopTotal

-----------------------------------------------------------------------------
RInv == IInv /\ SInv /\ (OneThread => OnceInv)

LEMMA ShopInductive == Spec => []RInv
<1>1. Init => (OneThread => OnceInv)
  BY DEF Init, OnceInv, DeductedOnce, NotYetTaken
<1>2. IInv /\ (OneThread => OnceInv) /\ [Next]_vars => (OneThread => OnceInv)'
  <2> SUFFICES ASSUME IInv, OneThread => OnceInv, [Next]_vars, OneThread PROVE OnceInv'
    BY DEF OneThread
  <2> QED
    BY StepOnce
<1>3. Init /\ []IInv /\ [][Next]_vars => [](OneThread => OnceInv)
  BY <1>1, <1>2, PTL
<1> QED
  BY <1>3, Inductive, StockInductive, PTL DEF Spec, RInv

(* Every step of the handlers is a step of the shop or none: Requests      *)
(* implements Shop (Request.hpp:460-681, db.sql:193-272).                  *)
THEOREM ImplementsTheShop == Spec => ImplementsShop
<1>1. Init => Promise!Init
  <2> SUFFICES ASSUME Init PROVE Promise!Init
    OBVIOUS
  <2>1. IInv /\ SInv
    BY InitIInv, InitSInv
  <2>2. customers = FirstTels /\ FirstTels \subseteq Tels
    BY FirstRowsAssumption DEF Init, DatabaseInit
  <2>3. \A o \in OrderIds : ShopOrders[o] # NoRow => ShopOrders[o].tel \in customers
    BY <2>1, ShopTyped DEF IInv, OrdersHaveCustomers
  <2>4. /\ ShopOrders \in [OrderIds -> ShopRows \cup {NoRow}]
        /\ ShopTotal \in [Distributors -> Nat]
    BY <2>1, ShopTyped
  <2> QED
    BY <2>2, <2>3, <2>4 DEF Promise!Init, Promise!Rows, ShopRows, ShopOrders, ShopTotal
<1>2. RInv /\ RInv' /\ [Next]_vars => [Promise!Next]_(Promise!vars)
  <2> SUFFICES ASSUME RInv, RInv', [Next]_vars PROVE [Promise!Next]_(Promise!vars)
    OBVIOUS
  <2>0. /\ IInv /\ SInv /\ (OneThread => OnceInv)
        /\ SInv'
    BY DEF RInv
  <2>1. CASE UNCHANGED <<customers, orders, stock>>
    BY <2>1, OrdersSeen, TotalSeen DEF Promise!vars, ShopOrders, ShopTotal
  <2>2. ASSUME NEW t \in Threads, \/ AddItem(t) \/ AddItemCount(t) \/ CreateCustomerInsert(t)
                                  \/ DeleteCustomer(t) \/ CommitAndReply(t)
        PROVE  [Promise!Next]_(Promise!vars)
    <3>1. CASE AddItem(t) \/ AddItemCount(t)
      BY <2>0, <3>1, SupplySeen DEF Promise!Next
    <3>2. CASE CreateCustomerInsert(t)
      BY <2>0, <3>2, EnrollSeen DEF Promise!Next
    <3>3. CASE DeleteCustomer(t)
      BY <2>0, <3>3, LeaveSeen DEF Promise!Next
    <3>4. CASE CommitAndReply(t)
      <4>1. req[t].op \in {"complete_order", "add_order"}
        BY <2>0, <3>4, Committed
      <4> QED
        BY <2>0, <3>4, <4>1, CompleteSeen, PlaceSeen, NothingSeen DEF Promise!Next
    <3> QED
      BY <2>2, <3>1, <3>2, <3>3, <3>4
  <2>3. CASE UNCHANGED vars
    BY <2>1, <2>3 DEF vars, tables
  <2> QED
    BY <2>1, <2>2, <2>3, TableMoves
<1> QED
  BY <1>1, <1>2, ShopInductive, PTL DEF Spec, ImplementsShop, Promise!Spec
=============================================================================
