# A specification of pc_course

pc_course is a shop for computer parts: a server (boost::asio, mysqlpp, Lua
tables as the wire format) in front of a MariaDB schema (`src/db.sql`), and a Qt
client with a panel for each rank of user. There is no documentation besides
comments, so the specification is written from the code.

Contents: [the system](#the-system) · [the modules](#the-modules) ·
[the runs](#the-runs) · [fairness](#fairness) · [disagreements](#where-code-and-comments-disagree) ·
[the proofs](#the-proofs) · [abstractions](#abstractions) ·
[not modelled](#not-modelled) · [plan](#plan)

## The system

| component | state it keeps | operations | talks to |
|---|---|---|---|
| `Connection` (server) | socket, `input_buf`, `output_str`, timer, `is_timeout` | `ReadRequest`, read handler, timer handler, `ProcessRequest`, `WriteRespone`, write handler | `Server` (`threads_props`), the request handlers, asio |
| `Request.hpp` (server) | none between calls; a transaction within one | `auth`, `get_*`, create/update/delete of users, customers and items, `complete_order`, `add_order` | the SQL connection of its thread |
| `db.sql` | the tables User, Customer, Item, NewOrder, OrderedItem | procedures, trigger `complete_order_check`, foreign keys | MariaDB, InnoDB |
| `Server` | io_context, acceptor, threads, `threads_props` | `Start`, `accept`, `Stop` | console (main), `Connection` |
| `main.cpp` (server) | the `Server`, a thread `client` | start, read "stop", join | `Server` |
| `UsersModel`, `AdminPanel` (client) | the rows of the table, a confirmation | refresh, `Insert`, `Remove` and their answers | one `ServerConnection` per request, the Qt view |
| `ServerConnection` (client) | socket, buffers, a deadline | connect, `Write`, `Read` | the server |
| `CustomersModel`, `EmployeePanel` | as UsersModel | as UsersModel | as UsersModel |
| `LoginWindow`, `User` | the credentials of the session | auth and its answer | `ServerConnection` |
| the rest | settings, formatting | | |

How they interact. `Server` runs N threads on one io_context. Every accepted
socket becomes a `Connection`, kept alive by the handlers that hold a
`shared_ptr` to it. There is no strand: any thread takes any handler. The read
handler parses a request and calls the function of its name in `Request.hpp`
with the SQL connection of the thread it is on, so handlers of different clients
interleave between SQL statements. The client has one thread and an event loop;
each request opens a connection of its own and the answer comes back as a
callback.

### What is hard about it, and what makes each part correct

* **Connection.** A timer handler and a read handler of one connection may run
  side by side. They agree through one `atomic_flag` which each accesses at a
  different moment of its work: the read handler sets it before it cancels the
  timer, the timer handler tests it, cancels the socket and only then sets it.
  Correct means: one handler at a time owns the buffers; a request is answered
  once, or the connection is dropped; a client that is told of a timeout has had
  its time; a client that has left leaves nothing behind.
* **Request handlers and database.** Checks and writes are separate statements;
  `complete_order` and `add_order` span several in a transaction; the process
  may die in between, and transactions may wait for each other. Correct means:
  nothing is lost from the stock, orders appear and complete as a whole and once,
  an account is not overwritten, "success" is true, every request is answered.
* **Server.** The threads spin on a local of `Start`, use `threads_props` without
  a lock and must be gone before the members are destroyed. Correct means: no
  use before or after the lifetime, `Start` returns, "stop" ends the process, the
  server keeps serving.
* **Client tables.** Rows change while a confirmation is open or an answer is on
  its way. Correct means: the view knows the number of rows, the rows are what
  the server has when nothing is under way, what is deleted is what was
  confirmed, never the own account.
* **Client connections.** An answer arrives in blocks, and each is searched for
  the delimiter from a place that is computed with unsigned numbers. Correct
  means: an answer that has arrived is found.
* **Logging in.** The credentials are read from the widgets when the answer
  arrives, and nothing stops the user from editing or pressing again. Closed
  windows are deleted later, and message boxes run event loops inside handlers.
  Correct means: a session is that of the user the server checked, its panel is
  that of the user's rank, there is one, and no handler uses a window that is gone.

`PROJECT.json` lists every hazard with its line and the properties aimed at it.

## The modules

### Connection, Exchange

`Connection.tla` follows one connection from the accept handler to the moment
nothing refers to it. `pc[t]` is where thread `t` is in the handler it runs,
`job[t]` the handler and its `error_code`, `ready` the queue of the io_context,
`rd`/`wr`/`waits` the operations handed to the reactor.

| action | code (Connection.cpp unless said) |
|---|---|
| `Accepted` | the accept handler, Server.cpp:88–98 |
| `ClearFlag`, `InitiateRead`, `ExpiresAfter`, `ArmTimer` | the four effects of `ReadRequest`, 77–84 and 120–122 |
| `Claim`, `Report`, `CancelTimer` | the read handler, 84–111 |
| `ProcessRequest` | 112–177: the request is run and `async_write` started |
| `Written` | the write handler, 135–147 |
| `TestFlag`, `AbortSocket`, `MarkTimeout` | the timer handler, 121–129: test, cancel, set |
| `Dispatch`, `Resume`, `ReadDone`, `ReadChunk`, `WriteDone`, `TimerFires` | asio, from how the code uses it |
| `PeerSends`, `PeerLeaves` | the client: one request at a time (ServerConnection.cpp:52–101), may close or reset |

A handler is cut at every access another thread can see: the flag, the timer,
the socket, and `remote_endpoint()`, which throws after a reset and then ends
the process (`crashed`). `round` numbers the reads, so a late timer handler can be
told from that of the present read.

`Exchange.tla` is the promise to the client: a request is being waited for
(`waiting`), being answered (`serving`), or the connection is given up (`gone`)
for good; only an answer leads back to waiting. `Connection!Phase` is the
refinement mapping and `ImplementsExchange` the refinement.

### Database, Requests, Shop

`Database.tla` holds the committed rows; `tx[t]`, the uncommitted rows and the
locks of the transaction of each thread; and `locks[t]`, what the statement it is
in has locked so far. A plain SELECT sees committed rows (a consistent read takes
no lock); INSERT, UPDATE, DELETE and foreign-key checks lock and work on the
newest row, so they wait while another transaction holds it. Locks are shared or
exclusive, and a shared one becomes exclusive when nobody else shares it.

`Requests.tla` has one action per SQL statement of a handler or of the procedure
it calls, or one per row where a statement locks several rows one after the other
(`CompleteOrder`'s UPDATE) or two tables (`DeleteCustomer`).

| action | code |
|---|---|
| `Receive` | Connection.cpp:149–177, the choice of the handler |
| `CheckUser`, `Allowed` | `check_user_existance`, Request.hpp:163–207, and the ranks given to it |
| `Auth`, `Get`, `GetReport` | the handlers that only read |
| `GetFails` | the serialisation of a query that failed, Request.hpp:20–137: the process ends |
| `DeleteUser`, `UpdateUser`, `AddItem`, `AddItemCount` | one statement each |
| `LockCustomer`, `DeleteCustomer` | one statement: the customer with its orders, then the cascade, which waits for whoever reads lines of those orders |
| `CreateUserSelect`/`Insert`, `CreateCustomerSelect`/`Insert` | the two statements of the procedures |
| `CompleteSelect` | the guard of `CompleteOrder`, db.sql:250 |
| `CompleteRead`, `CompleteShare`, `CompleteWrite`, `CompleteDeduct` | its UPDATE, db.sql:252–259: the lines and then each of their items are read under a shared lock, the items picked are locked to be written one by one, in any order, until the trigger refuses one (`Refused`) or all are done |
| `CompleteFinish` | its second UPDATE, db.sql:261 |
| `AddOrder`, `AddOrderedItem` | the first statement and the loop of `add_order` |
| `CommitAndReply`, `RollbackAndReply` | the end of the two transactions |
| `CommitFails` | a COMMIT that fails: its result is not looked at and the answer is "success" (Request.hpp:585–586, 680–681, with exceptions off, Server.cpp:44) |
| `StatementFails` | a lock wait that timed out, a lost connection, or a deadlock: the SQL server fails a statement of one of the transactions that wait for each other (`Deadlocked`) |
| `ServerDies` | the death of the process: open transactions are rolled back |

`CompleteDeduct` keeps what the SQL really does: the lines are summed per
*distributor* and the sum is taken from *one* item of that distributor, whichever
the server picks for the group (`OnePerDistributor`).

Two constants stand for settings the repository does not fix. `Strict` is
whether sql_mode has STRICT_TRANS_TABLES: with it a count below 0 is an error,
without it the count becomes 0. It also decides the fate of `add_order`, which
sends the date of expiry as the string `'FROM_UNIXTIME...'` (Request.hpp:631): in
strict mode that is an error and no order is ever added. `IdAfterCall` is
whether `insert_id()` after a CALL (Request.hpp:642) is the id the procedure
inserted; if not, the foreign key refuses the first line and the order is rolled back.

`Shop.tla` is the promise of the handlers that change customers, orders or stock: it
looks as if each request were served in one step. `Supply` adds what one request
brings, `Enroll` and `Leave` are the customers, with their orders, `Place` adds
an order that needs something, `Complete` marks one and takes what it needs.
There are no threads, transactions, locks, failures or deaths in it. `Promise` in
`Requests` is the refinement mapping: the committed orders, each with its need per
*distributor* (`LinesOf`), and the stock per distributor (`StockOf`). That is the finest
count in which the statement holds, for `CompleteOrder` does not take from each
item what was ordered of it (requests_short). `Exact` is strict sql_mode: an order takes what
it needs, otherwise there may be less. `Once` is a server with one thread: only then
is an order completed once (requests_twice).

### Server

`main` is where the main thread is (in `Start`, at the console, joining, ...),
`pc[t]` where thread `t` is: spinning on `start`, counting itself, in
`io_context::run`, in a handler, gone. Connections are here only the work they
make: `pending` operations and `queued` handlers; a handler may start up to two
more. `OutOfWork` is the condition under which `run` returns by itself.

| action | code (Server.cpp unless said) |
|---|---|
| `FirstAccept`, `Spawn`, `ConnectSql`, `Register`, `Release`, `Barrier` | `Start`, 26–59, statement by statement |
| `Spin`, `Count` | the lambda of a thread, 40–42 |
| `Accepted`, `NotAccepted` | the accept handler, 77–100: after an error nobody calls `accept` again |
| `Stop`, `Join` | `Stop` and the destructor, 61–75 |
| `JoinClient` | main.cpp:399: joining a thread that was never started throws |
| `Throws` | an exception out of a handler: `std::terminate` |

### RemoteTable, UsersModel, CustomersModel, Panels

UsersModel.cpp and CustomersModel.cpp are the same code but for names and one
request, so `RemoteTable.tla` has their state and what their steps do, and the
two modules have the actions. `Panels.tla` is a client with one of the panels open.

`table` is User or Customer on the server, `rows` the rows of the model,
`view_rows` how many rows the Qt view has been told of, `conns` what each open
connection carries (the request, the row it was made for, how far it has
come), `dialog` the open confirmation.

| action | code |
|---|---|
| `UpdateUsers`/`UpdateCustomers`, `UsersReceived`/`CustomersReceived` | `ReceiveRemoteData`, UsersModel.cpp:122–206, CustomersModel.cpp:98–180, and its answer |
| `CreateUser`/`CreateCustomer`, `UserAdded`/`CustomerAdded` | `Insert` and its answer |
| `DeleteUser`/`DeleteCustomer`, `RemoveUser`/`RemoveCustomer`, `Dismiss` | AdminPanel.cpp:64–87 and EmployeePanel.cpp: a row is selected, the box runs an event loop, `Remove` uses the row |
| `UserRemoved`/`CustomerRemoved` | the answer to `Remove`: the row *number* goes |
| `UsersRefused`/`CustomerRefused`, `Refuse`, `Lost` | another answer, a failing connection |
| `ServeAdmin`/`ServeEmployee`, `OtherClient` | the server, as in `Requests`, and other clients |

The only difference that matters is `DeleteCustomerRequest`: it is sent under
the name `delete_user` (client Requests.hpp:129), which the server refuses to an
employee, while the dialog (EmployeePanel.cpp:64–71) and the server's
`delete_customer` (Request.hpp:489–491) mean that employees can delete customers. So no
customer can be deleted from the panel, and that is also all that keeps the
employee's panel from removing a row that is not there (`RowsExist`).

### ServerConnection, Login

`ServerConnection.tla` is the search for the end of an answer
(ServerConnection.cpp:75–101) as operators: `SearchStart` is
`pre_size - delim.size() - 1` as a `size_t` of `Word` values, turned into the
`int` that `indexOf` takes, and `IsFound` is `indexOf` with its negative start.

`Login.tla` follows login windows and panels: `window` and `text` are the windows
and what is typed in them, `user` the `User` object that all later requests
name, `conns` the requests with the part of the answer that has come, `panels`
the open panels with the credentials the server confirmed for them.

The event loops are explicit. `boxes` are the open message boxes, the top one
first; each runs an event loop inside the handler that opened it, in which answers
and errors of other connections are still delivered, but no window takes input
(`Listening`). `later` are the objects given to `deleteLater`, with the depth of
the event loop that was; they go when no deeper loop runs (`Due`). What is due goes
before the user's next act, since posted events are handled before those of the
window system, but the network may come first: an answer that is ready is still
delivered to a window that is closed and not yet deleted. `crashed` is a
handler that has come back from its box into a window that is gone.

| action | code (LoginWindow.cpp unless said) |
|---|---|
| `Edit`, `CheckUserExists` | the widgets, which may be emptied again, and the button, 31–37 and 78 |
| `Auth` | the server's `auth`, as in `Requests` |
| `ReadyRead` | a block in which the delimiter is not found, ServerConnection.cpp:86–99 |
| `AuthUnreadable`, `AuthRefused`, `AuthSucceeded` | the three ends of an answer, 44–76; the first two open a box |
| `ErrorOccured` | the connection fails or is closed, ServerConnection.cpp:9–13, and the box of 41 opens |
| `CloseBox` | the user closes a box; the handler of an error goes on with `sender()->deleteLater()`, 42 |
| `DeleteConnection`, `DeleteWindow` | the deferred deletions; a window goes with its connections |
| `CloseAdminPanel`, `CloseEmployeePanel`, `CloseAccountantPanel`, `CloseWindow` | the `closeEvent`s; the accountant's panel has none, so no login window follows |

The window of `main` (`First`) lives on the stack and is only hidden, so answers
still reach it; the others have `WA_DeleteOnClose` (AdminPanel.cpp:42,
EmployeePanel.cpp:37), which is a `deleteLater`.

### How they fit together

`Connection` and `Requests` meet in `ProcessRequest`: what is one step of
`Connection` is the run of a handler in `Requests`, on the thread that took it.
`Server` has the threads on which both run. `Panels` and `Login` see the server
as its answers: `Serve*` and `Auth` are the handlers of `Requests` without
their interleaving, `Lost`/`ErrorOccured` the connection given up in `Exchange`.

`MCConnection`, `MCRequests`, `MCServer`, `MCPanels` and `MCLogin` give TLC the
instances. Each module also holds *mutants*: variants of an action with a bug
one might write (a check left out, one row too few), marked as such, part of no
specification. For each property `PROJECT.json` names one that breaks it in the
very instance in which the property is checked.

## The runs

| run | instance | checks | result |
|---|---|---|---|
| connection_two | 2 threads, 2 requests, 1 of them in pieces | `TypeOK`, `BuffersOwned`, `ImplementsExchange`, `ClosedIsReleased`, `SentIsSettled`, `ReadEndsUnlessMarked` | hold, 134,000 states |
| connection_one | 1 thread, 3 requests, 2 pieces | `StillReading`, `TimeoutIsTrue`, `ReadEnds` | hold, 9,600 |
| connection_late | 2 threads, 1 request | `TimeoutIsTrue` | **violated** |
| requests_two | 2 threads, accounts, stock and orders, 4 requests, 1 failure, 1 death | `StockConserved`, `DoneIffDeducted`, `SuccessIsTrue`, `AccountsKept`, `ImplementsShop` | hold, 912,000 |
| requests_one | 1 thread, the same, 5 requests | `DeductedOnce`, `ImplementsShop` | hold, 100,000 |
| requests_orders | 2 threads, orders and customers, lax, 3 requests, 1 failure, 1 death | `TypeOK`, `OrdersHaveCustomers`, `StockNotLost`, `OrdersWhole`, `SuccessIsTrue`, `ImplementsShop`, `Answered` | hold, 106,000 |
| requests_short | 1 thread, 1 request | `EnoughItems` | **violated** |
| requests_twice | 2 threads, 2 requests | `DeductedOnce` | **violated** |
| server | 3 threads, 2 clients, 1 failing accept | `TypeOK`, `LifetimesKept`, `PropsComplete`, `ServesOn`, `StartReturns`, `StopEnds` | hold, 28,000 |
| panels_two | 2 connections, 5 acts, 2 acts of others, 1 loss, either panel | `TypeOK`, `RowsInStep`, `QuietIsTrue`, `RowsExist` | hold, 1,823,000 |
| panels_own | 2 connections, 2 acts | `OwnAccountKept` | **violated** |
| login | 3 windows, 2 panels, 2 connections, 3 presses, answers of 2 bytes and the delimiter | `TypeOK`, `MissedAfterTwoBytes`, `UserIsConfirmed`, `OnePanelPerWindow`, `HandlersOutlived` | hold, 1,000,000 |

Why these bounds are enough to be worth something.

* *Connection.* The race is between the handlers of one read, of its timer and
  of the next read or write, so two threads and two requests show all pairs; a
  third request adds nothing that the second did not have behind it. A request
  in pieces gives the one state in which a read is neither pending nor complete.
  With one thread more requests cost little and show that no flag, timer or
  queue entry of one round disturbs a later one.
* *Requests.* Two requests show every pair of handlers; the third and fourth
  show what a pair leaves behind (an account created, an order completed or gone).
  Three items of two distributors are needed for `CompleteOrder`: two that share
  a group, and one that does not. The stock is one short for some of the orders.
  In requests_orders the lines of an order are for two distributors, so a
  completion takes two items and the locks of two completions, or of a completion
  and of a new order or a deletion, can be taken in opposite orders. Deadlocks do
  occur: a handler that tried a failed statement again and kept its locks
  (`StatementFailsAgain`, a mutant) would wait for ever on a new order that waits for it.
* *Server.* With three threads there is one not yet created, one spinning and
  one counted at the same time; two clients bring the accept loop round once,
  and a failing accept ends it.
* *Panels.* Three keys, the own one in the middle, let a row move past
  the own row in both directions. Two connections let answers come in either
  order; five acts are a refresh, a creation, a deletion and two more that
  overlap with any of them.
* *Login.* Three windows are the one that is hidden, one that is open and one
  that is to come; two connections let answers of one window or of two overlap, also one with
  the box of the other; a third press comes after both. Every
  way to cut four bytes into blocks is tried, so a block that ends within the delimiter
  and one before it are among them; the proof is for any size. `Word` is only
  larger than twice the answer: what matters is that the subtraction wraps.

`StillReading`, `TimeoutIsTrue`, `ReadEnds` and `DeductedOnce` are properties
of a server with *one* thread. With two all are violated (`TimeoutIsTrue` and `DeductedOnce` in
runs of their own). `ReadEnds` fails so: a timer handler has passed the test, the request is answered
and the next read begins; the late store (Connection.cpp:127) sets the flag, the timer of
the new read finds it set and cancels nothing, and if the client stays silent
the read is pending for ever. `ReadEndsUnlessMarked`, which holds with two
threads, says that this is the only way. The default is four threads (main.cpp:352).
`RowsExist` and
`QuietIsTrue` say what holds without waiting: the rows are true after the first refresh that
met no other request of the client and no change by others (`lone`), as long as the
client has missed no change since (`stale`). With two requests under way,
the row number kept for a deletion may be beyond the end, and an account whose
creation is answered after a refresh that already lists it is shown twice.
The last three properties of the login are about a user who presses the button once for each answer
(`again` is false), and `UserIsConfirmed` about one who does not edit meanwhile either (`edited`).
For others all three fail: the session can be that of credentials nobody checked; two
successes open two panels, from the first window because it lives on, from a
later one because its connections live until it is deleted; and a
handler can return from its box into a window that another success has closed
and had deleted.
`MissedAfterTwoBytes` says exactly when the search fails: the answer is there, and
the block before the last ended after its second byte. Answers in one block, as nearly all
are, never meet the case. A missed answer is not lost for ever: the server
closes the connection after its timeout, and the user is told of an error.
`ServesOn` ends with the first failing accept; after it the threads leave when
their connections have gone. `ReadEnds` is stated up to the first request in
pieces: a piece that is queued when the timer handler cancels the socket
leaves nothing to cancel, the read goes on and has no timer any more; the same is true of
`ReadEndsUnlessMarked`.
`StockConserved` is not claimed without strict mode, where a count is cut off at 0;
`StockNotLost` is what remains true: orders may take more than there is, but
nothing that came in disappears. `ImplementsShop` is checked three times because it says
three things: two threads and strict, two threads and lax with orders being added, and one
thread, for which `Shop` completes an order once.
`SuccessIsTrue` does not speak of `delete_user`, `delete_customer` and
`add_item_count`, which answer "success" whatever the statement did, and it excepts the
one step in which the COMMIT itself fails (`CommitFailed`): "success" is then answered
for an order that has been rolled back. That nothing half done remains is in
`DoneIffDeducted`, `OrdersWhole` and `ImplementsShop`, which make no exception.

The runs set `CHECK_DEADLOCK FALSE`: a client may stop sending, a process may be
dead, and all bounds may be used up. That nothing gets stuck before is said by the
liveness properties. Symmetry is used only where no liveness is checked, over
threads (any thread may take any handler, each has an SQL connection of its
own) and over the client's connections.

## Fairness

* `Connection!FairSpec`: weak fairness of each thread's step (`io_context::run` does not
  rest while a handler is queued, and every handler comes to an end), of the
  completion of a read or write that can complete (the reactor), and of the
  timer. Nothing makes the client send, close or answer: `ReadEnds` and
  `ClosedIsReleased` owe nothing to it.
* `Requests!FairSpec`: a thread that has a request goes on with it. A statement
  that waits for a row is not enabled, so weak fairness promises it nothing until
  the row is free. Nobody has to send requests. The only failures that have to
  happen are those of `Deadlocked`: when all of a set of transactions wait for each
  other, InnoDB fails a statement of one of them, however often that occurs (it does not
  count against `MaxFailures`). `Answered` rests on that, for the code does nothing
  against deadlocks and they do occur.
* `Server!FairSpec`: the main thread and each thread are scheduled. `Stop` is
  apart from the main thread's other steps: nobody has to type "stop". Clients and
  completions are not fair either.

## Where code and comments disagree

* **connection_late** (Connection.cpp:126–127). The timer handler sets
  `is_timeout` after it has cancelled the socket. On another thread the next
  `ReadRequest` may have cleared the flag before that store, or the cancel itself
  may hit the next read: a client is then "disconnected due to timeout" within
  its time. Setting the flag with the test, by the `test_and_set` the read
  handler uses, would remove the first of the two.
* **requests_short** (db.sql:253–257). Lines are summed by distributor and taken
  from one item. One unit of an item in stock and two ordered is no obstacle when
  another item of the distributor has enough; the trigger never sees it.
* **requests_twice** (db.sql:250). The guard of `CompleteOrder` is a plain SELECT
  inside a transaction. Two completions of one order both see it open, the
  second waits for the first one's rows and deducts again. SELECT ... FOR UPDATE
  would make it wait before it looks.
* **panels_own** (AdminPanel.cpp:71–84). The own account is excluded before the
  confirmation, which runs an event loop; `Remove` then takes the account that
  the row has *now*. In TLC's trace the answer to an earlier deletion removes a row
  above and the own account moves up; a refresh can do the same.

More, which no run of their own shows: the timer handler's comment
`//connection still reading` (Connection.cpp:125) is true with one thread only
(`StillReading`), and the late store after it can leave a read without any timer; main joins a thread it never started (main.cpp:399, `JoinClient`), so
"stop" always ends in `std::terminate`; `add_order` cannot succeed in strict mode
(Request.hpp:631); a failed COMMIT is answered "success" (Request.hpp:585, 680); the
right of a user is checked in a statement of its own (Request.hpp:165), so with
several threads a handler may act for an account that has just been deleted; an employee's
request to delete a customer has the name of another request (client
Requests.hpp:129) and is refused; a user who presses the login button twice may get two
panels or have a deleted window used (LoginWindow.cpp:42, 72).

## The proofs

All are checked by tlapm for every value of the constants that meets the named
assumptions; TLC evaluates those assumptions in the runs.

**ConnectionProofs** (from `ThreadsAssumption`, `BoundsAssumption`).
`TypeCorrect`: `Spec => []TypeOK`. `BuffersAreOwned`: `Spec => []BuffersOwned`,
the safety of a connection without a strand, for any number of threads. The idea
is a *chain*: the right to read or write is handed from the accept handler to
a read, to its handler, to the write, and so on. `BuffersOwned` says that the
chain is in one place: a queued handler, a thread, or one pending operation.
It is almost inductive by itself; `IInv` adds `TypeOK` and that only
timer handlers wait on the timer, so that what `CancelWaits` and `TimerFires` put
into the queue is never part of the chain. Four lemmas on sequences
(`TailChain`, `ConcatChain`, `AppendChain`, `CancelledWaits`) say what each change of
the queue does to it; `StepTypeOK` and `StepBuffersOwned` have a step per action.

The same module proves `TimerStrikesReading` (`StillReading`) and `TimeoutsAreTrue`
(`TimeoutIsTrue`) for a server with one thread, `OneThread`, a hypothesis about the
constant `Threads` that the instance connection_one meets; with two threads both are false
(connection_late). Then a handler runs to its end before the next one is
taken, so what matters is the *order* in the queue. `TInv` says of the thread `t`:
an accept handler comes before everything else (`AcceptFirst`); the flag is clear when a read
starts, and only until its handler has claimed it (`ClearWhileReading`); the timer handler between its test and
its store has the read still before it, whose time is over (`Striking`); from the answer to
the next read there is no timer, and what remains of the old one is cancelled and queued first (`NoTimer`); a
timer is armed for the present read, and while that lasts every timer is its
own (`Arming`, `OwnTimer`); a read handler that finds the flag set or its read aborted has its time behind it (`OwnRead`). The
lemmas `InTail`, `InAppend`, `InConcat` and `InCancelled` follow the handlers through the
queue, and there is a lemma for each group of actions under `StepTInv`.

**ServerProofs** (from `ThreadsAssumption`, `LimitsAssumption`). `TypeCorrect`;
`LifetimesAreKept`: `Spec => []LifetimesKept`; `PropsAreComplete`:
`Spec => []PropsComplete`. Neither property is inductive. `IInv` adds
`BeforeStart` (until the flag is set, threads only spin, and each created one has
its entry but the one being created), `AfterStart` (the flag is set when
the map is complete, and the object goes when
all threads have left), `CountRight` (the counter is the number of threads past the flag) and
`AllCounted` (after `Start` that is all of them). The step that matters is the
barrier: a counter equal to `Cardinality(Threads)` and a subset of that
cardinality give that the subset is everything (`FS_Subset`), so no thread
is left at `spin` or `count`.

The same module proves `ServesOnAlways`: `Spec => []ServesOn`. As long as no
accept has failed, no handler knows of a failure (`Unfailed`) and there is an
acceptor waiting or a thread about to call `accept` (`Listening`), so the
io_context has work and `run` does not return.

**ExchangeProofs** (from the assumptions of `Connection`). `Implements`:
`Spec => ImplementsExchange`, the refinement for any number of threads. `Phase` is
read off the program counters, the queue and the pending operations; `PhaseIs` shows that
the place of the chain determines it, which is the invariant of `ConnectionProofs`. With that, each
step either moves the chain and is the step of `Exchange` named in
`StepPhase`, or leaves the chain alone and stutters (`SamePhase`).

**RequestsProofs** (from `OrderIdsAssumption`, `NoRowAssumption`,
`FirstRowsAssumption`, `FirstOrdersAssumption`, `RequestsAssumption`): for any
number of threads, any requests, failures and deaths, `OrdersKeepCustomers`
(`OrdersHaveCustomers`), `DoneIsDeducted` (`DoneIffDeducted`), `OrdersAreWhole`
(`OrdersWhole`), `AccountsAreKept` (`AccountsKept`) and `SuccessesAreTrue` (`SuccessIsTrue`).
None of the first three is inductive, for what is committed was written steps before by a
transaction. `IInv` therefore says what a transaction holds at each statement:
nothing before its first write (`Placed`); for `complete_order` the row of its
order, marked, and deductions once it has come past them (`Completing`); for
`add_order` one new row with exactly the lines added so far (`Adding`). What keeps
this true while *others* step is the locks: no two transactions write one order
(`Apart`), a customer or an order that is referred to cannot be deleted
(`TelDeletable`), and a key not handed out has no order (`Fresh`). There is a lemma per
statement for its own thread (`DeductEach`, `LineEach`, `CommitEach`, ...)
and `AllStayApart`/`QuietEach` for the others. `SuccessesAreTrue` includes the exception
for the failed COMMIT that is part of its property.

**SumTheorems** (no assumption). The stock of a distributor is a sum over a set of items, by
the fold `SumFunctionOnSet`. What a fold computes is an induction over the
set; the library's induction theorems take an operator, so `SubsetInduction` states
it with a *set* of subsets instead, from the well-foundedness of strict inclusion. `SumIsPartial`
shows that the fold is the recursion it is meant to be, `SumRemove` that any element may
come first; `SumEqual`, `SumAdd`, `SumChange`, `SumZero` and `SumType` are what the stock needs.

**StockProofs** (from the assumptions of RequestsProofs, `ItemsAssumption`,
`SettingsAssumption` and, for the refinement, `ShopRowAssumption`). `SInv` adds to `IInv` what the
transactions do to the stock: what `complete_order` is going to commit is the count of one
item per distributor of the order, less all its lines of that distributor, and that
count is right *still* although others have stepped (`Takes`), because nobody
changes a locked row (`StillRight`); no two threads have written, or locked to write, one
item (`StockApart`);
items once ordered have a row (`LinesStocked`). `SuppliedSum` and `CommittedSum` turn one changed
item, or one per distributor, into the change of the sum; then

* `NoStockIsLost`: `Spec => []StockNotLost`, for either sql_mode;
* `StockIsConserved`: `Spec => []StockConserved` for `Strict`, as the run;
* `TypeCorrect`: `Spec => []TypeOK`, with `AInv` for accounts and answers;
* `TakenOnce`: `Spec => []DeductedOnce` for `OneThread`: an order about to be taken
  has not been taken (`NotYetTaken`), which is what the guard at db.sql:250 is for and
  what a second thread makes stale;
* `ImplementsTheShop`: `Spec => ImplementsShop`, for any number of threads. The invariant is
  `RInv`: `IInv`, `SInv` and, with one thread, `OnceInv`. Only five kinds of statements change what the shop sees (`ShopMoves`), and
  `SupplySeen`, `EnrollSeen`, `LeaveSeen`, `CompleteSeen` and `PlaceSeen` show each of them to be
  its step of the shop, or none.

**PanelsProofs** (from `TableAssumption`, `ListingAssumption`, `LimitsAssumption`,
`NoRequestAssumption`): all four properties of `panels_two` for any number of keys and
connections. `IInv` is `Typed` (types, `RowsInStep`, the row a request names, and which
requests a panel sends), `Lonely` (a request that has met no other is the only one, its list
is still the table, the row it is to remove is still there),
`RowsExist`, and `Informed`: when the client is not stale, the rows and the
table differ by what the one request under way says (`Differs`). `RowsInStep` needs
lemmas on `RemoveAt` and `Append` (`RemoveAtProperties`, `RemoveAtRange`, `AppendRange`).

**LoginProofs** (from `SizeAssumption`, `WordAssumption`, `CredsAssumption`,
`WindowsAssumption`, `PressesAssumption`): `TypeCorrect`, `OnlyTwoBytesMiss`
(`MissedAfterTwoBytes`), `UserConfirmed` (`UserIsConfirmed`), `OnePanel`
(`OnePanelPerWindow`), `HandlersAreOutlived` (`HandlersOutlived`), for any size of an answer,
any width of `size_t` above it and any number of windows, panels and connections.
`CompleteUnlessTwo` is the arithmetic of the search. `IInv` has three layers. `Sound` holds of every
user: types, how far each answer has been read (`ReadGrows`), that the server tells
the truth (`SuccessIsValid`), and that the
window of a connection is there (`ParentsLive`). `Orderly` holds until the button is pressed again while an
answer is awaited: one window or panel is visible (`OneVisible`); a connection that awaits its answer is the only
one and has no box above it (`OneConn`, `Awaited`); one that has its answer is about to be
deleted or its error is shown (`Settled`); the window of a box is not gone, and only
a closed window is posted for deletion (`BoxesLive`, `ClosedOutside`); each window has opened one
panel at most (`OnceEach`). `Unedited` and `PanelsConfirmed` hold until the widgets are edited as well. What
makes late deletion harmless to this user is `Settled` with `Awaited`: when a window closes, its
one connection has had its answer, and nothing can reach the window any more.

Only model-checked: liveness (`ClosedIsReleased`, `SentIsSettled`, `ReadEnds`,
`ReadEndsUnlessMarked`, `Answered`, `StartReturns`, `StopEnds`), since TLAPS has no rule for fairness and
`ENABLED`. Every invariant, action property and refinement of a passing run is a theorem.

## Abstractions

* asio: a completed operation queues its handler at the end; a call on the
  socket or the timer is one step. `async_write` completes in one piece; the end
  of the stream is only seen by reads. What comes after a failing `accept` is in
  `Server`, not in `Connection`.
* One request is one unit on the wire, whole or in pieces; Lua and text are left
  out. A field that is missing or of a wrong type is the answer `bad_config`.
* SQL: REPEATABLE READ as MariaDB has it by default (without
  innodb_snapshot_isolation, so an UPDATE after an older snapshot is not
  refused). Rows are locked one by one where a statement locks several; locks on
  gaps are left out, and so are a START TRANSACTION that fails and locks of the
  statements that write one row and commit by themselves. A lock wait that times out, a lost
  connection and a COMMIT that fails happen at most `MaxFailures` times, deadlocks
  without bound. A connection lost after the COMMIT has been carried out is not
  told apart from one that succeeds, for the answer is the same.
* A key is a model value; names, prices and dates of rows are left out. The lines of
  an order with the same item count as one line; a line has a count above 0,
  and an order without lines is the answer `bad_config`. Clients complete orders
  they know of (`Receive`).
* `supplied`, `shipped`, `deductions` (Requests; 1 at first for the orders that are
  completed already), `expired`, `round` (Connection), `lone`, `stale` (RemoteTable),
  `again`, `edited` and `opened` (Login) are history: no guard of the code reads them.
* The server lists rows in one fixed order (`Listing`): there is no ORDER BY,
  but all rows come from one key of the table. A request for the list
  names no row; its `key` is filled with `Own`.
* The client writes a request in one step. A connection that is not made
  within the second of `WaitForConnected` is one of the ways in which nothing
  happens (`Lost`, the second disjunct of `CheckUserExists`): the user is not told.
* In `Login`, login, password and rank are one value; one with an empty field is in
  `Blank`. The text of an answer is its length; the three ways to read it are
  its verdict. The boxes of the panels, which also keep the input from the
  login windows, are in `RemoteTable`.
* In `Server`, what handlers do is reduced to the operations they start.

## Not modelled

`ItemsModel` and `NewItemDialog` are unfinished (the rows are filled with empty
items, `Insert` is empty) and no panel uses them.
`Settings`, `LuaConf`, `ServerSettings`, `LuaConfSerialize`, `AsioDefs` and
`MessageBox` convert or read one value and keep no state between calls; that a message box
runs an event loop is in `RemoteTable`. Of the client's `Requests.hpp` the
requests that something sends are operators of `UsersModel`, `CustomersModel` and
`Login`. `DatabaseQuery.hpp` is
included nowhere, `Model.hpp` neither. `client_func` in the server's main is never
run.

## Plan

Done, in this order: `Connection` with `Exchange`; `Database` and `Requests` with `Shop`;
`Server`; the client's tables (`RemoteTable`, `UsersModel`, `CustomersModel`,
`Panels`); the framing of answers and logging in (`ServerConnection`, `Login`); the
proofs of all of them and of both refinements.

To come:

1. A composition of `Connection` with `Server`: one connection per client, the
   threads and the queue shared; promise: `ServesOn` and `Exchange` together.
2. The composition of `Panels` with `Exchange`, so that a request the
   client has given up may still be served after a later one.
