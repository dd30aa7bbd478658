------------------------------- MODULE Server -------------------------------
(***************************************************************************)
(* The life of the server (src/pc_course_server/Server.cpp and main.cpp):  *)
(* the main thread starts the threads and waits until they run, the        *)
(* threads run the handlers of the io_context, and "stop" on the console   *)
(* ends it all.                                                            *)
(*                                                                         *)
(* The start flag and the counter are locals of Start, which the threads   *)
(* use by reference.  threads_props is a map without a lock: the main      *)
(* thread fills it, and each handler looks its thread up with operator[].  *)
(* What the handlers of a connection do is the matter of Connection; here  *)
(* they only start operations and complete.                                *)
(***************************************************************************)
EXTENDS Integers, FiniteSets

CONSTANTS
    Threads,        \* the threads of the server
    NoThread,
    Faults,         \* may the SQL server be away, may a handler throw?
    MaxErrors,      \* bound: accepts that fail
    MaxClients,     \* bound: clients that connect
    MaxPending      \* bound: operations and handlers of all connections

ASSUME ThreadsAssumption == IsFiniteSet(Threads) /\ Threads # {} /\ NoThread \notin Threads
ASSUME LimitsAssumption ==
    Faults \in BOOLEAN /\ {MaxErrors, MaxClients, MaxPending} \subseteq Nat

VARIABLES
    main,           \* where the main thread is
    cur,            \* the thread it is creating
    start,          \* the flag the threads spin on
    count_execs,    \* how many threads have seen it
    pc,             \* where each thread is
    props,          \* threads_props: the threads that have an entry
    stopped,        \* io_context::stop has been called
    acceptor,       \* the async_accept: none, pending, or its handler queued
    pending,        \* operations of connections in the reactor
    queued,         \* handlers of connections in the io_context
    clients, errors

starting == <<cur, start, count_execs, props>>
work == <<acceptor, pending, queued, clients, errors>>
vars == <<main, starting, pc, stopped, work>>

(* The part of the main thread in which Start, and its locals, exist.      *)
InStart == {"accept", "spawn", "connect", "register", "release", "barrier"}
Handling == {"accepting", "failing", "serving"}

TypeOK ==
    /\ main \in InStart \cup {"console", "joining", "destroyed", "terminated"}
    /\ cur \in Threads \cup {NoThread}
    /\ start \in BOOLEAN /\ stopped \in BOOLEAN
    /\ count_execs \in 0..Cardinality(Threads)
    /\ pc \in [Threads -> {"none", "spin", "count", "run", "left"} \cup Handling]
    /\ props \subseteq Threads
    /\ acceptor \in {"none", "pending", "accepted", "failed"}
    /\ pending \in Nat /\ queued \in Nat
    /\ clients \in 0..MaxClients /\ errors \in 0..MaxErrors

Init ==
    /\ main = "accept"
    /\ cur = NoThread
    /\ start = FALSE
    /\ count_execs = 0
    /\ pc = [t \in Threads |-> "none"]
    /\ props = {}
    /\ stopped = FALSE
    /\ acceptor = "none"
    /\ pending = 0
    /\ queued = 0
    /\ clients = 0
    /\ errors = 0

-----------------------------------------------------------------------------
(* The main thread.                                                        *)
MainGoes(from, to) == main = from /\ main' = to

Terminate == main' = "terminated"
Alive == main # "terminated"

(* Start calls accept before there is any thread.                          *)
FirstAccept ==
    /\ MainGoes("accept", "spawn")
    /\ acceptor' = "pending"
    /\ UNCHANGED <<starting, pc, stopped, pending, queued, clients, errors>>

Spawn(t) ==
    /\ MainGoes("spawn", "connect")
    /\ pc[t] = "none"
    /\ pc' = [pc EXCEPT ![t] = "spin"]
    /\ cur' = t
    /\ UNCHANGED <<start, count_execs, props, stopped, work>>

(* Each thread gets an SQL connection; that it is connected is asserted.   *)
ConnectSql ==
    /\ main = "connect"
    /\ \/ main' = "register"
       \/ Faults /\ Terminate
    /\ UNCHANGED <<starting, pc, stopped, work>>

Register ==
    /\ main = "register"
    /\ main' = IF \E t \in Threads : pc[t] = "none" THEN "spawn" ELSE "release"
    /\ props' = props \cup {cur}
    /\ cur' = NoThread
    /\ UNCHANGED <<start, count_execs, pc, stopped, work>>

Release ==
    /\ MainGoes("release", "barrier")
    /\ start' = TRUE
    /\ UNCHANGED <<cur, count_execs, props, pc, stopped, work>>

(* Mutant: Start does not wait for the last thread.                        *)
BarrierEarly ==
    /\ MainGoes("barrier", "console")
    /\ count_execs + 1 >= Cardinality(Threads)
    /\ UNCHANGED <<starting, pc, stopped, work>>

(* Start returns when all threads have been counted.                       *)
Barrier ==
    /\ MainGoes("barrier", "console")
    /\ count_execs = Cardinality(Threads)
    /\ UNCHANGED <<starting, pc, stopped, work>>

(* Mutant: Stop only waits.                                                *)
StopForgotten ==
    /\ MainGoes("console", "joining")
    /\ UNCHANGED <<starting, pc, stopped, work>>

(* "stop" is read; the destructor of Server calls Stop.                    *)
Stop ==
    /\ MainGoes("console", "joining")
    /\ stopped' = TRUE
    /\ UNCHANGED <<starting, pc, work>>

(* Mutant: the threads are not joined.                                     *)
JoinNone ==
    /\ MainGoes("joining", "destroyed")
    /\ UNCHANGED <<starting, pc, stopped, work>>

Join ==
    /\ MainGoes("joining", "destroyed")
    /\ \A t \in Threads : pc[t] = "left"
    /\ UNCHANGED <<starting, pc, stopped, work>>

(* The thread client was never started: joining it throws, and nothing     *)
(* catches the exception.                                                  *)
JoinClient ==
    /\ main = "destroyed"
    /\ Terminate
    /\ UNCHANGED <<starting, pc, stopped, work>>

MainStep ==
    \/ FirstAccept \/ (\E t \in Threads : Spawn(t)) \/ ConnectSql \/ Register
    \/ Release \/ Barrier \/ Join \/ JoinClient

-----------------------------------------------------------------------------
(* The threads.                                                            *)
Goes(t, from, to) == Alive /\ pc[t] = from /\ pc' = [pc EXCEPT ![t] = to]

(* Mutant: the thread does not wait for the flag.                          *)
SpinNot(t) ==
    /\ Goes(t, "spin", "count")
    /\ UNCHANGED <<main, starting, stopped, work>>

Spin(t) ==
    /\ Goes(t, "spin", "count")
    /\ start
    /\ UNCHANGED <<main, starting, stopped, work>>

(* Mutant: a thread may be counted again and again.                        *)
CountTwice(t) ==
    /\ Alive
    /\ pc[t] = "count"
    /\ pc' \in {pc, [pc EXCEPT ![t] = "run"]}
    /\ count_execs' = count_execs + 1
    /\ UNCHANGED <<main, cur, start, props, stopped, work>>

(* Mutant: two threads add one at the same time (no atomic_size_t).        *)
CountLost(t) ==
    /\ Goes(t, "count", "run")
    /\ count_execs' \in {count_execs, count_execs + 1}
    /\ UNCHANGED <<main, cur, start, props, stopped, work>>

Count(t) ==
    /\ Goes(t, "count", "run")
    /\ count_execs' = count_execs + 1
    /\ UNCHANGED <<main, cur, start, props, stopped, work>>

(* io_context::run takes a handler, unless it has been stopped.            *)
TakeAccept(t) ==
    /\ ~stopped
    /\ \/ acceptor = "accepted" /\ Goes(t, "run", "accepting")
       \/ acceptor = "failed" /\ Goes(t, "run", "failing")
    /\ acceptor' = "none"
    /\ UNCHANGED <<main, starting, stopped, pending, queued, clients, errors>>

TakeHandler(t) ==
    /\ ~stopped
    /\ queued > 0
    /\ Goes(t, "run", "serving")
    /\ queued' = queued - 1
    /\ UNCHANGED <<main, starting, stopped, acceptor, pending, clients, errors>>

(* A handler throws: std::terminate.                                       *)
Throws(t) ==
    /\ Faults
    /\ Alive
    /\ pc[t] \in {"accepting", "serving"}
    /\ Terminate
    /\ UNCHANGED <<starting, pc, stopped, work>>

(* Mutant: the next client is not waited for.                              *)
AcceptedOnce(t) ==
    /\ Goes(t, "accepting", "run")
    /\ pending' = pending + 2
    /\ UNCHANGED <<main, starting, stopped, acceptor, queued, clients, errors>>

(* A client has connected: its connection starts a read and a timer, and   *)
(* the next client is waited for.                                          *)
Accepted(t) ==
    /\ Goes(t, "accepting", "run")
    /\ pending' = pending + 2
    /\ acceptor' = "pending"
    /\ UNCHANGED <<main, starting, stopped, queued, clients, errors>>

(* After an error nobody calls accept again.                               *)
NotAccepted(t) ==
    /\ Goes(t, "failing", "run")
    /\ UNCHANGED <<main, starting, stopped, work>>

(* A handler of a connection starts what comes next, if anything.          *)
Served(t) ==
    /\ Goes(t, "serving", "run")
    /\ \E n \in 0..2 :
          /\ pending + queued + n <= MaxPending
          /\ pending' = pending + n
    /\ UNCHANGED <<main, starting, stopped, acceptor, queued, clients, errors>>

(* io_context::run returns when it is stopped or out of work.              *)
OutOfWork ==
    /\ acceptor = "none" /\ pending = 0 /\ queued = 0
    /\ \A t \in Threads : pc[t] \notin Handling

Leave(t) ==
    /\ Goes(t, "run", "left")
    /\ stopped \/ OutOfWork
    /\ UNCHANGED <<main, starting, stopped, work>>

ThreadStep(t) ==
    \/ Spin(t) \/ Count(t) \/ TakeAccept(t) \/ TakeHandler(t) \/ Throws(t)
    \/ Accepted(t) \/ NotAccepted(t) \/ Served(t) \/ Leave(t)

-----------------------------------------------------------------------------
(* The reactor and the clients.                                            *)
ClientConnects ==
    /\ Alive
    /\ acceptor = "pending"
    /\ clients < MaxClients
    /\ clients' = clients + 1
    /\ acceptor' = "accepted"
    /\ UNCHANGED <<main, starting, pc, stopped, pending, queued, errors>>

AcceptFails ==
    /\ Alive
    /\ acceptor = "pending"
    /\ errors < MaxErrors
    /\ errors' = errors + 1
    /\ acceptor' = "failed"
    /\ UNCHANGED <<main, starting, pc, stopped, pending, queued, clients>>

Completes ==
    /\ Alive
    /\ pending > 0
    /\ pending' = pending - 1
    /\ queued' = queued + 1
    /\ UNCHANGED <<main, starting, pc, stopped, acceptor, clients, errors>>

Next ==
    \/ MainStep \/ Stop
    \/ \E t \in Threads : ThreadStep(t)
    \/ ClientConnects \/ AcceptFails \/ Completes

(* Every thread is scheduled; nobody has to type "stop" or to connect.     *)
Fairness == WF_vars(MainStep) /\ \A t \in Threads : WF_vars(ThreadStep(t))

Spec == Init /\ [][Next]_vars
FairSpec == Spec /\ Fairness

-----------------------------------------------------------------------------
(* No thread uses start or count_execs after Start, whose locals they are, *)
(* has returned, and none is left that could use a member of Server when   *)
(* the object is destroyed (Server.cpp:31-66).                             *)
LifetimesKept ==
    \A t \in Threads :
        /\ pc[t] \in {"spin", "count"} => main \in InStart \cup {"terminated"}
        /\ main = "destroyed" => pc[t] = "left"

(* No handler runs before the map threads_props is complete: the           *)
(* operator[] of a handler never inserts into it, nor does it run while    *)
(* the main thread inserts (Server.cpp:54-58, Connection.cpp:27 and 167).  *)
PropsComplete == \A t \in Threads : pc[t] \in Handling => props = Threads

(* As long as no accept fails, no thread leaves before "stop": there is    *)
(* always something that keeps io_context::run from returning              *)
(* (Server.cpp:86-100).                                                    *)
ServesOn == ~stopped /\ errors = 0 => \A t \in Threads : pc[t] # "left"

(* Start returns, or the process has ended (Server.cpp:26-59).             *)
StartReturns == (main = "accept") ~> (main \notin InStart)

(* After "stop" the process ends, whatever the handlers are doing          *)
(* (Server.cpp:61-66).                                                     *)
StopEnds == (main = "joining") ~> (main = "terminated")
=============================================================================
