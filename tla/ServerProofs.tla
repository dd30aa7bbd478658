---------------------------- MODULE ServerProofs ----------------------------
(***************************************************************************)
(* Proofs about Server, for any number of threads and any bounds.          *)
(***************************************************************************)
EXTENDS Server, FiniteSetTheorems, TLAPS

(* The threads that have been counted.                                     *)
Counted == {t \in Threads : pc[t] \in {"run", "left"} \cup Handling}

(* Before the flag is set the threads only spin, and those created have an *)
(* entry, except the one the main thread is busy with.                     *)
BeforeStart ==
    ~start =>
        /\ main \in {"accept", "spawn", "connect", "register", "release", "terminated"}
        /\ \A t \in Threads : pc[t] \in {"none", "spin"}
        /\ \A t \in Threads : pc[t] # "none" => t \in props \cup {cur}
        /\ main = "release" => cur = NoThread /\ \A t \in Threads : pc[t] # "none"
        /\ main \in {"accept", "spawn"} => cur = NoThread
        /\ main \in {"connect", "register"} => cur \in Threads

(* The flag is set when every thread has its entry, and the object is      *)
(* destroyed when every thread has left.                                   *)
AfterStart ==
    start =>
        /\ main \in {"barrier", "console", "joining", "destroyed", "terminated"}
        /\ props = Threads
        /\ main = "destroyed" => \A t \in Threads : pc[t] = "left"

(* The counter tells how many threads have passed the flag, and once Start *)
(* has returned that is all of them.                                       *)
CountRight == count_execs = Cardinality(Counted)
AllCounted == main \in {"console", "joining", "destroyed"} => Counted = Threads

IInv == TypeOK /\ BeforeStart /\ AfterStart /\ CountRight /\ AllCounted

-----------------------------------------------------------------------------
(* One more thread is counted: the cardinality grows by one and does not   *)
(* exceed that of Threads.                                                 *)
LEMMA OneMore ==
    ASSUME NEW S \in SUBSET Threads, NEW t \in Threads, t \notin S
    PROVE  /\ Cardinality(S \cup {t}) = Cardinality(S) + 1
           /\ Cardinality(S) + 1 \in 0..Cardinality(Threads)
<1>1. IsFiniteSet(Threads)
  BY ThreadsAssumption
<1>2. IsFiniteSet(S) /\ Cardinality(S) \in Nat /\ Cardinality(Threads) \in Nat
  BY <1>1, FS_Subset, FS_CardinalityType
<1>3. Cardinality(S \cup {t}) = Cardinality(S) + 1
  BY <1>2, FS_AddElement
<1>4. Cardinality(S \cup {t}) <= Cardinality(Threads)
  BY <1>1, FS_Subset, S \cup {t} \subseteq Threads
<1> QED
  BY <1>2, <1>3, <1>4

(* The counter starts right.                                               *)
LEMMA InitIInv == Init => IInv
<1> SUFFICES ASSUME Init PROVE IInv
  OBVIOUS
<1>1. Counted = {}
  BY DEF Init, Counted, Handling
<1>2. Cardinality({}) = 0 /\ 0 \in 0..Cardinality(Threads)
  BY FS_EmptySet, FS_CardinalityType, ThreadsAssumption
<1>3. MaxClients \in Nat /\ MaxErrors \in Nat
  BY LimitsAssumption
<1>4. TypeOK
  <2>1. pc \in [Threads -> {"none", "spin", "count", "run", "left"} \cup Handling]
    BY DEF Init
  <2>2. clients \in 0..MaxClients /\ errors \in 0..MaxErrors
    BY <1>3 DEF Init
  <2> QED
    BY <1>2, <2>1, <2>2 DEF Init, TypeOK, InStart
<1>5. BeforeStart /\ AfterStart
  BY DEF Init, BeforeStart, AfterStart
<1>6. CountRight /\ AllCounted
  BY <1>1, <1>2 DEF Init, CountRight, AllCounted
<1> QED
  BY <1>4, <1>5, <1>6 DEF IInv

(* Every step keeps the inductive invariant.                               *)
LEMMA StepIInv == IInv /\ [Next]_vars => IInv'
<1> SUFFICES ASSUME IInv, [Next]_vars PROVE IInv'
  OBVIOUS
<1> USE DEF IInv
<1>1. CASE FirstAccept
  <2>1. TypeOK'
    BY <1>1 DEF FirstAccept, MainGoes, starting, TypeOK, InStart, Handling
  <2>2. BeforeStart' /\ AfterStart'
    BY <1>1 DEF FirstAccept, MainGoes, starting, BeforeStart, AfterStart
  <2>3. CountRight' /\ AllCounted'
    BY <1>1 DEF FirstAccept, MainGoes, starting, CountRight, AllCounted, Counted
  <2> QED
    BY <2>1, <2>2, <2>3
<1>2. ASSUME NEW t \in Threads, Spawn(t) PROVE IInv'
  <2>1. TypeOK'
    <3>1. /\ main' = "connect" /\ cur' = t /\ pc' = [pc EXCEPT ![t] = "spin"]
          /\ UNCHANGED <<start, count_execs, props, stopped, work>>
      BY <1>2 DEF Spawn, MainGoes
    <3> QED
      BY <3>1 DEF work, TypeOK, InStart
  <2>2. BeforeStart' /\ AfterStart'
    <3>1. /\ main = "spawn" /\ main' = "connect" /\ cur' = t
          /\ pc' = [pc EXCEPT ![t] = "spin"]
          /\ start' = start /\ props' = props
      BY <1>2 DEF Spawn, MainGoes
    <3>2. ~start /\ \A u \in Threads : pc[u] \in {"none", "spin"}
      BY <3>1 DEF BeforeStart, AfterStart
    <3>3. \A u \in Threads : pc[u] # "none" => u \in props
      BY <3>1, <3>2, ThreadsAssumption DEF BeforeStart
    <3>4. \A u \in Threads : pc'[u] = IF u = t THEN "spin" ELSE pc[u]
      BY <3>1 DEF TypeOK
    <3> QED
      BY <3>1, <3>2, <3>3, <3>4 DEF BeforeStart, AfterStart
  <2>3. Counted' = Counted
    BY <1>2 DEF Spawn, Counted, Handling, TypeOK
  <2>4. CountRight' /\ AllCounted'
    BY <1>2, <2>3 DEF Spawn, MainGoes, CountRight, AllCounted
  <2> QED
    BY <2>1, <2>2, <2>4
<1>3. CASE ConnectSql
  <2>1. TypeOK'
    BY <1>3 DEF ConnectSql, Terminate, starting, work, TypeOK, InStart
  <2>2. BeforeStart' /\ AfterStart'
    BY <1>3 DEF ConnectSql, Terminate, starting, work, BeforeStart, AfterStart
  <2>3. CountRight' /\ AllCounted'
    BY <1>3 DEF ConnectSql, Terminate, starting, CountRight, AllCounted, Counted
  <2> QED
    BY <2>1, <2>2, <2>3
<1>4. CASE Register
  <2>1. /\ main = "register" /\ main' \in {"spawn", "release"}
        /\ main' = "release" => \A t \in Threads : pc[t] # "none"
        /\ props' = props \cup {cur} /\ cur' = NoThread
    BY <1>4 DEF Register
  <2>2. ~start /\ cur \in Threads
    BY <2>1 DEF AfterStart, BeforeStart
  <2>3. UNCHANGED <<start, count_execs, pc, stopped, acceptor, pending, queued, clients, errors>>
    BY <1>4 DEF Register, work
  <2>4. TypeOK'
    BY <2>1, <2>2, <2>3 DEF TypeOK, InStart
  <2>5. BeforeStart' /\ AfterStart'
    BY <2>1, <2>2, <2>3 DEF BeforeStart, AfterStart
  <2>6. CountRight' /\ AllCounted'
    BY <2>1, <2>3 DEF CountRight, AllCounted, Counted
  <2> QED
    BY <2>4, <2>5, <2>6
<1>5. CASE Release
  <2>1. TypeOK'
    BY <1>5 DEF Release, MainGoes, work, TypeOK, InStart
  <2>2. props = Threads
    <3>1. ~start
      BY <1>5 DEF Release, MainGoes, AfterStart
    <3>2. \A t \in Threads : t \in props \cup {NoThread}
      BY <1>5, <3>1 DEF Release, MainGoes, BeforeStart
    <3> QED
      BY <3>2, ThreadsAssumption DEF TypeOK
  <2>3. BeforeStart' /\ AfterStart'
    BY <1>5, <2>2 DEF Release, MainGoes, work, BeforeStart, AfterStart
  <2>4. CountRight' /\ AllCounted'
    BY <1>5 DEF Release, MainGoes, CountRight, AllCounted, Counted
  <2> QED
    BY <2>1, <2>3, <2>4
<1>6. CASE Barrier
  <2>1. TypeOK'
    BY <1>6 DEF Barrier, MainGoes, starting, work, TypeOK, InStart
  <2>2. BeforeStart' /\ AfterStart'
    BY <1>6 DEF Barrier, MainGoes, starting, BeforeStart, AfterStart
  <2>3. Counted = Threads
    <3>1. Cardinality(Counted) = Cardinality(Threads)
      BY <1>6 DEF Barrier, CountRight
    <3>2. Counted \in SUBSET Threads
      BY DEF Counted
    <3> QED
      BY <3>1, <3>2, FS_Subset, ThreadsAssumption
  <2>4. CountRight' /\ AllCounted'
    BY <1>6, <2>3 DEF Barrier, starting, CountRight, AllCounted, Counted
  <2> QED
    BY <2>1, <2>2, <2>4
<1>7. CASE Stop \/ Join \/ JoinClient
  <2>1. /\ main \in {"console", "joining", "destroyed"}
        /\ main' \in {"joining", "destroyed", "terminated"}
        /\ UNCHANGED <<starting, pc, work>>
        /\ stopped' \in BOOLEAN
        /\ main' = "destroyed" => \A t \in Threads : pc[t] = "left"
    BY <1>7 DEF Stop, Join, JoinClient, MainGoes, Terminate, TypeOK
  <2>2. TypeOK'
    BY <2>1 DEF starting, work, TypeOK, InStart
  <2>3. BeforeStart' /\ AfterStart'
    BY <2>1 DEF starting, BeforeStart, AfterStart
  <2>4. CountRight' /\ AllCounted'
    BY <2>1 DEF starting, CountRight, AllCounted, Counted
  <2> QED
    BY <2>2, <2>3, <2>4
<1>8. ASSUME NEW t \in Threads, Spin(t) PROVE IInv'
  <2>1. /\ pc[t] = "spin" /\ pc' = [pc EXCEPT ![t] = "count"] /\ start
        /\ UNCHANGED <<main, starting, stopped, work>>
    BY <1>8 DEF Spin, Goes
  <2>2. TypeOK'
    BY <2>1 DEF starting, work, TypeOK
  <2>3. BeforeStart' /\ AfterStart'
    BY <2>1 DEF starting, BeforeStart, AfterStart
  <2>4. Counted' = Counted
    BY <2>1 DEF Counted, Handling, TypeOK
  <2>5. CountRight' /\ AllCounted'
    BY <2>1, <2>4 DEF starting, CountRight, AllCounted
  <2> QED
    BY <2>2, <2>3, <2>5
<1>9. ASSUME NEW t \in Threads, Count(t) PROVE IInv'
  <2>1. /\ pc[t] = "count" /\ pc' = [pc EXCEPT ![t] = "run"]
        /\ count_execs' = count_execs + 1
        /\ UNCHANGED <<main, cur, start, props, stopped, work>>
    BY <1>9 DEF Count, Goes
  <2>2. start
    BY <2>1 DEF BeforeStart
  <2>3. Counted' = Counted \cup {t} /\ t \notin Counted
    BY <2>1 DEF Counted, Handling, TypeOK
  <2>4. Counted \in SUBSET Threads
    BY DEF Counted
  <2>5. /\ Cardinality(Counted') = count_execs + 1
        /\ count_execs + 1 \in 0..Cardinality(Threads)
    BY <2>3, <2>4, OneMore DEF CountRight
  <2>6. TypeOK'
    BY <2>1, <2>5 DEF work, TypeOK
  <2>7. BeforeStart' /\ AfterStart'
    BY <2>1, <2>2 DEF BeforeStart, AfterStart
  <2>8. CountRight' /\ AllCounted'
    BY <2>1, <2>3, <2>4, <2>5 DEF CountRight, AllCounted
  <2> QED
    BY <2>6, <2>7, <2>8
<1>10. ASSUME NEW t \in Threads, TakeAccept(t) \/ TakeHandler(t) \/ Accepted(t)
                                  \/ NotAccepted(t) \/ Served(t) \/ Leave(t)
       PROVE IInv'
  <2>1. /\ t \in Counted /\ pc[t] # "left"
        /\ pc' \in {[pc EXCEPT ![t] = l] : l \in {"run", "left"} \cup Handling}
        /\ UNCHANGED <<main, starting, stopped>>
    BY <1>10 DEF TakeAccept, TakeHandler, Accepted, NotAccepted, Served, Leave, Goes,
                 Counted, Handling
  <2>2. /\ acceptor' \in {"none", "pending", "accepted", "failed"}
        /\ pending' \in Nat /\ queued' \in Nat
        /\ UNCHANGED <<clients, errors>>
    BY <1>10 DEF TakeAccept, TakeHandler, Accepted, NotAccepted, Served, Leave, work, TypeOK
  <2>3. TypeOK'
    BY <2>1, <2>2 DEF starting, TypeOK, Handling
  <2>4. start
    BY <2>1 DEF BeforeStart, Counted, Handling
  <2>5. BeforeStart' /\ AfterStart'
    BY <2>1, <2>4 DEF starting, BeforeStart, AfterStart
  <2>6. Counted' = Counted
    BY <2>1 DEF Counted, Handling, TypeOK
  <2>7. CountRight' /\ AllCounted'
    BY <2>1, <2>6 DEF starting, CountRight, AllCounted
  <2> QED
    BY <2>3, <2>5, <2>7
<1>11. ASSUME NEW t \in Threads, Throws(t) PROVE IInv'
  <2>1. /\ main' = "terminated"
        /\ UNCHANGED <<starting, pc, stopped, work>>
    BY <1>11 DEF Throws, Terminate
  <2>2. TypeOK'
    BY <2>1 DEF starting, work, TypeOK
  <2>3. BeforeStart' /\ AfterStart'
    BY <2>1 DEF starting, BeforeStart, AfterStart
  <2>4. CountRight' /\ AllCounted'
    BY <2>1 DEF starting, CountRight, AllCounted, Counted
  <2> QED
    BY <2>2, <2>3, <2>4
<1>12. CASE ClientConnects \/ AcceptFails \/ Completes
  <2>1. /\ UNCHANGED <<main, starting, pc, stopped>>
        /\ acceptor' \in {"none", "pending", "accepted", "failed"}
        /\ pending' \in Nat /\ queued' \in Nat
        /\ clients' \in 0..MaxClients /\ errors' \in 0..MaxErrors
    BY <1>12, LimitsAssumption DEF ClientConnects, AcceptFails, Completes, TypeOK
  <2>2. TypeOK'
    BY <2>1 DEF starting, TypeOK
  <2>3. BeforeStart' /\ AfterStart'
    BY <2>1 DEF starting, BeforeStart, AfterStart
  <2>4. CountRight' /\ AllCounted'
    BY <2>1 DEF starting, CountRight, AllCounted, Counted
  <2> QED
    BY <2>2, <2>3, <2>4
<1>13. CASE UNCHANGED vars
  <2>1. TypeOK'
    BY <1>13 DEF vars, starting, work, TypeOK
  <2>2. BeforeStart' /\ AfterStart'
    BY <1>13 DEF vars, starting, BeforeStart, AfterStart
  <2>3. CountRight' /\ AllCounted'
    BY <1>13 DEF vars, starting, CountRight, AllCounted, Counted
  <2> QED
    BY <2>1, <2>2, <2>3
<1> QED
  BY <1>1, <1>2, <1>3, <1>4, <1>5, <1>6, <1>7, <1>8, <1>9, <1>10, <1>11, <1>12, <1>13
     DEF Next, MainStep, ThreadStep

LEMMA Inductive == Spec => []IInv
  BY InitIInv, StepIInv, PTL DEF Spec

-----------------------------------------------------------------------------
(* Every reachable state is well typed; the counter never exceeds the      *)
(* number of threads, so the barrier of Start is not overrun               *)
(* (Server.cpp:37-58).                                                     *)
THEOREM TypeCorrect == Spec => []TypeOK
<1>1. IInv => TypeOK
  BY DEF IInv
<1> QED
  BY <1>1, Inductive, PTL

(* No thread uses the locals of Start once Start has returned, nor a       *)
(* member of Server once it is destroyed, for any number of threads        *)
(* (Server.cpp:31-66).                                                     *)
THEOREM LifetimesAreKept == Spec => []LifetimesKept
<1>1. IInv => LifetimesKept
  BY DEF IInv, TypeOK, BeforeStart, AfterStart, AllCounted, Counted, LifetimesKept,
         InStart, Handling
<1> QED
  BY <1>1, Inductive, PTL

(* No handler runs before threads_props is complete, for any number of     *)
(* threads (Server.cpp:54-58, Connection.cpp:27 and 167).                  *)
THEOREM PropsAreComplete == Spec => []PropsComplete
<1>1. IInv => PropsComplete
  BY DEF IInv, BeforeStart, AfterStart, PropsComplete, Handling
<1> QED
  BY <1>1, Inductive, PTL


-----------------------------------------------------------------------------
(* While no accept has failed, no handler knows of a failure, and once     *)
(* Start has called accept there is a client to wait for or one to accept. *)
Unfailed ==
    errors = 0 => acceptor # "failed" /\ \A t \in Threads : pc[t] # "failing"
Listening ==
    errors = 0 /\ main # "accept" =>
        acceptor # "none" \/ \E t \in Threads : pc[t] = "accepting"

Serving == Unfailed /\ Listening /\ ServesOn

LEMMA InitServing == Init => Serving
  BY DEF Init, Serving, Unfailed, Listening, ServesOn

(* Every step keeps it: out of work is what the io_context cannot be.      *)
LEMMA StepServing == IInv /\ Serving /\ [Next]_vars => Serving'
<1> SUFFICES ASSUME IInv, Serving, [Next]_vars PROVE Serving'
  OBVIOUS
<1> USE DEF Serving
<1>a. /\ errors \in Nat
      /\ pc \in [Threads -> {"none", "spin", "count", "run", "left"} \cup Handling]
  BY LimitsAssumption DEF IInv, TypeOK
<1>1. CASE FirstAccept
  BY <1>1 DEF FirstAccept, Unfailed, Listening, ServesOn
<1>2. ASSUME NEW t \in Threads, Spawn(t) PROVE Serving'
  <2>1. /\ main = "spawn" /\ pc' = [pc EXCEPT ![t] = "spin"] /\ pc[t] = "none"
        /\ UNCHANGED <<stopped, acceptor, errors>>
    BY <1>2 DEF Spawn, MainGoes, work
  <2> QED
    BY <1>a, <2>1 DEF Unfailed, Listening, ServesOn
<1>3. CASE ConnectSql \/ Register \/ Release \/ Barrier \/ Join \/ JoinClient \/ Stop
  <2>1. /\ main # "accept"
        /\ UNCHANGED <<pc, acceptor, errors>>
        /\ stopped => stopped'
    BY <1>3 DEF ConnectSql, Register, Release, Barrier, Join, JoinClient, Stop,
                MainGoes, Terminate, work
  <2> QED
    BY <2>1 DEF Unfailed, Listening, ServesOn
<1>4. ASSUME NEW t \in Threads, Throws(t) PROVE Serving'
  <2>1. main # "accept"
    BY <1>4, <1>a DEF IInv, BeforeStart, AfterStart, Throws
  <2>2. UNCHANGED <<pc, acceptor, errors, stopped>>
    BY <1>4 DEF Throws, work
  <2> QED
    BY <2>1, <2>2 DEF Unfailed, Listening, ServesOn
<1>5. ASSUME NEW t \in Threads,
             Spin(t) \/ Count(t) \/ TakeHandler(t) \/ NotAccepted(t) \/ Served(t)
      PROVE Serving'
  <2>1. /\ pc[t] # "accepting" /\ pc[t] # "left"
        /\ pc' \in {[pc EXCEPT ![t] = l] : l \in {"count", "run", "serving"}}
        /\ UNCHANGED <<main, stopped, acceptor, errors>>
    BY <1>5 DEF Spin, Count, TakeHandler, NotAccepted, Served, Goes, work
  <2> QED
    BY <1>a, <2>1 DEF Unfailed, Listening, ServesOn
<1>6. ASSUME NEW t \in Threads, TakeAccept(t) PROVE Serving'
  <2>1. /\ \/ acceptor = "accepted" /\ pc' = [pc EXCEPT ![t] = "accepting"]
           \/ acceptor = "failed" /\ pc' = [pc EXCEPT ![t] = "failing"]
        /\ acceptor' = "none"
        /\ UNCHANGED <<main, stopped, errors>>
    BY <1>6 DEF TakeAccept, Goes
  <2> QED
    BY <1>a, <2>1 DEF Unfailed, Listening, ServesOn
<1>7. ASSUME NEW t \in Threads, Accepted(t) PROVE Serving'
  <2>1. /\ pc' = [pc EXCEPT ![t] = "run"] /\ acceptor' = "pending"
        /\ UNCHANGED <<main, stopped, errors>>
    BY <1>7 DEF Accepted, Goes
  <2> QED
    BY <1>a, <2>1 DEF Unfailed, Listening, ServesOn
<1>8. ASSUME NEW t \in Threads, Leave(t) PROVE Serving'
  <2>1. /\ pc[t] = "run" /\ pc' = [pc EXCEPT ![t] = "left"]
        /\ stopped \/ OutOfWork
        /\ UNCHANGED <<main, stopped, acceptor, errors>>
    BY <1>8 DEF Leave, Goes, work
  <2>2. main # "accept"
    BY <2>1 DEF IInv, BeforeStart, AfterStart
  <2>3. stopped \/ errors # 0
    BY <2>1, <2>2 DEF OutOfWork, Listening, Handling
  <2> QED
    BY <1>a, <2>1, <2>3 DEF Unfailed, Listening, ServesOn
<1>9. CASE ClientConnects \/ AcceptFails \/ Completes
  <2>1. /\ UNCHANGED <<main, pc, stopped>>
        /\ \/ acceptor' \in {acceptor, "accepted"} /\ errors' = errors
           \/ errors' = errors + 1
    BY <1>9 DEF ClientConnects, AcceptFails, Completes
  <2> QED
    BY <1>a, <2>1 DEF Unfailed, Listening, ServesOn
<1>10. CASE UNCHANGED vars
  BY <1>10 DEF vars, work, Unfailed, Listening, ServesOn
<1> QED
  BY <1>1, <1>2, <1>3, <1>4, <1>5, <1>6, <1>7, <1>8, <1>9, <1>10
     DEF Next, MainStep, ThreadStep

(* As long as no accept fails no thread leaves before "stop", for any      *)
(* number of threads and clients (Server.cpp:86-100).                      *)
THEOREM ServesOnAlways == Spec => []ServesOn
<1>1. Serving => ServesOn
  BY DEF Serving
<1> QED
  BY <1>1, InitServing, StepServing, Inductive, PTL DEF Spec
=============================================================================
