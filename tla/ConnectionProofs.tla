-------------------------- MODULE ConnectionProofs --------------------------
(***************************************************************************)
(* Theorems about Connection, for every number of threads, requests and    *)
(* chunks.                                                                 *)
(***************************************************************************)
EXTENDS Connection, SequenceTheorems, TLAPS

-----------------------------------------------------------------------------
(* The chain in a sequence of handlers.                                    *)

(* Taking the head off a queue leaves at most one handler of the chain,    *)
(* and none when the head was that one (io_context::run, Dispatch).        *)
LEMMA TailChain ==
    ASSUME NEW q \in Seq(Handlers), q # <<>>
    PROVE  /\ Tail(q) \in Seq(Handlers)
           /\ Head(q) \in Handlers
           /\ OneIn(q) => OneIn(Tail(q))
           /\ OneIn(q) /\ ChainHandler(Head(q)) => NoneIn(Tail(q))
           /\ NoneIn(q) => NoneIn(Tail(q)) /\ ~ChainHandler(Head(q))
           /\ ~ChainHandler(Head(q)) /\ NoneIn(Tail(q)) => NoneIn(q)
<1>1. /\ Len(q) \in Nat \ {0}
      /\ DOMAIN q = 1..Len(q)
      /\ Tail(q) \in Seq(Handlers)
      /\ Len(Tail(q)) = Len(q) - 1
      /\ DOMAIN Tail(q) = 1..(Len(q) - 1)
      /\ \A i \in DOMAIN Tail(q) : Tail(q)[i] = q[i + 1]
      /\ Head(q) = q[1] /\ Head(q) \in Handlers
    OBVIOUS
<1>2. OneIn(q) => OneIn(Tail(q))
    BY <1>1 DEF OneIn
<1>3. OneIn(q) /\ ChainHandler(Head(q)) => NoneIn(Tail(q))
    BY <1>1 DEF OneIn, NoneIn
<1>4. NoneIn(q) => NoneIn(Tail(q)) /\ ~ChainHandler(Head(q))
    BY <1>1 DEF NoneIn
<1>5. ASSUME ~ChainHandler(Head(q)), NoneIn(Tail(q))
      PROVE  NoneIn(q)
  <2> SUFFICES ASSUME NEW i \in DOMAIN q
               PROVE  ~ChainHandler(q[i])
      BY DEF NoneIn
  <2>1. CASE i = 1
      BY <2>1, <1>1, <1>5
  <2>2. CASE i # 1
    <3>1. i - 1 \in DOMAIN Tail(q) /\ Tail(q)[i - 1] = q[i]
        BY <2>2, <1>1
    <3>2. QED  BY <3>1, <1>5 DEF NoneIn
  <2>3. QED  BY <2>1, <2>2
<1>6. QED  BY <1>1, <1>2, <1>3, <1>4, <1>5

(* Queueing handlers of the timer changes nothing for the chain            *)
(* (TimerFires and CancelWaits).                                           *)
LEMMA ConcatChain ==
    ASSUME NEW q \in Seq(Handlers), NEW r \in Seq(Handlers), NoneIn(r)
    PROVE  /\ q \o r \in Seq(Handlers)
           /\ OneIn(q) => OneIn(q \o r)
           /\ NoneIn(q) <=> NoneIn(q \o r)
<1>1. /\ Len(q) \in Nat /\ Len(r) \in Nat
      /\ DOMAIN q = 1..Len(q) /\ DOMAIN r = 1..Len(r)
      /\ q \o r \in Seq(Handlers)
      /\ DOMAIN (q \o r) = 1..(Len(q) + Len(r))
      /\ \A i \in 1..Len(q) : (q \o r)[i] = q[i]
      /\ \A i \in 1..(Len(q) + Len(r)) : i > Len(q) => (q \o r)[i] = r[i - Len(q)]
    OBVIOUS
<1>2. \A i \in DOMAIN (q \o r) :
          ChainHandler((q \o r)[i]) => i \in DOMAIN q /\ ChainHandler(q[i])
  <2> SUFFICES ASSUME NEW i \in DOMAIN (q \o r), ChainHandler((q \o r)[i])
               PROVE  i \in DOMAIN q /\ ChainHandler(q[i])
      OBVIOUS
  <2>1. CASE i \in 1..Len(q)
      BY <2>1, <1>1
  <2>2. CASE i > Len(q)
    <3>1. i - Len(q) \in DOMAIN r /\ (q \o r)[i] = r[i - Len(q)]
        BY <2>2, <1>1
    <3>2. QED  BY <3>1 DEF NoneIn
  <2>3. QED  BY <2>1, <2>2, <1>1
<1>3. OneIn(q) => OneIn(q \o r)
    BY <1>2 DEF OneIn
<1>4. NoneIn(q) => NoneIn(q \o r)
    BY <1>2 DEF NoneIn
<1>5. NoneIn(q \o r) => NoneIn(q)
    BY <1>1 DEF NoneIn
<1>6. QED  BY <1>1, <1>3, <1>4, <1>5

(* A completed operation queues its handler where there was none           *)
(* (ReadDone, ReadChunk, WriteDone, AbortSocket).                          *)
LEMMA AppendChain ==
    ASSUME NEW q \in Seq(Handlers), NEW h \in Handlers
    PROVE  /\ Append(q, h) \in Seq(Handlers)
           /\ NoneIn(q) => OneIn(Append(q, h))
           /\ NoneIn(q) /\ ~ChainHandler(h) => NoneIn(Append(q, h))
<1>1. /\ Len(q) \in Nat
      /\ DOMAIN q = 1..Len(q)
      /\ Append(q, h) \in Seq(Handlers)
      /\ DOMAIN Append(q, h) = 1..(Len(q) + 1)
      /\ \A i \in 1..Len(q) : Append(q, h)[i] = q[i]
      /\ Append(q, h)[Len(q) + 1] = h
    OBVIOUS
<1>2. NoneIn(q) => OneIn(Append(q, h))
    BY <1>1 DEF OneIn, NoneIn
<1>3. NoneIn(q) /\ ~ChainHandler(h) => NoneIn(Append(q, h))
    BY <1>1 DEF NoneIn
<1>4. QED  BY <1>1, <1>2, <1>3

(* Cancelling the waits only changes their error_code.                     *)
LEMMA CancelledWaits ==
    ASSUME NEW q \in Seq(Handlers)
    PROVE  LET c == [i \in DOMAIN q |-> Aborted(q[i])]
           IN  /\ c \in Seq(Handlers)
               /\ NoneIn(q) => NoneIn(c)
<1> DEFINE c == [i \in DOMAIN q |-> Aborted(q[i])]
<1>1. \A i \in DOMAIN q : c[i] \in Handlers /\ c[i].op = q[i].op
  <2>1. \A i \in DOMAIN q : q[i] \in Handlers
      OBVIOUS
  <2>2. \A h \in Handlers : Aborted(h) \in Handlers /\ Aborted(h).op = h.op
      BY DEF Handlers, Codes, Aborted, Handler
  <2>3. QED  BY <2>1, <2>2
<1>2. DOMAIN q = 1..Len(q) /\ Len(q) \in Nat
    OBVIOUS
<1>3. c \in Seq(Handlers)
  <2>1. c \in [1..Len(q) -> Handlers]
      BY <1>1, <1>2
  <2>2. QED  BY <2>1, <1>2, SeqDef
<1>4. NoneIn(q) => NoneIn(c)
    BY <1>1 DEF NoneIn, ChainHandler
<1>5. QED  BY <1>3, <1>4

-----------------------------------------------------------------------------
(* Type correctness.                                                       *)

LEMMA InitTypeOK == Init => TypeOK
<1> SUFFICES ASSUME Init PROVE TypeOK
    OBVIOUS
<1>1. Handler("accept", "ok", 0) \in Handlers
    BY DEF Handlers, Handler, Codes
<1>2. ready \in Seq(Handlers) /\ waits \in Seq(Handlers)
    BY <1>1 DEF Init
<1>3. job \in [Threads -> Handlers] /\ pc \in [Threads -> Labels]
    BY <1>1 DEF Init, Labels
<1>4. sent \in 0..MaxRequests /\ chunks \in 0..MaxChunks
    BY BoundsAssumption DEF Init
<1>5. /\ rd \in {"none", "pending"} /\ wr \in {"none", "pending"}
      /\ peer \in {"open", "closed", "reset"}
      /\ round \in Nat /\ wire \in Nat /\ answered \in Nat
      /\ expired \in SUBSET Nat
    BY DEF Init
<1>6. is_timeout \in BOOLEAN /\ crashed \in BOOLEAN
    BY DEF Init
<1>7. QED
    BY <1>2, <1>3, <1>4, <1>5, <1>6, Zenon DEF TypeOK

(* The effect of cancelling the timer on the queue.                        *)
LEMMA CancelWaitsType ==
    ASSUME TypeOK, NoneIn(waits), CancelWaits
    PROVE  /\ ready' \in Seq(Handlers)
           /\ waits' \in Seq(Handlers) /\ NoneIn(waits')
           /\ OneIn(ready) => OneIn(ready')
           /\ NoneIn(ready) <=> NoneIn(ready')
<1> DEFINE c == [i \in DOMAIN waits |-> Aborted(waits[i])]
<1>1. ready \in Seq(Handlers) /\ waits \in Seq(Handlers)
    BY DEF TypeOK
<1>2. c \in Seq(Handlers) /\ NoneIn(c)
    BY <1>1, CancelledWaits
<1>3. ready' = ready \o c /\ waits' = <<>>
    BY DEF CancelWaits
<1> HIDE DEF c
<1>4. waits' \in Seq(Handlers) /\ NoneIn(waits')
    BY <1>3 DEF NoneIn
<1>5. QED  BY <1>1, <1>2, <1>3, <1>4, ConcatChain
(* One step keeps the types, and only the timer's own handlers wait on it. *)
LEMMA StepTypeOK ==
    ASSUME TypeOK, NoneIn(waits), [Next]_vars
    PROVE  TypeOK' /\ NoneIn(waits)'
<1> USE DEF At
<1>1. ASSUME NEW t \in Threads, Dispatch(t)
      PROVE  TypeOK' /\ NoneIn(waits)'
  <2>1. Head(ready) \in Handlers /\ ready' \in Seq(Handlers)
      BY <1>1, TailChain DEF Dispatch, TypeOK
  <2>2. Entry(Head(ready).op) \in Labels
      BY <1>1, <2>1 DEF Dispatch, Entry, Labels, Handlers
  <2>3. pc' \in [Threads -> Labels] /\ job' \in [Threads -> Handlers]
      BY <1>1, <2>1, <2>2 DEF Dispatch, Goto, TypeOK
  <2>4. QED  BY <1>1, <2>1, <2>3 DEF Dispatch, TypeOK, peer_vars
<1>2. ASSUME NEW t \in Threads, Resume(t)
      PROVE  TypeOK' /\ NoneIn(waits)'
  <2>1. ready' \in Seq(Handlers)
      BY <1>2, TailChain DEF Resume, TypeOK
  <2>2. QED  BY <1>2, <2>1 DEF Resume, TypeOK, peer_vars
<1>3. ASSUME NEW t \in Threads, Accepted(t)
      PROVE  TypeOK' /\ NoneIn(waits)'
  <2>1. pc' \in [Threads -> Labels] /\ crashed' \in BOOLEAN
      BY <1>3 DEF Accepted, EndpointOr, Goto, TypeOK, Labels
  <2>2. QED  BY <1>3, <2>1 DEF Accepted, TypeOK, peer_vars
<1>4. ASSUME NEW t \in Threads, ClearFlag(t)
      PROVE  TypeOK' /\ NoneIn(waits)'
  <2>1. pc' \in [Threads -> Labels]
      BY <1>4 DEF ClearFlag, Goto, TypeOK, Labels
  <2>2. QED  BY <1>4, <2>1 DEF ClearFlag, TypeOK, peer_vars
<1>5. ASSUME NEW t \in Threads, InitiateRead(t)
      PROVE  TypeOK' /\ NoneIn(waits)'
  <2>1. pc' \in [Threads -> Labels]
      BY <1>5 DEF InitiateRead, Goto, TypeOK, Labels
  <2>2. Handler(job[t].op, job[t].code, round + 1) \in Handlers
      BY DEF TypeOK, Handler, Handlers
  <2>3. job' \in [Threads -> Handlers]
      BY <1>5, <2>2 DEF InitiateRead, TypeOK
  <2>4. QED  BY <1>5, <2>1, <2>3 DEF InitiateRead, TypeOK, peer_vars
<1>6. ASSUME NEW t \in Threads, ExpiresAfter(t)
      PROVE  TypeOK' /\ NoneIn(waits)'
  <2>1. pc' \in [Threads -> Labels]
      BY <1>6 DEF ExpiresAfter, Goto, TypeOK, Labels
  <2>2. QED  BY <1>6, <2>1, CancelWaitsType DEF ExpiresAfter, TypeOK, peer_vars
<1>7. ASSUME NEW t \in Threads, ArmTimer(t)
      PROVE  TypeOK' /\ NoneIn(waits)'
  <2>1. pc' \in [Threads -> Labels]
      BY <1>7 DEF ArmTimer, Goto, TypeOK, Labels
  <2>2. /\ Handler("timer", "ok", job[t].rnd) \in Handlers
        /\ ~ChainHandler(Handler("timer", "ok", job[t].rnd))
      BY DEF TypeOK, Handler, Handlers, Codes, ChainHandler
  <2>3. waits' \in Seq(Handlers) /\ NoneIn(waits')
      BY <1>7, <2>2, AppendChain DEF ArmTimer, TypeOK
  <2>4. QED  BY <1>7, <2>1, <2>3 DEF ArmTimer, TypeOK, peer_vars
<1>8. ASSUME NEW t \in Threads, Claim(t)
      PROVE  TypeOK' /\ NoneIn(waits)'
  <2>1. pc' \in [Threads -> Labels]
      BY <1>8 DEF Claim, Goto, TypeOK, Labels
  <2>2. Aborted(job[t]) \in Handlers
      BY DEF TypeOK, Aborted, Handler, Handlers, Codes
  <2>3. job' \in [Threads -> Handlers]
      BY <1>8, <2>2 DEF Claim, TypeOK
  <2>4. QED  BY <1>8, <2>1, <2>3 DEF Claim, TypeOK, peer_vars
<1>9. ASSUME NEW t \in Threads, Report(t)
      PROVE  TypeOK' /\ NoneIn(waits)'
  <2>1. pc' \in [Threads -> Labels] /\ crashed' \in BOOLEAN
      BY <1>9 DEF Report, EndpointOr, Goto, TypeOK, Labels
  <2>2. QED  BY <1>9, <2>1 DEF Report, TypeOK, peer_vars
<1>10. ASSUME NEW t \in Threads, CancelTimer(t)
       PROVE  TypeOK' /\ NoneIn(waits)'
  <2>1. pc' \in [Threads -> Labels]
      BY <1>10 DEF CancelTimer, Goto, TypeOK, Labels
  <2>2. QED  BY <1>10, <2>1, CancelWaitsType DEF CancelTimer, TypeOK, peer_vars
<1>11. ASSUME NEW t \in Threads, ProcessRequest(t)
       PROVE  TypeOK' /\ NoneIn(waits)'
  <2>1. pc' \in [Threads -> Labels]
      BY <1>11 DEF ProcessRequest, Goto, TypeOK, Labels
  <2>2. QED  BY <1>11, <2>1 DEF ProcessRequest, TypeOK, peer_vars
<1>12. ASSUME NEW t \in Threads, Written(t)
       PROVE  TypeOK' /\ NoneIn(waits)'
  <2>1. pc' \in [Threads -> Labels]
      BY <1>12 DEF Written, Goto, TypeOK, Labels
  <2>2. QED  BY <1>12, <2>1 DEF Written, TypeOK, peer_vars
<1>13. ASSUME NEW t \in Threads, TestFlag(t)
       PROVE  TypeOK' /\ NoneIn(waits)'
  <2>1. pc' \in [Threads -> Labels]
      BY <1>13 DEF TestFlag, Goto, TypeOK, Labels
  <2>2. QED  BY <1>13, <2>1 DEF TestFlag, TypeOK, peer_vars
<1>14. ASSUME NEW t \in Threads, AbortSocket(t)
       PROVE  TypeOK' /\ NoneIn(waits)'
  <2>1. pc' \in [Threads -> Labels]
      BY <1>14 DEF AbortSocket, Goto, TypeOK, Labels
  <2>2. /\ Handler("read", "aborted", round) \in Handlers
        /\ Handler("write", "aborted", round) \in Handlers
      BY DEF TypeOK, Handler, Handlers, Codes
  <2>3. ready' \in Seq(Handlers)
      BY <1>14, <2>2 DEF AbortSocket, TypeOK
  <2>4. QED  BY <1>14, <2>1, <2>3 DEF AbortSocket, TypeOK, peer_vars
<1>15. ASSUME NEW t \in Threads, MarkTimeout(t)
       PROVE  TypeOK' /\ NoneIn(waits)'
  <2>1. pc' \in [Threads -> Labels]
      BY <1>15 DEF MarkTimeout, Goto, TypeOK, Labels
  <2>2. QED  BY <1>15, <2>1 DEF MarkTimeout, TypeOK, peer_vars
<1>16. ASSUME ReadDone
       PROVE  TypeOK' /\ NoneIn(waits)'
  <2>1. \A code \in Codes : Handler("read", code, round) \in Handlers
      BY DEF TypeOK, Handler, Handlers
  <2>2. ready' \in Seq(Handlers)
      BY <1>16, <2>1, AppendChain DEF ReadDone, TypeOK, Codes
  <2>3. wire' \in Nat
      BY <1>16 DEF ReadDone, TypeOK
  <2>4. QED  BY <1>16, <2>2, <2>3 DEF ReadDone, TypeOK
<1>17. ASSUME ReadChunk
       PROVE  TypeOK' /\ NoneIn(waits)'
  <2>1. Handler("chunk", "ok", round) \in Handlers
      BY DEF TypeOK, Handler, Handlers, Codes
  <2>2. ready' \in Seq(Handlers)
      BY <1>17, <2>1, AppendChain DEF ReadChunk, TypeOK
  <2>3. chunks' \in 0..MaxChunks
      BY <1>17, BoundsAssumption DEF ReadChunk, TypeOK
  <2>4. QED  BY <1>17, <2>2, <2>3 DEF ReadChunk, TypeOK
<1>18. ASSUME WriteDone
       PROVE  TypeOK' /\ NoneIn(waits)'
  <2>1. \A code \in Codes : Handler("write", code, round) \in Handlers
      BY DEF TypeOK, Handler, Handlers
  <2>2. ready' \in Seq(Handlers)
      BY <1>18, <2>1, AppendChain DEF WriteDone, TypeOK, Codes
  <2>3. answered' \in Nat
      BY <1>18 DEF WriteDone, TypeOK
  <2>4. QED  BY <1>18, <2>2, <2>3 DEF WriteDone, TypeOK
<1>19. ASSUME TimerFires
       PROVE  TypeOK' /\ NoneIn(waits)'
  <2>1. ready' \in Seq(Handlers)
      BY <1>19, ConcatChain DEF TimerFires, TypeOK
  <2>2. waits' \in Seq(Handlers) /\ NoneIn(waits')
      BY <1>19 DEF TimerFires, NoneIn
  <2>3. \A i \in DOMAIN waits : waits[i].rnd \in Nat
    <3>1. \A i \in DOMAIN waits : waits[i] \in Handlers
        BY DEF TypeOK
    <3>2. QED  BY <3>1 DEF Handlers
  <2>4. expired' \in SUBSET Nat
      BY <1>19, <2>3 DEF TimerFires, TypeOK
  <2>5. QED  BY <1>19, <2>1, <2>2, <2>4 DEF TimerFires, TypeOK, peer_vars
<1>20. ASSUME PeerSends
       PROVE  TypeOK' /\ NoneIn(waits)'
  <2>1. sent' \in 0..MaxRequests /\ wire' \in Nat
      BY <1>20, BoundsAssumption DEF PeerSends, TypeOK
  <2>2. QED  BY <1>20, <2>1 DEF PeerSends, TypeOK, code_vars
<1>21. ASSUME PeerLeaves
       PROVE  TypeOK' /\ NoneIn(waits)'
  <2>1. peer' \in {"open", "closed", "reset"}
      BY <1>21 DEF PeerLeaves
  <2>2. QED  BY <1>21, <2>1 DEF PeerLeaves, TypeOK, code_vars
<1>22. CASE UNCHANGED vars
    BY <1>22 DEF vars, TypeOK
<1>23. QED
    BY <1>1, <1>2, <1>3, <1>4, <1>5, <1>6, <1>7, <1>8, <1>9, <1>10, <1>11,
       <1>12, <1>13, <1>14, <1>15, <1>16, <1>17, <1>18, <1>19, <1>20, <1>21,
       <1>22
    DEF Next, ThreadStep, Reactor, Peer
-----------------------------------------------------------------------------
(* The ownership of the buffers.                                           *)

(* BuffersOwned is not inductive alone: that a wait cancelled or completed *)
(* adds no owner to the queue needs the second conjunct, and that a        *)
(* handler becomes the right step of its thread needs the types.           *)
IInv ==
    /\ TypeOK
    /\ NoneIn(waits)
    /\ BuffersOwned

LEMMA InitIInv == Init => IInv
<1> SUFFICES ASSUME Init PROVE IInv
    OBVIOUS
<1>1. TypeOK
    BY InitTypeOK
<1>2. NoneIn(waits)
    BY DEF Init, NoneIn
<1>3. OneIn(ready)
    BY DEF Init, OneIn
<1>4. \A t \in Threads : ~ChainThread(t)
    BY DEF Init, ChainThread, ChainLabels
<1>5. BuffersOwned
    BY <1>3, <1>4 DEF Init, BuffersOwned
<1>6. QED  BY <1>1, <1>2, <1>5 DEF IInv

(* One step keeps the buffers owned by one handler at most.                *)
LEMMA StepBuffersOwned ==
    ASSUME IInv, [Next]_vars
    PROVE  BuffersOwned'
<1> USE DEF At, Goto, ChainThread, ChainLabels
<1>0. TypeOK /\ NoneIn(waits) /\ BuffersOwned
    BY DEF IInv
<1>1. ASSUME NEW t \in Threads, Dispatch(t)
      PROVE  BuffersOwned'
  <2>1. /\ Head(ready) \in Handlers
        /\ OneIn(ready')
        /\ ChainHandler(Head(ready)) => NoneIn(ready') /\ ~NoneIn(ready)
        /\ NoneIn(ready) => NoneIn(ready') /\ ~ChainHandler(Head(ready))
      BY <1>0, <1>1, TailChain DEF Dispatch, TypeOK, BuffersOwned
  <2>2. CASE ChainHandler(Head(ready))
    <3>1. \A u \in Threads : ChainThread(u)' => u = t
        BY <1>0, <1>1, <2>1, <2>2 DEF Dispatch, TypeOK, BuffersOwned
    <3>2. rd = "none" /\ wr = "none"
        BY <1>0, <2>1, <2>2 DEF TypeOK, BuffersOwned
    <3>3. QED  BY <1>1, <2>1, <2>2, <3>1, <3>2 DEF Dispatch, BuffersOwned
  <2>3. CASE ~ChainHandler(Head(ready))
    <3>1. Head(ready).op = "timer"
        BY <2>3 DEF ChainHandler
    <3>2. Entry(Head(ready).op) = "test"
        BY <3>1 DEF Entry
    <3>3. \A u \in Threads : ChainThread(u)' <=> ChainThread(u)
        BY <1>0, <1>1, <3>2 DEF Dispatch, TypeOK
    <3>4. QED  BY <1>0, <1>1, <2>1, <3>3 DEF Dispatch, BuffersOwned
  <2>4. QED  BY <2>2, <2>3
<1>2. ASSUME NEW t \in Threads, Resume(t)
      PROVE  BuffersOwned'
  <2>1. ChainHandler(Head(ready))
      BY <1>2 DEF Resume, ChainHandler
  <2>2. NoneIn(ready') /\ ~NoneIn(ready) /\ OneIn(ready')
      BY <1>0, <1>2, <2>1, TailChain DEF Resume, TypeOK, BuffersOwned
  <2>3. wr = "none" /\ \A u \in Threads : ~ChainThread(u)
      BY <1>0, <2>2 DEF TypeOK, BuffersOwned
  <2>4. QED  BY <1>2, <2>2, <2>3 DEF Resume, BuffersOwned
<1>3. ASSUME NEW t \in Threads, Accepted(t)
      PROVE  BuffersOwned'
    BY <1>0, <1>3 DEF Accepted, EndpointOr, TypeOK, BuffersOwned
<1>4. ASSUME NEW t \in Threads, ClearFlag(t)
      PROVE  BuffersOwned'
    BY <1>0, <1>4 DEF ClearFlag, TypeOK, BuffersOwned
<1>5. ASSUME NEW t \in Threads, InitiateRead(t)
      PROVE  BuffersOwned'
    BY <1>0, <1>5 DEF InitiateRead, TypeOK, BuffersOwned
<1>6. ASSUME NEW t \in Threads, ExpiresAfter(t)
      PROVE  BuffersOwned'
  <2>1. (OneIn(ready) => OneIn(ready')) /\ (NoneIn(ready) <=> NoneIn(ready'))
      BY <1>0, <1>6, CancelWaitsType DEF ExpiresAfter
  <2>2. QED  BY <1>0, <1>6, <2>1 DEF ExpiresAfter, TypeOK, BuffersOwned
<1>7. ASSUME NEW t \in Threads, ArmTimer(t)
      PROVE  BuffersOwned'
    BY <1>0, <1>7 DEF ArmTimer, TypeOK, BuffersOwned
<1>8. ASSUME NEW t \in Threads, Claim(t)
      PROVE  BuffersOwned'
    BY <1>0, <1>8 DEF Claim, TypeOK, BuffersOwned
<1>9. ASSUME NEW t \in Threads, Report(t)
      PROVE  BuffersOwned'
    BY <1>0, <1>9 DEF Report, EndpointOr, TypeOK, BuffersOwned
<1>10. ASSUME NEW t \in Threads, CancelTimer(t)
       PROVE  BuffersOwned'
  <2>1. (OneIn(ready) => OneIn(ready')) /\ (NoneIn(ready) <=> NoneIn(ready'))
      BY <1>0, <1>10, CancelWaitsType DEF CancelTimer
  <2>2. QED  BY <1>0, <1>10, <2>1 DEF CancelTimer, TypeOK, BuffersOwned
<1>11. ASSUME NEW t \in Threads, ProcessRequest(t)
       PROVE  BuffersOwned'
    BY <1>0, <1>11 DEF ProcessRequest, TypeOK, BuffersOwned
<1>12. ASSUME NEW t \in Threads, Written(t)
       PROVE  BuffersOwned'
    BY <1>0, <1>12 DEF Written, TypeOK, BuffersOwned
<1>13. ASSUME NEW t \in Threads, TestFlag(t)
       PROVE  BuffersOwned'
    BY <1>0, <1>13 DEF TestFlag, TypeOK, BuffersOwned
<1>14. ASSUME NEW t \in Threads, AbortSocket(t)
       PROVE  BuffersOwned'
  <2> DEFINE r == Handler("read", "aborted", round)
             w == Handler("write", "aborted", round)
  <2>1. r \in Handlers /\ w \in Handlers /\ ready \in Seq(Handlers)
      BY <1>0 DEF TypeOK, Handler, Handlers, Codes
  <2>2. \A u \in Threads : ChainThread(u)' <=> ChainThread(u)
      BY <1>0, <1>14 DEF AbortSocket, TypeOK
  <2>3. rd' = "none" /\ wr' = "none"
      BY <1>14 DEF AbortSocket
  <2>4. CASE rd = "pending"
    <3>1. wr = "none" /\ NoneIn(ready) /\ \A u \in Threads : ~ChainThread(u)
        BY <1>0, <2>4 DEF TypeOK, BuffersOwned
    <3>2. ready' = ready \o <<r>> \o <<>>
        BY <1>14, <2>4, <3>1 DEF AbortSocket
    <3>3. ready' = Append(ready, r)
        BY <2>1, <3>2
    <3>4. OneIn(ready')
        BY <2>1, <3>1, <3>3, AppendChain
    <3>5. QED  BY <2>2, <2>3, <3>1, <3>4 DEF BuffersOwned
  <2>5. CASE rd # "pending" /\ wr = "pending"
    <3>1. NoneIn(ready) /\ \A u \in Threads : ~ChainThread(u)
        BY <1>0, <2>5 DEF TypeOK, BuffersOwned
    <3>2. ready' = ready \o <<>> \o <<w>>
        BY <1>14, <2>5 DEF AbortSocket
    <3>3. ready' = Append(ready, w)
        BY <2>1, <3>2
    <3>4. OneIn(ready')
        BY <2>1, <3>1, <3>3, AppendChain
    <3>5. QED  BY <2>2, <2>3, <3>1, <3>4 DEF BuffersOwned
  <2>6. CASE rd # "pending" /\ wr # "pending"
    <3>1. ready' = ready \o <<>> \o <<>>
        BY <1>14, <2>6 DEF AbortSocket
    <3>2. ready' = ready
        BY <2>1, <3>1
    <3>3. QED  BY <1>0, <2>2, <2>3, <3>2 DEF BuffersOwned
  <2>7. QED  BY <2>4, <2>5, <2>6
<1>15. ASSUME NEW t \in Threads, MarkTimeout(t)
       PROVE  BuffersOwned'
    BY <1>0, <1>15 DEF MarkTimeout, TypeOK, BuffersOwned
<1>16. ASSUME ReadDone
       PROVE  BuffersOwned'
  <2>1. \A code \in Codes : Handler("read", code, round) \in Handlers
      BY <1>0 DEF TypeOK, Handler, Handlers
  <2>2. NoneIn(ready) /\ rd' = "none" /\ wr' = "none" /\ \A u \in Threads : ~ChainThread(u)
      BY <1>0, <1>16 DEF ReadDone, TypeOK, BuffersOwned
  <2>3. OneIn(ready')
      BY <1>0, <1>16, <2>1, <2>2, AppendChain DEF ReadDone, TypeOK, Codes
  <2>4. QED  BY <1>16, <2>2, <2>3 DEF ReadDone, BuffersOwned
<1>17. ASSUME ReadChunk
       PROVE  BuffersOwned'
  <2>1. \A code \in Codes : Handler("chunk", code, round) \in Handlers
      BY <1>0 DEF TypeOK, Handler, Handlers
  <2>2. NoneIn(ready) /\ rd' = "none" /\ wr' = "none" /\ \A u \in Threads : ~ChainThread(u)
      BY <1>0, <1>17 DEF ReadChunk, TypeOK, BuffersOwned
  <2>3. OneIn(ready')
      BY <1>0, <1>17, <2>1, <2>2, AppendChain DEF ReadChunk, TypeOK, Codes
  <2>4. QED  BY <1>17, <2>2, <2>3 DEF ReadChunk, BuffersOwned
<1>18. ASSUME WriteDone
       PROVE  BuffersOwned'
  <2>1. \A code \in Codes : Handler("write", code, round) \in Handlers
      BY <1>0 DEF TypeOK, Handler, Handlers
  <2>2. NoneIn(ready) /\ rd' = "none" /\ wr' = "none" /\ \A u \in Threads : ~ChainThread(u)
      BY <1>0, <1>18 DEF WriteDone, TypeOK, BuffersOwned
  <2>3. OneIn(ready')
      BY <1>0, <1>18, <2>1, <2>2, AppendChain DEF WriteDone, TypeOK, Codes
  <2>4. QED  BY <1>18, <2>2, <2>3 DEF WriteDone, BuffersOwned
<1>19. ASSUME TimerFires
       PROVE  BuffersOwned'
  <2>1. (OneIn(ready) => OneIn(ready')) /\ (NoneIn(ready) <=> NoneIn(ready'))
      BY <1>0, <1>19, ConcatChain DEF TimerFires, TypeOK
  <2>2. QED  BY <1>0, <1>19, <2>1 DEF TimerFires, BuffersOwned
<1>20. ASSUME Peer
       PROVE  BuffersOwned'
    BY <1>0, <1>20 DEF Peer, PeerSends, PeerLeaves, code_vars, BuffersOwned
<1>21. CASE UNCHANGED vars
    BY <1>0, <1>21 DEF vars, BuffersOwned
<1>22. QED
    BY <1>1, <1>2, <1>3, <1>4, <1>5, <1>6, <1>7, <1>8, <1>9, <1>10, <1>11,
       <1>12, <1>13, <1>14, <1>15, <1>16, <1>17, <1>18, <1>19, <1>20, <1>21
    DEF Next, ThreadStep, Reactor

LEMMA StepIInv == IInv /\ [Next]_vars => IInv'
    BY StepTypeOK, StepBuffersOwned DEF IInv

LEMMA Inductive == Spec => []IInv
    BY InitIInv, StepIInv, PTL DEF Spec

(* Every state of a connection is one of the states the model speaks of    *)
(* (Connection.cpp:77-177), with any number of threads.                    *)
THEOREM TypeCorrect == Spec => []TypeOK
<1>1. IInv => TypeOK
    BY DEF IInv
<1>2. QED  BY Inductive, <1>1, PTL

(* input_buf and output_str are never used by two handlers at a time,      *)
(* however many threads run io_context::run (Connection.cpp:77-147).       *)
THEOREM BuffersAreOwned == Spec => []BuffersOwned
<1>1. IInv => BuffersOwned
    BY DEF IInv
<1>2. QED  BY Inductive, <1>1, PTL

-----------------------------------------------------------------------------
(* With one thread the handlers run one after the other, in the order in   *)
(* which they were queued.  Then the timer only ever strikes the read it   *)
(* was set for.                                                            *)
OneThread == \A t, u \in Threads : t = u

In(q) == {q[i] : i \in DOMAIN q}
OkTimer(h) == h.op = "timer" /\ h.code = "ok"
NoOkTimer(q) == \A h \in In(q) : ~OkTimer(h)

(* Timers that have run out are ahead of the write.                        *)
TimersFirst(q) == \A i, j \in DOMAIN q : q[i].op = "write" /\ i < j => ~OkTimer(q[j])

(* The read is with the reactor, or its handler or the handler of one of   *)
(* its pieces is queued.                                                   *)
Reading == rd = "pending" \/ \E h \in In(ready) : h.op \in {"read", "chunk"}

(* Nothing else happens before the connection has been accepted.           *)
AcceptFirst(t) ==
    (\E h \in In(ready) : h.op = "accept") =>
        Len(ready) = 1 /\ waits = <<>> /\ pc[t] = "idle"

(* The flag is clear when a read starts, and then only until its handler.  *)
ClearWhileReading(t) ==
    /\ pc[t] = "initiate" => ~is_timeout
    /\ ~is_timeout =>
          \/ Reading
          \/ pc[t] \in {"accepted", "start", "initiate", "claim"}
          \/ \E h \in In(ready) : h.op = "accept"

(* The timer handler strikes a read, with the flag clear.                  *)
Striking(t) ==
    pc[t] \in {"abort", "mark"} => ~is_timeout /\ Reading /\ round \in expired

(* From the answer to the next read no timer is set or has run out.        *)
NoTimer(t) ==
    /\ pc[t] \in {"accepted", "written", "start", "initiate"} => waits = <<>> /\ NoOkTimer(ready)
    /\ pc[t] = "process" \/ wr = "pending" => waits = <<>>
    /\ (\E h \in In(ready) : h.op = "write") => waits = <<>>
    /\ TimersFirst(ready)

Arming(t) == pc[t] \in {"expires", "wait"} => Reading /\ job[t].rnd = round

(* While reading, every timer is the one of this read.                     *)
OwnTimer(t) ==
    Reading =>
        /\ \A h \in In(ready) : OkTimer(h) => h.rnd = round /\ round \in expired
        /\ \A h \in In(waits) : h.rnd = round
        /\ pc[t] = "test" /\ job[t].code = "ok" => job[t].rnd = round /\ round \in expired
        /\ is_timeout => round \in expired

(* The read handler is called for the last read, and one that is called    *)
(* with operation_aborted or finds the flag set has had its time.          *)
OwnRead(t) ==
    /\ \A h \in In(ready) : h.op = "read" =>
          h.rnd = round /\ (h.code = "aborted" => round \in expired)
    /\ pc[t] = "claim" =>
          job[t].rnd = round /\ (is_timeout \/ job[t].code = "aborted" => round \in expired)
    /\ pc[t] = "report" /\ job[t].code = "aborted" => job[t].rnd \in expired

Lone(t) ==
    /\ AcceptFirst(t) /\ ClearWhileReading(t) /\ Striking(t) /\ NoTimer(t)
    /\ Arming(t) /\ OwnTimer(t) /\ OwnRead(t)

TInv == \A t \in Threads : Lone(t)

(* A queue seen as the set of its handlers.                                *)
LEMMA InFacts ==
    ASSUME NEW q \in Seq(Handlers)
    PROVE  /\ In(q) \subseteq Handlers
           /\ NoneIn(q) <=> \A h \in In(q) : h.op = "timer"
           /\ OneIn(q) => \A g, h \in In(q) : g.op # "timer" /\ h.op # "timer" => g = h
           /\ q = <<>> => In(q) = {}
<1>1. In(q) \subseteq Handlers
    BY DEF In
<1>2. NoneIn(q) <=> \A h \in In(q) : h.op = "timer"
    BY DEF In, NoneIn, ChainHandler
<1>3. OneIn(q) => \A g, h \in In(q) : g.op # "timer" /\ h.op # "timer" => g = h
    BY DEF In, OneIn, ChainHandler
<1>4. QED  BY <1>1, <1>2, <1>3 DEF In

(* What io_context::run leaves in the queue (Dispatch, Resume).            *)
LEMMA InTail ==
    ASSUME NEW q \in Seq(Handlers), q # <<>>
    PROVE  /\ Tail(q) \in Seq(Handlers)
           /\ Head(q) \in In(q) /\ In(q) = {Head(q)} \cup In(Tail(q))
           /\ Len(q) = 1 => In(Tail(q)) = {}
           /\ TimersFirst(q) => TimersFirst(Tail(q))
           /\ TimersFirst(q) /\ Head(q).op = "write" => NoOkTimer(Tail(q))
<1>1. /\ Len(q) \in Nat \ {0}
      /\ DOMAIN q = 1..Len(q)
      /\ Tail(q) \in Seq(Handlers)
      /\ DOMAIN Tail(q) = 1..(Len(q) - 1)
      /\ \A i \in DOMAIN Tail(q) : Tail(q)[i] = q[i + 1]
      /\ Head(q) = q[1]
    OBVIOUS
<1>2. Head(q) \in In(q) /\ In(Tail(q)) \subseteq In(q)
    BY <1>1 DEF In
<1>3. In(q) \subseteq {Head(q)} \cup In(Tail(q))
  <2> SUFFICES ASSUME NEW i \in DOMAIN q, i # 1
               PROVE  q[i] \in In(Tail(q))
      BY <1>1 DEF In
  <2>1. i - 1 \in DOMAIN Tail(q) /\ Tail(q)[i - 1] = q[i]
      BY <1>1
  <2>2. QED  BY <2>1 DEF In
<1>4. Len(q) = 1 => In(Tail(q)) = {}
    BY <1>1 DEF In
<1>5. TimersFirst(q) => TimersFirst(Tail(q))
    BY <1>1 DEF TimersFirst
<1>6. TimersFirst(q) /\ Head(q).op = "write" => NoOkTimer(Tail(q))
    BY <1>1 DEF TimersFirst, NoOkTimer, In
<1>7. QED  BY <1>1, <1>2, <1>3, <1>4, <1>5, <1>6

(* What a completed operation adds to the queue.                           *)
LEMMA InAppend ==
    ASSUME NEW q \in Seq(Handlers), NEW h \in Handlers
    PROVE  /\ In(Append(q, h)) = In(q) \cup {h}
           /\ TimersFirst(q) /\ ~OkTimer(h) => TimersFirst(Append(q, h))
<1>1. /\ Len(q) \in Nat
      /\ DOMAIN q = 1..Len(q)
      /\ DOMAIN Append(q, h) = 1..(Len(q) + 1)
      /\ \A i \in 1..Len(q) : Append(q, h)[i] = q[i]
      /\ Append(q, h)[Len(q) + 1] = h
    OBVIOUS
<1>2. \A i \in DOMAIN Append(q, h) : i \in DOMAIN q \/ i = Len(q) + 1
    BY <1>1
<1>3. In(Append(q, h)) = In(q) \cup {h}
  <2>1. In(Append(q, h)) \subseteq In(q) \cup {h}
      BY <1>1, <1>2 DEF In
  <2>2. In(q) \subseteq In(Append(q, h))
    <3>1. DOMAIN q \subseteq DOMAIN Append(q, h)
        BY <1>1
    <3>2. QED  BY <1>1, <3>1 DEF In
  <2>3. h \in In(Append(q, h))
    <3>1. Len(q) + 1 \in DOMAIN Append(q, h)
        BY <1>1
    <3>2. QED  BY <1>1, <3>1 DEF In
  <2>4. QED  BY <2>1, <2>2, <2>3
<1>4. TimersFirst(q) /\ ~OkTimer(h) => TimersFirst(Append(q, h))
    BY <1>1, <1>2 DEF TimersFirst
<1>5. QED  BY <1>3, <1>4

(* What the end of the waits adds to the queue (TimerFires, CancelWaits).  *)
LEMMA InConcat ==
    ASSUME NEW q \in Seq(Handlers), NEW r \in Seq(Handlers)
    PROVE  /\ In(q \o r) = In(q) \cup In(r)
           /\ TimersFirst(q) /\ NoOkTimer(r) /\ NoneIn(r) => TimersFirst(q \o r)
<1>1. /\ Len(q) \in Nat /\ Len(r) \in Nat
      /\ DOMAIN q = 1..Len(q) /\ DOMAIN r = 1..Len(r)
      /\ DOMAIN (q \o r) = 1..(Len(q) + Len(r))
      /\ \A i \in 1..Len(q) : (q \o r)[i] = q[i]
      /\ \A i \in 1..(Len(q) + Len(r)) : i > Len(q) => (q \o r)[i] = r[i - Len(q)]
    OBVIOUS
<1>2. \A i \in DOMAIN (q \o r) :
          \/ i \in DOMAIN q /\ (q \o r)[i] = q[i]
          \/ i - Len(q) \in DOMAIN r /\ (q \o r)[i] = r[i - Len(q)]
    BY <1>1
<1>3. In(q \o r) \subseteq In(q) \cup In(r)
    BY <1>2 DEF In
<1>4. In(q) \subseteq In(q \o r)
  <2>1. DOMAIN q \subseteq DOMAIN (q \o r)
      BY <1>1
  <2>2. QED  BY <1>1, <2>1 DEF In
<1>5. In(r) \subseteq In(q \o r)
  <2>1. ASSUME NEW i \in DOMAIN r
        PROVE  i + Len(q) \in DOMAIN (q \o r) /\ (q \o r)[i + Len(q)] = r[i]
    <3>1. /\ i \in 1..Len(r) /\ i + Len(q) \in 1..(Len(q) + Len(r))
          /\ i + Len(q) > Len(q) /\ (i + Len(q)) - Len(q) = i
        BY <1>1
    <3>2. QED  BY <1>1, <3>1
  <2>2. QED  BY <2>1 DEF In
<1>6. ASSUME TimersFirst(q), NoOkTimer(r), NoneIn(r)
      PROVE  TimersFirst(q \o r)
  <2> SUFFICES ASSUME NEW i \in DOMAIN (q \o r), NEW j \in DOMAIN (q \o r),
                      (q \o r)[i].op = "write", i < j
               PROVE  ~OkTimer((q \o r)[j])
      BY DEF TimersFirst
  <2>1. CASE j > Len(q)
    <3>1. (q \o r)[j] \in In(r)
        BY <2>1, <1>1, <1>2 DEF In
    <3>2. QED  BY <3>1, <1>6 DEF NoOkTimer
  <2>2. CASE ~(j > Len(q))
    <3>1. i \in DOMAIN q /\ j \in DOMAIN q /\ (q \o r)[i] = q[i] /\ (q \o r)[j] = q[j]
        BY <2>2, <1>1
    <3>2. QED  BY <3>1, <1>6 DEF TimersFirst
  <2>3. QED  BY <2>1, <2>2
<1>7. QED  BY <1>3, <1>4, <1>5, <1>6

(* Cancelled waits are no timers that have run out.                        *)
LEMMA InCancelled ==
    ASSUME NEW q \in Seq(Handlers), NoneIn(q)
    PROVE  LET c == [i \in DOMAIN q |-> Aborted(q[i])]
           IN  \A h \in In(c) : h.op = "timer" /\ ~OkTimer(h)
<1> DEFINE c == [i \in DOMAIN q |-> Aborted(q[i])]
<1> SUFFICES ASSUME NEW i \in DOMAIN q
             PROVE  c[i].op = "timer" /\ ~OkTimer(c[i])
    BY DEF In
<1>1. c[i] = Aborted(q[i]) /\ q[i].op = "timer"
    BY DEF NoneIn, ChainHandler
<1>2. QED  BY <1>1 DEF Aborted, Handler, OkTimer

(* What BuffersOwned says of the handlers of a connection with one thread. *)
LEMMA ChainFacts ==
    ASSUME IInv, NEW t \in Threads
    PROVE  /\ In(ready) \subseteq Handlers
           /\ \A h \in In(waits) : h.op = "timer"
           /\ \A g, h \in In(ready) : g.op # "timer" /\ h.op # "timer" => g = h
           /\ ~(rd = "pending" /\ wr = "pending")
           /\ rd = "pending" \/ wr = "pending" \/ pc[t] \in ChainLabels =>
                 \A h \in In(ready) : h.op = "timer"
           /\ rd = "pending" \/ wr = "pending" => pc[t] \notin ChainLabels
<1>1. /\ ready \in Seq(Handlers) /\ waits \in Seq(Handlers) /\ NoneIn(waits)
      /\ rd \in {"none", "pending"} /\ wr \in {"none", "pending"}
    BY DEF IInv, TypeOK
<1>2. OneIn(ready) /\ ~(rd = "pending" /\ wr = "pending")
    BY DEF IInv, BuffersOwned
<1>3. /\ rd = "pending" \/ wr = "pending" => NoneIn(ready)
      /\ pc[t] \in ChainLabels => rd = "none" /\ wr = "none" /\ NoneIn(ready)
    BY DEF IInv, BuffersOwned, ChainThread
<1>4. QED  BY <1>1, <1>2, <1>3, InFacts

LEMMA InitTInv == Init => TInv
<1> SUFFICES ASSUME Init, NEW t \in Threads PROVE Lone(t)
    BY DEF TInv
<1> DEFINE a == Handler("accept", "ok", 0)
<1>1. /\ ready = <<a>> /\ waits = <<>> /\ pc[t] = "idle" /\ rd = "none" /\ wr = "none"
      /\ a.op = "accept"
    BY DEF Init, Handler
<1>2. a \in Handlers
    BY DEF Handler, Handlers, Codes
<1> HIDE DEF a
<1>3. In(ready) = {a} /\ Len(ready) = 1
    BY <1>1 DEF In
<1>4. TimersFirst(ready) /\ In(waits) = {}
    BY <1>1 DEF TimersFirst, In
<1>5. AcceptFirst(t) /\ ClearWhileReading(t) /\ Striking(t)
    BY <1>1, <1>3 DEF AcceptFirst, ClearWhileReading, Striking
<1>6. NoTimer(t) /\ Arming(t)
    BY <1>1, <1>3, <1>4 DEF NoTimer, Arming
<1>7. OwnTimer(t) /\ OwnRead(t)
    BY <1>1, <1>3 DEF OwnTimer, OwnRead, Reading
<1>8. QED  BY <1>5, <1>6, <1>7 DEF Lone

(* The head of the queue starts to run (Dispatch).                         *)
LEMMA DispatchLone ==
    ASSUME IInv, NEW t \in Threads, Lone(t), Dispatch(t)
    PROVE  Lone(t)'
<1> USE DEF At, Goto
<1> DEFINE h == Head(ready)
<1>1. /\ ready \in Seq(Handlers) /\ ready # <<>> /\ ready' = Tail(ready) /\ pc[t] = "idle"
      /\ pc \in [Threads -> Labels] /\ job \in [Threads -> Handlers]
      /\ rd \in {"none", "pending"} /\ wr \in {"none", "pending"}
    BY DEF IInv, TypeOK, Dispatch
<1>2. /\ h \in In(ready) /\ In(ready) = {h} \cup In(ready')
      /\ Len(ready) = 1 => In(ready') = {}
      /\ TimersFirst(ready')
      /\ h.op = "write" => NoOkTimer(ready')
    BY <1>1, InTail DEF Lone, NoTimer
<1>3. h \in Handlers /\ h.op # "chunk" /\ (h.op # "timer" => NoneIn(ready'))
    BY <1>1, TailChain DEF Dispatch, IInv, BuffersOwned, ChainHandler
<1>4. /\ \A g, i \in In(ready) : g.op # "timer" /\ i.op # "timer" => g = i
      /\ rd = "pending" \/ wr = "pending" => \A g \in In(ready) : g.op = "timer"
    BY ChainFacts
<1>5. ready' \in Seq(Handlers) /\ (h.op # "timer" => \A g \in In(ready') : g.op = "timer")
    BY <1>1, <1>3, InTail, InFacts
<1>6. /\ pc'[t] = Entry(h.op) /\ job'[t] = h
      /\ UNCHANGED <<is_timeout, rd, wr, waits, round, expired>>
    BY <1>1 DEF Dispatch
<1>7. h.op \in {"accept", "read", "write", "timer"}
    BY <1>3 DEF Handlers
<1> HIDE DEF h
<1>8. /\ h.op = "accept" => pc'[t] = "accepted"
      /\ h.op = "read" => pc'[t] = "claim"
      /\ h.op = "write" => pc'[t] = "written"
      /\ h.op = "timer" => pc'[t] = "test"
    BY <1>6 DEF Entry
<1>9. CASE h.op = "accept"
  <2>1. waits = <<>> /\ In(ready') = {} /\ rd = "none" /\ wr = "none"
      BY <1>1, <1>2, <1>4, <1>9 DEF Lone, AcceptFirst
  <2>2. AcceptFirst(t)' /\ ClearWhileReading(t)' /\ Striking(t)' /\ Arming(t)'
      BY <2>1, <1>6, <1>8, <1>9 DEF AcceptFirst, ClearWhileReading, Striking, Arming
  <2>3. NoTimer(t)'
      BY <2>1, <1>2, <1>6, <1>8, <1>9 DEF NoTimer, NoOkTimer
  <2>4. OwnTimer(t)' /\ OwnRead(t)'
      BY <2>1, <1>6, <1>8, <1>9 DEF OwnTimer, OwnRead, Reading
  <2>5. QED  BY <2>2, <2>3, <2>4 DEF Lone
<1>10. CASE h.op = "read"
  <2>1. Reading /\ rd = "none" /\ wr = "none" /\ \A g \in In(ready') : g.op = "timer"
      BY <1>1, <1>2, <1>4, <1>5, <1>10 DEF Reading
  <2>2. AcceptFirst(t)' /\ ClearWhileReading(t)' /\ Striking(t)' /\ Arming(t)'
      BY <2>1, <1>6, <1>8, <1>10 DEF AcceptFirst, ClearWhileReading, Striking, Arming
  <2>3. NoTimer(t)'
      BY <2>1, <1>2, <1>6, <1>8, <1>10 DEF NoTimer
  <2>4. OwnTimer(t)'
      BY <2>1, <1>6 DEF OwnTimer, Reading
  <2>5. h.rnd = round /\ (is_timeout \/ h.code = "aborted" => round \in expired)
      BY <2>1, <1>2, <1>10 DEF Lone, OwnTimer, OwnRead
  <2>6. OwnRead(t)'
      BY <2>1, <2>5, <1>6, <1>8, <1>10 DEF OwnRead
  <2>7. QED  BY <2>2, <2>3, <2>4, <2>6 DEF Lone
<1>11. CASE h.op = "write"
  <2>1. /\ ~Reading /\ rd = "none" /\ wr = "none" /\ waits = <<>>
        /\ \A g \in In(ready') : g.op = "timer"
      BY <1>1, <1>2, <1>4, <1>5, <1>11 DEF Reading, Lone, NoTimer
  <2>2. is_timeout
      BY <2>1, <1>1, <1>2, <1>5, <1>11 DEF Lone, ClearWhileReading
  <2>3. AcceptFirst(t)' /\ ClearWhileReading(t)' /\ Striking(t)' /\ Arming(t)'
      BY <2>1, <2>2, <1>6, <1>8, <1>11 DEF AcceptFirst, ClearWhileReading, Striking, Arming
  <2>4. NoTimer(t)'
      BY <2>1, <1>2, <1>6, <1>8, <1>11 DEF NoTimer
  <2>5. OwnTimer(t)' /\ OwnRead(t)'
      BY <2>1, <1>6, <1>8, <1>11 DEF OwnTimer, OwnRead, Reading
  <2>6. QED  BY <2>3, <2>4, <2>5 DEF Lone
<1>12. CASE h.op = "timer"
  <2>1. Reading' <=> Reading
      BY <1>2, <1>6, <1>12 DEF Reading
  <2>2. ~\E g \in In(ready) : g.op = "accept"
      BY <1>2, <1>12 DEF Lone, AcceptFirst
  <2>3. AcceptFirst(t)' /\ ClearWhileReading(t)' /\ Striking(t)' /\ Arming(t)'
      BY <2>1, <2>2, <1>1, <1>2, <1>6, <1>8, <1>12
      DEF Lone, AcceptFirst, ClearWhileReading, Striking, Arming
  <2>4. NoTimer(t)'
      BY <1>2, <1>6, <1>8, <1>12 DEF Lone, NoTimer
  <2>5. OwnTimer(t)'
      BY <2>1, <1>2, <1>6, <1>8, <1>12 DEF Lone, OwnTimer, OkTimer
  <2>6. OwnRead(t)'
      BY <1>2, <1>6, <1>8, <1>12 DEF Lone, OwnRead
  <2>7. QED  BY <2>3, <2>4, <2>5, <2>6 DEF Lone
<1>13. QED  BY <1>7, <1>9, <1>10, <1>11, <1>12

(* async_read_until reads on (Resume).                                     *)
LEMMA ResumeLone ==
    ASSUME IInv, NEW t \in Threads, Lone(t), Resume(t)
    PROVE  Lone(t)'
<1> USE DEF At, Goto
<1> DEFINE h == Head(ready)
<1>1. /\ ready \in Seq(Handlers) /\ ready # <<>> /\ ready' = Tail(ready) /\ h.op = "chunk"
      /\ pc[t] = "idle" /\ rd' = "pending" /\ wr \in {"none", "pending"}
      /\ UNCHANGED <<is_timeout, wr, waits, pc, job, round, expired>>
    BY DEF IInv, TypeOK, Resume
<1>2. h \in In(ready) /\ In(ready) = {h} \cup In(ready') /\ TimersFirst(ready')
    BY <1>1, InTail DEF Lone, NoTimer
<1>3. NoneIn(ready') /\ ready' \in Seq(Handlers)
    BY <1>1, TailChain, InTail DEF IInv, BuffersOwned, ChainHandler
<1>4. \A g \in In(ready') : g.op = "timer"
    BY <1>3, InFacts
<1>5. wr = "none" /\ Reading /\ Reading'
    BY <1>1, <1>2, ChainFacts DEF Reading
<1> HIDE DEF h
<1>6. AcceptFirst(t)' /\ ClearWhileReading(t)' /\ Striking(t)' /\ Arming(t)'
    BY <1>1, <1>4, <1>5 DEF AcceptFirst, ClearWhileReading, Striking, Arming
<1>7. NoTimer(t)'
    BY <1>1, <1>2, <1>4, <1>5 DEF NoTimer
<1>8. OwnTimer(t)'
    BY <1>1, <1>2, <1>5 DEF Lone, OwnTimer
<1>9. OwnRead(t)'
    BY <1>1, <1>4 DEF OwnRead
<1>10. QED  BY <1>6, <1>7, <1>8, <1>9 DEF Lone

(* A thread that has the right to read or to write goes on to its next     *)
(* step without touching the queue.                                        *)
LEMMA ChainStepLone ==
    ASSUME IInv, NEW t \in Threads, Lone(t),
           \/ Accepted(t) \/ ClearFlag(t) \/ InitiateRead(t)
           \/ Claim(t) \/ Report(t) \/ ProcessRequest(t) \/ Written(t)
    PROVE  Lone(t)'
<1> USE DEF At, Goto
<1>1. /\ pc \in [Threads -> Labels] /\ job \in [Threads -> Handlers]
      /\ rd \in {"none", "pending"} /\ wr \in {"none", "pending"}
      /\ job[t] \in Handlers
    BY DEF IInv, TypeOK
<1>2. /\ pc[t] \in ChainLabels
      /\ ready' = ready /\ waits' = waits /\ expired' = expired
    BY DEF Accepted, ClearFlag, InitiateRead, Claim, Report, ProcessRequest, Written,
           ChainLabels
<1>3. /\ rd = "none" /\ wr = "none" /\ ~Reading /\ pc[t] # "idle"
      /\ \A h \in In(ready) : h.op = "timer"
    BY <1>1, <1>2, ChainFacts DEF Reading, ChainLabels
<1>4. ~is_timeout => pc[t] \in {"accepted", "start", "initiate", "claim"}
    BY <1>3 DEF Lone, ClearWhileReading
<1>5. AcceptFirst(t)' /\ TimersFirst(ready')
    BY <1>2, <1>3 DEF AcceptFirst, Lone, NoTimer
<1>6. CASE Accepted(t) \/ ClearFlag(t) \/ Written(t)
  <2>1. /\ UNCHANGED <<rd, wr, job, round>> /\ ~Reading'
        /\ pc'[t] \in {"accepted", "start", "initiate", "idle"}
        /\ pc'[t] # "idle" => pc[t] \in {"accepted", "start", "written"}
        /\ pc'[t] = "idle" => is_timeout' /\ is_timeout
        /\ pc'[t] = "initiate" => ~is_timeout'
      BY <1>1, <1>2, <1>3, <1>4, <1>6
      DEF Accepted, ClearFlag, Written, EndpointOr, Reading
  <2>2. ClearWhileReading(t)' /\ Striking(t)' /\ Arming(t)'
      BY <2>1 DEF ClearWhileReading, Striking, Arming
  <2>3. NoTimer(t)'
      BY <2>1, <1>2, <1>3, <1>5 DEF Lone, NoTimer
  <2>4. OwnTimer(t)' /\ OwnRead(t)'
      BY <2>1, <1>2, <1>3 DEF OwnTimer, OwnRead
  <2>5. QED  BY <1>5, <2>2, <2>3, <2>4 DEF Lone
<1>7. CASE InitiateRead(t)
  <2>1. /\ pc[t] = "initiate" /\ pc'[t] = "expires" /\ rd' = "pending" /\ wr' = "none"
        /\ is_timeout' = is_timeout /\ round' = round + 1
        /\ job'[t] = Handler(job[t].op, job[t].code, round + 1)
      BY <1>1, <1>3, <1>7 DEF InitiateRead
  <2>2. job'[t].rnd = round' /\ Reading'
      BY <2>1 DEF Handler, Reading
  <2>3. waits' = <<>> /\ NoOkTimer(ready') /\ ~is_timeout' /\ In(waits') = {}
      BY <2>1, <1>2 DEF Lone, NoTimer, ClearWhileReading, In
  <2>4. ClearWhileReading(t)' /\ Striking(t)' /\ Arming(t)'
      BY <2>1, <2>2 DEF ClearWhileReading, Striking, Arming
  <2>5. NoTimer(t)'
      BY <2>1, <2>3, <1>5 DEF NoTimer
  <2>6. OwnTimer(t)'
      BY <2>1, <2>3 DEF OwnTimer, NoOkTimer
  <2>7. OwnRead(t)'
      BY <2>1, <1>2, <1>3 DEF OwnRead
  <2>8. QED  BY <1>5, <2>4, <2>5, <2>6, <2>7 DEF Lone
<1>8. CASE Claim(t)
  <2>1. /\ pc[t] = "claim" /\ pc'[t] \in {"report", "cancel"} /\ is_timeout' = TRUE
        /\ UNCHANGED <<rd, wr, round>> /\ ~Reading'
        /\ job'[t] = IF is_timeout THEN Aborted(job[t]) ELSE job[t]
      BY <1>1, <1>2, <1>3, <1>8 DEF Claim, Reading
  <2>2. job'[t].rnd = job[t].rnd /\ (job'[t].code = "aborted" => is_timeout \/ job[t].code = "aborted")
      BY <2>1 DEF Aborted, Handler
  <2>3. job[t].rnd = round /\ (is_timeout \/ job[t].code = "aborted" => round \in expired)
      BY <2>1 DEF Lone, OwnRead
  <2>4. ClearWhileReading(t)' /\ Striking(t)' /\ Arming(t)'
      BY <2>1 DEF ClearWhileReading, Striking, Arming
  <2>5. NoTimer(t)'
      BY <2>1, <1>2, <1>3, <1>5 DEF NoTimer
  <2>6. OwnTimer(t)' /\ OwnRead(t)'
      BY <2>1, <2>2, <2>3, <1>2, <1>3 DEF OwnTimer, OwnRead
  <2>7. QED  BY <1>5, <2>4, <2>5, <2>6 DEF Lone
<1>9. CASE Report(t)
  <2>1. /\ pc[t] = "report" /\ pc'[t] \in {"report", "cancel", "idle"}
        /\ UNCHANGED <<is_timeout, rd, wr, job, round>> /\ is_timeout /\ ~Reading'
      BY <1>1, <1>2, <1>3, <1>4, <1>9 DEF Report, EndpointOr, Reading
  <2>2. ClearWhileReading(t)' /\ Striking(t)' /\ Arming(t)'
      BY <2>1 DEF ClearWhileReading, Striking, Arming
  <2>3. NoTimer(t)'
      BY <2>1, <1>2, <1>3, <1>5 DEF NoTimer
  <2>4. OwnTimer(t)' /\ OwnRead(t)'
      BY <2>1, <1>2, <1>3 DEF Lone, OwnTimer, OwnRead
  <2>5. QED  BY <1>5, <2>2, <2>3, <2>4 DEF Lone
<1>10. CASE ProcessRequest(t)
  <2>1. /\ pc[t] = "process" /\ pc'[t] = "idle" /\ rd' = "none"
        /\ UNCHANGED <<is_timeout, job, round>> /\ is_timeout /\ ~Reading'
      BY <1>1, <1>2, <1>3, <1>4, <1>10 DEF ProcessRequest, Reading
  <2>2. ClearWhileReading(t)' /\ Striking(t)' /\ Arming(t)'
      BY <2>1 DEF ClearWhileReading, Striking, Arming
  <2>3. waits' = <<>>
      BY <2>1, <1>2 DEF Lone, NoTimer
  <2>4. NoTimer(t)'
      BY <2>1, <2>3, <1>5 DEF NoTimer
  <2>5. OwnTimer(t)' /\ OwnRead(t)'
      BY <2>1, <1>2, <1>3 DEF OwnTimer, OwnRead
  <2>6. QED  BY <1>5, <2>2, <2>4, <2>5 DEF Lone
<1>11. QED  BY <1>6, <1>7, <1>8, <1>9, <1>10

(* The waits on the timer are cancelled (ExpiresAfter, CancelTimer).       *)
LEMMA CancelLone ==
    ASSUME IInv, NEW t \in Threads, Lone(t), ExpiresAfter(t) \/ CancelTimer(t)
    PROVE  Lone(t)'
<1> USE DEF At, Goto
<1> DEFINE c == [i \in DOMAIN waits |-> Aborted(waits[i])]
<1>1. /\ pc \in [Threads -> Labels] /\ pc[t] \in {"expires", "cancel"}
      /\ ready \in Seq(Handlers) /\ waits \in Seq(Handlers) /\ NoneIn(waits)
      /\ ready' = ready \o c /\ waits' = <<>>
      /\ UNCHANGED <<is_timeout, rd, wr, job, round, expired>>
    BY DEF IInv, TypeOK, ExpiresAfter, CancelTimer, CancelWaits
<1>2. c \in Seq(Handlers) /\ NoneIn(c) /\ \A h \in In(c) : h.op = "timer" /\ ~OkTimer(h)
    BY <1>1, CancelledWaits, InCancelled
<1> HIDE DEF c
<1>3. In(ready') = In(ready) \cup In(c) /\ TimersFirst(ready')
    BY <1>1, <1>2, InConcat DEF Lone, NoTimer, NoOkTimer
<1>4. /\ \A h \in In(ready') : h.op # "timer" \/ OkTimer(h) => h \in In(ready)
      /\ In(waits') = {}
      /\ Reading' <=> Reading
  <2>1. \A h \in In(ready') : h.op # "timer" \/ OkTimer(h) => h \in In(ready)
      BY <1>2, <1>3
  <2>2. In(waits') = {}
      BY <1>1 DEF In
  <2>3. Reading' <=> Reading
      BY <1>1, <1>2, <1>3 DEF Reading
  <2>4. QED  BY <2>1, <2>2, <2>3
<1>5. \/ pc[t] = "expires" /\ pc'[t] = "wait"
      \/ pc[t] = "cancel" /\ pc'[t] \in {"process", "idle"}
    BY <1>1 DEF ExpiresAfter, CancelTimer
<1>6. ~\E h \in In(ready') : h.op = "accept"
    BY <1>1, <1>4 DEF Lone, AcceptFirst
<1>7. pc[t] = "cancel" => is_timeout
    BY <1>1, <1>4, <1>6, ChainFacts DEF Lone, ClearWhileReading, Reading, ChainLabels
<1>8. AcceptFirst(t)' /\ ClearWhileReading(t)' /\ Striking(t)' /\ Arming(t)'
    BY <1>1, <1>4, <1>5, <1>6, <1>7
    DEF Lone, AcceptFirst, ClearWhileReading, Striking, Arming
<1>9. NoTimer(t)'
    BY <1>1, <1>3, <1>5 DEF NoTimer
<1>10. OwnTimer(t)'
    BY <1>1, <1>4, <1>5 DEF Lone, OwnTimer, OkTimer
<1>11. OwnRead(t)'
    BY <1>1, <1>4, <1>5 DEF Lone, OwnRead
<1>12. QED  BY <1>8, <1>9, <1>10, <1>11 DEF Lone

(* The timer is set for the read that has just been started (ArmTimer).    *)
LEMMA ArmLone ==
    ASSUME IInv, NEW t \in Threads, Lone(t), ArmTimer(t)
    PROVE  Lone(t)'
<1> USE DEF At, Goto
<1> DEFINE h == Handler("timer", "ok", job[t].rnd)
<1>1. /\ pc \in [Threads -> Labels] /\ pc[t] = "wait" /\ pc'[t] = "idle"
      /\ waits \in Seq(Handlers) /\ waits' = Append(waits, h) /\ h.rnd = job[t].rnd
      /\ UNCHANGED <<is_timeout, rd, wr, ready, job, round, expired>>
    BY DEF IInv, TypeOK, ArmTimer, Handler
<1>2. h \in Handlers
    BY DEF IInv, TypeOK, Handler, Handlers, Codes
<1> HIDE DEF h
<1>3. In(waits') = In(waits) \cup {h}
    BY <1>1, <1>2, InAppend
<1>4. Reading /\ job[t].rnd = round /\ Reading'
    BY <1>1 DEF Lone, Arming, Reading
<1>5. wr # "pending" /\ ~\E g \in In(ready) : g.op \in {"accept", "write"}
    BY <1>4, ChainFacts DEF Reading
<1>6. AcceptFirst(t)' /\ ClearWhileReading(t)' /\ Striking(t)' /\ Arming(t)'
    BY <1>1, <1>4, <1>5 DEF AcceptFirst, ClearWhileReading, Striking, Arming
<1>7. NoTimer(t)'
    BY <1>1, <1>5 DEF Lone, NoTimer
<1>8. OwnTimer(t)'
    BY <1>1, <1>3, <1>4 DEF Lone, OwnTimer
<1>9. OwnRead(t)'
    BY <1>1 DEF Lone, OwnRead
<1>10. QED  BY <1>6, <1>7, <1>8, <1>9 DEF Lone

(* The timer handler looks at the flag and sets it.                        *)
LEMMA FlagLone ==
    ASSUME IInv, NEW t \in Threads, Lone(t), TestFlag(t) \/ MarkTimeout(t)
    PROVE  Lone(t)'
<1> USE DEF At, Goto
<1>1. /\ pc \in [Threads -> Labels]
      /\ UNCHANGED <<rd, wr, waits, ready, job, round, expired>>
      /\ Reading' <=> Reading
    BY DEF IInv, TypeOK, TestFlag, MarkTimeout, Reading
<1>2. /\ pc[t] \in {"test", "mark"} /\ pc'[t] \in {"idle", "abort"}
      /\ pc'[t] = "abort" => ~is_timeout' /\ pc[t] = "test" /\ job[t].code = "ok"
      /\ is_timeout' => is_timeout \/ pc[t] = "mark"
      /\ is_timeout => is_timeout'
    BY <1>1 DEF TestFlag, MarkTimeout, IInv, TypeOK
<1>3. ~\E h \in In(ready) : h.op = "accept"
    BY <1>2 DEF Lone, AcceptFirst
<1>4. ~is_timeout' => Reading
    BY <1>2, <1>3 DEF Lone, ClearWhileReading
<1>5. /\ pc'[t] = "abort" => round \in expired
      /\ Reading /\ is_timeout' => round \in expired
    BY <1>2, <1>4 DEF Lone, Striking, OwnTimer
<1>6. AcceptFirst(t)' /\ ClearWhileReading(t)' /\ Striking(t)' /\ Arming(t)'
    BY <1>1, <1>2, <1>3, <1>4, <1>5 DEF AcceptFirst, ClearWhileReading, Striking, Arming
<1>7. NoTimer(t)'
    BY <1>1, <1>2 DEF Lone, NoTimer
<1>8. OwnTimer(t)' /\ OwnRead(t)'
    BY <1>1, <1>2, <1>5 DEF Lone, OwnTimer, OwnRead
<1>9. QED  BY <1>6, <1>7, <1>8 DEF Lone

(* The timer handler cancels the read, or misses it while one of its       *)
(* handlers is queued (AbortSocket).                                       *)
LEMMA AbortLone ==
    ASSUME IInv, NEW t \in Threads, Lone(t), AbortSocket(t)
    PROVE  Lone(t)'
<1> USE DEF At, Goto
<1> DEFINE r == Handler("read", "aborted", round)
<1>1. /\ pc \in [Threads -> Labels] /\ pc[t] = "abort" /\ pc'[t] = "mark"
      /\ ready \in Seq(Handlers) /\ rd' = "none" /\ wr' = "none"
      /\ UNCHANGED <<is_timeout, waits, job, round, expired>>
    BY DEF IInv, TypeOK, AbortSocket
<1>2. Reading /\ ~is_timeout /\ round \in expired
    BY <1>1 DEF Lone, Striking
<1>3. wr # "pending" /\ ~\E h \in In(ready) : h.op \in {"accept", "write"}
    BY <1>2, ChainFacts DEF Reading
<1>4. r \in Handlers /\ r.op = "read" /\ r.rnd = round /\ ~OkTimer(r)
    BY DEF IInv, TypeOK, Handler, Handlers, Codes, OkTimer
<1>5. \/ rd = "pending" /\ ready' = Append(ready, r)
      \/ rd # "pending" /\ ready' = ready
  <2>1. CASE rd = "pending"
    <3>1. ready' = ready \o <<r>> \o <<>>
        BY <1>3, <2>1 DEF AbortSocket
    <3>2. ready' = Append(ready, r)
        BY <1>1, <1>4, <3>1
    <3>3. QED  BY <2>1, <3>2
  <2>2. CASE rd # "pending"
    <3>1. ready' = ready \o <<>> \o <<>>
        BY <1>3, <2>2 DEF AbortSocket
    <3>2. ready' = ready
        BY <1>1, <3>1
    <3>3. QED  BY <2>2, <3>2
  <2>3. QED  BY <2>1, <2>2
<1>6. In(ready') \subseteq In(ready) \cup {r} /\ In(ready) \subseteq In(ready')
    BY <1>1, <1>4, <1>5, InAppend
<1>7. TimersFirst(ready')
    BY <1>1, <1>4, <1>5, InAppend DEF Lone, NoTimer
<1>8. Reading'
  <2>1. CASE rd = "pending"
    <3>1. r \in In(ready')
        BY <2>1, <1>1, <1>4, <1>5, InAppend
    <3>2. QED  BY <3>1, <1>4 DEF Reading
  <2>2. CASE rd # "pending"
      BY <2>2, <1>2, <1>5 DEF Reading
  <2>3. QED  BY <2>1, <2>2
<1> HIDE DEF r
<1>9. AcceptFirst(t)' /\ ClearWhileReading(t)' /\ Striking(t)' /\ Arming(t)'
    BY <1>1, <1>2, <1>3, <1>4, <1>6, <1>8
    DEF AcceptFirst, ClearWhileReading, Striking, Arming
<1>10. NoTimer(t)'
    BY <1>1, <1>3, <1>4, <1>6, <1>7 DEF NoTimer
<1>11. OwnTimer(t)'
    BY <1>1, <1>2, <1>4, <1>6 DEF Lone, OwnTimer
<1>12. OwnRead(t)'
    BY <1>1, <1>2, <1>4, <1>6 DEF Lone, OwnRead
<1>13. QED  BY <1>9, <1>10, <1>11, <1>12 DEF Lone

(* The read completes, as a whole or with a piece (ReadDone, ReadChunk).   *)
LEMMA ReadLone ==
    ASSUME IInv, NEW t \in Threads, Lone(t), ReadDone \/ ReadChunk
    PROVE  Lone(t)'
<1>1. PICK op \in {"read", "chunk"}, code \in {"ok", "eof", "reset"} :
          ready' = Append(ready, Handler(op, code, round))
    BY DEF ReadDone, ReadChunk
<1> DEFINE h == Handler(op, code, round)
<1>2. /\ ready \in Seq(Handlers) /\ rd = "pending" /\ rd' = "none" /\ ready' = Append(ready, h)
      /\ UNCHANGED <<is_timeout, wr, waits, pc, job, round, expired>>
    BY <1>1 DEF IInv, TypeOK, ReadDone, ReadChunk
<1>3. /\ h \in Handlers /\ h.op \in {"read", "chunk"} /\ h.rnd = round
      /\ h.code # "aborted" /\ ~OkTimer(h)
    BY DEF IInv, TypeOK, Handler, Handlers, Codes, OkTimer
<1> HIDE DEF h
<1>4. In(ready') = In(ready) \cup {h} /\ TimersFirst(ready')
    BY <1>2, <1>3, InAppend DEF Lone, NoTimer
<1>5. /\ wr # "pending" /\ pc[t] \notin ChainLabels /\ \A g \in In(ready) : g.op = "timer"
      /\ Reading /\ Reading'
    BY <1>2, <1>3, <1>4, ChainFacts DEF Reading
<1>6. AcceptFirst(t)' /\ ClearWhileReading(t)' /\ Striking(t)' /\ Arming(t)'
    BY <1>2, <1>3, <1>4, <1>5
    DEF Lone, AcceptFirst, ClearWhileReading, Striking, Arming, ChainLabels
<1>7. NoTimer(t)'
    BY <1>2, <1>3, <1>4, <1>5 DEF NoTimer, ChainLabels
<1>8. OwnTimer(t)'
    BY <1>2, <1>3, <1>4, <1>5 DEF Lone, OwnTimer
<1>9. OwnRead(t)'
    BY <1>2, <1>3, <1>4, <1>5 DEF Lone, OwnRead
<1>10. QED  BY <1>6, <1>7, <1>8, <1>9 DEF Lone

(* The response is with the kernel, or lost (WriteDone).                   *)
LEMMA WriteLone ==
    ASSUME IInv, NEW t \in Threads, Lone(t), WriteDone
    PROVE  Lone(t)'
<1>1. PICK code \in {"ok", "reset"} : ready' = Append(ready, Handler("write", code, round))
    BY DEF WriteDone
<1> DEFINE h == Handler("write", code, round)
<1>2. /\ ready \in Seq(Handlers) /\ wr = "pending" /\ wr' = "none" /\ ready' = Append(ready, h)
      /\ UNCHANGED <<is_timeout, rd, waits, pc, job, round, expired>>
    BY <1>1 DEF IInv, TypeOK, WriteDone
<1>3. h \in Handlers /\ h.op = "write" /\ ~OkTimer(h)
    BY DEF IInv, TypeOK, Handler, Handlers, Codes, OkTimer
<1> HIDE DEF h
<1>4. In(ready') = In(ready) \cup {h} /\ TimersFirst(ready')
    BY <1>2, <1>3, InAppend DEF Lone, NoTimer
<1>5. /\ rd # "pending" /\ pc[t] \notin ChainLabels /\ \A g \in In(ready) : g.op = "timer"
      /\ waits = <<>> /\ ~Reading /\ ~Reading'
    BY <1>2, <1>3, <1>4, ChainFacts DEF Reading, Lone, NoTimer
<1>6. is_timeout
    BY <1>5 DEF Lone, ClearWhileReading, ChainLabels
<1>7. AcceptFirst(t)' /\ ClearWhileReading(t)' /\ Striking(t)' /\ Arming(t)'
    BY <1>2, <1>3, <1>4, <1>5, <1>6
    DEF Lone, AcceptFirst, ClearWhileReading, Striking, Arming, ChainLabels
<1>8. NoTimer(t)'
    BY <1>2, <1>4, <1>5 DEF NoTimer, ChainLabels
<1>9. OwnTimer(t)'
    BY <1>5 DEF OwnTimer
<1>10. OwnRead(t)'
    BY <1>2, <1>3, <1>4, <1>5 DEF Lone, OwnRead
<1>11. QED  BY <1>7, <1>8, <1>9, <1>10 DEF Lone

(* connection_lifetime has passed (TimerFires).                            *)
LEMMA TimerLone ==
    ASSUME IInv, NEW t \in Threads, Lone(t), TimerFires
    PROVE  Lone(t)'
<1>1. /\ ready \in Seq(Handlers) /\ waits \in Seq(Handlers) /\ waits # <<>>
      /\ ready' = ready \o waits /\ waits' = <<>>
      /\ expired' = expired \cup {waits[i].rnd : i \in DOMAIN waits}
      /\ UNCHANGED <<is_timeout, rd, wr, pc, job, round>>
    BY DEF IInv, TypeOK, TimerFires
<1>2. /\ In(ready') = In(ready) \cup In(waits) /\ In(waits') = {}
      /\ \A h \in In(waits) : h.rnd \in expired'
      /\ expired \subseteq expired'
  <2>1. In(ready') = In(ready) \cup In(waits)
      BY <1>1, InConcat
  <2>2. In(waits') = {} /\ expired \subseteq expired'
      BY <1>1 DEF In
  <2>3. \A h \in In(waits) : h.rnd \in expired'
      BY <1>1 DEF In
  <2>4. QED  BY <2>1, <2>2, <2>3
<1>3. \A h \in In(waits) : h.op = "timer"
    BY ChainFacts
<1>4. /\ pc[t] \notin {"accepted", "written", "start", "initiate", "process"} /\ wr # "pending"
      /\ ~\E h \in In(ready') : h.op \in {"accept", "write"}
    BY <1>1, <1>2, <1>3 DEF Lone, AcceptFirst, NoTimer
<1>5. TimersFirst(ready')
    BY <1>4 DEF TimersFirst, In
<1>6. Reading' <=> Reading
    BY <1>1, <1>2, <1>3 DEF Reading
<1>7. AcceptFirst(t)' /\ ClearWhileReading(t)' /\ Striking(t)' /\ Arming(t)'
    BY <1>1, <1>2, <1>4, <1>6
    DEF Lone, AcceptFirst, ClearWhileReading, Striking, Arming
<1>8. NoTimer(t)'
    BY <1>1, <1>4, <1>5 DEF NoTimer
<1>9. OwnTimer(t)'
    BY <1>1, <1>2, <1>6 DEF Lone, OwnTimer
<1>10. OwnRead(t)'
    BY <1>1, <1>2, <1>3 DEF Lone, OwnRead
<1>11. QED  BY <1>7, <1>8, <1>9, <1>10 DEF Lone

(* The client, and steps that leave the connection as it is.               *)
LEMMA OthersLone ==
    ASSUME NEW t \in Threads, Lone(t), Peer \/ UNCHANGED vars
    PROVE  Lone(t)'
<1>1. UNCHANGED <<is_timeout, rd, wr, waits, ready, pc, job, round, expired>>
    BY DEF Peer, PeerSends, PeerLeaves, code_vars, vars
<1>2. QED
    BY <1>1 DEF Lone, AcceptFirst, ClearWhileReading, Striking, NoTimer, Arming,
                OwnTimer, OwnRead, Reading

LEMMA StepTInv ==
    ASSUME OneThread, IInv, TInv, [Next]_vars
    PROVE  TInv'
<1> SUFFICES ASSUME NEW t \in Threads
             PROVE  Lone(t)'
    BY DEF TInv
<1>1. Lone(t)
    BY DEF TInv
<1>2. CASE ThreadStep(t)
    BY <1>1, <1>2, DispatchLone, ResumeLone, ChainStepLone, CancelLone, ArmLone, FlagLone,
       AbortLone
    DEF ThreadStep
<1>3. CASE Reactor
    BY <1>1, <1>3, ReadLone, WriteLone, TimerLone DEF Reactor
<1>4. CASE Peer \/ UNCHANGED vars
    BY <1>1, <1>4, OthersLone
<1>5. \/ \E u \in Threads : ThreadStep(u)
      \/ Reactor \/ Peer \/ UNCHANGED vars
    BY DEF Next
<1>6. ASSUME NEW u \in Threads, ThreadStep(u)
      PROVE  ThreadStep(t)
  <2>1. t = u
      BY DEF OneThread
  <2>2. QED  BY <1>6, <2>1
<1>7. QED  BY <1>2, <1>3, <1>4, <1>5, <1>6

LEMMA AlwaysTInv ==
    ASSUME OneThread PROVE Spec => [](IInv /\ TInv)
<1>1. Init => IInv /\ TInv
    BY InitIInv, InitTInv
<1>2. (IInv /\ TInv) /\ [Next]_vars => (IInv /\ TInv)'
    BY StepIInv, StepTInv
<1>3. QED  BY <1>1, <1>2, PTL DEF Spec

(* With one thread in io_context::run the comment of the timer handler is  *)
(* true: when it cancels the socket the connection is still reading        *)
(* (Connection.cpp:125).  Without the hypothesis it is not                 *)
(* (connection_late).                                                      *)
THEOREM TimerStrikesReading ==
    ASSUME OneThread PROVE Spec => []StillReading
<1>1. TInv => StillReading
  <2> SUFFICES ASSUME TInv, NEW t \in Threads, pc[t] = "abort"
               PROVE  \/ rd = "pending"
                      \/ \E i \in DOMAIN ready : ready[i].op \in {"read", "chunk"}
      BY DEF StillReading
  <2>1. Reading
      BY DEF TInv, Lone, Striking
  <2>2. QED  BY <2>1 DEF Reading, In
<1>2. QED  BY AlwaysTInv, <1>1, PTL

(* With one thread in io_context::run a client that is reported as timed   *)
(* out had its whole connection_lifetime (Connection.cpp:90, 102, 120).    *)
THEOREM TimeoutsAreTrue ==
    ASSUME OneThread PROVE Spec => []TimeoutIsTrue
<1>1. TInv => TimeoutIsTrue
    BY DEF TInv, Lone, OwnRead, TimeoutIsTrue
<1>2. QED  BY AlwaysTInv, <1>1, PTL
=============================================================================
