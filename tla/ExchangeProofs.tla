---------------------------- MODULE ExchangeProofs ----------------------------
(***************************************************************************)
(* Connection implements Exchange, for every number of threads, requests   *)
(* and chunks: each step of a handler, of the reactor or of the client is  *)
(* a step of the promise or leaves it alone.                               *)
(***************************************************************************)
EXTENDS ConnectionProofs

FailedIn(q) == \E i \in DOMAIN q : q[i].op = "write" /\ q[i].code # "ok"

(* The phase is told by the place of the chain, which is one (IInv).       *)
PhaseFacts ==
    ~crashed =>
        /\ NoChain => Phase = "gone"
        /\ rd = "pending" => Phase = "waiting"
        /\ wr = "pending" => Phase = "serving"
        /\ \A t \in Threads : ChainThread(t) =>
              Phase = IF pc[t] = "written" /\ job[t].code # "ok" THEN "gone"
                      ELSE IF pc[t] = "process" \/ (pc[t] = "cancel" /\ job[t].code = "ok")
                        THEN "serving" ELSE "waiting"
        /\ \A i \in DOMAIN ready : ChainHandler(ready[i]) =>
              Phase = IF ready[i].op = "write" /\ ready[i].code # "ok" THEN "gone" ELSE "waiting"

LEMMA PhaseIs == IInv => PhaseFacts
<1> SUFFICES ASSUME IInv, ~crashed PROVE PhaseFacts
  BY DEF PhaseFacts
<1>0. TypeOK /\ BuffersOwned
  BY DEF IInv
<1> USE DEF ChainThread, ChainLabels, ChainHandler
<1>1. NoChain => Phase = "gone"
  BY DEF Phase
<1>2. \A q \in Seq(Handlers) : NoneIn(q) => ~FailedIn(q)
  BY DEF NoneIn, FailedIn
<1>3. ASSUME rd = "pending" PROVE Phase = "waiting"
  <2>1. wr = "none" /\ NoneIn(ready) /\ \A t \in Threads : ~ChainThread(t)
    BY <1>0, <1>3 DEF TypeOK, BuffersOwned
  <2>2. ~NoChain /\ ~FailedWrite /\ ~Serving
    BY <1>0, <1>2, <1>3, <2>1 DEF NoChain, FailedWrite, FailedIn, Serving, TypeOK
  <2> QED
    BY <2>2 DEF Phase
<1>4. ASSUME wr = "pending" PROVE Phase = "serving"
  <2>1. NoneIn(ready) /\ \A t \in Threads : ~ChainThread(t)
    BY <1>0, <1>4 DEF TypeOK, BuffersOwned
  <2>2. ~NoChain /\ ~FailedWrite /\ Serving
    BY <1>0, <1>2, <1>4, <2>1 DEF NoChain, FailedWrite, FailedIn, Serving, TypeOK
  <2> QED
    BY <2>2 DEF Phase
<1>5. ASSUME NEW t \in Threads, ChainThread(t)
      PROVE  Phase = IF pc[t] = "written" /\ job[t].code # "ok" THEN "gone"
                     ELSE IF pc[t] = "process" \/ (pc[t] = "cancel" /\ job[t].code = "ok")
                       THEN "serving" ELSE "waiting"
  <2>1. wr = "none" /\ rd = "none" /\ NoneIn(ready) /\ \A u \in Threads : ChainThread(u) => u = t
    BY <1>0, <1>5 DEF BuffersOwned
  <2>2. ~NoChain
    BY <1>5 DEF NoChain
  <2>3. FailedWrite <=> pc[t] = "written" /\ job[t].code # "ok"
    BY <1>0, <1>2, <2>1 DEF FailedWrite, FailedIn, TypeOK
  <2>4. Serving <=> pc[t] = "process" \/ (pc[t] = "cancel" /\ job[t].code = "ok")
    BY <2>1 DEF Serving
  <2> QED
    BY <2>2, <2>3, <2>4 DEF Phase
<1>6. ASSUME NEW i \in DOMAIN ready, ChainHandler(ready[i])
      PROVE  Phase = IF ready[i].op = "write" /\ ready[i].code # "ok" THEN "gone" ELSE "waiting"
  <2>1. wr = "none" /\ rd = "none" /\ \A t \in Threads : ~ChainThread(t)
    BY <1>0, <1>6 DEF BuffersOwned, NoneIn, TypeOK
  <2>2. \A j \in DOMAIN ready : ready[j].op = "write" => j = i
    BY <1>0, <1>6 DEF BuffersOwned, OneIn
  <2>3. ~NoChain /\ ~Serving
    BY <1>6, <2>1 DEF NoChain, NoneIn, Serving
  <2>4. FailedWrite <=> ready[i].op = "write" /\ ready[i].code # "ok"
    BY <2>1, <2>2 DEF FailedWrite
  <2> QED
    BY <2>3, <2>4 DEF Phase
<1> QED
  BY <1>1, <1>3, <1>4, <1>5, <1>6 DEF PhaseFacts

(* The timer's handlers at the end of the queue change nothing.            *)
LEMMA ConcatFailed ==
    ASSUME NEW q \in Seq(Handlers), NEW r \in Seq(Handlers), NoneIn(r)
    PROVE  FailedIn(q \o r) <=> FailedIn(q)
<1>1. /\ Len(q) \in Nat /\ Len(r) \in Nat
      /\ DOMAIN q = 1..Len(q) /\ DOMAIN r = 1..Len(r)
      /\ DOMAIN (q \o r) = 1..(Len(q) + Len(r))
      /\ \A i \in 1..Len(q) : (q \o r)[i] = q[i]
      /\ \A i \in 1..(Len(q) + Len(r)) : i > Len(q) => (q \o r)[i] = r[i - Len(q)]
  OBVIOUS
<1>2. FailedIn(q) => FailedIn(q \o r)
  BY <1>1 DEF FailedIn
<1>3. ASSUME NEW i \in DOMAIN (q \o r), (q \o r)[i].op = "write", (q \o r)[i].code # "ok"
      PROVE  FailedIn(q)
  <2>1. CASE i <= Len(q)
    BY <1>1, <1>3, <2>1 DEF FailedIn
  <2>2. CASE i > Len(q)
    <3>1. i - Len(q) \in DOMAIN r /\ (q \o r)[i] = r[i - Len(q)]
      BY <1>1, <2>2
    <3> QED
      BY <1>3, <3>1 DEF NoneIn, ChainHandler
  <2> QED
    BY <1>1, <2>1, <2>2
<1> QED
  BY <1>2, <1>3 DEF FailedIn

LEMMA TailFailed ==
    ASSUME NEW q \in Seq(Handlers), q # <<>>, Head(q).op = "timer"
    PROVE  /\ FailedIn(Tail(q)) <=> FailedIn(q)
           /\ NoneIn(Tail(q)) <=> NoneIn(q)
<1>1. /\ Len(q) \in Nat \ {0} /\ DOMAIN q = 1..Len(q)
      /\ DOMAIN Tail(q) = 1..(Len(q) - 1)
      /\ \A i \in DOMAIN Tail(q) : Tail(q)[i] = q[i + 1]
      /\ Head(q) = q[1]
  OBVIOUS
<1>2. FailedIn(Tail(q)) => FailedIn(q)
  BY <1>1 DEF FailedIn
<1>3. ASSUME NEW i \in DOMAIN q, q[i].op = "write", q[i].code # "ok" PROVE FailedIn(Tail(q))
  <2>1. i # 1
    BY <1>1, <1>3
  <2>2. i \in 1..Len(q)
    BY <1>1
  <2>3. i - 1 \in DOMAIN Tail(q) /\ (i - 1) + 1 = i
    BY <1>1, <2>1, <2>2
  <2>4. Tail(q)[i - 1] = q[i]
    BY <1>1, <2>3
  <2> QED
    BY <1>3, <2>3, <2>4 DEF FailedIn
<1>4. NoneIn(Tail(q)) <=> NoneIn(q)
  BY TailChain DEF ChainHandler
<1> QED
  BY <1>2, <1>3, <1>4 DEF FailedIn

(* What leaves the chain where it is leaves the phase as it is.            *)
LEMMA SamePhase ==
    ASSUME UNCHANGED <<rd, wr, crashed, answered>>,
           NoneIn(ready') <=> NoneIn(ready),
           FailedIn(ready') <=> FailedIn(ready),
           \A t \in Threads :
              /\ pc'[t] # pc[t] => ~ChainThread(t) /\ ~ChainThread(t)'
              /\ ChainThread(t) => job'[t] = job[t]
    PROVE  UNCHANGED <<Phase, answered>>
<1> USE DEF ChainThread, ChainLabels
<1>1. NoChain' <=> NoChain
  BY DEF NoChain
<1>2. FailedWrite' <=> FailedWrite
  BY DEF FailedWrite, FailedIn
<1>3. Serving' <=> Serving
  BY DEF Serving
<1> QED
  BY <1>1, <1>2, <1>3 DEF Phase

(* A step of the promise, in terms of the phase.                           *)
Kept == UNCHANGED <<Phase, answered>>
Taken == Phase = "waiting" /\ Phase' = "serving" /\ UNCHANGED answered
Dropped == Phase # "gone" /\ Phase' = "gone" /\ UNCHANGED answered
Answered == Phase = "serving" /\ Phase' = "waiting" /\ answered' = answered + 1

LEMMA StepPhase ==
    ASSUME IInv, IInv', PhaseFacts, PhaseFacts', Next
    PROVE  Kept \/ Taken \/ Dropped \/ Answered
<1> USE DEF At, Goto, ChainThread, ChainLabels
<1>0. TypeOK /\ BuffersOwned /\ NoneIn(waits) /\ TypeOK' /\ BuffersOwned'
  BY DEF IInv
<1>1. ASSUME NEW t \in Threads, Dispatch(t) PROVE Kept
  <2>1. /\ ~crashed /\ ready # <<>> /\ ready \in Seq(Handlers)
        /\ Head(ready) \in Handlers /\ Head(ready) = ready[1] /\ 1 \in DOMAIN ready
        /\ pc[t] = "idle" /\ pc' = [pc EXCEPT ![t] = Entry(Head(ready).op)]
        /\ job' = [job EXCEPT ![t] = Head(ready)] /\ ready' = Tail(ready)
        /\ UNCHANGED <<rd, wr, crashed, answered>>
    BY <1>0, <1>1, TailChain DEF Dispatch, TypeOK, peer_vars
  <2>2. CASE Head(ready).op = "timer"
    <3>1. Entry(Head(ready).op) = "test"
      BY <2>2 DEF Entry
    <3>2. /\ NoneIn(ready') <=> NoneIn(ready)
          /\ FailedIn(ready') <=> FailedIn(ready)
      BY <2>1, <2>2, TailFailed
    <3>3. \A u \in Threads :
             /\ pc'[u] # pc[u] => ~ChainThread(u) /\ ~ChainThread(u)'
             /\ ChainThread(u) => job'[u] = job[u]
      BY <1>0, <2>1, <3>1 DEF TypeOK
    <3> QED
      BY <2>1, <3>2, <3>3, SamePhase DEF Kept
  <2>3. CASE Head(ready).op # "timer"
    <3>1. Phase = IF Head(ready).op = "write" /\ Head(ready).code # "ok" THEN "gone" ELSE "waiting"
      BY <2>1, <2>3 DEF PhaseFacts, ChainHandler
    <3>2. Head(ready).op \in {"accept", "read", "write"}
      BY <1>1, <2>1, <2>3 DEF Dispatch, Handlers
    <3>3. /\ pc'[t] = IF Head(ready).op = "accept" THEN "accepted"
                      ELSE IF Head(ready).op = "read" THEN "claim" ELSE "written"
          /\ job'[t] = Head(ready)
      BY <1>0, <2>1, <3>2 DEF TypeOK, Entry
    <3>4. Phase' = IF Head(ready).op = "write" /\ Head(ready).code # "ok" THEN "gone" ELSE "waiting"
      BY <2>1, <3>2, <3>3 DEF PhaseFacts
    <3> QED
      BY <2>1, <3>1, <3>4 DEF Kept
  <2> QED
    BY <2>2, <2>3
<1>2. ASSUME NEW t \in Threads, Resume(t) PROVE Kept
  <2>1. ready \in Seq(Handlers) /\ Head(ready) = ready[1] /\ 1 \in DOMAIN ready
    BY <1>0, <1>2 DEF Resume, TypeOK
  <2> QED
    BY <1>2, <2>1 DEF Resume, PhaseFacts, ChainHandler, Kept, peer_vars
<1>3. ASSUME NEW t \in Threads, Accepted(t) PROVE Kept \/ Dropped
  BY <1>0, <1>3 DEF Accepted, EndpointOr, PhaseFacts, TypeOK, Kept, Dropped, Phase, peer_vars
<1>4. ASSUME NEW t \in Threads, ClearFlag(t) PROVE Kept
  BY <1>0, <1>4 DEF ClearFlag, PhaseFacts, TypeOK, Kept, peer_vars
<1>5. ASSUME NEW t \in Threads, InitiateRead(t) PROVE Kept
  BY <1>0, <1>5 DEF InitiateRead, PhaseFacts, TypeOK, Kept, peer_vars
<1>6. ASSUME NEW t \in Threads, ExpiresAfter(t) \/ CancelTimer(t)
      PROVE  /\ NoneIn(ready') <=> NoneIn(ready)
             /\ FailedIn(ready') <=> FailedIn(ready)
  <2> DEFINE c == [i \in DOMAIN waits |-> Aborted(waits[i])]
  <2>1. ready \in Seq(Handlers) /\ waits \in Seq(Handlers) /\ ready' = ready \o c
    BY <1>0, <1>6 DEF ExpiresAfter, CancelTimer, CancelWaits, TypeOK
  <2>2. c \in Seq(Handlers) /\ NoneIn(c)
    BY <1>0, <2>1, CancelledWaits
  <2> HIDE DEF c
  <2> QED
    BY <2>1, <2>2, ConcatFailed, ConcatChain
<1>7. ASSUME NEW t \in Threads, ExpiresAfter(t) PROVE Kept
  <2>1. /\ UNCHANGED <<rd, wr, crashed, answered, job>>
        /\ pc[t] = "expires" /\ pc' = [pc EXCEPT ![t] = "wait"]
    BY <1>7 DEF ExpiresAfter, peer_vars
  <2> QED
    BY <1>0, <1>6, <1>7, <2>1, SamePhase DEF TypeOK, Kept
<1>8. ASSUME NEW t \in Threads, CancelTimer(t) PROVE Kept \/ Dropped
  <2>1. /\ UNCHANGED <<rd, wr, crashed, answered, job>> /\ ~crashed
        /\ pc[t] = "cancel" /\ pc' = [pc EXCEPT ![t] = IF job[t].code = "ok" THEN "process" ELSE "idle"]
    BY <1>8 DEF CancelTimer, peer_vars
  <2>2. CASE job[t].code = "ok"
    <3>1. Phase = "serving" /\ pc'[t] = "process"
      BY <1>0, <2>1, <2>2 DEF PhaseFacts, TypeOK
    <3>2. Phase' = "serving"
      BY <2>1, <3>1 DEF PhaseFacts
    <3> QED
      BY <2>1, <3>1, <3>2 DEF Kept
  <2>3. CASE job[t].code # "ok"
    <3>1. Phase = "waiting"
      BY <2>1, <2>3 DEF PhaseFacts
    <3>2. rd = "none" /\ wr = "none" /\ NoneIn(ready) /\ \A u \in Threads : ChainThread(u) => u = t
      BY <1>0, <2>1 DEF BuffersOwned
    <3>3. NoChain'
      BY <1>0, <1>6, <1>8, <2>1, <2>3, <3>2 DEF NoChain, TypeOK
    <3> QED
      BY <2>1, <3>1, <3>3 DEF PhaseFacts, Dropped
  <2> QED
    BY <2>2, <2>3
<1>9. ASSUME NEW t \in Threads, ArmTimer(t) PROVE Kept
  <2>1. /\ UNCHANGED <<rd, wr, crashed, answered, job, ready>>
        /\ pc[t] = "wait" /\ pc' = [pc EXCEPT ![t] = "idle"]
    BY <1>9 DEF ArmTimer, peer_vars
  <2> QED
    BY <1>0, <2>1, SamePhase DEF TypeOK, Kept
<1>10. ASSUME NEW t \in Threads, Claim(t) PROVE Kept \/ Taken
  <2>1. /\ ~crashed /\ pc[t] = "claim" /\ UNCHANGED <<crashed, answered>>
        /\ pc'[t] \in {"report", "cancel"}
    BY <1>0, <1>10 DEF Claim, TypeOK, peer_vars
  <2>2. Phase = "waiting"
    BY <2>1 DEF PhaseFacts
  <2>3. Phase' \in {"waiting", "serving"}
    BY <2>1 DEF PhaseFacts
  <2> QED
    BY <2>1, <2>2, <2>3 DEF Kept, Taken
<1>11. ASSUME NEW t \in Threads, Report(t) PROVE Kept \/ Dropped
  <2>1. ~crashed /\ pc[t] = "report" /\ UNCHANGED <<answered, job, rd, wr, ready>>
    BY <1>11 DEF Report, peer_vars
  <2>2. Phase = "waiting"
    BY <2>1 DEF PhaseFacts
  <2>3. CASE crashed'
    BY <2>1, <2>2, <2>3 DEF Phase, Dropped
  <2>4. CASE ~crashed' /\ job[t].code = "eof"
    <3>1. pc'[t] = "cancel" /\ job'[t].code # "ok"
      BY <1>0, <1>11, <2>1, <2>4 DEF Report, EndpointOr, TypeOK
    <3> QED
      BY <2>1, <2>2, <2>4, <3>1 DEF PhaseFacts, Kept
  <2>5. CASE ~crashed' /\ job[t].code # "eof"
    <3>1. pc' = [pc EXCEPT ![t] = "idle"]
      BY <1>11, <2>5 DEF Report, EndpointOr
    <3>2. rd = "none" /\ wr = "none" /\ NoneIn(ready) /\ \A u \in Threads : ChainThread(u) => u = t
      BY <1>0, <2>1 DEF BuffersOwned
    <3>3. NoChain'
      BY <1>0, <2>1, <3>1, <3>2 DEF NoChain, TypeOK
    <3> QED
      BY <2>1, <2>2, <2>5, <3>3 DEF PhaseFacts, Dropped
  <2> QED
    BY <2>3, <2>4, <2>5
<1>12. ASSUME NEW t \in Threads, ProcessRequest(t) PROVE Kept
  BY <1>0, <1>12 DEF ProcessRequest, PhaseFacts, TypeOK, Kept, peer_vars
<1>13. ASSUME NEW t \in Threads, Written(t) PROVE Kept
  <2>1. /\ ~crashed /\ pc[t] = "written" /\ UNCHANGED <<answered, job, rd, wr, ready, crashed>>
        /\ pc' = [pc EXCEPT ![t] = IF job[t].code = "ok" THEN "start" ELSE "idle"]
    BY <1>13 DEF Written, peer_vars
  <2>2. CASE job[t].code = "ok"
    <3>1. Phase = "waiting" /\ pc'[t] = "start"
      BY <1>0, <2>1, <2>2 DEF PhaseFacts, TypeOK
    <3> QED
      BY <2>1, <3>1 DEF PhaseFacts, Kept
  <2>3. CASE job[t].code # "ok"
    <3>1. Phase = "gone"
      BY <2>1, <2>3 DEF PhaseFacts
    <3>2. rd = "none" /\ wr = "none" /\ NoneIn(ready) /\ \A u \in Threads : ChainThread(u) => u = t
      BY <1>0, <2>1 DEF BuffersOwned
    <3>3. NoChain'
      BY <1>0, <2>1, <2>3, <3>2 DEF NoChain, TypeOK
    <3> QED
      BY <2>1, <3>1, <3>3 DEF PhaseFacts, Kept
  <2> QED
    BY <2>2, <2>3
<1>14. ASSUME NEW t \in Threads, TestFlag(t) \/ MarkTimeout(t) PROVE Kept
  <2>1. /\ UNCHANGED <<rd, wr, crashed, answered, job, ready>>
        /\ pc[t] \in {"test", "mark"}
        /\ \E label \in {"abort", "idle"} : pc' = [pc EXCEPT ![t] = label]
    BY <1>14 DEF TestFlag, MarkTimeout, peer_vars
  <2> QED
    BY <1>0, <2>1, SamePhase DEF TypeOK, Kept
<1>15. ASSUME NEW t \in Threads, AbortSocket(t) PROVE Kept \/ Dropped
  <2> DEFINE r == Handler("read", "aborted", round)
             w == Handler("write", "aborted", round)
  <2>1. /\ r \in Handlers /\ w \in Handlers /\ ready \in Seq(Handlers) /\ Len(ready) \in Nat
        /\ r.op = "read" /\ w.op = "write" /\ w.code = "aborted"
    BY <1>0 DEF TypeOK, Handler, Handlers, Codes
  <2>2. ~crashed /\ UNCHANGED <<crashed, answered, job>> /\ rd' = "none" /\ wr' = "none"
        /\ pc[t] = "abort" /\ pc' = [pc EXCEPT ![t] = "mark"]
    BY <1>15 DEF AbortSocket, peer_vars
  <2>3. CASE rd = "pending"
    <3>1. wr = "none" /\ Phase = "waiting"
      BY <1>0, <2>2, <2>3 DEF TypeOK, BuffersOwned, PhaseFacts
    <3>2. ready' = ready \o <<r>> \o <<>>
      BY <1>15, <2>3, <3>1 DEF AbortSocket
    <3>3. ready' = Append(ready, r)
      BY <2>1, <3>2
    <3>4. Len(ready) + 1 \in DOMAIN ready' /\ ready'[Len(ready) + 1] = r
      BY <2>1, <3>3
    <3>5. Phase' = "waiting"
      BY <2>1, <2>2, <3>4 DEF PhaseFacts, ChainHandler
    <3> QED
      BY <2>2, <3>1, <3>5 DEF Kept
  <2>4. CASE rd # "pending" /\ wr = "pending"
    <3>1. Phase = "serving"
      BY <2>2, <2>4 DEF PhaseFacts
    <3>2. ready' = ready \o <<>> \o <<w>>
      BY <1>15, <2>4 DEF AbortSocket
    <3>3. ready' = Append(ready, w)
      BY <2>1, <3>2
    <3>4. Len(ready) + 1 \in DOMAIN ready' /\ ready'[Len(ready) + 1] = w
      BY <2>1, <3>3
    <3>5. Phase' = "gone"
      BY <2>1, <2>2, <3>4 DEF PhaseFacts, ChainHandler
    <3> QED
      BY <2>2, <3>1, <3>5 DEF Dropped
  <2>5. CASE rd # "pending" /\ wr # "pending"
    <3>1. ready' = ready \o <<>> \o <<>>
      BY <1>15, <2>5 DEF AbortSocket
    <3>2. ready' = ready /\ rd = "none" /\ wr = "none"
      BY <1>0, <2>1, <2>5, <3>1 DEF TypeOK
    <3> QED
      BY <1>0, <2>2, <3>2, SamePhase DEF TypeOK, Kept
  <2> QED
    BY <2>3, <2>4, <2>5
<1>16. ASSUME ReadDone \/ ReadChunk PROVE Kept
  <2>1. /\ ~crashed /\ rd = "pending" /\ UNCHANGED <<crashed, answered>>
        /\ ready \in Seq(Handlers) /\ Len(ready) \in Nat
    BY <1>0, <1>16 DEF ReadDone, ReadChunk, TypeOK
  <2>2. PICK op \in {"read", "chunk"}, code \in Codes : ready' = Append(ready, Handler(op, code, round))
    BY <1>16 DEF ReadDone, ReadChunk, Codes
  <2>3. /\ Len(ready) + 1 \in DOMAIN ready'
        /\ ready'[Len(ready) + 1] = Handler(op, code, round)
        /\ Handler(op, code, round) \in Handlers
        /\ Handler(op, code, round).op = op
    BY <1>0, <2>1, <2>2 DEF Handler, Handlers, TypeOK
  <2>4. Phase = "waiting" /\ Phase' = "waiting"
    BY <2>1, <2>3 DEF PhaseFacts, ChainHandler
  <2> QED
    BY <2>1, <2>4 DEF Kept
<1>17. ASSUME WriteDone PROVE Dropped \/ Answered
  <2>1. /\ ~crashed /\ wr = "pending" /\ UNCHANGED crashed
        /\ ready \in Seq(Handlers) /\ Len(ready) \in Nat
    BY <1>0, <1>17 DEF WriteDone, TypeOK
  <2>2. PICK code \in {"ok", "reset"} :
           /\ ready' = Append(ready, Handler("write", code, round))
           /\ answered' = IF code = "ok" THEN answered + 1 ELSE answered
    BY <1>17 DEF WriteDone
  <2>3. /\ Len(ready) + 1 \in DOMAIN ready'
        /\ ready'[Len(ready) + 1] = Handler("write", code, round)
        /\ Handler("write", code, round).op = "write"
        /\ Handler("write", code, round).code = code
    BY <1>0, <2>1, <2>2 DEF Handler, Handlers, TypeOK, Codes
  <2>4. Phase = "serving" /\ Phase' = IF code = "ok" THEN "waiting" ELSE "gone"
    BY <2>1, <2>3 DEF PhaseFacts, ChainHandler
  <2> QED
    BY <2>2, <2>4 DEF Dropped, Answered
<1>18. ASSUME TimerFires PROVE Kept
  <2>1. ready \in Seq(Handlers) /\ waits \in Seq(Handlers) /\ ready' = ready \o waits
        /\ UNCHANGED <<rd, wr, crashed, answered, job, pc>>
    BY <1>0, <1>18 DEF TimerFires, TypeOK, peer_vars
  <2>2. (NoneIn(ready') <=> NoneIn(ready)) /\ (FailedIn(ready') <=> FailedIn(ready))
    BY <1>0, <2>1, ConcatFailed, ConcatChain
  <2> QED
    BY <2>1, <2>2, SamePhase DEF Kept
<1>19. ASSUME Peer PROVE Kept
  <2>1. UNCHANGED <<rd, wr, crashed, answered, job, pc, ready>>
    BY <1>19 DEF Peer, PeerSends, PeerLeaves, code_vars
  <2> QED
    BY <2>1, SamePhase DEF Kept
<1> QED
  BY <1>1, <1>2, <1>3, <1>4, <1>5, <1>7, <1>8, <1>9, <1>10, <1>11, <1>12, <1>13, <1>14, <1>15,
     <1>16, <1>17, <1>18, <1>19
     DEF Next, ThreadStep, Reactor

(* Requests and responses alternate, and a connection that is given up     *)
(* stays so, for any number of threads: Connection implements Exchange     *)
(* (Connection.cpp:77-177).                                                *)
THEOREM Implements == Spec => ImplementsExchange
<1>1. Init => Promise!Init
  <2> SUFFICES ASSUME Init PROVE Phase = "waiting" /\ answered = 0
    BY DEF Promise!Init
  <2>1. IInv /\ PhaseFacts
    BY InitIInv, PhaseIs
  <2>2. /\ 1 \in DOMAIN ready /\ ready[1].op = "accept" /\ ~crashed /\ answered = 0
    BY DEF Init, Handler
  <2> QED
    BY <2>1, <2>2 DEF PhaseFacts, ChainHandler
<1>2. ASSUME IInv, [Next]_vars PROVE [Promise!Next]_(Promise!vars)
  <2>1. CASE Next
    <3>1. IInv' /\ PhaseFacts /\ PhaseFacts'
      <4>1. IInv'
        BY <1>2, StepIInv
      <4>2. (IInv => PhaseFacts)'
        BY PhaseIs, PTL
      <4> QED
        BY <1>2, <4>1, <4>2, PhaseIs
    <3>2. Kept \/ Taken \/ Dropped \/ Answered
      BY <1>2, <2>1, <3>1, StepPhase
    <3> QED
      BY <3>2 DEF Kept, Taken, Dropped, Answered, Promise!Next, Promise!Take, Promise!Answer,
                  Promise!Drop, Promise!vars
  <2>2. CASE UNCHANGED vars
    BY <2>2 DEF vars, Promise!vars, Phase, NoChain, FailedWrite, Serving, ChainThread
  <2> QED
    BY <1>2, <2>1, <2>2
<1> QED
  BY <1>1, <1>2, Inductive, PTL DEF Spec, ImplementsExchange, Promise!Spec
=============================================================================
