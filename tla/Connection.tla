----------------------------- MODULE Connection -----------------------------
(***************************************************************************)
(* One client connection of the server (src/pc_course_server/              *)
(* Connection.cpp), from the accept handler to the moment nothing keeps    *)
(* the object alive.                                                       *)
(*                                                                         *)
(* The object has no strand: its handlers wait in the queue of one         *)
(* io_context (ready) and any thread of the server may take any of them,   *)
(* so two handlers of one connection may run side by side.  A handler is   *)
(* cut into the steps between which another thread can see a difference:   *)
(* one step per access to is_timeout, to the timer, to the socket and per  *)
(* call that may throw.                                                    *)
(*                                                                         *)
(* The reactor completes the pending operations (ReadDone, WriteDone,      *)
(* TimerFires) and puts their handlers at the end of ready.  A request is  *)
(* one unit of wire; its text, its parsing and its answer are not told     *)
(* apart here.                                                             *)
(***************************************************************************)
EXTENDS Naturals, Sequences

CONSTANTS
    Threads,        \* the threads that run io_context::run
    MaxRequests,    \* bound: requests the peer sends over the connection
    MaxChunks       \* bound: times a request arrives in more than one piece

ASSUME ThreadsAssumption == Threads # {}
ASSUME BoundsAssumption == MaxRequests \in Nat /\ MaxChunks \in Nat

VARIABLES
    is_timeout,     \* the atomic_flag both the read and the timer handler set
    rd,             \* the async_read_until handed to the reactor, if any
    wr,             \* the async_write handed to the reactor, if any
    waits,          \* the async_waits pending on the timer
    ready,          \* the handlers queued in the io_context, oldest first
    pc,             \* where each thread is in the handler it runs
    job,            \* the handler each thread runs, or ran last
    round,          \* how many times ReadRequest has started a read
    peer,           \* what the client did to its end of the socket
    sent,           \* requests the client has sent
    wire,           \* requests sent and not yet read
    answered,       \* responses handed to the client
    chunks,         \* pieces short of a whole request read so far
    expired,        \* the rounds whose timer has run out
    crashed         \* an exception has left a handler: std::terminate

code_vars == <<is_timeout, rd, wr, waits, ready, pc, job, round, crashed>>
peer_vars == <<peer, sent, wire, answered, chunks>>
vars == <<is_timeout, rd, wr, waits, ready, pc, job, round, crashed,
          peer, sent, wire, answered, chunks, expired>>

Codes == {"ok", "eof", "aborted", "reset"}

(* A handler with the error_code it is called with and the call of         *)
(* ReadRequest it belongs to.                                              *)
Handlers == [op   : {"accept", "read", "chunk", "write", "timer"},
             code : Codes,
             rnd  : Nat]

Handler(op, code, rnd) == [op |-> op, code |-> code, rnd |-> rnd]

Aborted(h) == Handler(h.op, "aborted", h.rnd)

Labels == {"idle", "accepted", "start", "initiate", "expires", "wait",
           "claim", "report", "cancel", "process", "written",
           "test", "abort", "mark"}

TypeOK ==
    /\ is_timeout \in BOOLEAN
    /\ rd \in {"none", "pending"}
    /\ wr \in {"none", "pending"}
    /\ waits \in Seq(Handlers)
    /\ ready \in Seq(Handlers)
    /\ pc \in [Threads -> Labels]
    /\ job \in [Threads -> Handlers]
    /\ round \in Nat
    /\ peer \in {"open", "closed", "reset"}
    /\ sent \in 0..MaxRequests
    /\ wire \in Nat
    /\ answered \in Nat
    /\ chunks \in 0..MaxChunks
    /\ expired \in SUBSET Nat
    /\ crashed \in BOOLEAN

Init ==
    /\ is_timeout = FALSE
    /\ rd = "none"
    /\ wr = "none"
    /\ waits = <<>>
    /\ ready = <<Handler("accept", "ok", 0)>>
    /\ pc = [t \in Threads |-> "idle"]
    /\ job = [t \in Threads |-> Handler("accept", "ok", 0)]
    /\ round = 0
    /\ peer = "open"
    /\ sent = 0
    /\ wire = 0
    /\ answered = 0
    /\ chunks = 0
    /\ expired = {}
    /\ crashed = FALSE

-----------------------------------------------------------------------------
(* The threads of the server.                                              *)

At(t, label) == ~crashed /\ pc[t] = label

Goto(t, label) == pc' = [pc EXCEPT ![t] = label]

Entry(op) == CASE op = "accept" -> "accepted"
               [] op = "read"   -> "claim"
               [] op = "write"  -> "written"
               [] op = "timer"  -> "test"

(* io_context::run takes the oldest queued handler.                        *)
Dispatch(t) ==
    /\ At(t, "idle")
    /\ ready # <<>>
    /\ Head(ready).op # "chunk"
    /\ ready' = Tail(ready)
    /\ job' = [job EXCEPT ![t] = Head(ready)]
    /\ Goto(t, Entry(Head(ready).op))
    /\ UNCHANGED <<is_timeout, rd, wr, waits, round, crashed, peer_vars, expired>>

(* The part of async_read_until that reads on when the delimiter has not   *)
(* been seen yet.  Until it runs no operation is pending on the socket.    *)
Resume(t) ==
    /\ At(t, "idle")
    /\ ready # <<>>
    /\ Head(ready).op = "chunk"
    /\ ready' = Tail(ready)
    /\ rd' = "pending"
    /\ UNCHANGED <<is_timeout, wr, waits, pc, job, round, crashed, peer_vars, expired>>

(* remote_endpoint() throws once the peer has reset the connection, and    *)
(* nothing catches it.                                                     *)
EndpointOr(t, label) ==
    IF peer = "reset"
      THEN crashed' = TRUE /\ UNCHANGED pc
      ELSE Goto(t, label) /\ UNCHANGED crashed

(* The accept handler prints the endpoint and calls Start.                 *)
Accepted(t) ==
    /\ At(t, "accepted")
    /\ EndpointOr(t, "start")
    /\ UNCHANGED <<is_timeout, rd, wr, waits, ready, job, round, peer_vars, expired>>

(* Mutant: the flag of the previous read is left as it is.                 *)
ClearFlagForgotten(t) ==
    /\ At(t, "start")
    /\ Goto(t, "initiate")
    /\ UNCHANGED <<is_timeout, rd, wr, waits, ready, job, round, crashed, peer_vars, expired>>

(* ReadRequest, first part: the buffer is emptied and the flag cleared.    *)
ClearFlag(t) ==
    /\ At(t, "start")
    /\ is_timeout' = FALSE
    /\ Goto(t, "initiate")
    /\ UNCHANGED <<rd, wr, waits, ready, job, round, crashed, peer_vars, expired>>

(* ReadRequest, second part: async_read_until.  From here on the read      *)
(* handler may run on another thread.                                      *)
InitiateRead(t) ==
    /\ At(t, "initiate")
    /\ rd' = "pending"
    /\ round' = round + 1
    /\ job' = [job EXCEPT ![t] = Handler(job[t].op, job[t].code, round + 1)]
    /\ Goto(t, "expires")
    /\ UNCHANGED <<is_timeout, wr, waits, ready, crashed, peer_vars, expired>>

(* The pending waits complete with operation_aborted.                      *)
CancelWaits ==
    /\ ready' = ready \o [i \in DOMAIN waits |-> Aborted(waits[i])]
    /\ waits' = <<>>

(* ReadRequest, third part: expires_after, which cancels pending waits.    *)
ExpiresAfter(t) ==
    /\ At(t, "expires")
    /\ CancelWaits
    /\ Goto(t, "wait")
    /\ UNCHANGED <<is_timeout, rd, wr, job, round, crashed, peer_vars, expired>>

(* ReadRequest, last part: async_wait.                                     *)
ArmTimer(t) ==
    /\ At(t, "wait")
    /\ waits' = Append(waits, Handler("timer", "ok", job[t].rnd))
    /\ Goto(t, "idle")
    /\ UNCHANGED <<is_timeout, rd, wr, ready, job, round, crashed, peer_vars, expired>>

(* The read handler sets the flag.  A flag that was set already and        *)
(* operation_aborted lead to the same report of a timeout.                 *)
Claim(t) ==
    /\ At(t, "claim")
    /\ is_timeout' = TRUE
    /\ job' = [job EXCEPT ![t] = IF is_timeout THEN Aborted(job[t]) ELSE job[t]]
    /\ Goto(t, IF is_timeout \/ job[t].code \in {"eof", "aborted"}
                 THEN "report" ELSE "cancel")
    /\ UNCHANGED <<rd, wr, waits, ready, round, crashed, peer_vars, expired>>

(* The read handler prints who has been disconnected.                      *)
Report(t) ==
    /\ At(t, "report")
    /\ EndpointOr(t, IF job[t].code = "eof" THEN "cancel" ELSE "idle")
    /\ UNCHANGED <<is_timeout, rd, wr, waits, ready, job, round, peer_vars, expired>>

(* The read handler cancels the timer; only a request is processed.        *)
CancelTimer(t) ==
    /\ At(t, "cancel")
    /\ CancelWaits
    /\ Goto(t, IF job[t].code = "ok" THEN "process" ELSE "idle")
    /\ UNCHANGED <<is_timeout, rd, wr, job, round, crashed, peer_vars, expired>>

(* Mutant: the next request is read while the response is being written.   *)
ProcessAndReadOn(t) ==
    /\ At(t, "process")
    /\ wr' = "pending" /\ rd' = "pending"
    /\ Goto(t, "idle")
    /\ UNCHANGED <<is_timeout, waits, ready, job, round, crashed, peer_vars, expired>>

(* Mutant: a bad request is not answered, the next one is read at once.    *)
ProcessWithoutAnswer(t) ==
    /\ At(t, "process")
    /\ rd' = "pending"
    /\ Goto(t, "idle")
    /\ UNCHANGED <<is_timeout, wr, waits, ready, job, round, crashed, peer_vars, expired>>

(* ProcessRequest: run the request, then WriteRespone starts async_write.  *)
ProcessRequest(t) ==
    /\ At(t, "process")
    /\ wr' = "pending"
    /\ Goto(t, "idle")
    /\ UNCHANGED <<is_timeout, rd, waits, ready, job, round, crashed, peer_vars, expired>>

(* Mutant: the error_code of the write is not looked at.                   *)
WrittenReadsOn(t) ==
    /\ At(t, "written")
    /\ Goto(t, "start")
    /\ UNCHANGED <<is_timeout, rd, wr, waits, ready, job, round, crashed, peer_vars, expired>>

(* Mutant: a failed write is tried again.                                  *)
WrittenRetries(t) ==
    /\ At(t, "written")
    /\ Goto(t, IF job[t].code = "ok" THEN "start" ELSE "process")
    /\ UNCHANGED <<is_timeout, rd, wr, waits, ready, job, round, crashed, peer_vars, expired>>

(* The write handler reads the next request unless the write failed.       *)
Written(t) ==
    /\ At(t, "written")
    /\ Goto(t, IF job[t].code = "ok" THEN "start" ELSE "idle")
    /\ UNCHANGED <<is_timeout, rd, wr, waits, ready, job, round, crashed, peer_vars, expired>>

(* Mutant: the timer handler does not look at the flag.                    *)
TestNothing(t) ==
    /\ At(t, "test")
    /\ Goto(t, IF job[t].code = "ok" THEN "abort" ELSE "idle")
    /\ UNCHANGED <<is_timeout, rd, wr, waits, ready, job, round, crashed, peer_vars, expired>>

(* Mutant: the test of the flag is inverted.                               *)
TestInverted(t) ==
    /\ At(t, "test")
    /\ Goto(t, IF job[t].code = "ok" /\ is_timeout THEN "abort" ELSE "idle")
    /\ UNCHANGED <<is_timeout, rd, wr, waits, ready, job, round, crashed, peer_vars, expired>>

(* The timer handler looks at its error_code and at the flag ...           *)
TestFlag(t) ==
    /\ At(t, "test")
    /\ Goto(t, IF job[t].code = "ok" /\ ~is_timeout THEN "abort" ELSE "idle")
    /\ UNCHANGED <<is_timeout, rd, wr, waits, ready, job, round, crashed, peer_vars, expired>>

(* ... cancels whatever is pending on the socket ...                       *)
AbortSocket(t) ==
    /\ At(t, "abort")
    /\ rd' = "none"
    /\ wr' = "none"
    /\ ready' = ready
         \o (IF rd = "pending" THEN <<Handler("read", "aborted", round)>> ELSE <<>>)
         \o (IF wr = "pending" THEN <<Handler("write", "aborted", round)>> ELSE <<>>)
    /\ Goto(t, "mark")
    /\ UNCHANGED <<is_timeout, waits, job, round, crashed, peer_vars, expired>>

(* ... and sets the flag.                                                  *)
MarkTimeout(t) ==
    /\ At(t, "mark")
    /\ is_timeout' = TRUE
    /\ Goto(t, "idle")
    /\ UNCHANGED <<rd, wr, waits, ready, job, round, crashed, peer_vars, expired>>

ThreadStep(t) ==
    \/ Dispatch(t) \/ Resume(t)
    \/ Accepted(t) \/ ClearFlag(t) \/ InitiateRead(t) \/ ExpiresAfter(t) \/ ArmTimer(t)
    \/ Claim(t) \/ Report(t) \/ CancelTimer(t) \/ ProcessRequest(t) \/ Written(t)
    \/ TestFlag(t) \/ AbortSocket(t) \/ MarkTimeout(t)

-----------------------------------------------------------------------------
(* The reactor.                                                            *)

(* Mutant: the read completes although no delimiter has come.              *)
ReadDoneEarly ==
    /\ ~crashed
    /\ rd = "pending"
    /\ rd' = "none"
    /\ wire' = wire - 1
    /\ ready' = Append(ready, Handler("read", "ok", round))
    /\ UNCHANGED <<is_timeout, wr, waits, pc, job, round, crashed,
                   peer, sent, answered, chunks, expired>>

(* async_read_until ends: with a whole request, at the end of the stream,  *)
(* or because the connection was reset.                                    *)
ReadDone ==
    /\ ~crashed
    /\ rd = "pending"
    /\ rd' = "none"
    /\ \/ /\ wire > 0
          /\ wire' = wire - 1
          /\ ready' = Append(ready, Handler("read", "ok", round))
       \/ /\ wire = 0 /\ peer = "closed"
          /\ ready' = Append(ready, Handler("read", "eof", round))
          /\ UNCHANGED wire
       \/ /\ peer = "reset"
          /\ ready' = Append(ready, Handler("read", "reset", round))
          /\ UNCHANGED wire
    /\ UNCHANGED <<is_timeout, wr, waits, pc, job, round, crashed,
                   peer, sent, answered, chunks, expired>>

(* Some bytes have come, but no delimiter among them.                      *)
ReadChunk ==
    /\ ~crashed
    /\ rd = "pending"
    /\ chunks < MaxChunks
    /\ chunks' = chunks + 1
    /\ rd' = "none"
    /\ ready' = Append(ready, Handler("chunk", "ok", round))
    /\ UNCHANGED <<is_timeout, wr, waits, pc, job, round, crashed,
                   peer, sent, wire, answered, expired>>

(* async_write ends: the whole response is with the kernel, or the peer    *)
(* has reset the connection.                                               *)
WriteDone ==
    /\ ~crashed
    /\ wr = "pending"
    /\ wr' = "none"
    /\ \/ /\ peer # "reset"
          /\ answered' = answered + 1
          /\ ready' = Append(ready, Handler("write", "ok", round))
       \/ /\ peer = "reset"
          /\ ready' = Append(ready, Handler("write", "reset", round))
          /\ UNCHANGED answered
    /\ UNCHANGED <<is_timeout, rd, waits, pc, job, round, crashed,
                   peer, sent, wire, chunks, expired>>

(* connection_lifetime has passed: the waits complete without an error.    *)
TimerFires ==
    /\ ~crashed
    /\ waits # <<>>
    /\ ready' = ready \o waits
    /\ waits' = <<>>
    /\ expired' = expired \cup {waits[i].rnd : i \in DOMAIN waits}
    /\ UNCHANGED <<is_timeout, rd, wr, pc, job, round, crashed, peer_vars>>

Reactor == ReadDone \/ ReadChunk \/ WriteDone \/ TimerFires

-----------------------------------------------------------------------------
(* The client.                                                             *)

(* ServerConnection writes a request only when it has no answer to wait    *)
(* for.                                                                    *)
PeerSends ==
    /\ ~crashed
    /\ peer = "open"
    /\ sent = answered
    /\ sent < MaxRequests
    /\ sent' = sent + 1
    /\ wire' = wire + 1
    /\ UNCHANGED <<code_vars, peer, answered, chunks, expired>>

PeerLeaves ==
    /\ ~crashed
    /\ \/ peer = "open" /\ peer' \in {"closed", "reset"}
       \/ peer = "closed" /\ peer' = "reset"
    /\ UNCHANGED <<code_vars, sent, wire, answered, chunks, expired>>

Peer == PeerSends \/ PeerLeaves

-----------------------------------------------------------------------------
Next == (\E t \in Threads : ThreadStep(t)) \/ Reactor \/ Peer

(* io_context::run never rests while a handler is queued, and the reactor  *)
(* delivers what has completed.  Nothing makes the client act.             *)
Fairness ==
    /\ \A t \in Threads : WF_vars(ThreadStep(t))
    /\ WF_vars(ReadDone)
    /\ WF_vars(WriteDone)
    /\ WF_vars(TimerFires)

Spec == Init /\ [][Next]_vars
FairSpec == Spec /\ Fairness

-----------------------------------------------------------------------------
(* The chain: the right to read or to write.  It is handed from the accept *)
(* handler to a read, from the read to its handler, and so on.  A thread   *)
(* has it while it may still touch input_buf, output_str or start an       *)
(* operation on the socket.                                                *)
ChainLabels == {"accepted", "start", "initiate", "claim", "report",
                "cancel", "process", "written"}

ChainThread(t) == pc[t] \in ChainLabels
ChainHandler(h) == h.op # "timer"

NoneIn(q) == \A i \in DOMAIN q : ~ChainHandler(q[i])
OneIn(q) == \A i, j \in DOMAIN q :
                ChainHandler(q[i]) /\ ChainHandler(q[j]) => i = j

(* Nothing refers to the connection any more: the shared_ptr is gone and   *)
(* the destructor has closed the socket.                                   *)
Released ==
    /\ \A t \in Threads : pc[t] = "idle"
    /\ rd = "none" /\ wr = "none"
    /\ waits = <<>> /\ ready = <<>>

(* Neither streambuf nor output_str is locked, and async_read_until and    *)
(* async_write keep references to them: at most one handler, queued,       *)
(* running or pending in the reactor, may ever own them, however many      *)
(* threads run the handlers (Connection.cpp:79-117, 132-147).              *)
BuffersOwned ==
    /\ OneIn(ready)
    /\ ~(rd = "pending" /\ wr = "pending")
    /\ rd = "pending" \/ wr = "pending" => NoneIn(ready)
    /\ \A t \in Threads : ChainThread(t) =>
          /\ rd = "none" /\ wr = "none"
          /\ NoneIn(ready)
          /\ \A u \in Threads : ChainThread(u) => u = t

(* The phase of the connection that Exchange speaks of.                    *)
FailedWrite ==
    \/ \E t \in Threads : pc[t] = "written" /\ job[t].code # "ok"
    \/ \E i \in DOMAIN ready : ready[i].op = "write" /\ ready[i].code # "ok"

NoChain ==
    /\ \A t \in Threads : ~ChainThread(t)
    /\ NoneIn(ready)
    /\ rd = "none" /\ wr = "none"

Serving ==
    \/ wr = "pending"
    \/ \E t \in Threads : \/ pc[t] = "process"
                          \/ pc[t] = "cancel" /\ job[t].code = "ok"

Phase == IF crashed \/ NoChain \/ FailedWrite THEN "gone"
         ELSE IF Serving THEN "serving" ELSE "waiting"

Promise == INSTANCE Exchange WITH phase <- Phase

(* Responses alternate with requests, and a connection given up stays      *)
(* given up, although any thread may run any handler and the timer may     *)
(* strike at any step: Connection implements Exchange                      *)
(* (Connection.cpp:77-177).                                                *)
ImplementsExchange == Promise!Spec

(* The comment in the timer handler: when it cancels the socket the        *)
(* connection is "still reading" (Connection.cpp:125).                     *)
StillReading ==
    \A t \in Threads : pc[t] = "abort" =>
        \/ rd = "pending"
        \/ \E i \in DOMAIN ready : ready[i].op \in {"read", "chunk"}

(* A client that the read handler reports as timed out                     *)
(* (Connection.cpp:90 and 102) was given its whole connection_lifetime:    *)
(* the timer of that very read has run out.                                *)
TimeoutIsTrue ==
    \A t \in Threads :
        pc[t] = "report" /\ job[t].code = "aborted" => job[t].rnd \in expired

(* No thread gets stuck with a connection: once the peer has closed or     *)
(* reset its end, every handler runs out and the object is destroyed,      *)
(* unless the server has died.                                             *)
ClosedIsReleased == (peer # "open") ~> (Released \/ crashed)

(* A client that sent a request never waits in vain: it gets the answer,   *)
(* or the server drops the connection (or dies).                           *)
SentIsSettled == (sent > answered) ~> (sent = answered \/ Released \/ crashed)

(* The purpose of the timer: the read of a client that says nothing more,  *)
(* or sends its requests in one piece each, does not stay pending for ever *)
(* (Connection.cpp:120-129).  A piece of a request that is just being      *)
(* taken in makes the cancel of the timer miss the read.  This is so with  *)
(* one thread only: with two, the flag of a read may be set by the timer   *)
(* handler of the read before (Connection.cpp:127), after ReadRequest has  *)
(* cleared it, and the timer of the read then does nothing.                *)
ReadEnds == (rd = "pending") ~> (rd = "none" \/ crashed \/ chunks > 0)

(* With any number of threads nothing but such a late store, into the flag *)
(* of a read that is pending, makes that read stay pending for ever        *)
(* (Connection.cpp:120-129).                                               *)
ReadEndsUnlessMarked ==
    (rd = "pending") ~> (rd = "none" \/ is_timeout \/ crashed \/ chunks > 0)
=============================================================================
