---------------------------- MODULE ServerSession ----------------------------
(***************************************************************************)
(* The server of tests/msquic_test.cpp:205-345: the listener, a connection *)
(* and a stream, driven by the accept loop, one coroutine per connection,  *)
(* and the main thread that stops the listener and waits for the rest.     *)
(*                                                                         *)
(* The three handles are the modules of their own; here is who calls them  *)
(* when, and what of msquic ties them together: a connection's handshake   *)
(* waits for its configuration, the events of a stream come on the worker  *)
(* of its connection, and a connection is over after its streams are.      *)
(* One client connects, and starts a stream and after it a second one: the *)
(* configuration lets it open one at a time (tests/test_helper.hpp:82-85). *)
(*                                                                         *)
(* One thread runs the io_context, with the accept loop and the coroutine; *)
(* main runs it as well once the listener has stopped.  A check of the     *)
(* test that fails throws, which ends the coroutine.                       *)
(***************************************************************************)
EXTENDS Naturals

CONSTANTS c1, NoConnection,      \* the connection
          s1, s2, NoStream,      \* the stream the coroutine serves, a later one
          MaxBytes               \* bound: bytes the client sends on s1

\* The handles are told apart from each other and from no handle at all.
ASSUME SessionAssumption == /\ NoConnection # c1
                            /\ s1 # s2 /\ NoStream \notin {s1, s2}
                            /\ MaxBytes \in Nat

VARIABLES
  at,   \* the coroutine: what it awaits or closes
  \* the listener
  l_state_, l_pending_, l_mtx_, l_accept_bs_, l_chan, l_connection, l_op, l_life,
  l_locked, l_acquiring, l_delivering, l_arrived, l_taken, l_refused, l_failed,
  \* the connection
  c_state_, c_pending_, c_mtx_, c_accept_bs_, c_chan, c_stream, c_op, c_role, c_life,
  c_shut, c_worker, c_arrived, c_taken, c_refused, c_failed,
  \* the stream s1
  s_state_, s_pending_, s_chan, s_data, s_op, s_call, s_copied, s_strm, s_peer,
  s_sendq, s_rcv, s_sent, s_consumed, s_paused, s_shut, s_got, s_ended, s_failed

L == INSTANCE ListenerHandle WITH
       Connections <- {c1}, state_ <- l_state_, pending_ <- l_pending_, mtx_ <- l_mtx_,
       accept_bs_ <- l_accept_bs_, chan <- l_chan, connection <- l_connection, op <- l_op,
       life <- l_life, locked <- l_locked, acquiring <- l_acquiring,
       delivering <- l_delivering, arrived <- l_arrived, taken <- l_taken,
       refused <- l_refused, failed <- l_failed

C == INSTANCE ConnectionHandle WITH
       Streams <- {s1, s2}, state_ <- c_state_, pending_ <- c_pending_, mtx_ <- c_mtx_,
       accept_bs_ <- c_accept_bs_, chan <- c_chan, stream <- c_stream, op <- c_op,
       role <- c_role, life <- c_life, shut <- c_shut, worker <- c_worker,
       arrived <- c_arrived, taken <- c_taken, refused <- c_refused, failed <- c_failed

S == INSTANCE StreamHandle WITH
       state_ <- s_state_, pending_ <- s_pending_, chan <- s_chan, data <- s_data,
       op <- s_op, call <- s_call, copied <- s_copied, strm <- s_strm, peer <- s_peer,
       sendq <- s_sendq, rcv <- s_rcv, sent <- s_sent, consumed <- s_consumed,
       paused <- s_paused, shut <- s_shut, got <- s_got, ended <- s_ended,
       failed <- s_failed

listener == <<l_state_, l_pending_, l_mtx_, l_accept_bs_, l_chan, l_connection,
              l_op, l_life, l_locked, l_acquiring, l_delivering, l_arrived,
              l_taken, l_refused, l_failed>>
connection == <<c_state_, c_pending_, c_mtx_, c_accept_bs_, c_chan, c_stream, c_op,
                c_role, c_life, c_shut, c_worker, c_arrived, c_taken, c_refused,
                c_failed>>
stream == <<s_state_, s_pending_, s_chan, s_data, s_op, s_call, s_copied, s_strm,
            s_peer, s_sendq, s_rcv, s_sent, s_consumed, s_paused, s_shut, s_got,
            s_ended, s_failed>>
vars == <<at, listener, connection, stream>>

Stages == {"none", "connect", "accept", "receive", "send", "stream_shutdown",
           "conn_shutdown", "close_stream", "close_conn", "ended"}

Init == /\ at = "none"
        /\ L!Init
        /\ C!Init /\ c_role = "server"
        /\ S!Init /\ s_strm = "started"

------------------------------------------------------------------------------
\* Helpers

Listener(A) == A /\ UNCHANGED <<connection, stream>>
Connection(A) == A /\ UNCHANGED <<listener, stream>>
Stream(A) == A /\ UNCHANGED <<listener, connection>>

\* Slips of the code, for checking that the properties notice them.
ConnectionFirst == "close_conn"
AcceptAgain == "accept"
DetachedShutdown == /\ at = "stream_shutdown" /\ s_op["shutdown"] = "waiting"
                    /\ at' \in {"conn_shutdown", "close_stream"}
                    /\ UNCHANGED <<listener, connection, stream>>

\* Where the coroutine goes when it leaves the loop that declares the stream.
LeaveLoop == "close_stream"

\* An accept that is refused fails the check of its error.
AfterRefusal == "close_conn"

\* Main has the answer of its async_stop and runs the io_context too.
MainRuns == l_life = "stopped" /\ l_op["stop"] = "idle"

\* A close blocks its thread, and until main helps it is the only one.
ExecutorFree == at \notin {"close_stream", "close_conn"} \/ MainRuns

\* NEW_CONNECTION has returned, with the callback and the configuration set.
Configured == c1 \in l_arrived \ (l_locked \cup l_acquiring \cup l_delivering)

\* PEER_STREAM_STARTED for s1 has returned and its events can come.
WorkerServesStream ==
  s1 \in c_arrived /\ c_worker = C!Free /\ c_life \in {"connected", "closing"}

\* msquic ends a connection's streams before the connection.
StreamsOver == s1 \in c_arrived => s_strm \in {"done", "closed"}

------------------------------------------------------------------------------
\* The accept loop: async_accept until it is refused, and for a connection a
\* coroutine of its own.
AcceptLoop ==
  /\ ExecutorFree
  /\ \/ ~l_refused /\ Listener(L!AsyncAccept) /\ UNCHANGED at
     \/ /\ Listener(L!Complete("accept"))
        /\ at' = IF c1 \in l_taken' \ l_taken THEN "connect" ELSE at

------------------------------------------------------------------------------
\* The coroutine of the connection

\* It calls the operation it is about to await.
Call ==
  /\ UNCHANGED at
  /\ \/ at = "connect" /\ Connection(C!AsyncConnect)
     \/ at = "accept" /\ Connection(C!AsyncAccept)
     \/ at = "receive" /\ Stream(S!AsyncReceive)
     \/ at = "send" /\ Stream(S!AsyncSend \/ S!StreamSend \/ S!AsyncWait("send"))
     \/ at = "stream_shutdown" /\ Stream(S!AsyncShutdown)
     \/ at = "conn_shutdown" /\ Connection(C!AsyncShutdown)

\* An operation has completed: the coroutine goes on, or a check of its error,
\* of the number of bytes or of the bytes fails.

ResumeConnect ==
  /\ at = "connect" /\ Connection(C!Complete("conn"))
  /\ \/ at' = "accept"
     \/ c_state_ # "ok" /\ at' = "close_conn"

ResumeAccept ==
  /\ at = "accept" /\ Connection(C!Complete("accept"))
  /\ at' = IF c_refused' THEN AfterRefusal ELSE "receive"

\* The buffer has room for all the client sends.
ResumeReceive ==
  /\ at = "receive"
  /\ \/ Stream(S!ReceiveGet(MaxBytes)) /\ UNCHANGED at
     \/ /\ Stream(S!ReceiveComplete)
        /\ \/ s_ended = "no" /\ at' = "send"
           \/ at' = LeaveLoop

ResumeSend ==
  /\ at = "send" /\ Stream(S!Complete("send"))
  /\ at' \in {"stream_shutdown", LeaveLoop}

ResumeStreamShutdown ==
  /\ at = "stream_shutdown" /\ Stream(S!Complete("shutdown"))
  /\ at' \in {"conn_shutdown", LeaveLoop}

\* "for now we only accept 1 stream"
ResumeConnShutdown ==
  /\ at = "conn_shutdown" /\ Connection(C!Complete("shutdown"))
  /\ at' = LeaveLoop

\* The destructors of the stream and of the connection
CloseStream == at = "close_stream" /\ Stream(S!Close) /\ at' = "close_conn"
CloseConnection == at = "close_conn" /\ Connection(C!Close) /\ at' = "ended"

Coroutine == \/ Call \/ ResumeConnect \/ ResumeAccept \/ ResumeReceive \/ ResumeSend
             \/ ResumeStreamShutdown \/ ResumeConnShutdown
             \/ CloseStream \/ CloseConnection

------------------------------------------------------------------------------
\* The main thread: starts the listener, stops it once, waits for the handler
\* of async_stop, which is bound to no executor, then for the io_context to run
\* out of work, and destroys the listener.
Main ==
  /\ UNCHANGED at
  /\ \/ Listener(L!Start)
     \/ l_life = "started" /\ Listener(L!AsyncStop)
     \/ Listener(L!UnlockForStop)
     \/ Listener(L!ListenerStop)
     \/ Listener(L!ListenerStopped)
     \/ Listener(L!Complete("stop"))
     \/ MainRuns /\ l_refused /\ at \in {"none", "ended"} /\ Listener(L!Close)

------------------------------------------------------------------------------
\* msquic's workers

ClientConnects == Listener(L!NEW_CONNECTION) /\ UNCHANGED at

ListenerWorker ==
  /\ UNCHANGED at
  /\ \/ Listener(L!UnlockForAccept(c1))
     \/ Listener(L!AcquireAccept(c1))
     \/ Listener(L!DeliverConnection(c1))
     \/ Listener(L!STOP_COMPLETE)

\* What the client may do; the handshake may also resume a session.
ClientActs ==
  /\ UNCHANGED at
  /\ \/ Configured /\ Connection(C!CONNECTED \/ C!RESUMED \/ C!SHUTDOWN_INITIATED_BY_PEER)
     \/ /\ Connection(C!PEER_STREAM_STARTED)
        /\ s2 \in c_arrived' => s1 \in c_arrived /\ s_strm \in {"done", "closed"}
     \/ WorkerServesStream /\ Stream(S!RECEIVE \/ S!PEER_SEND_SHUTDOWN \/ S!PEER_SEND_ABORTED)

ConnectionWorker ==
  /\ UNCHANGED at
  /\ \/ Connection(C!UnlockForAccept)
     \/ Connection(C!AcquireAccept)
     \/ Connection(C!DeliverStream)
     \/ WorkerServesStream /\ Stream(S!SEND_COMPLETE)

\* A stream ends when it was shut down on both sides or its connection ends.
StreamEnds ==
  /\ WorkerServesStream
  /\ s_shut \/ s_peer # "open" \/ c_life = "closing" \/ c_shut
  /\ Stream(S!SHUTDOWN_COMPLETE) /\ UNCHANGED at

ConnectionEnds == StreamsOver /\ Connection(C!SHUTDOWN_COMPLETE) /\ UNCHANGED at

\* IdleTimeoutMs, or a handshake that fails
IdleTimeout ==
  Configured /\ Connection(C!SHUTDOWN_INITIATED_BY_TRANSPORT) /\ UNCHANGED at

Worker == \/ ClientConnects \/ ListenerWorker \/ ClientActs \/ ConnectionWorker
          \/ StreamEnds \/ ConnectionEnds \/ IdleTimeout

Next == AcceptLoop \/ Coroutine \/ Main \/ Worker

Spec == Init /\ [][Next]_vars

(***************************************************************************)
(* The threads of the program and msquic's workers go on when they can; a  *)
(* stream and a connection that end get their last event; a connection     *)
(* whose worker is free and whose client is silent times out.  Nothing     *)
(* obliges the client to connect, to send, or to start or end a stream.    *)
(***************************************************************************)
Fairness == /\ WF_vars(AcceptLoop) /\ WF_vars(Coroutine) /\ WF_vars(Main)
            /\ WF_vars(ListenerWorker) /\ WF_vars(ConnectionWorker)
            /\ WF_vars((s_shut \/ c_shut \/ c_life = "closing") /\ StreamEnds)
            /\ WF_vars(ConnectionEnds) /\ WF_vars(IdleTimeout)

FairSpec == Spec /\ Fairness

------------------------------------------------------------------------------
\* Properties

\* The connection's worker waits for an accept that never comes: for a second
\* stream, which the coroutine does not accept, or for the first one while the
\* coroutine waits for a CONNECTED that came before it asked.
StuckWorker ==
  /\ c_worker.at = "acquire" /\ c_op["accept"] = "idle"
  /\ c_worker.stream = s2 \/ at = "connect"

\* Whatever the client and the network do, and whichever check fails, the
\* stream's handle is closed before that of its connection.
NoStreamOutlivesItsConnection ==
  c_life = "closed" /\ s1 \in c_taken => s_strm = "closed"

\* Whoever destroys a handle has none of its operations outstanding, wherever
\* the coroutine was thrown out: no handler is left that captured a this that
\* is gone.
ClosesNothingInUse ==
  /\ at = "close_stream" => s_call = "none" /\ \A o \in S!Ops : s_op[o] = "idle"
  /\ at = "close_conn" => \A o \in C!Ops : c_op[o] = "idle"
  /\ MainRuns /\ l_refused => \A o \in L!Ops : l_op[o] = "idle"

\* The coroutine never accepts again after a refusal, so the binary semaphore of
\* its connection, which a refusal may leave a token on, gets no second one.
SemaphoreNeverOverfilled == c_accept_bs_ <= 1

\* A stream that the client starts after the first has been served is handed to
\* nobody: it has the worker from its arrival on and for good.
LaterStreamHoldsTheWorker ==
  /\ c_taken \subseteq {s1}
  /\ s2 \in c_arrived => c_worker.stream = s2 /\ c_worker.at \in {"unlock", "acquire"}

\* Whatever the client does or leaves undone, the coroutine of a connection
\* comes to its end and frees it, unless the worker is stuck: then its close
\* or its connect waits for ever.
SessionEnds == (at = "connect" ~> at = "ended") \/ <>[]StuckWorker

\* Once main has called async_stop the server runs out of work, and main
\* destroys the listener, whatever operations were in flight: "let server
\* clean up", tests/msquic_test.cpp:326; unless a worker is stuck.
ServerDrains == (l_op["stop"] # "idle" ~> l_life = "closed") \/ <>[]StuckWorker
==============================================================================
