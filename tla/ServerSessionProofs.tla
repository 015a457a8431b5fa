------------------------ MODULE ServerSessionProofs ------------------------
(***************************************************************************)
(* The server of the test, proved for every state its three handles can be *)
(* in.  First that it uses the handles only as their specifications allow, *)
(* so that all that is proved of a handle by itself holds of the session;  *)
(* then what only shows in the composition: what the coroutine has called  *)
(* and closed at each of its stages, where the semaphore's one token goes, *)
(* and that there are two ways to hang and no other.                       *)
(***************************************************************************)
EXTENDS ServerSession, TLAPS

\* What is proved of the handles, for the handles of the session.
LP == INSTANCE ListenerHandleProofs WITH
       Connections <- {c1}, state_ <- l_state_, pending_ <- l_pending_, mtx_ <- l_mtx_,
       accept_bs_ <- l_accept_bs_, chan <- l_chan, connection <- l_connection, op <- l_op,
       life <- l_life, locked <- l_locked, acquiring <- l_acquiring,
       delivering <- l_delivering, arrived <- l_arrived, taken <- l_taken,
       refused <- l_refused, failed <- l_failed

CP == INSTANCE ConnectionHandleProofs WITH
       Streams <- {s1, s2}, state_ <- c_state_, pending_ <- c_pending_, mtx_ <- c_mtx_,
       accept_bs_ <- c_accept_bs_, chan <- c_chan, stream <- c_stream, op <- c_op,
       role <- c_role, life <- c_life, shut <- c_shut, worker <- c_worker,
       arrived <- c_arrived, taken <- c_taken, refused <- c_refused, failed <- c_failed

SP == INSTANCE StreamHandleProofs WITH
       state_ <- s_state_, pending_ <- s_pending_, chan <- s_chan, data <- s_data,
       op <- s_op, call <- s_call, copied <- s_copied, strm <- s_strm, peer <- s_peer,
       sendq <- s_sendq, rcv <- s_rcv, sent <- s_sent, consumed <- s_consumed,
       paused <- s_paused, shut <- s_shut, got <- s_got, ended <- s_ended,
       failed <- s_failed

------------------------------------------------------------------------------
\* These are the handles of ServerSession: the definitions are the same.

LEMMA SameListener == /\ L!Init => LP!Init
                      /\ [L!Next]_(L!vars) => [LP!Next]_(LP!vars)
BY DEF L!Ops, LP!Ops, L!ctx, LP!ctx, L!msquic, LP!msquic, L!seen, LP!seen, L!vars,
       LP!vars, L!Init, LP!Init, L!Assert, LP!Assert, L!NewChannel, LP!NewChannel,
       L!Sent, LP!Sent, L!Unlock, LP!Unlock, L!Release, LP!Release, L!Acquire,
       LP!Acquire, L!AlreadyStopped, LP!AlreadyStopped, L!TakeAccept,
       LP!TakeAccept, L!NoOtherCallback, LP!NoOtherCallback, L!WaitsAtStop,
       LP!WaitsAtStop, L!Start, LP!Start, L!AsyncAccept, LP!AsyncAccept,
       L!MayAccept, LP!MayAccept,
       L!AsyncStop, LP!AsyncStop, L!UnlockForStop, LP!UnlockForStop,
       L!ListenerStop, LP!ListenerStop, L!ListenerStopped, LP!ListenerStopped,
       L!Close, LP!Close, L!Complete, LP!Complete, L!NEW_CONNECTION,
       LP!NEW_CONNECTION, L!UnlockForAccept, LP!UnlockForAccept, L!AcquireAccept,
       LP!AcquireAccept, L!DeliverConnection, LP!DeliverConnection,
       L!STOP_COMPLETE, LP!STOP_COMPLETE, L!User, LP!User, L!Callback, LP!Callback,
       L!Next, LP!Next, L!Create, LP!Create, L!Send, LP!Send, L!Get, LP!Get

LEMMA SameConnection == /\ C!Init => CP!Init
                        /\ [C!Next]_(C!vars) => [CP!Next]_(CP!vars)
BY DEF C!Ops, CP!Ops, C!Flags, CP!Flags, C!ctx, CP!ctx, C!msquic, CP!msquic,
       C!seen, CP!seen, C!vars, CP!vars, C!Free, CP!Free, C!Init, CP!Init,
       C!Assert, CP!Assert, C!NewChannel, CP!NewChannel, C!Sent, CP!Sent,
       C!Release, CP!Release, C!Acquire, CP!Acquire, C!LockWhileWaiting,
       CP!LockWhileWaiting, C!AlreadyShut, CP!AlreadyShut, C!TakeAccept,
       CP!TakeAccept, C!WaitsAtShutdown, CP!WaitsAtShutdown, C!ClearWaiting,
       CP!ClearWaiting, C!CompleteAll, CP!CompleteAll, C!AsyncStart, CP!AsyncStart,
       C!AsyncConnect, CP!AsyncConnect, C!AsyncAccept, CP!AsyncAccept,
       C!MayAccept, CP!MayAccept,
       C!AsyncShutdown, CP!AsyncShutdown, C!Close, CP!Close, C!Complete,
       CP!Complete, C!CONNECTED, CP!CONNECTED, C!SHUTDOWN_INITIATED_BY_TRANSPORT,
       CP!SHUTDOWN_INITIATED_BY_TRANSPORT, C!SHUTDOWN_INITIATED_BY_PEER,
       CP!SHUTDOWN_INITIATED_BY_PEER, C!SHUTDOWN_COMPLETE, CP!SHUTDOWN_COMPLETE,
       C!RESUMED, CP!RESUMED, C!PEER_STREAM_STARTED, CP!PEER_STREAM_STARTED,
       C!UnlockForAccept, CP!UnlockForAccept, C!AcquireAccept, CP!AcquireAccept,
       C!DeliverStream, CP!DeliverStream, C!User, CP!User, C!Callback, CP!Callback,
       C!Next, CP!Next, C!Create, CP!Create, C!Send, CP!Send, C!Get, CP!Get

LEMMA SameStream == /\ S!Init => SP!Init
                    /\ [S!Next]_(S!vars) => [SP!Next]_(SP!vars)
BY DEF S!Ops, SP!Ops, S!HandshakeAsserts, SP!HandshakeAsserts, S!ctx, SP!ctx,
       S!front, SP!front, S!msquic, SP!msquic, S!seen, SP!seen, S!vars, SP!vars,
       S!Flags, SP!Flags, S!Init, SP!Init, S!Assert, SP!Assert, S!Empty, SP!Empty,
       S!NewChannel, SP!NewChannel, S!Sent, SP!Sent, S!Copied, SP!Copied,
       S!Acknowledged, SP!Acknowledged, S!BackendArrivedFirst,
       SP!BackendArrivedFirst, S!TakeBackend, SP!TakeBackend, S!ClearWaiting,
       SP!ClearWaiting, S!AlreadyShut, SP!AlreadyShut, S!ErrorOfState,
       SP!ErrorOfState, S!WaitsAtShutdown, SP!WaitsAtShutdown, S!AsyncStart,
       SP!AsyncStart, S!StreamStart, SP!StreamStart, S!Usable, SP!Usable,
       S!AsyncSend, SP!AsyncSend, S!StreamSend, SP!StreamSend, S!Submitting,
       SP!Submitting, S!AsyncWait, SP!AsyncWait, S!AsyncReceive,
       SP!AsyncReceive, S!AsyncShutdown, SP!AsyncShutdown, S!Close, SP!Close,
       S!Ready, SP!Ready, S!Complete, SP!Complete, S!ReceiveGet, SP!ReceiveGet,
       S!ReceiveComplete, SP!ReceiveComplete, S!START_COMPLETE, SP!START_COMPLETE,
       S!SEND_COMPLETE, SP!SEND_COMPLETE, S!RECEIVE, SP!RECEIVE, S!EndReceive,
       SP!EndReceive, S!PEER_SEND_SHUTDOWN, SP!PEER_SEND_SHUTDOWN,
       S!PEER_SEND_ABORTED, SP!PEER_SEND_ABORTED, S!SHUTDOWN_COMPLETE,
       SP!SHUTDOWN_COMPLETE, S!User, SP!User, S!Frontend, SP!Frontend, S!Callback,
       SP!Callback, S!Next, SP!Next, S!Create, SP!Create, S!Send, SP!Send, S!Get,
       SP!Get

------------------------------------------------------------------------------
\* Every step of the session is one step of one handle.

LEMMA ListenerStep == [Next]_vars => [L!Next]_(L!vars)
<1> USE DEF Listener, Connection, Stream, listener, L!vars, L!ctx, L!msquic, L!seen
<1>1. AcceptLoop => [L!Next]_(L!vars)
  BY DEF AcceptLoop, L!Next, L!User, L!Ops
<1>2. Coroutine => UNCHANGED listener
  BY DEF Coroutine, Call, ResumeConnect, ResumeAccept, ResumeReceive, ResumeSend,
         ResumeStreamShutdown, ResumeConnShutdown, CloseStream, CloseConnection
<1>3. Main => [L!Next]_(L!vars)
  BY DEF Main, L!Next, L!User, L!Ops
<1>4. Worker => [L!Next]_(L!vars)
  BY DEF Worker, ClientConnects, ListenerWorker, ClientActs, ConnectionWorker,
         StreamEnds, ConnectionEnds, IdleTimeout, L!Next, L!Callback
<1>5. UNCHANGED vars => UNCHANGED listener
  BY DEF vars
<1>. QED BY <1>1, <1>2, <1>3, <1>4, <1>5 DEF Next

LEMMA ConnectionStep == [Next]_vars => [C!Next]_(C!vars)
<1> USE DEF Listener, Connection, Stream, connection, C!vars, C!ctx, C!msquic, C!seen
<1>1. AcceptLoop \/ Main => UNCHANGED connection
  BY DEF AcceptLoop, Main
<1>2. Coroutine => [C!Next]_(C!vars)
  BY DEF Coroutine, Call, ResumeConnect, ResumeAccept, ResumeReceive, ResumeSend,
         ResumeStreamShutdown, ResumeConnShutdown, CloseStream, CloseConnection,
         C!Next, C!User, C!Ops
<1>3. Worker => [C!Next]_(C!vars)
  BY DEF Worker, ClientConnects, ListenerWorker, ClientActs, ConnectionWorker,
         StreamEnds, ConnectionEnds, IdleTimeout, C!Next, C!Callback
<1>4. UNCHANGED vars => UNCHANGED connection
  BY DEF vars
<1>. QED BY <1>1, <1>2, <1>3, <1>4 DEF Next

LEMMA StreamStep == [Next]_vars => [S!Next]_(S!vars)
<1> USE DEF Listener, Connection, Stream, stream,
            S!vars, S!ctx, S!front, S!msquic, S!seen
<1>1. AcceptLoop \/ Main => UNCHANGED stream
  BY DEF AcceptLoop, Main
<1>2. Coroutine => [S!Next]_(S!vars)
  BY SessionAssumption
  DEF Coroutine, Call, ResumeConnect, ResumeAccept, ResumeReceive, ResumeSend,
      ResumeStreamShutdown, ResumeConnShutdown, CloseStream, CloseConnection,
      S!Next, S!User, S!Frontend, S!Ops
<1>3. Worker => [S!Next]_(S!vars)
  BY DEF Worker, ClientConnects, ListenerWorker, ClientActs, ConnectionWorker,
         StreamEnds, ConnectionEnds, IdleTimeout, S!Next, S!Callback
<1>4. UNCHANGED vars => UNCHANGED stream
  BY DEF vars
<1>. QED BY <1>1, <1>2, <1>3, <1>4 DEF Next

\* Accept loop, main and NEW_CONNECTION use the listener as its specification
\* allows.
THEOREM UsesListener == Spec => L!Spec
<1>1. Init => L!Init
  BY DEF Init
<1>. QED BY <1>1, ListenerStep, PTL DEF Spec, L!Spec

\* So do the coroutine and the workers with the connection,
THEOREM UsesConnection == Spec => C!Spec
<1>1. Init => C!Init
  BY DEF Init
<1>. QED BY <1>1, ConnectionStep, PTL DEF Spec, C!Spec

\* and with the stream.
THEOREM UsesStream == Spec => S!Spec
<1>1. Init => S!Init
  BY DEF Init
<1>. QED BY <1>1, StreamStep, PTL DEF Spec, S!Spec

\* What is proved of a handle applies.
LEMMA ListenerProved == L!Spec => LP!Spec
BY SameListener, PTL DEF L!Spec, LP!Spec

LEMMA ConnectionProved == C!Spec => CP!Spec
BY SameConnection, PTL DEF C!Spec, CP!Spec

LEMMA StreamProved == S!Spec => SP!Spec
BY SameStream, PTL DEF S!Spec, SP!Spec

\* Every variable of the handles keeps its type.
THEOREM HandlesTyped == Spec => [](L!TypeOK /\ C!TypeOK /\ S!TypeOK)
<1>1. LP!TypeOK <=> L!TypeOK
  BY DEF L!TypeOK, LP!TypeOK, L!Ops, LP!Ops, L!ChannelStates, LP!ChannelStates
<1>2. CP!TypeOK <=> C!TypeOK
  BY DEF C!TypeOK, CP!TypeOK, C!Ops, CP!Ops, C!Flags, CP!Flags, C!States, CP!States,
         C!ChannelStates, CP!ChannelStates
<1>3. SP!TypeOK <=> S!TypeOK
  BY DEF S!TypeOK, SP!TypeOK, S!Ops, SP!Ops, S!Flags, SP!Flags, S!States, SP!States,
         S!Errors, SP!Errors, S!ChannelStates, SP!ChannelStates,
         S!HandshakeAsserts, SP!HandshakeAsserts, S!ClosingAsserts, SP!ClosingAsserts
<1>4. Spec => []LP!TypeOK
  BY UsesListener, ListenerProved, LP!TypeCorrect, SessionAssumption
<1>5. Spec => []CP!TypeOK
  BY UsesConnection, ConnectionProved, CP!TypeCorrect, SessionAssumption
<1>6. Spec => []SP!TypeOK
  BY UsesStream, StreamProved, SP!TypeCorrect, SessionAssumption
<1>. QED BY <1>1, <1>2, <1>3, <1>4, <1>5, <1>6, PTL

\* In the session too every handle keeps what it promises by itself: its asserts
\* hold, but for those of a server's connection that the code cannot keep, no
\* channel is misused, nothing is lost, and nobody waits for what never comes.
THEOREM HandlesSound ==
  Spec => [](/\ L!HandOverIsOrderly /\ L!NoConnectionLost /\ L!NoWaiterStranded
             /\ L!TokenPerAccept /\ L!CallbacksNeverStuck
             /\ C!HandshakeAssertsHold /\ C!ChannelsNeverMisused /\ C!TokenPerAccept
             /\ C!NoStreamLost /\ C!NoWaiterStranded
             /\ S!HandshakeAssertsHold /\ S!ChannelsNeverMisused /\ S!NoWaiterStranded
             /\ S!NothingOwedAtEnd /\ S!BytesInOrder)
<1>1. /\ LP!HandOverIsOrderly => L!HandOverIsOrderly
      /\ LP!NoConnectionLost => L!NoConnectionLost
      /\ LP!NoWaiterStranded => L!NoWaiterStranded
      /\ LP!CallbacksNeverStuck => L!CallbacksNeverStuck
  BY DEF L!Ops, LP!Ops, L!HandOverIsOrderly, LP!HandOverIsOrderly, L!NoConnectionLost,
         LP!NoConnectionLost, L!NoWaiterStranded, LP!NoWaiterStranded,
         L!NoOtherCallback, LP!NoOtherCallback, L!MayAccept, LP!MayAccept,
         L!CallbacksNeverStuck, LP!CallbacksNeverStuck
<1>2. LP!TokenPerAccept => L!TokenPerAccept
  BY DEF L!TokenPerAccept, LP!TokenPerAccept, L!Cardinality, LP!Cardinality
<1>3. /\ CP!HandshakeAssertsHold => C!HandshakeAssertsHold
      /\ CP!ChannelsNeverMisused => C!ChannelsNeverMisused
      /\ CP!TokenPerAccept => C!TokenPerAccept
      /\ CP!NoStreamLost => C!NoStreamLost
      /\ CP!NoWaiterStranded => C!NoWaiterStranded
  BY DEF C!Ops, CP!Ops, C!HandshakeAssertsHold, CP!HandshakeAssertsHold,
         C!ChannelsNeverMisused, CP!ChannelsNeverMisused, C!TokenPerAccept,
         CP!TokenPerAccept, C!NoStreamLost, CP!NoStreamLost, C!NoWaiterStranded,
         CP!NoWaiterStranded
<1>4. /\ SP!HandshakeAssertsHold => S!HandshakeAssertsHold
      /\ SP!ChannelsNeverMisused => S!ChannelsNeverMisused
      /\ SP!NoWaiterStranded => S!NoWaiterStranded
      /\ SP!NothingOwedAtEnd => S!NothingOwedAtEnd
      /\ SP!BytesInOrder => S!BytesInOrder
  BY DEF S!Ops, SP!Ops, S!HandshakeAsserts, SP!HandshakeAsserts,
         S!HandshakeAssertsHold, SP!HandshakeAssertsHold, S!ChannelsNeverMisused,
         SP!ChannelsNeverMisused, S!Owed, SP!Owed, S!WaitsForTheRest,
         SP!WaitsForTheRest, S!NoWaiterStranded, SP!NoWaiterStranded, S!Submitting,
         SP!Submitting, S!NothingOwedAtEnd, SP!NothingOwedAtEnd, S!BytesInOrder,
         SP!BytesInOrder
<1>5. Spec => /\ []LP!HandOverIsOrderly /\ []LP!NoConnectionLost
              /\ []LP!NoWaiterStranded /\ []LP!TokenPerAccept
              /\ []LP!CallbacksNeverStuck
  BY UsesListener, ListenerProved, LP!HandOver, LP!ConnectionsKept, LP!NobodyStranded,
     LP!Tokens, LP!NeverStuck, SessionAssumption
<1>6. Spec => /\ []CP!HandshakeAssertsHold /\ []CP!ChannelsNeverMisused
              /\ []CP!TokenPerAccept /\ []CP!NoStreamLost /\ []CP!NoWaiterStranded
  BY UsesConnection, ConnectionProved, CP!AssertsHold, CP!ChannelDiscipline, CP!Tokens,
     CP!StreamsKept, CP!NobodyStranded, SessionAssumption
<1>7. Spec => /\ []SP!HandshakeAssertsHold /\ []SP!ChannelsNeverMisused
              /\ []SP!NoWaiterStranded /\ []SP!NothingOwedAtEnd /\ []SP!BytesInOrder
  BY UsesStream, StreamProved, SP!AssertsHold, SP!ChannelDiscipline, SP!NobodyStranded,
     SP!Settled, SP!InOrder, SessionAssumption
<1>. QED BY <1>1, <1>2, <1>3, <1>4, <1>5, <1>6, <1>7, PTL

\* The connection of the session is a server's throughout.
LEMMA ServerSide == Spec => [](c_role = "server")
<1>1. Init => c_role = "server"
  BY DEF Init
<1>2. c_role = "server" /\ [C!Next]_(C!vars) => (c_role = "server")'
  BY DEF C!Next, C!User, C!Callback, C!AsyncStart, C!AsyncConnect, C!AsyncAccept,
         C!AsyncShutdown, C!Close, C!Complete, C!CONNECTED, C!RESUMED,
         C!SHUTDOWN_INITIATED_BY_TRANSPORT, C!SHUTDOWN_INITIATED_BY_PEER,
         C!SHUTDOWN_COMPLETE, C!PEER_STREAM_STARTED, C!UnlockForAccept,
         C!AcquireAccept, C!DeliverStream, C!vars, C!ctx, C!msquic
<1>. QED BY <1>1, <1>2, ConnectionStep, PTL DEF Spec

\* The coroutine's buffer has room for all that the client sends.
LEMMA ReadsAll == Spec => [][SP!RoomForAll]_(SP!vars)
<1>1. ASSUME S!TypeOK, [Next]_vars, NEW b \in 0 .. MaxBytes, SP!ReceiveGet(b)
      PROVE  s_data.len <= b
  <2>1. s_op["receive"] = "waiting" /\ s_op'["receive"] = "copied"
    BY <1>1 DEF S!TypeOK, S!Ops, SP!ReceiveGet, SP!Ready
  <2>2. S!ReceiveGet(MaxBytes)
    <3> USE DEF S!ctx, S!front, S!msquic
    <3>1. CASE AcceptLoop \/ Main \/ UNCHANGED vars
      BY <2>1, <3>1 DEF AcceptLoop, Main, Listener, stream, vars
    <3>2. CASE Coroutine
      <4>1. CASE Call
        <5>1. CASE Stream(S!AsyncReceive)
          BY <2>1, <5>1, <1>1 DEF Stream, S!TypeOK, S!Ops, S!AsyncReceive
        <5>2. CASE Stream(S!AsyncSend \/ S!StreamSend \/ S!AsyncWait("send"))
          BY <2>1, <5>2, <1>1 DEF Stream, S!TypeOK, S!Ops, S!AsyncSend, S!StreamSend,
             S!AsyncWait
        <5>3. CASE Stream(S!AsyncShutdown)
          BY <2>1, <5>3, <1>1 DEF Stream, S!TypeOK, S!Ops, S!AsyncShutdown
        <5>. QED BY <2>1, <4>1, <5>1, <5>2, <5>3 DEF Call, Connection, stream
      <4>2. CASE ResumeReceive
        BY <2>1, <4>2, <1>1 DEF ResumeReceive, Stream, S!TypeOK, S!Ops, S!ReceiveComplete
      <4>3. CASE ResumeSend \/ ResumeStreamShutdown
        BY <2>1, <4>3, <1>1 DEF ResumeSend, ResumeStreamShutdown, Stream, S!Complete,
           S!TypeOK, S!Ops
      <4>4. CASE ResumeConnect \/ ResumeAccept \/ ResumeConnShutdown
        BY <2>1, <4>4 DEF ResumeConnect, ResumeAccept, ResumeConnShutdown, Connection, stream
      <4>5. CASE CloseStream \/ CloseConnection
        BY <2>1, <4>5 DEF CloseStream, CloseConnection, Connection, Stream, stream, S!Close
      <4>. QED BY <3>2, <4>1, <4>2, <4>3, <4>4, <4>5 DEF Coroutine
    <3>3. CASE Worker
      BY <2>1, <3>3 DEF Worker, ClientConnects, ListenerWorker, ClientActs,
         ConnectionWorker, StreamEnds, ConnectionEnds, IdleTimeout, Listener, Connection,
         Stream, stream, S!RECEIVE, S!PEER_SEND_SHUTDOWN, S!PEER_SEND_ABORTED,
         S!SEND_COMPLETE, S!SHUTDOWN_COMPLETE
    <3>. QED BY <1>1, <3>1, <3>2, <3>3 DEF Next
  <2>. QED BY <1>1, <2>2, SessionAssumption
       DEF SP!ReceiveGet, SP!Copied, S!ReceiveGet, S!Copied, S!TypeOK
<1>2. S!TypeOK /\ [Next]_vars => SP!RoomForAll
  BY <1>1 DEF SP!RoomForAll
<1>. QED BY <1>2, HandlesTyped, PTL DEF Spec

\* So the cases in which an operation waits for nothing, the client's async_start
\* and the rest of a partial read, do not arise: whatever the coroutine awaits of
\* its connection or of its stream is there, or an event that brings it is still
\* to come.
THEOREM NoAwaitInVain ==
  Spec => [](/\ \A o \in C!Ops : c_op[o] = "waiting" =>
                  \/ c_chan[o] = "sent"
                  \/ /\ c_life \in {"handshaking", "connected", "closing"}
                     /\ o = "shutdown" => c_shut
             /\ \A o \in S!Ops : s_op[o] \in {"called", "waiting"} =>
                  s_chan[o] = "sent" \/ S!Owed(o))
<1>1. C!NoWaiterStranded /\ c_role = "server" =>
        \A o \in C!Ops : c_op[o] = "waiting" =>
          \/ c_chan[o] = "sent"
          \/ /\ c_life \in {"handshaking", "connected", "closing"}
             /\ o = "shutdown" => c_shut
  BY DEF C!NoWaiterStranded
<1>2. Spec => [](\A o \in SP!Ops : s_op[o] \in {"called", "waiting"} =>
                   s_chan[o] = "sent" \/ SP!Owed(o))
  BY UsesStream, StreamProved, ReadsAll, SP!NobodyStrandedWhoReadsAll, SessionAssumption
<1>3. S!Ops = SP!Ops /\ \A o \in S!Ops : S!Owed(o) <=> SP!Owed(o)
  BY DEF S!Ops, SP!Ops, S!Owed, SP!Owed
<1>4. (\A o \in SP!Ops : s_op[o] \in {"called", "waiting"} =>
         s_chan[o] = "sent" \/ SP!Owed(o))
      => \A o \in S!Ops : s_op[o] \in {"called", "waiting"} =>
           s_chan[o] = "sent" \/ S!Owed(o)
  BY <1>3
<1>. QED BY <1>1, <1>2, <1>4, HandlesSound, ServerSide, PTL

\* And each implements its abstract specification.
THEOREM HandlesImplement ==
  Spec => L!KeepsAcceptPromise /\ C!KeepsAcceptPromise /\ S!DeliversByteStream
<1>1. LP!KeepsAcceptPromise => L!KeepsAcceptPromise
  <2>1. /\ LP!AQ!Init => L!AQ!Init
        /\ [LP!AQ!Next]_(LP!AQ!vars) => [L!AQ!Next]_(L!AQ!vars)
    BY DEF L!AQ!Init, LP!AQ!Init, L!AQ!vars, LP!AQ!vars, L!AQ!Next, LP!AQ!Next,
           L!AQ!Arrive, LP!AQ!Arrive, L!AQ!Take, LP!AQ!Take, L!AQ!Refuse,
           LP!AQ!Refuse, L!AQ!Shut, LP!AQ!Shut
  <2>. QED BY <2>1, PTL
           DEF L!KeepsAcceptPromise, LP!KeepsAcceptPromise, L!AQ!Spec, LP!AQ!Spec
<1>2. CP!KeepsAcceptPromise => C!KeepsAcceptPromise
  <2>1. /\ CP!AQ!Init => C!AQ!Init
        /\ [CP!AQ!Next]_(CP!AQ!vars) => [C!AQ!Next]_(C!AQ!vars)
    BY DEF C!AQ!Init, CP!AQ!Init, C!AQ!vars, CP!AQ!vars, C!AQ!Next, CP!AQ!Next,
           C!AQ!Arrive, CP!AQ!Arrive, C!AQ!Take, CP!AQ!Take, C!AQ!Refuse,
           CP!AQ!Refuse, C!AQ!Shut, CP!AQ!Shut
  <2>. QED BY <2>1, PTL
           DEF C!KeepsAcceptPromise, CP!KeepsAcceptPromise, C!AQ!Spec, CP!AQ!Spec
<1>3. SP!DeliversByteStream => S!DeliversByteStream
  <2>1. /\ SP!BS!Init => S!BS!Init
        /\ [SP!BS!Next]_(SP!BS!vars) => [S!BS!Next]_(S!BS!vars)
    BY DEF S!BS!Init, SP!BS!Init, S!BS!vars, SP!BS!vars, S!BS!Next, SP!BS!Next,
           S!BS!Arrive, SP!BS!Arrive, S!BS!Finish, SP!BS!Finish, S!BS!Lose,
           SP!BS!Lose, S!BS!Take, SP!BS!Take, S!BS!EndOfStream, SP!BS!EndOfStream,
           S!BS!Fail, SP!BS!Fail
  <2>. QED BY <2>1, PTL
           DEF S!DeliversByteStream, SP!DeliversByteStream, S!BS!Spec, SP!BS!Spec
<1>. QED BY <1>1, <1>2, <1>3, UsesListener, ListenerProved, LP!Refinement,
            UsesConnection, ConnectionProved, CP!Refinement,
            UsesStream, StreamProved, SP!Refinement, SessionAssumption

------------------------------------------------------------------------------
\* The session's own inductive invariant

\* The coroutine runs once the listener's accept has its connection, and the
\* accept loop leaves no accept outstanding when it is refused.
HandedOver == /\ at = "none" <=> c1 \notin l_taken
              /\ l_refused => l_op["accept"] = "idle"

\* An operation is outstanding only while the coroutine is at its await.
Awaited ==
  /\ c_op["conn"] # "idle" => at = "connect"
  /\ c_op["accept"] # "idle" => at = "accept"
  /\ c_op["shutdown"] # "idle" => at = "conn_shutdown"
  /\ s_op["start"] = "idle"
  /\ s_op["receive"] # "idle" => at = "receive"
  /\ s_op["send"] # "idle" => at = "send"
  /\ s_op["shutdown"] # "idle" => at = "stream_shutdown"
  /\ s_call # "none" => at = "send" /\ s_call = "send"

\* What the coroutine has accepted and closed, stage by stage.
ClosedInOrder ==
  /\ at \in {"none", "connect", "accept"} => c_taken = {} /\ ~c_refused
  /\ at \in {"close_conn", "ended"} /\ s1 \in c_taken => s_strm = "closed"
  /\ c_life = "closed" => at = "ended"

\* The one accept of the coroutine has been called.
AcceptCalled == /\ at \notin {"none", "connect"}
                /\ at = "accept" => c_op["accept"] # "idle"

\* Its token is on the semaphore until the worker of the first stream takes it.
OneToken ==
  /\ c_accept_bs_ \in 0 .. 1
  /\ ~AcceptCalled => c_accept_bs_ = 0
  /\ \/ c_worker.at = "deliver"
     \/ s1 \in c_arrived /\ c_worker.stream # s1
     => AcceptCalled /\ c_accept_bs_ = 0

\* The second stream comes after it, and finds none.
FirstStreamOnly ==
  /\ c_taken \subseteq {s1} /\ c_stream # s2
  /\ c_worker.stream = s2 <=> s2 \in c_arrived
  /\ s2 \in c_arrived => s1 \in c_arrived /\ c_worker.at \in {"unlock", "acquire"}

Typed == L!TypeOK /\ C!TypeOK /\ S!TypeOK

IInv == HandedOver /\ Awaited /\ ClosedInOrder /\ OneToken /\ FirstStreamOnly

------------------------------------------------------------------------------
\* Every step keeps the invariant.

\* The accept loop: nothing has been taken before the coroutine starts.
LEMMA AcceptLoopStep == ASSUME Typed, IInv, AcceptLoop PROVE IInv'
<1> USE DEF AcceptLoop, Listener, connection, stream
<1>1. HandedOver'
  BY SessionAssumption DEF IInv, HandedOver, Typed, L!TypeOK, L!Ops, L!seen,
     L!AsyncAccept, L!MayAccept, L!Complete
<1>2. at' = at \/ (at = "none" /\ at' = "connect")
  BY DEF IInv, HandedOver
<1>3. Awaited' /\ ClosedInOrder'
  BY <1>2 DEF IInv, Awaited, ClosedInOrder
<1>4. OneToken' /\ FirstStreamOnly'
  BY <1>2 DEF IInv, OneToken, AcceptCalled, FirstStreamOnly
<1>. QED BY <1>1, <1>3, <1>4 DEF IInv

\* Main and the listener's workers change neither the coroutine's handles nor
\* what was handed over.
LEMMA MainStep ==
  ASSUME Typed, IInv, Main \/ ClientConnects \/ ListenerWorker PROVE IInv'
<1>1. UNCHANGED <<at, connection, stream>>
  BY DEF Main, ClientConnects, ListenerWorker, Listener
<1>2. HandedOver'
  <2>1. l_taken' = l_taken /\ l_refused' = l_refused /\ l_op'["accept"] = l_op["accept"]
    BY DEF Main, ClientConnects, ListenerWorker, Listener, Typed, L!TypeOK, L!Ops, L!seen,
       L!Start, L!AsyncStop, L!UnlockForStop, L!ListenerStop, L!ListenerStopped,
       L!Complete, L!Close, L!NEW_CONNECTION, L!UnlockForAccept, L!AcquireAccept,
       L!DeliverConnection, L!STOP_COMPLETE
  <2>. QED BY <1>1, <2>1 DEF IInv, HandedOver
<1>3. Awaited' /\ ClosedInOrder' /\ OneToken' /\ FirstStreamOnly'
  BY <1>1 DEF connection, stream, IInv, Awaited, ClosedInOrder, OneToken, AcceptCalled,
     FirstStreamOnly
<1>. QED BY <1>2, <1>3 DEF IInv

\* A call is made at its own stage.
LEMMA CallStep == ASSUME Typed, IInv, Call PROVE IInv'
<1> USE DEF Call, Connection, Stream
<1>1. HandedOver'
  BY DEF listener, IInv, HandedOver
<1>2. Awaited'
  <2>1. CASE at = "connect" /\ Connection(C!AsyncConnect)
    BY <2>1 DEF stream, IInv, Awaited, Typed, C!TypeOK, C!Ops, C!AsyncConnect
  <2>2. CASE at = "accept" /\ Connection(C!AsyncAccept)
    BY <2>2 DEF stream, IInv, Awaited, Typed, C!TypeOK, C!Ops, C!AsyncAccept, C!MayAccept
  <2>3. CASE at = "conn_shutdown" /\ Connection(C!AsyncShutdown)
    BY <2>3 DEF stream, IInv, Awaited, Typed, C!TypeOK, C!Ops, C!AsyncShutdown
  <2>4. CASE at = "receive" /\ Stream(S!AsyncReceive)
    BY <2>4 DEF connection, IInv, Awaited, Typed, S!TypeOK, S!Ops, S!AsyncReceive
  <2>5. CASE at = "send" /\ Stream(S!AsyncSend)
    BY <2>5 DEF connection, IInv, Awaited, Typed, S!TypeOK, S!Ops, S!AsyncSend
  <2>6. CASE at = "send" /\ Stream(S!StreamSend \/ S!AsyncWait("send"))
    BY <2>6 DEF connection, IInv, Awaited, Typed, S!TypeOK, S!Ops, S!StreamSend,
       S!Submitting, S!AsyncWait
  <2>7. CASE at = "stream_shutdown" /\ Stream(S!AsyncShutdown)
    BY <2>7 DEF connection, IInv, Awaited, Typed, S!TypeOK, S!Ops, S!AsyncShutdown
  <2>. QED BY <2>1, <2>2, <2>3, <2>4, <2>5, <2>6, <2>7
<1>3. ClosedInOrder'
  BY DEF connection, stream, IInv, ClosedInOrder, C!seen, C!msquic, S!msquic,
     C!AsyncConnect, C!AsyncAccept, C!MayAccept, C!AsyncShutdown
<1>4. OneToken'
  BY DEF connection, stream, IInv, OneToken, AcceptCalled, C!seen, C!msquic, C!Release,
     Typed, C!TypeOK, C!Ops,
     C!AsyncConnect, C!AsyncAccept, C!MayAccept, C!AsyncShutdown
<1>5. FirstStreamOnly'
  BY SessionAssumption DEF connection, stream, IInv, FirstStreamOnly, C!seen, C!msquic,
     C!AsyncConnect, C!AsyncAccept, C!MayAccept, C!AsyncShutdown
<1>. QED BY <1>1, <1>2, <1>3, <1>4, <1>5 DEF IInv

\* The coroutine goes on with a completed operation of its connection.
LEMMA ResumeConnectionStep ==
  ASSUME Typed, IInv, ResumeConnect \/ ResumeAccept \/ ResumeConnShutdown PROVE IInv'
<1> USE DEF ResumeConnect, ResumeAccept, ResumeConnShutdown, AfterRefusal, LeaveLoop,
            Connection, listener, stream, C!Complete, C!msquic
<1>1. HandedOver'
  BY DEF IInv, HandedOver
<1>2. Awaited'
  BY DEF IInv, Awaited, Typed, C!TypeOK, C!Ops
<1>3. ClosedInOrder'
  BY DEF IInv, ClosedInOrder
<1>4. OneToken'
  BY DEF IInv, Awaited, OneToken, AcceptCalled, Typed, C!TypeOK, C!Ops
<1>5. FirstStreamOnly'
  BY DEF IInv, FirstStreamOnly, Typed, C!TypeOK
<1>. QED BY <1>1, <1>2, <1>3, <1>4, <1>5 DEF IInv

\* Or of its stream.
LEMMA ResumeStreamStep ==
  ASSUME Typed, IInv, ResumeReceive \/ ResumeSend \/ ResumeStreamShutdown PROVE IInv'
<1> USE DEF ResumeReceive, ResumeSend, ResumeStreamShutdown, LeaveLoop, Stream,
            listener, connection
<1>1. HandedOver'
  BY DEF IInv, HandedOver
<1>2. Awaited'
  BY DEF IInv, Awaited, Typed, S!TypeOK, S!Ops, S!ReceiveGet, S!ReceiveComplete,
     S!Complete, S!Ready
<1>3. ClosedInOrder'
  BY DEF IInv, ClosedInOrder
<1>4. OneToken'
  BY DEF IInv, OneToken, AcceptCalled
<1>5. FirstStreamOnly'
  BY DEF IInv, FirstStreamOnly
<1>. QED BY <1>1, <1>2, <1>3, <1>4, <1>5 DEF IInv

\* The destructors, the stream's first.
LEMMA DestructorStep == ASSUME Typed, IInv, CloseStream \/ CloseConnection PROVE IInv'
<1> USE DEF CloseStream, CloseConnection, Connection, Stream,
            listener, connection, stream, S!Close, S!ctx, S!front, C!Close, C!ctx, C!seen
<1>1. HandedOver'
  BY DEF IInv, HandedOver
<1>2. Awaited'
  BY DEF IInv, Awaited
<1>3. ClosedInOrder'
  BY DEF IInv, ClosedInOrder
<1>4. OneToken'
  BY DEF IInv, OneToken, AcceptCalled
<1>5. FirstStreamOnly'
  BY DEF IInv, FirstStreamOnly
<1>. QED BY <1>1, <1>2, <1>3, <1>4, <1>5 DEF IInv

\* The events of the stream.
LEMMA StreamEventStep ==
  ASSUME Typed, IInv, UNCHANGED at, WorkerServesStream,
         Stream(\/ S!RECEIVE \/ S!PEER_SEND_SHUTDOWN \/ S!PEER_SEND_ABORTED
                \/ S!SEND_COMPLETE \/ S!SHUTDOWN_COMPLETE)
  PROVE  IInv'
<1>1. UNCHANGED <<at, listener, connection>>
  BY DEF Stream
<1>2. /\ s_op' = s_op /\ s_call' = s_call
      /\ s_strm = "started"
  BY DEF Stream, S!front, S!RECEIVE, S!PEER_SEND_SHUTDOWN, S!PEER_SEND_ABORTED,
     S!SEND_COMPLETE, S!SHUTDOWN_COMPLETE
<1>. QED BY <1>1, <1>2 DEF listener, connection, IInv, HandedOver, Awaited,
                           ClosedInOrder, OneToken, AcceptCalled, FirstStreamOnly

\* The events of the connection that start no stream.
LEMMA ConnectionEventStep ==
  ASSUME Typed, IInv, UNCHANGED at,
         Connection(\/ C!CONNECTED \/ C!RESUMED \/ C!SHUTDOWN_INITIATED_BY_PEER
                    \/ C!SHUTDOWN_INITIATED_BY_TRANSPORT \/ C!SHUTDOWN_COMPLETE)
  PROVE  IInv'
<1>1. UNCHANGED <<at, listener, stream>>
  BY DEF Connection
<1>2. UNCHANGED <<c_op, c_worker, c_accept_bs_, c_arrived, c_taken, c_refused>>
  BY DEF Connection, C!ctx, C!msquic, C!seen, C!CONNECTED, C!RESUMED,
     C!SHUTDOWN_INITIATED_BY_PEER, C!SHUTDOWN_INITIATED_BY_TRANSPORT, C!SHUTDOWN_COMPLETE
<1>3. c_stream' \in {c_stream, NoStream}
  BY DEF Connection, C!ctx, C!CONNECTED, C!RESUMED, C!SHUTDOWN_INITIATED_BY_PEER,
     C!SHUTDOWN_INITIATED_BY_TRANSPORT, C!SHUTDOWN_COMPLETE, C!CompleteAll
<1>4. c_life' = "closed" => c_life = "closed"
  BY DEF Connection, C!msquic, C!CONNECTED, C!RESUMED, C!SHUTDOWN_INITIATED_BY_PEER,
     C!SHUTDOWN_INITIATED_BY_TRANSPORT, C!SHUTDOWN_COMPLETE
<1>. QED BY <1>1, <1>2, <1>3, <1>4, SessionAssumption
         DEF listener, stream, IInv, HandedOver, Awaited, ClosedInOrder, OneToken,
             AcceptCalled, FirstStreamOnly

\* PEER_STREAM_STARTED: the second stream comes after the first.
LEMMA PeerStreamStep ==
  ASSUME Typed, IInv, UNCHANGED at, Connection(C!PEER_STREAM_STARTED),
         s2 \in c_arrived' => s1 \in c_arrived
  PROVE  IInv'
<1>1. UNCHANGED <<at, listener, stream, c_op, c_accept_bs_, c_stream, c_taken, c_refused,
                  c_life>>
  BY DEF Connection, C!PEER_STREAM_STARTED
<1>2. PICK s \in {s1, s2} \ c_arrived : /\ c_worker = C!Free
                                       /\ c_worker' = [at |-> "unlock", stream |-> s]
                                       /\ c_arrived' = c_arrived \cup {s}
  BY DEF Connection, C!PEER_STREAM_STARTED
<1>3. c_worker.stream = NoStream
  BY <1>2 DEF C!Free
<1>4. OneToken'
  BY <1>1, <1>2, <1>3, SessionAssumption DEF IInv, OneToken, AcceptCalled
<1>5. FirstStreamOnly'
  BY <1>1, <1>2, <1>3, SessionAssumption DEF IInv, FirstStreamOnly
<1>. QED BY <1>1, <1>4, <1>5 DEF listener, stream, IInv, HandedOver, Awaited,
                                 ClosedInOrder

\* The worker goes through PEER_STREAM_STARTED, with the first stream to its end.
LEMMA ConnectionWorkerStep ==
  ASSUME Typed, IInv, UNCHANGED at,
         Connection(C!UnlockForAccept \/ C!AcquireAccept \/ C!DeliverStream)
  PROVE  IInv'
<1> USE DEF Connection, C!UnlockForAccept, C!AcquireAccept, C!DeliverStream
<1>1. UNCHANGED <<at, listener, stream, c_op, c_arrived, c_taken, c_refused, c_life>>
  BY DEF C!seen
<1>2. OneToken'
  BY <1>1, SessionAssumption DEF IInv, OneToken, AcceptCalled, FirstStreamOnly,
     C!Acquire, C!Free, Typed, C!TypeOK
<1>3. FirstStreamOnly'
  BY <1>1, SessionAssumption DEF IInv, OneToken, FirstStreamOnly, C!Free, Typed, C!TypeOK
<1>. QED BY <1>1, <1>2, <1>3 DEF listener, stream, IInv, HandedOver, Awaited,
                                 ClosedInOrder

LEMMA SessionInitially == Init => IInv
BY SessionAssumption DEF Init, L!Init, C!Init, S!Init, C!Ops, S!Ops, L!Ops, C!Free,
   IInv, HandedOver, Awaited, ClosedInOrder, OneToken, AcceptCalled, FirstStreamOnly

LEMMA SessionInductive == Typed /\ IInv /\ [Next]_vars => IInv'
<1> SUFFICES ASSUME Typed, IInv, [Next]_vars PROVE IInv'
  OBVIOUS
<1>1. CASE Coroutine
  BY <1>1, CallStep, ResumeConnectionStep, ResumeStreamStep, DestructorStep DEF Coroutine
<1>2. CASE ClientActs
  <2>1. CASE Connection(C!PEER_STREAM_STARTED) /\ (s2 \in c_arrived' => s1 \in c_arrived)
    BY <1>2, <2>1, PeerStreamStep DEF ClientActs, Connection, Stream
  <2>. QED BY <1>2, <2>1, StreamEventStep, ConnectionEventStep
         DEF ClientActs, Stream, Connection
<1>3. CASE ConnectionWorker
  BY <1>3, ConnectionWorkerStep, StreamEventStep DEF ConnectionWorker, Stream, Connection
<1>4. CASE StreamEnds \/ ConnectionEnds \/ IdleTimeout
  BY <1>4, StreamEventStep, ConnectionEventStep
  DEF StreamEnds, ConnectionEnds, IdleTimeout, Stream, Connection
<1>5. CASE UNCHANGED vars
  BY <1>5 DEF vars, listener, connection, stream, IInv, HandedOver, Awaited,
              ClosedInOrder, OneToken, AcceptCalled, FirstStreamOnly
<1>. QED BY <1>1, <1>2, <1>3, <1>4, <1>5, AcceptLoopStep, MainStep DEF Next, Worker

\* The session's inductive invariant holds.
THEOREM SessionInvariance == Spec => []IInv
BY HandlesTyped, SessionInitially, SessionInductive, PTL DEF Spec, Typed

\* The stream's handle is closed before its connection's, on every path out of
\* the coroutine.
THEOREM ClosedInThisOrder == Spec => []NoStreamOutlivesItsConnection
<1>1. IInv => NoStreamOutlivesItsConnection
  BY DEF IInv, ClosedInOrder, NoStreamOutlivesItsConnection
<1>. QED BY <1>1, SessionInvariance, PTL

\* No handle is destroyed with an operation outstanding.
THEOREM NothingInUse == Spec => []ClosesNothingInUse
<1>1. IInv => ClosesNothingInUse
  BY DEF IInv, Awaited, HandedOver, MainRuns, ClosesNothingInUse, C!Ops, S!Ops, L!Ops
<1>. QED BY <1>1, SessionInvariance, PTL

\* accept_bs_ of the session's connection is a binary semaphore.
THEOREM BinarySemaphore == Spec => []SemaphoreNeverOverfilled
<1>1. IInv => SemaphoreNeverOverfilled
  BY DEF IInv, OneToken, SemaphoreNeverOverfilled
<1>. QED BY <1>1, SessionInvariance, PTL

\* A second stream is handed to nobody and blocks its worker.
THEOREM SecondStreamBlocks == Spec => []LaterStreamHoldsTheWorker
<1>1. IInv => LaterStreamHoldsTheWorker
  BY DEF IInv, FirstStreamOnly, LaterStreamHoldsTheWorker
<1>. QED BY <1>1, SessionInvariance, PTL

------------------------------------------------------------------------------
\* The session hangs in the two ways it is known to hang, and in no other

\* What the coroutine is at says how far its handles are.
Course ==
  /\ at \in Stages
  /\ s_strm \in {"started", "done", "closed"}
  /\ s_strm = "closed" => at \in {"close_conn", "ended"}
  /\ at \in {"receive", "send", "stream_shutdown", "conn_shutdown", "close_stream"}
       => s1 \in c_taken
  /\ at \in {"close_conn", "ended"} /\ s1 \notin c_taken => c_state_ # "ok"
  /\ at = "ended" => c_life = "closed"
  /\ c_life = "done" => StreamsOver

\* The worker waits for an accept that never comes: with the second stream, or
\* with the first while the coroutine has not the answer of its connect and,
\* the events of the connection being held up, does not get it.
StuckForGood ==
  /\ c_worker.at = "acquire"
  /\ \/ c_worker.stream = s2
     \/ at \in {"none", "connect"} /\ c_chan["conn"] # "sent"

\* What the steps that fairness makes happen wait for, ENABLED being beyond the
\* prover.  The coroutine calls what it awaits next,
CallsConnection(o) == c_op[o] = "idle" /\ c_mtx_ = "free" /\ c_life \notin {"opened", "closed"}
CallsStream(o) == /\ s_op[o] = "idle" /\ s_call = "none"
                  /\ s_strm \in {"started", "done"} /\ s_op["start"] = "idle"

\* has the result of what it awaits, or closes a handle that is not in use;
Returned(op, chan, o) == op[o] = "waiting" /\ chan[o] = "sent"

CoroutineGoesOn ==
  \/ at = "connect" /\ (CallsConnection("conn") \/ Returned(c_op, c_chan, "conn"))
  \/ at = "accept" /\ (CallsConnection("accept") \/ Returned(c_op, c_chan, "accept"))
  \/ at = "conn_shutdown" /\ (CallsConnection("shutdown") \/ Returned(c_op, c_chan, "shutdown"))
  \/ at = "receive" /\ s_op["receive"] = "copied"
  \/ at = "send" /\ s_call = "send" /\ s_op["send"] \in {"idle", "called"}
  \/ /\ s_call = "none"
     /\ \/ at = "receive" /\ (CallsStream("receive") \/ Returned(s_op, s_chan, "receive"))
        \/ at = "send" /\ (CallsStream("send") \/ Returned(s_op, s_chan, "send"))
        \/ at = "stream_shutdown" /\ (CallsStream("shutdown") \/ Returned(s_op, s_chan, "shutdown"))
  \/ /\ at = "close_stream" /\ s_strm # "closed"
     /\ s_call = "none" /\ \A o \in S!Ops : s_op[o] = "idle"
  \/ /\ at = "close_conn" /\ c_life # "closed"
     /\ c_worker = C!Free /\ \A o \in C!Ops : c_op[o] = "idle"

\* the worker goes through PEER_STREAM_STARTED, or it is free and has an event
\* to bring: that the connection timed out or, when it closes, the end of its
\* stream and its own.
WorkerGoesOn ==
  \/ c_worker.at \in {"unlock", "deliver"}
  \/ c_worker.at = "acquire" /\ c_accept_bs_ > 0
  \/ c_worker = C!Free /\ Configured /\ c_life \in {"handshaking", "connected"}
  \/ c_worker = C!Free /\ c_life = "closing" /\ StreamsOver
  \/ WorkerServesStream /\ c_life = "closing" /\ s_strm = "started"

NeverHangs ==
  at \notin {"none", "ended"} => CoroutineGoesOn \/ WorkerGoesOn \/ StuckForGood

\* The accept loop, main and the listener's workers go on,
AcceptLoopGoesOn ==
  ExecutorFree /\ \/ ~l_refused /\ L!MayAccept
                  \/ Returned(l_op, l_chan, "accept")

MainGoesOn ==
  \/ l_life = "opened"
  \/ l_life = "started" /\ l_op["stop"] = "idle" /\ l_mtx_ = "free"
  \/ l_op["stop"] = "locked"
  \/ l_op["stop"] = "calling" /\ l_life \in {"started", "stopped"}
  \/ Returned(l_op, l_chan, "stop")
  \/ /\ MainRuns /\ l_refused /\ at \in {"none", "ended"} /\ l_life # "closed"
     /\ L!NoOtherCallback /\ \A o \in L!Ops : l_op[o] = "idle"

ListenerWorkerGoesOn ==
  \/ l_locked # {} \/ l_delivering # {}
  \/ l_acquiring # {} /\ l_accept_bs_ > 0
  \/ l_life = "stopping" /\ L!NoOtherCallback /\ l_mtx_ = "free"

\* Nor does anything else keep the server from destroying its listener.
ServerNeverHangs ==
  l_life # "closed" => \/ AcceptLoopGoesOn \/ MainGoesOn \/ ListenerWorkerGoesOn
                       \/ CoroutineGoesOn \/ WorkerGoesOn \/ StuckForGood

\* What is known of the handles at a step of the session.
Known == /\ Typed /\ IInv /\ LP!IInv /\ CP!IInv /\ SP!IInv /\ c_role = "server"
         /\ L!NoConnectionLost /\ L!NoWaiterStranded /\ L!CallbacksNeverStuck
         /\ C!NoStreamLost /\ C!NoWaiterStranded /\ S!NoWaiterStranded

\* All of it holds throughout: a handle of the session keeps what is proved of it.
LEMMA KnownAlways == Spec => []Known
<1>1. Spec => []CP!IInv
  BY UsesConnection, ConnectionProved, CP!Invariance, SessionAssumption
<1>2. Spec => []SP!IInv
  BY UsesStream, StreamProved, SP!Invariance, SessionAssumption
<1>3. Spec => []LP!IInv
  BY UsesListener, ListenerProved, LP!Invariance, SessionAssumption
<1>. QED BY <1>1, <1>2, <1>3, HandlesTyped, HandlesSound, ServerSide, SessionInvariance, PTL
         DEF Known, Typed

\* Every step keeps Course.
LEMMA CourseStep == ASSUME Known, Course, [Next]_vars PROVE Course'
<1> USE DEF Known, Course, StreamsOver, Stages
<1>1. CASE AcceptLoop
  <2>1. at' = at \/ (at = "none" /\ at' = "connect")
    BY <1>1 DEF AcceptLoop, Listener, IInv, HandedOver
  <2>. QED BY <1>1, <2>1 DEF AcceptLoop, Listener, connection, stream
<1>2. CASE Main \/ ClientConnects \/ ListenerWorker
  <2>1. UNCHANGED <<at, connection, stream>>
    BY <1>2 DEF Main, ClientConnects, ListenerWorker, Listener
  <2>. QED BY <2>1 DEF connection, stream
<1>3. CASE Call
  BY <1>3 DEF Call, Connection, Stream, connection, stream, C!msquic, C!seen, S!msquic,
     C!AsyncConnect, C!AsyncAccept, C!AsyncShutdown, S!AsyncReceive, S!AsyncSend,
     S!StreamSend, S!AsyncWait, S!AsyncShutdown
<1>4. CASE ResumeConnect
  BY <1>4 DEF ResumeConnect, Connection, stream, C!Complete, C!msquic
<1>5. CASE ResumeAccept
  <2>1. c_stream = NoStream => c_state_ # "ok"
    BY <1>5 DEF ResumeAccept, Connection, C!Complete, CP!IInv, CP!Refusals
  <2>2. c_refused' \/ s1 \in c_taken'
    BY <1>5, SessionAssumption DEF ResumeAccept, Connection, C!Complete, IInv,
       FirstStreamOnly, Typed, C!TypeOK
  <2>3. c_refused' => c_state_' # "ok"
    BY <1>5, <2>1 DEF ResumeAccept, Connection, C!Complete, IInv, ClosedInOrder
  <2>. QED BY <1>5, <2>2, <2>3 DEF ResumeAccept, AfterRefusal, Connection, stream,
       C!Complete, C!msquic
<1>6. CASE ResumeConnShutdown
  BY <1>6 DEF ResumeConnShutdown, LeaveLoop, Connection, stream, C!Complete, C!msquic
<1>7. CASE ResumeReceive \/ ResumeSend \/ ResumeStreamShutdown
  BY <1>7 DEF ResumeReceive, ResumeSend, ResumeStreamShutdown, LeaveLoop, Stream,
     connection, S!ReceiveGet, S!ReceiveComplete, S!Complete, S!msquic
<1>8. CASE CloseStream \/ CloseConnection
  BY <1>8 DEF CloseStream, CloseConnection, Connection, Stream, connection, stream,
     S!Close, C!Close, C!ctx, C!seen
<1>9. CASE \/ ClientActs /\ UNCHANGED connection
           \/ ConnectionWorker /\ UNCHANGED connection
           \/ StreamEnds
  BY <1>9 DEF ClientActs, ConnectionWorker, StreamEnds, Connection, Stream, connection,
     stream, S!RECEIVE, S!PEER_SEND_SHUTDOWN, S!PEER_SEND_ABORTED, S!SEND_COMPLETE,
     S!SHUTDOWN_COMPLETE
<1>10. CASE /\ UNCHANGED at
            /\ Connection(\/ C!CONNECTED \/ C!RESUMED \/ C!SHUTDOWN_INITIATED_BY_PEER
                          \/ C!SHUTDOWN_INITIATED_BY_TRANSPORT \/ C!PEER_STREAM_STARTED
                          \/ C!UnlockForAccept \/ C!AcquireAccept \/ C!DeliverStream)
  BY <1>10 DEF Connection, stream, C!ctx, C!msquic, C!seen, C!CONNECTED, C!RESUMED,
     C!SHUTDOWN_INITIATED_BY_PEER, C!SHUTDOWN_INITIATED_BY_TRANSPORT,
     C!PEER_STREAM_STARTED, C!UnlockForAccept, C!AcquireAccept, C!DeliverStream,
     CP!IInv, CP!WorkerStages
<1>11. CASE ConnectionEnds
  BY <1>11 DEF ConnectionEnds, Connection, stream, C!seen, C!SHUTDOWN_COMPLETE
<1>12. CASE UNCHANGED vars
  BY <1>12 DEF vars, connection, stream
<1>13. ClientActs \/ ConnectionWorker \/ IdleTimeout => <1>9!1 \/ <1>10!1
  BY DEF ClientActs, ConnectionWorker, IdleTimeout, Connection, Stream
<1>. QED BY <1>1, <1>2, <1>3, <1>4, <1>5, <1>6, <1>7, <1>8, <1>9, <1>10, <1>11, <1>12,
            <1>13 DEF Next, Coroutine, Worker

\* So the handles are throughout as far as the coroutine's stage says.
LEMMA CourseHolds == Spec => []Course
<1>1. Init => Course
  BY DEF Init, L!Init, C!Init, S!Init, Course, Stages
<1>2. Known /\ Course /\ [Next]_vars => Course'
  BY CourseStep
<1>. QED BY <1>1, <1>2, KnownAlways, PTL DEF Spec

\* A worker that waits for no accept is waited on by nobody who goes on: but for
\* the two cases of StuckForGood the coroutine is about to accept.
LEMMA BlockedWorkerIsServed ==
  ASSUME Known, Course, at \notin {"none", "ended"}, c_worker.at = "acquire",
         c_accept_bs_ = 0, ~StuckForGood
  PROVE  CoroutineGoesOn
<1>1. c_life = "connected" /\ c_mtx_ = "free" /\ c_state_ = "ok"
  BY DEF Known, CP!IInv, CP!WorkerStages, CP!LifeStages
<1>2. c_worker.stream = s1 /\ s1 \notin c_taken /\ at # "close_conn"
  BY <1>1, SessionAssumption DEF Known, Course, StuckForGood, Typed, C!TypeOK, CP!IInv,
     CP!WorkerStages, CP!Places, CP!Held
<1>3. at \in {"connect", "accept"}
  BY <1>2 DEF Course, Stages
<1>4. CASE at = "connect"
  BY <1>3, <1>4 DEF StuckForGood, Known, CP!IInv, CP!ChannelStages, CP!Ops, CoroutineGoesOn,
     Returned, Typed, C!TypeOK, C!Ops
<1>5. CASE at = "accept"
  <2>1. ~c_pending_["accept"]
    BY <1>1 DEF Known, CP!IInv, CP!TokenCount
  <2>2. c_op["accept"] = "idle" \/ (c_op["accept"] = "waiting" /\ c_chan["accept"] = "sent")
    BY <2>1 DEF Known, CP!IInv, CP!ChannelStages, CP!Ops, Typed, C!TypeOK, C!Ops
  <2>. QED BY <1>1, <1>5, <2>2 DEF CoroutineGoesOn, CallsConnection, Returned
<1>. QED BY <1>3, <1>4, <1>5

\* A connection that has not ended, its worker being free, has an event to come.
LEMMA ConnectionHasAnEvent ==
  ASSUME Known, Course, at # "none", c_worker.at = "free",
         c_life \in {"handshaking", "connected", "closing"}
  PROVE  WorkerGoesOn
<1>1. c_worker = C!Free
  BY DEF Known, Typed, C!TypeOK, C!Free, CP!IInv, CP!WorkerStages
<1>2. Configured
  BY DEF Known, IInv, HandedOver, L!NoConnectionLost, Configured
<1>3. StreamsOver \/ (WorkerServesStream /\ s_strm = "started") \/ c_life = "handshaking"
  BY <1>1 DEF Course, StreamsOver, WorkerServesStream
<1>. QED BY <1>1, <1>2, <1>3 DEF WorkerGoesOn

\* So whatever the coroutine is at, it can go on or a worker can.
LEMMA SomebodyGoesOn == Known /\ Course => NeverHangs
<1> SUFFICES ASSUME Known, Course, at \notin {"none", "ended"}, ~StuckForGood, ~WorkerGoesOn
             PROVE  CoroutineGoesOn
  BY DEF NeverHangs
<1>1. c_life \notin {"opened", "closed"}
  BY DEF Known, IInv, ClosedInOrder, CP!IInv, CP!LifeStages
<1>2. CASE c_worker.at # "free"
  <2>1. c_worker.at = "acquire" /\ c_accept_bs_ = 0
    BY <1>2 DEF WorkerGoesOn, Known, Typed, C!TypeOK
  <2>. QED BY <2>1, BlockedWorkerIsServed
<1>3. CASE c_worker.at = "free"
  <2>1. c_mtx_ = "free" /\ c_worker = C!Free
    BY <1>3 DEF Known, Typed, C!TypeOK, C!Free, CP!IInv, CP!WorkerStages
  <2>2. c_life = "done"
    BY <1>1, <1>3, ConnectionHasAnEvent DEF Known, Typed, C!TypeOK
  <2>3. \A o \in C!Ops : CallsConnection(o) \/ Returned(c_op, c_chan, o)
    BY <1>1, <2>1, <2>2 DEF CallsConnection, Returned, Known, Typed, C!TypeOK, C!Ops,
       C!NoWaiterStranded
  <2>4. CASE at \in {"connect", "accept", "conn_shutdown"}
    BY <2>3, <2>4 DEF CoroutineGoesOn, C!Ops
  <2>5. CASE at \in {"receive", "send", "stream_shutdown"}
    <3>1. s_strm = "done"
      BY <2>2, <2>5 DEF Course, StreamsOver, Known, C!NoStreamLost
    <3>2. s_op["start"] = "idle" /\ (s_call # "none" => at = "send" /\ s_call = "send")
      BY DEF Known, IInv, Awaited
    <3>3. ASSUME s_call = "none", NEW o \in S!Ops, s_op[o] # "copied"
          PROVE  CallsStream(o) \/ Returned(s_op, s_chan, o)
      <4>1. s_op[o] # "called"
        BY <3>3 DEF Known, SP!IInv, SP!LifeStages, S!Ops, SP!Ops
      <4>. QED BY <3>1, <3>2, <3>3, <4>1 DEF CallsStream, Returned, Known, Typed, S!TypeOK,
           S!Ops, S!NoWaiterStranded, S!Owed, S!WaitsForTheRest
    <3>5. s_call = "send" => s_op["send"] \in {"idle", "called"}
      BY DEF Known, SP!IInv, SP!LifeStages
    <3>4. \A o \in {"send", "shutdown"} : s_op[o] # "copied"
      BY DEF Known, SP!IInv, SP!ChannelStages, SP!Answered
    <3>. QED BY <2>5, <3>2, <3>3, <3>4, <3>5 DEF CoroutineGoesOn, S!Ops
  <2>6. CASE at \in {"close_stream", "close_conn"}
    BY <1>1, <2>1, <2>6 DEF CoroutineGoesOn, Course, Known, IInv, Awaited, C!Ops, S!Ops
  <2>. QED BY <2>4, <2>5, <2>6 DEF Course, Stages
<1>. QED BY <1>2, <1>3 DEF Known, Typed, C!TypeOK

\* When no coroutine runs, neither lock, semaphore, ListenerStop nor the accept
\* loop keeps main from destroying the listener.
LEMMA ServerGoesOn == Known /\ Course => ServerNeverHangs
<1> SUFFICES ASSUME Known, Course, l_life # "closed", at \in {"none", "ended"},
                    ~MainGoesOn, ~ListenerWorkerGoesOn
             PROVE  AcceptLoopGoesOn
  BY SomebodyGoesOn DEF ServerNeverHangs, NeverHangs
<1>1. ExecutorFree
  BY DEF ExecutorFree
<1>2. l_op["stop"] \in {"idle", "calling", "waiting"}
  BY DEF MainGoesOn, Known, Typed, L!TypeOK, L!Ops
<1>3. l_mtx_ = "free"
  BY <1>2 DEF Known, LP!IInv, LP!Running, ListenerWorkerGoesOn
<1>4. l_op["stop"] = "waiting" => l_chan["stop"] # "sent" /\ l_life = "stopped"
  BY DEF MainGoesOn, Returned, Known, LP!IInv, LP!StoppedForGood
<1>5. CASE l_life = "stopping"
  <2>1. ~L!NoOtherCallback /\ l_locked = {} /\ l_delivering = {} /\ l_acquiring # {}
    BY <1>3, <1>5 DEF ListenerWorkerGoesOn, L!NoOtherCallback
  <2>2. l_accept_bs_ = 0
    BY <2>1 DEF ListenerWorkerGoesOn, Known, Typed, L!TypeOK
  <2>3. l_chan["accept"] = "sent" \/ L!MayAccept
    BY <1>2, <2>1, <2>2 DEF Known, L!CallbacksNeverStuck
  <2>4. ~l_refused
    BY <1>5 DEF Known, LP!IInv, LP!Refusals, LP!StoppedForGood
  <2>5. l_chan["accept"] = "sent" => Returned(l_op, l_chan, "accept")
    BY DEF Returned, Known, LP!IInv, LP!ChannelStages, LP!Ops
  <2>. QED BY <1>1, <2>3, <2>4, <2>5 DEF AcceptLoopGoesOn
<1>6. CASE l_life = "stopped"
  <2>1. l_op["stop"] = "idle"
    BY <1>2, <1>4, <1>6 DEF MainGoesOn, Known, L!NoWaiterStranded, L!Ops
  <2>2. CASE l_refused
    <3>1. l_op["accept"] = "idle" /\ L!NoOtherCallback
      BY <1>6, <2>2 DEF Known, IInv, HandedOver, LP!IInv, LP!Running, LP!NoOtherCallback,
         L!NoOtherCallback
    <3>. QED BY <1>6, <2>1, <2>2, <3>1 DEF MainGoesOn, MainRuns, L!Ops
  <2>3. CASE ~l_refused
    <3>1. l_op["accept"] \in {"idle", "waiting"}
      BY DEF Known, LP!IInv, LP!ChannelStages
    <3>2. l_op["accept"] = "waiting" => l_chan["accept"] = "sent"
      BY <1>6 DEF Known, L!NoWaiterStranded, L!Ops
    <3>. QED BY <1>1, <1>3, <1>6, <2>3, <3>1, <3>2
             DEF AcceptLoopGoesOn, L!MayAccept, Returned
  <2>. QED BY <2>2, <2>3
<1>. QED BY <1>2, <1>3, <1>4, <1>5, <1>6 DEF MainGoesOn, Known, Typed, L!TypeOK

\* But for the two cases of StuckForGood the server is free of deadlock: until
\* its coroutine has come to its end, the coroutine or a worker of msquic can go
\* on, and until it has destroyed its listener one of its threads or a worker
\* can, with a step that fairness does not let it put off.
THEOREM FreeOfDeadlock == Spec => [](NeverHangs /\ ServerNeverHangs)
BY SomebodyGoesOn, ServerGoesOn, KnownAlways, CourseHolds, PTL

\* And those two are for good, as SessionEnds and ServerDrains have it: the
\* worker never goes on and the coroutine never comes to its end.
THEOREM StuckStaysStuck ==
  Spec => /\ [][StuckForGood => StuckForGood']_vars
          /\ [](StuckForGood => c_accept_bs_ = 0 /\ at # "ended")
<1>1. ASSUME Known, Course, StuckForGood
      PROVE  c_accept_bs_ = 0 /\ at # "ended" /\ c_life = "connected" /\ c_state_ = "ok"
  <2>1. c_life = "connected" /\ c_state_ = "ok"
    BY <1>1 DEF StuckForGood, Known, CP!IInv, CP!WorkerStages, CP!LifeStages
  <2>2. c_accept_bs_ = 0
    BY <1>1, SessionAssumption
    DEF StuckForGood, Known, IInv, OneToken, AcceptCalled, FirstStreamOnly
  <2>. QED BY <1>1, <2>1, <2>2 DEF Course
<1>2. ASSUME Known, Course, StuckForGood, [Next]_vars PROVE StuckForGood'
  <2>1. /\ c_worker' = c_worker
        /\ c_chan'["conn"] = "sent" => c_chan["conn"] = "sent"
    <3>. c_accept_bs_ = 0 /\ c_life = "connected" /\ c_state_ = "ok"
      BY <1>1, <1>2
    <3> USE <1>2 DEF StuckForGood, C!Free
    <3>1. [C!Next]_(C!vars)
      BY ConnectionStep
    <3>2. CASE UNCHANGED C!vars
      BY <3>2 DEF C!vars, C!ctx, C!msquic
    <3>3. CASE C!AsyncConnect
      BY <3>3 DEF C!AsyncConnect, C!AlreadyShut, C!NewChannel, C!Create, C!msquic, Known,
         Typed, C!TypeOK, C!Ops
    <3>4. CASE C!AsyncStart \/ C!AsyncAccept \/ C!AsyncShutdown
      BY <3>4 DEF C!AsyncStart, C!AsyncAccept, C!AsyncShutdown, C!NewChannel, C!Sent,
         C!msquic, Known, Typed, C!TypeOK, C!Ops
    <3>5. ASSUME NEW o \in C!Ops, C!Complete(o)
          PROVE  c_worker' = c_worker /\ (c_chan'["conn"] = "sent" => c_chan["conn"] = "sent")
      BY <3>5 DEF C!Complete, C!Get, C!msquic, Known, Typed, C!TypeOK, C!Ops
    <3>6. ~C!Close /\ ~C!Callback
      BY DEF C!Close, C!Callback, C!CONNECTED, C!SHUTDOWN_INITIATED_BY_TRANSPORT,
         C!SHUTDOWN_INITIATED_BY_PEER, C!SHUTDOWN_COMPLETE, C!RESUMED,
         C!PEER_STREAM_STARTED, C!UnlockForAccept, C!AcquireAccept, C!DeliverStream
    <3>. QED BY <3>1, <3>2, <3>3, <3>4, <3>5, <3>6 DEF C!Next, C!User
  <2>2. at \in {"none", "connect"} /\ c_chan["conn"] # "sent" => at' \in {"none", "connect"}
    <3>1. AcceptLoop => at' = at \/ (at = "none" /\ at' = "connect")
      BY <1>2 DEF AcceptLoop, Listener, Known, IInv, HandedOver
    <3>2. at = "connect" /\ Coroutine => at' = at \/ c_chan["conn"] = "sent"
      BY DEF Coroutine, Call, ResumeConnect, ResumeAccept, ResumeReceive, ResumeSend,
         ResumeStreamShutdown, ResumeConnShutdown, CloseStream, CloseConnection,
         Connection, C!Complete
    <3>3. at = "none" /\ Coroutine => at' = at
      BY DEF Coroutine, Call, ResumeConnect, ResumeAccept, ResumeReceive, ResumeSend,
         ResumeStreamShutdown, ResumeConnShutdown, CloseStream, CloseConnection
    <3>4. Main \/ Worker => at' = at
      BY DEF Main, Worker, ClientConnects, ListenerWorker, ClientActs, ConnectionWorker,
         StreamEnds, ConnectionEnds, IdleTimeout
    <3>. QED BY <1>2, <3>1, <3>2, <3>3, <3>4 DEF Next, vars
  <2>. QED BY <1>2, <2>1, <2>2 DEF StuckForGood
<1>3. Known /\ Course => (StuckForGood => c_accept_bs_ = 0 /\ at # "ended")
  BY <1>1
<1>4. Known /\ Course /\ [Next]_vars => [StuckForGood => StuckForGood']_vars
  BY <1>2
<1>. QED BY <1>3, <1>4, KnownAlways, CourseHolds, PTL DEF Spec

==============================================================================
