----------------------- MODULE ConnectionHandleProofs -----------------------
(***************************************************************************)
(* Safety of the connection handle, proved for client and server and for   *)
(* any set of streams: an inductive invariant on channels, the worker, its *)
(* tokens and where each stream is, the properties of ConnectionHandle     *)
(* that follow from it, and that async_accept implements AcceptQueue.      *)
(***************************************************************************)
EXTENDS ConnectionHandle, TLAPS

------------------------------------------------------------------------------
\* The inductive invariant

\* A flag is set exactly while the callback still owes the channel its value,
\* and a channel is in use exactly while its operation is outstanding.
ChannelStages ==
  /\ \A o \in Ops :
       /\ chan[o] # "misused"
       /\ op[o] = "waiting" <=> chan[o] \in {"open", "sent"}
  /\ pending_["accept"] <=> chan["accept"] = "open"
  /\ pending_["shutdown"] <=> chan["shutdown"] = "open"
  /\ pending_["client_start"] \/ pending_["server_connect"] <=> chan["conn"] = "open"
  /\ pending_["client_start"] => role = "client"
  /\ pending_["server_connect"] => role = "server"

\* The flags and the context's state follow from where the connection is.
LifeStages ==
  /\ life = "opened" => role = "client"
  /\ role = "client" /\ life = "handshaking" => pending_["client_start"]
  /\ life \in {"opened", "connected"} => ~pending_["client_start"]
  /\ life \in {"opened", "handshaking", "connected"} => state_ = "ok"
  /\ life = "closing" => state_ \in {"peer_shutdown", "transport_shutdown"}
  /\ life = "done" => state_ = "shutdown_complete"
  /\ life = "closed" => \A o \in Ops : op[o] = "idle"
  /\ pending_["shutdown"] => shut /\ life # "opened"
  /\ pending_["server_connect"] \/ pending_["accept"] => life # "opened"
  /\ state_ = "shutdown_complete" =>
       /\ life \in {"done", "closed"}
       /\ ~pending_["accept"] /\ ~pending_["server_connect"] /\ ~pending_["shutdown"]

\* A worker that is inside PEER_STREAM_STARTED holds its stream, keeps the
\* connection from closing, and has mtx_ only until it waits for the accept.
WorkerStages ==
  /\ worker.at = "free" <=> worker.stream = NoStream
  /\ worker.at # "free" => life = "connected"
  /\ mtx_ = IF worker.at = "unlock" THEN "held" ELSE "free"

\* One token for each pending accept.  An accept that the closing connection
\* refused leaves its token behind.
TokenCount ==
  /\ life \in {"opened", "handshaking", "connected"} =>
       IF worker.at = "deliver"
       THEN accept_bs_ = 0 /\ pending_["accept"]
       ELSE accept_bs_ = IF pending_["accept"] THEN 1 ELSE 0
  /\ life = "closing" /\ ~pending_["accept"] => accept_bs_ <= 1

Offered == IF chan["accept"] = "sent" THEN {stream} \ {NoStream} ELSE {}
Held == {worker.stream} \ {NoStream}

\* A stream is in one place.
Places ==
  /\ arrived = taken \cup Offered \cup Held
  /\ taken \cap Offered = {} /\ taken \cap Held = {} /\ Offered \cap Held = {}

\* A refusal comes after a shutdown event, and only refusals come after it.
Refusals ==
  /\ chan["accept"] = "sent" /\ stream = NoStream => state_ # "ok"
  /\ refused => state_ # "ok" /\ Offered = {}

IInv == /\ TypeOK
        /\ ChannelStages
        /\ LifeStages
        /\ WorkerStages
        /\ TokenCount
        /\ Places
        /\ Refusals
        /\ HandshakeAssertsHold

------------------------------------------------------------------------------
\* The flags are typed apart: Zenon is at home with Boolean values, SMT with
\* the rest.
FlagsTyped == pending_ \in [Flags -> BOOLEAN]

\* No call of the user breaks the invariant.
LEMMA UserStep == ASSUME IInv, User PROVE IInv'
<1> USE DEF IInv, ctx, msquic, seen
<1>1. ASSUME AsyncStart PROVE IInv'
  <2>1. FlagsTyped'
    BY <1>1, Zenon DEF TypeOK, FlagsTyped, AsyncStart
  <2>2. TypeOK'
    BY <1>1, <2>1 DEF AsyncStart, NewChannel, Create, Sent, Send, Assert, TypeOK,
       ChannelStates, FlagsTyped
  <2>3. ChannelStages'
    BY <1>1 DEF AsyncStart, NewChannel, Create, Sent, Send, TypeOK, Ops, Flags,
       ChannelStages
  <2>4. LifeStages'
    BY <1>1 DEF AsyncStart, TypeOK, Flags, LifeStages
  <2>5. WorkerStages'
    BY <1>1 DEF AsyncStart, WorkerStages
  <2>6. TokenCount'
    BY <1>1 DEF AsyncStart, TypeOK, Flags, TokenCount
  <2>7. Places'
    BY <1>1 DEF AsyncStart, NewChannel, Sent, TypeOK, Ops, Offered, Held, Places
  <2>8. Refusals'
    BY <1>1 DEF AsyncStart, NewChannel, Sent, TypeOK, Ops, LifeStages, Refusals
  <2>9. HandshakeAssertsHold'
    BY <1>1 DEF AsyncStart, Assert, Ops, ChannelStages, HandshakeAssertsHold
  <2>. QED BY <2>2, <2>3, <2>4, <2>5, <2>6, <2>7, <2>8, <2>9
<1>2. ASSUME AsyncConnect PROVE IInv'
  <2>1. FlagsTyped'
    BY <1>2, Zenon DEF TypeOK, FlagsTyped, AsyncConnect
  <2>2. TypeOK'
    BY <1>2, <2>1 DEF AsyncConnect, NewChannel, Create, Sent, Send, Assert, TypeOK,
       ChannelStates, FlagsTyped
  <2>3. ChannelStages'
    BY <1>2 DEF AsyncConnect, NewChannel, Create, Sent, Send, TypeOK, Ops, Flags,
       ChannelStages
  <2>4. LifeStages'
    BY <1>2 DEF AsyncConnect, AlreadyShut, TypeOK, Flags, LifeStages
  <2>5. WorkerStages'
    BY <1>2 DEF AsyncConnect, WorkerStages
  <2>6. TokenCount'
    BY <1>2 DEF AsyncConnect, TypeOK, Flags, TokenCount
  <2>7. Places'
    BY <1>2 DEF AsyncConnect, NewChannel, Sent, TypeOK, Ops, Offered, Held, Places
  <2>8. Refusals'
    BY <1>2 DEF AsyncConnect, NewChannel, Sent, TypeOK, Ops, Offered, Refusals
  <2>9. HandshakeAssertsHold'
    BY <1>2 DEF AsyncConnect, Assert, Ops, ChannelStages, HandshakeAssertsHold
  <2>. QED BY <2>2, <2>3, <2>4, <2>5, <2>6, <2>7, <2>8, <2>9
<1>3. ASSUME AsyncAccept PROVE IInv'
  <2>1. FlagsTyped'
    BY <1>3, Zenon DEF TypeOK, FlagsTyped, AsyncAccept
  <2>2. TypeOK'
    BY <1>3, <2>1 DEF AsyncAccept, MayAccept, NewChannel, Create, Sent, Assert, Release,
       AlreadyShut, TypeOK, Ops, ChannelStates, FlagsTyped, ChannelStages, LifeStages,
       TokenCount
  <2>3. ChannelStages'
    BY <1>3 DEF AsyncAccept, MayAccept, NewChannel, Create, Sent, Send, TypeOK, Ops, Flags,
       ChannelStages
  <2>4. LifeStages'
    BY <1>3 DEF AsyncAccept, MayAccept, AlreadyShut, TypeOK, Flags, LifeStages
  <2>5. WorkerStages'
    BY <1>3 DEF AsyncAccept, WorkerStages
  <2>6. TokenCount'
    BY <1>3 DEF AsyncAccept, MayAccept, Release, TypeOK, Ops, Flags, ChannelStages, TokenCount
  <2>7. Places'
    BY <1>3 DEF AsyncAccept, MayAccept, NewChannel, Create, TypeOK, Ops, ChannelStages, Offered,
       Held, Places
  <2>8. Refusals'
    BY <1>3 DEF AsyncAccept, MayAccept, NewChannel, Create, AlreadyShut, TypeOK, Offered, Refusals
  <2>9. HandshakeAssertsHold'
    BY <1>3 DEF AsyncAccept, MayAccept, Assert, Ops, ChannelStages, HandshakeAssertsHold
  <2>. QED BY <2>2, <2>3, <2>4, <2>5, <2>6, <2>7, <2>8, <2>9
<1>4. ASSUME AsyncShutdown PROVE IInv'
  <2>1. FlagsTyped' /\ shut' \in BOOLEAN
    <3>1. CASE AlreadyShut
      BY <1>4, <3>1 DEF TypeOK, FlagsTyped, AsyncShutdown
    <3>2. CASE ~AlreadyShut
      BY <1>4, <3>2, Zenon DEF TypeOK, FlagsTyped, AsyncShutdown
    <3>. QED BY <3>1, <3>2
  <2>2. TypeOK'
    BY <1>4, <2>1 DEF AsyncShutdown, NewChannel, Create, Sent, Send, TypeOK,
       ChannelStates, FlagsTyped
  <2>3. ChannelStages'
    BY <1>4 DEF AsyncShutdown, NewChannel, Create, Sent, Send, TypeOK, Ops, Flags,
       ChannelStages
  <2>4. LifeStages'
    BY <1>4 DEF AsyncShutdown, AlreadyShut, TypeOK, Flags, LifeStages
  <2>5. WorkerStages'
    BY <1>4 DEF AsyncShutdown, WorkerStages
  <2>6. TokenCount'
    BY <1>4 DEF AsyncShutdown, TypeOK, Flags, TokenCount
  <2>7. Places'
    BY <1>4 DEF AsyncShutdown, NewChannel, Sent, TypeOK, Ops, Offered, Held, Places
  <2>8. Refusals'
    BY <1>4 DEF AsyncShutdown, NewChannel, Sent, TypeOK, Ops, Offered, Refusals
  <2>9. HandshakeAssertsHold'
    BY <1>4 DEF AsyncShutdown, HandshakeAssertsHold
  <2>. QED BY <2>2, <2>3, <2>4, <2>5, <2>6, <2>7, <2>8, <2>9
<1>5. ASSUME Close PROVE IInv'
  BY <1>5 DEF Close, Free, TypeOK, ChannelStages, LifeStages, WorkerStages,
     TokenCount, Places, Offered, Held, Refusals, HandshakeAssertsHold
<1>. QED BY <1>1, <1>2, <1>3, <1>4, <1>5 DEF User

\* No event of msquic breaks it, whenever it comes.
LEMMA CallbackStep == ASSUME IInv, Callback PROVE IInv'
<1> USE DEF IInv, ctx, msquic, seen
<1>1. ASSUME CONNECTED PROVE IInv'
  <2>1. FlagsTyped'
    BY <1>1, Zenon DEF TypeOK, FlagsTyped, CONNECTED
  <2>2. TypeOK'
    BY <1>1, <2>1 DEF CONNECTED, Sent, Send, Assert, TypeOK, ChannelStates
  <2>3. ChannelStages'
    BY <1>1 DEF CONNECTED, Sent, Send, TypeOK, Ops, ChannelStages
  <2>4. LifeStages'
    BY <1>1 DEF CONNECTED, LifeStages
  <2>5. WorkerStages'
    BY <1>1 DEF CONNECTED, WorkerStages
  <2>6. TokenCount'
    BY <1>1 DEF CONNECTED, TokenCount
  <2>7. Places'
    BY <1>1 DEF CONNECTED, Sent, Offered, Held, Places
  <2>8. Refusals'
    BY <1>1 DEF CONNECTED, Sent, Offered, Refusals
  <2>9. HandshakeAssertsHold'
    BY <1>1 DEF CONNECTED, Assert, ChannelStages, LifeStages, HandshakeAssertsHold
  <2>. QED BY <2>2, <2>3, <2>4, <2>5, <2>6, <2>7, <2>8, <2>9
<1>2. ASSUME SHUTDOWN_INITIATED_BY_TRANSPORT PROVE IInv'
  <2>1. FlagsTyped'
    BY <1>2, Zenon DEF TypeOK, FlagsTyped, SHUTDOWN_INITIATED_BY_TRANSPORT, ClearWaiting
  <2>2. TypeOK'
    BY <1>2, <2>1 DEF SHUTDOWN_INITIATED_BY_TRANSPORT, Send, Assert, ClearWaiting,
       CompleteAll, TypeOK, States, ChannelStates
  <2>3. ChannelStages'
    BY <1>2 DEF SHUTDOWN_INITIATED_BY_TRANSPORT, Send, WaitsAtShutdown, ClearWaiting,
       CompleteAll, Ops, ChannelStages
  <2>4. LifeStages'
    BY <1>2 DEF SHUTDOWN_INITIATED_BY_TRANSPORT, ClearWaiting, TypeOK, Flags, LifeStages
  <2>5. WorkerStages'
    BY <1>2 DEF SHUTDOWN_INITIATED_BY_TRANSPORT, Free, WorkerStages
  <2>6. TokenCount'
    BY <1>2 DEF SHUTDOWN_INITIATED_BY_TRANSPORT, TokenCount
  <2>7. Places'
    BY <1>2 DEF SHUTDOWN_INITIATED_BY_TRANSPORT, WaitsAtShutdown, CompleteAll, Ops,
       ChannelStages, Offered, Held, Places
  <2>8. Refusals'
    BY <1>2 DEF SHUTDOWN_INITIATED_BY_TRANSPORT, ClearWaiting, TypeOK, Flags, LifeStages, Refusals
  <2>9. HandshakeAssertsHold'
    BY <1>2 DEF SHUTDOWN_INITIATED_BY_TRANSPORT, Assert, ChannelStages,
       HandshakeAssertsHold
  <2>. QED BY <2>2, <2>3, <2>4, <2>5, <2>6, <2>7, <2>8, <2>9
<1>3. ASSUME SHUTDOWN_INITIATED_BY_PEER PROVE IInv'
  <2>1. FlagsTyped'
    BY <1>3, Zenon DEF TypeOK, FlagsTyped, SHUTDOWN_INITIATED_BY_PEER, ClearWaiting
  <2>2. TypeOK'
    BY <1>3, <2>1 DEF SHUTDOWN_INITIATED_BY_PEER, Send, Assert, ClearWaiting,
       CompleteAll, TypeOK, States, ChannelStates
  <2>3. ChannelStages'
    BY <1>3 DEF SHUTDOWN_INITIATED_BY_PEER, Send, WaitsAtShutdown, ClearWaiting,
       CompleteAll, Ops, ChannelStages
  <2>4. LifeStages'
    BY <1>3 DEF SHUTDOWN_INITIATED_BY_PEER, ClearWaiting, TypeOK, Flags, LifeStages
  <2>5. WorkerStages'
    BY <1>3 DEF SHUTDOWN_INITIATED_BY_PEER, Free, WorkerStages
  <2>6. TokenCount'
    BY <1>3 DEF SHUTDOWN_INITIATED_BY_PEER, TokenCount
  <2>7. Places'
    BY <1>3 DEF SHUTDOWN_INITIATED_BY_PEER, WaitsAtShutdown, CompleteAll, Ops,
       ChannelStages, Offered, Held, Places
  <2>8. Refusals'
    BY <1>3 DEF SHUTDOWN_INITIATED_BY_PEER, ClearWaiting, TypeOK, Flags, LifeStages, Refusals
  <2>9. HandshakeAssertsHold'
    BY <1>3 DEF SHUTDOWN_INITIATED_BY_PEER, Assert, LifeStages, HandshakeAssertsHold
  <2>. QED BY <2>2, <2>3, <2>4, <2>5, <2>6, <2>7, <2>8, <2>9
<1>4. ASSUME SHUTDOWN_COMPLETE PROVE IInv'
  <2>1. FlagsTyped'
    BY <1>4, Zenon DEF TypeOK, FlagsTyped, SHUTDOWN_COMPLETE, ClearWaiting
  <2>2. TypeOK'
    BY <1>4, <2>1 DEF SHUTDOWN_COMPLETE, Send, Assert, ClearWaiting, CompleteAll,
       TypeOK, States, ChannelStates
  <2>3. ChannelStages'
    BY <1>4 DEF SHUTDOWN_COMPLETE, Send, WaitsAtShutdown, ClearWaiting, CompleteAll,
       Ops, ChannelStages
  <2>4. LifeStages'
    BY <1>4 DEF SHUTDOWN_COMPLETE, ClearWaiting, LifeStages
  <2>5. WorkerStages'
    BY <1>4 DEF SHUTDOWN_COMPLETE, Free, WorkerStages
  <2>6. TokenCount'
    BY <1>4 DEF SHUTDOWN_COMPLETE, TokenCount
  <2>7. Places'
    BY <1>4 DEF SHUTDOWN_COMPLETE, WaitsAtShutdown, CompleteAll, Ops, ChannelStages,
       Offered, Held, Places
  <2>8. Refusals'
    BY <1>4 DEF SHUTDOWN_COMPLETE, CompleteAll, Ops, Offered, Refusals
  <2>9. HandshakeAssertsHold'
    BY <1>4 DEF SHUTDOWN_COMPLETE, Assert, ChannelStages, HandshakeAssertsHold
  <2>. QED BY <2>2, <2>3, <2>4, <2>5, <2>6, <2>7, <2>8, <2>9
<1>5. ASSUME RESUMED PROVE IInv'
  <2>1. FlagsTyped'
    BY <1>5, Zenon DEF TypeOK, FlagsTyped, RESUMED
  <2>2. TypeOK'
    BY <1>5, <2>1 DEF RESUMED, Assert, TypeOK
  <2>3. ChannelStages'
    BY <1>5 DEF RESUMED, ChannelStages
  <2>4. LifeStages'
    BY <1>5 DEF RESUMED, LifeStages
  <2>5. WorkerStages'
    BY <1>5 DEF RESUMED, WorkerStages
  <2>6. TokenCount'
    BY <1>5 DEF RESUMED, TokenCount
  <2>7. Places'
    BY <1>5 DEF RESUMED, Offered, Held, Places
  <2>8. Refusals'
    BY <1>5 DEF RESUMED, Offered, Refusals
  <2>9. HandshakeAssertsHold'
    BY <1>5 DEF RESUMED, Assert, HandshakeAssertsHold
  <2>. QED BY <2>2, <2>3, <2>4, <2>5, <2>6, <2>7, <2>8, <2>9
<1>6. ASSUME PEER_STREAM_STARTED PROVE IInv'
  <2>1. FlagsTyped'
    BY <1>6, Zenon DEF TypeOK, FlagsTyped, PEER_STREAM_STARTED
  <2>2. TypeOK'
    BY <1>6, <2>1 DEF PEER_STREAM_STARTED, TypeOK
  <2>3. ChannelStages'
    BY <1>6 DEF PEER_STREAM_STARTED, ChannelStages
  <2>4. LifeStages'
    BY <1>6 DEF PEER_STREAM_STARTED, LifeStages
  <2>5. WorkerStages'
    BY <1>6, NoStreamAssumption DEF PEER_STREAM_STARTED, WorkerStages
  <2>6. TokenCount'
    BY <1>6 DEF PEER_STREAM_STARTED, Free, TokenCount
  <2>7. Places'
    BY <1>6, NoStreamAssumption DEF PEER_STREAM_STARTED, Free, Offered, Held, Places
  <2>8. Refusals'
    BY <1>6, NoStreamAssumption DEF PEER_STREAM_STARTED, Offered, Refusals
  <2>9. HandshakeAssertsHold'
    BY <1>6 DEF PEER_STREAM_STARTED, HandshakeAssertsHold
  <2>. QED BY <2>2, <2>3, <2>4, <2>5, <2>6, <2>7, <2>8, <2>9
<1>7. ASSUME UnlockForAccept PROVE IInv'
  <2>1. FlagsTyped'
    BY <1>7, Zenon DEF TypeOK, FlagsTyped, UnlockForAccept
  <2>2. TypeOK'
    BY <1>7, <2>1 DEF UnlockForAccept, LockWhileWaiting, TypeOK
  <2>3. ChannelStages'
    BY <1>7 DEF UnlockForAccept, ChannelStages
  <2>4. LifeStages'
    BY <1>7 DEF UnlockForAccept, LifeStages
  <2>5. WorkerStages'
    BY <1>7, NoStreamAssumption DEF UnlockForAccept, LockWhileWaiting, WorkerStages
  <2>6. TokenCount'
    BY <1>7 DEF UnlockForAccept, TokenCount
  <2>7. Places'
    BY <1>7, NoStreamAssumption DEF UnlockForAccept, Offered, Held, Places
  <2>8. Refusals'
    BY <1>7, NoStreamAssumption DEF UnlockForAccept, Offered, Refusals
  <2>9. HandshakeAssertsHold'
    BY <1>7 DEF UnlockForAccept, HandshakeAssertsHold
  <2>. QED BY <2>2, <2>3, <2>4, <2>5, <2>6, <2>7, <2>8, <2>9
<1>8. ASSUME AcquireAccept PROVE IInv'
  <2>1. FlagsTyped'
    BY <1>8, Zenon DEF TypeOK, FlagsTyped, AcquireAccept
  <2>2. TypeOK'
    BY <1>8, <2>1 DEF AcquireAccept, Acquire, TypeOK
  <2>3. ChannelStages'
    BY <1>8 DEF AcquireAccept, ChannelStages
  <2>4. LifeStages'
    BY <1>8 DEF AcquireAccept, LifeStages
  <2>5. WorkerStages'
    BY <1>8, NoStreamAssumption DEF AcquireAccept, WorkerStages
  <2>6. TokenCount'
    BY <1>8 DEF AcquireAccept, Acquire, TypeOK, TokenCount
  <2>7. Places'
    BY <1>8, NoStreamAssumption DEF AcquireAccept, Offered, Held, Places
  <2>8. Refusals'
    BY <1>8, NoStreamAssumption DEF AcquireAccept, Offered, Refusals
  <2>9. HandshakeAssertsHold'
    BY <1>8 DEF AcquireAccept, HandshakeAssertsHold
  <2>. QED BY <2>2, <2>3, <2>4, <2>5, <2>6, <2>7, <2>8, <2>9
<1>9. ASSUME DeliverStream PROVE IInv'
  <2>1. FlagsTyped'
    BY <1>9, Zenon DEF TypeOK, FlagsTyped, DeliverStream, TakeAccept
  <2>2. TypeOK'
    BY <1>9, <2>1 DEF DeliverStream, Sent, Send, Assert, Free, TakeAccept, TypeOK,
       ChannelStates
  <2>3. ChannelStages'
    BY <1>9 DEF DeliverStream, Sent, Send, TakeAccept, TypeOK, Ops, ChannelStages,
       WorkerStages, TokenCount
  <2>4. LifeStages'
    BY <1>9 DEF DeliverStream, TakeAccept, LifeStages
  <2>5. WorkerStages'
    BY <1>9, NoStreamAssumption DEF DeliverStream, Free, WorkerStages
  <2>6. TokenCount'
    BY <1>9 DEF DeliverStream, TakeAccept, Free, WorkerStages, TokenCount
  <2>7. Places'
    BY <1>9, NoStreamAssumption DEF DeliverStream, Sent, Send, Free, TypeOK, Ops,
       ChannelStages, WorkerStages, TokenCount, Offered, Held, Places
  <2>8. Refusals'
    BY <1>9, NoStreamAssumption DEF DeliverStream, LifeStages, WorkerStages, Refusals
  <2>9. HandshakeAssertsHold'
    BY <1>9 DEF DeliverStream, Assert, WorkerStages, TokenCount, HandshakeAssertsHold
  <2>. QED BY <2>2, <2>3, <2>4, <2>5, <2>6, <2>7, <2>8, <2>9
<1>. QED BY <1>1, <1>2, <1>3, <1>4, <1>5, <1>6, <1>7, <1>8, <1>9 DEF Callback

\* Nor does a completion handler.
LEMMA CompletionStep == ASSUME IInv, NEW o \in Ops, Complete(o) PROVE IInv'
<1> USE DEF IInv, ctx, msquic, seen
<1>1. FlagsTyped'
  BY Zenon DEF TypeOK, FlagsTyped, Complete
<1>2. TypeOK'
  BY <1>1 DEF Complete, Get, TypeOK, ChannelStates, WorkerStages
<1>3. ChannelStages'
  BY DEF Complete, Get, TypeOK, ChannelStages
<1>4. LifeStages'
  BY DEF Complete, LifeStages
<1>5. WorkerStages'
  BY NoStreamAssumption DEF Complete, WorkerStages
<1>6. TokenCount'
  BY DEF Complete, TokenCount
<1>7. Places'
  BY NoStreamAssumption DEF Complete, Get, TypeOK, Offered, Held, Places
<1>8. Refusals'
  BY NoStreamAssumption DEF Complete, TypeOK, Offered, Refusals
<1>9. HandshakeAssertsHold'
  BY DEF Complete, HandshakeAssertsHold
<1>. QED BY <1>2, <1>3, <1>4, <1>5, <1>6, <1>7, <1>8, <1>9

------------------------------------------------------------------------------
\* A new connection satisfies it.
LEMMA Initially == Init => IInv
<1> SUFFICES ASSUME Init PROVE IInv
  OBVIOUS
<1>1. FlagsTyped
  BY Zenon DEF Init, FlagsTyped
<1>2. TypeOK
  <2>1. chan \in [Ops -> ChannelStates]
    BY DEF Init, ChannelStates
  <2>2. op \in [Ops -> {"idle", "waiting"}]
    BY DEF Init
  <2>3. accept_bs_ \in 0 .. 2
    BY DEF Init
  <2>4. refused \in BOOLEAN /\ shut \in BOOLEAN
    BY Zenon DEF Init
  <2>5. worker \in [at : {"free", "unlock", "acquire", "deliver"},
                    stream : Streams \cup {NoStream}]
    BY DEF Init, Free
  <2>6. life \in {"opened", "handshaking", "connected", "closing", "done", "closed"}
    BY DEF Init
  <2>. QED BY <1>1, <2>1, <2>2, <2>3, <2>4, <2>5, <2>6, Zenon DEF Init, TypeOK,
     FlagsTyped, States
<1>3. ChannelStages /\ LifeStages /\ WorkerStages /\ TokenCount
  BY DEF Init, Free, Ops, Flags, ChannelStages, LifeStages, WorkerStages, TokenCount
<1>4. Places /\ Refusals /\ HandshakeAssertsHold
  BY DEF Init, Free, Ops, Places, Offered, Held, Refusals, HandshakeAssertsHold
<1>. QED BY <1>2, <1>3, <1>4 DEF IInv

\* And every step keeps it.
LEMMA Inductive == IInv /\ [Next]_vars => IInv'
<1>1. ASSUME IInv, UNCHANGED vars PROVE IInv'
  BY <1>1 DEF vars, ctx, msquic, seen, IInv, TypeOK, ChannelStages, LifeStages,
     WorkerStages, TokenCount, Places, Refusals, Offered, Held, HandshakeAssertsHold
<1>. QED BY <1>1, UserStep, CallbackStep, CompletionStep DEF Next

\* The inductive invariant of the connection: it holds in every reachable
\* state, for client and server and any set of streams.
THEOREM Invariance == Spec => []IInv
BY Initially, Inductive, PTL DEF Spec

\* Every variable keeps its type; the semaphore never counts past two, the
\* token a refused accept left and that of the next accept.
THEOREM TypeCorrect == Spec => []TypeOK
<1>1. IInv => TypeOK
  BY DEF IInv
<1>. QED BY <1>1, Invariance, PTL

\* The asserts hold in every interleaving, but for those that the runs of
\* NoClientStartAtShutdown and SomeServerAssertHolds refute.
THEOREM AssertsHold == Spec => []HandshakeAssertsHold
<1>1. IInv => HandshakeAssertsHold
  BY DEF IInv
<1>. QED BY <1>1, Invariance, PTL

\* No channel is sent on twice, read early, or replaced under a waiting
\* handler, although PEER_STREAM_STARTED sends without the lock.
THEOREM ChannelDiscipline == Spec => []ChannelsNeverMisused
<1>1. IInv => ChannelsNeverMisused
  BY DEF IInv, ChannelStages, ChannelsNeverMisused
<1>. QED BY <1>1, Invariance, PTL

\* While the connection is up there is one token for each pending accept.
THEOREM Tokens == Spec => []TokenPerAccept
<1>1. IInv => TokenPerAccept
  BY DEF IInv, TypeOK, TokenCount, TokenPerAccept
<1>. QED BY <1>1, Invariance, PTL

\* No stream is lost or handed over twice between the worker, the channel and
\* the user.
THEOREM StreamsKept == Spec => []NoStreamLost
<1>1. IInv => NoStreamLost
  BY DEF IInv, Places, Offered, Held, NoStreamLost
<1>. QED BY <1>1, Invariance, PTL

\* Whoever waits has the value that completes it or SHUTDOWN_COMPLETE to come,
\* but for a client's async_start.
THEOREM NobodyStranded == Spec => []NoWaiterStranded
<1>1. IInv => NoWaiterStranded
  BY DEF IInv, TypeOK, Ops, Flags, ChannelStages, LifeStages, NoWaiterStranded
<1>. QED BY <1>1, Invariance, PTL

\* Whenever a worker is blocked and nobody accepts, async_accept can be called
\* without waiting for the lock: the condition of BlockedWorkerCanBeFreed,
\* stated with the guard of AsyncAccept.
THEOREM BlockedWorkerLeavesTheLock ==
  Spec => [](worker.at = "acquire" /\ op["accept"] = "idle" => MayAccept)
<1>1. IInv => (worker.at = "acquire" /\ op["accept"] = "idle" => MayAccept)
  BY DEF IInv, WorkerStages, MayAccept
<1>. QED BY <1>1, Invariance, PTL

\* And the call is what the worker waits for: a token and a pending accept.
THEOREM AcceptFrees == Spec => AcceptFreesTheWorker
<1>1. ASSUME IInv, worker.at = "acquire", AsyncAccept
      PROVE  accept_bs_' > 0 /\ pending_'.accept
  <2>1. ~AlreadyShut
    BY <1>1 DEF IInv, WorkerStages, LifeStages, AlreadyShut
  <2>2. accept_bs_' > 0
    BY <1>1, <2>1 DEF IInv, TypeOK, AsyncAccept, Release
  <2>3. pending_'.accept
    BY <1>1, <2>1 DEF IInv, TypeOK, Flags, AsyncAccept
  <2>. QED BY <2>2, <2>3
<1>2. IInv /\ [Next]_vars =>
        [worker.at = "acquire" /\ AsyncAccept => accept_bs_' > 0 /\ pending_'.accept]_vars
  BY <1>1
<1>. QED BY <1>2, Invariance, PTL DEF Spec, AcceptFreesTheWorker

------------------------------------------------------------------------------
\* async_accept implements AcceptQueue

\* A new connection is an empty queue.
LEMMA QueueInitially == Init => AQ!Init
BY DEF Init, AQ!Init

\* A handler that gets a stream takes it, one that gets none is refused.
LEMMA QueueTakes == ASSUME IInv, NEW o \in Ops, Complete(o) PROVE [AQ!Next]_AQ!vars
<1>1. CASE o # "accept"
  BY <1>1 DEF Complete, AQ!vars
<1>2. CASE o = "accept" /\ stream = NoStream
  BY <1>2 DEF Complete, IInv, TypeOK, Refusals, AQ!Next, AQ!Refuse
<1>3. CASE o = "accept" /\ stream # NoStream
  <2>1. Offered = {stream}
    BY <1>3 DEF Complete, Offered
  <2>2. stream \in arrived \ taken /\ ~refused
    BY <2>1 DEF IInv, Places, Refusals
  <2>. QED BY <1>3, <2>2 DEF Complete, AQ!Next, AQ!Take, IInv, TypeOK
<1>. QED BY <1>1, <1>2, <1>3

\* Every step of the connection is a step of the queue or leaves it alone.
LEMMA QueueStep == IInv /\ [Next]_vars => [AQ!Next]_AQ!vars
<1>1. ASSUME User PROVE [AQ!Next]_AQ!vars
  BY <1>1 DEF User, AsyncStart, AsyncConnect, AsyncAccept, AsyncShutdown, Close, ctx,
     seen, AQ!vars
<1>2. ASSUME IInv, PEER_STREAM_STARTED PROVE [AQ!Next]_AQ!vars
  BY <1>2 DEF PEER_STREAM_STARTED, IInv, LifeStages, AQ!Next, AQ!Arrive
<1>3. ASSUME \/ SHUTDOWN_INITIATED_BY_TRANSPORT \/ SHUTDOWN_INITIATED_BY_PEER
             \/ SHUTDOWN_COMPLETE
      PROVE  [AQ!Next]_AQ!vars
  BY <1>3 DEF SHUTDOWN_INITIATED_BY_TRANSPORT, SHUTDOWN_INITIATED_BY_PEER,
     SHUTDOWN_COMPLETE, seen, AQ!Next, AQ!Shut
<1>4. ASSUME CONNECTED \/ RESUMED \/ UnlockForAccept \/ AcquireAccept \/ DeliverStream
      PROVE  [AQ!Next]_AQ!vars
  BY <1>4 DEF CONNECTED, RESUMED, UnlockForAccept, AcquireAccept, DeliverStream, ctx,
     seen, AQ!vars
<1>5. ASSUME UNCHANGED vars PROVE [AQ!Next]_AQ!vars
  BY <1>5 DEF vars, ctx, seen, AQ!vars
<1>. QED BY <1>1, <1>2, <1>3, <1>4, <1>5, QueueTakes DEF Next, Callback

\* The connection implements AcceptQueue: each stream to one accept at most, a
\* refusal only after a shutdown event, nothing after a refusal.
THEOREM Refinement == Spec => KeepsAcceptPromise
BY Invariance, QueueInitially, QueueStep, PTL DEF Spec, KeepsAcceptPromise, AQ!Spec

\* What that means for the user: no stream is handed over twice or from nowhere,
\* and none after a refusal.
THEOREM HandedOverOnce ==
  Spec => [][/\ taken \subseteq taken' /\ taken' \ taken \subseteq arrived \ taken
             /\ refused => refused' /\ taken' = taken]_vars
<1>1. ASSUME [AQ!Next]_AQ!vars
      PROVE  /\ taken \subseteq taken' /\ taken' \ taken \subseteq arrived \ taken
             /\ refused => refused' /\ taken' = taken
  BY <1>1 DEF AQ!Next, AQ!Arrive, AQ!Take, AQ!Refuse, AQ!Shut, AQ!vars
<1>2. IInv /\ [Next]_vars =>
        [/\ taken \subseteq taken' /\ taken' \ taken \subseteq arrived \ taken
         /\ refused => refused' /\ taken' = taken]_vars
  BY <1>1, QueueStep
<1>. QED BY <1>2, Invariance, PTL DEF Spec

------------------------------------------------------------------------------
\* Where the asserts and the semaphore go wrong

\* Until an accept has been refused, what is left on the semaphore belongs to
\* the accept that is outstanding.
TokenBelongs ==
  ~refused =>
    IF op["accept"] = "waiting" /\ (chan["accept"] = "open" \/ stream = NoStream)
    THEN accept_bs_ <= 1 ELSE accept_bs_ = 0

\* A start that no shutdown event completed has failed the event's assert.
StartAsserted ==
  pending_["client_start"] /\ life \in {"closing", "done"} =>
    failed \cap {"BY_TRANSPORT", "SHUTDOWN_COMPLETE"} # {}

\* A server's connect has no value before the handshake is over.
ConnectUnanswered ==
  role = "server" /\ life = "handshaking" => chan["conn"] # "sent"

Causes == TokenBelongs /\ StartAsserted /\ ConnectUnanswered

\* Every step keeps the causes.
LEMMA CausesStep == ASSUME IInv, Causes, [Next]_vars PROVE Causes'
<1> USE DEF Causes, ctx, msquic, seen
<1>1. CASE AsyncStart
  BY <1>1 DEF AsyncStart, NewChannel, Sent, IInv, TypeOK, Ops, Flags,
     TokenBelongs, StartAsserted, ConnectUnanswered
<1>2. CASE AsyncConnect
  BY <1>2 DEF AsyncConnect, NewChannel, Create, Sent, AlreadyShut, IInv, TypeOK, Ops, Flags,
     LifeStages, TokenBelongs, StartAsserted, ConnectUnanswered
<1>3. CASE AsyncAccept
  BY <1>3 DEF AsyncAccept, MayAccept, NewChannel, Create, Sent, Release, IInv, TypeOK, Ops,
     Flags, ChannelStages, TokenBelongs, StartAsserted, ConnectUnanswered
<1>4. CASE AsyncShutdown
  BY <1>4 DEF AsyncShutdown, NewChannel, Sent, IInv, TypeOK, Ops, Flags,
     TokenBelongs, StartAsserted, ConnectUnanswered
<1>5. CASE Close
  BY <1>5 DEF Close, TokenBelongs, StartAsserted, ConnectUnanswered
<1>6. ASSUME NEW o \in Ops, Complete(o) PROVE Causes'
  BY <1>6 DEF Complete, Get, IInv, TypeOK, Ops, TokenBelongs, StartAsserted,
     ConnectUnanswered
<1>7. CASE CONNECTED
  BY <1>7 DEF CONNECTED, Sent, IInv, TypeOK, Ops, Flags, TokenBelongs, StartAsserted,
     ConnectUnanswered
<1>8. CASE SHUTDOWN_INITIATED_BY_TRANSPORT
  BY <1>8 DEF SHUTDOWN_INITIATED_BY_TRANSPORT, CompleteAll, WaitsAtShutdown, ClearWaiting,
     Assert, IInv, TypeOK, Ops, Flags, ChannelStages, TokenBelongs, StartAsserted,
     ConnectUnanswered
<1>9. CASE SHUTDOWN_INITIATED_BY_PEER
  BY <1>9 DEF SHUTDOWN_INITIATED_BY_PEER, CompleteAll, WaitsAtShutdown, ClearWaiting,
     IInv, TypeOK, Ops, Flags, ChannelStages, LifeStages, TokenBelongs, StartAsserted,
     ConnectUnanswered
<1>10. CASE SHUTDOWN_COMPLETE
  BY <1>10 DEF SHUTDOWN_COMPLETE, CompleteAll, WaitsAtShutdown, ClearWaiting, Assert,
     IInv, TypeOK, Ops, Flags, ChannelStages, TokenBelongs, StartAsserted,
     ConnectUnanswered
<1>11. CASE RESUMED \/ PEER_STREAM_STARTED \/ UnlockForAccept
  BY <1>11 DEF RESUMED, PEER_STREAM_STARTED, UnlockForAccept, TokenBelongs, StartAsserted,
     ConnectUnanswered
<1>12. CASE AcquireAccept
  BY <1>12 DEF AcquireAccept, Acquire, IInv, TypeOK, TokenBelongs, StartAsserted,
     ConnectUnanswered
<1>13. CASE DeliverStream
  BY <1>13 DEF DeliverStream, Sent, Send, TakeAccept, IInv, TypeOK, Ops, Flags,
     ChannelStages, WorkerStages, TokenCount, TokenBelongs, StartAsserted,
     ConnectUnanswered
<1>14. CASE UNCHANGED vars
  BY <1>14 DEF vars, TokenBelongs, StartAsserted, ConnectUnanswered
<1>. QED BY <1>1, <1>2, <1>3, <1>4, <1>5, <1>6, <1>7, <1>8, <1>9, <1>10, <1>11, <1>12,
            <1>13, <1>14 DEF Next, User, Callback

\* So they hold throughout.
LEMMA CausesHold == Spec => []Causes
<1>1. Init => Causes
  BY DEF Init, Ops, Flags, Causes, TokenBelongs, StartAsserted, ConnectUnanswered
<1>2. IInv /\ Causes /\ [Next]_vars => Causes'
  BY CausesStep
<1>. QED BY <1>1, <1>2, Invariance, PTL DEF Spec

\* The binary semaphore is given a second token only by a user who accepts
\* again after a refusal,
THEOREM SecondTokenNeedsARefusal == Spec => [](accept_bs_ > 1 => refused)
<1>1. IInv /\ Causes => (accept_bs_ > 1 => refused)
  BY DEF IInv, TypeOK, Causes, TokenBelongs
<1>. QED BY <1>1, CausesHold, Invariance, PTL

\* so it stays binary for every user who stops accepting when refused, the
\* server of the test among them.
THEOREM BinaryForWhoStops == Spec /\ [][AsyncAccept => ~refused]_vars => []OneTokenAtMost
<1>1. Init => OneTokenAtMost
  BY DEF Init, OneTokenAtMost
<1>2. ASSUME IInv, IInv', Causes', OneTokenAtMost, [Next]_vars,
             [AsyncAccept => ~refused]_vars
      PROVE  OneTokenAtMost'
  <2>1. CASE AsyncAccept
    <3>1. accept_bs_' > 1 => refused'
      BY <1>2 DEF IInv, TypeOK, Causes, TokenBelongs
    <3>2. refused' = refused /\ op["accept"] = "idle" /\ op'["accept"] = "waiting"
      BY <1>2, <2>1 DEF AsyncAccept, MayAccept, seen, IInv, TypeOK, Ops
    <3>3. vars' # vars
      BY <3>2 DEF vars
    <3>. QED BY <1>2, <2>1, <3>1, <3>2, <3>3 DEF IInv, TypeOK, OneTokenAtMost
  <2>2. CASE ~AsyncAccept
    <3>1. accept_bs_' = accept_bs_ \/ accept_bs_' = accept_bs_ - 1
      BY <1>2, <2>2 DEF Next, User, Callback, vars, ctx, AsyncStart, AsyncConnect,
         AsyncShutdown, Close, Complete, CONNECTED, SHUTDOWN_INITIATED_BY_TRANSPORT,
         SHUTDOWN_INITIATED_BY_PEER, SHUTDOWN_COMPLETE, RESUMED, PEER_STREAM_STARTED,
         UnlockForAccept, AcquireAccept, Acquire, DeliverStream
    <3>. QED BY <1>2, <3>1 DEF IInv, TypeOK, OneTokenAtMost
  <2>. QED BY <2>1, <2>2
<1>. QED BY <1>1, <1>2, CausesHold, Invariance, PTL DEF Spec

\* An operation that no event is left to complete has failed an assert: a build
\* with asserts stops before it waits for nothing.
THEOREM StrandedOnlyAsserted ==
  Spec => [](\A o \in Ops : op[o] = "waiting" /\ chan[o] # "sent" /\ life = "done" =>
               failed \cap {"BY_TRANSPORT", "SHUTDOWN_COMPLETE"} # {})
<1>1. ASSUME IInv, Causes, NEW o \in Ops, op[o] = "waiting", chan[o] # "sent", life = "done"
      PROVE  failed \cap {"BY_TRANSPORT", "SHUTDOWN_COMPLETE"} # {}
  <2>1. NoWaiterStranded
    BY <1>1 DEF IInv, TypeOK, Ops, Flags, ChannelStages, LifeStages, NoWaiterStranded
  <2>2. o = "conn" /\ role = "client" /\ chan["conn"] = "open"
    BY <1>1, <2>1 DEF NoWaiterStranded, IInv, ChannelStages
  <2>3. pending_["client_start"]
    BY <2>2, <1>1 DEF IInv, ChannelStages
  <2>. QED BY <1>1, <2>3 DEF Causes, StartAsserted
<1>2. IInv /\ Causes =>
        \A o \in Ops : op[o] = "waiting" /\ chan[o] # "sent" /\ life = "done" =>
          failed \cap {"BY_TRANSPORT", "SHUTDOWN_COMPLETE"} # {}
  BY <1>1
<1>. QED BY <1>2, CausesHold, Invariance, PTL

\* The asserts fail where the findings say and nowhere else: that of the start
\* while a client's handshake has had no answer, that of CONNECTED before the
\* server's user has called async_connect, that of RESUMED before CONNECTED.
THEOREM AssertsFailOnlyThere ==
  Spec => [][/\ (failed' \ failed) \cap {"BY_TRANSPORT", "SHUTDOWN_COMPLETE"} # {} =>
                  /\ role = "client" /\ op["conn"] = "waiting"
                  /\ life \in {"handshaking", "closing"}
             /\ "CONNECTED" \in failed' \ failed =>
                  role = "server" /\ op["conn"] = "idle"
             /\ "RESUMED" \in failed' \ failed =>
                  role = "server" /\ life = "handshaking" /\ state_ = "ok"]_vars
<1> DEFINE New(names) == (failed' \ failed) \cap names # {}
<1>1. ASSUME IInv, Causes, [Next]_vars, New({"BY_TRANSPORT", "SHUTDOWN_COMPLETE"})
      PROVE  /\ role = "client" /\ op["conn"] = "waiting"
             /\ life \in {"handshaking", "closing"}
  <2>1. SHUTDOWN_INITIATED_BY_TRANSPORT \/ SHUTDOWN_COMPLETE
    BY <1>1 DEF Next, User, Callback, vars, AsyncStart, AsyncConnect, AsyncAccept,
       AsyncShutdown, Close, Complete, CONNECTED, SHUTDOWN_INITIATED_BY_PEER,
       RESUMED, PEER_STREAM_STARTED, UnlockForAccept, AcquireAccept, DeliverStream, Assert
  <2>2. pending_["client_start"] /\ life \in {"handshaking", "connected", "closing"}
    BY <1>1, <2>1 DEF SHUTDOWN_INITIATED_BY_TRANSPORT, SHUTDOWN_COMPLETE, Assert
  <2>. QED BY <1>1, <2>2 DEF IInv, Ops, ChannelStages, LifeStages
<1>2. ASSUME IInv, Causes, [Next]_vars, New({"CONNECTED"})
      PROVE  role = "server" /\ op["conn"] = "idle"
  <2>1. CONNECTED
    BY <1>2 DEF Next, User, Callback, vars, AsyncStart, AsyncConnect, AsyncAccept,
       AsyncShutdown, Close, Complete, SHUTDOWN_INITIATED_BY_TRANSPORT,
       SHUTDOWN_INITIATED_BY_PEER, SHUTDOWN_COMPLETE, RESUMED, PEER_STREAM_STARTED,
       UnlockForAccept, AcquireAccept, DeliverStream, Assert
  <2>2. ~pending_["client_start"] /\ ~pending_["server_connect"] /\ life = "handshaking"
    BY <1>2, <2>1 DEF CONNECTED, Assert
  <2>. QED BY <1>2, <2>2 DEF IInv, TypeOK, Ops, ChannelStages, LifeStages, Causes,
           ConnectUnanswered
<1>3. ASSUME IInv, [Next]_vars, New({"RESUMED"})
      PROVE  role = "server" /\ life = "handshaking" /\ state_ = "ok"
  <2>1. RESUMED
    BY <1>3 DEF Next, User, Callback, vars, AsyncStart, AsyncConnect, AsyncAccept,
       AsyncShutdown, Close, Complete, CONNECTED, SHUTDOWN_INITIATED_BY_TRANSPORT,
       SHUTDOWN_INITIATED_BY_PEER, SHUTDOWN_COMPLETE, PEER_STREAM_STARTED,
       UnlockForAccept, AcquireAccept, DeliverStream, Assert
  <2>. QED BY <1>3, <2>1 DEF RESUMED, IInv, LifeStages
<1>4. IInv /\ Causes /\ [Next]_vars =>
        [/\ (failed' \ failed) \cap {"BY_TRANSPORT", "SHUTDOWN_COMPLETE"} # {} =>
              /\ role = "client" /\ op["conn"] = "waiting"
              /\ life \in {"handshaking", "closing"}
         /\ "CONNECTED" \in failed' \ failed =>
              role = "server" /\ op["conn"] = "idle"
         /\ "RESUMED" \in failed' \ failed =>
              role = "server" /\ life = "handshaking" /\ state_ = "ok"]_vars
  BY <1>1, <1>2, <1>3
<1>. QED BY <1>4, CausesHold, Invariance, PTL DEF Spec

==============================================================================
