-------------------------- MODULE ConnectionHandle --------------------------
(***************************************************************************)
(* basic_connection_handle and its callback (basic_connection_handle.hpp), *)
(* for the client and for the server.                                      *)
(*                                                                         *)
(* msquic runs the callback on one worker at a time per connection.  The   *)
(* callback and the user's calls hold mtx_, so each is one step, except    *)
(* PEER_STREAM_STARTED: it unlocks, blocks its worker on accept_bs_ until  *)
(* an async_accept releases it, and goes on without the lock, so it is     *)
(* four steps, and mtx_ shows across which of them it keeps the lock.      *)
(* async_start does not lock, but no event precedes its ConnectionStart    *)
(* and none touches what it does afterwards: one step.                     *)
(* The user drives the connection from one logical thread and does not     *)
(* start an operation that is outstanding.  A failed assert is recorded in *)
(* failed and execution goes on, as in a build with NDEBUG.                *)
(***************************************************************************)
EXTENDS Naturals, Oneshot

CONSTANTS Streams,    \* streams the peer may start
          NoStream    \* a handle that holds no stream

ASSUME NoStreamAssumption == NoStream \notin Streams

Ops == {"conn", "accept", "shutdown"}
Flags == {"client_start", "server_connect", "accept", "shutdown"}
States == {"ok", "peer_shutdown", "transport_shutdown", "shutdown_complete"}

VARIABLES
  state_,    \* the context's view of the connection
  pending_,  \* pending_actions
  mtx_,      \* the context's lock: free, or held from step to step
  accept_bs_,\* tokens of the binary semaphore
  chan,      \* the one-shot channel of each operation
  stream,    \* the stream in the accept channel
  op,        \* per operation: no call, or async_wait outstanding
  role,      \* msquic: which side this is
  life,      \* msquic: where the connection is in its life
  shut,      \* msquic: a ConnectionShutdown is queued
  worker,    \* msquic: what its worker is inside of, and with which stream
  arrived,   \* history: streams the peer has started
  taken,     \* history: streams handed to an accept's handler
  refused,   \* history: an accept was handed no stream
  failed     \* history: the asserts that did not hold

ctx == <<state_, pending_, mtx_, accept_bs_, chan, stream>>
msquic == <<role, life, shut, worker>>
seen == <<arrived, taken, refused>>
vars == <<ctx, op, msquic, seen, failed>>

Free == [at |-> "free", stream |-> NoStream]

\* A client's connection was opened.  A server's comes from the listener,
\* whose callback has set the configuration its handshake needs.
Init == /\ state_ = "ok"
        /\ pending_ = [f \in Flags |-> FALSE]
        /\ mtx_ = "free"
        /\ accept_bs_ = 0
        /\ chan = [o \in Ops |-> "none"]
        /\ stream = NoStream
        /\ op = [o \in Ops |-> "idle"]
        /\ role \in {"client", "server"}
        /\ life = IF role = "client" THEN "opened" ELSE "handshaking"
        /\ shut = FALSE
        /\ worker = Free
        /\ arrived = {} /\ taken = {} /\ refused = FALSE
        /\ failed = {}

------------------------------------------------------------------------------
\* Helpers

Assert(name, holds) == IF holds THEN {} ELSE {name}

NewChannel(o) == [chan EXCEPT ![o] = Create(@, op[o] = "waiting")]
Sent(c, o) == [c EXCEPT ![o] = Send(@)]

\* Slips of the code, for checking that the properties notice them.
KeepToken(tokens) == tokens
NoRelease(tokens) == tokens
KeepAccept(p) == p
NeverShut == FALSE
RefuseAfterAnyEvent == life # "opened"
AcceptAlwaysWaits == (IF pending_.server_connect THEN {"conn"} ELSE {})
                     \cup (IF op["accept"] = "waiting" THEN {"accept"} ELSE {})
OnlyConnectWaits == IF pending_.server_connect THEN {"conn"} ELSE {}
ClearShutdown(p) == [p EXCEPT !.shutdown = FALSE]
KeepLock == "held"

\* accept_bs_
Release(tokens) == tokens + 1
Acquire(tokens) == tokens - 1

\* mtx_ while the callback waits for the user
LockWhileWaiting == "free"

AlreadyShut == state_ = "shutdown_complete"
TakeAccept(p) == [p EXCEPT !.accept = FALSE]

\* The operations every shutdown event completes, and their flags.
WaitsAtShutdown == (IF pending_.server_connect THEN {"conn"} ELSE {})
                   \cup (IF pending_.accept THEN {"accept"} ELSE {})
ClearWaiting(p) == [p EXCEPT !.server_connect = FALSE, !.accept = FALSE]

\* "cleanup pending actions"
CompleteAll(ops) ==
  /\ chan' = [o \in Ops |-> IF o \in ops THEN Send(chan[o]) ELSE chan[o]]
  /\ stream' = IF "accept" \in ops THEN NoStream ELSE stream

------------------------------------------------------------------------------
\* The user's calls

\* ConnectionStart may fail, then the channel gets its error at once.
AsyncStart ==
  /\ role = "client" /\ life = "opened" /\ op["conn"] = "idle"
  /\ op' = [op EXCEPT !["conn"] = "waiting"]
  /\ failed' = failed \cup Assert("async_start", ~pending_.client_start)
  /\ \/ /\ chan' = NewChannel("conn")
        /\ pending_' = [pending_ EXCEPT !.client_start = TRUE]
        /\ life' = "handshaking"
     \/ /\ chan' = Sent(NewChannel("conn"), "conn")
        /\ UNCHANGED <<pending_, life>>
  /\ UNCHANGED <<state_, mtx_, accept_bs_, stream, role, shut, worker, seen>>

AsyncConnect ==
  /\ role = "server" /\ life # "closed" /\ op["conn"] = "idle" /\ mtx_ = "free"
  /\ op' = [op EXCEPT !["conn"] = "waiting"]
  /\ failed' = failed \cup Assert("async_connect", ~pending_.server_connect)
  /\ IF AlreadyShut
     THEN /\ chan' = Sent(NewChannel("conn"), "conn")
          /\ UNCHANGED pending_
     ELSE /\ chan' = NewChannel("conn")
          /\ pending_' = [pending_ EXCEPT !.server_connect = TRUE]
  /\ UNCHANGED <<state_, mtx_, accept_bs_, stream, msquic, seen>>

\* async_accept can be called and does not wait for the lock.
MayAccept == life \notin {"opened", "closed"} /\ op["accept"] = "idle" /\ mtx_ = "free"

AsyncAccept ==
  /\ MayAccept
  /\ op' = [op EXCEPT !["accept"] = "waiting"]
  /\ failed' = failed \cup Assert("async_accept", ~pending_.accept)
  /\ IF AlreadyShut
     THEN /\ chan' = Sent(NewChannel("accept"), "accept")
          /\ stream' = NoStream
          /\ UNCHANGED <<pending_, accept_bs_>>
     ELSE /\ chan' = NewChannel("accept")
          /\ pending_' = [pending_ EXCEPT !.accept = TRUE]
          /\ accept_bs_' = Release(accept_bs_)
          /\ UNCHANGED stream
  /\ UNCHANGED <<state_, mtx_, msquic, seen>>

\* ConnectionShutdown only queues its work for the worker.
AsyncShutdown ==
  /\ life \notin {"opened", "closed"} /\ op["shutdown"] = "idle" /\ mtx_ = "free"
  /\ op' = [op EXCEPT !["shutdown"] = "waiting"]
  /\ IF AlreadyShut
     THEN /\ chan' = Sent(NewChannel("shutdown"), "shutdown")
          /\ UNCHANGED <<pending_, shut>>
     ELSE /\ chan' = NewChannel("shutdown")
          /\ pending_' = [pending_ EXCEPT !.shutdown = TRUE]
          /\ shut' = TRUE
  /\ UNCHANGED <<state_, mtx_, accept_bs_, stream, role, life, worker, seen, failed>>

\* close() and the destructor: the handlers capture this, so no operation is
\* outstanding; ConnectionClose waits for the worker and ends the events.
Close ==
  /\ life # "closed"
  /\ \A o \in Ops : op[o] = "idle"
  /\ worker = Free
  /\ life' = "closed"
  /\ UNCHANGED <<ctx, op, role, shut, worker, seen, failed>>

\* The completion handlers, run by the executor: get, then the user's handler.
Complete(o) ==
  /\ op[o] = "waiting" /\ chan[o] = "sent"
  /\ chan' = [chan EXCEPT ![o] = Get(@)]
  /\ op' = [op EXCEPT ![o] = "idle"]
  /\ UNCHANGED <<state_, pending_, mtx_, accept_bs_, stream, msquic, arrived, failed>>
  /\ IF o = "accept"
     THEN /\ taken' = taken \cup ({stream} \ {NoStream})
          /\ refused' = (refused \/ stream = NoStream)
     ELSE UNCHANGED <<taken, refused>>

------------------------------------------------------------------------------
\* AsioMsQuicConnectionCallback, one action per event

CONNECTED ==
  /\ worker = Free /\ life = "handshaking"
  /\ life' = "connected"
  /\ failed' = failed
       \cup Assert("CONNECTED", pending_.client_start \/ pending_.server_connect)
       \cup Assert("CONNECTED_both", ~(pending_.client_start /\ pending_.server_connect))
  /\ pending_' = [pending_ EXCEPT !.client_start = FALSE, !.server_connect = FALSE]
  /\ chan' = IF pending_.client_start \/ pending_.server_connect
             THEN Sent(chan, "conn") ELSE chan
  /\ UNCHANGED <<state_, mtx_, accept_bs_, stream, op, role, shut, worker, seen>>

\* The idle timeout, an error, or the peer's refusal of the handshake.
SHUTDOWN_INITIATED_BY_TRANSPORT ==
  /\ worker = Free /\ life \in {"handshaking", "connected"}
  /\ life' = "closing"
  /\ state_' = "transport_shutdown"
  /\ failed' = failed \cup Assert("BY_TRANSPORT", ~pending_.client_start)
  /\ CompleteAll(WaitsAtShutdown)
  /\ pending_' = ClearWaiting(pending_)
  /\ UNCHANGED <<mtx_, accept_bs_, op, role, shut, worker, seen>>

SHUTDOWN_INITIATED_BY_PEER ==
  /\ worker = Free /\ life = "connected"
  /\ life' = "closing"
  /\ state_' = "peer_shutdown"
  /\ failed' = failed \cup Assert("BY_PEER", ~pending_.client_start)
  /\ CompleteAll(WaitsAtShutdown)
  /\ pending_' = ClearWaiting(pending_)
  /\ UNCHANGED <<mtx_, accept_bs_, op, role, shut, worker, seen>>

SHUTDOWN_COMPLETE ==
  /\ worker = Free
  /\ \/ life = "closing"
     \/ shut /\ life \in {"handshaking", "connected"}
  /\ life' = "done"
  /\ state_' = "shutdown_complete"
  /\ failed' = failed \cup Assert("SHUTDOWN_COMPLETE", ~pending_.client_start)
  /\ CompleteAll(WaitsAtShutdown
                 \cup (IF pending_.shutdown THEN {"shutdown"} ELSE {}))
  /\ pending_' = [ClearWaiting(pending_) EXCEPT !.shutdown = FALSE]
  /\ UNCHANGED <<mtx_, accept_bs_, op, role, shut, worker, seen>>

\* The client resumed a session with a ticket of this server: "not supported".
RESUMED ==
  /\ worker = Free /\ role = "server" /\ life = "handshaking"
  /\ failed' = failed \cup Assert("RESUMED", FALSE)
  /\ UNCHANGED <<ctx, op, msquic, seen>>

PEER_STREAM_STARTED ==
  /\ worker = Free /\ life = "connected"
  /\ mtx_' = "held"
  /\ \E s \in Streams \ arrived :
       /\ worker' = [at |-> "unlock", stream |-> s]
       /\ arrived' = arrived \cup {s}
  /\ UNCHANGED <<state_, pending_, accept_bs_, chan, stream, op, role, life, shut,
                 taken, refused, failed>>

\* "let frontend proceed"
UnlockForAccept ==
  /\ worker.at = "unlock"
  /\ mtx_' = LockWhileWaiting
  /\ worker' = [worker EXCEPT !.at = "acquire"]
  /\ UNCHANGED <<state_, pending_, accept_bs_, chan, stream, op, role, life, shut, seen, failed>>

AcquireAccept ==
  /\ worker.at = "acquire" /\ accept_bs_ > 0
  /\ accept_bs_' = Acquire(accept_bs_)
  /\ worker' = [worker EXCEPT !.at = "deliver"]
  /\ UNCHANGED <<state_, pending_, mtx_, chan, stream, op, role, life, shut, seen, failed>>

DeliverStream ==
  /\ worker.at = "deliver"
  /\ worker' = Free
  /\ mtx_' = "free"
  /\ failed' = failed \cup Assert("PEER_STREAM_STARTED", pending_.accept)
  /\ pending_' = TakeAccept(pending_)
  /\ chan' = Sent(chan, "accept")
  /\ stream' = worker.stream
  /\ UNCHANGED <<state_, accept_bs_, op, role, life, shut, seen>>

------------------------------------------------------------------------------
User == \/ AsyncStart \/ AsyncConnect \/ AsyncAccept
        \/ AsyncShutdown \/ Close

Callback == \/ CONNECTED \/ SHUTDOWN_INITIATED_BY_TRANSPORT
            \/ SHUTDOWN_INITIATED_BY_PEER \/ SHUTDOWN_COMPLETE
            \/ RESUMED \/ PEER_STREAM_STARTED \/ UnlockForAccept
            \/ AcquireAccept \/ DeliverStream

Next == User \/ Callback \/ \E o \in Ops : Complete(o)

Spec == Init /\ [][Next]_vars

(***************************************************************************)
(* The executor runs ready handlers, the worker goes on when it can, and   *)
(* msquic brings a connection that closes to SHUTDOWN_COMPLETE.  Nothing   *)
(* obliges the user to call or the peer to do anything.                    *)
(***************************************************************************)
Fairness == /\ \A o \in Ops : WF_vars(Complete(o))
            /\ WF_vars(UnlockForAccept)
            /\ WF_vars(AcquireAccept)
            /\ WF_vars(DeliverStream)
            /\ WF_vars(SHUTDOWN_COMPLETE)

FairSpec == Spec /\ Fairness

------------------------------------------------------------------------------
\* Properties

TypeOK ==
  /\ state_ \in States
  /\ pending_ \in [Flags -> BOOLEAN]
  /\ mtx_ \in {"free", "held"}
  /\ accept_bs_ \in 0 .. 2
  /\ chan \in [Ops -> ChannelStates]
  /\ stream \in Streams \cup {NoStream}
  /\ op \in [Ops -> {"idle", "waiting"}]
  /\ role \in {"client", "server"}
  /\ life \in {"opened", "handshaking", "connected", "closing", "done", "closed"}
  /\ shut \in BOOLEAN
  /\ worker \in [at : {"free", "unlock", "acquire", "deliver"}, stream : Streams \cup {NoStream}]
  /\ arrived \subseteq Streams /\ taken \subseteq Streams
  /\ refused \in BOOLEAN
  /\ failed \subseteq {"async_start", "async_connect", "async_accept", "CONNECTED",
                       "CONNECTED_both", "BY_TRANSPORT", "BY_PEER",
                       "SHUTDOWN_COMPLETE", "RESUMED", "PEER_STREAM_STARTED"}

\* The asserts hold, but for those that NoClientStartAtShutdown and
\* SomeServerAssertHolds show to fail: that no start of a client is pending
\* when its connection closes, that a server's connect waits when the handshake
\* is done, and that no client resumes a session.
HandshakeAssertsHold ==
  failed \subseteq IF role = "client" THEN {"BY_TRANSPORT", "SHUTDOWN_COMPLETE"}
                                     ELSE {"CONNECTED", "RESUMED"}

\* No sender is used twice or before it exists, no value is read before it is
\* sent, and no new channel drops an unread value or cuts off a waiting
\* handler; PEER_STREAM_STARTED sends without the lock.
ChannelsNeverMisused == \A o \in Ops : chan[o] # "misused"

\* While the connection is up there is one token for each pending accept, on
\* the semaphore or with the worker that acquired it: a worker never blocks
\* beside a pending accept and never delivers without one.
TokenPerAccept ==
  life \in {"opened", "handshaking", "connected"} =>
    accept_bs_ + (IF worker.at = "deliver" THEN 1 ELSE 0)
      = IF pending_.accept THEN 1 ELSE 0

\* A stream the peer started is with the worker, in the channel or with the
\* user, and in one of them only.
NoStreamLost ==
  LET offered == IF chan["accept"] = "sent" THEN {stream} \ {NoStream} ELSE {}
      held == {worker.stream} \ {NoStream}
  IN /\ arrived = taken \cup offered \cup held
     /\ taken \cap offered = {} /\ taken \cap held = {} /\ offered \cap held = {}

\* Whoever waits has the value that completes it, or SHUTDOWN_COMPLETE, which
\* completes everything, is still to come, and was asked for by whoever waits
\* for a shutdown: the client's async_start excepted.
NoWaiterStranded ==
  \A o \in Ops : op[o] = "waiting" =>
    \/ chan[o] = "sent"
    \/ life \in {"handshaking", "connected", "closing"} /\ (o = "shutdown" => shut)
    \/ life = "done" /\ role = "client" /\ o = "conn"

\* A worker that blocks for an accept has left the user a way in: whenever
\* nobody accepts, async_accept can be called, mtx_ and the channel permitting.
BlockedWorkerCanBeFreed ==
  worker.at = "acquire" /\ op["accept"] = "idle" => ENABLED AsyncAccept

\* And a call then lets it go on: it adds the token the worker waits for and
\* leaves the accept pending that the worker delivers to; it is never refused.
AcceptFreesTheWorker ==
  [][worker.at = "acquire" /\ AsyncAccept => accept_bs_' > 0 /\ pending_'.accept]_vars

\* async_accept keeps the promise of AcceptQueue.
AQ == INSTANCE AcceptQueue WITH closed <- state_ # "ok"
KeepsAcceptPromise == AQ!Spec

\* An accept frees the worker that waits for it; a shutdown completes unless
\* the worker is blocked on a stream nobody accepts; and a connection that
\* closes completes an accept.
OperationsComplete ==
  /\ pending_.accept /\ worker # Free ~> worker = Free
  /\ op["shutdown"] = "waiting" ~> \/ op["shutdown"] = "idle"
                                   \/ worker # Free /\ ~pending_.accept
  /\ op["accept"] = "waiting" /\ life = "closing" ~> op["accept"] = "idle"

\* basic_connection_handle.hpp:140-143: "client start should be handled
\* differently before because it is init by frontend" and
\* assert(!pending_.client_start) at every shutdown event.
NoClientStartAtShutdown == failed \cap {"BY_TRANSPORT", "SHUTDOWN_COMPLETE"} = {}

\* Two asserts on a server's handshake: basic_connection_handle.hpp:101-103,
\* that the user waits for CONNECTED, and :223-224, "not supported" and
\* assert(false), that no client resumes a session.  One of them holds; a
\* violation is a behaviour in which neither does.
ServerAsserts == {"CONNECTED", "RESUMED"}
SomeServerAssertHolds == ~(ServerAsserts \subseteq failed)

\* basic_connection_handle.hpp:57-58: "accept can only do one at a time", a
\* binary semaphore: release() must find no token.
OneTokenAtMost == accept_bs_ <= 1

==============================================================================
