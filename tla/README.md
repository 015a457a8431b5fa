# A TLA+ verification of msquic-asio

msquic-asio puts MsQuic, whose library threads call callbacks, behind Asio
operations that the user starts and awaits. What is hard in it is the hand-over
between the two: a user's call and a callback of msquic meet in one context
object, in either order, and exactly one of them must complete the operation.
This directory models that hand-over for streams, connections and listeners,
who owns the handles, and the server that the test builds from them; checks the
models with TLC; and proves the safety of each handle, and of the server, with
TLAPS.

All paths below are relative to the repository; `include/` stands for
`include/boost/msquic/`.

## Inventory

| Component | Code | State | Operations | Modelled in |
|---|---|---|---|---|
| stream handle | `include/basic_stream_handle.hpp` | `AsioServerStreamCtx`: `state_`, `pending_`, four one-shot channels, `mtx_` | `open`, `set_callback`, `async_start`, `async_send`, `async_receive`, `receive_complete`, `async_shutdown`, `close`; callback events START_COMPLETE, SEND_COMPLETE, RECEIVE, PEER_SEND_SHUTDOWN, PEER_SEND_ABORTED, SHUTDOWN_COMPLETE | `StreamHandle` |
| receive copy loop | `include/basic_stream_handle.hpp:414-436` | the user's buffer, `remaining`, `copied` | copy the buffers of one RECEIVE event, acknowledge | `ReceiveCopy` |
| connection handle | `include/basic_connection_handle.hpp` | `AsioServerConnectionCtx`: `state_`, `pending_`, `accept_bs_` (binary semaphore), three channels, `mtx_` | `async_start` (client), `async_connect` (server), `async_accept`, `async_shutdown`, `close`, `send_resumption_ticket`; events CONNECTED, SHUTDOWN_INITIATED_BY_TRANSPORT, SHUTDOWN_INITIATED_BY_PEER, SHUTDOWN_COMPLETE, PEER_STREAM_STARTED, RESUMED | `ConnectionHandle` |
| listener handle | `include/basic_listener_handle.hpp` | `AsioServerListenerCtx`: `state_`, `pending_`, `accept_bs_`, two channels, `mtx_` | `start`, `async_accept`, `async_stop`, `close`; events NEW_CONNECTION, STOP_COMPLETE | `ListenerHandle` |
| one-shot channel | `<oneshot.hpp>`, not in the repository | one value, at most one receiver | `create`, `send`, `async_wait`, `get` | `Oneshot` (external) |
| handle ownership | `include/basic_quic_handle.hpp` and the moves, `open`, `set_callback`, `close` and destructors of the handles | the native handle `h_`, the context pointer `ctx_`, per object | construct, `open`, `assign`, `release`, move, `close`, destroy; the accepting callback's local object | `QuicHandle` |
| configuration, registration | `include/basic_config_handle.hpp`, `basic_registration_handle.hpp` | one msquic object each | `open`, `close`; `load_cred`, `load_cred2` | `QuicHandle` (open and close) |
| server session | `tests/msquic_test.cpp:205-345`, `tests/test_helper.hpp:61-87` | the accept loop, a coroutine per connection, main | accept, connect, receive, send, shutdown, destructors; stop, wait, drain | `ServerSession` |
| api table | `include/msquic_api.hpp` | the library's function table | load, free | no: two calls |
| event | `include/event.hpp`, `include/posix_descriptor.hpp` | an eventfd | `set`, `reset`, `wait` | no: one system call each, and no handle uses it |
| sample | `example/sample.c`, `example/inline.c` | | | no: MsQuic's own C sample, uses no handle |

How they interact: the listener's NEW_CONNECTION callback makes a connection
handle, registers its callback and sets its configuration, and sends it over
the accept channel; a connection's PEER_STREAM_STARTED does the same with a
stream. On the way the native handle goes through three objects, the callback's
local one, the channel's and the user's, while msquic keeps the address of the
one context that moves along. Every asynchronous operation makes a channel and sets its flag in
`pending_`; the callback that completes it clears the flag and sends. The two
sides share the context under `mtx_`, but not everywhere: `async_start` and
`async_send` do not lock, and both accept callbacks unlock before they block on
the semaphore that `async_accept` releases.

Hard behaviours, and what makes each component correct:

* **Stream.** User and RECEIVE race for who makes the receive channel; partial
  reads leave a rest that must come again; the end of the peer's direction may
  overtake data that waits; nothing comes after SHUTDOWN_COMPLETE. Correct is:
  bytes once and in order, a clean end only after the last byte, no operation
  left waiting, no channel used twice.
* **Connection.** The only worker of a connection blocks in a callback until
  the user accepts. Correct is: a token for each pending accept and no other,
  every stream handed to exactly one accept, and every shutdown event leaves no
  waiter behind.
* **Listener.** Several callbacks wait for one token, while another thread
  stops the listener and waits for all of them. Correct is: as above, and the
  stop completes as long as somebody accepts.
* **Ownership.** A handle is half-made between `assign`, `set_callback` and
  `send`; objects are moved, closed and destroyed in any order. Correct is: one
  owner for each open handle, closed once, nothing leaked, and the context that
  msquic calls back with is the owner's.
* **Session.** The coroutine may be at any await when a check fails, the client
  falls silent or main stops the listener. Correct is: stream before connection,
  every session ends, and the stopped server runs out of work.
* **Copy loop.** Sizes below, at and above the room, several buffers, empty
  buffers. Correct is: the user's buffer holds the acknowledged bytes in order.

`PROJECT.json` lists the hazards line by line, with the properties that cover
each.

## Plan

1. *Done.* `Oneshot`, then `StreamHandle` against the abstract `ByteStream`, the
   most important behaviour of the library, with the proof of its safety.
2. *Done.* `ConnectionHandle` and `ListenerHandle` against the abstract
   `AcceptQueue`; `ReceiveCopy`.
3. *Done.* `QuicHandle`: ownership of a native handle and a context through
   `assign`, `release`, moves and `close`.
4. *Done.* `ServerSession`: composition of listener, one connection and one stream
   as `tests/msquic_test.cpp` drives them, for what only shows across components.
5. *Done.* Proofs: the inductive invariants of the stream, connection and listener
   handles, of the ownership and of the copy loop; that stream, connection and
   listener implement their abstract specifications.
6. *Done.* Proofs of the session: that it uses each handle as the handle's
   specification allows, so that what is proved of a handle holds there too; then the
   session's own safety.
7. *Done.* What the violations leave open, as theorems: that each has no cause but the
   one it shows, and that a session hangs in the two ways of `StuckForGood` only.
8. *Left.* A listener that is restarted, once the code says what that means; the
   client of the test as a session of its own.

## Modules

| Module | What it is |
|---|---|
| `Oneshot` | operators on the state of one channel: `none`, `open`, `sent`, `taken`, and `misused` for a call the channel has no answer to |
| `ByteStream` | abstract: what the reading side of a stream promises |
| `AcceptQueue` | abstract: what an accept promises, for streams and connections |
| `StreamHandle`, `ConnectionHandle`, `ListenerHandle` | one per handle: the context, the user's calls, the completion handlers, the callback |
| `ReceiveCopy` | the loop that copies one RECEIVE event |
| `QuicHandle` | the wrappers' `h_` and `ctx_`, what msquic has open, and the callback that accepts |
| `ServerSession` | composes `ListenerHandle`, `ConnectionHandle` and `StreamHandle` under the test's coroutines and main thread |
| `StreamHandleProofs`, `ConnectionHandleProofs`, `ListenerHandleProofs`, `QuicHandleProofs`, `ReceiveCopyProofs`, `ServerSessionProofs` | the inductive invariant of the module, its proof and its corollaries |
| `MC...` | bounds for TLC |

Variables keep the names of the code where it has them (`state_`, `pending_`,
`accept_bs_`; `chan[o]` is the pair `<o>_tx_`, `<o>_rx_`). What lies outside the
code is in variables marked `msquic:` (what the library has accepted and still
owes) and `history:` (what the user has been given; asserts that failed). `op`
says per operation whether msquic was called, an `async_wait` is outstanding, or its
handler runs.

**Steps.** A region that holds `mtx_` from beginning to end is one step. Where the code
does not lock, the steps are apart, so that the callback runs between any two:
`AsyncStart`/`StreamStart`/`AsyncWait` and `AsyncSend`/`StreamSend`/`AsyncWait` (flag
and channel; the call of msquic; `async_wait`). The calls that lock until they return
attach `async_wait` in the same step. A token that attaches it only when it is awaited
does so later, to a channel that keeps its value; no event depends on it. Where it
locks, unlocks and goes on, the lock is a variable (`mtx_`, in `ConnectionHandle` and
`ListenerHandle`) and the unlock a step of its own:
`PEER_STREAM_STARTED`/`UnlockForAccept`/`AcquireAccept`/`DeliverStream`;
`NEW_CONNECTION`/`UnlockForAccept`/`AcquireAccept`/`DeliverConnection`;
`AsyncStop`/`UnlockForStop`/`ListenerStop`/`ListenerStopped`. Every step that takes
`mtx_` needs it free. The receive handler is two steps, `ReceiveGet` (get and copy) and
`ReceiveComplete`, since msquic runs meanwhile.

**Asserts.** A failed assert adds its name to `failed` and the code goes on, as
with `NDEBUG`. This lets one run check the asserts that hold and others show the
ones that do not.

**What is assumed of msquic and of the user.** msquic: START_COMPLETE, SEND_COMPLETE and
SHUTDOWN_COMPLETE come once; a connection's callbacks run one at a time; no event comes
after a close; STOP_COMPLETE waits for the listener's running callbacks. Whether msquic
indicates the rest after a partial `StreamReceiveComplete` is open: the comment at
`include/basic_stream_handle.hpp:434` takes it to ("inform msquic to receive next"),
while MsQuic's documentation asks for a `StreamReceiveSetEnabled`, which the code never
calls. `ReceiveComplete` therefore may leave msquic `paused`, and `NoWaiterStranded`
excepts, by the name `WaitsForTheRest`, the user who reads on in that state: nobody
promises that user anything but the end of the stream. User: one logical thread per
handle (the listener's stop apart), no operation started while the same one is
outstanding, no close or move while an operation is outstanding (the handlers capture
`this`). A RECEIVE carries at least one byte (one that is empty and only carries the FIN
is left out: PEER_SEND_SHUTDOWN stands for the end); RESUMED may come during a server's
handshake, which then goes on; a `close` waits for the callback that runs on the handle.
In `QuicHandle` a wrapper is opened only when it is closed, whether or not it has a
context, and msquic's rule that children are closed before their parents is left to the
user: what is checked is who owns what, not in which order registrations and connections
go.

**The session.** `ServerSession` adds to the three handles only who calls them when. One
thread runs the `io_context`; a close that blocks blocks it, until main helps
(`tests/msquic_test.cpp:344`). The handler of `async_stop` is bound to no executor and
runs where msquic completes it. A check of the test that fails throws out of the
coroutine: its wrappers are destroyed, the stream's before the connection's. What ties
the handles together is msquic's: the handshake waits for the configuration that
NEW_CONNECTION sets, one worker per connection runs the callbacks of its streams, the
streams end before the connection does. The coroutine's one receive (123 bytes,
`tests/msquic_test.cpp:259`) is taken to have room for all the client sends, which is 5
bytes in the test. A `send_resumption_ticket` that fails on a healthy connection is not
modelled, and main stops the listener at any time, not only after the client is done.

**Abstracted.** Bytes are counted, and in `ReceiveCopy` numbered; what is sent is
not modelled, only that a send is in flight. Error codes are kept as far as the
user can tell them apart: clean end, `connection_aborted`, `broken_pipe`.
`StreamHandle` uses the length that `ReceiveCopy` shows the copy loop to return.
The user's room for a receive is any size from 0 to the bound. A shutdown of a
stream is one that ends both directions; flags that end only one are not told
apart.

## Runs

| Run | Module | Bounds | Shows |
|---|---|---|---|
| `stream` | `MCStreamHandle` | 3 bytes from the peer | asserts of the hand-over, channel discipline, who waits has something to wait for but for the rest of a partial read, bytes in order, refinement of `ByteStream`, completion of operations |
| `connection` | `MCConnectionHandle` | 3 streams | the same hand-over properties, one token per accept, no stream lost, a blocked worker can be freed and an accept frees it, refinement of `AcceptQueue`, completion |
| `listener` | `MCListenerHandle` | 3 connections | the same for the listener, with concurrent callbacks; lock, semaphore and stop never all wait for each other, and a stop completes |
| `receive_copy` | `MCReceiveCopy` | up to 3 buffers of up to 3 bytes, room of 0 to 3 | the copy stays inside the buffer and acknowledges what fits; one buffer arrives in order |
| `quic_handle` | `MCQuicHandle` | 4 objects, 3 handles, 4 contexts, symmetric | one owner per handle, nothing leaks, events reach the owner, place holders can be reused |
| `session` | `MCServerSession` | 1 connection, 2 streams, 1 byte | the stream is closed before its connection and no handle with an operation outstanding, the semaphore stays binary, what a second stream does, sessions end, the server drains |
| `receive_copy_all` | `MCReceiveCopy` | as above | *violation*: several buffers overwrite one another |
| `stream_closing` | `MCStreamHandle` | 3 bytes | *violation*: the asserts at a peer's abort and at SHUTDOWN_COMPLETE, all three in one behaviour |
| `connection_start` | `MCConnectionHandle` | 3 streams | *violation*: the assert on `client_start` when a handshake fails |
| `connection_handshake` | `MCConnectionHandle` | 3 streams | *violation*: the asserts on a server's handshake, that somebody waits for CONNECTED and that no session is resumed, both in one behaviour |
| `connection_token` | `MCConnectionHandle` | 3 streams | *violation*: a second token on the binary semaphore |
| `quic_moved_stream` | `MCQuicHandle` | as `quic_handle` | *violation*: a stream that was moved from is as after its constructor |

**Bounds.** Three bytes allow a chunk, a partial read, its rest, and new bytes behind
the rest. Three streams or connections allow one with the user, one in the channel and
one blocked, or two competing for one token; a fourth would only repeat a round. Four
objects are the parent a handle is accepted on, the callback's, the channel's and the
user's; three handles a registration, what is opened on it and what is accepted on that.
In the session the second stream is the one that the coroutine never accepts. The safety
of the handles, of the ownership and of the copy loop does not rest on the bounds: it is
proved for all of them. That of the session is proved for its one connection and two
streams and any number of bytes. The passing runs have 111,412 (`stream`), 13,965
(`connection`), 1,059 (`listener`), 1,592 (`receive_copy`), 16,213 (`quic_handle`) and
74,371 (`session`) distinct states. These constants are the only bounds: no guard cuts a
counter off.

**Deadlock** is checked where the system never stops: `quic_handle`. Elsewhere it is
not, since a closed handle has no step left, and a worker may block for ever beside a
user who does not accept. What must not stop is stated as a liveness property instead.
`BlockedWorkerCanBeFreed` and `AcceptFreesTheWorker` say of the connection's worker what
is left of that hazard: the comment at `include/basic_connection_handle.hpp:208`, "there
is dead lock for mtx and bs", does not come true, as `async_accept` stays possible and
leaves what the worker waits for. `CallbacksNeverStuck` says the same of the listener,
whose stop waits for callbacks that wait for accepts: something can always go on.

**Fairness.** The user owes nothing: no fairness on the user's calls, nor on the
peer. The executor serves a ready handler (weak fairness; strong for the stream,
where the handler shares the logical thread with the user's unlocked calls, so
that its being ready is interrupted by each of them; the executor's queue is
first in, first out). A thread inside a call finishes it. msquic answers an
accepted start and send, and ends a stream whose shutdown it accepted: a graceful
shutdown ends by the peer's acknowledgement or by the connection's idle timeout
(1000 ms, `tests/test_helper.hpp:41,71`). For the listener, the server is taken
to accept until it is refused, the loop of `tests/msquic_test.cpp`: without it
`StopCompletes` is false, since `ListenerStop` waits for callbacks that wait for
accepts. For the connection no such loop is assumed; `OperationsComplete` has
the blocked worker as its exception, which is the hazard made explicit.

In the session the user is the program: accept loop, coroutine and main go on when they
can, msquic's workers too, a stream or connection that is being shut down gets its last
event, and a connection whose worker is free and whose client is silent times out
(`IdleTimeoutMs`, `tests/test_helper.hpp:71`). The client owes nothing: it may connect
or not, start no stream or two, send or stay silent. `SessionEnds` and `ServerDrains`
therefore hold because the idle timeout makes every client silent in the end: of a
client that keeps its connection alive for ever they say nothing. They have one
exception, `StuckWorker`: the worker waits for an accept that never comes, because the
coroutine accepts one stream only, or still waits for a CONNECTED that came before it
asked. Both happen, and each property is false without the exception: the destructor's
ConnectionClose then blocks the thread of the `io_context` for ever. A client of the
configuration's one stream at a time opens a second one only after the first is over,
which the model keeps.

## What the violations say

* `include/basic_stream_handle.hpp:427` copies each buffer to the start of the
  user's buffer. Events with one buffer are unaffected, which the passing run shows.
* `:183` and `:207` assert that no send is pending when the peer aborts its own
  direction, or when the stream is over; the first is legal with a send in
  flight, the second happens between the flag and the call in `async_send`. `:209`
  asserts that no `receive_backend` is pending, but nothing obliges the user to have
  read the last RECEIVE by then; `NothingOwedAtEnd` says what becomes of its data.
* `include/basic_connection_handle.hpp:143` asserts away a client's pending
  start; a refused or timed-out handshake fails it, and without asserts nobody
  completes the `async_start`. `NoWaiterStranded` of the connection excepts this case.
* `:102` asserts that someone awaits CONNECTED, but the handshake of a server's
  connection can be over before `async_connect` is called. `:224` asserts that no client
  resumes a session ("not supported"), while the library sends resumption tickets and the
  test's server is configured for them (`tests/test_helper.hpp:74`,
  `tests/msquic_test.cpp:248`).
* `:479` releases a token that the next accept finds beside its own, when a
  shutdown refused an accept and the connection is not yet complete. While the
  connection is up, `TokenPerAccept` shows that it cannot happen.
* `include/basic_stream_handle.hpp:233-237` promises that a stream that was moved from is
  as after its constructor, but leaves it without a context, and `open` (`:246-258`) gives
  that null to msquic. `EventsReachTheOwner` excepts such a stream (`WithoutContext`); a
  connection makes a new context.

Where one run refutes several asserts, its property says that one of them holds, and is
violated by a behaviour in which none does.

A violation shows one behaviour; theorems say which behaviours there are.

* `SecondCopySpoils`: the copy is right exactly when the first buffer that is not empty
  has all the bytes that are acknowledged.
* `ClosingAssertsFailOnlyThere`: `:183` fails only with a send accepted or being
  submitted, `:207` only with one being submitted, and `:209` only with bytes in the
  channel that the user has not asked for.
* `NobodyStrandedWhoReadsAll`: a user whose buffer has room for all that is indicated is
  never left waiting for a rest.
* `AssertsFailOnlyThere`: `:143` fails only while a client's start waits for a
  handshake, `:102` only before the server's `async_connect`, `:224` only in a server's
  handshake. `StrandedOnlyAsserted`: an
  operation that nobody is left to complete has failed `:143` first, so a build with
  asserts stops before it waits for nothing.
* `SecondTokenNeedsARefusal`, `BinaryForWhoStops`: a user who stops accepting when
  refused, as the test's server does, never sees a second token.

## Proofs

| Module | From | Theorems: `Spec => ...` |
|---|---|---|
| `StreamHandleProofs` | `MaxBytes \in Nat` | `TypeOK`, `HandshakeAssertsHold`, `ChannelsNeverMisused`, `NoWaiterStranded`, `NothingOwedAtEnd`, `BytesInOrder`, `DeliversByteStream`; a clean end means all bytes, and nothing comes after an end; where the closing events' asserts fail; nobody waits for a rest who leaves none |
| `ConnectionHandleProofs` | `NoStream \notin Streams` | `TypeOK`, `HandshakeAssertsHold`, `ChannelsNeverMisused`, `TokenPerAccept`, `NoStreamLost`, `NoWaiterStranded`, `AcceptFreesTheWorker`, `KeepsAcceptPromise`; the guard form of `BlockedWorkerCanBeFreed`; each stream handed over once; where the asserts fail, and when a second token comes |
| `ListenerHandleProofs` | `NoConnection \notin Connections` | `TypeOK`, `HandOverIsOrderly`, `TokenPerAccept`, `NoConnectionLost`, `NoWaiterStranded`, `CallbacksNeverStuck`, `KeepsAcceptPromise`; each connection handed over once |
| `QuicHandleProofs` | `Null` is no wrapper, handle or context | `TypeOK`, `OneOwner`, `NothingLeaks`, `EventsReachTheOwner`, `PlaceHoldersAreReusable`; each handle is opened and closed once (`HandlesLive`) |
| `ReceiveCopyProofs` | the bounds are numbers, and `Unset` is none | `TypeOK`, `AcknowledgesWhatFits`, `SingleBufferInOrder`; when several buffers arrive in order |
| `ServerSessionProofs` | the two streams differ, no place holder is a connection or stream, `MaxBytes \in Nat` | the specification, the invariants above and the refinement of each handle; `NoStreamOutlivesItsConnection`, `ClosesNothingInUse`, `SemaphoreNeverOverfilled`, `LaterStreamHoldsTheWorker`; free of deadlock but for `StuckForGood` |

Each module proves `Spec => []IInv` (`Invariance`) from `Initially` and from one lemma
per group of actions, with one step per action and one below it per conjunct; the
properties follow from `IInv`. TLC had checked each `IInv` over the reachable states of
the module's run before it was proved. None of the properties is inductive by itself.

**Stream.** That a channel is not sent on twice depends on which flag is set, that on
what msquic still owes, and that on where the stream is in its life:

* `ChannelStages` - for start, send and shutdown, the flag is set exactly while
  the channel is open, and the channel is in use exactly while the operation is
  outstanding;
* `ReceiveStages` - the same for the receive channel, which either side may make:
  `receive_backend` means that a value waits for a user who has not asked;
* `LifeStages` - what msquic owes and what `state_` says, by the stream's life;
* `Bytes` - acknowledged, handed out and indicated bytes agree with the value in
  the channel, before and after the copy;
* `Endings` - an end in the channel, or told to the user, is one that happened.

`NobodyStrandedWhoReadsAll` has the user's discipline as a hypothesis on the steps,
`[][RoomForAll]_vars`, and needs no more than that msquic is paused only after a partial
acknowledgement.

**Connection.** `ChannelStages` and `LifeStages` as above; `WorkerStages`: a worker
inside PEER_STREAM_STARTED keeps the connection from closing, and has let `mtx_` go
when it waits; `TokenCount`: one token per pending accept, and one left behind by an
accept that the closing connection refused; `Places`: a stream is with the worker, in
the channel or with the user, and in one of them only; `Refusals`: a refusal comes
after a shutdown event. `Places` and `Refusals` carry the refinement of `AcceptQueue`.
`Causes`, proved on top of it, is for what goes wrong: until a refusal the token left on
the semaphore is the outstanding accept's (`TokenBelongs`), a start that no event
completed has failed its assert, and a server's connect has no value before CONNECTED.
`BinaryForWhoStops` has the user's discipline as a hypothesis on the steps,
`[][AsyncAccept => ~refused]_vars`.

**Listener.** The same, with any number of callbacks: `OneToken` says that at most one
of them is past the semaphore, and then the accept is still pending and the semaphore
empty, which is why two callbacks never send on one channel. `StoppedForGood`: after
STOP_COMPLETE no callback runs, and none holds the lock. `Running`: callbacks run only
while the listener is started or stopping, and whoever has `mtx_` is about to let it go;
with `OneToken` this leaves no state in which callbacks, stop and accept all wait.

**Ownership.** `ContextsOwned`: a context has one owner, and a connection or listener
always one; `Registered`: msquic has of each open handle what its owner has, null for a
moved-from stream that was opened; `CallbackStages`: what the callback's local object is
at each of its steps, above all that nobody else has the handle it is about to assign,
and that it has a context. `EventsReachTheOwner` and `PlaceHoldersAreReusable` follow
from these with `OneOwner` and `NothingLeaks`. `ConstructMakes` and `MovesMove` reduce
the two moves and the constructors to one form each (`Moved`, `Made`), so that the
callback's own move and the user's share one proof. `HandlesLive` adds what an invariant
cannot say: from its opening to its one closing by its owner a handle keeps its kind
and, once `set_callback` gave it one, the context that msquic calls back with.

**Copy loop.** `Progress`: the bytes copied are the bytes passed, as far as there was
room; while only empty buffers were passed, none. `InOrder(copied) <=> FirstHas(copied, i)`
is the part that `SecondCopySpoils` rests on: each further byte is right only as long as
it comes from the first buffer that has any.

**Session.** Every step of the session is a step of one handle (`ListenerStep`,
`ConnectionStep`, `StreamStep`), so the session implements the three specifications and
the theorems of the handles carry over: `HandlesSound`, `HandlesImplement`. Its
connection is a server's and its coroutine's buffer has room for all a client sends
(`ReadsAll`), so neither exception of `NoWaiterStranded`, a client's start and the rest of
a partial read, arises (`NoAwaitInVain`). The session's own invariant ties the coroutine's stage to
the handles: `HandedOver`, main and the coroutine start when the listener says so;
`Awaited`, an operation is outstanding only at its `co_await`; `ClosedInOrder`, what was
accepted and closed by when; `OneToken`, the one accept's token is on the semaphore until
the first stream's worker takes it; `FirstStreamOnly`, the second stream finds none.

`FreeOfDeadlock` is the safety under `SessionEnds` and `ServerDrains`: until the coroutine
has come to its end and main has destroyed the listener, some thread or worker can go on,
or the state is one of `StuckForGood`, and `StuckStaysStuck` says that those are never
left. `StuckForGood` is `StuckWorker` without its passing states (a coroutine whose
CONNECTED is there is about to accept), from the stream's arrival at the semaphore on.
What can go on is stated by the guards of the actions (`CoroutineGoesOn`, `WorkerGoesOn`
and so on), as ENABLED cannot be reasoned about. The proof needs `Course`, which says of
each stage how far the handles are, and the inductive invariants of the handles
themselves, which hold in the session because it implements their specifications.

`FlagsTyped` and `BooleansTyped` are apart from the rest of a type invariant because
Boolean functions need the first-order prover and the rest needs arithmetic.

Only model-checked: the liveness properties (`OperationsComplete`, `StopCompletes`,
`SessionEnds`, `ServerDrains`), since fairness is out of the prover's reach, and the
ENABLED of `BlockedWorkerCanBeFreed`, whose guard is proved. The properties that the
violation runs refute are refuted by TLC; when they fail is proved.

## Not modelled

* What a handler that captured `this` reaches after its wrapper was moved or closed: the
  models take it as the user's rule that neither happens with an operation outstanding.
  Nothing in the code enforces it; the server of the test keeps it, whichever of its
  checks fails (`ClosesNothingInUse`).
* A listener started again after a stop, stopped before a start, a wrapper opened or
  assigned while it is open, and a second shutdown of a connection before the first has
  completed: the code does not guard against them, and nothing in the repository does
  them or says what should happen. They are hazards without a property.
* `send_resumption_ticket`, RESUMPTION_TICKET_RECEIVED, `load_cred` and `load_cred2`,
  which change no state of a handle.
* Several connections at once in a session: their coroutines share only the thread.
* The client of the test (`run_client_helper`), which uses the same handles one after
  another; the client's operations are in `ConnectionHandle` and `StreamHandle`.
* Api table, event and sample (see the inventory).

## Running

    tlc -config MCStreamHandle.cfg MCStreamHandle.tla
    tlapm StreamHandleProofs.tla

and likewise for the other `MC...` and `...Proofs` modules; a run's module and
configuration are in `PROJECT.json`.
