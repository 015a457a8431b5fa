---------------------------- MODULE StreamHandle ----------------------------
(***************************************************************************)
(* basic_stream_handle and its callback (basic_stream_handle.hpp): the     *)
(* four asynchronous operations of a stream, the msquic callback that      *)
(* completes them, and the context both share.                             *)
(*                                                                         *)
(* The callback, async_receive and async_shutdown hold mtx_ throughout, so *)
(* each is one step.  async_start and async_send do not lock: msquic may   *)
(* run the callback between their flag, their StreamStart or StreamSend    *)
(* and their async_wait, so each is three steps, with call naming the one  *)
(* in progress.                                                            *)
(* The user drives a stream from one logical thread (asio's rule for a     *)
(* shared object) and does not start an operation that is outstanding.     *)
(* A failed assert is recorded in failed and execution goes on, as in a    *)
(* build with NDEBUG.                                                      *)
(***************************************************************************)
EXTENDS Naturals, Oneshot

CONSTANT MaxBytes          \* bound: bytes the peer sends

ASSUME MaxBytesAssumption == MaxBytes \in Nat

Ops == {"start", "send", "receive", "shutdown"}
States == {"ok", "peer_shutdown", "peer_abort", "shutdown_complete"}
Errors == {"ok", "connection_aborted", "broken_pipe"}

\* The asserts of the code, named by the function or event they stand in.
ClosingAsserts == {"abort_send", "complete_send", "complete_receive_backend"}
HandshakeAsserts == {"async_start", "async_send", "async_receive",
                     "START_COMPLETE", "SEND_COMPLETE", "RECEIVE"}

VARIABLES
  state_,    \* the context's view of the stream
  pending_,  \* pending_actions
  chan,      \* the one-shot channel of each operation
  data,      \* the value in the receive channel: error, first byte, length
  op,        \* per operation: idle, called but not yet waited for, async_wait
             \* outstanding, or (receive) value copied
  call,      \* the unlocked call the user's thread is inside of
  copied,    \* the receive handler's count of bytes copied
  strm,      \* msquic: where the stream is in its life
  peer,      \* msquic: how the peer's direction ended
  sendq,     \* msquic: a StreamSend has not been completed
  rcv,       \* msquic: a RECEIVE waits for its StreamReceiveComplete
  sent,      \* msquic: bytes indicated so far
  consumed,  \* msquic: bytes acknowledged by StreamReceiveComplete
  paused,    \* msquic: indicates nothing before a StreamReceiveSetEnabled
  shut,      \* msquic: a StreamShutdown was accepted
  got,       \* history: bytes the user's handlers were given
  ended,     \* history: how the last empty receive ended
  failed     \* history: the asserts that did not hold

ctx == <<state_, pending_, chan, data>>
front == <<op, call, copied>>
msquic == <<strm, peer, sendq, rcv, sent, consumed, paused, shut>>
seen == <<got, ended>>
vars == <<ctx, front, msquic, seen, failed>>

Flags == {"start", "send", "receive_frontend", "receive_backend", "shutdown"}

\* A client's stream was opened; a server's comes started from the listener's
\* connection, with the callback set.
Init == /\ state_ = "ok"
        /\ pending_ = [f \in Flags |-> FALSE]
        /\ chan = [o \in Ops |-> "none"]
        /\ data = [ec |-> "ok", from |-> 0, len |-> 0]
        /\ op = [o \in Ops |-> "idle"]
        /\ call = "none" /\ copied = 0
        /\ strm \in {"opened", "started"}
        /\ peer = "open"
        /\ sendq = FALSE /\ rcv = FALSE /\ paused = FALSE /\ shut = FALSE
        /\ sent = 0 /\ consumed = 0 /\ got = 0
        /\ ended = "no"
        /\ failed = {}

------------------------------------------------------------------------------
\* Helpers

Assert(name, holds) == IF holds THEN {} ELSE {name}

Empty(ec) == [ec |-> ec, from |-> 0, len |-> 0]

\* oneshot::create assigned over the operation's members
NewChannel(o) == [chan EXCEPT ![o] = Create(@, op[o] = "waiting")]
Sent(c, o) == [c EXCEPT ![o] = Send(@)]

\* Slips of the code, for checking that the properties notice them.
CopiedAll(bufferLen, len) == bufferLen
AcknowledgeAll == data.len
StateFirst == pending_.receive_backend /\ state_ = "ok"
KeepBackend(p) == p
KeepReceive(p) == [p EXCEPT !.shutdown = FALSE]
NeverShut == FALSE
AlwaysEndOfStream == "ok"
OnlyShutdownWaits(o) == o = "shutdown" /\ pending_.shutdown

\* std::min(remaining, buff.size()) summed over the buffers
Copied(bufferLen, len) == IF bufferLen <= len THEN bufferLen ELSE len

\* What receive_complete passes to StreamReceiveComplete.
Acknowledged == copied

BackendArrivedFirst == pending_.receive_backend
TakeBackend(p) == [p EXCEPT !.receive_backend = FALSE]
ClearWaiting(p) == [p EXCEPT !.receive_frontend = FALSE, !.shutdown = FALSE]
AlreadyShut == state_ = "shutdown_complete"

\* What async_receive reports once the peer's direction is over.
ErrorOfState == CASE state_ = "peer_abort" -> "connection_aborted"
                  [] state_ = "shutdown_complete" -> "broken_pipe"
                  [] OTHER -> "ok"

\* The operations SHUTDOWN_COMPLETE still has to complete.
WaitsAtShutdown(o) == \/ o = "receive" /\ pending_.receive_frontend
                      \/ o = "shutdown" /\ pending_.shutdown

------------------------------------------------------------------------------
\* The user's calls

AsyncStart ==
  /\ call = "none" /\ op["start"] = "idle"
  /\ strm = "opened"
  /\ chan' = NewChannel("start")
  /\ failed' = failed \cup Assert("async_start", ~pending_.start)
  /\ pending_' = [pending_ EXCEPT !.start = TRUE]
  /\ call' = "start"
  /\ UNCHANGED <<state_, data, op, copied, msquic, seen>>

\* The flag of an unlocked call is set, and msquic has not been called.
Submitting(o) == call = o /\ op[o] = "idle"

\* StreamStart and its failure path.
StreamStart ==
  /\ Submitting("start")
  /\ op' = [op EXCEPT !["start"] = "called"]
  /\ \/ /\ strm' = "starting"
        /\ UNCHANGED <<pending_, chan>>
     \/ /\ pending_' = [pending_ EXCEPT !.start = FALSE]
        /\ chan' = Sent(chan, "start")
        /\ UNCHANGED strm
  /\ UNCHANGED <<state_, data, call, copied, peer, sendq, rcv, sent, consumed, paused,
                 shut, seen, failed>>

\* The user has a started stream once its start has completed.
Usable == strm \in {"started", "done"} /\ op["start"] = "idle" /\ call = "none"

AsyncSend ==
  /\ Usable /\ op["send"] = "idle"
  /\ chan' = NewChannel("send")
  /\ failed' = failed \cup Assert("async_send", ~pending_.send)
  /\ pending_' = [pending_ EXCEPT !.send = TRUE]
  /\ call' = "send"
  /\ UNCHANGED <<state_, data, op, copied, msquic, seen>>

\* StreamSend and its failure path.
StreamSend ==
  /\ Submitting("send")
  /\ op' = [op EXCEPT !["send"] = "called"]
  /\ \/ /\ strm = "started" /\ ~shut
        /\ sendq' = TRUE
        /\ UNCHANGED <<pending_, chan>>
     \/ /\ pending_' = [pending_ EXCEPT !.send = FALSE]
        /\ chan' = Sent(chan, "send")
        /\ UNCHANGED sendq
  /\ UNCHANGED <<state_, data, call, copied, strm, peer, rcv, sent, consumed, paused,
                 shut, seen, failed>>

\* The async_wait at the end of async_start and async_send, before or after the
\* callback has sent.
AsyncWait(o) ==
  /\ call = o /\ op[o] = "called"
  /\ op' = [op EXCEPT ![o] = "waiting"]
  /\ call' = "none"
  /\ UNCHANGED <<ctx, copied, msquic, seen, failed>>

\* Whichever of the user and the RECEIVE event comes first makes the channel.
AsyncReceive ==
  /\ Usable /\ op["receive"] = "idle"
  /\ failed' = failed \cup Assert("async_receive", ~pending_.receive_frontend)
  /\ op' = [op EXCEPT !["receive"] = "waiting"]
  /\ \/ /\ BackendArrivedFirst
        /\ pending_' = TakeBackend(pending_)
        /\ UNCHANGED <<chan, data>>
     \/ /\ ~BackendArrivedFirst
        /\ state_ # "ok"
        /\ chan' = Sent(NewChannel("receive"), "receive")
        /\ data' = Empty(ErrorOfState)
        /\ UNCHANGED pending_
     \/ /\ ~BackendArrivedFirst
        /\ state_ = "ok"
        /\ chan' = NewChannel("receive")
        /\ pending_' = [pending_ EXCEPT !.receive_frontend = TRUE]
        /\ UNCHANGED data
  /\ UNCHANGED <<state_, call, copied, msquic, seen>>

AsyncShutdown ==
  /\ Usable /\ op["shutdown"] = "idle"
  /\ op' = [op EXCEPT !["shutdown"] = "waiting"]
  /\ \/ /\ ~AlreadyShut              \* StreamShutdown accepts
        /\ chan' = NewChannel("shutdown")
        /\ pending_' = [pending_ EXCEPT !.shutdown = TRUE]
        /\ shut' = TRUE
     \/ /\ chan' = Sent(NewChannel("shutdown"), "shutdown")
        /\ UNCHANGED <<pending_, shut>>
  /\ UNCHANGED <<state_, data, call, copied, strm, peer, sendq, rcv, sent, consumed,
                 paused, seen, failed>>

\* close() and the destructor: the handlers capture this, so no operation is
\* outstanding.  msquic makes no callback after StreamClose.
Close ==
  /\ call = "none"
  /\ \A o \in Ops : op[o] = "idle"
  /\ strm # "closed"
  /\ strm' = "closed"
  /\ UNCHANGED <<ctx, front, peer, sendq, rcv, sent, consumed, paused, shut, seen, failed>>

------------------------------------------------------------------------------
\* The completion handlers, run by the executor

Ready(o) == call = "none" /\ op[o] = "waiting" /\ chan[o] = "sent"

\* async_start, async_send and async_shutdown: get, then the user's handler.
Complete(o) ==
  /\ Ready(o)
  /\ o # "receive"
  /\ chan' = [chan EXCEPT ![o] = Get(@)]
  /\ op' = [op EXCEPT ![o] = "idle"]
  /\ UNCHANGED <<state_, pending_, data, call, copied, msquic, seen, failed>>

\* async_receive's handler up to receive_complete: get and the copy.
ReceiveGet(bufferLen) ==
  /\ Ready("receive")
  /\ chan' = [chan EXCEPT !["receive"] = Get(@)]
  /\ op' = [op EXCEPT !["receive"] = "copied"]
  /\ copied' = Copied(bufferLen, data.len)
  /\ got' = got + copied'
  /\ ended' = IF data.len > 0 THEN ended
              ELSE IF data.ec = "ok" THEN "eof" ELSE "error"
  /\ UNCHANGED <<state_, pending_, data, call, msquic, failed>>

\* receive_complete(copied), then the user's handler.  The code takes msquic to
\* "receive next"; after a partial acknowledgement MsQuic may wait for a
\* StreamReceiveSetEnabled, which the code never calls.
ReceiveComplete ==
  /\ op["receive"] = "copied"
  /\ op' = [op EXCEPT !["receive"] = "idle"]
  /\ consumed' = consumed + Acknowledged
  /\ rcv' = FALSE
  /\ \/ UNCHANGED paused
     \/ rcv /\ consumed' < sent /\ paused' = TRUE
  /\ UNCHANGED <<ctx, call, copied, strm, peer, sendq, sent, shut, seen, failed>>

------------------------------------------------------------------------------
\* AsioServerStreamCallback, one action per event

START_COMPLETE ==
  /\ strm = "starting"
  /\ strm' \in {"started", "failed"}
  /\ failed' = failed \cup Assert("START_COMPLETE", pending_.start)
  /\ pending_' = [pending_ EXCEPT !.start = FALSE]
  /\ chan' = Sent(chan, "start")
  /\ UNCHANGED <<state_, data, front, peer, sendq, rcv, sent, consumed, paused, shut, seen>>

SEND_COMPLETE ==
  /\ strm = "started" /\ sendq
  /\ sendq' = FALSE
  /\ failed' = failed \cup Assert("SEND_COMPLETE", pending_.send)
  /\ pending_' = [pending_ EXCEPT !.send = FALSE]
  /\ chan' = Sent(chan, "send")
  /\ UNCHANGED <<state_, data, front, strm, peer, rcv, sent, consumed, paused, shut, seen>>

\* msquic indicates from the first unacknowledged byte, what it has already
\* indicated included, and not again before StreamReceiveComplete.
RECEIVE ==
  /\ strm = "started" /\ peer = "open" /\ ~rcv /\ ~paused
  /\ rcv' = TRUE
  /\ sent' \in sent .. MaxBytes
  /\ sent' > consumed
  /\ failed' = failed \cup Assert("RECEIVE", ~pending_.receive_backend)
  /\ data' = [ec |-> "ok", from |-> consumed, len |-> sent' - consumed]
  /\ IF pending_.receive_frontend
     THEN /\ pending_' = [pending_ EXCEPT !.receive_frontend = FALSE]
          /\ chan' = Sent(chan, "receive")
     ELSE /\ pending_' = [pending_ EXCEPT !.receive_backend = TRUE]
          /\ chan' = Sent(NewChannel("receive"), "receive")
  /\ UNCHANGED <<state_, front, strm, peer, sendq, consumed, paused, shut, seen>>

\* A waiting user is told that no more data comes.
EndReceive(ec) ==
  IF pending_.receive_frontend
  THEN /\ chan' = Sent(chan, "receive")
       /\ data' = Empty(ec)
       /\ pending_' = [pending_ EXCEPT !.receive_frontend = FALSE]
  ELSE UNCHANGED <<chan, data, pending_>>

\* All the peer sent was indicated and acknowledged.
PEER_SEND_SHUTDOWN ==
  /\ strm = "started" /\ peer = "open" /\ ~rcv /\ consumed = sent
  /\ peer' = "fin"
  /\ state_' = "peer_shutdown"
  /\ EndReceive("ok")
  /\ UNCHANGED <<front, strm, sendq, rcv, sent, consumed, paused, shut, seen, failed>>

PEER_SEND_ABORTED ==
  /\ strm = "started" /\ peer = "open"
  /\ peer' = "aborted"
  /\ state_' = "peer_abort"
  /\ EndReceive("connection_aborted")
  /\ failed' = failed \cup Assert("abort_send", ~pending_.send)
  /\ UNCHANGED <<front, strm, sendq, rcv, sent, consumed, paused, shut, seen>>

\* The user shut the stream down, or its connection went away; msquic has
\* completed the accepted send.
SHUTDOWN_COMPLETE ==
  /\ strm = "started" /\ ~sendq
  /\ strm' = "done"
  /\ state_' = "shutdown_complete"
  /\ pending_' = ClearWaiting(pending_)
  /\ chan' = [o \in Ops |-> IF WaitsAtShutdown(o) THEN Send(chan[o]) ELSE chan[o]]
  /\ data' = IF pending_.receive_frontend THEN Empty("broken_pipe") ELSE data
  /\ failed' = failed \cup Assert("complete_send", ~pending_.send)
                     \cup Assert("complete_receive_backend", ~pending_.receive_backend)
  /\ UNCHANGED <<front, peer, sendq, rcv, sent, consumed, paused, shut, seen>>

------------------------------------------------------------------------------
User == AsyncStart \/ AsyncSend \/ AsyncReceive \/ AsyncShutdown \/ Close

Frontend == \/ StreamStart \/ StreamSend \/ ReceiveComplete
            \/ \E o \in Ops : AsyncWait(o) \/ Complete(o)
            \/ \E bufferLen \in 0 .. MaxBytes : ReceiveGet(bufferLen)

Callback == \/ START_COMPLETE \/ SEND_COMPLETE \/ RECEIVE
            \/ PEER_SEND_SHUTDOWN \/ PEER_SEND_ABORTED \/ SHUTDOWN_COMPLETE

Next == User \/ Frontend \/ Callback

Spec == Init /\ [][Next]_vars

(***************************************************************************)
(* The user's thread finishes its calls.  The executor's queue serves a    *)
(* ready handler however often the thread makes new calls in between, hence*)
(* SF.  msquic answers a StreamStart and a StreamSend, and brings a stream *)
(* whose shutdown it accepted to SHUTDOWN_COMPLETE.  Nothing obliges the   *)
(* user to call, or the peer to send, finish or abort.                     *)
(***************************************************************************)
Fairness == /\ WF_vars(StreamStart) /\ WF_vars(StreamSend)
            /\ WF_vars(\E o \in Ops : AsyncWait(o))
            /\ \A o \in Ops \ {"receive"} : SF_vars(Complete(o))
            /\ WF_vars(ReceiveComplete)
            /\ SF_vars(\E bufferLen \in 0 .. MaxBytes : ReceiveGet(bufferLen))
            /\ WF_vars(START_COMPLETE)
            /\ WF_vars(SEND_COMPLETE)
            /\ WF_vars(shut /\ SHUTDOWN_COMPLETE)

FairSpec == Spec /\ Fairness

------------------------------------------------------------------------------
\* Properties

TypeOK ==
  /\ state_ \in States
  /\ pending_ \in [Flags -> BOOLEAN]
  /\ chan \in [Ops -> ChannelStates]
  /\ data \in [ec : Errors, from : 0 .. MaxBytes, len : 0 .. MaxBytes]
  /\ op \in [Ops -> {"idle", "called", "waiting", "copied"}]
  /\ call \in {"none", "start", "send"}
  /\ copied \in 0 .. MaxBytes
  /\ strm \in {"opened", "starting", "started", "failed", "done", "closed"}
  /\ peer \in {"open", "fin", "aborted"}
  /\ sendq \in BOOLEAN /\ rcv \in BOOLEAN /\ paused \in BOOLEAN /\ shut \in BOOLEAN
  /\ sent \in 0 .. MaxBytes
  /\ consumed \in 0 .. MaxBytes
  /\ got \in 0 .. MaxBytes
  /\ ended \in {"no", "eof", "error"}
  /\ failed \subseteq HandshakeAsserts \cup ClosingAsserts

\* The asserts of the hand-over between user and callback hold: neither side
\* finds the other's flag in a state it does not expect.
HandshakeAssertsHold == failed \cap HandshakeAsserts = {}

\* No sender is used twice or before it exists, no value is read before it is
\* sent, and no new channel drops an unread value or cuts a waiting handler
\* off, although user and callback replace the channels of one context.
ChannelsNeverMisused == \A o \in Ops : chan[o] # "misused"

\* An event that completes an operation is still to come: no RECEIVE comes
\* while the last one is unacknowledged or msquic is paused, and no event after
\* SHUTDOWN_COMPLETE.
Owed(o) ==
  CASE o = "start"    -> strm = "starting"
    [] o = "send"     -> strm = "started" /\ sendq
    [] o = "receive"  -> strm = "started" /\ peer = "open" /\ ~rcv /\ ~paused
    [] o = "shutdown" -> strm = "started" /\ shut

\* Who reads on after a partial read once msquic has paused: it keeps the rest,
\* and only an abort or the end of the stream frees the reader.
WaitsForTheRest(o) ==
  o = "receive" /\ paused /\ strm = "started" /\ peer = "open"

\* Whoever waits, or is about to, has the value that completes it, or an event
\* that brings one is still to come, and nothing waits past the end of the
\* stream.  A receive never waits beside a RECEIVE that nobody acknowledges; that
\* it may wait for the rest of a partial read is the one exception.
NoWaiterStranded ==
  \A o \in Ops : op[o] \in {"called", "waiting"} =>
    chan[o] = "sent" \/ Owed(o) \/ WaitsForTheRest(o)

\* Once the stream is over a flag stands only for what somebody still takes
\* care of: a send that is being submitted, and bytes that a RECEIVE left for
\* the user's next async_receive.  basic_stream_handle.hpp:207-209 assert that
\* neither is there, which SomeClosingAssertHolds is about.
NothingOwedAtEnd ==
  strm = "done" =>
    /\ ~pending_.start /\ ~pending_.receive_frontend /\ ~pending_.shutdown
    /\ pending_.send => Submitting("send")
    /\ pending_.receive_backend => chan["receive"] = "sent" /\ data.len > 0

\* What the callback hands over continues exactly where the user stopped
\* reading, after partial reads too.
BytesInOrder == chan["receive"] = "sent" /\ data.len > 0 => data.from = got

\* The reading side keeps the promise of ByteStream.
BS == INSTANCE ByteStream WITH avail <- sent,
                               finished <- peer = "fin",
                               lost <- peer = "aborted" \/ strm \in {"done", "closed"}
DeliversByteStream == BS!Spec

\* Every call but a receive completes, and a receive completes once a
\* shutdown was accepted.
OperationsComplete ==
  /\ \A o \in Ops \ {"receive"} : op[o] = "waiting" ~> op[o] = "idle"
  /\ shut /\ op["receive"] = "waiting" ~> op["receive"] = "idle"

\* When the peer aborts sending, basic_stream_handle.hpp:183 asserts that no send
\* is pending ("this direction for send should have been shutdown? TODO."); at
\* SHUTDOWN_COMPLETE, :207 asserts it again and :209 that no receive_backend is.
\* Were one of the three right, no stream could fail them all.
SomeClosingAssertHolds == ~(ClosingAsserts \subseteq failed)

==============================================================================
