------------------------- MODULE StreamHandleProofs -------------------------
(***************************************************************************)
(* Safety of the stream handle, proved for every MaxBytes: an inductive    *)
(* invariant that ties the flags, the channels, what msquic owes and the   *)
(* byte counts together, the properties of StreamHandle that follow from   *)
(* it, and that the stream implements ByteStream.                          *)
(***************************************************************************)
EXTENDS StreamHandle, TLAPS

------------------------------------------------------------------------------
\* The inductive invariant

Answered == {"start", "send", "shutdown"}   \* the operations but receive

Outstanding(o) == op[o] = "waiting" \/ call = o

\* A flag is set exactly while the callback still owes the channel its value,
\* and a channel is in use exactly while its operation is outstanding.
ChannelStages ==
  \A o \in Answered :
    /\ op[o] # "copied"
    /\ chan[o] # "misused"
    /\ pending_[o] <=> chan[o] = "open"
    /\ Outstanding(o) <=> chan[o] \in {"open", "sent"}

\* The receive channel: whose turn it is decides who made it.
ReceiveStages ==
  /\ chan["receive"] # "misused"
  /\ pending_.receive_frontend <=> chan["receive"] = "open"
  /\ pending_.receive_frontend => op["receive"] = "waiting"
  /\ pending_.receive_backend => op["receive"] = "idle" /\ chan["receive"] = "sent" /\ rcv
  /\ pending_.receive_backend => data.len > 0
  /\ op["receive"] = "waiting" => chan["receive"] \in {"open", "sent"}
  /\ op["receive"] = "copied" => chan["receive"] = "taken"
  /\ op["receive"] = "idle" /\ chan["receive"] = "sent" => pending_.receive_backend
  /\ rcv => \/ pending_.receive_backend
            \/ op["receive"] = "waiting" /\ chan["receive"] = "sent"
            \/ op["receive"] = "copied"
  /\ chan["receive"] = "sent" \/ op["receive"] = "copied"
       => rcv \/ peer # "open" \/ strm # "started"

\* What msquic owes follows from where the stream is in its life.
LifeStages ==
  /\ call # "none" => IF op[call] = "idle" THEN chan[call] = "open" ELSE op[call] = "called"
  /\ \A o \in Ops : op[o] = "called" => call = o
  /\ Submitting("start") => strm = "opened"
  /\ pending_.start <=> strm = "starting" \/ Submitting("start")
  /\ sendq => strm = "started" /\ op["send"] \in {"called", "waiting"}
  /\ pending_.send <=> sendq \/ Submitting("send")
  /\ pending_.shutdown => strm = "started" /\ shut
  /\ pending_.receive_frontend => strm = "started" /\ peer = "open"
  /\ strm \in {"opened", "starting", "failed"} =>
       /\ peer = "open" /\ ~rcv
       /\ chan["receive"] = "none" /\ op["receive"] = "idle"
  /\ strm \notin {"done", "closed"} =>
       state_ = IF peer = "open" THEN "ok"
                ELSE IF peer = "fin" THEN "peer_shutdown" ELSE "peer_abort"
  /\ strm = "done" => state_ = "shutdown_complete"

\* The bytes of the user, of msquic and of the channel fit together.
Bytes ==
  /\ consumed <= sent
  /\ op["receive"] = "copied" => got = consumed + copied /\ got <= sent
  /\ op["receive"] # "copied" => got = consumed
  /\ op["receive"] = "copied" /\ ~rcv => copied = 0
  /\ rcv /\ chan["receive"] = "sent" => data.len > 0
  /\ paused => ~rcv /\ consumed < sent
  /\ chan["receive"] = "sent" /\ data.len > 0 =>
       /\ rcv /\ ended = "no"
       /\ data.from = consumed
       /\ data.from + data.len = sent
  /\ peer = "fin" => consumed = sent

Gone == peer = "aborted" \/ strm \in {"done", "closed"}

\* An end the user is or will be told is the end that happened.
Endings ==
  /\ chan["receive"] = "sent" /\ data.len = 0 =>
       IF data.ec = "ok" THEN peer = "fin" /\ ended # "error" ELSE Gone
  /\ ended = "eof" => peer = "fin"
  /\ ended = "error" => Gone

IInv == /\ TypeOK
        /\ ChannelStages
        /\ ReceiveStages
        /\ LifeStages
        /\ Bytes
        /\ Endings
        /\ HandshakeAssertsHold

------------------------------------------------------------------------------
\* Zenon is at home with Boolean values, SMT with the rest: the Booleans of
\* the state are typed apart.

BooleansTyped == /\ pending_ \in [Flags -> BOOLEAN]
                 /\ sendq \in BOOLEAN /\ rcv \in BOOLEAN /\ paused \in BOOLEAN /\ shut \in BOOLEAN

\* A waiting receive that is told of the end gives up its flag.
LEMMA EndReceiveTyped ==
  ASSUME pending_ \in [Flags -> BOOLEAN], NEW ec, EndReceive(ec)
  PROVE  pending_' \in [Flags -> BOOLEAN]
<1>1. CASE pending_.receive_frontend
  BY <1>1, Zenon DEF EndReceive, Flags
<1>2. CASE ~pending_.receive_frontend
  BY <1>2, Zenon DEF EndReceive, Flags
<1>. QED BY <1>1, <1>2

\* No call of the user breaks the invariant.
LEMMA UserStep == ASSUME IInv, User PROVE IInv'
<1> USE DEF IInv, ctx, front, msquic, seen
<1>1. ASSUME AsyncStart PROVE IInv'
  <2>1. BooleansTyped'
    BY <1>1, Zenon DEF TypeOK, BooleansTyped, AsyncStart, Flags
  <2>2. TypeOK'
    BY <1>1, <2>1 DEF AsyncStart, NewChannel, Create, Assert, TypeOK, Flags, Ops,
         ChannelStates, HandshakeAsserts, BooleansTyped
  <2>3. ChannelStages'
    BY <1>1 DEF AsyncStart, NewChannel, Create, TypeOK, Ops, Flags, ChannelStages,
         Answered, Outstanding
  <2>4. ReceiveStages'
    BY <1>1 DEF AsyncStart, NewChannel, ReceiveStages
  <2>5. LifeStages'
    BY <1>1 DEF AsyncStart, NewChannel, Create, TypeOK, Ops, ChannelStages, Answered,
         Outstanding, LifeStages, Submitting
  <2>6. Bytes'
    BY <1>1 DEF AsyncStart, NewChannel, Bytes
  <2>7. Endings'
    BY <1>1 DEF AsyncStart, NewChannel, Endings, Gone
  <2>8. HandshakeAssertsHold'
    BY <1>1 DEF AsyncStart, Assert, ChannelStages, Answered, Outstanding,
         HandshakeAssertsHold
  <2>. QED BY <2>2, <2>3, <2>4, <2>5, <2>6, <2>7, <2>8
<1>2. ASSUME AsyncSend PROVE IInv'
  <2>1. BooleansTyped'
    BY <1>2, Zenon DEF TypeOK, BooleansTyped, AsyncSend, Flags
  <2>2. TypeOK'
    BY <1>2, <2>1 DEF AsyncSend, NewChannel, Create, Assert, TypeOK, Flags, Ops,
         ChannelStates, HandshakeAsserts, BooleansTyped
  <2>3. ChannelStages'
    BY <1>2 DEF AsyncSend, Usable, NewChannel, Create, TypeOK, Ops, Flags,
         ChannelStages, Answered, Outstanding
  <2>4. ReceiveStages'
    BY <1>2 DEF AsyncSend, NewChannel, ReceiveStages
  <2>5. LifeStages'
    BY <1>2 DEF AsyncSend, Usable, NewChannel, Create, TypeOK, Ops, ChannelStages,
         Answered, Outstanding, LifeStages, Submitting
  <2>6. Bytes'
    BY <1>2 DEF AsyncSend, NewChannel, Bytes
  <2>7. Endings'
    BY <1>2 DEF AsyncSend, NewChannel, Endings, Gone
  <2>8. HandshakeAssertsHold'
    BY <1>2 DEF AsyncSend, Usable, Assert, ChannelStages, Answered, Outstanding,
         HandshakeAssertsHold
  <2>. QED BY <2>2, <2>3, <2>4, <2>5, <2>6, <2>7, <2>8
<1>3. ASSUME AsyncReceive PROVE IInv'
  <2>1. BooleansTyped'
    BY <1>3, Zenon DEF TypeOK, BooleansTyped, AsyncReceive, Flags, TakeBackend
  <2>2. TypeOK'
    BY <1>3, <2>1, MaxBytesAssumption DEF AsyncReceive, Assert, Sent, NewChannel,
         Create, Empty, ErrorOfState, TypeOK, Errors, Ops, ChannelStates,
         HandshakeAsserts, BooleansTyped
  <2>3. ChannelStages'
    BY <1>3 DEF AsyncReceive, TakeBackend, Sent, NewChannel, TypeOK, Ops, Flags,
         ChannelStages, Answered, Outstanding
  <2>4. ReceiveStages'
    BY <1>3 DEF AsyncReceive, BackendArrivedFirst, TakeBackend, Sent, Send, NewChannel,
         Create, TypeOK, Ops, Flags, ReceiveStages
  <2>5. LifeStages'
    BY <1>3 DEF AsyncReceive, Usable, TakeBackend, TypeOK, Flags, LifeStages, Submitting
  <2>6. Bytes'
    BY <1>3 DEF AsyncReceive, BackendArrivedFirst, NewChannel, Sent, Create, Empty, TypeOK,
         Ops, ReceiveStages, Bytes
  <2>7. Endings'
    BY <1>3 DEF AsyncReceive, Sent, NewChannel, Create, TypeOK, Ops, Endings, Gone
  <2>8. HandshakeAssertsHold'
    BY <1>3 DEF AsyncReceive, Assert, ReceiveStages, HandshakeAssertsHold
  <2>. QED BY <2>2, <2>3, <2>4, <2>5, <2>6, <2>7, <2>8
<1>4. ASSUME AsyncShutdown PROVE IInv'
  <2>1. BooleansTyped'
    BY <1>4, Zenon DEF TypeOK, BooleansTyped, AsyncShutdown, Flags
  <2>2. TypeOK'
    BY <1>4, <2>1 DEF AsyncShutdown, NewChannel, Create, Sent, TypeOK, Ops,
         ChannelStates, BooleansTyped
  <2>3. ChannelStages'
    BY <1>4 DEF AsyncShutdown, NewChannel, Create, Sent, Send, TypeOK, Ops, Flags,
         ChannelStages, Answered, Outstanding
  <2>4. ReceiveStages'
    BY <1>4 DEF AsyncShutdown, NewChannel, Sent, TypeOK, Ops, Flags, ReceiveStages
  <2>5. LifeStages'
    BY <1>4 DEF AsyncShutdown, Usable, AlreadyShut, TypeOK, Flags, LifeStages, Submitting
  <2>6. Bytes'
    BY <1>4 DEF AsyncShutdown, NewChannel, Sent, TypeOK, Ops, Bytes
  <2>7. Endings'
    BY <1>4 DEF AsyncShutdown, NewChannel, Sent, TypeOK, Ops, Endings, Gone
  <2>8. HandshakeAssertsHold'
    BY <1>4 DEF AsyncShutdown, HandshakeAssertsHold
  <2>. QED BY <2>2, <2>3, <2>4, <2>5, <2>6, <2>7, <2>8
<1>5. ASSUME Close PROVE IInv'
  <2>1. TypeOK'
    BY <1>5 DEF Close, TypeOK
  <2>2. ChannelStages'
    BY <1>5 DEF Close, ChannelStages, Outstanding
  <2>3. ReceiveStages'
    BY <1>5 DEF Close, ReceiveStages
  <2>4. LifeStages'
    BY <1>5 DEF Close, Ops, ChannelStages, Answered, Outstanding, ReceiveStages,
         LifeStages, Submitting
  <2>5. Bytes'
    BY <1>5 DEF Close, Bytes
  <2>6. Endings'
    BY <1>5 DEF Close, Endings, Gone
  <2>7. HandshakeAssertsHold'
    BY <1>5 DEF Close, HandshakeAssertsHold
  <2>. QED BY <2>1, <2>2, <2>3, <2>4, <2>5, <2>6, <2>7
<1>. QED BY <1>1, <1>2, <1>3, <1>4, <1>5 DEF User

\* Neither the second half of a call nor a completion handler breaks it.
LEMMA FrontendStep == ASSUME IInv, Frontend PROVE IInv'
<1> USE DEF IInv, ctx, front, msquic, seen
<1>1. ASSUME StreamStart PROVE IInv'
  <2>1. BooleansTyped'
    BY <1>1, Zenon DEF TypeOK, BooleansTyped, StreamStart, Flags
  <2>2. TypeOK'
    BY <1>1, <2>1 DEF StreamStart, Sent, Send, TypeOK, Ops, ChannelStates, BooleansTyped
  <2>3. ChannelStages'
    BY <1>1 DEF StreamStart, Sent, Send, TypeOK, Ops, Flags, ChannelStages, Answered,
         Outstanding, LifeStages, Submitting
  <2>4. ReceiveStages'
    BY <1>1 DEF StreamStart, Sent, TypeOK, Ops, Flags, ReceiveStages
  <2>5. LifeStages'
    BY <1>1 DEF StreamStart, Sent, TypeOK, Ops, Flags, LifeStages, Submitting
  <2>6. Bytes'
    BY <1>1 DEF StreamStart, Sent, TypeOK, Ops, Bytes
  <2>7. Endings'
    BY <1>1 DEF StreamStart, Sent, TypeOK, Ops, LifeStages, Submitting, Endings, Gone
  <2>8. HandshakeAssertsHold'
    BY <1>1 DEF StreamStart, HandshakeAssertsHold
  <2>. QED BY <2>2, <2>3, <2>4, <2>5, <2>6, <2>7, <2>8
<1>2. ASSUME StreamSend PROVE IInv'
  <2>1. BooleansTyped'
    BY <1>2, Zenon DEF TypeOK, BooleansTyped, StreamSend, Flags
  <2>2. TypeOK'
    BY <1>2, <2>1 DEF StreamSend, Sent, Send, TypeOK, Ops, ChannelStates, BooleansTyped
  <2>3. ChannelStages'
    BY <1>2 DEF StreamSend, Sent, Send, TypeOK, Ops, Flags, ChannelStages, Answered,
         Outstanding, LifeStages, Submitting
  <2>4. ReceiveStages'
    BY <1>2 DEF StreamSend, Sent, TypeOK, Ops, Flags, ReceiveStages
  <2>5. LifeStages'
    BY <1>2 DEF StreamSend, Sent, TypeOK, Ops, Flags, LifeStages, Submitting
  <2>6. Bytes'
    BY <1>2 DEF StreamSend, Sent, TypeOK, Ops, Bytes
  <2>7. Endings'
    BY <1>2 DEF StreamSend, Sent, TypeOK, Ops, Endings, Gone
  <2>8. HandshakeAssertsHold'
    BY <1>2 DEF StreamSend, HandshakeAssertsHold
  <2>. QED BY <2>2, <2>3, <2>4, <2>5, <2>6, <2>7, <2>8
<1>3. ASSUME NEW o \in Ops, AsyncWait(o) PROVE IInv'
  <2>1. TypeOK'
    BY <1>3 DEF AsyncWait, TypeOK
  <2>2. ChannelStages'
    BY <1>3 DEF AsyncWait, TypeOK, ChannelStages, Answered, Outstanding, Ops
  <2>3. ReceiveStages'
    BY <1>3 DEF AsyncWait, TypeOK, Ops, ReceiveStages
  <2>4. LifeStages'
    BY <1>3 DEF AsyncWait, Submitting, TypeOK, Ops, LifeStages
  <2>5. Bytes'
    BY <1>3 DEF AsyncWait, TypeOK, Ops, Bytes
  <2>6. Endings'
    BY <1>3 DEF AsyncWait, Endings, Gone
  <2>7. HandshakeAssertsHold'
    BY <1>3 DEF AsyncWait, HandshakeAssertsHold
  <2>. QED BY <2>1, <2>2, <2>3, <2>4, <2>5, <2>6, <2>7
<1>4. ASSUME ReceiveComplete PROVE IInv'
  <2>1. BooleansTyped'
    BY <1>4, Zenon DEF TypeOK, BooleansTyped, ReceiveComplete
  <2>2. TypeOK'
    BY <1>4, <2>1 DEF ReceiveComplete, Acknowledged, TypeOK, Ops, BooleansTyped, Bytes
  <2>3. ChannelStages'
    BY <1>4 DEF ReceiveComplete, ChannelStages, Outstanding
  <2>4. ReceiveStages'
    BY <1>4 DEF ReceiveComplete, TypeOK, Ops, ReceiveStages
  <2>5. LifeStages'
    BY <1>4 DEF ReceiveComplete, LifeStages, Submitting
  <2>6. Bytes'
    BY <1>4 DEF ReceiveComplete, Acknowledged, TypeOK, Ops, ReceiveStages, Bytes
  <2>7. Endings'
    BY <1>4 DEF ReceiveComplete, Endings, Gone
  <2>8. HandshakeAssertsHold'
    BY <1>4 DEF ReceiveComplete, HandshakeAssertsHold
  <2>. QED BY <2>2, <2>3, <2>4, <2>5, <2>6, <2>7, <2>8
<1>5. ASSUME NEW o \in Ops, Complete(o) PROVE IInv'
  <2>1. TypeOK'
    BY <1>5 DEF Complete, Get, TypeOK, ChannelStates
  <2>2. ChannelStages'
    BY <1>5 DEF Complete, Ready, Get, TypeOK, Ops, ChannelStages, Outstanding
  <2>3. ReceiveStages'
    BY <1>5 DEF Complete, ReceiveStages
  <2>4. LifeStages'
    BY <1>5 DEF Complete, Ready, ChannelStages, Answered, LifeStages, Submitting
  <2>5. Bytes'
    BY <1>5 DEF Complete, Bytes
  <2>6. Endings'
    BY <1>5 DEF Complete, Endings, Gone
  <2>7. HandshakeAssertsHold'
    BY <1>5 DEF Complete, HandshakeAssertsHold
  <2>. QED BY <2>1, <2>2, <2>3, <2>4, <2>5, <2>6, <2>7
<1>6. ASSUME NEW bufferLen \in 0 .. MaxBytes, ReceiveGet(bufferLen) PROVE IInv'
  <2>1. TypeOK'
    BY <1>6, MaxBytesAssumption DEF ReceiveGet, Ready, Get, Copied, TypeOK, Ops,
         ChannelStates, Bytes
  <2>2. ChannelStages'
    BY <1>6 DEF ReceiveGet, ChannelStages, Answered, Outstanding
  <2>3. ReceiveStages'
    BY <1>6 DEF ReceiveGet, Ready, Get, TypeOK, ReceiveStages
  <2>4. LifeStages'
    BY <1>6 DEF ReceiveGet, Ready, LifeStages, Submitting
  <2>5. Bytes'
    BY <1>6 DEF ReceiveGet, Ready, Copied, TypeOK, Ops, Bytes
  <2>6. Endings'
    BY <1>6 DEF ReceiveGet, Ready, TypeOK, Endings, Gone
  <2>7. HandshakeAssertsHold'
    BY <1>6 DEF ReceiveGet, HandshakeAssertsHold
  <2>. QED BY <2>1, <2>2, <2>3, <2>4, <2>5, <2>6, <2>7
<1>. QED BY <1>1, <1>2, <1>3, <1>4, <1>5, <1>6 DEF Frontend

\* No event of msquic breaks it, whenever it comes.
LEMMA CallbackStep == ASSUME IInv, Callback PROVE IInv'
<1> USE DEF IInv, ctx, front, msquic, seen
<1>1. ASSUME START_COMPLETE PROVE IInv'
  <2>1. BooleansTyped'
    BY <1>1, Zenon DEF TypeOK, BooleansTyped, START_COMPLETE, Flags
  <2>2. TypeOK'
    BY <1>1, <2>1 DEF START_COMPLETE, Assert, Sent, Send, TypeOK, Flags, Ops,
         ChannelStates, HandshakeAsserts, BooleansTyped
  <2>3. ChannelStages'
    BY <1>1 DEF START_COMPLETE, Sent, Send, TypeOK, Ops, Flags, ChannelStages, Answered,
         Outstanding, LifeStages, Submitting
  <2>4. ReceiveStages'
    BY <1>1 DEF START_COMPLETE, Sent, ReceiveStages, LifeStages, Submitting
  <2>5. LifeStages'
    BY <1>1 DEF START_COMPLETE, Sent, LifeStages, Submitting
  <2>6. Bytes'
    BY <1>1 DEF START_COMPLETE, Sent, Bytes
  <2>7. Endings'
    BY <1>1 DEF START_COMPLETE, Sent, Endings, Gone
  <2>8. HandshakeAssertsHold'
    BY <1>1 DEF START_COMPLETE, Assert, LifeStages, Submitting, HandshakeAssertsHold
  <2>. QED BY <2>2, <2>3, <2>4, <2>5, <2>6, <2>7, <2>8
<1>2. ASSUME SEND_COMPLETE PROVE IInv'
  <2>1. BooleansTyped'
    BY <1>2, Zenon DEF TypeOK, BooleansTyped, SEND_COMPLETE, Flags
  <2>2. TypeOK'
    BY <1>2, <2>1 DEF SEND_COMPLETE, Assert, Sent, Send, TypeOK, Flags, Ops,
         ChannelStates, HandshakeAsserts, BooleansTyped
  <2>3. ChannelStages'
    BY <1>2 DEF SEND_COMPLETE, Sent, Send, TypeOK, Ops, Flags, ChannelStages, Answered,
         Outstanding, LifeStages, Submitting
  <2>4. ReceiveStages'
    BY <1>2 DEF SEND_COMPLETE, Sent, ReceiveStages
  <2>5. LifeStages'
    BY <1>2 DEF SEND_COMPLETE, Sent, LifeStages, Submitting
  <2>6. Bytes'
    BY <1>2 DEF SEND_COMPLETE, Sent, Bytes
  <2>7. Endings'
    BY <1>2 DEF SEND_COMPLETE, Sent, Endings, Gone
  <2>8. HandshakeAssertsHold'
    BY <1>2 DEF SEND_COMPLETE, Assert, LifeStages, Submitting, HandshakeAssertsHold
  <2>. QED BY <2>2, <2>3, <2>4, <2>5, <2>6, <2>7, <2>8
<1>3. ASSUME RECEIVE PROVE IInv'
  <2>1. BooleansTyped'
    <3>1. \/ pending_' = [pending_ EXCEPT !.receive_frontend = FALSE]
          \/ pending_' = [pending_ EXCEPT !.receive_backend = TRUE]
      BY <1>3, Zenon DEF RECEIVE
    <3>. QED
      BY <1>3, <3>1, Zenon DEF TypeOK, BooleansTyped, RECEIVE, Flags
  <2>2. TypeOK'
    BY <1>3, <2>1, MaxBytesAssumption DEF RECEIVE, Assert, Sent, Send, NewChannel,
         TypeOK, Errors, ChannelStates, HandshakeAsserts, BooleansTyped
  <2>3. ChannelStages'
    BY <1>3 DEF RECEIVE, Sent, NewChannel, TypeOK, Ops, Flags, ChannelStages, Answered,
         Outstanding
  <2>4. ReceiveStages'
    BY <1>3 DEF RECEIVE, Sent, Send, NewChannel, Create, TypeOK, Ops, Flags,
         ReceiveStages
  <2>5. LifeStages'
    BY <1>3 DEF RECEIVE, Sent, NewChannel, TypeOK, Ops, Flags, LifeStages, Submitting
  <2>6. Bytes'
    BY <1>3 DEF RECEIVE, TypeOK, Bytes, Endings, Gone
  <2>7. Endings'
    BY <1>3 DEF RECEIVE, TypeOK, Endings, Gone
  <2>8. HandshakeAssertsHold'
    BY <1>3 DEF RECEIVE, Assert, ReceiveStages, HandshakeAssertsHold
  <2>. QED BY <2>2, <2>3, <2>4, <2>5, <2>6, <2>7, <2>8
<1>4. ASSUME PEER_SEND_SHUTDOWN PROVE IInv'
  <2>1. BooleansTyped'
    BY <1>4, EndReceiveTyped, Zenon DEF TypeOK, BooleansTyped, PEER_SEND_SHUTDOWN
  <2>2. TypeOK'
    BY <1>4, <2>1, MaxBytesAssumption DEF PEER_SEND_SHUTDOWN, EndReceive, Sent, Send,
         Empty, TypeOK, States, Errors, ChannelStates, BooleansTyped
  <2>3. ChannelStages'
    BY <1>4 DEF PEER_SEND_SHUTDOWN, EndReceive, Sent, TypeOK, Ops, Flags, ChannelStages,
         Answered, Outstanding
  <2>4. ReceiveStages'
    BY <1>4 DEF PEER_SEND_SHUTDOWN, EndReceive, Sent, Send, TypeOK, Ops, Flags,
         ReceiveStages
  <2>5. LifeStages'
    BY <1>4 DEF PEER_SEND_SHUTDOWN, EndReceive, Sent, TypeOK, Ops, Flags, LifeStages,
         Submitting
  <2>6. Bytes'
    BY <1>4 DEF PEER_SEND_SHUTDOWN, EndReceive, Empty, Bytes
  <2>7. Endings'
    BY <1>4 DEF PEER_SEND_SHUTDOWN, EndReceive, Empty, Endings, Gone
  <2>8. HandshakeAssertsHold'
    BY <1>4 DEF PEER_SEND_SHUTDOWN, HandshakeAssertsHold
  <2>. QED BY <2>2, <2>3, <2>4, <2>5, <2>6, <2>7, <2>8
<1>5. ASSUME PEER_SEND_ABORTED PROVE IInv'
  <2>1. BooleansTyped'
    BY <1>5, EndReceiveTyped, Zenon DEF TypeOK, BooleansTyped, PEER_SEND_ABORTED
  <2>2. TypeOK'
    BY <1>5, <2>1, MaxBytesAssumption DEF PEER_SEND_ABORTED, EndReceive, Sent, Send,
         Empty, Assert, TypeOK, States, Errors, ChannelStates, ClosingAsserts,
         BooleansTyped
  <2>3. ChannelStages'
    BY <1>5 DEF PEER_SEND_ABORTED, EndReceive, Sent, TypeOK, Ops, Flags, ChannelStages,
         Answered, Outstanding
  <2>4. ReceiveStages'
    BY <1>5 DEF PEER_SEND_ABORTED, EndReceive, Sent, Send, TypeOK, Ops, Flags,
         ReceiveStages
  <2>5. LifeStages'
    BY <1>5 DEF PEER_SEND_ABORTED, EndReceive, Sent, TypeOK, Ops, Flags, LifeStages,
         Submitting
  <2>6. Bytes'
    BY <1>5 DEF PEER_SEND_ABORTED, EndReceive, Empty, ReceiveStages, Bytes
  <2>7. Endings'
    BY <1>5 DEF PEER_SEND_ABORTED, EndReceive, Empty, Endings, Gone
  <2>8. HandshakeAssertsHold'
    BY <1>5 DEF PEER_SEND_ABORTED, Assert, HandshakeAssertsHold, HandshakeAsserts
  <2>. QED BY <2>2, <2>3, <2>4, <2>5, <2>6, <2>7, <2>8
<1>6. ASSUME SHUTDOWN_COMPLETE PROVE IInv'
  <2>1. BooleansTyped'
    BY <1>6, Zenon DEF TypeOK, BooleansTyped, SHUTDOWN_COMPLETE, ClearWaiting, Flags
  <2>2. TypeOK'
    BY <1>6, <2>1, MaxBytesAssumption DEF SHUTDOWN_COMPLETE, ClearWaiting, Send, Empty,
         Assert, TypeOK, States, Errors, ChannelStates, ClosingAsserts, BooleansTyped
  <2>3. ChannelStages'
    <3>1. chan'["start"] = chan["start"] /\ (pending_'["start"] <=> pending_["start"])
      BY <1>6 DEF SHUTDOWN_COMPLETE, ClearWaiting, Ops, WaitsAtShutdown
    <3>2. chan'["send"] = chan["send"] /\ (pending_'["send"] <=> pending_["send"])
      BY <1>6 DEF SHUTDOWN_COMPLETE, ClearWaiting, Ops, WaitsAtShutdown
    <3>3. /\ chan'["shutdown"] = IF chan["shutdown"] = "open" THEN "sent" ELSE chan["shutdown"]
          /\ ~pending_'["shutdown"]
      BY <1>6 DEF SHUTDOWN_COMPLETE, ClearWaiting, Ops, WaitsAtShutdown, Send, ChannelStages,
           Answered
    <3>4. op' = op /\ call' = call
      BY <1>6 DEF SHUTDOWN_COMPLETE
    <3>. QED
      BY <2>1, <3>1, <3>2, <3>3, <3>4 DEF ChannelStages, Answered, Outstanding
  <2>4. ReceiveStages'
    BY <1>6 DEF SHUTDOWN_COMPLETE, ClearWaiting, Ops, WaitsAtShutdown, Send, ReceiveStages
  <2>5. LifeStages'
    BY <1>6 DEF SHUTDOWN_COMPLETE, ClearWaiting, Ops, WaitsAtShutdown, TypeOK, LifeStages,
         Submitting
  <2>6. Bytes'
    BY <1>6 DEF SHUTDOWN_COMPLETE, Ops, WaitsAtShutdown, Empty, ReceiveStages, Bytes
  <2>7. Endings'
    BY <1>6 DEF SHUTDOWN_COMPLETE, Ops, WaitsAtShutdown, Empty, Endings, Gone
  <2>8. HandshakeAssertsHold'
    BY <1>6 DEF SHUTDOWN_COMPLETE, Assert, HandshakeAssertsHold, HandshakeAsserts
  <2>. QED BY <2>2, <2>3, <2>4, <2>5, <2>6, <2>7, <2>8
<1>. QED BY <1>1, <1>2, <1>3, <1>4, <1>5, <1>6 DEF Callback

------------------------------------------------------------------------------
\* The inductive invariant holds throughout

\* A stream that was just opened, or came from the listener, satisfies it.
LEMMA InitIInv == Init => IInv
<1> SUFFICES ASSUME Init PROVE IInv
  OBVIOUS
<1>1. TypeOK
  <2>1. BooleansTyped
    BY Zenon DEF Init, BooleansTyped
  <2>2. /\ chan \in [Ops -> ChannelStates]
        /\ op \in [Ops -> {"idle", "waiting", "copied"}]
    BY DEF Init, ChannelStates
  <2>3. data \in [ec : Errors, from : 0 .. MaxBytes, len : 0 .. MaxBytes]
    BY MaxBytesAssumption DEF Init, Errors
  <2>. QED BY <2>1, <2>2, <2>3, MaxBytesAssumption DEF Init, TypeOK, BooleansTyped, States
<1>2. ChannelStages /\ ReceiveStages /\ LifeStages
  BY DEF Init, ChannelStages, ReceiveStages, LifeStages, Submitting, Answered,
       Outstanding, Ops, Flags
<1>3. Bytes /\ Endings /\ HandshakeAssertsHold
  BY DEF Init, Bytes, Endings, HandshakeAssertsHold, Ops
<1>. QED BY <1>1, <1>2, <1>3 DEF IInv

\* Every step of user, executor and msquic keeps it.
LEMMA NextIInv == IInv /\ [Next]_vars => IInv'
<1>1. ASSUME IInv, UNCHANGED vars PROVE IInv'
  BY <1>1 DEF IInv, vars, ctx, front, msquic, seen, TypeOK, ChannelStages, ReceiveStages,
       LifeStages, Bytes, Endings, HandshakeAssertsHold, Outstanding, Submitting, Gone
<1>. QED BY <1>1, UserStep, FrontendStep, CallbackStep DEF Next

\* Flags, channels, what msquic owes and the byte counts fit together always.
THEOREM Invariance == Spec => []IInv
<1>. QED BY InitIInv, NextIInv, PTL DEF Spec

------------------------------------------------------------------------------
\* What the runs check, for every MaxBytes

\* Every variable keeps its type; no count leaves what the peer sends.
THEOREM TypeCorrect == Spec => []TypeOK
<1>1. IInv => TypeOK
  BY DEF IInv
<1>. QED BY <1>1, Invariance, PTL

\* The asserts of async_start, async_send, async_receive, START_COMPLETE,
\* SEND_COMPLETE and RECEIVE never fail.
THEOREM AssertsHold == Spec => []HandshakeAssertsHold
<1>1. IInv => HandshakeAssertsHold
  BY DEF IInv
<1>. QED BY <1>1, Invariance, PTL

\* No channel is sent on twice, read early, or replaced while its value is
\* unread or its receiver waited on.
THEOREM ChannelDiscipline == Spec => []ChannelsNeverMisused
<1>1. IInv => ChannelsNeverMisused
  BY DEF IInv, ChannelStages, ReceiveStages, Answered, Ops, ChannelsNeverMisused
<1>. QED BY <1>1, Invariance, PTL

\* Every operation that was called has its value or an event to come that brings
\* one, but for a reader whose rest of a partial read is kept by a paused msquic.
THEOREM NobodyStranded == Spec => []NoWaiterStranded
<1>1. ASSUME IInv, NEW o \in Answered, op[o] \in {"called", "waiting"}, chan[o] # "sent"
      PROVE  Owed(o)
  <2>1. pending_[o]
    BY <1>1 DEF IInv, ChannelStages, Outstanding, LifeStages, Answered, Ops
  <2>. QED BY <1>1, <2>1 DEF IInv, LifeStages, Submitting, Answered, Owed
<1>2. ASSUME IInv, op["receive"] \in {"called", "waiting"}, chan["receive"] # "sent"
      PROVE  Owed("receive") \/ WaitsForTheRest("receive")
  <2>1. op["receive"] = "waiting"
    BY <1>2 DEF IInv, LifeStages, TypeOK, Ops
  <2>2. chan["receive"] = "open" /\ ~pending_.receive_backend /\ ~rcv
    BY <1>2, <2>1 DEF IInv, ReceiveStages
  <2>. QED BY <1>2, <2>2 DEF IInv, ReceiveStages, LifeStages, Owed, WaitsForTheRest
<1>3. IInv => NoWaiterStranded
  BY <1>1, <1>2 DEF NoWaiterStranded, Ops, Answered
<1>. QED BY <1>3, Invariance, PTL

\* A user whose buffer always has room for what was indicated.
RoomForAll == \A bufferLen \in 0 .. MaxBytes :
                ReceiveGet(bufferLen) => data.len <= bufferLen

\* Only who leaves a rest is in that position: who always has room for all that
\* was indicated never finds msquic paused, and waits only for what comes.
THEOREM NobodyStrandedWhoReadsAll ==
  Spec /\ [][RoomForAll]_vars =>
    [](\A o \in Ops : op[o] \in {"called", "waiting"} => chan[o] = "sent" \/ Owed(o))
<1> DEFINE Whole == ~paused /\ (op["receive"] = "copied" /\ rcv => consumed + copied = sent)
<1>1. Init => Whole
  BY DEF Init, Ops
<1>2. ASSUME IInv, Whole, [Next /\ RoomForAll]_vars PROVE Whole'
  <2> USE DEF ctx, front, msquic
  <2>1. ASSUME NEW bufferLen \in 0 .. MaxBytes, ReceiveGet(bufferLen),
               data.len <= bufferLen
        PROVE  Whole'
    <3>1. copied' = data.len
      BY <1>2, <2>1, MaxBytesAssumption DEF ReceiveGet, Copied, IInv, TypeOK
    <3>2. rcv => consumed + data.len = sent
      BY <1>2, <2>1 DEF ReceiveGet, Ready, IInv, Bytes
    <3>. QED BY <1>2, <2>1, <3>1, <3>2 DEF ReceiveGet
  <2>2. CASE ReceiveComplete
    BY <1>2, <2>2 DEF ReceiveComplete, Acknowledged, IInv, TypeOK, Ops
  <2>3. CASE RECEIVE
    BY <1>2, <2>3 DEF RECEIVE, IInv, ReceiveStages
  <2>4. ASSUME NEW o \in Ops, AsyncWait(o) \/ Complete(o) PROVE Whole'
    BY <1>2, <2>4 DEF AsyncWait, Complete, Ready, IInv, TypeOK, Ops
  <2>5. CASE User \/ StreamStart \/ StreamSend
    BY <1>2, <2>5 DEF User, AsyncStart, AsyncSend, AsyncReceive, AsyncShutdown, Close,
       StreamStart, StreamSend, IInv, TypeOK, Ops
  <2>6. CASE Callback /\ ~RECEIVE
    BY <1>2, <2>6 DEF Callback, START_COMPLETE, SEND_COMPLETE, PEER_SEND_SHUTDOWN,
       PEER_SEND_ABORTED, SHUTDOWN_COMPLETE
  <2>7. CASE UNCHANGED vars
    BY <1>2, <2>7 DEF vars
  <2>. QED BY <1>2, <2>1, <2>2, <2>3, <2>4, <2>5, <2>6, <2>7
       DEF Next, Frontend, RoomForAll
<1>3. NoWaiterStranded /\ Whole =>
        \A o \in Ops : op[o] \in {"called", "waiting"} => chan[o] = "sent" \/ Owed(o)
  BY DEF NoWaiterStranded, WaitsForTheRest
<1>4. [Next]_vars /\ [RoomForAll]_vars => [Next /\ RoomForAll]_vars
  OBVIOUS
<1>. QED BY <1>1, <1>2, <1>3, <1>4, Invariance, NobodyStranded, PTL DEF Spec

\* After SHUTDOWN_COMPLETE a flag stands only for a call in progress, or for
\* bytes the user has yet to ask for.
THEOREM Settled == Spec => []NothingOwedAtEnd
<1>1. IInv => NothingOwedAtEnd
  BY DEF IInv, ReceiveStages, LifeStages, Submitting, NothingOwedAtEnd
<1>. QED BY <1>1, Invariance, PTL

\* What RECEIVE hands over starts at the first byte the user has not had.
THEOREM InOrder == Spec => []BytesInOrder
<1>1. IInv => BytesInOrder
  BY DEF IInv, Bytes, ReceiveStages, BytesInOrder
<1>. QED BY <1>1, Invariance, PTL

------------------------------------------------------------------------------
\* The stream implements ByteStream

\* A new stream is a new byte stream.
LEMMA InitRefines == Init => BS!Init
BY DEF Init, BS!Init

\* What only the bookkeeping of the handle changes, the reader does not see.
LEMMA StepRefines == IInv /\ [Next]_vars => [BS!Next]_(BS!vars)
<1> SUFFICES ASSUME IInv, [Next]_vars PROVE [BS!Next]_(BS!vars)
  OBVIOUS
<1> USE DEF ctx, front, msquic, seen, BS!vars
<1>1. CASE UNCHANGED vars
  BY <1>1 DEF vars
<1>2. CASE AsyncStart \/ AsyncSend \/ AsyncReceive \/ AsyncShutdown \/ StreamSend
  BY <1>2 DEF AsyncStart, AsyncSend, AsyncReceive, AsyncShutdown, StreamSend
<1>3. CASE StreamStart \/ START_COMPLETE
  BY <1>3 DEF IInv, LifeStages, StreamStart, START_COMPLETE, Submitting
<1>4. CASE ReceiveComplete \/ SEND_COMPLETE \/ \E o \in Ops : AsyncWait(o) \/ Complete(o)
  BY <1>4 DEF ReceiveComplete, SEND_COMPLETE, AsyncWait, Complete
<1>5. CASE RECEIVE
  BY <1>5, MaxBytesAssumption DEF RECEIVE, IInv, TypeOK, BS!Next, BS!Arrive
<1>6. CASE PEER_SEND_SHUTDOWN
  BY <1>6 DEF PEER_SEND_SHUTDOWN, BS!Next, BS!Finish
<1>7. CASE PEER_SEND_ABORTED \/ SHUTDOWN_COMPLETE \/ Close
  BY <1>7 DEF PEER_SEND_ABORTED, SHUTDOWN_COMPLETE, Close, BS!Next, BS!Lose
<1>8. ASSUME NEW bufferLen \in 0 .. MaxBytes, ReceiveGet(bufferLen)
      PROVE  [BS!Next]_(BS!vars)
  <2>1. chan["receive"] = "sent" /\ op["receive"] = "waiting"
    BY <1>8 DEF ReceiveGet, Ready
  <2>2. CASE data.len > 0
    <3>1. got' = got + copied' /\ copied' \in 0 .. data.len /\ ended' = ended
      BY <1>8, <2>2, MaxBytesAssumption DEF ReceiveGet, Copied, IInv, TypeOK
    <3>2. got + data.len = sent /\ ended = "no"
      BY <2>1, <2>2, MaxBytesAssumption DEF IInv, Bytes, TypeOK
    <3>3. CASE copied' = 0             \* the user had no room
      BY <1>8, <3>1, <3>3 DEF ReceiveGet, IInv, TypeOK
    <3>4. CASE copied' > 0
      BY <1>8, <3>1, <3>2, <3>4, MaxBytesAssumption
      DEF ReceiveGet, IInv, TypeOK, BS!Next, BS!Take
    <3>. QED BY <3>1, <3>3, <3>4
  <2>3. CASE data.len = 0
    <3>1. copied' = 0 /\ got' = got
      BY <1>8, <2>3, MaxBytesAssumption DEF ReceiveGet, Copied, IInv, TypeOK
    <3>2. CASE data.ec = "ok"
      <4>1. peer = "fin" /\ ended # "error" /\ got = sent
        BY <2>1, <2>3, <3>2 DEF IInv, Endings, Bytes
      <4>. QED BY <1>8, <2>3, <3>1, <3>2, <4>1
           DEF ReceiveGet, IInv, TypeOK, BS!Next, BS!EndOfStream
    <3>3. CASE data.ec # "ok"
      BY <1>8, <2>1, <2>3, <3>1, <3>3
      DEF ReceiveGet, IInv, Endings, Gone, BS!Next, BS!Fail
    <3>. QED BY <3>2, <3>3
  <2>. QED BY <2>2, <2>3 DEF IInv, TypeOK
<1>. QED BY <1>1, <1>2, <1>3, <1>4, <1>5, <1>6, <1>7, <1>8 DEF Next, User, Frontend, Callback

\* Bytes reach the user once and in order, a clean end of stream comes only
\* after the peer's last byte, and nothing comes after an end.
THEOREM Refinement == Spec => DeliversByteStream
<1>. QED BY InitRefines, StepRefines, Invariance, PTL DEF Spec, DeliversByteStream, BS!Spec

\* What that means for the user: who is told a clean end of stream has been
\* given every byte the peer sent,
THEOREM EndMeansAll == Spec => [](ended = "eof" => peer = "fin" /\ got = sent)
<1>1. ASSUME IInv, ended = "eof" PROVE peer = "fin" /\ got = sent
  <2>1. peer = "fin" /\ consumed = sent
    BY <1>1 DEF IInv, Endings, Bytes
  <2>2. CASE op["receive"] = "copied"
    BY <2>1, <2>2, <1>1 DEF IInv, TypeOK, Bytes
  <2>3. CASE op["receive"] # "copied"
    BY <2>1, <2>3, <1>1 DEF IInv, Bytes
  <2>. QED BY <2>1, <2>2, <2>3
<1>. QED BY <1>1, Invariance, PTL

\* and no byte comes after an end, nor a clean end after an error.
THEOREM NothingAfterTheEnd ==
  Spec => [][/\ ended # "no" => got' = got /\ ended' # "no"
             /\ ended = "error" => ended' = "error"]_vars
<1>1. ASSUME [BS!Next]_(BS!vars)
      PROVE  /\ ended # "no" => got' = got /\ ended' # "no"
             /\ ended = "error" => ended' = "error"
  BY <1>1 DEF BS!Next, BS!Arrive, BS!Finish, BS!Lose, BS!Take, BS!EndOfStream, BS!Fail,
       BS!vars
<1>2. IInv /\ [Next]_vars =>
        [/\ ended # "no" => got' = got /\ ended' # "no"
         /\ ended = "error" => ended' = "error"]_vars
  BY <1>1, StepRefines
<1>. QED BY <1>2, Invariance, PTL DEF Spec

------------------------------------------------------------------------------
\* Where the asserts of the closing events go wrong

\* They fail where the findings say and nowhere else: that of PEER_SEND_ABORTED
\* with a send accepted or being submitted, those of SHUTDOWN_COMPLETE with a
\* send being submitted or bytes that came before the user asked.
THEOREM ClosingAssertsFailOnlyThere ==
  Spec => [][/\ "abort_send" \in failed' \ failed => sendq \/ Submitting("send")
             /\ "complete_send" \in failed' \ failed => Submitting("send")
             /\ "complete_receive_backend" \in failed' \ failed =>
                  op["receive"] = "idle" /\ chan["receive"] = "sent" /\ data.len > 0]_vars
<1> DEFINE OnlyThere ==
      /\ "abort_send" \in failed' \ failed => sendq \/ Submitting("send")
      /\ "complete_send" \in failed' \ failed => Submitting("send")
      /\ "complete_receive_backend" \in failed' \ failed =>
           op["receive"] = "idle" /\ chan["receive"] = "sent" /\ data.len > 0
<1>1. ASSUME IInv, PEER_SEND_ABORTED PROVE OnlyThere
  BY <1>1 DEF PEER_SEND_ABORTED, Assert, IInv, LifeStages
<1>2. ASSUME IInv, SHUTDOWN_COMPLETE PROVE OnlyThere
  BY <1>2 DEF SHUTDOWN_COMPLETE, Assert, IInv, LifeStages, ReceiveStages
<1>3. ASSUME [Next]_vars, ~PEER_SEND_ABORTED, ~SHUTDOWN_COMPLETE PROVE OnlyThere
  <2>1. failed' \ failed \subseteq HandshakeAsserts
    BY <1>3 DEF Next, User, Frontend, Callback, vars, AsyncStart, AsyncSend, AsyncReceive,
       AsyncShutdown, Close, StreamStart, StreamSend, AsyncWait, ReceiveComplete, Complete,
       ReceiveGet, START_COMPLETE, SEND_COMPLETE, RECEIVE, PEER_SEND_SHUTDOWN, Assert,
       HandshakeAsserts
  <2>. QED BY <2>1 DEF HandshakeAsserts
<1>4. IInv /\ [Next]_vars => [OnlyThere]_vars
  BY <1>1, <1>2, <1>3
<1>. QED BY <1>4, Invariance, PTL DEF Spec

==============================================================================
