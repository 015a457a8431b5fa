--------------------------- MODULE ListenerHandle ---------------------------
(***************************************************************************)
(* basic_listener_handle and its callback (basic_listener_handle.hpp).     *)
(*                                                                         *)
(* msquic may run NEW_CONNECTION for several connections at once, each on  *)
(* a worker of its own.  Each unlocks, blocks on accept_bs_ until an       *)
(* async_accept releases it, and delivers without the lock.  async_stop    *)
(* unlocks before ListenerStop, which returns after STOP_COMPLETE, and     *)
(* that comes when no other callback is running.  mtx_ is free or with the *)
(* callback or call that holds it from one step to the next.  One thread   *)
(* accepts in a loop and another one stops the listener, as in             *)
(* tests/msquic_test.cpp:322-341.  A failed assert is recorded in failed   *)
(* and execution goes on, as in a build with NDEBUG.                       *)
(***************************************************************************)
EXTENDS Naturals, FiniteSets, Oneshot

CONSTANTS Connections,   \* connections that clients may attempt
          NoConnection   \* a handle that holds no connection

ASSUME NoConnectionAssumption == NoConnection \notin Connections

Ops == {"accept", "stop"}

VARIABLES
  state_,     \* the context's view of the listener
  pending_,   \* pending_actions
  mtx_,       \* the context's lock: free, or who holds it
  accept_bs_, \* tokens of the binary semaphore
  chan,       \* the one-shot channel of each operation
  connection, \* the connection in the accept channel
  op,         \* per operation: no call, async_stop before its unlock or
              \* inside ListenerStop, or waiting
  life,       \* msquic: where the listener is in its life
  locked,     \* msquic: callbacks that have not unlocked
  acquiring,  \* msquic: callbacks blocked on accept_bs_
  delivering, \* msquic: callbacks that have their token
  arrived,    \* history: connections that were attempted
  taken,      \* history: connections handed to an accept's handler
  refused,    \* history: an accept was handed no connection
  failed      \* history: the asserts that did not hold

ctx == <<state_, pending_, mtx_, accept_bs_, chan, connection>>
msquic == <<life, locked, acquiring, delivering>>
seen == <<arrived, taken, refused>>
vars == <<ctx, op, msquic, seen, failed>>

\* The listener was opened.
Init == /\ state_ = "ok"
        /\ pending_ = [f \in Ops |-> FALSE]
        /\ mtx_ = "free"
        /\ accept_bs_ = 0
        /\ chan = [o \in Ops |-> "none"]
        /\ connection = NoConnection
        /\ op = [o \in Ops |-> "idle"]
        /\ life = "opened"
        /\ locked = {} /\ acquiring = {} /\ delivering = {}
        /\ arrived = {} /\ taken = {} /\ refused = FALSE
        /\ failed = {}

------------------------------------------------------------------------------
\* Helpers

Assert(name, holds) == IF holds THEN {} ELSE {name}

NewChannel(o) == [chan EXCEPT ![o] = Create(@, op[o] = "waiting")]
Sent(c, o) == [c EXCEPT ![o] = Send(@)]

\* Slips of the code, for checking that the properties notice them.
KeepToken(tokens) == tokens
NoRelease(tokens) == tokens
KeepAccept(p) == p
NeverStopped == FALSE
StoppedFromTheStart == life # "opened"
KeepLock(m) == m
AllOutstanding == {o \in Ops : op[o] # "idle"}

\* lock.unlock()
Unlock(m) == "free"

\* accept_bs_
Release(tokens) == tokens + 1
Acquire(tokens) == tokens - 1

AlreadyStopped == state_ = "stopped"
TakeAccept(p) == [p EXCEPT !.accept = FALSE]

\* msquic's rundown: no STOP_COMPLETE while a callback is running
NoOtherCallback == locked = {} /\ acquiring = {} /\ delivering = {}

\* What STOP_COMPLETE completes.
WaitsAtStop == {o \in Ops : pending_[o]}

------------------------------------------------------------------------------
\* The user's calls

\* ListenerStart; a listener is started once.
Start ==
  /\ life = "opened"
  /\ life' = "started"
  /\ UNCHANGED <<ctx, op, locked, acquiring, delivering, seen, failed>>

\* async_accept can be called and does not wait for the lock.
MayAccept == life # "closed" /\ op["accept"] = "idle" /\ mtx_ = "free"

AsyncAccept ==
  /\ MayAccept
  /\ op' = [op EXCEPT !["accept"] = "waiting"]
  /\ failed' = failed \cup Assert("async_accept", ~pending_.accept)
  /\ IF AlreadyStopped
     THEN /\ chan' = Sent(NewChannel("accept"), "accept")
          /\ connection' = NoConnection
          /\ UNCHANGED <<pending_, accept_bs_>>
     ELSE /\ chan' = NewChannel("accept")
          /\ pending_' = [pending_ EXCEPT !.accept = TRUE]
          /\ accept_bs_' = Release(accept_bs_)
          /\ UNCHANGED connection
  /\ UNCHANGED <<state_, mtx_, msquic, seen>>

\* Up to lock.unlock(), or all of the call when the listener has stopped.
AsyncStop ==
  /\ life \in {"started", "stopped"} /\ op["stop"] = "idle" /\ mtx_ = "free"
  /\ failed' = failed \cup Assert("async_stop", ~pending_.stop)
  /\ IF AlreadyStopped
     THEN /\ chan' = Sent(NewChannel("stop"), "stop")
          /\ op' = [op EXCEPT !["stop"] = "waiting"]
          /\ UNCHANGED <<pending_, mtx_>>
     ELSE /\ chan' = NewChannel("stop")
          /\ pending_' = [pending_ EXCEPT !.stop = TRUE]
          /\ op' = [op EXCEPT !["stop"] = "locked"]
          /\ mtx_' = "stop"
  /\ UNCHANGED <<state_, accept_bs_, connection, msquic, seen>>

\* "so we need to release lock here"
UnlockForStop ==
  /\ op["stop"] = "locked"
  /\ op' = [op EXCEPT !["stop"] = "calling"]
  /\ mtx_' = Unlock(mtx_)
  /\ UNCHANGED <<state_, pending_, accept_bs_, chan, connection, msquic, seen, failed>>

\* The call of ListenerStop: no connection is accepted from now on.
ListenerStop ==
  /\ op["stop"] = "calling" /\ life = "started"
  /\ life' = "stopping"
  /\ UNCHANGED <<ctx, op, locked, acquiring, delivering, seen, failed>>

\* Its return, and the async_wait.
ListenerStopped ==
  /\ op["stop"] = "calling" /\ life = "stopped"
  /\ op' = [op EXCEPT !["stop"] = "waiting"]
  /\ UNCHANGED <<ctx, msquic, seen, failed>>

\* close() and the destructor: the handlers capture this, so no operation is
\* outstanding; ListenerClose waits for the callbacks.
Close ==
  /\ life # "closed" /\ NoOtherCallback
  /\ \A o \in Ops : op[o] = "idle"
  /\ life' = "closed"
  /\ UNCHANGED <<ctx, op, locked, acquiring, delivering, seen, failed>>

\* The completion handlers, run by the executor: get, then the user's handler.
Complete(o) ==
  /\ op[o] = "waiting" /\ chan[o] = "sent"
  /\ chan' = [chan EXCEPT ![o] = Get(@)]
  /\ op' = [op EXCEPT ![o] = "idle"]
  /\ IF o = "accept"
     THEN /\ taken' = taken \cup ({connection} \ {NoConnection})
          /\ refused' = (refused \/ connection = NoConnection)
     ELSE UNCHANGED <<taken, refused>>
  /\ UNCHANGED <<state_, pending_, mtx_, accept_bs_, connection, msquic, arrived, failed>>

------------------------------------------------------------------------------
\* AsioServerListenerCallback, one action per event

NEW_CONNECTION ==
  /\ life = "started" /\ mtx_ = "free"
  /\ \E c \in Connections \ arrived :
       /\ mtx_' = c
       /\ locked' = locked \cup {c}
       /\ arrived' = arrived \cup {c}
  /\ UNCHANGED <<state_, pending_, accept_bs_, chan, connection, op, life, acquiring,
                 delivering, taken, refused, failed>>

\* "let frontend proceed"
UnlockForAccept(c) ==
  /\ c \in locked
  /\ mtx_' = Unlock(mtx_)
  /\ locked' = locked \ {c}
  /\ acquiring' = acquiring \cup {c}
  /\ UNCHANGED <<state_, pending_, accept_bs_, chan, connection, op, life, delivering,
                 seen, failed>>

\* "wait for front end"
AcquireAccept(c) ==
  /\ c \in acquiring /\ accept_bs_ > 0
  /\ accept_bs_' = Acquire(accept_bs_)
  /\ acquiring' = acquiring \ {c}
  /\ delivering' = delivering \cup {c}
  /\ UNCHANGED <<state_, pending_, mtx_, chan, connection, op, life, locked, seen, failed>>

DeliverConnection(c) ==
  /\ c \in delivering
  /\ delivering' = delivering \ {c}
  /\ failed' = failed \cup Assert("NEW_CONNECTION", pending_.accept)
  /\ pending_' = TakeAccept(pending_)
  /\ chan' = Sent(chan, "accept")
  /\ connection' = c
  /\ UNCHANGED <<state_, mtx_, accept_bs_, op, life, locked, acquiring, seen>>

STOP_COMPLETE ==
  /\ life = "stopping" /\ NoOtherCallback /\ mtx_ = "free"
  /\ life' = "stopped"
  /\ state_' = "stopped"
  /\ pending_' = [o \in Ops |-> pending_[o] /\ o \notin WaitsAtStop]
  /\ chan' = [o \in Ops |-> IF o \in WaitsAtStop THEN Send(chan[o]) ELSE chan[o]]
  /\ connection' = IF "accept" \in WaitsAtStop THEN NoConnection ELSE connection
  /\ UNCHANGED <<mtx_, accept_bs_, op, locked, acquiring, delivering, seen, failed>>

------------------------------------------------------------------------------
User == \/ Start \/ AsyncAccept \/ AsyncStop \/ UnlockForStop
        \/ ListenerStop \/ ListenerStopped \/ Close

Callback == \/ NEW_CONNECTION \/ STOP_COMPLETE
            \/ \E c \in Connections : UnlockForAccept(c) \/ AcquireAccept(c) \/ DeliverConnection(c)

Next == User \/ Callback \/ \E o \in Ops : Complete(o)

Spec == Init /\ [][Next]_vars

(***************************************************************************)
(* The server accepts until it is refused, the loop of                     *)
(* tests/msquic_test.cpp; the stopping thread finishes its call; the       *)
(* executor and msquic's workers go on when they can; which of the blocked *)
(* callbacks a token wakes is left open.                                   *)
(***************************************************************************)
Fairness == /\ WF_vars(~refused /\ AsyncAccept)
            /\ WF_vars(UnlockForStop)
            /\ WF_vars(ListenerStop) /\ WF_vars(ListenerStopped)
            /\ \A o \in Ops : WF_vars(Complete(o))
            /\ WF_vars(\E c \in Connections : AcquireAccept(c))
            /\ \A c \in Connections : WF_vars(UnlockForAccept(c)) /\ WF_vars(DeliverConnection(c))
            /\ WF_vars(STOP_COMPLETE)

FairSpec == Spec /\ Fairness

------------------------------------------------------------------------------
\* Properties

TypeOK ==
  /\ state_ \in {"ok", "stopped"}
  /\ pending_ \in [Ops -> BOOLEAN]
  /\ mtx_ \in Connections \cup {"free", "stop"}
  /\ accept_bs_ \in 0 .. 1
  /\ chan \in [Ops -> ChannelStates]
  /\ connection \in Connections \cup {NoConnection}
  /\ op \in [Ops -> {"idle", "locked", "calling", "waiting"}]
  /\ life \in {"opened", "started", "stopping", "stopped", "closed"}
  /\ locked \subseteq Connections
  /\ acquiring \subseteq Connections /\ delivering \subseteq Connections
  /\ arrived \subseteq Connections /\ taken \subseteq Connections
  /\ refused \in BOOLEAN
  /\ failed \subseteq {"async_accept", "async_stop", "NEW_CONNECTION"}

\* Neither side of the hand-over finds the accept flag in a state it does not
\* expect, and none of the channels is sent to or read out of turn or replaced
\* under a waiting handler.
HandOverIsOrderly == failed = {} /\ \A o \in Ops : chan[o] # "misused"

\* Until the listener has stopped there is one token for each pending accept,
\* on the semaphore or with the one callback that acquired it.
TokenPerAccept ==
  state_ = "ok" => accept_bs_ + Cardinality(delivering)
                     = IF pending_.accept THEN 1 ELSE 0

\* However many callbacks wait at once, a connection that was attempted is in
\* a callback, in the channel or with the user, and in one of them only.
NoConnectionLost ==
  LET offered == IF chan["accept"] = "sent" THEN {connection} \ {NoConnection} ELSE {}
      held == locked \cup acquiring \cup delivering
  IN /\ arrived = taken \cup offered \cup held
     /\ taken \cap offered = {} /\ taken \cap held = {} /\ offered \cap held = {}
     /\ acquiring \cap delivering = {}

\* ListenerStop has returned before async_stop waits, so what it waits for is
\* there; and no accept waits without its value once no callback comes any
\* more.
NoWaiterStranded ==
  \A o \in Ops : op[o] = "waiting" =>
    \/ chan[o] = "sent"
    \/ o = "accept" /\ life \in {"opened", "started", "stopping"}

\* The lock, the semaphore and ListenerStop never all wait for each other:
\* while a callback runs, one that has left the semaphore or not yet reached
\* it goes on, or the stop is about to unlock, or a token is there, or the last
\* accept's handler can run, or async_accept can be called and not block.
CallbacksNeverStuck ==
  ~NoOtherCallback =>
    \/ locked # {} \/ delivering # {} \/ accept_bs_ > 0
    \/ op["stop"] = "locked"
    \/ chan["accept"] = "sent" \/ MayAccept

\* async_accept keeps the promise of AcceptQueue.
AQ == INSTANCE AcceptQueue WITH closed <- state_ = "stopped"
KeepsAcceptPromise == AQ!Spec

\* While the server goes on accepting, a stop gets through every callback in
\* flight and completes, and it completes the last accept: neither mtx_ nor
\* the semaphore keeps async_accept, a callback and ListenerStop apart.
StopCompletes ==
  /\ op["stop"] # "idle" ~> op["stop"] = "idle"
  /\ life = "stopping" /\ op["accept"] = "waiting" ~> op["accept"] = "idle"

==============================================================================
