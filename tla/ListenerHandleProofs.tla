------------------------ MODULE ListenerHandleProofs ------------------------
(***************************************************************************)
(* Safety of the listener handle, proved for any set of connections, and   *)
(* so for any number of NEW_CONNECTION callbacks at once: an inductive     *)
(* invariant on channels, tokens and where each connection is, the         *)
(* properties of ListenerHandle that follow from it, and that async_accept *)
(* implements AcceptQueue.                                                 *)
(***************************************************************************)
EXTENDS ListenerHandle, FiniteSetTheorems, TLAPS

------------------------------------------------------------------------------
\* The inductive invariant

\* A flag is set exactly while a callback still owes the channel its value,
\* and a channel is in use exactly while its operation is outstanding.
ChannelStages ==
  /\ \A o \in Ops :
       /\ chan[o] # "misused"
       /\ pending_[o] <=> chan[o] = "open"
       /\ op[o] # "idle" <=> chan[o] \in {"open", "sent"}
  /\ op["accept"] \in {"idle", "waiting"}

\* After STOP_COMPLETE no callback runs and nothing is owed.
StoppedForGood ==
  /\ life = "stopped" \/ op["stop"] = "waiting" => state_ = "stopped"
  /\ state_ = "stopped" =>
       /\ life \in {"stopped", "closed"}
       /\ \A o \in Ops : ~pending_[o]
       /\ locked = {} /\ acquiring = {} /\ delivering = {}

\* Callbacks run only until the listener has stopped, and whoever has the lock
\* is about to release it; nothing is outstanding on a closed listener.
Running ==
  /\ ~NoOtherCallback => life \in {"started", "stopping"}
  /\ mtx_ # "free" => mtx_ \in locked \/ op["stop"] = "locked"
  /\ life = "closed" => \A o \in Ops : op[o] = "idle"

\* The token of a pending accept is on the semaphore or with one callback.
OneToken ==
  state_ = "ok" =>
    \/ delivering = {} /\ accept_bs_ = (IF pending_["accept"] THEN 1 ELSE 0)
    \/ \E c \in Connections : /\ delivering = {c}
                              /\ accept_bs_ = 0 /\ pending_["accept"]

Offered == IF chan["accept"] = "sent" THEN {connection} \ {NoConnection} ELSE {}
Held == locked \cup acquiring \cup delivering

\* A connection is in one place.
Places ==
  /\ arrived = taken \cup Offered \cup Held
  /\ taken \cap Offered = {} /\ taken \cap Held = {} /\ Offered \cap Held = {}
  /\ locked \cap acquiring = {} /\ locked \cap delivering = {}
  /\ acquiring \cap delivering = {}

\* A refusal comes after STOP_COMPLETE, and only refusals come after it.
Refusals ==
  /\ chan["accept"] = "sent" /\ connection = NoConnection => state_ = "stopped"
  /\ refused => state_ = "stopped" /\ Offered = {}

IInv == /\ TypeOK
        /\ ChannelStages
        /\ StoppedForGood
        /\ Running
        /\ OneToken
        /\ Places
        /\ Refusals
        /\ failed = {}

------------------------------------------------------------------------------
\* The flags are typed apart: Zenon is at home with Boolean values, SMT with
\* the rest.
FlagsTyped == pending_ \in [Ops -> BOOLEAN]

\* No call of the user breaks the invariant.
LEMMA UserStep == ASSUME IInv, User PROVE IInv'
<1> USE DEF IInv, ctx, msquic, seen
<1>1. ASSUME Start PROVE IInv'
  BY <1>1 DEF Start, TypeOK, ChannelStages, StoppedForGood, Running,
     NoOtherCallback, OneToken, Places,
     Offered, Held, Refusals
<1>2. ASSUME AsyncAccept PROVE IInv'
  <2>1. FlagsTyped'
    BY <1>2, Zenon DEF TypeOK, FlagsTyped, AsyncAccept
  <2>2. TypeOK'
    BY <1>2, <2>1 DEF AlreadyStopped, AsyncAccept, MayAccept, NewChannel, Create, Sent, Assert,
       Release, TypeOK, Ops, ChannelStates, FlagsTyped, OneToken, ChannelStages
  <2>3. ChannelStages'
    BY <1>2 DEF AsyncAccept, MayAccept, NewChannel, Create, Sent, Send, TypeOK, ChannelStages
  <2>4. StoppedForGood'
    BY <1>2 DEF AsyncAccept, MayAccept, AlreadyStopped, StoppedForGood
  <2>5. OneToken'
    BY <1>2 DEF AsyncAccept, MayAccept, Release, TypeOK, Ops, ChannelStages, OneToken
  <2>6. Places'
    BY <1>2 DEF AsyncAccept, MayAccept, NewChannel, Create, TypeOK, Ops,
       ChannelStages, Offered, Held, Places
  <2>7. Refusals'
    BY <1>2 DEF AsyncAccept, MayAccept, NewChannel, Create, Sent, Send,
       AlreadyStopped, TypeOK, Ops, ChannelStages, Refusals
  <2>8. failed' = {}
    BY <1>2 DEF AsyncAccept, MayAccept, Assert, Ops, ChannelStages
  <2>9. Running'
    BY <1>2 DEF AsyncAccept, MayAccept, NoOtherCallback, Running
  <2>. QED BY <2>2, <2>3, <2>4, <2>5, <2>6, <2>7, <2>8, <2>9
<1>3. ASSUME AsyncStop PROVE IInv'
  <2>1. FlagsTyped'
    BY <1>3, Zenon DEF TypeOK, FlagsTyped, AsyncStop
  <2>2. TypeOK'
    BY <1>3, <2>1 DEF AsyncStop, NewChannel, Create, Sent, Send, Assert, TypeOK,
       ChannelStates
  <2>3. ChannelStages'
    BY <1>3 DEF AsyncStop, NewChannel, Create, Sent, Send, TypeOK, Ops, ChannelStages
  <2>4. StoppedForGood'
    BY <1>3 DEF AsyncStop, AlreadyStopped, TypeOK, Ops, StoppedForGood
  <2>5. OneToken'
    BY <1>3 DEF AsyncStop, TypeOK, Ops, OneToken
  <2>6. Places'
    BY <1>3 DEF AsyncStop, NewChannel, Sent, TypeOK, Ops,
       Offered, Held, Places
  <2>7. Refusals'
    BY <1>3 DEF AsyncStop, NewChannel, Create, Sent, Send,
       AlreadyStopped, TypeOK, Ops, ChannelStages, Refusals
  <2>8. failed' = {}
    BY <1>3 DEF AsyncStop, Assert, Ops, ChannelStages
  <2>9. Running'
    BY <1>3 DEF AsyncStop, TypeOK, Ops, NoOtherCallback, Running
  <2>. QED BY <2>2, <2>3, <2>4, <2>5, <2>6, <2>7, <2>8, <2>9
<1>4. ASSUME UnlockForStop PROVE IInv'
  <2>1. TypeOK'
    BY <1>4 DEF UnlockForStop, Unlock, TypeOK
  <2>2. ChannelStages'
    BY <1>4 DEF UnlockForStop, ChannelStages
  <2>3. StoppedForGood' /\ OneToken' /\ Places' /\ Refusals' /\ failed' = {}
    BY <1>4 DEF UnlockForStop, StoppedForGood, OneToken, Places, Offered, Held, Refusals
  <2>4. Running'
    BY <1>4 DEF UnlockForStop, Unlock, TypeOK, Ops, NoOtherCallback, Running
  <2>. QED BY <2>1, <2>2, <2>3, <2>4
<1>5. ASSUME ListenerStop PROVE IInv'
  BY <1>5 DEF ListenerStop, TypeOK, ChannelStages, StoppedForGood, Running,
     NoOtherCallback, OneToken, Places,
     Offered, Held, Refusals
<1>6. ASSUME ListenerStopped PROVE IInv'
  <2>1. TypeOK'
    BY <1>6 DEF ListenerStopped, TypeOK
  <2>2. ChannelStages'
    BY <1>6 DEF ListenerStopped, ChannelStages
  <2>3. StoppedForGood' /\ OneToken' /\ Places' /\ Refusals' /\ failed' = {}
    BY <1>6 DEF ListenerStopped, StoppedForGood, OneToken, Places, Offered, Held, Refusals
  <2>4. Running'
    BY <1>6 DEF ListenerStopped, TypeOK, Ops, NoOtherCallback, Running
  <2>. QED BY <2>1, <2>2, <2>3, <2>4
<1>7. ASSUME Close PROVE IInv'
  BY <1>7 DEF Close, TypeOK, ChannelStages, StoppedForGood, Running,
     NoOtherCallback, OneToken, Places,
     Offered, Held, Refusals
<1>. QED BY <1>1, <1>2, <1>3, <1>4, <1>5, <1>6, <1>7 DEF User

\* No event of msquic breaks it, whenever it comes.
LEMMA CallbackStep == ASSUME IInv, Callback PROVE IInv'
<1> USE DEF IInv, ctx, msquic, seen
<1>1. ASSUME NEW_CONNECTION PROVE IInv'
  <2>1. FlagsTyped'
    BY <1>1, Zenon DEF TypeOK, FlagsTyped, NEW_CONNECTION
  <2>2. TypeOK'
    BY <1>1, <2>1 DEF NEW_CONNECTION, TypeOK
  <2>3. ChannelStages'
    BY <1>1 DEF NEW_CONNECTION, ChannelStages
  <2>4. StoppedForGood'
    BY <1>1 DEF NEW_CONNECTION, StoppedForGood
  <2>5. OneToken'
    BY <1>1 DEF NEW_CONNECTION, OneToken
  <2>6. Places'
    BY <1>1 DEF NEW_CONNECTION, Offered, Held, Places
  <2>7. Refusals'
    BY <1>1 DEF NEW_CONNECTION, Offered, Refusals
  <2>8. failed' = {}
    BY <1>1 DEF NEW_CONNECTION
  <2>9. Running'
    BY <1>1 DEF NEW_CONNECTION, NoOtherCallback, Running
  <2>. QED BY <2>2, <2>3, <2>4, <2>5, <2>6, <2>7, <2>8, <2>9
<1>2. ASSUME STOP_COMPLETE PROVE IInv'
  <2>1. FlagsTyped'
    BY <1>2, Zenon DEF FlagsTyped, STOP_COMPLETE
  <2>2. TypeOK'
    BY <1>2, <2>1 DEF STOP_COMPLETE, Send, TypeOK, ChannelStates
  <2>3. ChannelStages'
    BY <1>2 DEF STOP_COMPLETE, Send, WaitsAtStop, ChannelStages
  <2>4. StoppedForGood'
    BY <1>2 DEF STOP_COMPLETE, WaitsAtStop, NoOtherCallback, StoppedForGood
  <2>5. OneToken'
    BY <1>2 DEF STOP_COMPLETE, OneToken
  <2>6. Places'
    BY <1>2 DEF STOP_COMPLETE, WaitsAtStop, Ops,
       ChannelStages, Offered, Held, Places
  <2>7. Refusals'
    BY <1>2 DEF STOP_COMPLETE, StoppedForGood, Refusals
  <2>8. failed' = {}
    BY <1>2 DEF STOP_COMPLETE
  <2>9. Running'
    BY <1>2 DEF STOP_COMPLETE, NoOtherCallback, Running
  <2>. QED BY <2>2, <2>3, <2>4, <2>5, <2>6, <2>7, <2>8, <2>9
<1>3. ASSUME NEW c \in Connections, UnlockForAccept(c) PROVE IInv'
  BY <1>3 DEF UnlockForAccept, Unlock, TypeOK, ChannelStages, StoppedForGood, Running,
     NoOtherCallback, OneToken, Places,
     Offered, Held, Refusals
<1>4. ASSUME NEW c \in Connections, AcquireAccept(c) PROVE IInv'
  <2>1. FlagsTyped'
    BY <1>4, Zenon DEF TypeOK, FlagsTyped, AcquireAccept
  <2>2. TypeOK'
    BY <1>4, <2>1 DEF AcquireAccept, Acquire, TypeOK
  <2>3. ChannelStages'
    BY <1>4 DEF AcquireAccept, ChannelStages
  <2>4. StoppedForGood'
    BY <1>4 DEF AcquireAccept, StoppedForGood
  <2>5. OneToken'
    BY <1>4 DEF AcquireAccept, Acquire, OneToken
  <2>6. Places'
    BY <1>4 DEF AcquireAccept, Offered, Held, Places
  <2>7. Refusals'
    BY <1>4 DEF AcquireAccept, Offered, Refusals
  <2>8. failed' = {}
    BY <1>4 DEF AcquireAccept
  <2>9. Running'
    BY <1>4 DEF AcquireAccept, NoOtherCallback, Running
  <2>. QED BY <2>2, <2>3, <2>4, <2>5, <2>6, <2>7, <2>8, <2>9
<1>5. ASSUME NEW c \in Connections, DeliverConnection(c) PROVE IInv'
  <2>1. FlagsTyped'
    BY <1>5, Zenon DEF TypeOK, FlagsTyped, DeliverConnection, TakeAccept
  <2>2. TypeOK'
    BY <1>5, <2>1 DEF DeliverConnection, Sent, Send, Assert, TypeOK, ChannelStates,
       FlagsTyped
  <2>3. ChannelStages'
    BY <1>5 DEF DeliverConnection, Sent, Send, TakeAccept, TypeOK, ChannelStages,
       OneToken, StoppedForGood
  <2>4. StoppedForGood'
    BY <1>5 DEF DeliverConnection, StoppedForGood
  <2>5. OneToken'
    BY <1>5 DEF DeliverConnection, TakeAccept, OneToken
  <2>6. Places'
    BY <1>5, NoConnectionAssumption DEF DeliverConnection, Sent, Send, TypeOK, Ops,
       ChannelStages, OneToken, StoppedForGood, Offered, Held, Places
  <2>7. Refusals'
    BY <1>5, NoConnectionAssumption DEF DeliverConnection, StoppedForGood, Refusals
  <2>8. failed' = {}
    BY <1>5 DEF DeliverConnection, Assert, TypeOK, OneToken, StoppedForGood
  <2>9. Running'
    BY <1>5 DEF DeliverConnection, NoOtherCallback, Running
  <2>. QED BY <2>2, <2>3, <2>4, <2>5, <2>6, <2>7, <2>8, <2>9
<1>. QED BY <1>1, <1>2, <1>3, <1>4, <1>5 DEF Callback

\* Nor does a completion handler.
LEMMA CompletionStep == ASSUME IInv, NEW o \in Ops, Complete(o) PROVE IInv'
<1> USE DEF IInv, ctx, msquic, seen
<1>1. FlagsTyped'
  BY Zenon DEF TypeOK, FlagsTyped, Complete
<1>2. TypeOK'
  BY <1>1 DEF Complete, Get, TypeOK, ChannelStates
<1>3. ChannelStages'
  BY DEF Complete, Get, TypeOK, ChannelStages
<1>4. StoppedForGood'
  BY DEF Complete, StoppedForGood
<1>5. OneToken'
  BY DEF Complete, OneToken
<1>6. Places'
  BY DEF Complete, Get, TypeOK, Offered, Held, Places
<1>7. Refusals'
  BY DEF Complete, TypeOK, Offered, Refusals
<1>8. failed' = {}
  BY DEF Complete
<1>9. Running'
  BY DEF Complete, TypeOK, Ops, NoOtherCallback, Running
<1>. QED BY <1>2, <1>3, <1>4, <1>5, <1>6, <1>7, <1>8, <1>9

------------------------------------------------------------------------------
\* An opened listener satisfies it.
LEMMA Initially == Init => IInv
<1> SUFFICES ASSUME Init PROVE IInv
  OBVIOUS
<1>1. FlagsTyped
  BY Zenon DEF Init, FlagsTyped
<1>2. TypeOK
  <2>1. chan \in [Ops -> ChannelStates]
    BY DEF Init, ChannelStates
  <2>2. op \in [Ops -> {"idle", "locked", "calling", "waiting"}]
    BY DEF Init
  <2>3. accept_bs_ \in 0 .. 1
    BY DEF Init
  <2>4. refused \in BOOLEAN
    BY DEF Init
  <2>. QED BY <1>1, <2>1, <2>2, <2>3, <2>4, Zenon DEF Init, TypeOK, FlagsTyped
<1>3. ChannelStages /\ StoppedForGood /\ Running /\ OneToken
  BY DEF Init, Ops, ChannelStages, StoppedForGood, NoOtherCallback, Running, OneToken
<1>4. Places /\ Refusals /\ failed = {}
  BY DEF Init, Ops, Places, Offered, Held, Refusals
<1>. QED BY <1>2, <1>3, <1>4 DEF IInv

\* And every step keeps it.
LEMMA Inductive == IInv /\ [Next]_vars => IInv'
<1>1. ASSUME IInv, UNCHANGED vars PROVE IInv'
  BY <1>1 DEF vars, ctx, msquic, seen, IInv, TypeOK, ChannelStages, StoppedForGood,
     NoOtherCallback, Running, OneToken, Places, Refusals, Offered, Held
<1>. QED BY <1>1, UserStep, CallbackStep, CompletionStep DEF Next

\* The inductive invariant of the listener: it holds in every reachable state,
\* for any set of connections.
THEOREM Invariance == Spec => []IInv
BY Initially, Inductive, PTL DEF Spec

\* Every variable keeps its type: the semaphore never holds two tokens, which
\* release() of a std::binary_semaphore may not be asked for.
THEOREM TypeCorrect == Spec => []TypeOK
<1>1. IInv => TypeOK
  BY DEF IInv
<1>. QED BY <1>1, Invariance, PTL

\* The asserts of async_accept, async_stop and NEW_CONNECTION hold and the
\* channels are used in turn, whatever callbacks and calls interleave.
THEOREM HandOver == Spec => []HandOverIsOrderly
<1>1. IInv => HandOverIsOrderly
  BY DEF IInv, ChannelStages, HandOverIsOrderly
<1>. QED BY <1>1, Invariance, PTL

\* Until the listener has stopped there is one token for each pending accept,
\* however many callbacks compete for it.
THEOREM Tokens == Spec => []TokenPerAccept
<1>1. ASSUME IInv PROVE TokenPerAccept
  <2>1. CASE delivering = {}
    BY <1>1, <2>1, FS_EmptySet DEF IInv, TypeOK, OneToken, TokenPerAccept
  <2>2. ASSUME NEW c, delivering = {c} PROVE Cardinality(delivering) = 1
    BY <2>2, FS_Singleton
  <2>. QED BY <1>1, <2>1, <2>2 DEF IInv, OneToken, TokenPerAccept
<1>. QED BY <1>1, Invariance, PTL

\* No connection is lost or handed over twice between the callbacks, the
\* channel and the user.
THEOREM ConnectionsKept == Spec => []NoConnectionLost
<1>1. IInv => NoConnectionLost
  BY DEF IInv, Places, Offered, Held, NoConnectionLost
<1>. QED BY <1>1, Invariance, PTL

\* async_stop waits for a value that is there, and no accept waits without its
\* value once no callback comes any more.
THEOREM NobodyStranded == Spec => []NoWaiterStranded
<1>1. IInv => NoWaiterStranded
  BY DEF IInv, TypeOK, Ops, ChannelStages, StoppedForGood, Running, NoWaiterStranded
<1>. QED BY <1>1, Invariance, PTL

\* The lock, the semaphore and ListenerStop never all wait for each other,
\* however many callbacks run.
THEOREM NeverStuck == Spec => []CallbacksNeverStuck
<1>1. ASSUME IInv, ~NoOtherCallback, locked = {}, delivering = {}, accept_bs_ = 0,
             op["stop"] # "locked", chan["accept"] # "sent"
      PROVE  MayAccept
  <2>1. life # "closed" /\ mtx_ = "free"
    BY <1>1 DEF IInv, Running
  <2>2. state_ = "ok"
    BY <1>1 DEF IInv, TypeOK, StoppedForGood, NoOtherCallback
  <2>3. op["accept"] = "idle"
    BY <1>1, <2>2 DEF IInv, Ops, ChannelStages, OneToken
  <2>. QED BY <2>1, <2>3 DEF MayAccept
<1>2. IInv => CallbacksNeverStuck
  BY <1>1 DEF IInv, TypeOK, CallbacksNeverStuck
<1>. QED BY <1>2, Invariance, PTL

------------------------------------------------------------------------------
\* async_accept implements AcceptQueue

\* A new listener is an empty queue.
LEMMA QueueInitially == Init => AQ!Init
BY DEF Init, AQ!Init

\* A handler that gets a connection takes it, one that gets none is refused.
LEMMA QueueTakes == ASSUME IInv, NEW o \in Ops, Complete(o) PROVE [AQ!Next]_AQ!vars
<1>1. CASE o = "stop"
  BY <1>1 DEF Complete, AQ!vars
<1>2. CASE o = "accept" /\ connection = NoConnection
  BY <1>2 DEF Complete, IInv, TypeOK, Refusals, AQ!Next, AQ!Refuse
<1>3. CASE o = "accept" /\ connection # NoConnection
  <2>1. Offered = {connection}
    BY <1>3 DEF Complete, Offered
  <2>2. connection \in arrived \ taken /\ ~refused
    BY <2>1 DEF IInv, Places, Refusals
  <2>. QED BY <1>3, <2>2 DEF Complete, AQ!Next, AQ!Take, IInv, TypeOK
<1>. QED BY <1>1, <1>2, <1>3 DEF Ops

\* Every step of the listener is a step of the queue or leaves it alone.
LEMMA QueueStep == IInv /\ [Next]_vars => [AQ!Next]_AQ!vars
<1>1. ASSUME IInv, User PROVE [AQ!Next]_AQ!vars
  BY <1>1 DEF User, Start, AsyncAccept, AsyncStop, UnlockForStop, ListenerStop,
     ListenerStopped, Close, ctx, msquic, seen, AQ!vars
<1>2. ASSUME IInv, NEW_CONNECTION PROVE [AQ!Next]_AQ!vars
  BY <1>2 DEF NEW_CONNECTION, IInv, StoppedForGood, AQ!Next, AQ!Arrive
<1>3. ASSUME IInv, STOP_COMPLETE PROVE [AQ!Next]_AQ!vars
  BY <1>3 DEF STOP_COMPLETE, seen, AQ!Next, AQ!Shut
<1>4. ASSUME NEW c \in Connections,
             UnlockForAccept(c) \/ AcquireAccept(c) \/ DeliverConnection(c)
      PROVE  [AQ!Next]_AQ!vars
  BY <1>4 DEF UnlockForAccept, AcquireAccept, DeliverConnection, seen, AQ!vars
<1>5. ASSUME UNCHANGED vars PROVE [AQ!Next]_AQ!vars
  BY <1>5 DEF vars, ctx, seen, AQ!vars
<1>. QED BY <1>1, <1>2, <1>3, <1>4, <1>5, QueueTakes DEF Next, Callback

\* The listener implements AcceptQueue: each connection to one accept at most,
\* a refusal only after the stop, nothing after a refusal.
THEOREM Refinement == Spec => KeepsAcceptPromise
BY Invariance, QueueInitially, QueueStep, PTL DEF Spec, KeepsAcceptPromise, AQ!Spec

\* What that means for the user: no connection is handed over twice or from nowhere,
\* and none after a refusal.
THEOREM HandedOverOnce ==
  Spec => [][/\ taken \subseteq taken' /\ taken' \ taken \subseteq arrived \ taken
             /\ refused => refused' /\ taken' = taken]_vars
<1>1. ASSUME [AQ!Next]_AQ!vars
      PROVE  /\ taken \subseteq taken' /\ taken' \ taken \subseteq arrived \ taken
             /\ refused => refused' /\ taken' = taken
  BY <1>1 DEF AQ!Next, AQ!Arrive, AQ!Take, AQ!Refuse, AQ!Shut, AQ!vars
<1>2. IInv /\ [Next]_vars =>
        [/\ taken \subseteq taken' /\ taken' \ taken \subseteq arrived \ taken
         /\ refused => refused' /\ taken' = taken]_vars
  BY <1>1, QueueStep
<1>. QED BY <1>2, Invariance, PTL DEF Spec

==============================================================================
