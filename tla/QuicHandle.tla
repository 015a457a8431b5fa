----------------------------- MODULE QuicHandle -----------------------------
(***************************************************************************)
(* Who owns a handle of msquic: basic_quic_handle, the five handles made   *)
(* from it, and the contexts that msquic's callbacks are given.            *)
(*                                                                         *)
(* A wrapper is a C++ object: a native handle h_ or null, and for a        *)
(* listener, connection or stream the context it points to.  The user      *)
(* opens, moves, closes and destroys wrappers.  The callback that accepts  *)
(* a connection or a stream makes a wrapper of its own, gives it msquic's  *)
(* handle, registers its context and moves it into the accept channel, one *)
(* step each, while the user goes on.  Calls are made on the user's side   *)
(* only with the wrapper's operations completed, and a wrapper is opened   *)
(* while it is closed, as its asserts have it.  Nothing asks whether it    *)
(* has a context: a stream that was moved from has none to give to msquic. *)
(***************************************************************************)
CONSTANTS Wrappers,   \* bound: C++ objects alive at a time
          Natives,    \* bound: handles that msquic gives out
          Contexts,   \* the contexts' addresses
          Null        \* nullptr

ASSUME NullAssumption == Null \notin Wrappers \cup Natives \cup Contexts

Kinds == {"registration", "configuration", "listener", "connection", "stream"}
WithContext == {"listener", "connection", "stream"}
Movable == {"connection", "stream"}   \* the listener's move is deleted

\* What a handle is opened under.
ParentKind == [configuration |-> "registration", listener |-> "registration",
               connection |-> "registration", stream |-> "connection"]

VARIABLES
  wrapper,   \* the C++ objects: kind, h_ and ctx_
  native,    \* msquic: per handle its kind, its life and its callback's context
  contexts,  \* the contexts that are allocated
  callback   \* the accepting callback: how far it is, whose it is, its wrapper

vars == <<wrapper, native, contexts, callback>>

Absent == [kind |-> "absent", h |-> Null, ctx |-> Null]
Unused == [kind |-> "none", life |-> "unused", cb |-> Null]
Idle == [at |-> "idle", src |-> Null, n |-> Null, w |-> Null]

Init == /\ wrapper = [w \in Wrappers |-> Absent]
        /\ native = [n \in Natives |-> Unused]
        /\ contexts = {}
        /\ callback = Idle

------------------------------------------------------------------------------
\* Helpers

is_open(w) == wrapper[w].h # Null
Open(n) == native[n].life = "open"

\* The callback's wrapper is a local variable, out of the user's reach.
Users(w) == wrapper[w].kind # "absent" /\ w # callback.w

Fresh == Contexts \ contexts

\* Slips of the code, for checking that the properties notice them.
KeepHandle(x) == x
NeverClosed(n) == native
NoContext(w) == Null
Uninitialised(k, c) == [kind |-> k, h |-> c, ctx |-> c]
NoNewContext(x, c) == [x EXCEPT !.h = Null, !.ctx = Null]

\* release(): what the moved-from object, or the closed one, keeps
Released(x) == [x EXCEPT !.h = Null]

\* The close function of msquic, for a handle that is not null.
Closed(n) == IF n = Null THEN native ELSE [native EXCEPT ![n].life = "closed"]

\* The context that set_callback registers.
CallbackContext(w) == wrapper[w].ctx

\* Constructors: the handle is null, the context new.
Constructed(k, c) == [kind |-> k, h |-> Null, ctx |-> c]

\* A connection that was moved from gets a context of its own: it is "a conn
\* place holder, and needs to be reused"; a stream keeps none.
MovedFromConnection(x, c) == [Released(x) EXCEPT !.ctx = c]
MovedFromStream(x) == [Released(x) EXCEPT !.ctx = Null]

------------------------------------------------------------------------------
\* Registration and configuration have no context, the others make one.

Construct(w, k) ==
  /\ wrapper[w] = Absent
  /\ IF k \in WithContext
     THEN \E c \in Fresh : /\ wrapper' = [wrapper EXCEPT ![w] = Constructed(k, c)]
                           /\ contexts' = contexts \cup {c}
     ELSE /\ wrapper' = [wrapper EXCEPT ![w] = Constructed(k, Null)]
          /\ UNCHANGED contexts

\* XxxOpen of msquic stores the new handle in h_; when it fails h_ stays null.
OpenNative(w, k) ==
  /\ Users(w) /\ wrapper[w].kind = k /\ ~is_open(w)
  /\ \E n \in Natives :
       /\ native[n] = Unused
       /\ native' = [native EXCEPT ![n] = [kind |-> k, life |-> "open",
                                           cb |-> wrapper[w].ctx]]
       /\ wrapper' = [wrapper EXCEPT ![w].h = n]
  /\ UNCHANGED <<contexts, callback>>

HasParent(k) == \E n \in Natives : Open(n) /\ native[n].kind = ParentKind[k]

OpenRegistration(w) == OpenNative(w, "registration")
OpenConfiguration(w) == HasParent("configuration") /\ OpenNative(w, "configuration")
OpenListener(w) == HasParent("listener") /\ OpenNative(w, "listener")
OpenConnection(w) == HasParent("connection") /\ OpenNative(w, "connection")

OpenStream(w) == HasParent("stream") /\ OpenNative(w, "stream")

\* The move constructors: dst takes the handle and the context.
MoveConnection(src, dst) ==
  /\ wrapper[src].kind = "connection" /\ wrapper[dst] = Absent
  /\ \E c \in Fresh :
       /\ wrapper' = [wrapper EXCEPT ![dst] = wrapper[src],
                                     ![src] = MovedFromConnection(wrapper[src], c)]
       /\ contexts' = contexts \cup {c}

MoveStream(src, dst) ==
  /\ wrapper[src].kind = "stream" /\ wrapper[dst] = Absent
  /\ wrapper' = [wrapper EXCEPT ![dst] = wrapper[src],
                                ![src] = MovedFromStream(wrapper[src])]
  /\ UNCHANGED contexts

\* A close waits for the callback that runs on the handle.
MayClose(w) == wrapper[w].h = Null \/ wrapper[w].h # callback.src

Close(w) ==
  /\ Users(w) /\ MayClose(w)
  /\ native' = Closed(wrapper[w].h)
  /\ wrapper' = [wrapper EXCEPT ![w] = Released(@)]
  /\ UNCHANGED <<contexts, callback>>

\* The destructor closes, then ctx_ goes.
Destroy(w) ==
  /\ native' = Closed(wrapper[w].h)
  /\ wrapper' = [wrapper EXCEPT ![w] = Absent]
  /\ contexts' = contexts \ {wrapper[w].ctx}

UserConstruct(w) == \E k \in Kinds : Construct(w, k) /\ UNCHANGED <<native, callback>>

UserMove(src, dst) == /\ Users(src)
                      /\ MoveConnection(src, dst) \/ MoveStream(src, dst)
                      /\ UNCHANGED <<native, callback>>

UserDestroy(w) == Users(w) /\ MayClose(w) /\ Destroy(w) /\ UNCHANGED callback

------------------------------------------------------------------------------
\* NEW_CONNECTION on a listener, PEER_STREAM_STARTED on a connection

\* msquic has made the handle; the callback constructs its wrapper.
Accept(src, k, n, w) ==
  /\ callback = Idle
  /\ Open(src) /\ native[src].cb # Null
  /\ native[src].kind = IF k = "connection" THEN "listener" ELSE "connection"
  /\ native[n] = Unused
  /\ native' = [native EXCEPT ![n] = [kind |-> k, life |-> "open", cb |-> Null]]
  /\ Construct(w, k)
  /\ callback' = [at |-> "assign", src |-> src, n |-> n, w |-> w]

assign ==
  /\ callback.at = "assign"
  /\ wrapper' = [wrapper EXCEPT ![callback.w].h = callback.n]
  /\ callback' = [callback EXCEPT !.at = "set_callback"]
  /\ UNCHANGED <<native, contexts>>

set_callback ==
  /\ callback.at = "set_callback"
  /\ native' = [native EXCEPT ![callback.n].cb = CallbackContext(callback.w)]
  /\ callback' = [callback EXCEPT !.at = "send"]
  /\ UNCHANGED <<wrapper, contexts>>

\* accept_tx_.send(ec, std::move(...)): dst is the object in the channel.
Send(dst) ==
  /\ callback.at = "send"
  /\ MoveConnection(callback.w, dst) \/ MoveStream(callback.w, dst)
  /\ callback' = [callback EXCEPT !.at = "return"]
  /\ UNCHANGED native

\* The local variable is destroyed.
Return ==
  /\ callback.at = "return"
  /\ Destroy(callback.w)
  /\ callback' = Idle

------------------------------------------------------------------------------
User == \E w \in Wrappers :
          \/ UserConstruct(w) \/ UserDestroy(w) \/ Close(w)
          \/ OpenRegistration(w) \/ OpenConfiguration(w) \/ OpenListener(w)
          \/ OpenConnection(w) \/ OpenStream(w)
          \/ \E dst \in Wrappers : UserMove(w, dst)

Callback == \/ \E src, n \in Natives, k \in Movable, w \in Wrappers : Accept(src, k, n, w)
            \/ assign \/ set_callback \/ Return
            \/ \E dst \in Wrappers : Send(dst)

Next == User \/ Callback

Spec == Init /\ [][Next]_vars

------------------------------------------------------------------------------
\* Properties

WrapperStates == [kind : Kinds \cup {"absent"}, h : Natives \cup {Null},
                  ctx : Contexts \cup {Null}]

NativeStates == [kind : Kinds \cup {"none"}, life : {"unused", "open", "closed"},
                 cb : Contexts \cup {Null}]

TypeOK ==
  /\ wrapper \in [Wrappers -> WrapperStates]
  /\ native \in [Natives -> NativeStates]
  /\ contexts \subseteq Contexts
  /\ callback \in [at : {"idle", "assign", "set_callback", "send", "return"},
                   src : Natives \cup {Null}, n : Natives \cup {Null},
                   w : Wrappers \cup {Null}]

\* However wrappers are moved, closed and destroyed, a handle has one owner of
\* its own kind while it is open, and a closed one has none: it is closed once
\* and not used afterwards.
OneOwner ==
  \A w \in Wrappers : is_open(w) =>
    /\ Open(wrapper[w].h)
    /\ native[wrapper[w].h].kind = wrapper[w].kind
    /\ \A v \in Wrappers \ {w} : wrapper[v].h # wrapper[w].h

\* Nothing is left behind: an open handle has an owner, but for the one the
\* callback has not assigned yet, and so has every context, which has only one.
NothingLeaks ==
  /\ \A n \in Natives : Open(n) =>
       (\E w \in Wrappers : wrapper[w].h = n) \/ (callback.at = "assign" /\ callback.n = n)
  /\ \A c \in contexts : \E w \in Wrappers :
       wrapper[w].ctx = c /\ \A v \in Wrappers \ {w} : wrapper[v].ctx # c

\* A stream that was moved from is left without a context, against its comment;
\* MovedFromStreamIsAsConstructed shows it.
WithoutContext(w) == wrapper[w].kind = "stream" /\ wrapper[w].ctx = Null

\* An event finds the context of the handle's owner, allocated and through all
\* its moves the same: of every open handle that can raise one, once the
\* callback that accepts it is past set_callback, but for a stream that its
\* user opened on an object that was moved from.  What the callback hands over
\* is never such a stream.
EventsReachTheOwner ==
  /\ \A w \in Wrappers :
       is_open(w) /\ wrapper[w].kind \in WithContext
         /\ ~(w = callback.w /\ callback.at = "set_callback")
       => /\ native[wrapper[w].h].cb = wrapper[w].ctx
          /\ wrapper[w].ctx \in contexts \/ WithoutContext(w)
  /\ callback.at \in {"set_callback", "send"} => ~WithoutContext(callback.w)

\* "the moved from conn needs to have a new ctx because it is a conn place
\* holder, and needs to be reused": every connection and listener has a context
\* to be opened with again, and while it is closed no handle raises events to
\* that context, not even the one it was moved to.
PlaceHoldersAreReusable ==
  \A w \in Wrappers : wrapper[w].kind \in {"listener", "connection"} =>
    /\ wrapper[w].ctx \in contexts
    /\ ~is_open(w) => \A n \in Natives : Open(n) => native[n].cb # wrapper[w].ctx

\* basic_stream_handle.hpp:233-234: "after move the other stream handle should
\* become empty just after constructor", and the constructor makes a context.
MovedFromStreamIsAsConstructed ==
  \A w \in Wrappers : wrapper[w].kind = "stream" => wrapper[w].ctx \in contexts

==============================================================================
