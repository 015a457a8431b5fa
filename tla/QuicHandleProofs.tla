-------------------------- MODULE QuicHandleProofs --------------------------
(***************************************************************************)
(* Ownership of handles and contexts, proved for any number of wrappers,   *)
(* handles and contexts: an inductive invariant on the wrappers and on the *)
(* accepting callback, and the properties of QuicHandle that follow.       *)
(***************************************************************************)
EXTENDS QuicHandle, TLAPS

------------------------------------------------------------------------------
\* The inductive invariant

\* A wrapper's context is allocated and its own; a listener and a connection
\* always have one.
ContextsOwned ==
  \A w \in Wrappers :
    /\ wrapper[w].kind = "absent" => wrapper[w].h = Null /\ wrapper[w].ctx = Null
    /\ wrapper[w].ctx # Null =>
         /\ wrapper[w].ctx \in contexts
         /\ \A v \in Wrappers \ {w} : wrapper[v].ctx # wrapper[w].ctx
    /\ wrapper[w].kind \in {"listener", "connection"} => wrapper[w].ctx # Null

\* The callback's wrapper is of the kind of the handle it gets, and has a
\* context until it is moved into the channel.
CallbackStages ==
  /\ callback.at = "idle" => callback = Idle
  /\ callback.at # "idle" => /\ callback.w \in Wrappers /\ callback.n \in Natives
                             /\ wrapper[callback.w].kind \in Movable
  /\ callback.at \in {"assign", "set_callback", "send"} =>
       /\ Open(callback.n)
       /\ native[callback.n].kind = wrapper[callback.w].kind
       /\ wrapper[callback.w].ctx # Null
  /\ callback.at = "assign" =>
       ~is_open(callback.w) /\ \A v \in Wrappers : wrapper[v].h # callback.n
  /\ callback.at \in {"assign", "set_callback"} => native[callback.n].cb = Null
  /\ callback.at \in {"set_callback", "send"} => wrapper[callback.w].h = callback.n
  /\ callback.at = "return" => ~is_open(callback.w)

\* msquic has of every open handle the context that its owner has.
Registered ==
  \A w \in Wrappers :
    is_open(w) /\ ~(w = callback.w /\ callback.at = "set_callback")
    => native[wrapper[w].h].cb = wrapper[w].ctx

IInv == /\ TypeOK
        /\ ContextsOwned
        /\ CallbackStages
        /\ OneOwner
        /\ NothingLeaks
        /\ Registered

------------------------------------------------------------------------------
\* What a constructor does: w has the context c, if its kind has any.
Made(w, k, c) ==
  /\ wrapper[w] = Absent
  /\ wrapper' \in [Wrappers -> WrapperStates]
  /\ wrapper'[w] = [kind |-> k, h |-> Null, ctx |-> c]
  /\ \A v \in Wrappers \ {w} : wrapper'[v] = wrapper[v]
  /\ IF k \in WithContext
     THEN c \in Fresh /\ contexts' = contexts \cup {c}
     ELSE c = Null /\ contexts' = contexts

\* The constructors of the module do that.
LEMMA ConstructMakes ==
  ASSUME TypeOK, NEW w \in Wrappers, NEW k \in Kinds, Construct(w, k)
  PROVE  \E c : Made(w, k, c)
<1> USE DEF TypeOK, Made, WrapperStates, Constructed, Kinds, Fresh, Absent
<1>1. CASE k \in WithContext
  <2>1. PICK c \in Fresh : /\ wrapper' = [wrapper EXCEPT ![w] = Constructed(k, c)]
                           /\ contexts' = contexts \cup {c}
    BY <1>1 DEF Construct
  <2>. QED BY <1>1, <2>1 DEF Construct
<1>2. CASE k \notin WithContext
  BY <1>2 DEF Construct
<1>. QED BY <1>1, <1>2

\* A new wrapper owns its context and no handle.
LEMMA MadeOwns ==
  ASSUME IInv, NEW w \in Wrappers, NEW k \in Kinds, NEW c, Made(w, k, c)
  PROVE  /\ ContextsOwned'
         /\ \A x \in contexts' : \E v \in Wrappers :
              wrapper'[v].ctx = x /\ \A u \in Wrappers \ {v} : wrapper'[u].ctx # x
         /\ \A n \in Natives : (\E v \in Wrappers : wrapper[v].h = n)
                               => \E v \in Wrappers : wrapper'[v].h = n
<1> USE NullAssumption DEF IInv, Made, Absent, Fresh
<1>1. ContextsOwned'
  BY DEF TypeOK, ContextsOwned, Kinds, WithContext
<1>2. ASSUME NEW x \in contexts'
      PROVE  \E v \in Wrappers :
               wrapper'[v].ctx = x /\ \A u \in Wrappers \ {v} : wrapper'[u].ctx # x
  <2>1. CASE x = c
    BY <1>2, <2>1 DEF ContextsOwned, TypeOK
  <2>2. CASE x # c
    <3>1. PICK v \in Wrappers :
            wrapper[v].ctx = x /\ \A u \in Wrappers \ {v} : wrapper[u].ctx # x
      BY <1>2, <2>2 DEF NothingLeaks
    <3>. QED BY <1>2, <2>2, <3>1 DEF TypeOK
  <2>. QED BY <2>1, <2>2
<1>3. \A n \in Natives : (\E v \in Wrappers : wrapper[v].h = n)
                       => \E v \in Wrappers : wrapper'[v].h = n
  OBVIOUS
<1>. QED BY <1>1, <1>2, <1>3

\* The user's constructions.
LEMMA ConstructStep == ASSUME IInv, NEW w \in Wrappers, UserConstruct(w) PROVE IInv'
<1>1. PICK k \in Kinds : Construct(w, k) /\ UNCHANGED <<native, callback>>
  BY DEF UserConstruct
<1>2. PICK c : Made(w, k, c)
  BY <1>1, ConstructMakes DEF IInv
<1> USE NullAssumption, <1>1, <1>2 DEF IInv, Made, Absent
<1>3. TypeOK'
  BY DEF TypeOK, WrapperStates, Fresh
<1>4. CallbackStages'
  BY DEF TypeOK, CallbackStages, Idle, Movable, is_open, Open
<1>5. OneOwner'
  BY DEF TypeOK, OneOwner, is_open, Open
<1>6. NothingLeaks'
  BY MadeOwns DEF NothingLeaks, Open
<1>7. Registered'
  BY DEF TypeOK, Registered, Fresh, is_open
<1>. QED BY MadeOwns, <1>3, <1>4, <1>5, <1>6, <1>7

\* Opening gives the handle to the wrapper and its context to msquic.
LEMMA OpenStep ==
  ASSUME IInv, NEW w \in Wrappers, NEW k \in Kinds, OpenNative(w, k)
  PROVE  IInv'
<1> USE NullAssumption DEF IInv
<1>1. TypeOK'
  BY DEF OpenNative, TypeOK, WrapperStates, NativeStates
<1>2. ContextsOwned'
  BY DEF OpenNative, Users, ContextsOwned
<1>3. CallbackStages'
  BY DEF OpenNative, Users, CallbackStages, Unused, is_open, Open
<1>4. OneOwner'
  BY DEF OpenNative, TypeOK, OneOwner, Unused, is_open, Open
<1>5. NothingLeaks'
  BY DEF OpenNative, TypeOK, NothingLeaks, Open, is_open
<1>6. Registered'
  BY DEF OpenNative, Users, TypeOK, Registered, OneOwner, Unused, is_open, Open
<1>. QED BY <1>1, <1>2, <1>3, <1>4, <1>5, <1>6

\* msquic's close function keeps its state well formed.
LEMMA ClosedType ==
  ASSUME TypeOK, NEW n \in Natives \cup {Null}
  PROVE  Closed(n) \in [Natives -> NativeStates]
<1>1. CASE n = Null
  BY <1>1 DEF Closed, TypeOK
<1>2. CASE n # Null
  <2>1. [native[n] EXCEPT !.life = "closed"] \in NativeStates
    BY <1>2 DEF TypeOK, NativeStates
  <2>. QED BY <1>2, <2>1 DEF Closed, TypeOK
<1>. QED BY <1>1, <1>2

\* Closing a wrapper closes its handle once and keeps its context.
LEMMA CloseStep == ASSUME IInv, NEW w \in Wrappers, Close(w) PROVE IInv'
<1> USE NullAssumption DEF IInv
<1>1. TypeOK'
  <2>1. Closed(wrapper[w].h) \in [Natives -> NativeStates]
    BY ClosedType DEF TypeOK, WrapperStates
  <2>2. wrapper[w] \in WrapperStates
    BY DEF TypeOK
  <2>3. Released(wrapper[w]) \in WrapperStates
    BY <2>2 DEF Released, WrapperStates
  <2>4. wrapper' \in [Wrappers -> WrapperStates]
    BY <2>3 DEF Close, TypeOK
  <2>. QED BY <2>1, <2>4 DEF Close, TypeOK
<1>2. ContextsOwned'
  BY DEF Close, Released, ContextsOwned
<1>3. CallbackStages'
  BY DEF Close, Closed, Released, Users, CallbackStages, OneOwner, is_open, Open
<1>4. OneOwner'
  BY DEF Close, Closed, Released, TypeOK, OneOwner, is_open, Open
<1>5. NothingLeaks'
  BY DEF Close, Closed, Released, TypeOK, NothingLeaks, Open
<1>6. Registered'
  BY DEF Close, Closed, Released, Registered, is_open
<1>. QED BY <1>1, <1>2, <1>3, <1>4, <1>5, <1>6

\* Destroying a wrapper takes handle and context with it.
LEMMA DestroyStep == ASSUME IInv, NEW w \in Wrappers, UserDestroy(w) PROVE IInv'
<1> USE NullAssumption DEF IInv
<1>1. TypeOK'
  BY DEF UserDestroy, Destroy, Closed, TypeOK, WrapperStates, NativeStates, Absent
<1>2. ContextsOwned'
  BY DEF UserDestroy, Destroy, TypeOK, ContextsOwned, Absent
<1>3. CallbackStages'
  BY DEF UserDestroy, Destroy, Closed, Users, CallbackStages, OneOwner, Absent,
     is_open, Open
<1>4. OneOwner'
  BY DEF UserDestroy, Destroy, Closed, TypeOK, OneOwner, Absent, is_open, Open
<1>5. NothingLeaks'
  BY DEF UserDestroy, Destroy, Closed, TypeOK, NothingLeaks, Open, Absent
<1>6. Registered'
  BY DEF UserDestroy, Destroy, Closed, TypeOK, Registered, Absent, is_open
<1>. QED BY <1>1, <1>2, <1>3, <1>4, <1>5, <1>6

\* What a moved-from object is.
LEMMA MovedFrom ==
  ASSUME NEW x \in WrapperStates, NEW c
  PROVE  /\ MovedFromConnection(x, c) = [kind |-> x.kind, h |-> Null, ctx |-> c]
         /\ MovedFromStream(x) = [kind |-> x.kind, h |-> Null, ctx |-> Null]
<1>1. Released(x) = [kind |-> x.kind, h |-> Null, ctx |-> x.ctx]
  BY DEF Released, WrapperStates
<1>2. \A k, h, d, e : [[kind |-> k, h |-> h, ctx |-> d] EXCEPT !.ctx = e]
                     = [kind |-> k, h |-> h, ctx |-> e]
  OBVIOUS
<1>. QED BY <1>1, <1>2 DEF MovedFromConnection, MovedFromStream

\* What both moves do: dst takes handle and context, src gets the context c.
Moved(src, dst, c) ==
  /\ src # dst
  /\ wrapper[src].kind \in Movable
  /\ wrapper[dst] = Absent
  /\ wrapper' \in [Wrappers -> WrapperStates]
  /\ wrapper'[dst] = wrapper[src]
  /\ wrapper'[src] = [kind |-> wrapper[src].kind, h |-> Null, ctx |-> c]
  /\ \A v \in Wrappers \ {src, dst} : wrapper'[v] = wrapper[v]
  /\ IF wrapper[src].kind = "connection"
     THEN c \in Fresh /\ contexts' = contexts \cup {c}
     ELSE c = Null /\ contexts' = contexts

\* The moves of the module do that.
LEMMA MovesMove ==
  ASSUME TypeOK, NEW src \in Wrappers, NEW dst \in Wrappers,
         MoveConnection(src, dst) \/ MoveStream(src, dst)
  PROVE  \E c : Moved(src, dst, c)
<1>1. wrapper[src] \in WrapperStates /\ wrapper \in [Wrappers -> WrapperStates]
  BY DEF TypeOK
<1>2. CASE MoveConnection(src, dst)
  <2>1. PICK c \in Fresh :
          /\ wrapper' = [wrapper EXCEPT ![dst] = wrapper[src],
                                        ![src] = MovedFromConnection(wrapper[src], c)]
          /\ contexts' = contexts \cup {c}
    BY <1>2 DEF MoveConnection
  <2>2. wrapper[src].kind = "connection" /\ wrapper[dst] = Absent /\ src # dst
    BY <1>2 DEF MoveConnection, Absent
  <2>3. MovedFromConnection(wrapper[src], c)
          = [kind |-> "connection", h |-> Null, ctx |-> c]
    BY <1>1, <2>2, MovedFrom
  <2>4. [kind |-> "connection", h |-> Null, ctx |-> c] \in WrapperStates
    BY DEF WrapperStates, Fresh, Kinds
  <2>5. wrapper' \in [Wrappers -> WrapperStates]
    BY <1>1, <2>1, <2>3, <2>4
  <2>. QED BY <1>1, <2>1, <2>2, <2>3, <2>5 DEF Moved, Movable
<1>3. CASE MoveStream(src, dst)
  <2>1. /\ wrapper[src].kind = "stream" /\ wrapper[dst] = Absent /\ src # dst
        /\ wrapper' = [wrapper EXCEPT ![dst] = wrapper[src],
                                      ![src] = MovedFromStream(wrapper[src])]
        /\ contexts' = contexts
    BY <1>3 DEF MoveStream, Absent
  <2>2. MovedFromStream(wrapper[src]) = [kind |-> "stream", h |-> Null, ctx |-> Null]
    BY <1>1, <2>1, MovedFrom
  <2>3. [kind |-> "stream", h |-> Null, ctx |-> Null] \in WrapperStates
    BY DEF WrapperStates, Kinds
  <2>4. wrapper' \in [Wrappers -> WrapperStates]
    BY <1>1, <2>1, <2>2, <2>3
  <2>. QED BY <1>1, <2>1, <2>2, <2>4 DEF Moved, Movable
<1>. QED BY <1>2, <1>3

\* The callback goes from stage to stage within its type.
LEMMA CallbackType ==
  ASSUME TypeOK, NEW stage \in {"assign", "set_callback", "send", "return"}
  PROVE  [callback EXCEPT !.at = stage]
           \in [at : {"idle", "assign", "set_callback", "send", "return"},
                src : Natives \cup {Null}, n : Natives \cup {Null},
                w : Wrappers \cup {Null}]
BY DEF TypeOK

\* A move by the user, or by the callback that sends its wrapper, keeps handle
\* and context together.
LEMMA MoveStep ==
  ASSUME IInv, NEW src \in Wrappers, NEW dst \in Wrappers, NEW c, Moved(src, dst, c),
         UNCHANGED native,
         \/ src # callback.w /\ UNCHANGED callback
         \/ /\ src = callback.w /\ callback.at = "send"
            /\ callback' = [callback EXCEPT !.at = "return"]
  PROVE  IInv'
<1> USE NullAssumption DEF IInv, Moved, Movable, Absent, Fresh
<1>1. TypeOK'
  <2>1. callback' \in [at : {"idle", "assign", "set_callback", "send", "return"},
                       src : Natives \cup {Null}, n : Natives \cup {Null},
                       w : Wrappers \cup {Null}]
    BY CallbackType DEF TypeOK
  <2>2. contexts' \subseteq Contexts
    BY DEF TypeOK
  <2>. QED BY <2>1, <2>2 DEF TypeOK
<1>2. ContextsOwned'
  BY DEF TypeOK, ContextsOwned
<1>3. CallbackStages'
  BY DEF TypeOK, CallbackStages, Idle, is_open, Open
<1>4. OneOwner'
  BY DEF TypeOK, OneOwner, is_open, Open
<1>5. NothingLeaks'
  <2>1. ASSUME NEW n \in Natives, Open(n)'
        PROVE  \/ \E w \in Wrappers : wrapper'[w].h = n
               \/ callback'.at = "assign" /\ callback'.n = n
    BY <2>1 DEF NothingLeaks, Open, TypeOK
  <2>2. ASSUME NEW x \in contexts'
        PROVE  \E w \in Wrappers :
                 wrapper'[w].ctx = x /\ \A v \in Wrappers \ {w} : wrapper'[v].ctx # x
    <3>1. CASE x = c
      BY <3>1, <2>2 DEF ContextsOwned, TypeOK
    <3>2. CASE x # c
      <4>1. PICK w \in Wrappers :
               wrapper[w].ctx = x /\ \A v \in Wrappers \ {w} : wrapper[v].ctx # x
        BY <2>2, <3>2 DEF NothingLeaks
      <4>2. CASE w = src
        BY <4>1, <4>2, <3>2
      <4>3. CASE w # src
        BY <4>1, <4>3, <3>2, <2>2 DEF TypeOK
      <4>. QED BY <4>2, <4>3
    <3>. QED BY <3>1, <3>2
  <2>. QED BY <2>1, <2>2 DEF NothingLeaks
<1>6. Registered'
  BY DEF TypeOK, Registered, is_open
<1>. QED BY <1>1, <1>2, <1>3, <1>4, <1>5, <1>6

\* The callback's construction, with a handle that has no owner yet.
LEMMA AcceptStep ==
  ASSUME IInv, NEW src \in Natives, NEW n \in Natives, NEW k \in Movable,
         NEW w \in Wrappers, Accept(src, k, n, w)
  PROVE  IInv'
<1>1. k \in Kinds
  BY DEF Movable, Kinds
<1>2. PICK c : Made(w, k, c)
  BY <1>1, ConstructMakes DEF IInv, Accept
<1> USE NullAssumption, <1>1, <1>2 DEF IInv, Accept, Made, Absent, Unused
<1>3. TypeOK'
  BY DEF TypeOK, WrapperStates, NativeStates, Fresh, Kinds, Movable, WithContext
<1>4. \A v \in Wrappers : wrapper[v].h # n
  BY DEF TypeOK, OneOwner, is_open, Open
<1>5. CallbackStages'
  BY <1>4 DEF TypeOK, CallbackStages, Idle, Movable, WithContext, Fresh, is_open, Open
<1>6. OneOwner'
  BY <1>4 DEF TypeOK, OneOwner, is_open, Open
<1>7. NothingLeaks'
  BY MadeOwns DEF NothingLeaks, Open, TypeOK, Idle
<1>8. Registered'
  BY <1>4 DEF TypeOK, Registered, Fresh, Idle, is_open
<1>. QED BY MadeOwns, <1>3, <1>5, <1>6, <1>7, <1>8

\* assign: the accepted handle gets its owner.
LEMMA AssignStep == ASSUME IInv, assign PROVE IInv'
<1> USE NullAssumption DEF IInv
<1>1. TypeOK'
  <2>1. callback.n \in Natives /\ callback.w \in Wrappers
    BY DEF assign, CallbackStages
  <2>2. wrapper[callback.w] \in WrapperStates
    BY <2>1 DEF TypeOK
  <2>3. [wrapper[callback.w] EXCEPT !.h = callback.n] \in WrapperStates
    BY <2>1, <2>2 DEF WrapperStates
  <2>4. wrapper' \in [Wrappers -> WrapperStates]
    BY <2>1, <2>3 DEF assign, TypeOK
  <2>5. [callback EXCEPT !.at = "set_callback"]
          \in [at : {"idle", "assign", "set_callback", "send", "return"},
               src : Natives \cup {Null}, n : Natives \cup {Null},
               w : Wrappers \cup {Null}]
    BY CallbackType DEF TypeOK
  <2>. QED BY <2>4, <2>5 DEF assign, TypeOK
<1>2. ContextsOwned'
  BY DEF assign, ContextsOwned, CallbackStages
<1>3. CallbackStages'
  BY DEF assign, TypeOK, CallbackStages, Open
<1>4. OneOwner'
  BY DEF assign, OneOwner, CallbackStages, is_open, Open
<1>5. NothingLeaks'
  BY DEF assign, TypeOK, NothingLeaks, CallbackStages, Open, is_open
<1>6. Registered'
  BY DEF assign, Registered, is_open
<1>. QED BY <1>1, <1>2, <1>3, <1>4, <1>5, <1>6

\* set_callback: the accepted handle gets the context of its owner.
LEMMA SetCallbackStep == ASSUME IInv, set_callback PROVE IInv'
<1> USE NullAssumption DEF IInv
<1>1. TypeOK'
  <2>1. callback.n \in Natives /\ wrapper[callback.w].ctx \in Contexts \cup {Null}
    BY DEF set_callback, CallbackStages, TypeOK, WrapperStates
  <2>2. [native[callback.n] EXCEPT !.cb = CallbackContext(callback.w)] \in NativeStates
    BY <2>1 DEF CallbackContext, TypeOK, NativeStates
  <2>3. native' \in [Natives -> NativeStates]
    BY <2>1, <2>2 DEF set_callback, TypeOK
  <2>4. [callback EXCEPT !.at = "send"]
          \in [at : {"idle", "assign", "set_callback", "send", "return"},
               src : Natives \cup {Null}, n : Natives \cup {Null},
               w : Wrappers \cup {Null}]
    BY CallbackType DEF TypeOK
  <2>. QED BY <2>3, <2>4 DEF set_callback, TypeOK
<1>2. ContextsOwned'
  BY DEF set_callback, ContextsOwned
<1>3. CallbackStages'
  BY DEF set_callback, CallbackStages, Open
<1>4. OneOwner'
  BY DEF set_callback, OneOwner, is_open, Open
<1>5. NothingLeaks'
  BY DEF set_callback, NothingLeaks, Open
<1>6. Registered'
  BY DEF set_callback, CallbackContext, TypeOK, Registered, CallbackStages, OneOwner,
     is_open
<1>. QED BY <1>1, <1>2, <1>3, <1>4, <1>5, <1>6

\* The callback returns: its own wrapper was moved from, and has no handle.
LEMMA ReturnStep == ASSUME IInv, Return PROVE IInv'
<1> USE NullAssumption DEF IInv
<1>1. TypeOK'
  <2>1. callback.w \in Wrappers /\ ~is_open(callback.w)
    BY DEF Return, CallbackStages
  <2>2. native' = native
    BY <2>1 DEF Return, Destroy, Closed, is_open
  <2>3. Absent \in WrapperStates
    BY DEF WrapperStates, Absent
  <2>4. wrapper' \in [Wrappers -> WrapperStates]
    BY <2>3 DEF Return, Destroy, TypeOK
  <2>5. contexts' \subseteq Contexts
    BY DEF Return, Destroy, TypeOK
  <2>. QED BY <2>2, <2>4, <2>5 DEF Return, Idle, TypeOK
<1>2. ContextsOwned'
  BY DEF Return, Destroy, TypeOK, ContextsOwned, CallbackStages, Absent
<1>3. CallbackStages'
  BY DEF Return, CallbackStages, Idle
<1>4. OneOwner'
  BY DEF Return, Destroy, Closed, OneOwner, CallbackStages, Absent, is_open, Open
<1>5. NothingLeaks'
  BY DEF Return, Destroy, Closed, TypeOK, NothingLeaks, Open, Absent
<1>6. Registered'
  BY DEF Return, Destroy, Closed, Registered, CallbackStages, Absent, is_open
<1>. QED BY <1>1, <1>2, <1>3, <1>4, <1>5, <1>6

------------------------------------------------------------------------------
\* The theorems

LEMMA Initially == Init => IInv
<1> SUFFICES ASSUME Init PROVE IInv
  OBVIOUS
<1> USE NullAssumption DEF Init, Absent, Unused, Idle, is_open, Open
<1>1. TypeOK
  BY DEF TypeOK, WrapperStates, NativeStates
<1>2. ContextsOwned
  BY DEF ContextsOwned
<1>3. CallbackStages
  BY DEF CallbackStages
<1>4. OneOwner
  BY DEF OneOwner
<1>5. NothingLeaks
  BY DEF NothingLeaks
<1>6. Registered
  BY DEF Registered
<1>. QED BY <1>1, <1>2, <1>3, <1>4, <1>5, <1>6 DEF IInv

\* Every step keeps the invariant.
LEMMA Inductive == IInv /\ [Next]_vars => IInv'
<1> SUFFICES ASSUME IInv, [Next]_vars PROVE IInv'
  OBVIOUS
<1>1. ASSUME NEW w \in Wrappers, UserConstruct(w) PROVE IInv'
  BY <1>1, ConstructStep
<1>2. ASSUME NEW w \in Wrappers, UserDestroy(w) PROVE IInv'
  BY <1>2, DestroyStep
<1>3. ASSUME NEW w \in Wrappers, Close(w) PROVE IInv'
  BY <1>3, CloseStep
<1>4. ASSUME NEW w \in Wrappers,
             \/ OpenRegistration(w) \/ OpenConfiguration(w) \/ OpenListener(w)
             \/ OpenConnection(w) \/ OpenStream(w)
      PROVE  IInv'
  <2>1. \E k \in Kinds : OpenNative(w, k)
    BY <1>4 DEF OpenRegistration, OpenConfiguration, OpenListener, OpenConnection,
                OpenStream, Kinds
  <2>. QED BY <2>1, OpenStep
<1>5. ASSUME NEW w \in Wrappers, NEW dst \in Wrappers, UserMove(w, dst) PROVE IInv'
  <2>1. /\ MoveConnection(w, dst) \/ MoveStream(w, dst)
        /\ w # callback.w /\ UNCHANGED <<native, callback>>
    BY <1>5 DEF UserMove, Users
  <2>2. PICK c : Moved(w, dst, c)
    BY <2>1, MovesMove DEF IInv
  <2>. QED BY <2>1, <2>2, MoveStep
<1>6. ASSUME NEW src \in Natives, NEW n \in Natives, NEW k \in Movable,
             NEW w \in Wrappers, Accept(src, k, n, w)
      PROVE  IInv'
  BY <1>6, AcceptStep
<1>7. ASSUME NEW dst \in Wrappers, Send(dst) PROVE IInv'
  <2>1. callback.w \in Wrappers
    BY <1>7 DEF Send, IInv, CallbackStages
  <2>2. PICK c : Moved(callback.w, dst, c)
    BY <1>7, <2>1, MovesMove DEF Send, IInv
  <2>. QED BY <1>7, <2>1, <2>2, MoveStep DEF Send
<1>8. CASE UNCHANGED vars
  BY <1>8 DEF vars, IInv, TypeOK, ContextsOwned, CallbackStages, OneOwner,
              NothingLeaks, Registered, is_open, Open
<1>. QED BY <1>1, <1>2, <1>3, <1>4, <1>5, <1>6, <1>7, <1>8, AssignStep,
            SetCallbackStep, ReturnStep DEF Next, User, Callback

\* The inductive invariant holds.
THEOREM Invariance == Spec => []IInv
BY Initially, Inductive, PTL DEF Spec

\* Every variable has its type.
THEOREM TypeCorrect == Spec => []TypeOK
BY Invariance, PTL DEF IInv

\* Whatever is moved, closed and destroyed, an open handle has one owner of its
\* kind and a closed one none (basic_quic_handle's release, assign and close).
THEOREM OneOwnerEach == Spec => []OneOwner
BY Invariance, PTL DEF IInv

\* No handle and no context is left without an owner, on the callback's path
\* through assign, set_callback and the accept channel too.
THEOREM NothingLeaked == Spec => []NothingLeaks
BY Invariance, PTL DEF IInv

\* An event finds the context of the handle's present owner, allocated, through
\* set_callback, moves and the accept channel; the exception, a stream that is
\* opened on an object that was moved from, is never one the callback accepts.
THEOREM EventsArrive == Spec => []EventsReachTheOwner
<1>1. IInv => EventsReachTheOwner
  BY DEF IInv, Registered, ContextsOwned, CallbackStages, WithContext, WithoutContext,
     EventsReachTheOwner
<1>. QED BY <1>1, Invariance, PTL

\* A connection or listener that was moved from or closed has a context of its
\* own to be opened with again, which no handle raises events to meanwhile.
THEOREM PlaceHolders == Spec => []PlaceHoldersAreReusable
<1>1. ASSUME IInv, NEW w \in Wrappers, wrapper[w].kind \in {"listener", "connection"}
      PROVE  wrapper[w].ctx # Null /\ wrapper[w].ctx \in contexts
  BY <1>1 DEF IInv, ContextsOwned
<1>2. ASSUME IInv, NEW w \in Wrappers, wrapper[w].kind \in {"listener", "connection"},
             ~is_open(w), NEW n \in Natives, Open(n)
      PROVE  native[n].cb # wrapper[w].ctx
  <2>1. CASE callback.at \in {"assign", "set_callback"} /\ callback.n = n
    BY <1>1, <1>2, <2>1 DEF IInv, CallbackStages
  <2>2. CASE ~(callback.at \in {"assign", "set_callback"} /\ callback.n = n)
    <3>1. PICK v \in Wrappers : wrapper[v].h = n
      BY <1>2, <2>2 DEF IInv, NothingLeaks
    <3>2. is_open(v) /\ v # w
      BY <1>2, <3>1, NullAssumption DEF is_open
    <3>. QED BY <1>1, <1>2, <2>2, <3>1, <3>2 DEF IInv, Registered, CallbackStages, ContextsOwned
  <2>. QED BY <2>1, <2>2
<1>3. IInv => PlaceHoldersAreReusable
  BY <1>1, <1>2 DEF PlaceHoldersAreReusable
<1>. QED BY <1>3, Invariance, PTL

------------------------------------------------------------------------------
\* The life of a native handle

\* A handle n is opened once, keeps its kind and, once it has one, its callback's
\* context; only its owner closes it, and forgets it in the same step.
Lives(n) ==
  /\ native[n].life = "closed" => native'[n] = native[n]
  /\ Open(n) => /\ native'[n].life \in {"open", "closed"}
                /\ native'[n].kind = native[n].kind
                /\ native[n].cb # Null => native'[n].cb = native[n].cb
  /\ Open(n) /\ ~Open(n)' => \E w \in Wrappers : wrapper[w].h = n /\ ~is_open(w)'

\* Closing and destroying a wrapper ends the life of its own handle.
LEMMA ClosedLives ==
  ASSUME IInv, NEW w \in Wrappers, native' = Closed(wrapper[w].h), ~is_open(w)',
         NEW n \in Natives
  PROVE  Lives(n)
<1>1. CASE wrapper[w].h = n
  BY <1>1, NullAssumption DEF IInv, TypeOK, NativeStates, OneOwner, is_open, Open, Closed,
     Lives
<1>2. CASE wrapper[w].h # n
  BY <1>2 DEF IInv, TypeOK, OneOwner, is_open, Open, Closed, Lives
<1>. QED BY <1>1, <1>2

\* No step of user or callback does anything else to a handle.
LEMMA LivesStep == ASSUME IInv, [Next]_vars, NEW n \in Natives PROVE Lives(n)
<1> USE NullAssumption
<1>1. CASE native' = native
  BY <1>1 DEF Open, Lives
<1>2. ASSUME NEW w \in Wrappers, NEW k \in Kinds, OpenNative(w, k) PROVE Lives(n)
  BY <1>2 DEF IInv, TypeOK, OpenNative, Unused, Open, Lives
<1>3. ASSUME NEW w \in Wrappers, Close(w) PROVE Lives(n)
  <2>1. ~is_open(w)'
    BY <1>3 DEF Close, Released, is_open, IInv, TypeOK, WrapperStates
  <2>. QED BY <1>3, <2>1, ClosedLives DEF Close
<1>4. ASSUME NEW w \in Wrappers, Destroy(w) PROVE Lives(n)
  <2>1. ~is_open(w)'
    BY <1>4 DEF Destroy, Absent, is_open, IInv, TypeOK
  <2>. QED BY <1>4, <2>1, ClosedLives DEF Destroy
<1>5. ASSUME NEW src \in Natives, NEW m \in Natives, NEW k \in Movable,
             NEW w \in Wrappers, Accept(src, k, m, w)
      PROVE  Lives(n)
  BY <1>5 DEF IInv, TypeOK, Accept, Unused, Open, Lives
<1>6. ASSUME set_callback PROVE Lives(n)
  BY <1>6 DEF IInv, TypeOK, NativeStates, CallbackStages, set_callback, Open, Lives
<1>7. ASSUME Return PROVE Lives(n)
  BY <1>4, <1>7 DEF Return, IInv, CallbackStages
<1>. QED
  BY <1>1, <1>2, <1>3, <1>4, <1>5, <1>6, <1>7
  DEF Next, User, Callback, UserConstruct, UserMove, UserDestroy, OpenRegistration,
      OpenConfiguration, OpenListener, OpenConnection, OpenStream, Kinds, assign, Send, vars

\* A handle is closed once, by its owner and for good, and the context that msquic
\* calls back with stays the same through all its owners.
THEOREM HandlesLive == Spec => [][\A n \in Natives : Lives(n)]_vars
<1>1. IInv /\ [Next]_vars => [\A n \in Natives : Lives(n)]_vars
  BY LivesStep
<1>. QED BY <1>1, Invariance, PTL DEF Spec

==============================================================================
