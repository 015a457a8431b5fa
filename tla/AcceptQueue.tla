----------------------------- MODULE AcceptQueue -----------------------------
(***************************************************************************)
(* What async_accept promises, of a listener for connections and of a      *)
(* connection for streams: what the peer starts is handed to one accept at *)
(* most once, nothing is made up, an accept is refused only once the       *)
(* source has closed, and nothing is handed over after a refusal.          *)
(***************************************************************************)
VARIABLES arrived,   \* objects the peer has started
          taken,     \* objects handed to an accept's handler
          refused,   \* an accept was told that nothing more comes
          closed     \* the source brings no more objects

vars == <<arrived, taken, refused, closed>>

Init == arrived = {} /\ taken = {} /\ ~refused /\ ~closed

Arrive == \E x \in arrived' \ arrived :
            /\ ~closed
            /\ arrived' = arrived \cup {x}
            /\ UNCHANGED <<taken, refused, closed>>

Take == \E x \in arrived \ taken :
          /\ ~refused
          /\ taken' = taken \cup {x}
          /\ UNCHANGED <<arrived, refused, closed>>

Refuse == /\ closed
          /\ refused' = TRUE
          /\ UNCHANGED <<arrived, taken, closed>>

Shut == closed' = TRUE /\ UNCHANGED <<arrived, taken, refused>>

Next == Arrive \/ Take \/ Refuse \/ Shut

Spec == Init /\ [][Next]_vars

==============================================================================
