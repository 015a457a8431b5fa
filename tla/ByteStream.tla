----------------------------- MODULE ByteStream -----------------------------
(***************************************************************************)
(* What the reading side of a stream promises its user: bytes are handed   *)
(* over once and in order; a clean end of stream is reported only when the *)
(* peer has finished and every byte was handed over; nothing is handed     *)
(* over after an end of stream or an error.                                *)
(***************************************************************************)
EXTENDS Naturals

VARIABLES avail,     \* bytes of the peer that have arrived
          got,       \* bytes handed to the user
          finished,  \* the peer ended its direction gracefully
          lost,      \* the peer aborted, or the stream is gone
          ended      \* the last thing the user was told: "no", "eof", "error"

vars == <<avail, got, finished, lost, ended>>

Init == /\ avail = 0
        /\ got = 0
        /\ finished = FALSE
        /\ lost = FALSE
        /\ ended = "no"

Arrive == /\ ~finished /\ ~lost
          /\ avail' \in Nat
          /\ avail' > avail
          /\ UNCHANGED <<got, finished, lost, ended>>

Finish == /\ ~finished /\ ~lost
          /\ finished' = TRUE
          /\ UNCHANGED <<avail, got, lost, ended>>

Lose == /\ lost' = TRUE
        /\ UNCHANGED <<avail, got, finished, ended>>

Take == /\ ended = "no"
        /\ got' \in (got + 1) .. avail
        /\ UNCHANGED <<avail, finished, lost, ended>>

EndOfStream == /\ finished
               /\ got = avail
               /\ ended = "no"
               /\ ended' = "eof"
               /\ UNCHANGED <<avail, got, finished, lost>>

Fail == /\ lost
        /\ ended' = "error"
        /\ UNCHANGED <<avail, got, finished, lost>>

Next == Arrive \/ Finish \/ Lose \/ Take \/ EndOfStream \/ Fail

Spec == Init /\ [][Next]_vars

==============================================================================
