------------------------------- MODULE Oneshot -------------------------------
(***************************************************************************)
(* The one-shot channel of <oneshot.hpp>, a library outside src/, as the   *)
(* handles use it: oneshot::create makes a connected sender and receiver   *)
(* that replace a pair of members; send stores the one value; async_wait   *)
(* completes once it is there; get takes it.                               *)
(*                                                                         *)
(* One state stands for the pair:                                          *)
(*   none     default-constructed members, no shared state                 *)
(*   open     created, nothing sent yet                                    *)
(*   sent     the value is there and nobody has taken it                   *)
(*   taken    get has returned it                                          *)
(*   misused  a call the library has no good answer to was made on it      *)
(***************************************************************************)

ChannelStates == {"none", "open", "sent", "taken", "misused"}

\* Assigning a new pair over the old one. An unread value would be dropped,
\* and an async_wait attached to the old receiver would be cut off.
Create(c, attached) == IF attached \/ c = "sent" THEN "misused" ELSE "open"

\* A sender carries exactly one value.
Send(c) == IF c = "open" THEN "sent" ELSE "misused"

\* The value is there exactly once.
Get(c) == IF c = "sent" THEN "taken" ELSE "misused"

==============================================================================
