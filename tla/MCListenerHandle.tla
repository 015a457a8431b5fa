--------------------------- MODULE MCListenerHandle ---------------------------
(***************************************************************************)
(* Three connections: two callbacks compete for the token of one accept    *)
(* while the third connection is in the channel or with the user.          *)
(***************************************************************************)
EXTENDS ListenerHandle

CONSTANTS c1, c2, c3

const_Connections == {c1, c2, c3}

==============================================================================
