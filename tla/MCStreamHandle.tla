--------------------------- MODULE MCStreamHandle ---------------------------
(***************************************************************************)
(* A stream whose peer sends up to three bytes: enough for a chunk, a      *)
(* partial read of it, its remainder and new bytes behind the remainder.   *)
(***************************************************************************)
EXTENDS StreamHandle

const_MaxBytes == 3

==============================================================================
