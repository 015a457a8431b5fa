-------------------------- MODULE MCConnectionHandle --------------------------
(***************************************************************************)
(* Three streams: one taken, one offered and one with the worker.          *)
(***************************************************************************)
EXTENDS ConnectionHandle

CONSTANTS s1, s2, s3

const_Streams == {s1, s2, s3}

==============================================================================
