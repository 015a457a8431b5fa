---------------------------- MODULE MCReceiveCopy ----------------------------
(***************************************************************************)
(* Up to three buffers of up to three bytes, the sizes below, at and above *)
(* the user's room included.                                               *)
(***************************************************************************)
EXTENDS ReceiveCopy

const_MaxBuffers == 3
const_MaxLen == 3

==============================================================================
