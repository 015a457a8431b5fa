-------------------------- MODULE MCServerSession --------------------------
(***************************************************************************)
(* One client, two streams, one message on the first of them.              *)
(***************************************************************************)
EXTENDS ServerSession

const_MaxBytes == 1

=============================================================================
