---------------------------- MODULE ReceiveCopy ----------------------------
(***************************************************************************)
(* The copy loop in async_receive's completion handler                     *)
(* (basic_stream_handle.hpp:414-436): the buffers one RECEIVE event lists  *)
(* are copied into the user's lpBuffer of bufferLen bytes.  A byte is its  *)
(* position in what the event indicated, so lpBuffer is right when it      *)
(* holds byte k at index k.                                                *)
(***************************************************************************)
EXTENDS Naturals, Sequences

CONSTANTS MaxBuffers,   \* bound: buffers of one RECEIVE event
          MaxLen,       \* bound: bytes of one buffer, and of lpBuffer
          Unset         \* what no byte and no count is

ASSUME BoundsAssumption == MaxBuffers \in Nat /\ MaxLen \in Nat /\ Unset \notin Nat

VARIABLES buffs,      \* the lengths of the buffers of the event
          bufferLen,
          lpBuffer,   \* the memory at lpBuffer
          i,          \* buffers the loop is through with
          remaining,
          copied,
          completed,  \* what was passed to receive_complete, or Unset
          passed      \* history: the bytes in the buffers the loop is through with

vars == <<buffs, bufferLen, lpBuffer, i, remaining, copied, completed, passed>>

Init == /\ buffs \in UNION {[1 .. n -> 0 .. MaxLen] : n \in 0 .. MaxBuffers}
        /\ bufferLen \in 0 .. MaxLen
        /\ lpBuffer = [k \in 0 .. bufferLen - 1 |-> Unset]
        /\ i = 0
        /\ remaining = bufferLen
        /\ copied = 0
        /\ completed = Unset
        /\ passed = 0

\* Slips of the code, for checking that the properties notice them.
WholeBuffer == buffs[i + 1]
FromSecondByte(k) == passed + k + 1
SkipIfTooLarge == IF buffs[i + 1] <= remaining THEN buffs[i + 1] ELSE 0

\* to_copy
ToCopy == IF buffs[i + 1] < remaining THEN buffs[i + 1] ELSE remaining

\* The byte that memcpy_s writes at index k.
SourceByte(k) == passed + k

\* if (to_copy == 0) continue
SkipBuffer ==
  /\ i < Len(buffs) /\ ToCopy = 0
  /\ i' = i + 1
  /\ passed' = passed + buffs[i + 1]
  /\ UNCHANGED <<buffs, bufferLen, lpBuffer, remaining, copied, completed>>

\* memcpy_s writes from the start of lpBuffer.
CopyBuffer ==
  /\ i < Len(buffs) /\ ToCopy > 0
  /\ lpBuffer' = [k \in DOMAIN lpBuffer \cup 0 .. ToCopy - 1 |->
                    IF k < ToCopy THEN SourceByte(k) ELSE lpBuffer[k]]
  /\ remaining' = remaining - ToCopy
  /\ copied' = copied + ToCopy
  /\ i' = i + 1
  /\ passed' = passed + buffs[i + 1]
  /\ UNCHANGED <<buffs, bufferLen, completed>>

\* receive_complete(copied)
ReceiveComplete ==
  /\ i = Len(buffs) /\ completed = Unset
  /\ completed' = copied
  /\ UNCHANGED <<buffs, bufferLen, lpBuffer, i, remaining, copied, passed>>

Next == SkipBuffer \/ CopyBuffer \/ ReceiveComplete

Spec == Init /\ [][Next]_vars

------------------------------------------------------------------------------
\* Properties

\* The state is well formed, and nothing is written behind the end of lpBuffer.
TypeOK ==
  /\ DOMAIN lpBuffer = 0 .. bufferLen - 1
  /\ i \in 0 .. Len(buffs)
  /\ remaining \in 0 .. bufferLen
  /\ copied = bufferLen - remaining
  /\ completed \in 0 .. bufferLen \cup {Unset}
  /\ passed \in Nat

\* The user and msquic are told the smaller of what was indicated and what
\* the user has room for: no byte is acknowledged that had no room, and none
\* that had room is indicated twice.
AcknowledgesWhatFits ==
  completed # Unset =>
    completed = IF passed < bufferLen THEN passed ELSE bufferLen

\* As many bytes as are acknowledged are at index k the byte k: lpBuffer holds
\* them in the order of the stream.
InOrder(bytes) == \A k \in 0 .. bytes - 1 : lpBuffer[k] = k

\* An event with a single non-empty buffer arrives as it was sent.
SingleBufferInOrder ==
  completed # Unset /\ (\A a, b \in DOMAIN buffs : buffs[a] > 0 /\ buffs[b] > 0 => a = b)
    => InOrder(completed)

\* basic_stream_handle.hpp:416-417: "copy buffers into out buffer. make a temp
\* variable to advance during copy".
AllBuffersInOrder == completed # Unset => InOrder(completed)

==============================================================================
