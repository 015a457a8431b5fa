-------------------------- MODULE ReceiveCopyProofs --------------------------
(***************************************************************************)
(* The copy loop, proved for any number of buffers of any length and any   *)
(* size of the user's buffer: it stays inside that buffer, acknowledges    *)
(* what fits, and delivers an event of one buffer as it was sent.          *)
(***************************************************************************)
EXTENDS ReceiveCopy, TLAPS

------------------------------------------------------------------------------
\* The inductive invariant

EventOK == buffs \in Seq(Nat) /\ bufferLen \in Nat

\* What is copied is what was passed, as far as there was room.
Progress ==
  /\ copied = IF passed < bufferLen THEN passed ELSE bufferLen
  /\ completed # Unset => i = Len(buffs) /\ completed = copied
  /\ (\A b \in 1 .. i : buffs[b] = 0) => passed = 0
  /\ \A b \in 1 .. i : buffs[b] <= passed

SingleBuffer == \A a, b \in DOMAIN buffs : buffs[a] > 0 /\ buffs[b] > 0 => a = b

\* The first buffer that is not empty, one of the first n, has all those bytes.
FirstHas(bytes, n) ==
  \/ bytes = 0
  \/ \E b \in 1 .. n : buffs[b] >= bytes /\ \A a \in 1 .. b - 1 : buffs[a] = 0

IInv == /\ TypeOK
        /\ EventOK
        /\ Progress
        /\ SingleBuffer => InOrder(copied)
        /\ InOrder(copied) <=> FirstHas(copied, i)

------------------------------------------------------------------------------
LEMMA Initially == Init => IInv
<1> SUFFICES ASSUME Init PROVE IInv
  OBVIOUS
<1>1. PICK n \in 0 .. MaxBuffers : buffs \in [1 .. n -> 0 .. MaxLen]
  BY BoundsAssumption DEF Init
<1>2. buffs \in Seq(Nat)
  BY <1>1, BoundsAssumption
<1>3. bufferLen \in Nat
  BY BoundsAssumption DEF Init
<1>. QED BY <1>2, <1>3, BoundsAssumption DEF Init, IInv, TypeOK, EventOK, Progress, InOrder,
         FirstHas

\* The loop has a buffer to look at.
LEMMA NextBuffer ==
  ASSUME NEW s \in Seq(Nat), NEW k \in 0 .. Len(s), k < Len(s)
  PROVE  k + 1 \in 1 .. Len(s) /\ s[k + 1] \in Nat
<1>1. k + 1 \in 1 .. Len(s)
  OBVIOUS
<1>. QED BY <1>1

\* No buffer the loop is through with has more bytes than were passed.
LEMMA GrowsWithBuffer ==
  ASSUME NEW s \in Seq(Nat), NEW k \in 0 .. Len(s), k < Len(s), NEW p \in Nat,
         \A b \in 1 .. k : s[b] <= p
  PROVE  \A b \in 1 .. k + 1 : s[b] <= p + s[k + 1]
<1>1. s[k + 1] \in Nat
  BY NextBuffer
<1> SUFFICES ASSUME NEW b \in 1 .. k + 1 PROVE s[b] <= p + s[k + 1]
  OBVIOUS
<1>2. CASE b = k + 1
  BY <1>1, <1>2
<1>3. CASE b # k + 1
  <2>1. b \in 1 .. k /\ b \in 1 .. Len(s)
    BY <1>3
  <2>2. s[b] \in Nat /\ s[b] <= p
    BY <2>1
  <2>. QED BY <1>1, <2>2
<1>. QED BY <1>2, <1>3

\* Skipping a buffer: it is empty, or there is no room left.
LEMMA SkipStep == IInv /\ SkipBuffer => IInv'
<1> SUFFICES ASSUME IInv, SkipBuffer PROVE IInv'
  OBVIOUS
<1>1. i + 1 \in 1 .. Len(buffs) /\ buffs[i + 1] \in Nat
  <2>1. i \in 0 .. Len(buffs) /\ i < Len(buffs) /\ buffs \in Seq(Nat)
    BY DEF IInv, TypeOK, EventOK, SkipBuffer
  <2>. QED BY <2>1, NextBuffer
<1>2. TypeOK' /\ EventOK'
  BY <1>1 DEF IInv, TypeOK, EventOK, SkipBuffer
<1>3. Progress'
  <2>1. /\ bufferLen \in Nat /\ remaining \in 0 .. bufferLen /\ passed \in Nat
        /\ copied = bufferLen - remaining
        /\ copied = IF passed < bufferLen THEN passed ELSE bufferLen
    BY DEF IInv, TypeOK, EventOK, Progress
  <2>2. buffs[i + 1] = 0 \/ remaining = 0
    BY <1>1, <2>1 DEF SkipBuffer, ToCopy
  <2>3. copied' = (IF passed < bufferLen THEN passed ELSE bufferLen)'
    BY <1>1, <2>1, <2>2 DEF SkipBuffer
  <2>4. completed = Unset
    BY <1>1 DEF IInv, TypeOK, Progress, SkipBuffer
  <2>5. (\A b \in 1 .. i' : buffs'[b] = 0) => passed' = 0
    BY <1>1, <2>1 DEF IInv, TypeOK, Progress, SkipBuffer
  <2>6. \A b \in 1 .. i' : buffs'[b] <= passed'
    BY <1>1, GrowsWithBuffer DEF IInv, TypeOK, EventOK, Progress, SkipBuffer
  <2>. QED BY <2>3, <2>4, <2>5, <2>6 DEF Progress, SkipBuffer
<1>4. (SingleBuffer => InOrder(copied))'
  BY DEF IInv, SkipBuffer, SingleBuffer, InOrder
<1>5. (InOrder(copied) <=> FirstHas(copied, i))'
  <2>1. /\ UNCHANGED <<buffs, lpBuffer, copied>> /\ i' = i + 1 /\ i \in Nat
        /\ copied \in Nat /\ passed >= copied
    BY DEF IInv, TypeOK, EventOK, Progress, SkipBuffer
  <2>2. FirstHas(copied, i) <=> FirstHas(copied, i + 1)
    <3>1. ASSUME \A a \in 1 .. i : buffs[a] = 0 PROVE copied = 0
      BY <2>1, <3>1 DEF IInv, Progress
    <3>. QED BY <2>1, <3>1 DEF FirstHas
  <2>. QED BY <2>1, <2>2 DEF IInv, InOrder, FirstHas
<1>. QED BY <1>2, <1>3, <1>4, <1>5 DEF IInv

\* Copying a buffer: a first one goes where it belongs.
LEMMA CopyStep == IInv /\ CopyBuffer => IInv'
<1> SUFFICES ASSUME IInv, CopyBuffer PROVE IInv'
  OBVIOUS
<1>1. i + 1 \in 1 .. Len(buffs) /\ buffs[i + 1] \in Nat
  <2>1. i \in 0 .. Len(buffs) /\ i < Len(buffs) /\ buffs \in Seq(Nat)
    BY DEF IInv, TypeOK, EventOK, CopyBuffer
  <2>. QED BY <2>1, NextBuffer
<1>2. ToCopy \in 1 .. remaining /\ ToCopy <= buffs[i + 1] /\ remaining \in 0 .. bufferLen
  <2>1. remaining \in Nat /\ remaining \in 0 .. bufferLen
    BY DEF IInv, TypeOK, EventOK
  <2>. QED BY <1>1, <2>1 DEF CopyBuffer, ToCopy
<1>3. TypeOK' /\ EventOK'
  <2>1. /\ bufferLen \in Nat /\ i \in 0 .. Len(buffs) /\ passed \in Nat
        /\ copied = bufferLen - remaining
    BY DEF IInv, TypeOK, EventOK
  <2>2. 0 .. bufferLen - 1 = 0 .. bufferLen - 1 \cup 0 .. ToCopy - 1
    BY <1>2, <2>1
  <2>3. DOMAIN lpBuffer' = 0 .. bufferLen' - 1
    BY <2>2 DEF IInv, TypeOK, CopyBuffer
  <2>4. i' \in 0 .. Len(buffs') /\ passed' \in Nat
    BY <1>1, <2>1 DEF CopyBuffer
  <2>5. remaining' \in 0 .. bufferLen' /\ copied' = bufferLen' - remaining'
    BY <1>2, <2>1 DEF CopyBuffer
  <2>. QED BY <2>3, <2>4, <2>5 DEF IInv, TypeOK, EventOK, CopyBuffer
<1>4. Progress'
  <2>1. copied' = (IF passed < bufferLen THEN passed ELSE bufferLen)'
    <3>1. /\ copied = bufferLen - remaining /\ passed \in Nat /\ bufferLen \in Nat
          /\ remaining \in Nat /\ copied = IF passed < bufferLen THEN passed ELSE bufferLen
      BY DEF IInv, TypeOK, EventOK, Progress
    <3>2. /\ copied' = copied + ToCopy /\ bufferLen' = bufferLen
          /\ passed' = passed + buffs[i + 1]
      BY DEF CopyBuffer
    <3>3. ToCopy = IF buffs[i + 1] < remaining THEN buffs[i + 1] ELSE remaining
      BY DEF ToCopy
    <3>. QED BY <1>1, <1>2, <3>1, <3>2, <3>3
  <2>2. completed = Unset
    BY <1>1 DEF IInv, TypeOK, EventOK, Progress, CopyBuffer
  <2>3. ~ \A b \in 1 .. i' : buffs'[b] = 0
    BY <1>1, <1>2 DEF CopyBuffer
  <2>4. \A b \in 1 .. i' : buffs'[b] <= passed'
    BY <1>1, GrowsWithBuffer DEF IInv, TypeOK, EventOK, Progress, CopyBuffer
  <2>. QED BY <2>1, <2>2, <2>3, <2>4 DEF Progress, CopyBuffer
<1>5. ASSUME SingleBuffer PROVE InOrder(copied)'
  <2>1. ASSUME NEW b \in 1 .. i PROVE buffs[b] = 0
    <3>1. b \in DOMAIN buffs /\ i + 1 \in DOMAIN buffs /\ b # i + 1 /\ buffs[b] \in Nat
      BY <1>1, <2>1 DEF IInv, TypeOK, EventOK
    <3>. QED BY <1>1, <1>2, <1>5, <3>1 DEF SingleBuffer
  <2>2. passed = 0 /\ copied = 0
    BY <2>1 DEF IInv, TypeOK, EventOK, Progress
  <2>. QED BY <1>1, <1>2, <2>2 DEF IInv, TypeOK, EventOK, CopyBuffer, SourceByte, InOrder
<1>6. (InOrder(copied) <=> FirstHas(copied, i))'
  <2>1. /\ i \in Nat /\ copied \in Nat /\ passed \in Nat /\ copied <= passed
        /\ copied = 0 \/ copied = passed
        /\ copied' = copied + ToCopy /\ ToCopy \in Nat \ {0} /\ ToCopy <= buffs[i + 1]
        /\ buffs' = buffs /\ i' = i + 1
        /\ copied = 0 => passed = 0
    BY <1>2 DEF IInv, TypeOK, EventOK, Progress, CopyBuffer
  <2>2. \A b \in 1 .. i : buffs[b] \in Nat /\ buffs[b] <= passed
    BY DEF IInv, TypeOK, EventOK, Progress
  <2>3. \A k \in 0 .. ToCopy - 1 : lpBuffer'[k] = passed + k
    BY <1>2 DEF IInv, TypeOK, EventOK, CopyBuffer, SourceByte
  <2>4. CASE copied = 0
    <3>1. copied' = ToCopy /\ passed = 0
      BY <1>2, <2>1, <2>4
    <3>2. InOrder(copied)'
      BY <2>1, <2>3, <3>1 DEF InOrder
    <3>3. i + 1 \in 1 .. i + 1 /\ \A a \in 1 .. (i + 1) - 1 : buffs[a] = 0
      BY <2>1, <2>2, <3>1
    <3>4. FirstHas(copied, i)'
      BY <2>1, <3>1, <3>3 DEF FirstHas
    <3>. QED BY <3>2, <3>4
  <2>5. CASE copied > 0
    <3>1. lpBuffer'[0] # 0
      BY <2>1, <2>3, <2>5
    <3>2. ~InOrder(copied)'
      BY <2>1, <2>5, <3>1 DEF InOrder
    <3>3. ~ \A b \in 1 .. i : buffs[b] = 0
      BY <2>1, <2>5 DEF IInv, Progress
    <3>4. ~FirstHas(copied, i)'
      <4>1. ASSUME NEW b \in 1 .. i + 1, buffs[b] >= copied'
            PROVE  b = i + 1
        BY <2>1, <2>2, <2>5, <4>1
      <4>2. ASSUME \A a \in 1 .. (i + 1) - 1 : buffs[a] = 0 PROVE FALSE
        BY <2>1, <3>3, <4>2
      <4>3. copied' # 0
        BY <1>2, <2>1
      <4>. QED BY <2>1, <4>1, <4>2, <4>3 DEF FirstHas
    <3>. QED BY <3>2, <3>4
  <2>. QED BY <2>1, <2>4, <2>5
<1>. QED BY <1>3, <1>4, <1>5, <1>6 DEF IInv, CopyBuffer, SingleBuffer

LEMMA CompleteStep == IInv /\ ReceiveComplete => IInv'
<1> SUFFICES ASSUME IInv, ReceiveComplete PROVE IInv'
  OBVIOUS
<1>1. (InOrder(copied) <=> FirstHas(copied, i))'
  BY DEF IInv, InOrder, FirstHas, ReceiveComplete
<1>. QED BY <1>1 DEF IInv, TypeOK, EventOK, Progress, SingleBuffer, InOrder, ReceiveComplete

LEMMA Inductive == IInv /\ [Next]_vars => IInv'
<1>1. ASSUME IInv, UNCHANGED vars PROVE IInv'
  <2>1. (InOrder(copied) <=> FirstHas(copied, i))'
    BY <1>1 DEF vars, IInv, InOrder, FirstHas
  <2>. QED BY <1>1, <2>1 DEF vars, IInv, TypeOK, EventOK, Progress, SingleBuffer, InOrder
<1>. QED BY <1>1, SkipStep, CopyStep, CompleteStep DEF Next

\* The inductive invariant holds.
THEOREM Invariance == Spec => []IInv
BY Initially, Inductive, PTL DEF Spec

\* Nothing is written behind the end of lpBuffer, whatever the sizes
\* (memcpy_s at basic_stream_handle.hpp:427).
THEOREM TypeCorrect == Spec => []TypeOK
BY Invariance, PTL DEF IInv

\* receive_complete is told the smaller of what was indicated and the room.
THEOREM Acknowledges == Spec => []AcknowledgesWhatFits
<1>1. IInv => AcknowledgesWhatFits
  BY DEF IInv, Progress, AcknowledgesWhatFits
<1>. QED BY <1>1, Invariance, PTL

\* An event with one buffer that is not empty arrives as it was sent.
THEOREM SingleBufferArrives == Spec => []SingleBufferInOrder
<1>1. IInv => SingleBufferInOrder
  BY DEF IInv, Progress, SingleBuffer, SingleBufferInOrder
<1>. QED BY <1>1, Invariance, PTL

\* And that is all that arrives as it was sent: what is acknowledged is right
\* exactly when the first buffer that is not empty has all of it.  A second one
\* that is copied always spoils the first, not only in the run that shows it.
THEOREM SecondCopySpoils ==
  Spec => [](completed # Unset => (InOrder(completed) <=> FirstHas(completed, Len(buffs))))
<1>1. IInv => (completed # Unset => (InOrder(completed) <=> FirstHas(completed, Len(buffs))))
  BY DEF IInv, Progress
<1>. QED BY <1>1, Invariance, PTL
==============================================================================
