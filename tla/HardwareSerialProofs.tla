------------------------- MODULE HardwareSerialProofs -------------------------
(***************************************************************************)
(* What holds of a serial port, for every size of the rings, depth of the  *)
(* FIFO and number of bytes: first of its transmit half, then of its       *)
(* receive half, and then of the whole object, which behaves on each side  *)
(* as its half does alone.                                                 *)
(***************************************************************************)
EXTENDS HardwareSerial, SequenceTheorems, TLAPS

------------------------------------------------------------------------------
(* The transmit half.  TypeCorrect and FlushWaits hold however long other  *)
(* handlers hold things up; NeverOverrun, RoomIsThere and NothingLost,     *)
(* that it is a channel, need them not to.                                 *)

(* The successor of an index is an index, differs from it, and no two      *)
(* indices share one: _tx_buffer_head and _tx_buffer_tail stay inside the  *)
(* array whatever SERIAL_TX_BUFFER_SIZE is.                                *)
LEMMA IncIs ==
    \A i \in Index : Inc(i) = IF i = TxSize - 1 THEN 0 ELSE i + 1
BY TxAssumption DEF TxAssumption, Index, Inc

LEMMA IncIndex ==
    /\ \A i \in Index : Inc(i) \in Index /\ Inc(i) # i
    /\ \A i, j \in Index : Inc(i) = Inc(j) => i = j
BY IncIs, TxAssumption DEF TxAssumption, Index

(* One run of the handler's body keeps every register and index in range.  *)
LEMMA BodyType ==
    ASSUME TxTypeOK, TxUdrEmptyIrqBody, pc' \in TxPc
    PROVE  TxTypeOK'
BY IncIndex DEF TxTypeOK, TxUdrEmptyIrqBody, callVars, TxBytes

(* Returning from write() leaves a promise availableForWrite() could make. *)
LEMMA PromiseType ==
    ASSUME room \in 0 .. TxSize - 1, Promise
    PROVE  room' \in 0 .. TxSize - 1
BY TxAssumption DEF TxAssumption, Promise

(* Every variable keeps its type, for every TxSize, MaxBytes and HeldUp.   *)
THEOREM TypeCorrect == TxSpec => []TxTypeOK
<1>1. TxInit => TxTypeOK
  <2>1. 0 \in Index /\ 0 \in TxBytes
    BY TxAssumption DEF TxAssumption, Index, TxBytes
  <2>2. <<>> \in Seq(TxBytes)
    OBVIOUS
  <2> QED
    BY <2>1, <2>2, TxAssumption DEF TxAssumption, TxInit, TxTypeOK, TxPc, Index
<1>2. TxTypeOK /\ [TxNext]_txVars => TxTypeOK'
  <2> SUFFICES ASSUME TxTypeOK, [TxNext]_txVars
               PROVE  TxTypeOK'
    OBVIOUS
  <2> USE DEF TxTypeOK, TxPc, Step, ringVars, usartVars, callVars
  <2>1. CASE TxBegin \/ TxEnd \/ SetInterrupts
    BY <2>1 DEF TxBegin, TxEnd, SetInterrupts
  <2>2. CASE Write
    <3>1. CASE WriteCall
      BY <3>1, TxAssumption DEF TxAssumption, WriteCall, TxBytes
    <3>2. CASE WriteShortcut \/ WriteQueue
      BY <3>2 DEF WriteShortcut, WriteQueue
    <3>3. CASE WriteClearTxc
      BY <3>3, PromiseType DEF WriteClearTxc
    <3>4. CASE WriteStore
      BY <3>4 DEF WriteStore
    <3>5. CASE WritePoll
      BY <3>5, BodyType DEF WritePoll
    <3>6. CASE WriteAdvanceHead
      BY <3>6, IncIndex DEF WriteAdvanceHead
    <3>7. CASE WriteEnableIrq
      BY <3>7, PromiseType DEF WriteEnableIrq
    <3> QED
      BY <2>2, <3>1, <3>2, <3>3, <3>4, <3>5, <3>6, <3>7 DEF Write
  <2>3. CASE Flush
    <3>1. CASE FlushCall \/ FlushDone \/ FlushReturn
      BY <3>1 DEF FlushCall, FlushDone, FlushReturn
    <3>2. CASE FlushPoll
      BY <3>2, BodyType DEF FlushPoll
    <3> QED
      BY <2>3, <3>1, <3>2 DEF Flush
  <2>4. CASE AvailableForWrite
    BY <2>4, TxAssumption DEF TxAssumption, AvailableForWrite, Index
  <2>5. CASE TxHardware
    <3>1. CASE UsartLoad
      BY <3>1 DEF UsartLoad, UDRE
    <3>2. CASE UsartFrameEnd
      BY <3>2 DEF UsartFrameEnd, UDRE
    <3>3. CASE TxUdrEmptyIrq
      BY <3>3, BodyType DEF TxUdrEmptyIrq
    <3> QED
      BY <2>5, <3>1, <3>2, <3>3 DEF TxHardware
  <2>6. CASE UNCHANGED txVars
    BY <2>6 DEF txVars
  <2> QED
    BY <2>1, <2>2, <2>3, <2>4, <2>5, <2>6 DEF TxNext, TxMain
<1> QED
  BY <1>1, <1>2, PTL DEF TxSpec

------------------------------------------------------------------------------
(***************************************************************************)
(* flush() waits.  FlushMeansSent is not inductive: whether the loop may   *)
(* end is read from UDRIE and TXC, so the proof carries what these two     *)
(* flags say about the ring and the registers at every step of the main    *)
(* line.  UDRIE lags behind the ring only between the last two steps of    *)
(* write(), and TXC behind UDR only inside its shortcut.                   *)
(***************************************************************************)
FlagInv ==
    /\ ~UDRIE /\ pc # "w_udrie" => Empty
    /\ TXC /\ pc # "w_txc" => UDR = NoByte /\ shift = NoByte
    /\ pc \in {"f_done", "closed"} => ~UDRIE /\ UDR = NoByte /\ shift = NoByte
    /\ pc \in {"w_check", "w_txc", "w_full", "w_head", "w_udrie"} => written
    /\ ~written => Drained /\ ~UDRIE

(* The flags as the handler's body leaves them.                            *)
LEMMA BodyFlags ==
    ASSUME TxTypeOK, FlagInv, TxUdrEmptyIrqBody, UDRIE, pc' = pc
    PROVE  FlagInv'
BY DEF TxTypeOK, FlagInv, TxUdrEmptyIrqBody, callVars, Empty, Drained

LEMMA FlagStep == TxTypeOK /\ FlagInv /\ [TxNext]_txVars => FlagInv'
<1> SUFFICES ASSUME TxTypeOK, FlagInv, [TxNext]_txVars
             PROVE  FlagInv'
  OBVIOUS
<1> USE DEF FlagInv, Drained, Empty, Step, ringVars, usartVars, callVars
<1>1. CASE TxBegin \/ TxEnd \/ SetInterrupts \/ AvailableForWrite
  BY <1>1 DEF TxBegin, TxEnd, SetInterrupts, AvailableForWrite
<1>2. CASE Write
  <2>1. CASE WriteCall \/ WriteShortcut \/ WriteQueue \/ WriteStore
    BY <2>1 DEF WriteCall, WriteShortcut, WriteQueue, WriteStore
  <2>2. CASE WriteClearTxc
    BY <2>2 DEF WriteClearTxc
  <2>3. CASE WritePoll
    <3>1. UDRIE
      BY <2>3, IncIndex DEF TxTypeOK, WritePoll, Full
    <3> QED
      BY <2>3, <3>1, BodyFlags DEF WritePoll
  <2>4. CASE WriteAdvanceHead \/ WriteEnableIrq
    BY <2>4 DEF WriteAdvanceHead, WriteEnableIrq
  <2> QED
    BY <1>2, <2>1, <2>2, <2>3, <2>4 DEF Write
<1>3. CASE Flush
  <2>1. CASE FlushCall \/ FlushDone \/ FlushReturn
    BY <2>1 DEF FlushCall, FlushDone, FlushReturn
  <2>2. CASE FlushPoll
    BY <2>2, BodyFlags DEF FlushPoll
  <2> QED
    BY <1>3, <2>1, <2>2 DEF Flush
<1>4. CASE TxHardware
  <2>1. CASE UsartLoad
    BY <2>1 DEF UsartLoad, UDRE
  <2>2. CASE UsartFrameEnd
    BY <2>2 DEF UsartFrameEnd, UDRE
  <2>3. CASE TxUdrEmptyIrq
    BY <2>3, BodyFlags DEF TxUdrEmptyIrq, TxIrqPending
  <2> QED
    BY <1>4, <2>1, <2>2, <2>3 DEF TxHardware
<1>5. CASE UNCHANGED txVars
  BY <1>5 DEF txVars
<1> QED
  BY <1>1, <1>2, <1>3, <1>4, <1>5 DEF TxNext, TxMain

THEOREM FlagsTellTruth == TxSpec => []FlagInv
<1>1. TxInit => FlagInv
  BY DEF TxInit, FlagInv, Empty, Drained
<1> QED
  BY <1>1, FlagStep, TypeCorrect, PTL DEF TxSpec

(* flush() never returns, and end() never turns the transmitter off, while *)
(* a byte is left in the ring, in UDR or in the shift register, however    *)
(* long interrupts are held up.                                            *)
THEOREM FlushWaits == TxSpec => []NothingCut
<1>1. FlagInv => NothingCut
  BY DEF FlagInv, NothingCut, FlushMeansSent, EndCutsNothing, Drained, Closed
<1> QED
  BY <1>1, FlagsTellTruth, PTL

------------------------------------------------------------------------------
(***************************************************************************)
(* The handler never runs on an empty ring, provided no other handler      *)
(* holds up the main line or a pending interrupt for a frame.  The danger  *)
(* is the step between _tx_buffer_head = i and the setting of UDRIE: if    *)
(* UDRIE is still set from earlier bytes, the handler could send them and  *)
(* the new byte, and UDRIE would then be set over an empty ring.  OneOnly  *)
(* says why it cannot: one of two bytes stays until the window closes.     *)
(***************************************************************************)
OneOnly ==
    pc = "w_udrie" /\ UDRIE /\ I =>
        /\ UDR # NoByte \/ shift # NoByte
        /\ tx_buffer_head # Inc(tx_buffer_tail) \/ (UDR # NoByte /\ shift # NoByte)

RingInv ==
    /\ UDRIE \/ pc = "w_udrie" => ~Empty
    /\ pc = "w_head" => ~Full
    /\ OneOnly

LEMMA RingStep ==
    ASSUME ~HeldUp, TxTypeOK, RingInv, [TxNext]_txVars
    PROVE  RingInv'
<1> USE DEF RingInv, OneOnly, Empty, Full, Step, ringVars, usartVars, callVars
<1> USE DEF TxIrqPending, UDRE
<1>1. CASE TxBegin \/ TxEnd \/ SetInterrupts \/ AvailableForWrite
  BY <1>1 DEF TxBegin, TxEnd, SetInterrupts, AvailableForWrite
<1>2. CASE Write
  <2>1. CASE WriteCall \/ WriteShortcut \/ WriteClearTxc \/ WriteQueue \/ WriteStore
    BY <2>1 DEF WriteCall, WriteShortcut, WriteClearTxc, WriteQueue, WriteStore
  <2>2. CASE WritePoll
    BY <2>2 DEF WritePoll, TxUdrEmptyIrqBody
  <2>3. CASE WriteAdvanceHead
    <3>1. Inc(tx_buffer_head) # tx_buffer_tail
      BY <2>3 DEF WriteAdvanceHead
    <3>2. UDRIE => Inc(tx_buffer_head) # Inc(tx_buffer_tail)
      BY IncIndex DEF TxTypeOK
    <3>3. UDRIE /\ I => UDR # NoByte
      BY <2>3 DEF WriteAdvanceHead
    <3> QED
      BY <2>3, <3>1, <3>2, <3>3 DEF WriteAdvanceHead
  <2>4. CASE WriteEnableIrq
    BY <2>4 DEF WriteEnableIrq
  <2> QED
    BY <1>2, <2>1, <2>2, <2>3, <2>4 DEF Write
<1>3. CASE Flush
  <2>1. CASE FlushCall \/ FlushDone \/ FlushReturn
    BY <2>1 DEF FlushCall, FlushDone, FlushReturn
  <2>2. CASE FlushPoll
    BY <2>2 DEF FlushPoll, TxUdrEmptyIrqBody
  <2> QED
    BY <1>3, <2>1, <2>2 DEF Flush
<1>4. CASE TxHardware
  <2>1. CASE UsartLoad
    BY <2>1 DEF UsartLoad
  <2>2. CASE UsartFrameEnd
    BY <2>2 DEF UsartFrameEnd, FrameMayEnd, InWindow
  <2>3. CASE TxUdrEmptyIrq
    <3>1. UDR' # NoByte
      BY <2>3, TxAssumption
      DEF TxUdrEmptyIrq, TxUdrEmptyIrqBody, TxTypeOK, TxBytes, TxAssumption
    <3>2. ~Full => Inc(tx_buffer_head) # Inc(tx_buffer_tail)
      BY <2>3, IncIndex DEF TxUdrEmptyIrq, TxTypeOK
    <3>3. CASE pc = "w_udrie"
      <4>1. shift # NoByte /\ tx_buffer_head # Inc(tx_buffer_tail)
        BY <2>3, <3>3 DEF TxUdrEmptyIrq
      <4> QED
        BY <2>3, <3>1, <3>3, <4>1 DEF TxUdrEmptyIrq, TxUdrEmptyIrqBody
    <3>4. CASE pc # "w_udrie"
      BY <2>3, <3>2, <3>4 DEF TxUdrEmptyIrq, TxUdrEmptyIrqBody
    <3> QED
      BY <3>3, <3>4
  <2> QED
    BY <1>4, <2>1, <2>2, <2>3 DEF TxHardware
<1>5. CASE UNCHANGED txVars
  BY <1>5 DEF txVars
<1> QED
  BY <1>1, <1>2, <1>3, <1>4, <1>5 DEF TxNext, TxMain

THEOREM RingHolds ==
    ASSUME ~HeldUp
    PROVE  TxSpec => []RingInv
<1>1. TxInit => RingInv
  BY DEF TxInit, RingInv, OneOnly, Empty, Full
<1>2. TxTypeOK /\ RingInv /\ [TxNext]_txVars => RingInv'
  BY RingStep
<1> QED
  BY <1>1, <1>2, TypeCorrect, PTL DEF TxSpec

(* Every run of the handler finds a byte in the ring, as its first comment *)
(* says, for every buffer size, as long as no other handler interferes.    *)
THEOREM NeverOverrun ==
    ASSUME ~HeldUp
    PROVE  TxSpec => []IrqHasData
<1>1. RingInv => IrqHasData
  BY DEF RingInv, IrqHasData, TxIrqPending
<1> QED
  BY <1>1, RingHolds, PTL
------------------------------------------------------------------------------
(***************************************************************************)
(* What availableForWrite() told stays true.  RoomInv counts the promise   *)
(* against the slots that are free: write() takes a slot when it advances  *)
(* the head, and a write from the promise when it returns.                 *)
(***************************************************************************)
Free(head, tail) == IF head >= tail THEN TxSize - 1 - head + tail ELSE tail - head - 1

(* Moving the head takes a free slot, moving the tail gives one back.      *)
LEMMA FreeStep ==
    ASSUME NEW h \in Index, NEW t \in Index
    PROVE  /\ Free(h, t) \in Index
           /\ Inc(h) = t <=> Free(h, t) = 0
           /\ Inc(h) # t => Free(Inc(h), t) = Free(h, t) - 1
           /\ h # t => Free(h, Inc(t)) = Free(h, t) + 1
<1>1. \A i \in Index : Inc(i) = IF i = TxSize - 1 THEN 0 ELSE i + 1
  BY IncIs
<1>2. /\ Inc(h) = IF h = TxSize - 1 THEN 0 ELSE h + 1
      /\ Inc(t) = IF t = TxSize - 1 THEN 0 ELSE t + 1
  BY <1>1
<1> QED
  BY <1>2, TxAssumption DEF TxAssumption, Index, Free

RoomInv ==
    /\ pc = "w_head" => ~Full
    /\ room <= Free(tx_buffer_head, tx_buffer_tail) + (IF pc = "w_udrie" THEN 1 ELSE 0)

(* The handler only makes room.                                            *)
LEMMA BodyRoom ==
    ASSUME TxTypeOK, RoomInv, ~Empty, TxUdrEmptyIrqBody, pc' = pc
    PROVE  RoomInv'
<1>1. /\ tx_buffer_head \in Index /\ tx_buffer_tail \in Index
      /\ Inc(tx_buffer_tail) \in Index
      /\ room \in Nat
  BY IncIndex DEF TxTypeOK
<1>2. /\ tx_buffer_head' = tx_buffer_head /\ tx_buffer_tail' = Inc(tx_buffer_tail) /\ room' = room
  BY DEF TxUdrEmptyIrqBody, callVars
<1>3. Inc(tx_buffer_head) # Inc(tx_buffer_tail)
  BY <1>1, IncIndex DEF Empty
<1>4. Free(tx_buffer_head', tx_buffer_tail') = Free(tx_buffer_head, tx_buffer_tail) + 1
  BY <1>1, <1>2, FreeStep DEF Empty
<1>5. Free(tx_buffer_head, tx_buffer_tail) \in Nat
  BY <1>1, FreeStep DEF Index
<1> QED
  BY <1>1, <1>2, <1>3, <1>4, <1>5 DEF RoomInv, Full

LEMMA RoomStep ==
    ASSUME TxTypeOK, RingInv, RoomInv, [TxNext]_txVars
    PROVE  RoomInv'
<1>1. /\ tx_buffer_head \in Index /\ tx_buffer_tail \in Index /\ room \in Nat
      /\ Free(tx_buffer_head, tx_buffer_tail) \in Nat
  BY FreeStep DEF TxTypeOK, Index
<1> USE DEF RoomInv, Step, ringVars, usartVars, callVars
<1>2. CASE TxBegin \/ TxEnd \/ SetInterrupts
  BY <1>2 DEF TxBegin, TxEnd, SetInterrupts, Full
<1>3. CASE AvailableForWrite
  BY <1>1, <1>3 DEF AvailableForWrite, Free
<1>4. CASE Write
  <2>1. CASE WriteCall \/ WriteShortcut \/ WriteQueue
    BY <2>1 DEF WriteCall, WriteShortcut, WriteQueue
  <2>2. CASE WriteClearTxc \/ WriteEnableIrq
    BY <1>1, <2>2 DEF WriteClearTxc, WriteEnableIrq, Promise
  <2>3. CASE WriteStore
    BY <2>3 DEF WriteStore, Full
  <2>4. CASE WritePoll
    <3>1. ~Empty
      BY <2>4, IncIndex DEF WritePoll, Full, Empty, TxTypeOK
    <3> QED
      BY <2>4, <3>1, BodyRoom DEF WritePoll
  <2>5. CASE WriteAdvanceHead
    <3>1. Inc(tx_buffer_head) # tx_buffer_tail
      BY <2>5 DEF WriteAdvanceHead, Full
    <3>2. Free(Inc(tx_buffer_head), tx_buffer_tail) = Free(tx_buffer_head, tx_buffer_tail) - 1
      BY <1>1, <3>1, FreeStep
    <3> QED
      BY <1>1, <2>5, <3>2 DEF WriteAdvanceHead
  <2> QED
    BY <1>4, <2>1, <2>2, <2>3, <2>4, <2>5 DEF Write
<1>5. CASE Flush
  <2>1. CASE FlushCall \/ FlushDone \/ FlushReturn
    BY <2>1 DEF FlushCall, FlushDone, FlushReturn
  <2>2. CASE FlushPoll
    BY <2>2, BodyRoom DEF FlushPoll, RingInv, Full
  <2> QED
    BY <1>5, <2>1, <2>2 DEF Flush
<1>6. CASE TxHardware
  <2>1. CASE UsartLoad \/ UsartFrameEnd
    BY <2>1 DEF UsartLoad, UsartFrameEnd, Full
  <2>2. CASE TxUdrEmptyIrq
    BY <2>2, BodyRoom DEF TxUdrEmptyIrq, TxIrqPending, RingInv
  <2> QED
    BY <1>6, <2>1, <2>2 DEF TxHardware
<1>7. CASE UNCHANGED txVars
  BY <1>7 DEF txVars, Full
<1> QED
  BY <1>2, <1>3, <1>4, <1>5, <1>6, <1>7 DEF TxNext, TxMain

(* As many writes as availableForWrite() told of do not wait for room, for *)
(* every buffer size.                                                      *)
THEOREM RoomIsThere ==
    ASSUME ~HeldUp
    PROVE  TxSpec => []PromiseKept
<1>1. TxInit => RoomInv
  <2> SUFFICES ASSUME TxInit PROVE RoomInv
    OBVIOUS
  <2>1. 0 \in Index /\ Free(0, 0) \in Nat
    BY FreeStep, TxAssumption DEF TxAssumption, Index, Free
  <2> QED
    BY <2>1 DEF TxInit, RoomInv
<1>2. TxTypeOK /\ RingInv /\ RoomInv /\ [TxNext]_txVars => RoomInv'
  BY RoomStep
<1>3. TxTypeOK /\ RoomInv => PromiseKept
  <2> SUFFICES ASSUME TxTypeOK, RoomInv, pc = "w_full", Full
               PROVE  room = 0
    BY DEF PromiseKept
  <2>1. Free(tx_buffer_head, tx_buffer_tail) = 0
    BY FreeStep DEF TxTypeOK, Full
  <2> QED
    BY <2>1 DEF TxTypeOK, RoomInv
<1> QED
  BY <1>1, <1>2, <1>3, TypeCorrect, RingHolds, PTL DEF TxSpec
------------------------------------------------------------------------------
(***************************************************************************)
(* The transmit half is a ByteChannel that loses nothing.  What is in      *)
(* flight are three sequences, one behind the other: what the shift        *)
(* register holds, what UDR holds, and what is queued in the ring.  A byte *)
(* that moves from one to the next leaves the whole as it is.              *)
(***************************************************************************)

(* The bytes of any ring b from its tail on.                               *)
Ring(b, head, tail) ==
    LET n == (TxSize + head - tail) % TxSize
    IN  [k \in 1 .. n |-> b[(tail + k - 1) % TxSize]]

\* The k-th slot from a tail on, without the modulus.
Slot(tail, k) == IF tail + k - 1 < TxSize THEN tail + k - 1 ELSE tail + k - 1 - TxSize

LEMMA RingIs ==
    ASSUME NEW b \in [Index -> TxBytes], NEW h \in Index, NEW t \in Index
    PROVE  /\ Ring(b, h, t) \in Seq(TxBytes)
           /\ Len(Ring(b, h, t)) = TxSize - 1 - Free(h, t)
           /\ \A k \in 1 .. TxSize - 1 - Free(h, t) : Ring(b, h, t)[k] = b[Slot(t, k)]
<1> DEFINE n == (TxSize + h - t) % TxSize
<1>1. n \in Nat /\ n = TxSize - 1 - Free(h, t)
  BY TxAssumption DEF TxAssumption, Index, Free
<1>2. \A k \in 1 .. n : (t + k - 1) % TxSize = Slot(t, k) /\ Slot(t, k) \in Index
  BY <1>1, TxAssumption DEF TxAssumption, Index, Free, Slot
<1>3. \A k \in 1 .. n : b[(t + k - 1) % TxSize] \in TxBytes
  BY <1>2
<1>4. Ring(b, h, t) = [k \in 1 .. n |-> b[(t + k - 1) % TxSize]]
  BY DEF Ring
<1> HIDE DEF n
<1>5. Ring(b, h, t) \in Seq(TxBytes) /\ Len(Ring(b, h, t)) = n
  BY <1>1, <1>3, <1>4
<1> QED
  BY <1>1, <1>2, <1>4, <1>5

(* Moving the tail takes the oldest byte.                                  *)
LEMMA RingTail ==
    ASSUME NEW b \in [Index -> TxBytes], NEW h \in Index, NEW t \in Index, h # t
    PROVE  Ring(b, h, t) = <<b[t]>> \o Ring(b, h, Inc(t))
<1>1. /\ Inc(t) \in Index /\ b[t] \in TxBytes
      /\ Inc(t) = IF t = TxSize - 1 THEN 0 ELSE t + 1
  BY IncIs, IncIndex
<1>2. Free(h, t) \in Nat /\ Free(h, Inc(t)) = Free(h, t) + 1 /\ Free(h, t) <= TxSize - 2
  <2>1. Free(h, t) \in Index /\ Free(h, Inc(t)) \in Index /\ Free(h, Inc(t)) = Free(h, t) + 1
    BY <1>1, FreeStep
  <2> QED
    BY <2>1, TxAssumption DEF TxAssumption, Index
<1> DEFINE q == Ring(b, h, t)
           r == Ring(b, h, Inc(t))
           n == TxSize - 1 - Free(h, t)
<1>3. /\ q \in Seq(TxBytes) /\ Len(q) = n
      /\ \A k \in 1 .. n : q[k] = b[Slot(t, k)]
  BY RingIs
<1>4. /\ r \in Seq(TxBytes) /\ Len(r) = n - 1
      /\ \A k \in 1 .. n - 1 : r[k] = b[Slot(Inc(t), k)]
  <2>1. TxSize - 1 - Free(h, Inc(t)) = n - 1
    BY <1>2, TxAssumption DEF TxAssumption
  <2> QED
    BY <1>1, <2>1, RingIs
<1>5. n \in Nat /\ n > 0
  BY <1>2, TxAssumption DEF TxAssumption
<1> HIDE DEF q, r, n
<1>6. /\ <<b[t]>> \in Seq(TxBytes) /\ Len(<<b[t]>>) = 1 /\ <<b[t]>>[1] = b[t]
  BY <1>1
<1>7. /\ <<b[t]>> \o r \in Seq(TxBytes) /\ Len(<<b[t]>> \o r) = n
      /\ \A k \in 1 .. n : (<<b[t]>> \o r)[k] = IF k = 1 THEN b[t] ELSE r[k - 1]
  BY <1>4, <1>5, <1>6, ConcatProperties
<1>8. ASSUME NEW k \in 1 .. n
      PROVE  q[k] = (<<b[t]>> \o r)[k]
  <2>1. CASE k = 1
    <3>1. Slot(t, k) = t
      BY <2>1, TxAssumption DEF TxAssumption, Index, Slot
    <3> QED
      BY <1>3, <1>7, <2>1, <3>1
  <2>2. CASE k # 1
    <3>1. k - 1 \in 1 .. n - 1
      BY <1>5, <2>2
    <3>2. Slot(Inc(t), k - 1) = Slot(t, k)
      BY <1>1, <1>2, <1>5, <2>2, TxAssumption DEF TxAssumption, Index, Slot, n
    <3> QED
      BY <1>3, <1>4, <1>7, <2>2, <3>1, <3>2
  <2> QED
    BY <2>1, <2>2
<1>9. q = <<b[t]>> \o r
  BY <1>3, <1>7, <1>8, SeqEqual
<1> QED
  BY <1>9 DEF q, r

(* Storing a byte at the head and moving the head puts it at the end.      *)
LEMMA RingHead ==
    ASSUME NEW b \in [Index -> TxBytes], NEW h \in Index, NEW t \in Index, Inc(h) # t
    PROVE  Ring(b, Inc(h), t) = Append(Ring(b, h, t), b[h])
<1>1. /\ Inc(h) \in Index /\ b[h] \in TxBytes
      /\ Inc(h) = IF h = TxSize - 1 THEN 0 ELSE h + 1
  BY IncIs, IncIndex
<1>2. Free(h, t) \in Nat /\ Free(Inc(h), t) = Free(h, t) - 1 /\ Free(h, t) <= TxSize - 1
  <2>1. Free(h, t) \in Index /\ Free(Inc(h), t) = Free(h, t) - 1
    BY <1>1, FreeStep
  <2> QED
    BY <2>1, TxAssumption DEF TxAssumption, Index
<1> DEFINE q == Ring(b, h, t)
           r == Ring(b, Inc(h), t)
           n == TxSize - 1 - Free(h, t)
<1>3. /\ q \in Seq(TxBytes) /\ Len(q) = n
      /\ \A k \in 1 .. n : q[k] = b[Slot(t, k)]
  BY RingIs
<1>4. /\ r \in Seq(TxBytes) /\ Len(r) = n + 1
      /\ \A k \in 1 .. n + 1 : r[k] = b[Slot(t, k)]
  <2>1. TxSize - 1 - Free(Inc(h), t) = n + 1
    BY <1>2, TxAssumption DEF TxAssumption
  <2> QED
    BY <1>1, <2>1, RingIs
<1>5. n \in Nat /\ Slot(t, n + 1) = h
  BY <1>2, TxAssumption DEF TxAssumption, Index, Free, Slot
<1> HIDE DEF q, r, n
<1>6. r[n + 1] = b[h]
  <2>1. n + 1 \in 1 .. n + 1
    BY <1>5
  <2> QED
    BY <1>4, <1>5, <2>1
<1>7. /\ Append(q, b[h]) \in Seq(TxBytes) /\ Len(Append(q, b[h])) = n + 1
      /\ \A k \in 1 .. n : Append(q, b[h])[k] = q[k]
      /\ Append(q, b[h])[n + 1] = b[h]
  BY <1>1, <1>3, AppendProperties
<1>8. \A k \in 1 .. n + 1 : r[k] = Append(q, b[h])[k]
  BY <1>3, <1>4, <1>5, <1>6, <1>7
<1>9. r = Append(q, b[h])
  BY <1>4, <1>7, <1>8, SeqEqual
<1> QED
  BY <1>9 DEF q, r

(* Storing a byte in the free slot at the head does not touch the queue.   *)
LEMMA RingStore ==
    ASSUME NEW b \in [Index -> TxBytes], NEW h \in Index, NEW t \in Index, NEW v \in TxBytes
    PROVE  Ring([b EXCEPT ![h] = v], h, t) = Ring(b, h, t)
<1> DEFINE b2 == [b EXCEPT ![h] = v]
           n == TxSize - 1 - Free(h, t)
<1>1. b2 \in [Index -> TxBytes] /\ \A i \in Index : i # h => b2[i] = b[i]
  OBVIOUS
<1>2. \A k \in 1 .. n : Slot(t, k) \in Index /\ Slot(t, k) # h
  BY TxAssumption DEF TxAssumption, Index, Free, Slot
<1> HIDE DEF b2
<1>3. /\ Ring(b, h, t) \in Seq(TxBytes) /\ Len(Ring(b, h, t)) = n
      /\ \A k \in 1 .. n : Ring(b, h, t)[k] = b[Slot(t, k)]
  BY RingIs
<1>4. /\ Ring(b2, h, t) \in Seq(TxBytes) /\ Len(Ring(b2, h, t)) = n
      /\ \A k \in 1 .. n : Ring(b2, h, t)[k] = b2[Slot(t, k)]
  BY <1>1, RingIs
<1> HIDE DEF n
<1>5. Ring(b2, h, t) = Ring(b, h, t)
  BY <1>1, <1>2, <1>3, <1>4, SeqEqual
<1> QED
  BY <1>5 DEF b2

(* An empty ring queues nothing.                                           *)
LEMMA RingEmpty ==
    ASSUME NEW b \in [Index -> TxBytes], NEW h \in Index
    PROVE  Ring(b, h, h) = <<>>
<1>1. TxSize - 1 - Free(h, h) = 0
  BY TxAssumption DEF TxAssumption, Index, Free
<1>2. Ring(b, h, h) \in Seq(TxBytes) /\ Len(Ring(b, h, h)) = 0
  BY <1>1, RingIs
<1> QED
  BY <1>2, EmptySeq

(* A register holds one byte or none.                                      *)
LEMMA HeldIs ==
    ASSUME NEW r \in TxBytes \cup {NoByte}
    PROVE  /\ Held(r) \in Seq(TxBytes) /\ Len(Held(r)) \in 0 .. 1
           /\ r = NoByte => Held(r) = <<>>
           /\ r # NoByte => Held(r) = <<r>>
BY DEF Held

(* The registers s and u and a queue q, grouped either way.                *)
LEMMA FlightIs ==
    ASSUME NEW s \in TxBytes \cup {NoByte}, NEW u \in TxBytes \cup {NoByte},
           NEW q \in Seq(TxBytes)
    PROVE  /\ Held(s) \o Held(u) \o q \in Seq(TxBytes)
           /\ Len(Held(s) \o Held(u) \o q) <= 2 + Len(q)
           /\ Held(s) \o Held(u) \o q = Held(s) \o (Held(u) \o q)
           /\ s = NoByte => Held(s) \o Held(u) \o q = Held(u) \o q
           /\ u = NoByte => Held(s) \o Held(u) \o q = Held(s) \o q
<1>1. /\ Held(s) \in Seq(TxBytes) /\ Len(Held(s)) \in 0 .. 1
      /\ Held(u) \in Seq(TxBytes) /\ Len(Held(u)) \in 0 .. 1
      /\ s = NoByte => Held(s) = <<>>
      /\ u = NoByte => Held(u) = <<>>
  BY HeldIs
<1>2. /\ Held(s) \o Held(u) \in Seq(TxBytes)
      /\ Len(Held(s) \o Held(u)) = Len(Held(s)) + Len(Held(u))
      /\ Held(u) \o q \in Seq(TxBytes)
      /\ Len(q) \in Nat
  BY <1>1, ConcatProperties, LenProperties
<1>3. /\ Held(s) \o Held(u) \o q \in Seq(TxBytes)
      /\ Len(Held(s) \o Held(u) \o q) = Len(Held(s)) + Len(Held(u)) + Len(q)
  BY <1>2, ConcatProperties
<1>4. Held(s) \o Held(u) \o q = Held(s) \o (Held(u) \o q)
  BY <1>1, ConcatAssociative
<1>5. s = NoByte => Held(s) \o (Held(u) \o q) = Held(u) \o q
  BY <1>1, <1>2, ConcatEmptySeq
<1>6. u = NoByte => Held(u) \o q = q
  BY <1>1, ConcatEmptySeq
<1>7. Len(Held(s)) + Len(Held(u)) + Len(q) <= 2 + Len(q)
  <2> DEFINE x == Len(Held(s))
             y == Len(Held(u))
             z == Len(q)
  <2>1. x \in 0 .. 1 /\ y \in 0 .. 1 /\ z \in Nat
    BY <1>1, <1>2
  <2> HIDE DEF x, y, z
  <2>2. x + y + z <= 2 + z
    BY <2>1
  <2> QED
    BY <2>2 DEF x, y, z
<1> QED
  BY <1>3, <1>4, <1>5, <1>6, <1>7, Zenon

(* The channel's own names for what moves.                                 *)
LEMMA InFlightIs ==
    ASSUME TxTypeOK
    PROVE  /\ InFlight = Held(shift) \o Held(UDR) \o Ring(tx_buffer, tx_buffer_head, tx_buffer_tail)
           /\ Ring(tx_buffer, tx_buffer_head, tx_buffer_tail) \in Seq(TxBytes)
           /\ InFlight \in Seq(TxBytes)
<1>1. InFlight = Held(shift) \o Held(UDR) \o Ring(tx_buffer, tx_buffer_head, tx_buffer_tail)
  BY DEF InFlight, Queued, Ring
<1>2. Ring(tx_buffer, tx_buffer_head, tx_buffer_tail) \in Seq(TxBytes)
  BY RingIs DEF TxTypeOK
<1> QED
  BY <1>1, <1>2, FlightIs DEF TxTypeOK

(* The handler moves the oldest byte of the ring to UDR: nothing is lost.  *)
LEMMA BodyKeepsFlight ==
    ASSUME TxTypeOK, TxUdrEmptyIrqBody, UDRE, ~Empty
    PROVE  UNCHANGED <<InFlight, out>>
<1> DEFINE b == tx_buffer
           h == tx_buffer_head
           t == tx_buffer_tail
<1>1. /\ b \in [Index -> TxBytes] /\ h \in Index /\ t \in Index /\ Inc(t) \in Index
      /\ shift \in TxBytes \cup {NoByte} /\ b[t] \in TxBytes
  BY IncIndex DEF TxTypeOK
<1>2. /\ UDR = NoByte /\ UDR' = b[t] /\ UDR' # NoByte
      /\ h # t /\ tx_buffer_tail' = Inc(t)
      /\ UNCHANGED <<tx_buffer, tx_buffer_head, shift, out>>
  BY <1>1, TxAssumption DEF TxAssumption, TxUdrEmptyIrqBody, UDRE, Empty, TxBytes
<1>3. InFlight' = Held(shift) \o Held(b[t]) \o Ring(b, h, Inc(t))
  BY <1>2 DEF InFlight, Queued, Ring
<1> HIDE DEF b, h, t
<1>4. Ring(b, h, t) = <<b[t]>> \o Ring(b, h, Inc(t))
  BY <1>1, <1>2, RingTail
<1>5. Held(b[t]) = <<b[t]>>
  BY <1>1, <1>2, HeldIs
<1>6. Ring(b, h, Inc(t)) \in Seq(TxBytes) /\ Ring(b, h, t) \in Seq(TxBytes)
  BY <1>1, RingIs
<1>7. InFlight' = Held(shift) \o (<<b[t]>> \o Ring(b, h, Inc(t)))
  <2>1. b[t] \in TxBytes \cup {NoByte}
    BY <1>1
  <2>2. Held(shift) \o Held(b[t]) \o Ring(b, h, Inc(t))
          = Held(shift) \o (Held(b[t]) \o Ring(b, h, Inc(t)))
    BY <1>1, <1>6, <2>1, FlightIs, Zenon
  <2> QED
    BY <1>3, <1>5, <2>2, Zenon
<1>8. InFlight = Held(shift) \o Held(UDR) \o Ring(b, h, t)
  BY InFlightIs DEF b, h, t
<1>9. InFlight = Held(shift) \o Ring(b, h, t)
  <2>1. UDR \in TxBytes \cup {NoByte}
    BY <1>2
  <2> QED
    BY <1>1, <1>2, <1>6, <1>8, <2>1, FlightIs, Zenon
<1> QED
  BY <1>2, <1>4, <1>7, <1>9

(* The byte stored behind the queue is the one write() was called with.    *)
StoredInv == pc = "w_head" => tx_buffer[tx_buffer_head] = wrote

LEMMA StoredStep ==
    ASSUME TxTypeOK, StoredInv, [TxNext]_txVars
    PROVE  StoredInv'
<1> USE DEF StoredInv, Step, ringVars, usartVars, callVars
<1>1. CASE WriteStore
  BY <1>1 DEF WriteStore, TxTypeOK
<1>2. CASE WriteCall \/ WriteShortcut \/ WriteClearTxc \/ WriteQueue \/ WriteAdvanceHead \/ WriteEnableIrq
  BY <1>2 DEF WriteCall, WriteShortcut, WriteClearTxc, WriteQueue, WriteAdvanceHead, WriteEnableIrq
<1>3. CASE WritePoll \/ Flush
  BY <1>3 DEF WritePoll, Flush, FlushCall, FlushPoll, FlushDone, FlushReturn
<1>4. CASE TxBegin \/ TxEnd \/ AvailableForWrite \/ SetInterrupts
  BY <1>4 DEF TxBegin, TxEnd, AvailableForWrite, SetInterrupts
<1>5. CASE TxHardware
  BY <1>5 DEF TxHardware, UsartLoad, UsartFrameEnd, TxUdrEmptyIrq, TxUdrEmptyIrqBody
<1>6. CASE UNCHANGED txVars
  BY <1>6 DEF txVars
<1> QED
  BY <1>1, <1>2, <1>3, <1>4, <1>5, <1>6 DEF TxNext, TxMain, Write

(* write() finds room for its byte, in UDR ...                             *)
LEMMA ShortcutAccepts ==
    ASSUME TxTypeOK, WriteShortcut
    PROVE  TxChannel!Accept(wrote)
<1> DEFINE b == tx_buffer
           h == tx_buffer_head
<1>1. /\ UDR = NoByte /\ UDR' = wrote /\ wrote # NoByte
      /\ UNCHANGED <<tx_buffer, tx_buffer_head, tx_buffer_tail, shift, out>>
      /\ tx_buffer_tail = h
  BY TxAssumption DEF TxAssumption, WriteShortcut, Empty, UDRE, ringVars, TxTypeOK, TxBytes
<1>2. /\ b \in [Index -> TxBytes] /\ h \in Index
      /\ shift \in TxBytes \cup {NoByte} /\ UDR \in TxBytes \cup {NoByte}
      /\ wrote \in TxBytes /\ wrote \in TxBytes \cup {NoByte}
  BY DEF TxTypeOK
<1>3. InFlight = Held(shift) \o Held(UDR) \o Ring(b, h, h)
  BY <1>1, InFlightIs
<1>4. InFlight' = Held(shift) \o Held(wrote) \o Ring(b, h, h)
  BY <1>1 DEF InFlight, Queued, Ring
<1> HIDE DEF b, h
<1>5. Ring(b, h, h) = <<>>
  BY <1>2, RingEmpty
<1>6. /\ Held(shift) \in Seq(TxBytes) /\ Len(Held(shift)) \in 0 .. 1
      /\ Held(UDR) = <<>> /\ Held(wrote) = <<wrote>>
      /\ <<wrote>> \in Seq(TxBytes)
  BY <1>1, <1>2, HeldIs
<1>7. InFlight = Held(shift)
  BY <1>3, <1>5, <1>6, ConcatEmptySeq
<1>8. InFlight' = Held(shift) \o <<wrote>>
  <2>1. Held(shift) \o <<wrote>> \in Seq(TxBytes)
    BY <1>6, ConcatProperties
  <2> QED
    BY <1>4, <1>5, <1>6, <2>1, ConcatEmptySeq
<1>9. InFlight' = Append(InFlight, wrote)
  BY <1>2, <1>6, <1>7, <1>8, AppendIsConcat
<1>10. Len(InFlight) < TxSize + 1
  <2>1. Len(InFlight) \in 0 .. 1
    BY <1>6, <1>7, Zenon
  <2>2. \A n \in 0 .. 1 : n < TxSize + 1
    BY TxAssumption DEF TxAssumption
  <2> QED
    BY <2>1, <2>2, Zenon
<1> QED
  BY <1>1, <1>9, <1>10 DEF TxChannel!Accept

(* ... or in the ring, which is not full when the head moves.              *)
LEMMA HeadAccepts ==
    ASSUME TxTypeOK, StoredInv, ~Full, WriteAdvanceHead
    PROVE  TxChannel!Accept(wrote)
<1> DEFINE b == tx_buffer
           h == tx_buffer_head
           t == tx_buffer_tail
<1>1. /\ b[h] = wrote /\ Inc(h) # t /\ tx_buffer_head' = Inc(h)
      /\ UNCHANGED <<tx_buffer, tx_buffer_tail, UDR, shift, out>>
  BY DEF WriteAdvanceHead, StoredInv, Full, Step, usartVars
<1>2. /\ b \in [Index -> TxBytes] /\ h \in Index /\ t \in Index /\ wrote \in TxBytes
      /\ shift \in TxBytes \cup {NoByte} /\ UDR \in TxBytes \cup {NoByte}
      /\ Free(h, t) \in Nat /\ Free(h, t) # 0
  BY <1>1, FreeStep DEF TxTypeOK, Index
<1>3. InFlight = Held(shift) \o Held(UDR) \o Ring(b, h, t)
  BY InFlightIs
<1>4. InFlight' = Held(shift) \o Held(UDR) \o Ring(b, Inc(h), t)
  BY <1>1 DEF InFlight, Queued, Ring
<1> HIDE DEF b, h, t
<1>5. /\ Ring(b, h, t) \in Seq(TxBytes) /\ Len(Ring(b, h, t)) = TxSize - 1 - Free(h, t)
      /\ <<wrote>> \in Seq(TxBytes)
  BY <1>2, RingIs
<1>6. Ring(b, Inc(h), t) = Ring(b, h, t) \o <<wrote>>
  BY <1>1, <1>2, <1>5, RingHead, AppendIsConcat
<1>7. /\ Held(shift) \o Held(UDR) \in Seq(TxBytes)
      /\ InFlight \in Seq(TxBytes) /\ Len(InFlight) <= 2 + Len(Ring(b, h, t))
  <2>1. Held(shift) \in Seq(TxBytes) /\ Held(UDR) \in Seq(TxBytes)
    BY <1>2, HeldIs
  <2>2. Held(shift) \o Held(UDR) \in Seq(TxBytes)
    BY <2>1, ConcatProperties
  <2>3. InFlight \in Seq(TxBytes) /\ Len(InFlight) <= 2 + Len(Ring(b, h, t))
    BY <1>2, <1>3, <1>5, FlightIs, Zenon
  <2> QED
    BY <2>2, <2>3
<1>8. InFlight' = InFlight \o <<wrote>>
  <2> DEFINE x == Held(shift) \o Held(UDR)
             y == Ring(b, h, t)
  <2>1. /\ x \in Seq(TxBytes) /\ y \in Seq(TxBytes) /\ <<wrote>> \in Seq(TxBytes)
        /\ InFlight = x \o y
        /\ InFlight' = x \o (y \o <<wrote>>)
    BY <1>3, <1>4, <1>5, <1>6, <1>7, Zenon
  <2> HIDE DEF x, y
  <2> QED
    BY <2>1, ConcatAssociative
<1>9. InFlight' = Append(InFlight, wrote)
  BY <1>2, <1>7, <1>8, AppendIsConcat
<1>10. Len(InFlight) < TxSize + 1
  BY <1>2, <1>5, <1>7, TxAssumption, LenProperties DEF TxAssumption
<1> QED
  BY <1>1, <1>9, <1>10 DEF TxChannel!Accept

(* A frame that ends takes the oldest byte.                                *)
LEMMA FrameDelivers ==
    ASSUME TxTypeOK, UsartFrameEnd
    PROVE  TxChannel!Deliver
<1> DEFINE q == Ring(tx_buffer, tx_buffer_head, tx_buffer_tail)
<1>1. /\ shift # NoByte /\ shift' = NoByte
      /\ UNCHANGED <<tx_buffer, tx_buffer_head, tx_buffer_tail, UDR>>
      /\ out' = Append(out, shift)
  BY DEF UsartFrameEnd, ringVars
<1>2. /\ shift \in TxBytes \cup {NoByte} /\ UDR \in TxBytes \cup {NoByte} /\ q \in Seq(TxBytes)
      /\ shift \in TxBytes /\ NoByte \in TxBytes \cup {NoByte}
      /\ InFlight = Held(shift) \o Held(UDR) \o q
  BY <1>1, InFlightIs DEF TxTypeOK
<1>3. InFlight' = Held(NoByte) \o Held(UDR) \o q
  BY <1>1 DEF InFlight, Queued, Ring
<1> HIDE DEF q
<1>4. Held(shift) = <<shift>> /\ Held(UDR) \in Seq(TxBytes)
  BY <1>1, <1>2, HeldIs
<1>5. InFlight = <<shift>> \o (Held(UDR) \o q)
  <2>1. Held(shift) \o Held(UDR) \o q = Held(shift) \o (Held(UDR) \o q)
    BY <1>2, FlightIs, Zenon
  <2> QED
    BY <1>2, <1>4, <2>1, Zenon
<1>6. InFlight' = Held(UDR) \o q
  BY <1>2, <1>3, FlightIs, Zenon
<1>7. Held(UDR) \o q \in Seq(TxBytes)
  BY <1>2, <1>4, ConcatProperties
<1>8. InFlight # <<>> /\ Head(InFlight) = shift /\ Tail(InFlight) = Held(UDR) \o q
  <2> DEFINE r == Held(UDR) \o q
  <2>1. r \in Seq(TxBytes) /\ InFlight = <<shift>> \o r
    BY <1>5, <1>7
  <2> HIDE DEF r
  <2>2. /\ <<shift>> \in Seq(TxBytes) /\ Len(<<shift>>) = 1 /\ <<shift>>[1] = shift
        /\ Len(r) \in Nat
    BY <1>2, <2>1
  <2>3. /\ InFlight \in Seq(TxBytes) /\ Len(InFlight) = 1 + Len(r)
        /\ InFlight[1] = shift
        /\ \A k \in 1 .. Len(r) : InFlight[k + 1] = r[k]
    BY <2>1, <2>2, ConcatProperties
  <2>4. InFlight # <<>> /\ Head(InFlight) = shift
    BY <2>2, <2>3
  <2>5. /\ Tail(InFlight) \in Seq(TxBytes) /\ Len(Tail(InFlight)) = Len(r)
        /\ \A k \in 1 .. Len(r) : Tail(InFlight)[k] = r[k]
    BY <2>2, <2>3, <2>4, HeadTailProperties
  <2>6. Tail(InFlight) = r
    BY <2>1, <2>5, SeqEqual
  <2> QED
    BY <2>4, <2>6 DEF r
<1> QED
  BY <1>1, <1>6, <1>8 DEF TxChannel!Deliver

LEMMA ChannelStep ==
    ASSUME TxTypeOK, RingInv, StoredInv, [TxNext]_txVars
    PROVE  [(\E b \in TxBytes : TxChannel!Accept(b)) \/ TxChannel!Deliver]_<<InFlight, out>>
<1> USE DEF Step, ringVars, usartVars, callVars
<1>1. wrote \in TxBytes
  BY DEF TxTypeOK
<1>2. ASSUME UNCHANGED <<tx_buffer, tx_buffer_head, tx_buffer_tail, UDR, shift, out>>
      PROVE  UNCHANGED <<InFlight, out>>
  BY <1>2 DEF InFlight, Queued
<1>3. CASE Write
  <2>1. CASE WriteShortcut
    BY <1>1, <2>1, ShortcutAccepts
  <2>2. CASE WriteAdvanceHead
    <3>1. ~Full
      BY <2>2 DEF WriteAdvanceHead, RingInv
    <3> QED
      BY <1>1, <2>2, <3>1, HeadAccepts
  <2>3. CASE WriteStore
    <3>1. Ring([tx_buffer EXCEPT ![tx_buffer_head] = wrote], tx_buffer_head, tx_buffer_tail)
            = Ring(tx_buffer, tx_buffer_head, tx_buffer_tail)
      BY <1>1, RingStore DEF TxTypeOK
    <3>2. InFlight' = Held(shift) \o Held(UDR)
            \o Ring([tx_buffer EXCEPT ![tx_buffer_head] = wrote], tx_buffer_head, tx_buffer_tail)
      BY <2>3 DEF WriteStore, InFlight, Queued, Ring
    <3> QED
      BY <2>3, <3>1, <3>2, InFlightIs DEF WriteStore
  <2>4. CASE WritePoll
    <3>1. UDRE /\ ~Empty /\ TxUdrEmptyIrqBody
      BY <2>4, IncIndex DEF WritePoll, Full, Empty, TxTypeOK
    <3> QED
      BY <3>1, BodyKeepsFlight
  <2>5. CASE WriteCall \/ WriteClearTxc \/ WriteQueue \/ WriteEnableIrq
    BY <1>2, <2>5 DEF WriteCall, WriteClearTxc, WriteQueue, WriteEnableIrq
  <2> QED
    BY <1>3, <2>1, <2>2, <2>3, <2>4, <2>5 DEF Write
<1>4. CASE Flush
  <2>1. CASE FlushPoll
    BY <1>2, <2>1, BodyKeepsFlight DEF FlushPoll, RingInv
  <2>2. CASE FlushCall \/ FlushDone \/ FlushReturn
    BY <1>2, <2>2 DEF FlushCall, FlushDone, FlushReturn
  <2> QED
    BY <1>4, <2>1, <2>2 DEF Flush
<1>5. CASE TxBegin \/ TxEnd \/ AvailableForWrite \/ SetInterrupts
  BY <1>2, <1>5 DEF TxBegin, TxEnd, AvailableForWrite, SetInterrupts
<1>6. CASE TxHardware
  <2>1. CASE UsartLoad
    <3> DEFINE q == Ring(tx_buffer, tx_buffer_head, tx_buffer_tail)
    <3>1. /\ shift = NoByte /\ UDR' = NoByte /\ shift' = UDR
          /\ UNCHANGED <<tx_buffer, tx_buffer_head, tx_buffer_tail, out>>
      BY <2>1 DEF UsartLoad
    <3>2. /\ UDR \in TxBytes \cup {NoByte} /\ NoByte \in TxBytes \cup {NoByte}
          /\ q \in Seq(TxBytes) /\ InFlight = Held(NoByte) \o Held(UDR) \o q
      BY <3>1, InFlightIs DEF TxTypeOK
    <3>3. InFlight' = Held(UDR) \o Held(NoByte) \o q
      BY <3>1 DEF InFlight, Queued, Ring
    <3> HIDE DEF q
    <3>4. InFlight = Held(UDR) \o q /\ InFlight' = Held(UDR) \o q
      BY <3>2, <3>3, FlightIs, Zenon
    <3> QED
      BY <3>1, <3>4
  <2>2. CASE UsartFrameEnd
    BY <2>2, FrameDelivers
  <2>3. CASE TxUdrEmptyIrq
    BY <2>3, BodyKeepsFlight DEF TxUdrEmptyIrq, TxIrqPending, RingInv
  <2> QED
    BY <1>6, <2>1, <2>2, <2>3 DEF TxHardware
<1>7. CASE UNCHANGED txVars
  BY <1>2, <1>7 DEF txVars
<1> QED
  BY <1>3, <1>4, <1>5, <1>6, <1>7 DEF TxNext, TxMain

(* The transmit half implements the channel: what goes over the wire is    *)
(* what the sketch wrote, byte for byte and in order, and never more than  *)
(* TxSize + 1 bytes are on their way.                                      *)
THEOREM NothingLost ==
    ASSUME ~HeldUp
    PROVE  TxSpec => TxIsAChannel
<1>1. TxInit => TxChannel!Init
  <2> SUFFICES ASSUME TxInit PROVE TxChannel!Init
    OBVIOUS
  <2>1. 0 \in Index /\ tx_buffer \in [Index -> TxBytes]
    BY TxAssumption DEF TxAssumption, TxInit, Index, TxBytes
  <2>2. /\ Ring(tx_buffer, 0, 0) = <<>>
        /\ NoByte \in TxBytes \cup {NoByte}
    BY <2>1, RingEmpty
  <2>3. /\ InFlight = Held(NoByte) \o Held(NoByte) \o Ring(tx_buffer, 0, 0)
        /\ out = <<>>
    BY DEF TxInit, InFlight, Queued, Ring
  <2>4. Held(NoByte) = <<>>
    BY <2>2, HeldIs
  <2> QED
    BY <2>2, <2>3, <2>4, ConcatEmptySeq, EmptySeq DEF TxChannel!Init
<1>2. TxInit => StoredInv
  BY DEF TxInit, StoredInv
<1>3. TxTypeOK /\ StoredInv /\ [TxNext]_txVars => StoredInv'
  BY StoredStep
<1>4. TxTypeOK /\ RingInv /\ StoredInv /\ [TxNext]_txVars =>
        [(\E b \in TxBytes : TxChannel!Accept(b)) \/ TxChannel!Deliver]_(TxChannel!channelVars)
  BY ChannelStep DEF TxChannel!channelVars
<1> QED
  BY <1>1, <1>2, <1>3, <1>4, TypeCorrect, RingHolds, PTL DEF TxSpec, TxIsAChannel, TxChannel!Lossless

------------------------------------------------------------------------------
(* The receive half: its types, the order of the bytes, what available()   *)
(* and peek() promise, and that it is a channel which drops only when full.*)

(* The successor of an index, without the modulus.                         *)
LEMMA RxIncIs ==
    \A i \in RxIndex : RxInc(i) = IF i = RxSize - 1 THEN 0 ELSE i + 1
BY RxAssumption DEF RxAssumption, RxIndex, RxInc

(* The successor of an index is an index, other than itself.               *)
LEMMA RxIncIndex ==
    \A i \in RxIndex : RxInc(i) \in RxIndex /\ RxInc(i) # i
BY RxIncIs, RxAssumption DEF RxAssumption, RxIndex

(* available() computed on unsigned numbers is the number of bytes between *)
(* tail and head around the ring.                                          *)
LEMMA DistanceIs ==
    \A h, t \in RxIndex :
        /\ Distance(h, t) = IF h >= t THEN h - t ELSE RxSize + h - t
        /\ Distance(h, t) \in RxIndex
<1>1. \A h, t \in RxIndex : Distance(h, t) = IF h >= t THEN h - t ELSE RxSize + h - t
  BY RxAssumption DEF RxAssumption, RxIndex, Distance
<1> QED
  BY <1>1, RxAssumption DEF RxAssumption, RxIndex

(* The k-th slot from a tail, without the modulus.                         *)
LEMMA SlotIs ==
    \A t \in RxIndex, k \in 1 .. RxSize :
        (t + k - 1) % RxSize = IF t + k - 1 < RxSize THEN t + k - 1 ELSE t + k - 1 - RxSize
BY RxAssumption DEF RxAssumption, RxIndex

(* Advancing the head adds one byte, unless it would meet the tail;        *)
(* advancing the tail of a ring that is not empty takes one away.          *)
LEMMA DistanceStep ==
    \A h, t \in RxIndex :
        /\ RxInc(h) # t => Distance(RxInc(h), t) = Distance(h, t) + 1
        /\ RxInc(h) = t => Distance(h, t) = RxSize - 1
        /\ h # t => Distance(h, RxInc(t)) = Distance(h, t) - 1
        /\ h = t <=> Distance(h, t) = 0
<1>1. \A i \in RxIndex : RxInc(i) = IF i = RxSize - 1 THEN 0 ELSE i + 1
  BY RxIncIs
<1>2. SUFFICES ASSUME NEW h \in RxIndex, NEW t \in RxIndex
               PROVE  /\ RxInc(h) # t => Distance(RxInc(h), t) = Distance(h, t) + 1
                      /\ RxInc(h) = t => Distance(h, t) = RxSize - 1
                      /\ h # t => Distance(h, RxInc(t)) = Distance(h, t) - 1
                      /\ h = t <=> Distance(h, t) = 0
  OBVIOUS
<1>3. /\ RxInc(h) = IF h = RxSize - 1 THEN 0 ELSE h + 1
      /\ RxInc(t) = IF t = RxSize - 1 THEN 0 ELSE t + 1
      /\ RxInc(h) \in RxIndex /\ RxInc(t) \in RxIndex
  BY <1>1, <1>2, RxIncIndex
<1>4. /\ Distance(h, t) = IF h >= t THEN h - t ELSE RxSize + h - t
      /\ Distance(RxInc(h), t)
            = IF RxInc(h) >= t THEN RxInc(h) - t ELSE RxSize + RxInc(h) - t
      /\ Distance(h, RxInc(t))
            = IF h >= RxInc(t) THEN h - RxInc(t) ELSE RxSize + h - RxInc(t)
  BY <1>2, <1>3, DistanceIs
<1> QED
  BY <1>2, <1>3, <1>4, RxAssumption DEF RxAssumption, RxIndex

(* Every variable keeps its type.                                          *)
THEOREM RxTypeCorrect == RxSpec => []RxTypeOK
<1>1. RxInit => RxTypeOK
  <2>1. 0 \in RxIndex /\ 0 \in RxBytes
    BY RxAssumption DEF RxAssumption, RxIndex, RxBytes
  <2>2. <<>> \in Seq(RxBytes) /\ <<>> \in Seq(Frame)
    OBVIOUS
  <2> QED
    BY <2>1, <2>2 DEF RxInit, RxTypeOK, RxPc
<1>2. RxTypeOK /\ [RxNext]_rxVars => RxTypeOK'
  <2> SUFFICES ASSUME RxTypeOK, [RxNext]_rxVars
               PROVE  RxTypeOK'
    OBVIOUS
  <2> USE DEF RxTypeOK, RxPc, RStep, rxRing, rxLocals
  <2>1. CASE RxBegin \/ RxSetInterrupts
    BY <2>1 DEF RxBegin, RxSetInterrupts
  <2>2. CASE RxEnd
    <3>1. CASE RxEndDisable
      BY <3>1 DEF RxEndDisable
    <3>2. CASE RxEndIrqOff
      BY <3>2 DEF RxEndIrqOff
    <3>3. CASE RxEndClear
      BY <3>3, RxAssumption DEF RxAssumption, RxEndClear, RxIndex
    <3> QED
      BY <2>2, <3>1, <3>2, <3>3 DEF RxEnd
  <2>3. CASE Available
    BY <2>3, DistanceIs DEF Available, Used
  <2>4. CASE Peek
    BY <2>4 DEF Peek
  <2>5. CASE Read
    <3>1. CASE ReadLoad
      BY <3>1 DEF ReadLoad
    <3>2. CASE ReadAdvanceTail
      <4>1. sure' \in RxIndex
        BY <3>2, RxAssumption DEF RxAssumption, ReadAdvanceTail, RxIndex
      <4> QED
        BY <3>2, <4>1, RxIncIndex DEF ReadAdvanceTail
    <3> QED
      BY <2>5, <3>1, <3>2 DEF Read
  <2>6. CASE UsartFrame
    <3>1. heard' \in RxBytes
      BY <2>6, RxAssumption DEF RxAssumption, UsartFrame, RxBytes
    <3>2. \A upe \in BOOLEAN : [b |-> heard + 1, UPE |-> upe] \in Frame
      BY <2>6, RxAssumption DEF RxAssumption, UsartFrame, RxBytes, Frame
    <3>3. fifo' \in Seq(Frame)
      BY <2>6, <3>2 DEF UsartFrame
    <3> QED
      BY <2>6, <3>1, <3>3 DEF UsartFrame
  <2>7. CASE RxCompleteIrq
    <3>1. fifo' \in Seq(Frame) /\ Head(fifo) \in Frame
      BY <2>7 DEF RxCompleteIrq, RxIrqPending
    <3>2. Head(fifo).b \in RxBytes
      BY <3>1, RxAssumption DEF RxAssumption, Frame, RxBytes
    <3>3. CASE Head(fifo).UPE \/ RxInc(rx_buffer_head) = rx_buffer_tail
      BY <2>7, <3>1, <3>3 DEF RxCompleteIrq, StoreByte
    <3>4. CASE ~Head(fifo).UPE /\ RxInc(rx_buffer_head) # rx_buffer_tail
      <4>1. /\ rx_buffer' = [rx_buffer EXCEPT ![rx_buffer_head] = Head(fifo).b]
            /\ rx_buffer_head' = RxInc(rx_buffer_head)
            /\ stored' = Append(stored, Head(fifo).b)
        BY <2>7, <3>4 DEF RxCompleteIrq, StoreByte
      <4>2. /\ rx_buffer' \in [RxIndex -> RxBytes]
            /\ rx_buffer_head' \in RxIndex
            /\ stored' \in Seq(RxBytes)
        BY <3>2, <4>1, RxIncIndex
      <4> QED
        BY <2>7, <3>1, <4>2 DEF RxCompleteIrq
    <3> QED
      BY <3>3, <3>4
  <2>8. CASE UNCHANGED rxVars
    BY <2>8 DEF rxVars
  <2> QED
    BY <2>1, <2>2, <2>3, <2>4, <2>5, <2>6, <2>7, <2>8 DEF RxNext, RxMain, RxHardware
<1> QED
  BY <1>1, <1>2, PTL DEF RxSpec

------------------------------------------------------------------------------
(***************************************************************************)
(* The order of the bytes.  RxInOrder says nothing of the byte that read() *)
(* has loaded and not yet returned; ReadInv adds it, with what the main    *)
(* line has learnt and may rely on although the handler runs on: a ring    *)
(* once seen to hold a byte still does, available() can only have become   *)
(* too small, and the byte that peek() saw is still the oldest.            *)
(***************************************************************************)
ReadInv ==
    /\ rpc = "r_tail" => Used > 0 /\ c = rx_buffer[rx_buffer_tail]
    /\ sure <= Used
    /\ peeked # NoData => Used > 0 /\ peeked = rx_buffer[rx_buffer_tail]
    /\ ~Receiving => fifo = <<>>
    /\ rpc = "closed" => Used = 0

FifoInv == RxInOrder /\ ReadInv

(* The handler stores a byte: one more byte waits, behind the others.      *)
LEMMA StoreKeepsOrder ==
    ASSUME RxTypeOK, FifoInv, RxCompleteIrq
    PROVE  FifoInv'
<1> DEFINE h == rx_buffer_head
           t == rx_buffer_tail
           b == Head(fifo).b
<1>1. CASE Head(fifo).UPE \/ RxInc(h) = t
  <2>1. UNCHANGED <<rxRing, stored, got, rpc, rxLocals>>
    BY <1>1 DEF RxCompleteIrq, StoreByte, rxRing, rxLocals
  <2>2. Receiving
    BY DEF RxCompleteIrq, RxIrqPending, FifoInv, ReadInv
  <2> QED
    BY <2>1, <2>2 DEF FifoInv, RxInOrder, ReadInv, Used, rxRing, rxLocals, Receiving
<1>2. CASE ~Head(fifo).UPE /\ RxInc(h) # t
  <2>1. /\ rx_buffer' = [rx_buffer EXCEPT ![h] = b]
        /\ rx_buffer_head' = RxInc(h)
        /\ stored' = Append(stored, b)
        /\ UNCHANGED <<rx_buffer_tail, rxLocals, got, rpc>>
    BY <1>2 DEF RxCompleteIrq, StoreByte
  <2>2. h \in RxIndex /\ t \in RxIndex /\ stored \in Seq(RxBytes) /\ got \in Seq(RxBytes)
    BY DEF RxTypeOK
  <2>3. Used \in RxIndex /\ Used' = Used + 1 /\ Used + 1 <= RxSize
    BY <1>2, <2>1, <2>2, DistanceIs, DistanceStep, RxAssumption
    DEF RxAssumption, Used, RxIndex
  <2>4. (t + Used) % RxSize = h
    <3>1. (t + (Used + 1) - 1) % RxSize = h
      <4>1. Used = IF h >= t THEN h - t ELSE RxSize + h - t
        BY <2>2, DistanceIs DEF Used
      <4>2. Used + 1 \in 1 .. RxSize
        BY <2>3, RxAssumption DEF RxAssumption, RxIndex
      <4>3. (t + (Used + 1) - 1) % RxSize
              = IF t + (Used + 1) - 1 < RxSize THEN t + (Used + 1) - 1
                ELSE t + (Used + 1) - 1 - RxSize
        BY <2>2, <4>2, SlotIs
      <4> QED
        BY <2>2, <4>1, <4>3, RxAssumption DEF RxAssumption, RxIndex
    <3>2. t + (Used + 1) - 1 = t + Used
      BY <2>2, <2>3, RxAssumption DEF RxAssumption, RxIndex
    <3> QED
      BY <3>1, <3>2
  <2>5. \A k \in 1 .. Used : (t + k - 1) % RxSize # h
    <3>1. SUFFICES ASSUME NEW k \in 1 .. Used
                   PROVE  (t + k - 1) % RxSize # h
      OBVIOUS
    <3>2. k \in 1 .. RxSize
      BY <2>3, RxAssumption DEF RxAssumption, RxIndex
    <3>3. Used = IF h >= t THEN h - t ELSE RxSize + h - t
      BY <2>2, DistanceIs DEF Used
    <3> QED
      BY <2>2, <2>3, <3>2, <3>3, SlotIs, RxAssumption DEF RxAssumption, RxIndex
  <2>6. \A k \in 1 .. Used : (t + k - 1) % RxSize \in RxIndex
    BY <2>2, <2>3, RxAssumption DEF RxAssumption, RxIndex
  <2>7. RxInOrder'
    <3>1. Len(stored') = Len(got') + Used'
      <4>1. Len(stored') = Len(stored) + 1
        BY <2>1, <2>2
      <4>2. Len(stored) = Len(got) + Used /\ Len(got) \in Nat
        BY <2>2 DEF FifoInv, RxInOrder
      <4> QED
        BY <2>1, <2>3, <4>1, <4>2 DEF RxIndex
    <3>2. \A k \in 1 .. Len(got') : got'[k] = stored'[k]
      BY <2>1, <2>2, <2>3 DEF RxIndex, FifoInv, RxInOrder
    <3>3. SUFFICES ASSUME NEW k \in 1 .. Used'
                   PROVE  rx_buffer'[(rx_buffer_tail' + k - 1) % RxSize]
                            = stored'[Len(got') + k]
      BY <3>1, <3>2 DEF RxInOrder
    <3>4. CASE k \in 1 .. Used
      <4>1. rx_buffer'[(t + k - 1) % RxSize] = rx_buffer[(t + k - 1) % RxSize]
        BY <2>1, <2>5, <2>6, <3>4 DEF RxTypeOK
      <4>2. stored'[Len(got) + k] = stored[Len(got) + k]
        BY <2>1, <2>2, <2>3, <3>4 DEF RxIndex, FifoInv, RxInOrder
      <4> QED
        BY <2>1, <3>4, <4>1, <4>2 DEF FifoInv, RxInOrder
    <3>5. CASE k = Used + 1
      <4>1. rx_buffer'[(t + k - 1) % RxSize] = b
        <5>1. t + k - 1 = t + Used
          BY <2>2, <2>3, <3>5 DEF RxIndex
        <5> QED
          BY <2>1, <2>2, <2>4, <5>1 DEF RxTypeOK
      <4>2. Len(got) + k = Len(stored) + 1
        BY <2>2, <2>3, <3>5 DEF RxIndex, FifoInv, RxInOrder
      <4> QED
        BY <2>1, <2>2, <4>1, <4>2
    <3> QED
      BY <2>3, <3>4, <3>5 DEF RxIndex
  <2>8. ReadInv'
    <3>1. Used > 0 => h # t
      BY <2>2, DistanceStep DEF Used
    <3>2. Used > 0 => rx_buffer'[t] = rx_buffer[t]
      BY <2>1, <2>2, <3>1 DEF RxTypeOK
    <3>3. Receiving
      BY DEF RxCompleteIrq, RxIrqPending, FifoInv, ReadInv
    <3>4. sure \in RxIndex
      BY DEF RxTypeOK
    <3> QED
      BY <2>1, <2>3, <3>2, <3>3, <3>4
      DEF FifoInv, ReadInv, rxLocals, Receiving, RxIndex
  <2> QED
    BY <2>7, <2>8 DEF FifoInv
<1> QED
  BY <1>1, <1>2

(* The byte that read() has loaded is the oldest one not returned yet.     *)
LEMMA LoadedIsOldest ==
    ASSUME RxTypeOK, FifoInv, rpc = "r_tail"
    PROVE  c = stored[Len(got) + 1] /\ Len(got) < Len(stored)
<1>1. rx_buffer_tail \in RxIndex /\ Used \in RxIndex /\ Used > 0
  BY DistanceIs DEF RxTypeOK, FifoInv, ReadInv, Used
<1>2. 1 \in 1 .. Used
  BY <1>1, RxAssumption DEF RxAssumption, RxIndex
<1>3. rx_buffer[(rx_buffer_tail + 1 - 1) % RxSize] = stored[Len(got) + 1]
  BY <1>2 DEF FifoInv, RxInOrder
<1>4. (rx_buffer_tail + 1 - 1) % RxSize = rx_buffer_tail
  BY <1>1, RxAssumption DEF RxAssumption, RxIndex
<1>5. Len(got) < Len(stored)
  BY <1>1 DEF RxTypeOK, FifoInv, RxInOrder, RxIndex
<1> QED
  BY <1>3, <1>4, <1>5 DEF FifoInv, ReadInv

(* read() returns, and the order is kept.                                  *)
LEMMA ReadKeepsOrder ==
    ASSUME RxTypeOK, FifoInv, ReadAdvanceTail
    PROVE  FifoInv'
<1> DEFINE h == rx_buffer_head
           t == rx_buffer_tail
<1>1. /\ rpc = "r_tail" /\ rpc' = "idle"
      /\ rx_buffer_tail' = RxInc(t)
      /\ got' = Append(got, c)
      /\ sure' = (IF sure > 0 THEN sure - 1 ELSE 0)
      /\ peeked' = NoData
      /\ UNCHANGED <<rx_buffer, rx_buffer_head, fifo, stored>>
  BY DEF ReadAdvanceTail, RStep
<1>2. h \in RxIndex /\ t \in RxIndex /\ got \in Seq(RxBytes) /\ stored \in Seq(RxBytes)
  BY DEF RxTypeOK
<1>3. Used \in RxIndex /\ Used > 0 /\ Used' = Used - 1
  <2>1. Used > 0
    BY <1>1 DEF FifoInv, ReadInv
  <2>2. h # t
    BY <1>2, <2>1, DistanceStep DEF Used
  <2> QED
    BY <1>1, <1>2, <2>1, <2>2, DistanceIs, DistanceStep DEF Used
<1>4. /\ Len(got) \in Nat
      /\ Len(got') = Len(got) + 1
      /\ Len(stored) = Len(got) + Used
      /\ \A k \in 1 .. Len(got) : got'[k] = got[k]
      /\ got'[Len(got) + 1] = c
  BY <1>1, <1>2 DEF FifoInv, RxInOrder
<1>5. c = stored[Len(got) + 1]
  BY <1>1, LoadedIsOldest
<1>6. \A k \in 1 .. Used - 1 : (RxInc(t) + k - 1) % RxSize = (t + (k + 1) - 1) % RxSize
  <2>1. SUFFICES ASSUME NEW k \in 1 .. Used - 1
                 PROVE  (RxInc(t) + k - 1) % RxSize = (t + (k + 1) - 1) % RxSize
    OBVIOUS
  <2>2. RxInc(t) = (IF t = RxSize - 1 THEN 0 ELSE t + 1) /\ RxInc(t) \in RxIndex
    BY <1>2, RxIncIs, RxIncIndex
  <2>3. k \in 1 .. RxSize /\ k + 1 \in 1 .. RxSize
    BY <1>3, <2>1, RxAssumption DEF RxAssumption, RxIndex
  <2>4. /\ (RxInc(t) + k - 1) % RxSize
             = IF RxInc(t) + k - 1 < RxSize THEN RxInc(t) + k - 1
               ELSE RxInc(t) + k - 1 - RxSize
        /\ (t + (k + 1) - 1) % RxSize
             = IF t + (k + 1) - 1 < RxSize THEN t + (k + 1) - 1
               ELSE t + (k + 1) - 1 - RxSize
    BY <1>2, <2>2, <2>3, SlotIs
  <2> QED
    BY <1>2, <2>2, <2>3, <2>4, RxAssumption DEF RxAssumption, RxIndex
<1>7. RxInOrder'
  <2>1. Len(stored') = Len(got') + Used'
    BY <1>1, <1>3, <1>4 DEF RxIndex
  <2>2. \A k \in 1 .. Len(got') : got'[k] = stored'[k]
    <3>1. SUFFICES ASSUME NEW k \in 1 .. Len(got) + 1
                   PROVE  got'[k] = stored[k]
      BY <1>1, <1>4
    <3>2. CASE k \in 1 .. Len(got)
      BY <1>4, <3>2 DEF FifoInv, RxInOrder
    <3>3. CASE k = Len(got) + 1
      BY <1>4, <1>5, <3>3
    <3> QED
      BY <1>4, <3>1, <3>2, <3>3
  <2>3. SUFFICES ASSUME NEW k \in 1 .. Used - 1
                 PROVE  rx_buffer[(RxInc(t) + k - 1) % RxSize] = stored[Len(got) + 1 + k]
    BY <1>1, <1>3, <1>4, <2>1, <2>2 DEF RxInOrder
  <2>4. k + 1 \in 1 .. Used /\ Len(got) + 1 + k = Len(got) + (k + 1)
    BY <1>3, <1>4, <2>3 DEF RxIndex
  <2>5. rx_buffer[(t + (k + 1) - 1) % RxSize] = stored[Len(got) + (k + 1)]
    BY <2>4 DEF FifoInv, RxInOrder
  <2> QED
    BY <1>6, <2>3, <2>4, <2>5
<1>8. ReadInv'
  <2>1. sure' <= Used'
    BY <1>1, <1>3, RxAssumption DEF RxAssumption, RxTypeOK, RxIndex, FifoInv, ReadInv
  <2> QED
    BY <1>1, <2>1 DEF ReadInv, FifoInv, Receiving
<1> QED
  BY <1>7, <1>8 DEF FifoInv

LEMMA FifoStep == RxTypeOK /\ FifoInv /\ [RxNext]_rxVars => FifoInv'
<1> SUFFICES ASSUME RxTypeOK, FifoInv, [RxNext]_rxVars
             PROVE  FifoInv'
  OBVIOUS
<1>0. /\ rx_buffer_head \in RxIndex /\ rx_buffer_tail \in RxIndex
      /\ Used \in RxIndex /\ (Used = 0 <=> rx_buffer_head = rx_buffer_tail)
      /\ sure \in RxIndex
  BY DistanceIs, DistanceStep DEF RxTypeOK, Used
<1>1. ASSUME UNCHANGED <<rxRing, stored, got>>, ReadInv'
      PROVE  FifoInv'
  BY <1>1 DEF FifoInv, RxInOrder, Used, rxRing
<1> USE DEF FifoInv, ReadInv, RStep, rxRing, rxLocals, Used, Receiving
<1>2. CASE RxBegin \/ RxSetInterrupts
  BY <1>1, <1>2 DEF RxBegin, RxSetInterrupts
<1>3. CASE RxEndDisable \/ RxEndIrqOff
  BY <1>1, <1>3 DEF RxEndDisable, RxEndIrqOff
<1>4. CASE RxEndClear
  <2>1. Used' = 0
    BY <1>0, <1>4, DistanceStep DEF RxEndClear
  <2>2. RxInOrder'
    BY <1>4, <2>1 DEF RxEndClear, RxInOrder, RxTypeOK
  <2> QED
    BY <1>4, <2>1, <2>2 DEF RxEndClear
<1>5. CASE Available
  BY <1>0, <1>1, <1>5 DEF Available, RxIndex
<1>6. CASE Peek
  BY <1>0, <1>1, <1>6 DEF Peek, RxIndex
<1>7. CASE ReadLoad
  BY <1>0, <1>1, <1>7 DEF ReadLoad, RxIndex
<1>8. CASE ReadAdvanceTail
  BY <1>8, ReadKeepsOrder
<1>9. CASE UsartFrame
  BY <1>1, <1>9 DEF UsartFrame
<1>10. CASE RxCompleteIrq
  BY <1>10, StoreKeepsOrder
<1>11. CASE UNCHANGED rxVars
  BY <1>1, <1>11 DEF rxVars
<1> QED
  BY <1>2, <1>3, <1>4, <1>5, <1>6, <1>7, <1>8, <1>9, <1>10, <1>11
  DEF RxNext, RxMain, RxHardware, RxEnd, Read

THEOREM FifoHolds == RxSpec => []FifoInv
<1>1. RxInit => FifoInv
  <2> SUFFICES ASSUME RxInit PROVE FifoInv
    OBVIOUS
  <2>1. Used = 0
    BY RxAssumption DEF RxAssumption, RxInit, Used, Distance
  <2> QED
    BY <2>1 DEF RxInit, FifoInv, RxInOrder, ReadInv, Receiving
<1> QED
  BY <1>1, FifoStep, RxTypeCorrect, PTL DEF RxSpec

(* Whatever the interleaving of read() and the handler, and for every ring *)
(* size, read() returns the bytes the handler stored, in order and once.   *)
THEOREM ReadIsFifo == RxSpec => []RxInOrder
BY FifoHolds, PTL DEF FifoInv

(* What available() and peek() told the sketch is still true when it acts  *)
(* on it, and a reopened port is empty.                                    *)
THEOREM PromisesKept == RxSpec => []PromisesHold
<1>1. FifoInv => PromisesHold
  BY DEF FifoInv, ReadInv, PromisesHold, AvailableIsSure, PeekIsNext, ReopenIsEmpty, Receiving
<1> QED
  BY <1>1, FifoHolds, PTL

------------------------------------------------------------------------------
(***************************************************************************)
(* The receive half is a ByteChannel: what it holds is the part of stored  *)
(* that read() has not returned.                                           *)
(***************************************************************************)

\* A sequence without its first n elements.
Rest(s, n) == SubSeq(s, n + 1, Len(s))

(* What is appended to the whole is appended to the rest.                  *)
LEMMA RestAppend ==
    ASSUME NEW s \in Seq(RxBytes), NEW b \in RxBytes, NEW n \in 0 .. Len(s)
    PROVE  /\ Len(Rest(s, n)) = Len(s) - n
           /\ Rest(Append(s, b), n) = Append(Rest(s, n), b)
<1> DEFINE m == Len(s) - n
           r == Rest(s, n)
           u == Rest(Append(s, b), n)
<1>1. Len(s) \in Nat /\ m \in Nat /\ n \in Nat
  BY LenProperties
<1>2. r \in Seq(RxBytes) /\ Len(r) = m /\ \A i \in 1 .. m : r[i] = s[n + i]
  <2>1. \A i \in n + 1 .. Len(s) : s[i] \in RxBytes
    BY <1>1, ElementOfSeq
  <2> QED
    BY <1>1, <2>1, SubSeqProperties DEF Rest
<1>3. /\ Append(s, b) \in Seq(RxBytes) /\ Len(Append(s, b)) = Len(s) + 1
      /\ \A i \in 1 .. Len(s) : Append(s, b)[i] = s[i]
      /\ Append(s, b)[Len(s) + 1] = b
  BY AppendProperties
<1>4. u \in Seq(RxBytes) /\ Len(u) = m + 1 /\ \A i \in 1 .. m + 1 : u[i] = Append(s, b)[n + i]
  <2>1. \A i \in n + 1 .. Len(s) + 1 : Append(s, b)[i] \in RxBytes
    BY <1>1, <1>3, ElementOfSeq
  <2> QED
    BY <1>1, <1>3, <2>1, SubSeqProperties DEF Rest
<1>5. \A i \in 1 .. m : n + i \in 1 .. Len(s)
  BY <1>1
<1>6. n + (m + 1) = Len(s) + 1 /\ m + 1 \in 1 .. m + 1
  BY <1>1
<1> HIDE DEF m, r, u
<1>7. /\ Append(r, b) \in Seq(RxBytes) /\ Len(Append(r, b)) = m + 1
      /\ \A i \in 1 .. m : Append(r, b)[i] = r[i]
      /\ Append(r, b)[m + 1] = b
  BY <1>2, AppendProperties
<1>8. ASSUME NEW i \in 1 .. m + 1
      PROVE  u[i] = Append(r, b)[i]
  <2>1. CASE i \in 1 .. m
    <3>1. u[i] = Append(s, b)[n + i]
      BY <1>4, Zenon
    <3>2. Append(s, b)[n + i] = s[n + i]
      BY <1>3, <1>5, <2>1, Zenon
    <3> QED
      BY <1>2, <1>7, <2>1, <3>1, <3>2, Zenon
  <2>2. CASE i = m + 1
    BY <1>3, <1>4, <1>6, <1>7, <2>2, Zenon
  <2>3. i \in 1 .. m \/ i = m + 1
    BY <1>1
  <2> QED
    BY <2>1, <2>2, <2>3
<1>9. u = Append(r, b)
  BY <1>4, <1>7, <1>8, SeqEqual
<1> QED
  BY <1>2, <1>9 DEF m, r, u

(* The handler stores a byte if it has a slot for it.                      *)
LEMMA StoreAccepts ==
    ASSUME RxTypeOK, FifoInv, RxCompleteIrq
    PROVE  \/ UNCHANGED <<stored, got>>
           \/ \E b \in RxBytes : RxChannel!Accept(b)
<1> DEFINE b == Head(fifo).b
<1>1. CASE Head(fifo).UPE \/ RxInc(rx_buffer_head) = rx_buffer_tail
  BY <1>1 DEF RxCompleteIrq, StoreByte
<1>2. CASE ~Head(fifo).UPE /\ RxInc(rx_buffer_head) # rx_buffer_tail
  <2>1. stored' = Append(stored, b) /\ got' = got
    BY <1>2 DEF RxCompleteIrq, StoreByte
  <2>2. b \in RxBytes
    <3>1. Head(fifo) \in Frame
      BY DEF RxCompleteIrq, RxIrqPending, RxTypeOK
    <3> QED
      BY <3>1, RxAssumption DEF RxAssumption, Frame, RxBytes
  <2>3. Used \in Nat /\ Used < RxSize - 1
    <3>1. /\ rx_buffer_head \in RxIndex /\ rx_buffer_tail \in RxIndex
          /\ RxInc(rx_buffer_head) \in RxIndex
      BY RxIncIndex DEF RxTypeOK
    <3>2. /\ Distance(RxInc(rx_buffer_head), rx_buffer_tail) \in RxIndex
          /\ Distance(RxInc(rx_buffer_head), rx_buffer_tail) = Used + 1
          /\ Used \in RxIndex
      BY <1>2, <3>1, DistanceIs, DistanceStep DEF Used
    <3> QED
      BY <3>2, RxAssumption DEF RxAssumption, RxIndex
  <2>4. /\ stored \in Seq(RxBytes) /\ Len(got) \in 0 .. Len(stored)
        /\ Len(stored) - Len(got) = Used
    BY <2>3 DEF RxTypeOK, FifoInv, RxInOrder
  <2> HIDE DEF b
  <2>5. /\ Len(Rest(stored, Len(got))) = Used
        /\ Rest(Append(stored, b), Len(got)) = Append(Rest(stored, Len(got)), b)
    BY <2>2, <2>4, RestAppend
  <2>6. Rest(stored', Len(got')) = Append(Rest(stored, Len(got)), b)
    BY <2>1, <2>5
  <2>7. RxChannel!Accept(b)
    BY <2>1, <2>3, <2>5, <2>6 DEF RxChannel!Accept, Rest
  <2> QED
    BY <2>2, <2>7
<1> QED
  BY <1>1, <1>2

(* read() returns the oldest byte that is held.                            *)
LEMMA ReadDelivers ==
    ASSUME RxTypeOK, FifoInv, ReadAdvanceTail
    PROVE  RxChannel!Deliver
<1>1. stored' = stored /\ got' = Append(got, c) /\ rpc = "r_tail"
  BY DEF ReadAdvanceTail, RStep
<1>2. /\ stored \in Seq(RxBytes) /\ got \in Seq(RxBytes) /\ c \in RxBytes
      /\ Len(got) \in Nat /\ Len(stored) \in Nat /\ Len(got') = Len(got) + 1
      /\ c = stored[Len(got) + 1] /\ Len(got) < Len(stored)
  BY <1>1, LoadedIsOldest DEF RxTypeOK
<1> DEFINE m == Len(got) + 1
           r == SubSeq(stored, m, Len(stored))
<1>3. m \in 1 .. Len(stored) /\ Len(stored) \in m .. Len(stored)
  BY <1>2
<1>4. Head(r) = stored[m] /\ Tail(r) = SubSeq(stored, m + 1, Len(stored))
  BY <1>2, <1>3, HeadTailOfSubSeq
<1>5. r # <<>>
  <2>1. \A i \in m .. Len(stored) : stored[i] \in RxBytes
    BY <1>2, <1>3, ElementOfSeq
  <2>2. Len(r) = Len(stored) - m + 1
    BY <1>2, <1>3, <2>1, SubSeqProperties
  <2>3. Len(r) # 0
    BY <1>2, <2>2
  <2> QED
    BY <2>3, EmptySeq
<1>6. SubSeq(stored', Len(got') + 1, Len(stored')) = SubSeq(stored, m + 1, Len(stored))
  BY <1>1, <1>2
<1> QED
  BY <1>1, <1>2, <1>4, <1>5, <1>6 DEF RxChannel!Deliver

LEMMA RxChannelStep ==
    ASSUME RxTypeOK, FifoInv, [RxNext]_rxVars
    PROVE  [RxChannel!Next]_(RxChannel!channelVars)
<1>1. ASSUME UNCHANGED <<stored, got>>
      PROVE  UNCHANGED RxChannel!channelVars
  BY <1>1 DEF RxChannel!channelVars
<1>2. CASE RxBegin \/ RxSetInterrupts \/ RxEndDisable \/ RxEndIrqOff \/ Available \/ Peek \/ ReadLoad
  BY <1>1, <1>2 DEF RxBegin, RxSetInterrupts, RxEndDisable, RxEndIrqOff, Available, Peek, ReadLoad
<1>3. CASE RxEndClear
  <2>1. stored' = got /\ got' = got /\ Len(got) \in Nat
    BY <1>3 DEF RxEndClear, RxTypeOK
  <2>2. SubSeq(got, Len(got) + 1, Len(got)) = <<>>
    BY <2>1, SubSeqEmpty
  <2>3. RxChannel!Discard
    BY <2>1, <2>2 DEF RxChannel!Discard
  <2> QED
    BY <2>3 DEF RxChannel!Next
<1>4. CASE ReadAdvanceTail
  BY <1>4, ReadDelivers DEF RxChannel!Next
<1>5. CASE UsartFrame
  BY <1>1, <1>5 DEF UsartFrame
<1>6. CASE RxCompleteIrq
  BY <1>1, <1>6, StoreAccepts DEF RxChannel!Next
<1>7. CASE UNCHANGED rxVars
  BY <1>1, <1>7 DEF rxVars
<1> QED
  BY <1>2, <1>3, <1>4, <1>5, <1>6, <1>7 DEF RxNext, RxMain, RxHardware, RxEnd, Read

(* The receive half implements the channel, for every ring size: bytes     *)
(* leave in the order they were stored, once each, never more than         *)
(* RxSize - 1 wait, and only end() throws any away.                        *)
THEOREM ReceivedInOrder == RxSpec => RxIsAChannel
<1>1. RxInit => RxChannel!Init
  BY SubSeqEmpty DEF RxInit, RxChannel!Init
<1>2. RxTypeOK /\ FifoInv /\ [RxNext]_rxVars => [RxChannel!Next]_(RxChannel!channelVars)
  BY RxChannelStep
<1> QED
  BY <1>1, <1>2, RxTypeCorrect, FifoHolds, PTL DEF RxSpec, RxIsAChannel, RxChannel!Spec

(* The handler drops a byte without a parity error only if the ring is     *)
(* full, for every ring size.                                              *)
THEOREM DropsAreForced == RxSpec => DropsOnlyWhenFull
<1> DEFINE Drop == rpc' = rpc /\ Len(fifo') < Len(fifo) /\ ~Head(fifo).UPE /\ stored' = stored
                     => Used = RxSize - 1
<1>1. RxTypeOK /\ [RxNext]_rxVars => [Drop]_rxVars
  <2> SUFFICES ASSUME RxTypeOK, [RxNext]_rxVars, rpc' = rpc, Len(fifo') < Len(fifo),
                      ~Head(fifo).UPE, stored' = stored
               PROVE  Used = RxSize - 1
    OBVIOUS
  <2>1. fifo \in Seq(Frame) /\ Len(fifo) \in Nat
    BY DEF RxTypeOK
  <2>2. fifo' # fifo
    BY <2>1
  <2>3. ~UsartFrame
    <3> SUFFICES ASSUME UsartFrame PROVE FALSE
      OBVIOUS
    <3>1. PICK f : fifo' = fifo \/ fifo' = Append(fifo, f)
      BY DEF UsartFrame
    <3>2. fifo' = Append(fifo, f)
      BY <2>2, <3>1
    <3>3. Len(fifo') = Len(fifo) + 1
      BY <2>1, <3>2
    <3> QED
      BY <2>1, <3>3
  <2>4. RxCompleteIrq
    BY <2>2, <2>3 DEF rxVars, RxNext, RxMain, RxHardware, RStep, RxBegin, RxSetInterrupts, RxEnd,
       RxEndDisable, RxEndIrqOff, RxEndClear, Available, Peek, Read, ReadLoad, ReadAdvanceTail
  <2>5. RxInc(rx_buffer_head) = rx_buffer_tail
    <3> SUFFICES ASSUME RxInc(rx_buffer_head) # rx_buffer_tail PROVE FALSE
      OBVIOUS
    <3>1. stored' = Append(stored, Head(fifo).b) /\ stored \in Seq(RxBytes)
      BY <2>4 DEF RxCompleteIrq, StoreByte, RxTypeOK
    <3>2. Head(fifo).b \in RxBytes
      <4>1. Head(fifo) \in Frame
        BY <2>1, <2>4 DEF RxCompleteIrq, RxIrqPending
      <4> QED
        BY <4>1, RxAssumption DEF RxAssumption, Frame, RxBytes
    <3>3. Len(stored') = Len(stored) + 1 /\ Len(stored) \in Nat
      BY <3>1, <3>2, AppendProperties, LenProperties
    <3> QED
      BY <3>3
  <2> QED
    BY <2>5, DistanceStep DEF RxTypeOK, Used
<1> QED
  BY <1>1, RxTypeCorrect, PTL DEF RxSpec, DropsOnlyWhenFull

------------------------------------------------------------------------------
(* The whole object.                                                       *)

(* A step of the object is a step of the transmit half, or leaves it alone. *)
LEMMA TxSimulated == [Next]_vars => [TxNext]_txVars
<1> SUFFICES ASSUME [Next]_vars
             PROVE  [TxNext]_txVars
  OBVIOUS
<1> USE DEF txVars, callVars, txOnly
<1>1. CASE Begin
  BY <1>1 DEF Begin, TxNext, TxMain
<1>2. CASE EndFlushed
  BY <1>2 DEF EndFlushed, TxNext, TxMain
<1>3. CASE EndReceive
  BY <1>3 DEF EndReceive, RxEndIrqOff, RxEndClear
<1>4. CASE TxCall
  BY <1>4 DEF TxCall, TxNext, TxMain
<1>5. CASE RxCall
  BY <1>5 DEF RxCall, Available, Peek, Read, ReadLoad, ReadAdvanceTail
<1>6. CASE SwitchInterrupts
  BY <1>6 DEF SwitchInterrupts, TxNext, TxMain
<1>7. CASE Interrupts
  BY <1>7 DEF Interrupts, TxNext, RxHardware, UsartFrame, RxCompleteIrq
<1>8. CASE UNCHANGED vars
  BY <1>8 DEF vars, rxVars
<1> QED
  BY <1>1, <1>2, <1>3, <1>4, <1>5, <1>6, <1>7, <1>8 DEF Next

(* The handler of the transmitter and its calls leave the I flag alone.    *)
LEMMA TxKeepsI ==
    Write \/ Flush \/ AvailableForWrite \/ TxHardware => UNCHANGED I
<1> USE DEF callVars
<1>1. TxUdrEmptyIrqBody => UNCHANGED I
  BY DEF TxUdrEmptyIrqBody
<1>2. Write => UNCHANGED I
  BY <1>1 DEF Write, WriteCall, WriteShortcut, WriteClearTxc, WriteQueue, WriteStore, WritePoll,
              WriteAdvanceHead, WriteEnableIrq
<1>3. Flush => UNCHANGED I
  BY <1>1 DEF Flush, FlushCall, FlushPoll, FlushDone, FlushReturn
<1>4. AvailableForWrite => UNCHANGED I
  BY DEF AvailableForWrite
<1>5. TxHardware => UNCHANGED I
  BY <1>1 DEF TxHardware, UsartLoad, UsartFrameEnd, TxUdrEmptyIrq
<1> QED
  BY <1>2, <1>3, <1>4, <1>5

(* A step of the object is a step of the receive half, or leaves it alone.  *)
LEMMA RxSimulated == [Next]_vars => [RxNext]_rxVars
<1> SUFFICES ASSUME [Next]_vars
             PROVE  [RxNext]_rxVars
  OBVIOUS
<1>1. CASE Begin
  BY <1>1 DEF Begin, RxNext, RxMain
<1>2. CASE EndFlushed
  BY <1>2 DEF EndFlushed, RxNext, RxMain, RxEnd
<1>3. CASE EndReceive
  BY <1>3 DEF EndReceive, RxNext, RxMain, RxEnd
<1>4. CASE TxCall
  BY <1>4, TxKeepsI DEF TxCall, rxOnly, rxVars
<1>5. CASE RxCall
  BY <1>5 DEF RxCall, RxNext, RxMain
<1>6. CASE SwitchInterrupts
  BY <1>6 DEF SwitchInterrupts, RxNext, RxMain
<1>7. CASE Interrupts
  BY <1>7, TxKeepsI DEF Interrupts, RxNext, rxOnly, rxVars
<1>8. CASE UNCHANGED vars
  BY <1>8 DEF vars, rxVars
<1> QED
  BY <1>1, <1>2, <1>3, <1>4, <1>5, <1>6, <1>7, <1>8 DEF Next

(* Each half of the object takes only the steps that it takes alone.       *)
THEOREM HalvesKept == Spec => TxSpec /\ RxSpec
<1>1. Init => TxInit /\ RxInit
  BY DEF Init
<1> QED
  BY <1>1, TxSimulated, RxSimulated, PTL DEF Spec, TxSpec, RxSpec

------------------------------------------------------------------------------
(* The receive interrupt is off when end() has returned.                   *)
LEMMA ClosedIsDeaf == RxSpec => [](rpc \in {"closed", "e_clear"} => ~RXCIE)
<1> DEFINE Deaf == rpc \in {"closed", "e_clear"} => ~RXCIE
<1>1. RxInit => Deaf
  BY DEF RxInit
<1>2. Deaf /\ [RxNext]_rxVars => Deaf'
  BY DEF rxVars, RxNext, RxMain, RxHardware, RStep, RxBegin, RxSetInterrupts, RxEnd, RxEndDisable,
         RxEndIrqOff, RxEndClear, Available, Peek, Read, ReadLoad, ReadAdvanceTail, UsartFrame,
         RxCompleteIrq
<1> QED
  BY <1>1, <1>2, PTL DEF RxSpec

(* end() leaves nothing to send, nothing to read and both interrupts off,  *)
(* for every size of both buffers and however long handlers hold it up.    *)
THEOREM EndedIsQuiet == Spec => []EndIsQuiet
<1>1. NothingCut /\ PromisesHold /\ (rpc \in {"closed", "e_clear"} => ~RXCIE) => EndIsQuiet
  BY DEF NothingCut, EndCutsNothing, PromisesHold, ReopenIsEmpty, EndIsQuiet
<1> QED
  BY <1>1, HalvesKept, FlushWaits, PromisesKept, ClosedIsDeaf, PTL

(* The whole object implements both channels, and availableForWrite() and  *)
(* the receive handler keep their word, for every size of both buffers,    *)
(* as long as no other handler holds the object up for a frame.            *)
THEOREM ObjectImplements ==
    ASSUME ~HeldUp
    PROVE  Spec => ImplementsHalves /\ TxIsAChannel
<1>1. TxSpec => []PromiseKept /\ TxIsAChannel
  BY RoomIsThere, NothingLost
<1> QED
  BY <1>1, HalvesKept, ReceivedInOrder, DropsAreForced, PTL DEF ImplementsHalves
==============================================================================
