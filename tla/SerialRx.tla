------------------------------- MODULE SerialRx -------------------------------
(***************************************************************************)
(* The receive half of HardwareSerial: available(), peek(), read() and     *)
(* end() on the main line, the receive complete interrupt                  *)
(* _rx_complete_irq() that fills the ring buffer, and the two-deep receive *)
(* FIFO of the USART.                                                      *)
(*                                                                         *)
(* A step of the main line reaches to the next point where it matters that *)
(* the handler may run; the handler is one step because it runs with       *)
(* interrupts off.  Frames are numbered in the order they arrive.          *)
(***************************************************************************)
EXTENDS Integers, Sequences, Sreg

CONSTANTS
    RxSize,      \* SERIAL_RX_BUFFER_SIZE
    MaxFrames,   \* bound: how many frames arrive
    FifoDepth,   \* frames the USART holds before it drops one
    NoData       \* what read() and peek() return on an empty buffer (-1)

ASSUME RxAssumption ==
    /\ RxSize \in Nat \ {0, 1}
    /\ MaxFrames \in Nat
    /\ FifoDepth \in Nat \ {0}
    /\ NoData \notin Nat

VARIABLES
    rpc,             \* where the main line is; "closed": RXEN and RXCIE are clear
    RXCIE,           \* UCSRB: receive complete interrupt enable
    rx_buffer,       \* _rx_buffer
    rx_buffer_head,  \* _rx_buffer_head, advanced by the handler
    rx_buffer_tail,  \* _rx_buffer_tail, advanced by read()
    fifo,            \* UDR: frames received and not read, with their parity error
    c,               \* the local c of read()
    sure,            \* reads that available() has promised to succeed
    peeked,          \* what the last peek() returned, until the next read()
    heard,           \* history: frames that arrived
    stored,          \* history: bytes put into the ring and not thrown away by end()
    got              \* history: bytes read() returned

rxRing == <<rx_buffer, rx_buffer_head, rx_buffer_tail>>
rxLocals == <<c, sure, peeked>>
rxVars == <<rpc, I, RXCIE, rxRing, fifo, rxLocals, heard, stored, got>>

RxBytes == 0 .. MaxFrames
Frame == [b : 1 .. MaxFrames, UPE : BOOLEAN]
RxIndex == 0 .. RxSize - 1
RxInc(i) == (i + 1) % RxSize

\* available(), computed from the indices it has read.
Distance(head, tail) == (RxSize + head - tail) % RxSize
Used == Distance(rx_buffer_head, rx_buffer_tail)

RxInit ==
    /\ rpc = "closed" /\ I = TRUE /\ RXCIE = FALSE
    /\ rx_buffer = [k \in RxIndex |-> 0] /\ rx_buffer_head = 0 /\ rx_buffer_tail = 0
    /\ fifo = <<>>
    /\ c = 0 /\ sure = 0 /\ peeked = NoData
    /\ heard = 0 /\ stored = <<>> /\ got = <<>>

------------------------------------------------------------------------------
(* The USART and the interrupt.                                            *)

Receiving == rpc \notin {"closed", "e_rxcie", "e_clear"}

\* A frame arrives, with or without a parity error; a full FIFO drops it.
UsartFrame ==
    /\ Receiving
    /\ heard < MaxFrames
    /\ heard' = heard + 1
    /\ \E upe \in BOOLEAN :
          fifo' = IF Len(fifo) < FifoDepth
                  THEN Append(fifo, [b |-> heard + 1, UPE |-> upe])
                  ELSE fifo
    /\ UNCHANGED <<rpc, I, RXCIE, rxRing, rxLocals, stored, got>>

RxIrqPending == I /\ RXCIE /\ fifo # <<>>

StoreOverFull(b) ==
    /\ rx_buffer' = [rx_buffer EXCEPT ![rx_buffer_head] = b]
    /\ rx_buffer_head' = RxInc(rx_buffer_head)
    /\ stored' = Append(stored, b)

StoreLeavesTwoFree(b) ==
    LET i == RxInc(rx_buffer_head)
    IN  IF i # rx_buffer_tail /\ RxInc(i) # rx_buffer_tail
        THEN /\ rx_buffer' = [rx_buffer EXCEPT ![rx_buffer_head] = b]
             /\ rx_buffer_head' = i
             /\ stored' = Append(stored, b)
        ELSE UNCHANGED <<rx_buffer, rx_buffer_head, stored>>

\* The byte goes into the ring unless the head would run into the tail.
StoreByte(b) ==
    LET i == RxInc(rx_buffer_head)
    IN  IF i # rx_buffer_tail
        THEN /\ rx_buffer' = [rx_buffer EXCEPT ![rx_buffer_head] = b]
             /\ rx_buffer_head' = i
             /\ stored' = Append(stored, b)
        ELSE UNCHANGED <<rx_buffer, rx_buffer_head, stored>>

\* ISR(USART_RX_vect): a byte with a parity error is read and thrown away.
RxCompleteIrq ==
    /\ RxIrqPending
    /\ fifo' = Tail(fifo)
    /\ IF Head(fifo).UPE
       THEN UNCHANGED <<rx_buffer, rx_buffer_head, stored>>
       ELSE StoreByte(Head(fifo).b)
    /\ UNCHANGED <<rpc, I, RXCIE, rx_buffer_tail, rxLocals, heard, got>>

------------------------------------------------------------------------------
(* The main line.                                                          *)

RStep(from, to) == rpc = from /\ rpc' = to

\* cli() and sei() of the sketch, between two calls.
RxSetInterrupts ==
    /\ RStep("idle", "idle")
    /\ I' = ~I
    /\ UNCHANGED <<RXCIE, rxRing, fifo, rxLocals, heard, stored, got>>

\* begin(), on a closed port.
RxBegin ==
    /\ RStep("closed", "idle")
    /\ RXCIE' = TRUE
    /\ UNCHANGED <<I, rxRing, fifo, rxLocals, heard, stored, got>>

\* end(): cbi(*_ucsrb, RXEN0) also empties the FIFO of the USART ...
RxEndDisable ==
    /\ RStep("idle", "e_rxcie")
    /\ fifo' = <<>>
    /\ UNCHANGED <<I, RXCIE, rxRing, rxLocals, heard, stored, got>>

\* ... cbi(*_ucsrb, RXCIE0) ...
RxEndIrqOff ==
    /\ RStep("e_rxcie", "e_clear")
    /\ RXCIE' = FALSE
    /\ UNCHANGED <<I, rxRing, fifo, rxLocals, heard, stored, got>>

EndForgetsRing ==
    /\ RStep("e_clear", "closed")
    /\ sure' = 0
    /\ peeked' = NoData
    /\ UNCHANGED <<I, RXCIE, rxRing, fifo, c, heard, stored, got>>

\* ... and "clear any received data": _rx_buffer_head = _rx_buffer_tail.
RxEndClear ==
    /\ RStep("e_clear", "closed")
    /\ rx_buffer_head' = rx_buffer_tail
    /\ stored' = got
    /\ sure' = 0
    /\ peeked' = NoData
    /\ UNCHANGED <<I, RXCIE, rx_buffer, rx_buffer_tail, fifo, c, heard, got>>

\* Only the head can move while available() runs, so it is one step.
Available ==
    /\ RStep("idle", "idle")
    /\ sure' = Used
    /\ UNCHANGED <<I, RXCIE, rxRing, fifo, c, peeked, heard, stored, got>>

\* peek() shows the byte at the tail, which stays there; -1 changes nothing.
Peek ==
    /\ RStep("idle", "idle")
    /\ rx_buffer_head # rx_buffer_tail
    /\ peeked' = rx_buffer[rx_buffer_tail]
    /\ UNCHANGED <<I, RXCIE, rxRing, fifo, c, sure, heard, stored, got>>

\* read() takes the byte at the tail; -1, on an empty ring, changes nothing.
ReadLoad ==
    /\ RStep("idle", "r_tail")
    /\ rx_buffer_head # rx_buffer_tail
    /\ c' = rx_buffer[rx_buffer_tail]
    /\ UNCHANGED <<I, RXCIE, rxRing, fifo, sure, peeked, heard, stored, got>>

ReadKeepsByte ==
    /\ RStep("r_tail", "idle")
    /\ got' = Append(got, c)
    /\ sure' = IF sure > 0 THEN sure - 1 ELSE 0
    /\ peeked' = NoData
    /\ UNCHANGED <<I, RXCIE, rxRing, fifo, c, heard, stored>>

\* The tail moves on and gives the slot back to the handler; return c;
ReadAdvanceTail ==
    /\ RStep("r_tail", "idle")
    /\ rx_buffer_tail' = RxInc(rx_buffer_tail)
    /\ got' = Append(got, c)
    /\ sure' = IF sure > 0 THEN sure - 1 ELSE 0
    /\ peeked' = NoData
    /\ UNCHANGED <<I, RXCIE, rx_buffer, rx_buffer_head, fifo, c, heard, stored>>

------------------------------------------------------------------------------
RxEnd == RxEndDisable \/ RxEndIrqOff \/ RxEndClear
Read == ReadLoad \/ ReadAdvanceTail

RxMain == RxBegin \/ RxEnd \/ Available \/ Peek \/ Read \/ RxSetInterrupts

RxHardware == UsartFrame \/ RxCompleteIrq

RxNext == RxMain \/ RxHardware

RxSpec == RxInit /\ [][RxNext]_rxVars

\* Steps inside a call and a pending interrupt are taken; the line and the sketch
\* owe nothing.
RxFairSpec ==
    /\ RxSpec
    /\ WF_rxVars(rpc \notin {"closed", "idle"} /\ RxMain)
    /\ WF_rxVars(RxCompleteIrq)

------------------------------------------------------------------------------
(* Properties.                                                             *)

RxPc == {"closed", "idle", "r_tail", "e_rxcie", "e_clear"}

\* Every index stays inside its ring, and the ring holds bytes only.
RxTypeOK ==
    /\ rpc \in RxPc
    /\ I \in BOOLEAN /\ RXCIE \in BOOLEAN
    /\ rx_buffer \in [RxIndex -> RxBytes]
    /\ rx_buffer_head \in RxIndex /\ rx_buffer_tail \in RxIndex
    /\ fifo \in Seq(Frame)
    /\ c \in RxBytes
    /\ sure \in RxIndex
    /\ peeked \in RxBytes \cup {NoData}
    /\ heard \in RxBytes
    /\ stored \in Seq(RxBytes) /\ got \in Seq(RxBytes)

\* read() returns the bytes the handler stored, all of them, once each and in
\* order, whatever the handler does between its three steps: what was read and
\* what the ring holds from tail to head is exactly what was stored.
RxInOrder ==
    /\ Len(stored) = Len(got) + Used
    /\ \A k \in 1 .. Len(got) : got[k] = stored[k]
    /\ \A k \in 1 .. Used :
          rx_buffer[(rx_buffer_tail + k - 1) % RxSize] = stored[Len(got) + k]

\* After available() returned n, the next n calls of read() find a byte, also in the
\* middle of a read() that has not moved the tail yet.
AvailableIsSure == sure <= Used

\* read() returns the byte that peek() showed.
PeekIsNext == rpc = "r_tail" /\ peeked # NoData => c = peeked

\* A port that end() closed and begin() opens again starts with an empty ring,
\* although bytes arrived until RXEN was cleared.
ReopenIsEmpty == rpc = "closed" => Used = 0 /\ fifo = <<>>

\* What available(), peek() and end() told the sketch is still true when it acts on it.
PromisesHold == AvailableIsSure /\ PeekIsNext /\ ReopenIsEmpty

\* The handler drops a good byte only if RxSize - 1 bytes wait to be read.
DropsOnlyWhenFull ==
    [][rpc' = rpc /\ Len(fifo') < Len(fifo) /\ ~Head(fifo).UPE /\ stored' = stored
         => Used = RxSize - 1]_rxVars

\* The receive half is a FIFO from the handler to read(), which end() empties.
RxChannel == INSTANCE ByteChannel
    WITH Byte <- RxBytes, Cap <- RxSize - 1, out <- got,
         held <- SubSeq(stored, Len(got) + 1, Len(stored))

RxIsAChannel == RxChannel!Spec
==============================================================================
