------------------------------- MODULE SerialTx -------------------------------
(***************************************************************************)
(* The transmit half of HardwareSerial: write(), flush(), end() and        *)
(* availableForWrite() on the main line, the data register empty interrupt *)
(* _tx_udr_empty_irq() that drains the ring buffer, and the USART that     *)
(* sends what it is given.                                                 *)
(*                                                                         *)
(* A step of the main line reaches to the next point where it matters what *)
(* the handler or the USART does in between; the handler is one step       *)
(* because it runs with interrupts off, in far less than the time of a     *)
(* frame.  Bytes are numbered in the order the sketch writes them, so a    *)
(* lost, repeated or reordered byte is visible on the wire.                *)
(***************************************************************************)
EXTENDS Integers, Sequences, Sreg

CONSTANTS
    TxSize,      \* SERIAL_TX_BUFFER_SIZE
    MaxBytes,    \* bound: how many bytes the sketch writes
    HeldUp,      \* TRUE if other handlers may keep the main line or the data
                 \* register empty interrupt waiting for a frame time or more
    NoByte       \* an empty register

ASSUME TxAssumption ==
    /\ TxSize \in Nat \ {0, 1}
    /\ MaxBytes \in Nat
    /\ HeldUp \in BOOLEAN
    /\ NoByte \notin Nat

VARIABLES
    pc,              \* where the main line is; "closed": TXEN is clear
    ending,          \* TRUE while flush() runs on behalf of end()
    written,         \* _written
    tx_buffer,       \* _tx_buffer
    tx_buffer_head,  \* _tx_buffer_head, advanced by write()
    tx_buffer_tail,  \* _tx_buffer_tail, advanced by the handler
    UDRIE,           \* UCSRB: data register empty interrupt enable
    TXC,             \* UCSRA: transmit complete
    UDR,             \* the transmit data register
    shift,           \* the transmit shift register
    room,            \* writes that availableForWrite() has promised not to block
    wrote,           \* history: bytes handed to write() so far
    out              \* history: the bytes that went over the wire

ringVars == <<tx_buffer, tx_buffer_head, tx_buffer_tail>>
usartVars == <<UDRIE, TXC, UDR, shift>>
callVars == <<ending, I, written, room, wrote>>
txVars == <<pc, callVars, ringVars, usartVars, out>>

TxBytes == 0 .. MaxBytes
Index == 0 .. TxSize - 1
Inc(i) == (i + 1) % TxSize

\* UDRE of UCSRA: the data register can take a byte.
UDRE == UDR = NoByte

Full == Inc(tx_buffer_head) = tx_buffer_tail
Empty == tx_buffer_head = tx_buffer_tail

\* The bytes in the ring, oldest first.
Queued ==
    LET n == (TxSize + tx_buffer_head - tx_buffer_tail) % TxSize
    IN  [k \in 1 .. n |-> tx_buffer[(tx_buffer_tail + k - 1) % TxSize]]

Held(reg) == IF reg = NoByte THEN <<>> ELSE <<reg>>

\* Every byte accepted and not yet on the wire, oldest first.
InFlight == Held(shift) \o Held(UDR) \o Queued

\* Nothing is left to send.
Drained == Empty /\ UDR = NoByte /\ shift = NoByte

TxInit ==
    /\ pc = "closed"
    /\ ending = FALSE /\ I = TRUE /\ written = FALSE
    /\ tx_buffer = [k \in Index |-> 0] /\ tx_buffer_head = 0 /\ tx_buffer_tail = 0
    /\ UDRIE = FALSE /\ TXC = FALSE /\ UDR = NoByte /\ shift = NoByte
    /\ room = 0 /\ wrote = 0 /\ out = <<>>

------------------------------------------------------------------------------
(* The USART and the interrupt.                                            *)

TxIrqPending == I /\ UDRIE /\ UDRE

(* Between these steps of write() and the next lies a handful of           *)
(* instructions: no frame ends there unless a handler runs in between.     *)
InWindow == pc \in {"w_txc", "w_udrie"}

(* A frame ends.  It may not overtake the main line inside a window, nor a *)
(* pending interrupt, unless other handlers hold these up; with interrupts *)
(* off nothing can stretch the window.                                     *)
FrameMayEnd ==
    \/ HeldUp /\ (I \/ ~InWindow)
    \/ ~InWindow /\ ~TxIrqPending

\* The byte in UDR moves to the idle shift register, and UDRE rises.
UsartLoad ==
    /\ shift = NoByte /\ ~UDRE
    /\ shift' = UDR
    /\ UDR' = NoByte
    /\ UNCHANGED <<pc, callVars, ringVars, UDRIE, TXC, out>>

\* The last bit of a frame is sent; TXC rises if no byte waits in UDR.
UsartFrameEnd ==
    /\ shift # NoByte /\ FrameMayEnd
    /\ out' = Append(out, shift)
    /\ shift' = NoByte
    /\ TXC' = (TXC \/ UDRE)
    /\ UNCHANGED <<pc, callVars, ringVars, UDRIE, UDR>>

IrqKeepsUdrie ==
    /\ UDR' = tx_buffer[tx_buffer_tail]
    /\ tx_buffer_tail' = Inc(tx_buffer_tail)
    /\ TXC' = FALSE
    /\ UNCHANGED <<callVars, tx_buffer, tx_buffer_head, UDRIE, shift, out>>

(* The body of the handler, also called by hand when interrupts are off.   *)
TxUdrEmptyIrqBody ==
    LET tail == Inc(tx_buffer_tail)
    IN  /\ UDR' = tx_buffer[tx_buffer_tail]
        /\ tx_buffer_tail' = tail
        /\ TXC' = FALSE
        /\ UDRIE' = (UDRIE /\ tx_buffer_head # tail)
        /\ UNCHANGED <<callVars, tx_buffer, tx_buffer_head, shift, out>>

\* ISR(USART_UDRE_vect).
TxUdrEmptyIrq == TxIrqPending /\ TxUdrEmptyIrqBody /\ UNCHANGED pc

------------------------------------------------------------------------------
(* The main line.                                                          *)

(* Unless other handlers interfere, a pending interrupt is served before   *)
(* the main line goes on.                                                  *)
Step(from, to) ==
    /\ pc = from /\ pc' = to
    /\ HeldUp \/ ~TxIrqPending

\* cli() and sei() of the sketch, between two calls.
SetInterrupts ==
    /\ Step("idle", "idle")
    /\ I' = ~I
    /\ UNCHANGED <<ending, written, room, wrote, ringVars, usartVars, out>>

\* begin(), on a closed port.
TxBegin ==
    /\ Step("closed", "idle")
    /\ written' = FALSE
    /\ UDRIE' = FALSE
    /\ UNCHANGED <<ending, I, room, wrote, ringVars, TXC, UDR, shift, out>>

\* write(c) is called: c is byte number wrote + 1.
WriteCall ==
    /\ Step("idle", "w_check")
    /\ wrote < MaxBytes
    /\ wrote' = wrote + 1
    /\ written' = TRUE
    /\ UNCHANGED <<ending, I, room, ringVars, usartVars, out>>

WriteOvertakes ==
    /\ Step("w_check", "w_txc")
    /\ UDRE
    /\ UDR' = wrote
    /\ UNCHANGED <<callVars, ringVars, UDRIE, TXC, shift, out>>

\* The shortcut: ring and register are empty, so the byte goes to UDR at once ...
WriteShortcut ==
    /\ Step("w_check", "w_txc")
    /\ Empty /\ UDRE
    /\ UDR' = wrote
    /\ UNCHANGED <<callVars, ringVars, UDRIE, TXC, shift, out>>

Promise == room' = IF room > 0 THEN room - 1 ELSE 0

\* ... and TXC is cleared.
WriteClearTxc ==
    /\ Step("w_txc", "idle")
    /\ TXC' = FALSE
    /\ Promise
    /\ UNCHANGED <<ending, I, written, wrote, ringVars, UDRIE, UDR, shift, out>>

\* No shortcut: the byte will go through the ring.
WriteQueue ==
    /\ Step("w_check", "w_full")
    /\ ~(Empty /\ UDRE)
    /\ UNCHANGED <<callVars, ringVars, usartVars, out>>

\* while (i == _tx_buffer_tail) ends, and the byte is stored behind the last one ...
WriteStore ==
    /\ Step("w_full", "w_head")
    /\ ~Full
    /\ tx_buffer' = [tx_buffer EXCEPT ![tx_buffer_head] = wrote]
    /\ UNCHANGED <<callVars, tx_buffer_head, tx_buffer_tail, usartVars, out>>

\* ... or goes on: with interrupts off it plays the handler when UDR is empty.
WritePoll ==
    /\ Step("w_full", "w_full")
    /\ Full /\ ~I /\ UDRE
    /\ TxUdrEmptyIrqBody

\* ... then the head advances ...
WriteAdvanceHead ==
    /\ Step("w_head", "w_udrie")
    /\ tx_buffer_head' = Inc(tx_buffer_head)
    /\ UNCHANGED <<callVars, tx_buffer, tx_buffer_tail, usartVars, out>>

\* ... and the interrupt is enabled.
WriteEnableIrq ==
    /\ Step("w_udrie", "idle")
    /\ UDRIE' = TRUE
    /\ Promise
    /\ UNCHANGED <<ending, I, written, wrote, ringVars, TXC, UDR, shift, out>>

\* flush() is called, by the sketch or by end().
FlushCall ==
    /\ Step("idle", "flush")
    /\ ending' \in BOOLEAN
    /\ UNCHANGED <<I, written, room, wrote, ringVars, usartVars, out>>

FlushNeverPolls ==
    /\ Step("flush", "flush")
    /\ written /\ (UDRIE \/ ~TXC)
    /\ UNCHANGED <<callVars, ringVars, usartVars, out>>

\* The loop of flush(): with interrupts off it plays the handler.
FlushPoll ==
    /\ Step("flush", "flush")
    /\ written /\ (UDRIE \/ ~TXC)
    /\ IF ~I /\ UDRIE /\ UDRE
       THEN TxUdrEmptyIrqBody
       ELSE UNCHANGED <<callVars, ringVars, usartVars, out>>

FlushForgetsTxc ==
    /\ Step("flush", "f_done")
    /\ written => ~UDRIE
    /\ UNCHANGED <<callVars, ringVars, usartVars, out>>

\* The loop ends, or was never entered because no byte was written.
FlushDone ==
    /\ Step("flush", "f_done")
    /\ written => ~UDRIE /\ TXC
    /\ UNCHANGED <<callVars, ringVars, usartVars, out>>

\* flush() returns to the sketch.
FlushReturn ==
    /\ Step("f_done", "idle")
    /\ ~ending
    /\ UNCHANGED <<callVars, ringVars, usartVars, out>>

\* flush() returns to end(), which turns the transmitter off.
TxEnd ==
    /\ Step("f_done", "closed")
    /\ ending
    /\ ending' = FALSE
    /\ UDRIE' = FALSE
    /\ UNCHANGED <<I, written, room, wrote, ringVars, TXC, UDR, shift, out>>

AvailableForWriteOneMore ==
    /\ Step("idle", "idle")
    /\ room' = IF tx_buffer_head >= tx_buffer_tail
               THEN TxSize - tx_buffer_head + tx_buffer_tail
               ELSE tx_buffer_tail - tx_buffer_head
    /\ UNCHANGED <<ending, I, written, wrote, ringVars, usartVars, out>>

\* Only the tail can move while availableForWrite() runs, so it is one step.
AvailableForWrite ==
    /\ Step("idle", "idle")
    /\ room' = IF tx_buffer_head >= tx_buffer_tail
               THEN TxSize - 1 - tx_buffer_head + tx_buffer_tail
               ELSE tx_buffer_tail - tx_buffer_head - 1
    /\ UNCHANGED <<ending, I, written, wrote, ringVars, usartVars, out>>

------------------------------------------------------------------------------
Write ==
    \/ WriteCall \/ WriteShortcut \/ WriteClearTxc \/ WriteQueue
    \/ WriteStore \/ WritePoll \/ WriteAdvanceHead \/ WriteEnableIrq

Flush == FlushCall \/ FlushPoll \/ FlushDone \/ FlushReturn

TxMain == TxBegin \/ Write \/ Flush \/ TxEnd \/ AvailableForWrite \/ SetInterrupts

TxHardware == UsartLoad \/ UsartFrameEnd \/ TxUdrEmptyIrq

TxNext == TxMain \/ TxHardware

TxSpec == TxInit /\ [][TxNext]_txVars

(* The sketch calls when it likes, so only the steps inside a call are     *)
(* fair; the USART runs on its own clock and the interrupt is served.      *)
InsideCall == pc \notin {"closed", "idle"} /\ TxMain

TxFairness ==
    /\ WF_txVars(InsideCall)
    /\ WF_txVars(UsartLoad)
    /\ WF_txVars(UsartFrameEnd)
    /\ WF_txVars(TxUdrEmptyIrq)

TxFairSpec == TxSpec /\ TxFairness

------------------------------------------------------------------------------
(* Properties.                                                             *)

Closed == pc = "closed"

TxPc ==
    {"closed", "idle", "w_check", "w_txc", "w_full", "w_head", "w_udrie", "flush", "f_done"}

\* Every index stays inside its ring and every register holds a byte or nothing.
TxTypeOK ==
    /\ pc \in TxPc
    /\ ending \in BOOLEAN /\ I \in BOOLEAN /\ written \in BOOLEAN
    /\ tx_buffer \in [Index -> TxBytes]
    /\ tx_buffer_head \in Index /\ tx_buffer_tail \in Index
    /\ UDRIE \in BOOLEAN /\ TXC \in BOOLEAN
    /\ UDR \in TxBytes \cup {NoByte}
    /\ shift \in TxBytes \cup {NoByte}
    /\ room \in 0 .. TxSize - 1
    /\ wrote \in TxBytes
    /\ out \in Seq(TxBytes)

\* "If interrupts are enabled, there must be more data in the output buffer"
\* (_tx_udr_empty_irq): the handler never runs on an empty ring, where it would
\* send a stale byte and move the tail past the head.
IrqHasData == TxIrqPending => ~Empty

\* flush() does not return before the last byte has left the shift register.
FlushMeansSent == pc = "f_done" /\ written => Drained

\* end() turns the transmitter off only when nothing is left to send, and the
\* next begin() finds an empty ring.
EndCutsNothing == Closed => Drained /\ ~UDRIE

\* flush() and end() keep their word, however long handlers hold the main line up.
NothingCut == FlushMeansSent /\ EndCutsNothing

\* A sketch that writes no more than availableForWrite() told it never waits.
PromiseKept == pc = "w_full" /\ Full => room = 0

\* write(), flush(), end() and availableForWrite() return, with interrupts on or
\* off: neither the wait for room nor the wait for TXC goes on for ever.
CallsReturn == pc \notin {"closed", "idle"} ~> pc \in {"closed", "idle"}

\* The transmit half is a FIFO from write() to the wire: ring, UDR and shift register.
TxChannel == INSTANCE ByteChannel
    WITH Byte <- TxBytes, Cap <- TxSize + 1, held <- InFlight

TxIsAChannel == TxChannel!Lossless
==============================================================================
