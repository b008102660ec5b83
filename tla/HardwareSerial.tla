---------------------------- MODULE HardwareSerial ----------------------------
(***************************************************************************)
(* One HardwareSerial object: its transmit half (SerialTx) and its receive *)
(* half (SerialRx) on one main line, under one interrupt flag.  The sketch *)
(* makes one call at a time; both interrupts may come at any step of it.   *)
(* begin() and end() act on both halves, and are whole only here.          *)
(***************************************************************************)
EXTENDS SerialTx, SerialRx

\* The variables that only the transmit half touches.
txOnly == <<pc, ending, written, room, wrote, ringVars, usartVars, out>>

\* The variables that only the receive half touches.
rxOnly == <<rpc, RXCIE, rxRing, fifo, rxLocals, heard, stored, got>>

vars == <<txOnly, rxVars>>

Init == TxInit /\ RxInit

Begin == TxBegin /\ RxBegin

EndUnflushed ==
    /\ Step("idle", "closed")
    /\ UDRIE' = FALSE
    /\ UNCHANGED <<ending, written, room, wrote, ringVars, TXC, UDR, shift, out>>
    /\ RxEndDisable

\* end(): flush() has returned; the transmitter and the receiver go off ...
EndFlushed == TxEnd /\ RxEndDisable

EndKeepsRing ==
    /\ Closed
    /\ rpc = "e_rxcie"
    /\ rpc' = "closed"
    /\ RXCIE' = FALSE
    /\ UNCHANGED <<txOnly, I, rxRing, fifo, rxLocals, heard, stored, got>>

\* ... then the receive interrupt, and the received data is cleared.
EndReceive ==
    /\ Closed
    /\ RxEndIrqOff \/ RxEndClear
    /\ UNCHANGED txOnly

\* A step of write(), flush(), the flush() of end(), or availableForWrite().
TxCall ==
    /\ rpc = "idle"
    /\ Write \/ Flush \/ AvailableForWrite
    /\ UNCHANGED rxOnly

\* A step of available(), peek() or read().
RxCall ==
    /\ pc = "idle"
    /\ Available \/ Peek \/ Read
    /\ UNCHANGED txOnly

\* The sketch switches interrupts for both halves at once.
SwitchInterrupts == SetInterrupts /\ RxSetInterrupts

Interrupts ==
    \/ TxHardware /\ UNCHANGED rxOnly
    \/ RxHardware /\ UNCHANGED txOnly

Next ==
    \/ Begin \/ EndFlushed \/ EndReceive
    \/ TxCall \/ RxCall \/ SwitchInterrupts
    \/ Interrupts

Spec == Init /\ [][Next]_vars

------------------------------------------------------------------------------
\* Sharing the main line and the interrupt flag does not let either half do a step
\* that it does not do alone: begin() and end() drive both through legal steps, so
\* every safety property of SerialTx and SerialRx holds of the whole object.  The
\* receive half is a FIFO that drops a good byte only if it is full, and a write() that
\* availableForWrite() had room for does not wait.
ImplementsHalves == TxSpec /\ RxSpec /\ RxIsAChannel /\ DropsOnlyWhenFull /\ []PromiseKept

\* After end() neither interrupt can fire, nothing is left to send and nothing to
\* read: the object is as begin() expects it.
EndIsQuiet ==
    Closed /\ rpc = "closed" =>
        /\ ~UDRIE /\ ~RXCIE
        /\ Drained
        /\ fifo = <<>> /\ Used = 0
==============================================================================
