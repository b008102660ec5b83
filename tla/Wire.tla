-------------------------------- MODULE Wire ---------------------------------
(***************************************************************************)
(* The class TwoWire on top of twi.c: the transmit buffer that a sketch    *)
(* fills between beginTransmission() and endTransmission(), the receive    *)
(* buffer that requestFrom() and the slave callback both fill, and the     *)
(* callbacks of the sketch, which run in the handler.                      *)
(***************************************************************************)
EXTENDS Twi

VARIABLES
    transmitting,  \* transmitting
    txBuffer, txBufferLength,  \* txBufferIndex is always txBufferLength
    rxBuffer, rxBufferIndex, rxBufferLength,
    wanted,        \* history: the bytes written since beginTransmission()
    due,           \* history: what read() ought to return, from the first byte on
    quiet          \* bound: the sketch sends, and no other master uses the bus; or
                   \* it sends nothing

txVars == <<transmitting, txBuffer, txBufferLength, wanted>>
rxVars == <<rxBuffer, rxBufferIndex, rxBufferLength, due>>
wireClassVars == <<txVars, rxVars>>
vars == <<twiVars, wireClassVars, quiet>>

WireInit ==
    /\ TwiInit
    /\ transmitting = FALSE /\ txBufferLength = 0 /\ wanted = <<>>
    /\ txBuffer = [k \in Slot |-> Junk] /\ rxBuffer = txBuffer
    /\ rxBufferIndex = 0 /\ rxBufferLength = 0 /\ due = <<>>
    /\ quiet \in BOOLEAN

\* The part of a message that twi_rxBuffer holds.
Fitting(bytes) == SubSeq(bytes, 1, IF Len(bytes) < BufferLength THEN Len(bytes) ELSE BufferLength)

\* The bytes a slave callback answers with.
ReplyByte(k) == ForeignByte(k)

------------------------------------------------------------------------------
(* The sketch.                                                             *)

BeginKeepsLength ==
    /\ Step("idle", "idle") /\ quiet
    /\ transmitting' = TRUE
    /\ wanted' = <<>>
    /\ UNCHANGED <<callVars, driverVars, unitVars, busVars, wireVars, txBuffer, txBufferLength,
                   rxVars>>

beginTransmission ==
    /\ Step("idle", "idle") /\ quiet
    /\ transmitting' = TRUE
    /\ txBufferLength' = 0 /\ wanted' = <<>>
    /\ UNCHANGED <<callVars, driverVars, unitVars, busVars, wireVars, txBuffer, rxVars>>

\* A byte that does not fit is refused.
write ==
    /\ Step("idle", "idle")
    /\ transmitting /\ txBufferLength < BufferLength
    /\ txBuffer' = [txBuffer EXCEPT ![txBufferLength] = Nth(AnyMessage, Len(wanted) + 1)]
    /\ txBufferLength' = txBufferLength + 1
    /\ wanted' = Append(wanted, txBuffer'[txBufferLength])
    /\ UNCHANGED <<callVars, driverVars, unitVars, busVars, wireVars, transmitting, rxVars>>

endTransmission(stop) ==
    /\ transmitting
    /\ TwiCall("write", AnyMessage, txBufferLength, stop)
    /\ UNCHANGED wireClassVars

requestFrom(quantity, stop) ==
    /\ \E msg \in Message : TwiCall("read", msg, quantity, stop)
    /\ UNCHANGED wireClassVars

\* twi_writeTo() is given a pointer: the bytes are those in txBuffer when it copies them.
Claim ==
    /\ TwiClaim([k \in 1 .. call.len |-> txBuffer[k - 1]])
    /\ UNCHANGED wireClassVars

\* twi_readFrom() copies what it read to rxBuffer ...
Done ==
    /\ TwiDone
    /\ rxBuffer' = [k \in Slot |-> IF call.op = "read" /\ k < ret' THEN twi_masterBuffer[k]
                                   ELSE rxBuffer[k]]
    /\ UNCHANGED <<txVars, rxBufferIndex, rxBufferLength, due>>

\* ... and requestFrom() sets the indices; endTransmission() empties the transmit buffer.
Return ==
    /\ TwiReturn
    /\ IF call.op = "read"
       THEN /\ rxBufferIndex' = 0 /\ rxBufferLength' = ret
            /\ due' = SubSeq(answered, 1, ret)
            /\ UNCHANGED <<txVars, rxBuffer>>
       ELSE /\ txBufferLength' = 0 /\ transmitting' = FALSE
            /\ wanted' = <<>>
            /\ UNCHANGED <<txBuffer, rxVars>>

read ==
    /\ Step("idle", "idle")
    /\ rxBufferIndex < rxBufferLength
    /\ rxBufferIndex' = rxBufferIndex + 1
    /\ UNCHANGED <<callVars, driverVars, unitVars, busVars, wireVars, txVars, rxBuffer,
                   rxBufferLength, due>>

begin ==
    /\ TwiInitAgain
    /\ rxBufferIndex' = 0 /\ rxBufferLength' = 0 /\ due' = <<>>
    /\ txBufferLength' = 0 /\ wanted' = <<>>
    /\ UNCHANGED <<transmitting, txBuffer, rxBuffer>>

------------------------------------------------------------------------------
(* The callbacks, in the handler.                                          *)

ServiceOverwrites ==
    /\ IrqSrStop
    /\ rxBuffer' = [k \in Slot |-> IF k < Len(rx) THEN rx[k + 1] ELSE rxBuffer[k]]
    /\ rxBufferLength' = Len(rx) /\ rxBufferIndex' = 0
    /\ due' = IF rxBufferIndex < rxBufferLength THEN due ELSE Fitting(got)
    /\ UNCHANGED txVars

\* onReceiveService(): dropped if bytes are still to be read, else copied, and the
\* sketch reads some of it at once.
onReceiveService ==
    /\ IrqSrStop
    /\ IF rxBufferIndex < rxBufferLength THEN UNCHANGED rxVars
       ELSE /\ rxBuffer' = [k \in Slot |-> IF k < Len(rx) THEN rx[k + 1] ELSE rxBuffer[k]]
            /\ rxBufferLength' = Len(rx) /\ due' = Fitting(got)
            /\ rxBufferIndex' \in 0 .. Len(rx)
    /\ UNCHANGED txVars

\* onRequestService(): the transmit buffer is emptied, then the sketch writes a reply,
\* which goes to the transmit buffer while a transmission is being prepared.
onRequestService(length) ==
    /\ IF transmitting
       THEN /\ IrqStSlaAck(0)
            /\ txBuffer' = [k \in Slot |-> IF k < length THEN ReplyByte(k) ELSE txBuffer[k]]
            /\ txBufferLength' = length
       ELSE /\ IrqStSlaAck(length)
            /\ txBufferLength' = 0
            /\ UNCHANGED txBuffer
    /\ UNCHANGED <<transmitting, wanted, rxVars>>

------------------------------------------------------------------------------
TwiOnly == TwiReady \/ TwiStart \/ TwiDisable \/ IrqQuiet \/ Bus

WireSketch ==
    \/ begin \/ beginTransmission \/ write \/ read
    \/ endTransmission(TRUE)
    \/ \E quantity \in Lengths \ {0} : requestFrom(quantity, TRUE)

Bounded == (quiet => ~foreign') /\ UNCHANGED quiet

WireNext ==
    \/ WireSketch \/ Claim \/ Done \/ Return
    \/ onReceiveService \/ \E length \in Lengths \cup {0} : onRequestService(length)
    \/ (TwiOnly /\ UNCHANGED wireClassVars)

WireSpec == WireInit /\ [][WireNext /\ Bounded]_vars

------------------------------------------------------------------------------
(* Properties.                                                             *)

\* endTransmission() returns 0: the slave has acknowledged the bytes the sketch wrote
\* since beginTransmission(), and no other.  Otherwise it has heard a part of them, and
\* a NACK of the address (2) is told from one of a byte (3).
SentIsWanted ==
    Returned("write") =>
        /\ Len(heard) <= Len(wanted) /\ heard = SubSeq(wanted, 1, Len(heard))
        /\ ret = 0 => heard = wanted
        /\ ret = 2 => heard = <<>>
        /\ ret = 3 => Len(heard) < Len(wanted)

\* read() returns the bytes of the last requestFrom(), all that the slave gave, or of
\* a later message handed to the callback as far as twi_rxBuffer holds it, in order: a
\* message that comes while any of these are unread is dropped and overwrites nothing.
\* One way only: a requestFrom() always discards what a message has left unread
\* (Wire.cpp:113-116), and read() then returns that call's bytes and nothing else.
ReadIsDue ==
    /\ ReadIsWhole
    /\ pc # "ret" /\ rxBufferIndex < rxBufferLength =>
           /\ rxBufferLength = Len(due)
           /\ \A k \in rxBufferIndex .. rxBufferLength - 1 : rxBuffer[k] = due[k + 1]
==============================================================================
