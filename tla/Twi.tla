--------------------------------- MODULE Twi ---------------------------------
(***************************************************************************)
(* The two-wire driver twi.c of one node: twi_readFrom() and twi_writeTo() *)
(* on the main line, the handler of TWI_vect, the TWI unit, and a bus with *)
(* a slave that answers and other masters that address this node.          *)
(*                                                                         *)
(* A step of the main line reaches to the next point where it matters what *)
(* the handler does in between; the handler is one step per event because  *)
(* it runs with interrupts off.  The unit reports an event by setting      *)
(* TWINT and waits until TWINT is cleared by a write to TWCR.              *)
(***************************************************************************)
EXTENDS Integers, Sequences

CONSTANTS
    Message,       \* the messages that are told apart
    BufferLength,  \* TWI_BUFFER_LENGTH
    Lengths,       \* bound: the lengths the sketch asks for
    ForeignMax,    \* bound: the longest message another master sends
    OtherMasters,  \* TRUE if there are other masters on the bus
    HeldUp         \* TRUE if other handlers may keep the main line waiting
                   \* for the time of a message

ASSUME TwiAssumption ==
    /\ BufferLength \in 1 .. 255
    /\ Lengths \subseteq 0 .. BufferLength
    /\ ForeignMax \in Nat
    /\ OtherMasters \in BOOLEAN /\ HeldUp \in BOOLEAN

VARIABLES
    pc,            \* where the main line is
    call,          \* the arguments of the call in progress
    ret,           \* what the call returns
    twi_state, twi_error, twi_sendStop, twi_inRepStart,
    twi_slarw,     \* the direction bit of the address byte
    twi_masterBuffer, twi_masterBufferIndex, twi_masterBufferLength,
    rx,            \* twi_rxBuffer up to twi_rxBufferIndex
    twi_txBufferIndex, twi_txBufferLength,
    TWCR,          \* the control bits TWINT, TWEA, TWSTA, TWIE
    TWSR,          \* the status of the event that set TWINT
    TWDR,          \* the data register
    mode,          \* what the unit is doing on the bus
    foreign,       \* another master holds the bus
    heard,         \* history: bytes the slave acknowledged in this transaction
    answered,      \* history: bytes the slave sent in this transaction
    got            \* history: bytes of another master acknowledged in this message

callVars == <<call, ret>>
stateVars == <<twi_state, twi_error, twi_inRepStart>>
masterVars == <<twi_masterBuffer, twi_masterBufferIndex, twi_masterBufferLength>>
setupVars == <<twi_sendStop, twi_slarw>>
answerVars == <<twi_txBufferIndex, twi_txBufferLength>>
slaveVars == <<rx, answerVars>>
wireVars == <<heard, answered, got>>
bufferVars == <<masterVars, slaveVars>>
driverVars == <<stateVars, setupVars, bufferVars>>
unitVars == <<TWCR, TWSR, TWDR>>
busVars == <<mode, foreign>>
twiVars == <<pc, callVars, driverVars, unitVars, busVars, wireVars>>

Slot == 0 .. BufferLength - 1

\* Byte number n of message m, or of another master's; what lies in an unused buffer.
Byte == Message \X (0 .. 255)
Nth(m, n) == <<m, n>>
AnyMessage == CHOOSE m \in Message : TRUE
ForeignByte(n) == Nth(AnyMessage, 255 - n)
Junk == Nth(AnyMessage, 0)

LengthUnchanged(len) == len

\* The acknowledge is chosen one byte ahead, so the index of the last byte counts.
twi_readLength(len) == (len - 1) % 256

\* The writes to TWCR: each clears TWINT and, but for a repeated start, enables the interrupt.
twi_reply(ack) == [TWINT |-> FALSE, TWEA |-> ack, TWSTA |-> FALSE, TWIE |-> TRUE]
SendSta == [twi_reply(TRUE) EXCEPT !.TWSTA = TRUE]
RepStartWithIrq == [TWINT |-> FALSE, TWEA |-> FALSE, TWSTA |-> TRUE, TWIE |-> TRUE]

SendRepStart == [TWINT |-> FALSE, TWEA |-> FALSE, TWSTA |-> TRUE, TWIE |-> FALSE]

NoCall == [op |-> "write", msg |-> AnyMessage, len |-> 0, stop |-> TRUE]

TwiInit ==
    /\ pc = "idle" /\ call = NoCall /\ ret = 0
    /\ twi_state = "READY" /\ twi_error = "none"
    /\ twi_sendStop = TRUE /\ twi_inRepStart = FALSE /\ twi_slarw = "write"
    /\ twi_masterBuffer = [k \in Slot |-> Junk]
    /\ twi_masterBufferIndex = 0 /\ twi_masterBufferLength = 0
    /\ rx = <<>> /\ twi_txBufferIndex = 0 /\ twi_txBufferLength = 0
    /\ TWCR = twi_reply(TRUE) /\ TWSR = "NO_INFO" /\ TWDR = Junk
    /\ mode = "none" /\ foreign = FALSE
    /\ heard = <<>> /\ answered = <<>> /\ got = <<>>

------------------------------------------------------------------------------
(* The bus and the unit.  An event sets TWINT with a status; the unit goes *)
(* on only when TWINT has been cleared.                                    *)

Event(status, next) ==
    /\ TWSR' = status /\ mode' = next
    /\ TWCR' = [TWCR EXCEPT !.TWINT = TRUE]
    /\ UNCHANGED <<pc, callVars, driverVars>>

(* Between the test of twi_state and the write to TWCR, and from the end   *)
(* of the wait to the return, the main line is faster than a frame of a    *)
(* message to this node, unless it is held up.                             *)
InWindow == pc \in {"claim", "start", "ret"} /\ ~HeldUp

\* Another master takes the free bus, or lets it go.
ForeignStart ==
    /\ OtherMasters /\ mode = "none" /\ ~foreign /\ ~TWCR.TWSTA
    /\ foreign' = TRUE
    /\ UNCHANGED <<pc, callVars, driverVars, unitVars, mode, wireVars>>

ForeignStop ==
    /\ foreign /\ mode = "none"
    /\ foreign' = FALSE
    /\ UNCHANGED <<pc, callVars, driverVars, unitVars, mode, wireVars>>

\* The unit sends a start condition on a bus that is free or its own.
UnitStart ==
    /\ ~TWCR.TWINT /\ TWCR.TWSTA
    /\ \/ mode = "none" /\ ~foreign /\ Event("START", "address")
       \/ mode \in {"mt", "mr"} /\ Event("REP_START", "address")
    /\ UNCHANGED <<TWDR, foreign, wireVars>>

\* The address goes out: acknowledged, not acknowledged, or lost to another master.
UnitAddress ==
    /\ ~TWCR.TWINT /\ mode = "address"
    /\ \/ foreign' = foreign /\ UNCHANGED got
          /\ \/ twi_slarw = "write"
                /\ (Event("MT_SLA_ACK", "mt") \/ Event("MT_SLA_NACK", "mt"))
             \/ twi_slarw = "read"
                /\ (Event("MR_SLA_ACK", "mr") \/ Event("MR_SLA_NACK", "mr"))
       \/ /\ OtherMasters /\ foreign' = TRUE
          /\ \/ Event("ARB_LOST", "none") /\ UNCHANGED got
             \/ Event("SR_SLA_ACK", "sr") /\ got' = <<>>
             \/ Event("ST_SLA_ACK", "st") /\ UNCHANGED got
    /\ UNCHANGED <<TWDR, heard, answered>>

\* A data byte goes out.
UnitSend ==
    /\ ~TWCR.TWINT /\ ~TWCR.TWSTA /\ mode = "mt"
    /\ \/ Event("MT_DATA_ACK", "mt") /\ heard' = Append(heard, TWDR) /\ UNCHANGED foreign
       \/ Event("MT_DATA_NACK", "mt") /\ UNCHANGED <<heard, foreign>>
       \/ OtherMasters /\ Event("ARB_LOST", "none") /\ foreign' = TRUE /\ UNCHANGED heard
    /\ UNCHANGED <<TWDR, answered, got>>

\* A data byte comes in, acknowledged if TWEA is set.
UnitReceive ==
    /\ ~TWCR.TWINT /\ ~TWCR.TWSTA /\ mode = "mr"
    /\ TWDR' = Nth(call.msg, Len(answered) + 1)
    /\ answered' = Append(answered, TWDR')
    /\ Event(IF TWCR.TWEA THEN "MR_DATA_ACK" ELSE "MR_DATA_NACK", "mr")
    /\ UNCHANGED <<foreign, heard, got>>

\* Another master addresses this node, to write or to read.
SlaveAddressed ==
    /\ ~TWCR.TWINT /\ TWCR.TWEA /\ foreign /\ mode = "none"
    /\ pc = "ret" \/ (pc = "wait" /\ twi_state = "READY") => HeldUp
    /\ \/ Event("SR_SLA_ACK", "sr") /\ got' = <<>>
       \/ Event("ST_SLA_ACK", "st") /\ UNCHANGED got
    /\ UNCHANGED <<TWDR, foreign, heard, answered>>

\* It sends a byte; a byte that is not acknowledged ends this node's part ...
SlaveByte ==
    /\ ~TWCR.TWINT /\ mode = "sr" /\ ~InWindow /\ Len(got) < ForeignMax
    /\ TWDR' = ForeignByte(Len(got) + 1)
    /\ \/ TWCR.TWEA /\ Event("SR_DATA_ACK", "sr") /\ got' = Append(got, TWDR')
       \/ ~TWCR.TWEA /\ Event("SR_DATA_NACK", "none") /\ UNCHANGED got
    /\ UNCHANGED <<foreign, heard, answered>>

\* ... or a stop or a repeated start condition does.
SlaveStop ==
    /\ ~TWCR.TWINT /\ mode = "sr" /\ ~InWindow
    /\ Event("SR_STOP", "none")
    /\ foreign' \in BOOLEAN
    /\ UNCHANGED <<TWDR, wireVars>>

\* It has read a byte of this node, and asks for more or not.
SlaveSent ==
    /\ ~TWCR.TWINT /\ mode = "st" /\ ~InWindow
    /\ \/ TWCR.TWEA /\ Event("ST_DATA_ACK", "st")
       \/ ~TWCR.TWEA /\ Event("ST_LAST_DATA", "none")
       \/ Event("ST_DATA_NACK", "none")
    /\ UNCHANGED <<TWDR, foreign, wireVars>>

\* A start or stop condition in the middle of a frame this node takes part in.
UnitBusError ==
    /\ ~TWCR.TWINT /\ mode # "none" /\ ~InWindow
    /\ mode \in {"mt", "mr"} => ~TWCR.TWSTA
    /\ Event("BUS_ERROR", mode)
    /\ UNCHANGED <<TWDR, foreign, wireVars>>

Bus ==
    \/ ForeignStart \/ ForeignStop \/ UnitStart \/ UnitAddress \/ UnitSend \/ UnitReceive
    \/ SlaveAddressed \/ SlaveByte \/ SlaveStop \/ SlaveSent \/ UnitBusError

------------------------------------------------------------------------------
(* ISR(TWI_vect), one action per group of statuses.                        *)

IrqPending == TWCR.TWINT /\ TWCR.TWIE

Irq(statuses) ==
    /\ IrqPending /\ TWSR \in statuses
    /\ TWSR' = "NO_INFO"
    /\ got' = IF TWSR \in {"SR_STOP", "SR_DATA_NACK", "BUS_ERROR"} THEN <<>> ELSE got
    /\ UNCHANGED <<pc, callVars, setupVars, heard, answered>>

StopKeepsState ==
    /\ TWCR' = twi_reply(TRUE) /\ mode' = "none"
    /\ UNCHANGED twi_state

\* twi_stop(): back when the stop condition is on the bus.
twi_stop ==
    /\ TWCR' = twi_reply(TRUE) /\ mode' = "none"
    /\ twi_state' = "READY"

ReleaseRetries ==
    /\ TWCR' = SendSta
    /\ twi_state' = "READY"
    /\ UNCHANGED mode

twi_releaseBus ==
    /\ TWCR' = twi_reply(TRUE)
    /\ twi_state' = "READY"
    /\ UNCHANGED mode

\* The end of a transaction: a stop, or a repeated start whose event is left
\* for the next transaction to find.
FinishMaster ==
    IF twi_sendStop
    THEN twi_stop /\ UNCHANGED twi_inRepStart
    ELSE /\ twi_inRepStart' = TRUE
         /\ TWCR' = SendRepStart
         /\ twi_state' = "READY"
         /\ UNCHANGED mode

IrqStart ==
    /\ Irq({"START", "REP_START"})
    /\ TWCR' = twi_reply(TRUE)
    /\ UNCHANGED <<stateVars, bufferVars, TWDR, busVars>>

IrqMtAck ==
    /\ Irq({"MT_SLA_ACK", "MT_DATA_ACK"})
    /\ IF twi_masterBufferIndex < twi_masterBufferLength
       THEN /\ TWDR' = twi_masterBuffer[twi_masterBufferIndex]
            /\ twi_masterBufferIndex' = twi_masterBufferIndex + 1
            /\ TWCR' = twi_reply(TRUE)
            /\ UNCHANGED <<twi_state, twi_inRepStart, mode>>
       ELSE FinishMaster /\ UNCHANGED <<TWDR, twi_masterBufferIndex>>
    /\ UNCHANGED <<twi_error, twi_masterBuffer, twi_masterBufferLength, slaveVars, foreign>>

IrqMtNack ==
    /\ Irq({"MT_SLA_NACK", "MT_DATA_NACK"})
    /\ twi_error' = TWSR
    /\ twi_stop
    /\ UNCHANGED <<twi_inRepStart, bufferVars, TWDR, foreign>>

IrqArbLost ==
    /\ Irq({"ARB_LOST"})
    /\ twi_error' = "ARB_LOST"
    /\ twi_releaseBus
    /\ UNCHANGED <<twi_inRepStart, bufferVars, TWDR, foreign>>

\* The byte just received goes into the master's buffer.
StoreReceived ==
    /\ twi_masterBuffer' = IF twi_masterBufferIndex \in Slot
                           THEN [twi_masterBuffer EXCEPT ![twi_masterBufferIndex] = TWDR]
                           ELSE twi_masterBuffer
    /\ twi_masterBufferIndex' = (twi_masterBufferIndex + 1) % 256
    /\ UNCHANGED twi_masterBufferLength

\* The acknowledge chosen here is for the next byte, so the last but one decides.
IrqMrAck ==
    /\ Irq({"MR_SLA_ACK", "MR_DATA_ACK"})
    /\ IF TWSR = "MR_DATA_ACK" THEN StoreReceived ELSE UNCHANGED masterVars
    /\ TWCR' = twi_reply(twi_masterBufferIndex' < twi_masterBufferLength)
    /\ UNCHANGED <<stateVars, slaveVars, TWDR, busVars>>

IrqMrDataNack ==
    /\ Irq({"MR_DATA_NACK"})
    /\ StoreReceived
    /\ FinishMaster
    /\ UNCHANGED <<twi_error, slaveVars, TWDR, foreign>>

IrqMrSlaNack ==
    /\ Irq({"MR_SLA_NACK"})
    /\ twi_stop
    /\ UNCHANGED <<twi_error, twi_inRepStart, bufferVars, TWDR, foreign>>

SlaAckKeepsRx ==
    /\ Irq({"SR_SLA_ACK"})
    /\ twi_state' = "SRX"
    /\ TWCR' = twi_reply(TRUE)
    /\ UNCHANGED <<rx, twi_error, twi_inRepStart, masterVars, answerVars, TWDR, busVars>>

IrqSrSlaAck ==
    /\ Irq({"SR_SLA_ACK"})
    /\ twi_state' = "SRX"
    /\ rx' = <<>>
    /\ TWCR' = twi_reply(TRUE)
    /\ UNCHANGED <<twi_error, twi_inRepStart, masterVars, answerVars, TWDR, busVars>>

IrqSrDataAck ==
    /\ Irq({"SR_DATA_ACK"})
    /\ rx' = IF Len(rx) < BufferLength THEN Append(rx, TWDR) ELSE rx
    /\ TWCR' = twi_reply(Len(rx) < BufferLength)
    /\ UNCHANGED <<stateVars, masterVars, answerVars, TWDR, busVars>>

\* The message is handed to twi_onSlaveReceive.
IrqSrStop ==
    /\ Irq({"SR_STOP"})
    /\ twi_releaseBus
    /\ rx' = <<>>
    /\ UNCHANGED <<twi_error, twi_inRepStart, masterVars, answerVars, TWDR, foreign>>

IrqSrDataNack ==
    /\ Irq({"SR_DATA_NACK"})
    /\ TWCR' = twi_reply(FALSE)
    /\ UNCHANGED <<stateVars, bufferVars, TWDR, busVars>>

\* The next byte of the answer goes out; what it is, is not followed here, nor how
\* far the index goes past the end.
LoadAnswer(i, length) ==
    /\ UNCHANGED TWDR
    /\ twi_txBufferIndex' = IF i < length THEN i + 1 ELSE length
    /\ twi_txBufferLength' = length
    /\ TWCR' = twi_reply(i + 1 < length)

\* twi_onSlaveTransmit supplies an answer with twi_transmit(), or none and a zero byte goes out.
IrqStSlaAck(length) ==
    /\ Irq({"ST_SLA_ACK"})
    /\ twi_state' = "STX"
    /\ LoadAnswer(0, IF length = 0 THEN 1 ELSE length)
    /\ UNCHANGED <<twi_error, twi_inRepStart, masterVars, rx, busVars>>

IrqStDataAck ==
    /\ Irq({"ST_DATA_ACK"})
    /\ LoadAnswer(twi_txBufferIndex, twi_txBufferLength)
    /\ UNCHANGED <<stateVars, masterVars, rx, busVars>>

IrqStDone ==
    /\ Irq({"ST_DATA_NACK", "ST_LAST_DATA"})
    /\ TWCR' = twi_reply(TRUE)
    /\ twi_state' = "READY"
    /\ UNCHANGED <<twi_error, twi_inRepStart, bufferVars, TWDR, busVars>>

IrqBusError ==
    /\ Irq({"BUS_ERROR"})
    /\ twi_error' = "BUS_ERROR"
    /\ twi_stop
    /\ UNCHANGED <<twi_inRepStart, bufferVars, TWDR, foreign>>

IrqQuiet ==
    \/ IrqStart \/ IrqMtAck \/ IrqMtNack \/ IrqArbLost \/ IrqMrAck \/ IrqMrDataNack
    \/ IrqMrSlaNack \/ IrqSrSlaAck \/ IrqSrDataAck \/ IrqSrDataNack \/ IrqStDataAck
    \/ IrqStDone \/ IrqBusError

TwiIrq == IrqQuiet \/ IrqSrStop \/ \E length \in Lengths \cup {0} : IrqStSlaAck(length)

------------------------------------------------------------------------------
(* The main line: twi_readFrom() and twi_writeTo() take the same steps.    *)

\* A pending interrupt is served before the main line goes on.
Step(from, to) ==
    /\ pc = from /\ pc' = to
    /\ ~IrqPending

\* The call: length no longer than the buffer.
TwiCall(op, msg, len, stop) ==
    /\ Step("idle", "wait")
    /\ call' = [op |-> op, msg |-> msg, len |-> len, stop |-> stop]
    /\ UNCHANGED <<ret, driverVars, unitVars, busVars, wireVars>>

\* while(TWI_READY != twi_state) ends ...
TwiReady ==
    /\ Step("wait", "claim")
    /\ twi_state = "READY"
    /\ UNCHANGED <<callVars, driverVars, unitVars, busVars, wireVars>>

\* ... the state is set, and the transaction prepared ...
TwiClaim(data) ==
    /\ Step("claim", "start")
    /\ twi_state' = IF call.op = "read" THEN "MRX" ELSE "MTX"
    /\ twi_error' = "none"
    /\ twi_sendStop' = call.stop
    /\ twi_slarw' = call.op
    /\ twi_masterBufferIndex' = 0
    /\ IF call.op = "read"
       THEN /\ twi_masterBufferLength' = twi_readLength(call.len)
            /\ UNCHANGED twi_masterBuffer
       ELSE /\ twi_masterBufferLength' = call.len
            /\ twi_masterBuffer' = [k \in Slot |-> IF k < call.len THEN data[k + 1]
                                                   ELSE twi_masterBuffer[k]]
    /\ heard' = <<>> /\ answered' = <<>>
    /\ UNCHANGED <<callVars, twi_inRepStart, slaveVars, unitVars, busVars, got>>

\* ... and the unit is told to send a start condition; after a repeated start, to
\* send the address as soon as TWDR can take it.
TwiStart ==
    /\ Step("start", "busy")
    /\ twi_inRepStart => TWCR.TWINT
    /\ TWCR' = IF twi_inRepStart THEN twi_reply(TRUE) ELSE SendSta
    /\ TWSR' = "NO_INFO"
    /\ twi_inRepStart' = FALSE
    /\ UNCHANGED <<callVars, twi_state, twi_error, setupVars, bufferVars, TWDR, busVars, wireVars>>

\* What twi_writeTo() makes of twi_error.
WriteCode ==
    CASE twi_error = "none"         -> 0
      [] twi_error = "MT_SLA_NACK"  -> 2
      [] twi_error = "MT_DATA_NACK" -> 3
      [] OTHER                      -> 4

WholeCount == call.len

\* What twi_readFrom() returns.
ReadCount ==
    IF twi_masterBufferIndex < call.len THEN twi_masterBufferIndex ELSE call.len

\* The wait for the end of the transaction ends; twi_readFrom() copies what came in.
TwiDone ==
    /\ Step("busy", "ret")
    /\ twi_state # (IF call.op = "read" THEN "MRX" ELSE "MTX")
    /\ ret' = IF call.op = "write" THEN WriteCode ELSE ReadCount
    /\ UNCHANGED <<call, driverVars, unitVars, busVars, wireVars>>

\* The call returns, and what it was about is forgotten.
TwiReturn ==
    /\ Step("ret", "idle")
    /\ call' = NoCall /\ ret' = 0
    /\ heard' = <<>> /\ answered' = <<>>
    /\ UNCHANGED <<driverVars, unitVars, busVars, got>>

\* twi_init(): the first time, after twi_disable(), or again by any library that uses
\* the bus, but not with the bus held by a repeated start.
TwiInitAgain ==
    /\ Step("off", "idle") \/ (~twi_inRepStart /\ Step("idle", "idle"))
    /\ twi_state' = "READY"
    /\ twi_sendStop' = TRUE
    /\ twi_inRepStart' = FALSE
    /\ TWCR' = twi_reply(TRUE)
    /\ UNCHANGED <<callVars, twi_error, twi_slarw, bufferVars, TWSR, TWDR, busVars, wireVars>>

\* twi_disable() turns the unit off, whatever it was doing.
TwiDisable ==
    /\ Step("idle", "off")
    /\ TWCR' = [twi_reply(FALSE) EXCEPT !.TWIE = FALSE]
    /\ mode' = "none"
    /\ UNCHANGED <<callVars, driverVars, TWSR, TWDR, foreign, wireVars>>

\* The caller's buffer.
Data == [k \in 1 .. call.len |-> Nth(call.msg, k)]

InCall == TwiReady \/ TwiClaim(Data) \/ TwiStart \/ TwiDone \/ TwiReturn

Sketch ==
    \/ TwiInitAgain \/ TwiDisable
    \/ \E op \in {"read", "write"}, msg \in Message, len \in Lengths, stop \in BOOLEAN :
          TwiCall(op, msg, len, stop)

TwiNext == Sketch \/ InCall \/ TwiIrq \/ Bus

TwiSpec == TwiInit /\ [][TwiNext]_twiVars

(* The handler runs when its interrupt is pending, a call goes on, and the *)
(* unit and the other parties finish the frames and messages they started. *)
TwiFairness ==
    /\ SF_twiVars(InCall)
    /\ WF_twiVars(TwiIrq)
    /\ WF_twiVars(ForeignStop)
    /\ WF_twiVars(UnitStart \/ UnitAddress \/ UnitSend \/ UnitReceive)
    /\ WF_twiVars(SlaveByte \/ SlaveStop \/ SlaveSent)

TwiFairSpec == TwiSpec /\ TwiFairness

------------------------------------------------------------------------------
(* Properties.                                                             *)

Returned(op) == pc = "ret" /\ call.op = op

\* twi_readFrom() returns n: the caller gets n bytes of this transaction, in order,
\* and never one that was left in the buffer by an earlier one.
ReadIsFresh ==
    Returned("read") =>
        /\ ret <= Len(answered)
        /\ \A k \in 1 .. ret : twi_masterBuffer[k - 1] = answered[k]

\* A read that is over has not consumed a byte of the slave that it keeps from the caller.
ReadIsWhole == Returned("read") /\ twi_error = "none" => ret = Len(answered)

\* No transaction runs on behind a call that has returned: the unit is a master then
\* only to hold the bus by a repeated start.
NoOrphan ==
    pc \in {"idle", "wait"} /\ mode \in {"address", "mt", "mr"} => twi_inRepStart

\* The bus held for the next transaction: the start condition is still to be sent or
\* waits, unserved, for the call that loads the address.
HeldForNext ==
    twi_inRepStart /\ pc # "off" =>
        /\ ~TWCR.TWIE /\ twi_state \in {"READY", "MTX", "MRX"}
        /\ (mode = "address" /\ TWCR.TWINT) \/ (mode \in {"mt", "mr"} /\ TWCR.TWSTA)

\* The unit is master of the bus in a call, or to hold it for the next one.
HeldOnly == NoOrphan /\ HeldForNext

\* What another master sent, and this node acknowledged, is handed to the callback, up
\* to the length of twi_rxBuffer: a byte that finds it full has been acknowledged, and
\* is dropped.
AckedIsGiven ==
    IrqPending /\ TWSR = "SR_STOP" =>
        /\ Len(rx) = BufferLength \/ Len(rx) = Len(got)
        /\ rx = SubSeq(got, 1, Len(rx))

\* After a byte that it did not acknowledge as a slave the unit is out of the message:
\* it takes no part in the next ones either, and reports nothing that would change twi_state.
Deaf ==
    /\ mode = "none" /\ twi_state # "READY"
    /\ ~TWCR.TWINT /\ ~TWCR.TWEA /\ ~TWCR.TWSTA

\* Every call returns, whatever slaves and other masters do, unless a message that did
\* not fit twi_rxBuffer has left the node deaf.
CallsReturn == pc \notin {"off", "idle"} ~> pc = "idle" \/ Deaf
==============================================================================
