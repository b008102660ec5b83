----------------------------- MODULE WireProofs ------------------------------
(***************************************************************************)
(* What holds of the two-wire driver for every length of its buffers, of   *)
(* calls and of foreign messages: the bus is held by a call or for the     *)
(* next one only, a read gives the bytes of its own transaction, and what  *)
(* was acknowledged as a slave is handed over.  And of TwoWire on top of   *)
(* it: endTransmission() tells what the slave acknowledged, and read()     *)
(* gives what requestFrom() or the callback was given.                     *)
(***************************************************************************)
EXTENDS Wire, SequenceTheorems, TLAPS

------------------------------------------------------------------------------
(***************************************************************************)
(* The steps of the driver, whoever calls it: the length is no longer than *)
(* the buffer, and the bytes are those that the caller's buffer holds when *)
(* they are copied.                                                        *)
(***************************************************************************)
AnyByte == (Message \cup {AnyMessage}) \X Int

AnyCall ==
    \E op \in {"read", "write"}, msg \in Message \cup {AnyMessage}, len \in 0 .. BufferLength,
       stop \in BOOLEAN : TwiCall(op, msg, len, stop)

AnyClaim == \E data \in [1 .. call.len -> AnyByte] : TwiClaim(data)

MainLine ==
    \/ TwiInitAgain \/ TwiDisable \/ AnyCall
    \/ TwiReady \/ AnyClaim \/ TwiStart \/ TwiDone \/ TwiReturn

AnyStep == MainLine \/ TwiIrq \/ Bus

------------------------------------------------------------------------------
(***************************************************************************)
(* Control.  The status that waits for the handler tells what the unit is  *)
(* doing (StatusTells); the unit is master in a call that waits for it, or *)
(* to hold the bus for the next one (MasterInCall); and a start condition  *)
(* is asked for in the same two cases, or is forgotten when the handler    *)
(* has served the message that this node takes part in (StartInCall).      *)
(***************************************************************************)
Control == [TWINT : BOOLEAN, TWEA : BOOLEAN, TWSTA : BOOLEAN, TWIE : BOOLEAN]

Places == {"idle", "wait", "claim", "start", "busy", "ret", "off"}
States == {"READY", "MRX", "MTX", "SRX", "STX"}
AsMaster == {"address", "mt", "mr"}
AsSlave == {"sr", "st"}

ControlTypes ==
    /\ pc \in Places /\ twi_state \in States /\ twi_inRepStart \in BOOLEAN /\ twi_sendStop \in BOOLEAN
    /\ TWCR \in Control /\ mode \in {"none"} \cup AsMaster \cup AsSlave
    /\ call.op \in {"read", "write"} /\ call.stop \in BOOLEAN /\ call.len \in 0 .. BufferLength

StatusTells ==
    TWCR.TWINT =>
        /\ TWSR \in {"START", "REP_START"} => mode = "address"
        /\ TWSR \in {"MT_SLA_ACK", "MT_SLA_NACK", "MT_DATA_ACK", "MT_DATA_NACK"} => mode = "mt"
        /\ TWSR \in {"MR_SLA_ACK", "MR_SLA_NACK", "MR_DATA_ACK", "MR_DATA_NACK"} => mode = "mr"
        /\ TWSR \in {"SR_SLA_ACK", "SR_DATA_ACK"} => mode = "sr"
        /\ TWSR \in {"ST_SLA_ACK", "ST_DATA_ACK"} => mode = "st"
        /\ TWSR \in {"ARB_LOST", "SR_STOP", "SR_DATA_NACK", "ST_LAST_DATA", "ST_DATA_NACK"} => mode = "none"

TurnedOff ==
    IF pc = "off"
    THEN mode = "none" /\ ~TWCR.TWINT /\ ~TWCR.TWEA /\ ~TWCR.TWSTA /\ ~TWCR.TWIE
    ELSE TWCR.TWIE <=> ~twi_inRepStart

Mine == IF call.op = "read" THEN "MRX" ELSE "MTX"

InMyCall == pc = "busy" /\ twi_state = Mine

HeldBus ==
    twi_inRepStart /\ pc # "off" =>
        /\ twi_state \in {"READY", "MTX", "MRX"}
        /\ \/ mode = "address" /\ TWCR.TWINT
           \/ mode \in {"mt", "mr"} /\ TWCR.TWSTA /\ ~TWCR.TWINT

MasterInCall == mode \in AsMaster => twi_inRepStart \/ InMyCall

StartInCall == TWCR.TWSTA => twi_inRepStart \/ InMyCall \/ mode \in AsSlave \/ TWCR.TWINT

\* Between the claim and the start condition nothing but the address of this node is served.
Claimed ==
    pc = "start" =>
        /\ twi_state = Mine \/ mode \in AsSlave
        /\ TWCR.TWINT /\ ~twi_inRepStart => TWSR \in {"SR_SLA_ACK", "ST_SLA_ACK"}

ControlInv ==
    /\ ControlTypes /\ StatusTells /\ TurnedOff /\ HeldBus
    /\ MasterInCall /\ StartInCall /\ Claimed

------------------------------------------------------------------------------
(***************************************************************************)
(* Reading.  The buffer holds what the slave has sent, but for a byte that *)
(* waits for the handler (Counted, Copied), and the acknowledge was given  *)
(* so that there is room for it (Room).                                    *)
(***************************************************************************)
ReadTypes ==
    /\ call.msg \in Message \cup {AnyMessage} /\ twi_slarw \in {"read", "write"}
    /\ twi_masterBuffer \in [Slot -> AnyByte] /\ TWDR \in AnyByte
    /\ twi_masterBufferIndex \in Nat /\ twi_masterBufferLength \in 0 .. 255
    /\ answered \in Seq(AnyByte) /\ got \in Seq(AnyByte) /\ rx \in Seq(AnyByte)

Direction ==
    /\ pc \in {"start", "busy"} => twi_slarw = call.op
    /\ pc \in {"start", "busy"} /\ call.op = "write" => twi_masterBufferLength = call.len
    /\ mode = "mt" /\ ~twi_inRepStart => call.op = "write"
    /\ mode = "mr" /\ ~twi_inRepStart => call.op = "read"

Reading == call.op = "read" /\ call.len > 0 /\ pc \in {"start", "busy", "ret"}
Waits(status) == TWCR.TWINT /\ TWSR = status
InRead == pc = "busy" /\ ~twi_inRepStart /\ mode = "mr"
ByteWaits == InRead /\ (Waits("MR_DATA_ACK") \/ Waits("MR_DATA_NACK"))

Counted ==
    Reading =>
        /\ twi_masterBufferLength = call.len - 1
        /\ twi_masterBufferIndex <= call.len
        /\ IF ByteWaits
           THEN Len(answered) = twi_masterBufferIndex + 1 /\ answered[Len(answered)] = TWDR
           ELSE Len(answered) = twi_masterBufferIndex

Copied ==
    Reading => \A k \in 1 .. twi_masterBufferIndex : twi_masterBuffer[k - 1] = answered[k]

Room ==
    Reading =>
        /\ pc = "start" \/ (pc = "busy" /\ ~twi_inRepStart /\ TWCR.TWSTA) => twi_masterBufferIndex = 0
        /\ InRead \/ (pc = "busy" /\ ~twi_inRepStart /\ mode = "address") =>
              twi_masterBufferIndex < call.len
        /\ InRead /\ (Waits("MR_DATA_ACK") \/ (~TWCR.TWINT /\ TWCR.TWEA)) =>
              twi_masterBufferIndex < call.len - 1

Answer ==
    pc = "ret" /\ call.op = "read" =>
        /\ ret \in 0 .. call.len /\ ret <= twi_masterBufferIndex
        /\ call.len > 0 => ret = twi_masterBufferIndex

ReadInv == ReadTypes /\ Direction /\ Counted /\ Copied /\ Room /\ Answer

------------------------------------------------------------------------------
(***************************************************************************)
(* Being written to.  What is stored is the beginning of what was          *)
(* acknowledged, but for a byte that waits for the handler.                *)
(***************************************************************************)
Acknowledged == IF Waits("SR_DATA_ACK") THEN Len(got) - 1 ELSE Len(got)

Stored ==
    mode = "sr" \/ Waits("SR_STOP") =>
        IF Waits("SR_SLA_ACK")
        THEN got = <<>>
        ELSE /\ Waits("SR_DATA_ACK") => Len(got) > 0 /\ got[Len(got)] = TWDR
             /\ Len(rx) <= Acknowledged /\ Len(rx) <= BufferLength
             /\ Len(rx) = BufferLength \/ Len(rx) = Acknowledged
             /\ \A k \in 1 .. Len(rx) : rx[k] = got[k]

------------------------------------------------------------------------------
(* The values that are written to TWCR.                                    *)
LEMMA ReplyIs ==
    ASSUME NEW ack \in BOOLEAN
    PROVE  /\ twi_reply(ack) \in Control /\ ~twi_reply(ack).TWINT /\ ~twi_reply(ack).TWSTA
           /\ twi_reply(ack).TWIE /\ (twi_reply(ack).TWEA <=> ack)
BY DEF twi_reply, Control

LEMMA StartsAre ==
    /\ SendSta \in Control /\ ~SendSta.TWINT /\ SendSta.TWIE
    /\ SendRepStart \in Control /\ ~SendRepStart.TWINT /\ SendRepStart.TWSTA /\ ~SendRepStart.TWIE
BY DEF SendSta, SendRepStart, twi_reply, Control

(* An event leaves the driver alone, and the control bits but for TWINT.   *)
LEMMA EventIs ==
    ASSUME NEW status, NEW next, TWCR \in Control, Event(status, next)
    PROVE  /\ TWCR' \in Control /\ TWCR'.TWINT
           /\ TWCR'.TWEA = TWCR.TWEA /\ TWCR'.TWSTA = TWCR.TWSTA /\ TWCR'.TWIE = TWCR.TWIE
           /\ TWSR' = status /\ mode' = next
           /\ UNCHANGED <<pc, call, ret, driverVars>>
<1>1. TWCR' = [TWCR EXCEPT !.TWINT = TRUE] /\ TWSR' = status /\ mode' = next
  BY DEF Event
<1>2. TWCR' \in Control /\ TWCR'.TWINT
  BY <1>1 DEF Control
<1>3. TWCR'.TWEA = TWCR.TWEA /\ TWCR'.TWSTA = TWCR.TWSTA /\ TWCR'.TWIE = TWCR.TWIE
  BY <1>1 DEF Control
<1> QED
  BY <1>1, <1>2, <1>3 DEF Event, callVars

------------------------------------------------------------------------------
(* What an event on the bus does to control, whoever causes it.            *)
LEMMA EventControl ==
    ASSUME ControlInv, ~TWCR.TWINT, pc # "off",
           NEW status, NEW next \in {"none"} \cup AsMaster \cup AsSlave, Event(status, next),
           StatusTells',
           twi_inRepStart => mode \in {"mt", "mr"} /\ next = "address",
           next \in AsMaster => twi_inRepStart \/ InMyCall,
           pc = "start" /\ ~twi_inRepStart => status \in {"SR_SLA_ACK", "ST_SLA_ACK"} /\ next \in AsSlave
    PROVE  ControlInv'
<1>1. /\ TWCR' \in Control /\ TWCR'.TWINT
      /\ TWCR'.TWEA = TWCR.TWEA /\ TWCR'.TWSTA = TWCR.TWSTA /\ TWCR'.TWIE = TWCR.TWIE
      /\ TWSR' = status /\ mode' = next
      /\ UNCHANGED <<pc, call, ret, driverVars>>
  BY EventIs DEF ControlInv, ControlTypes
<1>2. UNCHANGED <<pc, call, twi_state, twi_inRepStart, twi_sendStop>>
  BY <1>1 DEF driverVars, stateVars, setupVars
<1>3. ControlTypes'
  BY <1>1, <1>2 DEF ControlInv, ControlTypes
<1>4. TurnedOff' /\ HeldBus' /\ StartInCall'
  BY <1>1, <1>2 DEF ControlInv, TurnedOff, HeldBus, StartInCall
<1>5. MasterInCall'
  BY <1>1, <1>2 DEF ControlInv, MasterInCall, InMyCall, Mine
<1>6. Claimed'
  BY <1>1, <1>2 DEF ControlInv, Claimed, Mine, AsSlave
<1> QED
  BY <1>3, <1>4, <1>5, <1>6 DEF ControlInv

LEMMA BusControl ==
    ASSUME ~HeldUp, ControlInv, Bus
    PROVE  ControlInv'
<1> USE DEF AsMaster, AsSlave
<1>0. /\ TWCR \in Control /\ (twi_inRepStart /\ pc # "off" => TWCR.TWINT \/ TWCR.TWSTA)
      /\ pc = "off" => mode = "none" /\ ~TWCR.TWEA /\ ~TWCR.TWSTA
      /\ twi_inRepStart /\ pc # "off" => mode \in AsMaster
  BY DEF ControlInv, ControlTypes, HeldBus, TurnedOff
<1>1. CASE ForeignStart \/ ForeignStop
  BY <1>1 DEF ForeignStart, ForeignStop, ControlInv, ControlTypes, StatusTells, TurnedOff, HeldBus,
              MasterInCall, StartInCall, Claimed, InMyCall, Mine, driverVars, stateVars, setupVars,
              unitVars, callVars
<1>2. CASE UnitStart
  <2>1. PICK status \in {"START", "REP_START"} :
           /\ Event(status, "address") /\ ~TWCR.TWINT /\ TWCR.TWSTA
           /\ mode = "none" \/ mode \in {"mt", "mr"}
    BY <1>2 DEF UnitStart
  <2>2. pc # "off" /\ (twi_inRepStart => mode \in {"mt", "mr"}) /\ (twi_inRepStart \/ InMyCall)
    BY <1>0, <2>1 DEF ControlInv, HeldBus, StartInCall
  <2>3. StatusTells'
    BY <2>1 DEF Event, StatusTells
  <2>4. pc = "start" => twi_inRepStart
    BY <2>2 DEF InMyCall
  <2> QED
    BY <2>1, <2>2, <2>3, <2>4, EventControl
<1>3. CASE UnitAddress
  <2>1. ~TWCR.TWINT /\ mode = "address" /\ pc # "off" /\ ~twi_inRepStart /\ InMyCall
    BY <1>0, <1>3 DEF UnitAddress, ControlInv, MasterInCall, HeldBus
  <2>2. \/ Event("MT_SLA_ACK", "mt") \/ Event("MT_SLA_NACK", "mt")
        \/ Event("MR_SLA_ACK", "mr") \/ Event("MR_SLA_NACK", "mr")
        \/ Event("ARB_LOST", "none") \/ Event("SR_SLA_ACK", "sr") \/ Event("ST_SLA_ACK", "st")
    BY <1>3 DEF UnitAddress
  <2>3. StatusTells'
    BY <2>2 DEF Event, StatusTells
  <2>4. pc # "start"
    BY <2>1 DEF InMyCall
  <2> QED
    BY <2>1, <2>2, <2>3, <2>4, EventControl
<1>4. CASE UnitSend \/ UnitReceive
  <2>1. ~TWCR.TWINT /\ mode \in {"mt", "mr"} /\ ~TWCR.TWSTA
    BY <1>4 DEF UnitSend, UnitReceive
  <2>2. pc # "off" /\ ~twi_inRepStart /\ InMyCall
    BY <1>0, <2>1 DEF ControlInv, MasterInCall, HeldBus
  <2>3. \/ Event("MT_DATA_ACK", "mt") \/ Event("MT_DATA_NACK", "mt") \/ Event("ARB_LOST", "none")
        \/ Event("MR_DATA_ACK", "mr") \/ Event("MR_DATA_NACK", "mr")
    BY <1>4 DEF UnitSend, UnitReceive
  <2>4. StatusTells'
    BY <2>3 DEF Event, StatusTells
  <2>5. pc # "start"
    BY <2>2 DEF InMyCall
  <2> QED
    BY <2>1, <2>2, <2>3, <2>4, <2>5, EventControl
<1>5. CASE SlaveAddressed
  <2>1. ~TWCR.TWINT /\ mode = "none" /\ pc # "off" /\ ~twi_inRepStart
    BY <1>0, <1>5 DEF SlaveAddressed
  <2>2. Event("SR_SLA_ACK", "sr") \/ Event("ST_SLA_ACK", "st")
    BY <1>5 DEF SlaveAddressed
  <2>3. StatusTells'
    BY <2>2 DEF Event, StatusTells
  <2> QED
    BY <2>1, <2>2, <2>3, EventControl
<1>6. CASE SlaveByte \/ SlaveStop \/ SlaveSent
  <2>1. ~TWCR.TWINT /\ mode \in AsSlave /\ pc # "off" /\ ~twi_inRepStart /\ pc # "start"
    BY <1>0, <1>6 DEF SlaveByte, SlaveStop, SlaveSent, InWindow
  <2>2. \/ Event("SR_DATA_ACK", "sr") \/ Event("SR_DATA_NACK", "none") \/ Event("SR_STOP", "none")
        \/ Event("ST_DATA_ACK", "st") \/ Event("ST_LAST_DATA", "none") \/ Event("ST_DATA_NACK", "none")
    BY <1>6 DEF SlaveByte, SlaveStop, SlaveSent
  <2>3. StatusTells'
    BY <2>2 DEF Event, StatusTells
  <2> QED
    BY <2>1, <2>2, <2>3, EventControl
<1>7. CASE UnitBusError
  <2>1. /\ ~TWCR.TWINT /\ mode # "none" /\ pc # "off" /\ pc # "start"
        /\ mode \in {"mt", "mr"} => ~TWCR.TWSTA
        /\ Event("BUS_ERROR", mode)
    BY <1>0, <1>7 DEF UnitBusError, InWindow
  <2>2. ~twi_inRepStart
    BY <2>1 DEF ControlInv, HeldBus
  <2>3. mode \in AsMaster => InMyCall
    BY <2>2 DEF ControlInv, MasterInCall
  <2>4. StatusTells'
    BY <2>1 DEF Event, StatusTells
  <2>5. mode \in {"none"} \cup AsMaster \cup AsSlave
    BY DEF ControlInv, ControlTypes
  <2> HIDE DEF AsMaster, AsSlave
  <2> QED
    BY <2>1, <2>2, <2>3, <2>4, <2>5, EventControl
<1> QED
  BY <1>1, <1>2, <1>3, <1>4, <1>5, <1>6, <1>7 DEF Bus

------------------------------------------------------------------------------
(* What a reply of the handler does to control.                            *)
LEMMA ReplyControl ==
    ASSUME ControlInv, IrqPending, NEW ack \in BOOLEAN, TWCR' = twi_reply(ack),
           UNCHANGED <<pc, call, twi_inRepStart, twi_sendStop>>, twi_state' \in States,
           \/ UNCHANGED <<twi_state, mode>>
           \/ mode' = "none" /\ pc # "start"
           \/ mode \in AsSlave /\ mode' = mode
    PROVE  ControlInv'
<1>1. TWCR.TWINT /\ TWCR.TWIE /\ pc # "off" /\ ~twi_inRepStart
  BY DEF IrqPending, ControlInv, TurnedOff
<1>2. TWCR' \in Control /\ ~TWCR'.TWINT /\ ~TWCR'.TWSTA /\ TWCR'.TWIE
  BY ReplyIs
<1>3. mode' \in {"none"} \cup AsMaster \cup AsSlave
  BY DEF ControlInv, ControlTypes
<1>4. ControlTypes'
  BY <1>2, <1>3 DEF ControlInv, ControlTypes
<1>5. StatusTells' /\ TurnedOff' /\ HeldBus' /\ StartInCall'
  BY <1>1, <1>2 DEF StatusTells, TurnedOff, HeldBus, StartInCall
<1>6. MasterInCall'
  BY <1>1 DEF ControlInv, MasterInCall, InMyCall, Mine, AsMaster, AsSlave
<1>7. Claimed'
  BY <1>1, <1>2 DEF ControlInv, Claimed, Mine, AsSlave
<1> QED
  BY <1>4, <1>5, <1>6, <1>7 DEF ControlInv

(* The end of a transaction by FinishMaster.                               *)
LEMMA FinishControl ==
    ASSUME ControlInv, IrqPending, mode \in {"mt", "mr"}, FinishMaster,
           UNCHANGED <<pc, call, twi_sendStop>>
    PROVE  ControlInv'
<1>1. TWCR.TWINT /\ TWCR.TWIE /\ pc = "busy" /\ ~twi_inRepStart
  BY DEF IrqPending, ControlInv, TurnedOff, MasterInCall, InMyCall, AsMaster
<1>2. CASE twi_sendStop
  <2>1. TWCR' = twi_reply(TRUE) /\ mode' = "none" /\ twi_state' = "READY" /\ twi_inRepStart' = twi_inRepStart
    BY <1>2 DEF FinishMaster, twi_stop
  <2>2. twi_state' \in States /\ pc # "start" /\ TRUE \in BOOLEAN
    BY <1>1, <2>1 DEF States
  <2> QED
    BY <2>1, <2>2, ReplyControl
<1>3. CASE ~twi_sendStop
  <2>1. TWCR' = SendRepStart /\ mode' = mode /\ twi_state' = "READY" /\ twi_inRepStart' = TRUE
    BY <1>3 DEF FinishMaster
  <2>2. TWCR' \in Control /\ ~TWCR'.TWINT /\ TWCR'.TWSTA /\ ~TWCR'.TWIE
    BY <2>1, StartsAre
  <2>3. ControlTypes'
    BY <2>1, <2>2 DEF ControlInv, ControlTypes, States
  <2>4. StatusTells' /\ TurnedOff' /\ HeldBus' /\ StartInCall' /\ MasterInCall' /\ Claimed'
    BY <1>1, <2>1, <2>2 DEF StatusTells, TurnedOff, HeldBus, StartInCall, MasterInCall, Claimed
  <2> QED
    BY <2>3, <2>4 DEF ControlInv
<1> QED
  BY <1>2, <1>3

LEMMA IrqControl ==
    ASSUME ControlInv, TwiIrq
    PROVE  ControlInv'
<1>1. IrqPending /\ UNCHANGED <<pc, call, twi_sendStop>>
  BY DEF TwiIrq, IrqQuiet, IrqStart, IrqMtAck, IrqMtNack, IrqArbLost, IrqMrAck, IrqMrDataNack,
         IrqMrSlaNack, IrqSrSlaAck, IrqSrDataAck, IrqSrDataNack, IrqStDataAck, IrqStDone, IrqBusError,
         IrqSrStop, IrqStSlaAck, Irq, callVars, setupVars
<1>2. TWCR.TWINT /\ pc # "off" /\ ~twi_inRepStart /\ twi_state \in States
  BY <1>1 DEF IrqPending, ControlInv, ControlTypes, TurnedOff
<1>3. pc = "start" => TWSR \in {"SR_SLA_ACK", "ST_SLA_ACK"}
  BY <1>2 DEF ControlInv, Claimed
<1>4. "READY" \in States /\ "SRX" \in States /\ "STX" \in States /\ TRUE \in BOOLEAN /\ FALSE \in BOOLEAN
  BY DEF States
<1>5. CASE IrqStart \/ IrqSrDataNack
  <2>1. PICK ack \in BOOLEAN : TWCR' = twi_reply(ack)
    BY <1>5 DEF IrqStart, IrqSrDataNack
  <2>2. UNCHANGED <<twi_inRepStart, twi_state, mode>>
    BY <1>5 DEF IrqStart, IrqSrDataNack, stateVars, busVars
  <2> QED
    BY <1>1, <1>2, <2>1, <2>2, ReplyControl
<1>6. CASE IrqMrAck
  <2>1. (twi_masterBufferIndex' < twi_masterBufferLength) \in BOOLEAN
    OBVIOUS
  <2>2. TWCR' = twi_reply(twi_masterBufferIndex' < twi_masterBufferLength)
    BY <1>6 DEF IrqMrAck
  <2>3. UNCHANGED <<twi_inRepStart, twi_state, mode>>
    BY <1>6 DEF IrqMrAck, stateVars, busVars
  <2> QED
    BY <1>1, <1>2, <2>1, <2>2, <2>3, ReplyControl
<1>7. CASE IrqSrDataAck
  <2>1. (Len(rx) < BufferLength) \in BOOLEAN
    OBVIOUS
  <2>2. TWCR' = twi_reply(Len(rx) < BufferLength)
    BY <1>7 DEF IrqSrDataAck
  <2>3. UNCHANGED <<twi_inRepStart, twi_state, mode>>
    BY <1>7 DEF IrqSrDataAck, stateVars, busVars
  <2> QED
    BY <1>1, <1>2, <2>1, <2>2, <2>3, ReplyControl
<1>8. CASE IrqStDataAck
  <2>1. (twi_txBufferIndex + 1 < twi_txBufferLength) \in BOOLEAN
    OBVIOUS
  <2>2. TWCR' = twi_reply(twi_txBufferIndex + 1 < twi_txBufferLength)
    BY <1>8 DEF IrqStDataAck, LoadAnswer
  <2>3. UNCHANGED <<twi_inRepStart, twi_state, mode>>
    BY <1>8 DEF IrqStDataAck, stateVars, busVars
  <2> QED
    BY <1>1, <1>2, <2>1, <2>2, <2>3, ReplyControl
<1>9. CASE IrqMtAck
  <2>1. mode = "mt"
    BY <1>2, <1>9 DEF IrqMtAck, Irq, ControlInv, StatusTells
  <2>2. \/ TWCR' = twi_reply(TRUE) /\ UNCHANGED <<twi_state, twi_inRepStart, mode>>
        \/ FinishMaster
    BY <1>9 DEF IrqMtAck
  <2> QED
    BY <1>1, <1>2, <1>4, <2>1, <2>2, ReplyControl, FinishControl
<1>10. CASE IrqMrDataNack
  <2>1. mode = "mr" /\ FinishMaster
    BY <1>2, <1>10 DEF IrqMrDataNack, Irq, ControlInv, StatusTells
  <2> QED
    BY <1>1, <2>1, FinishControl
<1>11. CASE IrqMtNack \/ IrqMrSlaNack \/ IrqBusError
  <2>1. TWCR' = twi_reply(TRUE) /\ mode' = "none" /\ twi_state' = "READY" /\ UNCHANGED twi_inRepStart
    BY <1>11 DEF IrqMtNack, IrqMrSlaNack, IrqBusError, twi_stop
  <2>2. pc # "start"
    BY <1>3, <1>11 DEF IrqMtNack, IrqMrSlaNack, IrqBusError, Irq
  <2> QED
    BY <1>1, <1>4, <2>1, <2>2, ReplyControl
<1>12. CASE IrqArbLost \/ IrqSrStop \/ IrqStDone
  <2>1. TWCR' = twi_reply(TRUE) /\ twi_state' = "READY" /\ UNCHANGED <<mode, twi_inRepStart>>
    BY <1>12 DEF IrqArbLost, IrqSrStop, IrqStDone, twi_releaseBus, busVars
  <2>2. pc # "start" /\ mode = "none"
    BY <1>2, <1>3, <1>12 DEF IrqArbLost, IrqSrStop, IrqStDone, Irq, ControlInv, StatusTells
  <2> QED
    BY <1>1, <1>4, <2>1, <2>2, ReplyControl
<1>13. CASE IrqSrSlaAck
  <2>1. TWCR' = twi_reply(TRUE) /\ twi_state' = "SRX" /\ UNCHANGED <<mode, twi_inRepStart>>
    BY <1>13 DEF IrqSrSlaAck, busVars
  <2>2. mode \in AsSlave
    BY <1>2, <1>13 DEF IrqSrSlaAck, Irq, ControlInv, StatusTells, AsSlave
  <2> QED
    BY <1>1, <1>4, <2>1, <2>2, ReplyControl
<1>14. ASSUME NEW length \in Lengths \cup {0}, IrqStSlaAck(length)
       PROVE  ControlInv'
  <2> DEFINE n == IF length = 0 THEN 1 ELSE length
  <2>1. LoadAnswer(0, n) /\ twi_state' = "STX" /\ UNCHANGED <<mode, twi_inRepStart>>
    BY <1>14 DEF IrqStSlaAck, busVars
  <2> HIDE DEF n
  <2>2. TWCR' = twi_reply(0 + 1 < n) /\ (0 + 1 < n) \in BOOLEAN
    BY <2>1 DEF LoadAnswer
  <2>3. mode \in AsSlave
    BY <1>2, <1>14 DEF IrqStSlaAck, Irq, ControlInv, StatusTells, AsSlave
  <2> QED
    BY <1>1, <1>4, <2>1, <2>2, <2>3, ReplyControl
<1> QED
  BY <1>5, <1>6, <1>7, <1>8, <1>9, <1>10, <1>11, <1>12, <1>13, <1>14 DEF TwiIrq, IrqQuiet

------------------------------------------------------------------------------
(* The main line, which goes on only when no interrupt waits.              *)
LEMMA MainControl ==
    ASSUME ControlInv, MainLine
    PROVE  ControlInv'
<1> USE DEF AsMaster, AsSlave
<1>0. /\ TWCR \in Control
      /\ pc # "off" /\ ~IrqPending /\ ~twi_inRepStart => ~TWCR.TWINT
  BY DEF ControlInv, ControlTypes, TurnedOff, IrqPending
<1>1. CASE TwiReady \/ TwiDone
  <2>1. /\ \/ pc = "wait" /\ pc' = "claim"
           \/ pc = "busy" /\ pc' = "ret" /\ ~InMyCall
        /\ UNCHANGED <<call, driverVars, unitVars, busVars>>
    BY <1>1 DEF TwiReady, TwiDone, Step, callVars, InMyCall, Mine
  <2> QED
    BY <2>1 DEF ControlInv, ControlTypes, Places, StatusTells, TurnedOff, HeldBus, MasterInCall,
                StartInCall, Claimed, InMyCall, Mine, driverVars, stateVars, setupVars, unitVars, busVars
<1>2. CASE TwiReturn
  <2>1. /\ pc = "ret" /\ pc' = "idle" /\ call' = NoCall
        /\ UNCHANGED <<driverVars, unitVars, busVars>>
    BY <1>2 DEF TwiReturn, Step
  <2>2. call'.op = "write" /\ call'.stop \in BOOLEAN /\ call'.len \in 0 .. BufferLength
    BY <2>1, TwiAssumption DEF NoCall, TwiAssumption
  <2> QED
    BY <2>1, <2>2 DEF ControlInv, ControlTypes, Places, StatusTells, TurnedOff, HeldBus, MasterInCall,
                StartInCall, Claimed, InMyCall, driverVars, stateVars, setupVars, unitVars, busVars
<1>3. ASSUME NEW op \in {"read", "write"}, NEW msg, NEW len \in 0 .. BufferLength, NEW stop \in BOOLEAN,
             TwiCall(op, msg, len, stop)
      PROVE  ControlInv'
  <2>1. /\ pc = "idle" /\ pc' = "wait" /\ UNCHANGED <<driverVars, unitVars, busVars>>
        /\ call' = [op |-> op, msg |-> msg, len |-> len, stop |-> stop]
    BY <1>3 DEF TwiCall, Step
  <2>2. call'.op \in {"read", "write"} /\ call'.stop \in BOOLEAN /\ call'.len \in 0 .. BufferLength
    BY <2>1
  <2> QED
    BY <2>1, <2>2 DEF ControlInv, ControlTypes, Places, StatusTells, TurnedOff, HeldBus, MasterInCall,
                StartInCall, Claimed, InMyCall, driverVars, stateVars, setupVars, unitVars, busVars
<1>4. CASE AnyClaim
  <2>1. /\ pc = "claim" /\ pc' = "start" /\ ~IrqPending
        /\ twi_state' = Mine /\ twi_sendStop' = call.stop
        /\ UNCHANGED <<call, twi_inRepStart, TWCR, TWSR, mode>>
    BY <1>4 DEF AnyClaim, TwiClaim, Step, Mine, callVars, unitVars, busVars
  <2>2. Mine \in {"MRX", "MTX"} /\ Mine' = Mine
    BY <2>1 DEF Mine
  <2>3. ControlTypes'
    BY <2>1, <2>2 DEF ControlInv, ControlTypes, Places, States
  <2>4. StatusTells' /\ TurnedOff' /\ HeldBus' /\ MasterInCall' /\ StartInCall'
    BY <2>1, <2>2 DEF ControlInv, StatusTells, TurnedOff, HeldBus, MasterInCall, StartInCall, InMyCall
  <2>5. Claimed'
    BY <1>0, <2>1, <2>2 DEF Claimed
  <2> QED
    BY <2>3, <2>4, <2>5 DEF ControlInv
<1>5. CASE TwiStart
  <2>1. /\ pc = "start" /\ pc' = "busy" /\ ~IrqPending
        /\ TWCR' = IF twi_inRepStart THEN twi_reply(TRUE) ELSE SendSta
        /\ twi_inRepStart => TWCR.TWINT
        /\ ~twi_inRepStart' /\ twi_inRepStart' \in BOOLEAN
        /\ UNCHANGED <<call, twi_state, twi_sendStop, mode>>
    BY <1>5 DEF TwiStart, Step, callVars, setupVars, busVars
  <2>2. TWCR' \in Control /\ ~TWCR'.TWINT /\ TWCR'.TWIE
    BY <2>1, ReplyIs, StartsAre
  <2>3. Mine' = Mine /\ (twi_state = Mine \/ mode \in AsSlave) /\ (mode \in AsMaster => twi_inRepStart)
    BY <2>1 DEF Mine, ControlInv, Claimed, MasterInCall, InMyCall
  <2>4. InMyCall' \/ mode' \in AsSlave
    BY <2>1, <2>3 DEF InMyCall
  <2>5. ControlTypes'
    BY <2>1, <2>2 DEF ControlInv, ControlTypes, Places
  <2>6. StatusTells' /\ TurnedOff' /\ HeldBus' /\ StartInCall' /\ Claimed'
    BY <2>1, <2>2, <2>4 DEF StatusTells, TurnedOff, HeldBus, StartInCall, Claimed
  <2>7. MasterInCall'
    BY <2>1, <2>4 DEF MasterInCall
  <2> QED
    BY <2>5, <2>6, <2>7 DEF ControlInv
<1>6. CASE TwiInitAgain
  <2>1. /\ pc = "off" \/ (pc = "idle" /\ ~twi_inRepStart)
        /\ pc' = "idle"
        /\ twi_state' = "READY" /\ twi_sendStop' = TRUE /\ twi_inRepStart' = FALSE
        /\ TWCR' = twi_reply(TRUE) /\ UNCHANGED <<call, mode>>
    BY <1>6 DEF TwiInitAgain, Step, callVars, busVars
  <2>2. TWCR' \in Control /\ ~TWCR'.TWINT /\ ~TWCR'.TWSTA /\ TWCR'.TWIE
    BY <2>1, ReplyIs
  <2>3. pc' = "idle" /\ mode \notin AsMaster
    BY <1>6, <2>1 DEF TwiInitAgain, Step, ControlInv, MasterInCall, InMyCall, TurnedOff
  <2> QED
    BY <2>1, <2>2, <2>3 DEF ControlInv, ControlTypes, Places, States, StatusTells, TurnedOff, HeldBus,
                MasterInCall, StartInCall, Claimed
<1>7. CASE TwiDisable
  <2>1. /\ pc = "idle" /\ pc' = "off" /\ mode' = "none"
        /\ TWCR' = [twi_reply(FALSE) EXCEPT !.TWIE = FALSE]
        /\ UNCHANGED <<call, twi_state, twi_inRepStart, twi_sendStop>>
    BY <1>7 DEF TwiDisable, Step, callVars, driverVars, stateVars, setupVars
  <2>2. TWCR' \in Control /\ ~TWCR'.TWINT /\ ~TWCR'.TWSTA /\ ~TWCR'.TWIE /\ ~TWCR'.TWEA
    BY <2>1 DEF twi_reply, Control
  <2> QED
    BY <2>1, <2>2 DEF ControlInv, ControlTypes, Places, StatusTells, TurnedOff, HeldBus,
                MasterInCall, StartInCall, Claimed
<1> QED
  BY <1>1, <1>2, <1>3, <1>4, <1>5, <1>6, <1>7 DEF MainLine, AnyCall

LEMMA ControlStep ==
    ASSUME ~HeldUp, ControlInv, [AnyStep]_twiVars
    PROVE  ControlInv'
<1>1. CASE UNCHANGED twiVars
  BY <1>1 DEF twiVars, callVars, driverVars, stateVars, setupVars, unitVars, busVars, ControlInv,
              ControlTypes, StatusTells, TurnedOff, HeldBus, MasterInCall, StartInCall, Claimed, InMyCall, Mine
<1> QED
  BY <1>1, BusControl, IrqControl, MainControl DEF AnyStep

LEMMA ControlStart == TwiInit => ControlInv
<1> SUFFICES ASSUME TwiInit PROVE ControlInv
  OBVIOUS
<1>1. /\ TWCR \in Control /\ ~TWCR.TWINT /\ ~TWCR.TWSTA /\ TWCR.TWIE
  BY ReplyIs DEF TwiInit
<1>2. call.op = "write" /\ call.stop \in BOOLEAN /\ call.len \in 0 .. BufferLength
  BY TwiAssumption DEF TwiInit, NoCall, TwiAssumption
<1> QED
  BY <1>1, <1>2 DEF TwiInit, ControlInv, ControlTypes, Places, States, AsMaster, AsSlave, StatusTells,
              TurnedOff, HeldBus, MasterInCall, StartInCall, Claimed

------------------------------------------------------------------------------
(* The types: what a byte of the bus or of the caller is, and a sequence   *)
(* that grows by one.                                                      *)
LEMMA BytesAre ==
    ASSUME NEW m \in Message \cup {AnyMessage}, NEW n \in Int
    PROVE  Nth(m, n) \in AnyByte /\ ForeignByte(n) \in AnyByte
BY DEF Nth, ForeignByte, AnyByte

LEMMA Grown ==
    ASSUME NEW s \in Seq(AnyByte), NEW b \in AnyByte
    PROVE  /\ <<>> \in Seq(AnyByte) /\ Len(<<>>) = 0
           /\ Append(s, b) \in Seq(AnyByte) /\ Len(s) \in Nat
           /\ Len(Append(s, b)) = Len(s) + 1 /\ Append(s, b)[Len(s) + 1] = b
           /\ \A k \in 1 .. Len(s) : Append(s, b)[k] = s[k]
BY EmptySeq, LenProperties, AppendProperties

LEMMA TypesStart == TwiInit => ReadTypes
<1> SUFFICES ASSUME TwiInit PROVE ReadTypes
  OBVIOUS
<1>1. Junk \in AnyByte
  BY BytesAre DEF Junk, ForeignByte, Nth, AnyByte
<1>2. twi_masterBuffer \in [Slot -> AnyByte] /\ TWDR \in AnyByte
  BY <1>1 DEF TwiInit
<1> QED
  BY <1>2 DEF TwiInit, ReadTypes, NoCall

LEMMA BusTypes ==
    ASSUME ReadTypes, Bus
    PROVE  ReadTypes'
<1>1. CASE ForeignStart \/ ForeignStop
  BY <1>1 DEF ForeignStart, ForeignStop, ReadTypes, callVars, driverVars, setupVars, bufferVars,
              masterVars, slaveVars, unitVars, wireVars
<1>2. ASSUME UNCHANGED <<callVars, driverVars>>, TWDR' \in AnyByte,
             answered' \in Seq(AnyByte), got' \in Seq(AnyByte)
      PROVE  ReadTypes'
  BY <1>2 DEF ReadTypes, callVars, driverVars, setupVars, bufferVars, masterVars, slaveVars
<1>3. CASE UnitStart \/ UnitSend \/ SlaveAddressed \/ SlaveStop \/ SlaveSent \/ UnitBusError \/ UnitAddress
  <2>1. UNCHANGED <<callVars, driverVars>>
    BY <1>3 DEF UnitStart, UnitSend, SlaveAddressed, SlaveStop, SlaveSent, UnitBusError, UnitAddress, Event
  <2>2. TWDR' = TWDR /\ answered' = answered /\ (got' = got \/ got' = <<>>)
    BY <1>3 DEF UnitStart, UnitSend, SlaveAddressed, SlaveStop, SlaveSent, UnitBusError, UnitAddress, wireVars
  <2>3. TWDR' \in AnyByte /\ answered' \in Seq(AnyByte) /\ got' \in Seq(AnyByte)
    BY <2>2, EmptySeq DEF ReadTypes
  <2> QED
    BY <1>2, <2>1, <2>3
<1>4. CASE UnitReceive
  <2>1. /\ TWDR' = Nth(call.msg, Len(answered) + 1) /\ answered' = Append(answered, TWDR') /\ got' = got
        /\ UNCHANGED <<callVars, driverVars>>
    BY <1>4 DEF UnitReceive, Event
  <2>2. Len(answered) + 1 \in Int
    BY LenProperties DEF ReadTypes
  <2>3. TWDR' \in AnyByte
    BY <2>1, <2>2, BytesAre DEF ReadTypes
  <2>4. answered' \in Seq(AnyByte) /\ got' \in Seq(AnyByte)
    BY <2>1, <2>3, Grown DEF ReadTypes
  <2> QED
    BY <1>2, <2>1, <2>3, <2>4
<1>5. CASE SlaveByte
  <2>1. /\ TWDR' = ForeignByte(Len(got) + 1) /\ answered' = answered
        /\ got' = Append(got, TWDR') \/ got' = got
        /\ UNCHANGED <<callVars, driverVars>>
    BY <1>5 DEF SlaveByte, Event
  <2>2. Len(got) + 1 \in Int
    BY LenProperties DEF ReadTypes
  <2>3. TWDR' \in AnyByte
    BY <2>1, <2>2, BytesAre DEF ReadTypes
  <2>4. got' \in Seq(AnyByte) /\ answered' \in Seq(AnyByte)
    BY <2>1, <2>3, Grown DEF ReadTypes
  <2> QED
    BY <1>2, <2>1, <2>3, <2>4
<1> QED
  BY <1>1, <1>3, <1>4, <1>5 DEF Bus

(* A byte to send is one of the message: the length is that of the call.   *)
LEMMA IrqTypes ==
    ASSUME ControlInv, ReadTypes, Direction, TwiIrq
    PROVE  ReadTypes'
<1>1. /\ TWCR.TWINT /\ ~twi_inRepStart
      /\ (got' = got \/ got' = <<>>) /\ UNCHANGED <<call, twi_slarw, answered>>
  BY DEF TwiIrq, IrqQuiet, IrqStart, IrqMtAck, IrqMtNack, IrqArbLost, IrqMrAck, IrqMrDataNack,
         IrqMrSlaNack, IrqSrSlaAck, IrqSrDataAck, IrqSrDataNack, IrqStDataAck, IrqStDone, IrqBusError,
         IrqSrStop, IrqStSlaAck, Irq, callVars, setupVars, IrqPending, ControlInv, TurnedOff
<1>0. got' \in Seq(AnyByte)
  BY <1>1, EmptySeq DEF ReadTypes
<1>2. ASSUME UNCHANGED masterVars, TWDR' = TWDR, rx' \in Seq(AnyByte)
      PROVE  ReadTypes'
  BY <1>0, <1>1, <1>2 DEF ReadTypes, masterVars
<1>3. CASE IrqStart \/ IrqMtNack \/ IrqArbLost \/ IrqMrSlaNack \/ IrqSrDataNack \/ IrqStDataAck
           \/ IrqStDone \/ IrqBusError \/ \E length \in Lengths \cup {0} : IrqStSlaAck(length)
  <2>1. UNCHANGED <<masterVars, TWDR, rx>>
    BY <1>3 DEF IrqStart, IrqMtNack, IrqArbLost, IrqMrSlaNack, IrqSrDataNack, IrqStDataAck, IrqStDone,
                IrqBusError, IrqStSlaAck, bufferVars, slaveVars, LoadAnswer
  <2> QED
    BY <1>2, <2>1 DEF ReadTypes
<1>4. CASE IrqSrSlaAck \/ IrqSrStop \/ IrqSrDataAck
  <2>1. UNCHANGED <<masterVars, TWDR>> /\ (rx' = rx \/ rx' = <<>> \/ rx' = Append(rx, TWDR))
    BY <1>4 DEF IrqSrSlaAck, IrqSrStop, IrqSrDataAck
  <2>2. rx' \in Seq(AnyByte)
    BY <2>1, Grown DEF ReadTypes
  <2> QED
    BY <1>2, <2>1, <2>2
<1>5. ASSUME StoreReceived, UNCHANGED <<rx, TWDR>>
      PROVE  ReadTypes'
  <2>1. twi_masterBuffer' \in [Slot -> AnyByte]
    BY <1>5 DEF StoreReceived, ReadTypes
  <2>2. twi_masterBufferIndex' \in Nat /\ twi_masterBufferLength' = twi_masterBufferLength
    BY <1>5 DEF StoreReceived, ReadTypes
  <2> QED
    BY <1>0, <1>1, <1>5, <2>1, <2>2 DEF ReadTypes
<1>6. CASE IrqMrAck
  BY <1>2, <1>5, <1>6 DEF IrqMrAck, slaveVars, ReadTypes
<1>7. CASE IrqMrDataNack
  BY <1>5, <1>7 DEF IrqMrDataNack, slaveVars
<1>8. CASE IrqMtAck
  <2>1. /\ \/ /\ twi_masterBufferIndex < twi_masterBufferLength
              /\ TWDR' = twi_masterBuffer[twi_masterBufferIndex]
              /\ twi_masterBufferIndex' = twi_masterBufferIndex + 1
           \/ UNCHANGED <<TWDR, twi_masterBufferIndex>>
        /\ UNCHANGED <<twi_masterBuffer, twi_masterBufferLength, rx>>
    BY <1>8 DEF IrqMtAck, slaveVars
  <2>2. mode = "mt"
    BY <1>1, <1>8 DEF IrqMtAck, Irq, ControlInv, StatusTells
  <2>3. twi_masterBufferLength = call.len /\ call.len \in 0 .. BufferLength
    BY <1>1, <2>2 DEF ControlInv, ControlTypes, MasterInCall, InMyCall, AsMaster, Direction
  <2>4. TWDR' \in AnyByte /\ twi_masterBufferIndex' \in Nat
    BY <2>1, <2>3, TwiAssumption DEF ReadTypes, Slot, TwiAssumption
  <2> QED
    BY <1>0, <1>1, <2>1, <2>4 DEF ReadTypes
<1> QED
  BY <1>3, <1>4, <1>6, <1>7, <1>8 DEF TwiIrq, IrqQuiet

LEMMA MainTypes ==
    ASSUME ControlInv, ReadTypes, MainLine
    PROVE  ReadTypes'
<1>1. CASE TwiReady \/ TwiStart \/ TwiDone \/ TwiInitAgain \/ TwiDisable
  <2>1. UNCHANGED <<call, twi_slarw, bufferVars, TWDR, answered, got>>
    BY <1>1 DEF TwiReady, TwiStart, TwiDone, TwiInitAgain, TwiDisable, callVars, driverVars, setupVars,
                unitVars, wireVars
  <2> QED
    BY <2>1 DEF ReadTypes, bufferVars, masterVars, slaveVars
<1>2. CASE TwiReturn \/ AnyCall
  <2>1. /\ call'.msg \in Message \cup {AnyMessage} /\ (answered' = answered \/ answered' = <<>>)
        /\ UNCHANGED <<driverVars, unitVars, got>>
    BY <1>2 DEF TwiReturn, AnyCall, TwiCall, NoCall, wireVars
  <2>2. answered' \in Seq(AnyByte)
    BY <2>1, EmptySeq DEF ReadTypes
  <2> QED
    BY <2>1, <2>2 DEF ReadTypes, driverVars, setupVars, bufferVars, masterVars, slaveVars, unitVars
<1>3. ASSUME NEW data, \A k \in 1 .. call.len : data[k] \in AnyByte, TwiClaim(data)
      PROVE  ReadTypes'
  <2>1. /\ twi_slarw' = call.op /\ twi_masterBufferIndex' = 0 /\ answered' = <<>>
        /\ twi_masterBufferLength' = (call.len - 1) % 256 \/ twi_masterBufferLength' = call.len
        /\ twi_masterBuffer' \in {twi_masterBuffer,
               [k \in Slot |-> IF k < call.len THEN data[k + 1] ELSE twi_masterBuffer[k]]}
        /\ UNCHANGED <<call, slaveVars, TWDR, got>>
    BY <1>3 DEF TwiClaim, twi_readLength, callVars, unitVars
  <2>2. call.len \in 0 .. 255 /\ call.op \in {"read", "write"}
    BY TwiAssumption DEF TwiAssumption, ControlInv, ControlTypes
  <2>3. ASSUME NEW k \in Slot, k < call.len
        PROVE  data[k + 1] \in AnyByte
    <3>1. k + 1 \in 1 .. call.len
      BY <2>2, <2>3 DEF Slot
    <3> QED
      BY <1>3, <3>1
  <2>4. twi_masterBuffer' \in [Slot -> AnyByte]
    BY <2>1, <2>3 DEF ReadTypes
  <2>5. twi_masterBufferLength' \in 0 .. 255
    <3>1. \A n \in Int : n % 256 \in 0 .. 255
      OBVIOUS
    <3>2. call.len - 1 \in Int
      BY <2>2
    <3>3. (call.len - 1) % 256 \in 0 .. 255
      BY <3>1, <3>2
    <3> QED
      BY <2>1, <2>2, <3>3
  <2> QED
    BY <2>1, <2>2, <2>4, <2>5 DEF ReadTypes, slaveVars
<1> QED
  BY <1>1, <1>2, <1>3 DEF MainLine, AnyClaim

------------------------------------------------------------------------------
(* The direction of the transfer is that of the call that waits for it.    *)
LEMMA DirectionStep ==
    ASSUME ControlInv, Direction, ReadTypes, AnyStep
    PROVE  Direction'
<1>0. /\ mode \in AsMaster => (twi_inRepStart /\ mode # "none") \/ pc = "busy"
      /\ twi_inRepStart /\ pc # "off" => mode = "address" \/ TWCR.TWSTA
      /\ TWCR.TWIE => ~twi_inRepStart
      /\ pc = "off" => mode = "none"
  BY DEF ControlInv, MasterInCall, InMyCall, HeldBus, TurnedOff, AsMaster
<1>1. ASSUME UNCHANGED <<pc, call, driverVars>>,
             mode' \in {"mt", "mr"} /\ mode' # mode =>
                /\ ~twi_inRepStart => pc \in {"start", "busy"}
                /\ twi_slarw = (IF mode' = "mt" THEN "write" ELSE "read")
      PROVE  Direction'
  BY <1>1 DEF Direction, driverVars, stateVars, setupVars, bufferVars, masterVars
<1>2. CASE UnitAddress
  <2>1. /\ mode = "address" /\ UNCHANGED <<pc, call, driverVars>>
        /\ mode' = "mt" => twi_slarw = "write"
        /\ mode' = "mr" => twi_slarw = "read"
    BY <1>2 DEF UnitAddress, Event, callVars
  <2>2. ~twi_inRepStart => pc = "busy"
    BY <1>0, <2>1 DEF AsMaster
  <2> QED
    BY <1>1, <2>1, <2>2
<1>3. CASE Bus /\ ~UnitAddress
  <2>1. UNCHANGED <<pc, call, driverVars>> /\ (mode' = mode \/ mode' \notin {"mt", "mr"})
    BY <1>3 DEF Bus, ForeignStart, ForeignStop, UnitStart, UnitSend, UnitReceive, SlaveAddressed, SlaveByte,
                SlaveStop, SlaveSent, UnitBusError, Event, callVars
  <2> QED
    BY <1>1, <2>1
<1>4. CASE TwiIrq
  <2>1. UNCHANGED <<pc, call, twi_slarw>> /\ IrqPending
    BY <1>4 DEF TwiIrq, IrqQuiet, IrqStart, IrqMtAck, IrqMtNack, IrqArbLost, IrqMrAck, IrqMrDataNack,
         IrqMrSlaNack, IrqSrSlaAck, IrqSrDataAck, IrqSrDataNack, IrqStDataAck, IrqStDone, IrqBusError,
         IrqSrStop, IrqStSlaAck, Irq, callVars, setupVars
  <2>2. mode' = mode \/ mode' = "none"
    BY <1>4 DEF TwiIrq, IrqQuiet, IrqStart, IrqMtAck, IrqMtNack, IrqArbLost, IrqMrAck, IrqMrDataNack,
         IrqMrSlaNack, IrqSrSlaAck, IrqSrDataAck, IrqSrDataNack, IrqStDataAck, IrqStDone, IrqBusError,
         IrqSrStop, IrqStSlaAck, busVars, FinishMaster, twi_stop, twi_releaseBus
  <2>3. twi_masterBufferLength' = twi_masterBufferLength
    BY <1>4 DEF TwiIrq, IrqQuiet, IrqStart, IrqMtAck, IrqMtNack, IrqArbLost, IrqMrAck, IrqMrDataNack,
         IrqMrSlaNack, IrqSrSlaAck, IrqSrDataAck, IrqSrDataNack, IrqStDataAck, IrqStDone, IrqBusError,
         IrqSrStop, IrqStSlaAck, bufferVars, masterVars, StoreReceived
  <2>4. ~twi_inRepStart
    BY <1>0, <2>1 DEF IrqPending
  <2> QED
    BY <2>1, <2>2, <2>3, <2>4 DEF Direction
<1>5. CASE TwiReady \/ TwiDone
  <2>1. /\ pc' \in {"claim", "ret"}
        /\ UNCHANGED <<call, twi_slarw, twi_inRepStart, mode>>
    BY <1>5 DEF TwiReady, TwiDone, Step, callVars, driverVars, stateVars, setupVars, busVars
  <2> QED
    BY <2>1 DEF Direction
<1>6. CASE AnyClaim
  <2>1. /\ twi_slarw' = call.op /\ (call.op # "read" => twi_masterBufferLength' = call.len)
        /\ UNCHANGED <<call, twi_inRepStart, mode>>
    BY <1>6 DEF AnyClaim, TwiClaim, callVars, busVars
  <2> QED
    BY <2>1 DEF Direction
<1>7. CASE TwiStart
  <2>1. /\ pc = "start" /\ (twi_inRepStart => TWCR.TWINT)
        /\ UNCHANGED <<call, twi_slarw, twi_masterBufferLength, mode>>
    BY <1>7 DEF TwiStart, Step, callVars, setupVars, bufferVars, masterVars, busVars
  <2>2. mode \notin {"mt", "mr"}
    BY <1>0, <2>1 DEF ControlInv, MasterInCall, InMyCall, HeldBus, AsMaster
  <2> QED
    BY <2>1, <2>2 DEF Direction
<1>8. CASE TwiReturn \/ TwiInitAgain \/ TwiDisable \/ AnyCall
  <2>1. /\ pc \in {"ret", "idle", "off"} /\ pc' \in {"idle", "wait", "off"}
        /\ mode' = "none" \/ (mode' = mode /\ (twi_inRepStart' = twi_inRepStart \/ ~twi_inRepStart \/ pc = "off"))
    BY <1>8 DEF TwiReturn, AnyCall, TwiCall, TwiInitAgain, TwiDisable, Step, driverVars, stateVars, busVars
  <2> QED
    BY <1>0, <2>1 DEF Direction, AsMaster
<1> QED
  BY <1>2, <1>3, <1>4, <1>5, <1>6, <1>7, <1>8 DEF AnyStep, MainLine

------------------------------------------------------------------------------
(* Steps that leave the buffer and what the slave sent alone.              *)
LEMMA Untouched ==
    ASSUME Counted, Copied, UNCHANGED <<call, masterVars, answered>>, Reading' => Reading,
           Reading' => ~ByteWaits /\ ~ByteWaits'
    PROVE  Counted' /\ Copied'
<1>1. UNCHANGED <<twi_masterBuffer, twi_masterBufferIndex, twi_masterBufferLength>>
  BY DEF masterVars
<1> HIDE DEF Reading, ByteWaits
<1> QED
  BY <1>1 DEF Counted, Copied

LEMMA EventRead ==
    ASSUME ControlInv, ReadInv, ~TWCR.TWINT, NEW status, NEW next, Event(status, next),
           UNCHANGED answered, status \notin {"MR_DATA_ACK", "MR_DATA_NACK"},
           next \in {"address", "mr"} =>
              mode \in {"address", "mr"} \/ TWCR.TWSTA \/ ~Reading \/ pc # "busy"
    PROVE  Counted' /\ Copied' /\ Room' /\ Answer'
<1>1. /\ TWCR'.TWINT /\ TWCR'.TWSTA = TWCR.TWSTA /\ TWSR' = status /\ mode' = next
      /\ UNCHANGED <<pc, call, ret, driverVars>>
  BY EventIs DEF ControlInv, ControlTypes
<1>2. UNCHANGED <<masterVars, twi_masterBufferIndex, twi_inRepStart>>
  BY <1>1 DEF driverVars, bufferVars, masterVars, stateVars
<1>3. Reading' = Reading
  BY <1>1 DEF Reading
<1>4. ~ByteWaits /\ ~ByteWaits'
  BY <1>1 DEF ByteWaits, Waits
<1>5. Counted' /\ Copied'
  BY <1>1, <1>2, <1>3, <1>4, Untouched DEF ReadInv
<1>6. Room'
  <2> SUFFICES ASSUME Reading' PROVE Room'
    BY DEF Room
  <2>1. call.len > 0 /\ Reading
    BY <1>3 DEF Reading
  <2>2. pc = "busy" /\ ~twi_inRepStart /\ mode' \in {"address", "mr"} => twi_masterBufferIndex < call.len
    BY <1>1, <2>1 DEF ReadInv, Room, InRead
  <2> QED
    BY <1>1, <1>2, <2>1, <2>2 DEF ReadInv, Room, InRead, Waits
<1>7. Answer'
  BY <1>1, <1>2 DEF ReadInv, Answer
<1> QED
  BY <1>5, <1>6, <1>7

(* The byte that comes in is counted, and waits for the handler.           *)
LEMMA ReceiveRead ==
    ASSUME ControlInv, ReadInv, UnitReceive
    PROVE  Counted' /\ Copied' /\ Room' /\ Answer'
<1> DEFINE status == IF TWCR.TWEA THEN "MR_DATA_ACK" ELSE "MR_DATA_NACK"
<1>0. Event(status, "mr") /\ ~TWCR.TWINT /\ ~TWCR.TWSTA /\ mode = "mr"
  BY DEF UnitReceive
<1> HIDE DEF status
<1>1. /\ TWCR'.TWINT /\ TWCR'.TWSTA = TWCR.TWSTA /\ TWCR'.TWEA = TWCR.TWEA
      /\ TWSR' = status /\ mode' = "mr"
      /\ UNCHANGED <<pc, call, ret, driverVars>>
  BY <1>0, EventIs DEF ControlInv, ControlTypes
<1>2. UNCHANGED <<twi_masterBuffer, twi_masterBufferIndex, twi_masterBufferLength, twi_inRepStart>>
  BY <1>1 DEF driverVars, bufferVars, masterVars, stateVars
<1>3. pc = "busy" /\ ~twi_inRepStart
  BY <1>0 DEF ControlInv, MasterInCall, InMyCall, HeldBus, TurnedOff, AsMaster
<1>4. answered' = Append(answered, TWDR') /\ TWDR' = Nth(call.msg, Len(answered) + 1)
  BY DEF UnitReceive
<1>5. Len(answered) \in Nat /\ TWDR' \in AnyByte
  BY <1>4, LenProperties, BytesAre DEF ReadInv, ReadTypes
<1>6. /\ Len(answered') = Len(answered) + 1 /\ answered'[Len(answered) + 1] = TWDR'
      /\ \A k \in 1 .. Len(answered) : answered'[k] = answered[k]
  BY <1>4, <1>5, Grown DEF ReadInv, ReadTypes
<1>7. InRead /\ InRead' /\ ByteWaits' /\ ~ByteWaits /\ Reading' = Reading
  BY <1>0, <1>1, <1>2, <1>3 DEF InRead, ByteWaits, Waits, status, Reading
<1>8. Waits("MR_DATA_ACK")' => TWCR.TWEA
  BY <1>1 DEF Waits, status
<1>9. Reading => /\ Len(answered) = twi_masterBufferIndex /\ twi_masterBufferLength = call.len - 1
                 /\ twi_masterBufferIndex < call.len
                 /\ TWCR.TWEA => twi_masterBufferIndex < call.len - 1
  BY <1>0, <1>7 DEF ReadInv, Counted, Room
<1>10. Counted'
  BY <1>1, <1>2, <1>6, <1>7, <1>9 DEF ReadInv, Counted
<1>11. Copied'
  BY <1>1, <1>2, <1>6, <1>7, <1>9 DEF ReadInv, Copied
<1>12. Room'
  BY <1>0, <1>1, <1>2, <1>3, <1>7, <1>8, <1>9 DEF Room
<1>13. Answer'
  BY <1>1, <1>3 DEF Answer
<1> QED
  BY <1>10, <1>11, <1>12, <1>13

LEMMA BusRead ==
    ASSUME ControlInv, ReadInv, Bus
    PROVE  Counted' /\ Copied' /\ Room' /\ Answer'
<1>1. CASE ForeignStart \/ ForeignStop
  <2>1. UNCHANGED <<pc, call, ret, driverVars, unitVars, mode, wireVars>>
    BY <1>1 DEF ForeignStart, ForeignStop, callVars
  <2>2. UNCHANGED <<twi_masterBuffer, twi_masterBufferIndex, twi_masterBufferLength, twi_inRepStart,
                    TWCR, TWSR, TWDR, answered>>
    BY <2>1 DEF driverVars, bufferVars, masterVars, stateVars, unitVars, wireVars
  <2>3. Reading' = Reading /\ InRead' = InRead /\ ByteWaits' = ByteWaits
    BY <2>1, <2>2 DEF Reading, InRead, ByteWaits, Waits
  <2>4. Counted' /\ Copied'
    BY <2>1, <2>2, <2>3 DEF ReadInv, Counted, Copied
  <2>5. Room' /\ Answer'
    BY <2>1, <2>2, <2>3 DEF ReadInv, Room, Answer, Waits
  <2> QED
    BY <2>4, <2>5
<1>2. CASE UnitStart
  <2>1. /\ ~TWCR.TWINT /\ TWCR.TWSTA /\ UNCHANGED answered
        /\ Event("START", "address") \/ Event("REP_START", "address")
    BY <1>2 DEF UnitStart, wireVars
  <2> QED
    BY <2>1, EventRead
<1>3. CASE UnitAddress
  <2>1. /\ ~TWCR.TWINT /\ mode = "address" /\ UNCHANGED answered
        /\ \/ Event("MT_SLA_ACK", "mt") \/ Event("MT_SLA_NACK", "mt")
           \/ Event("MR_SLA_ACK", "mr") \/ Event("MR_SLA_NACK", "mr")
           \/ Event("ARB_LOST", "none") \/ Event("SR_SLA_ACK", "sr") \/ Event("ST_SLA_ACK", "st")
    BY <1>3 DEF UnitAddress
  <2> QED
    BY <2>1, EventRead
<1>4. CASE UnitSend
  <2>1. /\ ~TWCR.TWINT /\ UNCHANGED answered
        /\ Event("MT_DATA_ACK", "mt") \/ Event("MT_DATA_NACK", "mt") \/ Event("ARB_LOST", "none")
    BY <1>4 DEF UnitSend
  <2> QED
    BY <2>1, EventRead
<1>5. CASE SlaveAddressed \/ SlaveByte \/ SlaveStop \/ SlaveSent
  <2>1. ~TWCR.TWINT /\ UNCHANGED answered
    BY <1>5 DEF SlaveAddressed, SlaveByte, SlaveStop, SlaveSent, wireVars
  <2>2. \/ Event("SR_SLA_ACK", "sr") \/ Event("ST_SLA_ACK", "st")
        \/ Event("SR_DATA_ACK", "sr") \/ Event("SR_DATA_NACK", "none") \/ Event("SR_STOP", "none")
        \/ Event("ST_DATA_ACK", "st") \/ Event("ST_LAST_DATA", "none") \/ Event("ST_DATA_NACK", "none")
    BY <1>5 DEF SlaveAddressed, SlaveByte, SlaveStop, SlaveSent
  <2> QED
    BY <2>1, <2>2, EventRead
<1>6. CASE UnitBusError
  <2>1. ~TWCR.TWINT /\ UNCHANGED answered /\ Event("BUS_ERROR", mode)
    BY <1>6 DEF UnitBusError, wireVars
  <2> QED
    BY <2>1, EventRead
<1> QED
  BY <1>1, <1>2, <1>3, <1>4, <1>5, <1>6, ReceiveRead DEF Bus

(* The handler, but where it takes a byte of the slave.                    *)
LEMMA HandlerRead ==
    ASSUME ControlInv, ReadInv, IrqPending, UNCHANGED <<pc, call, ret, masterVars, answered>>,
           TWSR \notin {"MR_DATA_ACK", "MR_DATA_NACK"}, ~TWCR'.TWINT, ~TWCR'.TWSTA \/ twi_inRepStart',
           mode' \in {mode, "none"} \/ twi_inRepStart', mode' = "mr" => twi_inRepStart'
    PROVE  Counted' /\ Copied' /\ Room' /\ Answer'
<1>1. ~twi_inRepStart
  BY DEF IrqPending, ControlInv, TurnedOff
<1>2. Reading' = Reading /\ ~ByteWaits /\ ~ByteWaits' /\ ~InRead'
  BY DEF Reading, ByteWaits, Waits, InRead
<1>3. Counted' /\ Copied'
  BY <1>2, Untouched DEF ReadInv
<1>4. UNCHANGED twi_masterBufferIndex
  BY DEF masterVars
<1>5. Room'
  BY <1>1, <1>2, <1>4 DEF ReadInv, Room
<1>6. Answer'
  BY <1>4 DEF ReadInv, Answer
<1> QED
  BY <1>3, <1>5, <1>6

(* The byte that waits goes to its place in the buffer.                    *)
LEMMA StoreRead ==
    ASSUME ControlInv, ReadInv, ByteWaits, Reading, StoreReceived, UNCHANGED <<pc, call, answered>>,
           ~TWCR'.TWINT
    PROVE  /\ Counted' /\ Copied' /\ Reading'
           /\ twi_masterBufferIndex' = twi_masterBufferIndex + 1 /\ twi_masterBufferIndex < call.len
<1>1. pc = "busy" /\ mode = "mr" /\ InRead /\ Reading' /\ ~ByteWaits'
  BY DEF ByteWaits, InRead, Reading, Waits
<1>2. /\ Len(answered) = twi_masterBufferIndex + 1 /\ answered[Len(answered)] = TWDR
      /\ twi_masterBufferIndex < call.len /\ twi_masterBufferLength = call.len - 1
  BY <1>1 DEF ReadInv, Counted, Room
<1>3. twi_masterBufferIndex \in Nat /\ call.len \in 0 .. BufferLength /\ BufferLength \in 1 .. 255
  BY TwiAssumption DEF TwiAssumption, ReadInv, ReadTypes, ControlInv, ControlTypes
<1>4. twi_masterBufferIndex \in Slot /\ (twi_masterBufferIndex + 1) % 256 = twi_masterBufferIndex + 1
  BY <1>2, <1>3 DEF Slot
<1>5. /\ twi_masterBufferIndex' = twi_masterBufferIndex + 1 /\ UNCHANGED twi_masterBufferLength
      /\ twi_masterBuffer' = [twi_masterBuffer EXCEPT ![twi_masterBufferIndex] = TWDR]
  BY <1>4 DEF StoreReceived
<1>6. Counted'
  BY <1>1, <1>2, <1>3, <1>5 DEF Counted
<1>7. ASSUME NEW k \in 1 .. twi_masterBufferIndex + 1
      PROVE  twi_masterBuffer'[k - 1] = answered[k]
  <2>1. k - 1 \in Slot /\ twi_masterBuffer \in [Slot -> AnyByte]
    BY <1>2, <1>3, <1>7 DEF Slot, ReadInv, ReadTypes
  <2>2. CASE k = twi_masterBufferIndex + 1
    BY <1>2, <1>3, <1>5, <2>1, <2>2
  <2>3. CASE k # twi_masterBufferIndex + 1
    <3>1. k \in 1 .. twi_masterBufferIndex /\ k - 1 # twi_masterBufferIndex
      BY <1>3, <1>7, <2>3
    <3> QED
      BY <1>5, <2>1, <3>1 DEF ReadInv, Copied
  <2> QED
    BY <2>2, <2>3
<1>8. Copied'
  BY <1>5, <1>7 DEF Copied
<1> QED
  BY <1>1, <1>2, <1>5, <1>6, <1>8

(* The acknowledge for the next byte is given if there is room for one     *)
(* more after it.                                                          *)
LEMMA MrAckRead ==
    ASSUME ControlInv, ReadInv, IrqMrAck
    PROVE  Counted' /\ Copied' /\ Room' /\ Answer'
<1>1. /\ IrqPending /\ TWSR \in {"MR_SLA_ACK", "MR_DATA_ACK"}
      /\ UNCHANGED <<pc, call, answered, mode, twi_inRepStart>>
      /\ TWCR' = twi_reply(twi_masterBufferIndex' < twi_masterBufferLength)
      /\ IF TWSR = "MR_DATA_ACK" THEN StoreReceived ELSE UNCHANGED masterVars
  BY DEF IrqMrAck, Irq, callVars, stateVars, busVars
<1>2. TWCR.TWINT /\ mode = "mr" /\ pc = "busy" /\ ~twi_inRepStart
  BY <1>1 DEF IrqPending, ControlInv, StatusTells, TurnedOff, MasterInCall, InMyCall, AsMaster
<1>3. (twi_masterBufferIndex' < twi_masterBufferLength) \in BOOLEAN
  OBVIOUS
<1>4. /\ ~TWCR'.TWINT /\ ~TWCR'.TWSTA
      /\ TWCR'.TWEA <=> twi_masterBufferIndex' < twi_masterBufferLength
  BY <1>1, <1>3, ReplyIs
<1>5. InRead /\ InRead' /\ ~ByteWaits' /\ Reading' = Reading
  BY <1>1, <1>2, <1>4 DEF InRead, ByteWaits, Waits, Reading
<1>6. Answer'
  BY <1>1, <1>2 DEF Answer
<1>7. CASE ~Reading
  BY <1>5, <1>6, <1>7 DEF Counted, Copied, Room
<1>8. CASE Reading /\ TWSR = "MR_DATA_ACK"
  <2>1. ByteWaits /\ Waits("MR_DATA_ACK")
    BY <1>2, <1>5, <1>8 DEF ByteWaits, Waits
  <2>2. twi_masterBufferLength = call.len - 1 /\ twi_masterBufferIndex < call.len - 1
    BY <1>5, <1>8, <2>1 DEF ReadInv, Counted, Room
  <2>3. /\ Counted' /\ Copied'
        /\ twi_masterBufferIndex' = twi_masterBufferIndex + 1
    BY <1>1, <1>4, <1>8, <2>1, StoreRead
  <2>4. twi_masterBufferIndex \in Nat /\ call.len \in 0 .. BufferLength
    BY DEF ReadInv, ReadTypes, ControlInv, ControlTypes
  <2>5. Room'
    BY <1>1, <1>2, <1>4, <2>2, <2>3, <2>4, TwiAssumption DEF Room, Waits, TwiAssumption
  <2> QED
    BY <1>6, <2>3, <2>5
<1>9. CASE Reading /\ TWSR = "MR_SLA_ACK"
  <2>1. ~ByteWaits /\ UNCHANGED masterVars
    BY <1>1, <1>9 DEF ByteWaits, Waits
  <2>2. Counted' /\ Copied'
    BY <1>1, <1>5, <2>1, Untouched DEF ReadInv
  <2>3. twi_masterBufferLength = call.len - 1 /\ twi_masterBufferIndex < call.len
    BY <1>5, <1>9 DEF ReadInv, Counted, Room
  <2>4. UNCHANGED twi_masterBufferIndex
    BY <2>1 DEF masterVars
  <2>5. Room'
    BY <1>1, <1>2, <1>4, <2>3, <2>4 DEF Room, Waits
  <2> QED
    BY <1>6, <2>2, <2>5
<1> QED
  BY <1>1, <1>7, <1>8, <1>9

LEMMA MrNackRead ==
    ASSUME ControlInv, ReadInv, IrqMrDataNack
    PROVE  Counted' /\ Copied' /\ Room' /\ Answer'
<1>1. /\ IrqPending /\ TWSR = "MR_DATA_NACK" /\ StoreReceived /\ FinishMaster
      /\ UNCHANGED <<pc, call, answered>>
  BY DEF IrqMrDataNack, Irq, callVars
<1>2. TWCR.TWINT /\ mode = "mr" /\ pc = "busy" /\ ~twi_inRepStart
  BY <1>1 DEF IrqPending, ControlInv, StatusTells, TurnedOff, MasterInCall, InMyCall, AsMaster
<1>3. /\ ~TWCR'.TWINT
      /\ twi_inRepStart' \/ (mode' = "none" /\ ~TWCR'.TWSTA)
  BY <1>1, ReplyIs, StartsAre DEF FinishMaster, twi_stop
<1>4. Answer' /\ Reading' = Reading
  BY <1>1, <1>2 DEF Answer, Reading
<1>5. CASE ~Reading
  BY <1>4, <1>5 DEF Counted, Copied, Room
<1>6. CASE Reading
  <2>1. ByteWaits
    BY <1>1, <1>2 DEF ByteWaits, InRead, Waits
  <2>2. Counted' /\ Copied'
    BY <1>1, <1>3, <1>6, <2>1, StoreRead
  <2>3. Room'
    BY <1>1, <1>2, <1>3 DEF Room, InRead
  <2> QED
    BY <1>4, <2>2, <2>3
<1> QED
  BY <1>5, <1>6

LEMMA IrqRead ==
    ASSUME ControlInv, ReadInv, TwiIrq
    PROVE  Counted' /\ Copied' /\ Room' /\ Answer'
<1>1. IrqPending /\ UNCHANGED <<pc, call, ret, answered>>
  BY DEF TwiIrq, IrqQuiet, IrqStart, IrqMtAck, IrqMtNack, IrqArbLost, IrqMrAck, IrqMrDataNack,
         IrqMrSlaNack, IrqSrSlaAck, IrqSrDataAck, IrqSrDataNack, IrqStDataAck, IrqStDone, IrqBusError,
         IrqSrStop, IrqStSlaAck, Irq, callVars
<1>2. TWCR.TWINT /\ ~twi_inRepStart
  BY <1>1 DEF IrqPending, ControlInv, TurnedOff
<1>3. CASE IrqMtAck
  <2>1. mode = "mt"
    BY <1>2, <1>3 DEF IrqMtAck, Irq, ControlInv, StatusTells
  <2>2. ~Reading' /\ pc' = "busy"
    BY <1>1, <1>2, <2>1 DEF Reading, ReadInv, Direction, ControlInv, MasterInCall, InMyCall, AsMaster
  <2> QED
    BY <2>2 DEF Counted, Copied, Room, Answer
<1>4. CASE IrqStart \/ IrqSrDataNack \/ IrqStDataAck \/ IrqStDone \/ IrqSrSlaAck \/ IrqSrDataAck
           \/ \E length \in Lengths \cup {0} : IrqStSlaAck(length)
  <2>1. UNCHANGED <<masterVars, mode>> /\ TWSR \notin {"MR_DATA_ACK", "MR_DATA_NACK"}
    BY <1>4 DEF IrqStart, IrqSrDataNack, IrqStDataAck, IrqStDone, IrqSrSlaAck, IrqSrDataAck, IrqStSlaAck,
                Irq, bufferVars, busVars
  <2>2. mode # "mr"
    BY <1>2, <1>4 DEF IrqStart, IrqSrDataNack, IrqStDataAck, IrqStDone, IrqSrSlaAck, IrqSrDataAck,
                      IrqStSlaAck, Irq, ControlInv, StatusTells
  <2>3. ~TWCR'.TWINT /\ ~TWCR'.TWSTA
    BY <1>4 DEF IrqStart, IrqSrDataNack, IrqStDataAck, IrqStDone, IrqSrSlaAck, IrqSrDataAck, IrqStSlaAck,
                LoadAnswer, twi_reply
  <2> QED
    BY <1>1, <2>1, <2>2, <2>3, HandlerRead
<1>5. CASE IrqMtNack \/ IrqMrSlaNack \/ IrqBusError \/ IrqArbLost \/ IrqSrStop
  <2>1. UNCHANGED masterVars /\ TWSR \notin {"MR_DATA_ACK", "MR_DATA_NACK"}
    BY <1>5 DEF IrqMtNack, IrqMrSlaNack, IrqBusError, IrqArbLost, IrqSrStop, Irq, bufferVars
  <2>2. mode' = "none"
    BY <1>2, <1>5 DEF IrqMtNack, IrqMrSlaNack, IrqBusError, IrqArbLost, IrqSrStop, Irq, twi_stop,
                      twi_releaseBus, ControlInv, StatusTells
  <2>3. ~TWCR'.TWINT /\ ~TWCR'.TWSTA
    BY <1>5, ReplyIs DEF IrqMtNack, IrqMrSlaNack, IrqBusError, IrqArbLost, IrqSrStop, twi_stop, twi_releaseBus
  <2> QED
    BY <1>1, <2>1, <2>2, <2>3, HandlerRead
<1> QED
  BY <1>3, <1>4, <1>5, MrAckRead, MrNackRead DEF TwiIrq, IrqQuiet

LEMMA MainRead ==
    ASSUME ControlInv, ReadInv, MainLine
    PROVE  Counted' /\ Copied' /\ Room' /\ Answer'
<1>1. CASE TwiInitAgain \/ TwiDisable \/ AnyCall \/ TwiReady \/ TwiReturn
  <2>1. pc' \in {"idle", "wait", "claim", "off"}
    BY <1>1 DEF TwiInitAgain, TwiDisable, AnyCall, TwiCall, TwiReady, TwiReturn, Step
  <2> QED
    BY <2>1 DEF Counted, Copied, Room, Answer, Reading
<1>2. CASE AnyClaim
  <2>1. /\ pc' = "start" /\ twi_masterBufferIndex' = 0 /\ answered' = <<>> /\ call' = call
        /\ call.op = "read" => twi_masterBufferLength' = (call.len - 1) % 256
    BY <1>2 DEF AnyClaim, TwiClaim, Step, twi_readLength, callVars
  <2>2. call.len \in 0 .. 255
    BY TwiAssumption DEF TwiAssumption, ControlInv, ControlTypes
  <2>3. call.len > 0 => (call.len - 1) % 256 = call.len - 1
    BY <2>2
  <2>4. Len(answered') = 0
    BY <2>1, EmptySeq
  <2>5. ~InRead' /\ ~ByteWaits' /\ Copied' /\ Answer'
    BY <2>1 DEF InRead, ByteWaits, Copied, Answer
  <2>6. Reading' => call.op = "read" /\ call.len > 0
    BY <2>1 DEF Reading
  <2>7. Counted'
    <3>1. SUFFICES ASSUME Reading'
                   PROVE  /\ twi_masterBufferLength' = call'.len - 1
                          /\ twi_masterBufferIndex' <= call'.len
                          /\ Len(answered') = twi_masterBufferIndex'
      BY <2>5 DEF Counted
    <3>2. twi_masterBufferLength' = call.len - 1
      BY <2>1, <2>3, <2>6, <3>1
    <3>3. twi_masterBufferIndex' = 0 /\ call'.len = call.len
      BY <2>1
    <3>4. twi_masterBufferIndex' <= call'.len
      BY <2>2, <3>3
    <3>5. Len(answered') = twi_masterBufferIndex'
      BY <2>4, <3>3
    <3> QED
      BY <3>2, <3>3, <3>4, <3>5
  <2>8. Room'
    BY <2>1, <2>5 DEF Room
  <2> QED
    BY <2>5, <2>7, <2>8
<1>3. CASE TwiStart
  <2>1. /\ pc = "start" /\ pc' = "busy" /\ (twi_inRepStart => TWCR.TWINT) /\ ~IrqPending
        /\ TWCR' = IF twi_inRepStart THEN twi_reply(TRUE) ELSE SendSta
        /\ UNCHANGED <<call, masterVars, answered, mode>>
    BY <1>3 DEF TwiStart, Step, callVars, bufferVars, busVars, wireVars
  <2>2. ~TWCR'.TWINT /\ mode' # "mr"
    BY <2>1, ReplyIs, StartsAre DEF ControlInv, MasterInCall, InMyCall, HeldBus, AsMaster
  <2>3. Reading' = Reading /\ ~ByteWaits /\ ~ByteWaits' /\ ~InRead'
    BY <2>1, <2>2 DEF Reading, ByteWaits, InRead
  <2>4. Counted' /\ Copied'
    BY <2>1, <2>3, Untouched DEF ReadInv
  <2>5. Reading => twi_masterBufferIndex' = 0 /\ call.len > 0
    BY <2>1 DEF ReadInv, Room, Reading, masterVars
  <2>6. Room'
    BY <2>1, <2>3, <2>5 DEF Room
  <2>7. Answer'
    BY <2>1 DEF Answer
  <2> QED
    BY <2>4, <2>6, <2>7
<1>4. CASE TwiDone
  <2>1. /\ pc = "busy" /\ pc' = "ret" /\ ~InMyCall
        /\ call.op = "read" => ret' = ReadCount
        /\ UNCHANGED <<call, masterVars, answered>>
    BY <1>4 DEF TwiDone, Step, InMyCall, Mine, driverVars, bufferVars, wireVars
  <2>2. Reading' = Reading /\ ~ByteWaits /\ ~ByteWaits'
    BY <2>1 DEF Reading, ByteWaits, InRead, ControlInv, MasterInCall, AsMaster
  <2>3. Counted' /\ Copied'
    BY <2>1, <2>2, Untouched DEF ReadInv
  <2>4. Room'
    BY <2>1 DEF Room, InRead
  <2>5. UNCHANGED twi_masterBufferIndex
    BY <2>1 DEF masterVars
  <2>6. twi_masterBufferIndex \in Nat /\ call.len \in 0 .. BufferLength /\ BufferLength \in 1 .. 255
    BY TwiAssumption DEF TwiAssumption, ReadInv, ReadTypes, ControlInv, ControlTypes
  <2>7. ReadCount \in 0 .. call.len /\ ReadCount <= twi_masterBufferIndex
    BY <2>6 DEF ReadCount
  <2>9. call.op = "read" /\ call.len > 0 => ReadCount = twi_masterBufferIndex
    <3>1. call.op = "read" /\ call.len > 0 => twi_masterBufferIndex <= call.len
      BY <2>1 DEF ReadInv, Counted, Reading
    <3> QED
      BY <2>6, <3>1 DEF ReadCount
  <2>8. Answer'
    BY <2>1, <2>5, <2>7, <2>9 DEF Answer
  <2> QED
    BY <2>3, <2>4, <2>8
<1> QED
  BY <1>1, <1>2, <1>3, <1>4 DEF MainLine

LEMMA ReadStep ==
    ASSUME ControlInv, ReadInv, [AnyStep]_twiVars
    PROVE  ReadInv'
<1>1. CASE UNCHANGED twiVars
  <2>1. /\ UNCHANGED <<pc, call, ret, twi_inRepStart, twi_slarw, twi_masterBuffer, twi_masterBufferIndex,
                       twi_masterBufferLength, rx, TWCR, TWSR, TWDR, mode, answered, got>>
    BY <1>1 DEF twiVars, callVars, driverVars, stateVars, setupVars, bufferVars, masterVars, slaveVars,
                unitVars, busVars, wireVars
  <2>2. ReadTypes' /\ Direction' /\ Answer'
    BY <2>1 DEF ReadInv, ReadTypes, Direction, Answer
  <2>3. Counted' /\ Copied' /\ Room'
    BY <2>1 DEF ReadInv, Counted, Copied, Room, Reading, ByteWaits, InRead, Waits
  <2> QED
    BY <2>2, <2>3 DEF ReadInv
<1>2. CASE AnyStep
  <2>1. Direction' /\ ReadTypes'
    BY <1>2, DirectionStep, BusTypes, IrqTypes, MainTypes DEF ReadInv, AnyStep
  <2>2. Counted' /\ Copied' /\ Room' /\ Answer'
    BY <1>2, BusRead, IrqRead, MainRead DEF AnyStep
  <2> QED
    BY <2>1, <2>2 DEF ReadInv
<1> QED
  BY <1>1, <1>2

LEMMA ReadStart == TwiInit => ReadInv
<1> SUFFICES ASSUME TwiInit PROVE ReadInv
  OBVIOUS
<1>1. pc = "idle" /\ mode = "none"
  BY DEF TwiInit
<1> QED
  BY <1>1, TypesStart DEF ReadInv, Direction, Counted, Copied, Room, Answer, Reading

(* The two together, for the driver called by itself.                      *)
LEMMA DriverStart == TwiInit => ControlInv /\ ReadInv
BY ControlStart, ReadStart

LEMMA NextIsAny ==
    ASSUME ReadTypes, ControlInv, TwiNext
    PROVE  AnyStep
<1>1. ASSUME TwiClaim(Data) PROVE AnyClaim
  <2>1. ASSUME NEW k \in 1 .. call.len PROVE Nth(call.msg, k) \in AnyByte
    <3>1. k \in Int
      OBVIOUS
    <3> QED
      BY <3>1, BytesAre DEF ReadTypes
  <2>2. Data \in [1 .. call.len -> AnyByte]
    BY <2>1 DEF Data
  <2> QED
    BY <1>1, <2>2 DEF AnyClaim
<1>2. ASSUME Sketch PROVE MainLine
  <2>1. Lengths \subseteq 0 .. BufferLength
    BY TwiAssumption DEF TwiAssumption
  <2> QED
    BY <1>2, <2>1 DEF Sketch, MainLine, AnyCall
<1> QED
  BY <1>1, <1>2 DEF TwiNext, InCall, AnyStep, MainLine

LEMMA DriverStep ==
    ASSUME ~HeldUp, ControlInv, ReadInv, [TwiNext]_twiVars
    PROVE  ControlInv' /\ ReadInv' /\ [AnyStep]_twiVars
<1>1. [AnyStep]_twiVars
  BY NextIsAny DEF ReadInv
<1> QED
  BY <1>1, ControlStep, ReadStep

(* The unit is master of the bus in a call that waits for it, or holds the *)
(* bus for the next call after a repeated start (twi.c:162-178, 244-260,   *)
(* 403-413, 443-452): no transaction runs on behind a call, for every      *)
(* length of message and buffer.                                           *)
THEOREM HeldForCalls ==
    ASSUME ~HeldUp
    PROVE  TwiSpec => []HeldOnly
<1>1. ControlInv => HeldOnly
  BY DEF ControlInv, ControlTypes, MasterInCall, InMyCall, TurnedOff, HeldBus, HeldOnly, NoOrphan,
         HeldForNext, AsMaster
<1> QED
  BY <1>1, DriverStart, DriverStep, PTL DEF TwiSpec

(* The n bytes that twi_readFrom() returns are the first n that the slave  *)
(* sent in this transaction, and never one of an earlier one               *)
(* (twi.c:131-193, 428-452), for every length of message and buffer.       *)
THEOREM ReadsItsOwn ==
    ASSUME ~HeldUp
    PROVE  TwiSpec => []ReadIsFresh
<1>1. ControlInv /\ ReadInv => ReadIsFresh
  <2> SUFFICES ASSUME ControlInv, ReadInv, pc = "ret", call.op = "read"
               PROVE  /\ ret <= Len(answered)
                      /\ \A k \in 1 .. ret : twi_masterBuffer[k - 1] = answered[k]
    BY DEF ReadIsFresh, Returned
  <2>1. /\ ret \in 0 .. call.len /\ ret <= twi_masterBufferIndex /\ call.len \in Nat
        /\ twi_masterBufferIndex \in Nat /\ Len(answered) \in Nat
    BY LenProperties, TwiAssumption DEF TwiAssumption, ReadInv, ReadTypes, Answer, ControlInv, ControlTypes
  <2>2. CASE call.len = 0
    BY <2>1, <2>2
  <2>3. CASE call.len > 0
    <3>1. Reading /\ ~ByteWaits
      BY <2>3 DEF Reading, ByteWaits, InRead
    <3>2. /\ Len(answered) = twi_masterBufferIndex
          /\ \A k \in 1 .. twi_masterBufferIndex : twi_masterBuffer[k - 1] = answered[k]
      BY <3>1 DEF ReadInv, Counted, Copied
    <3> QED
      BY <2>1, <3>2
  <2> QED
    BY <2>1, <2>2, <2>3
<1> QED
  BY <1>1, DriverStart, DriverStep, PTL DEF TwiSpec

------------------------------------------------------------------------------
(* Being written to: what was acknowledged is stored.                      *)
StoredOnly == Stored /\ ReadTypes /\ ControlInv

LEMMA BusStored ==
    ASSUME StoredOnly, Bus
    PROVE  Stored'
<1>0. TWCR \in Control
  BY DEF StoredOnly, ControlInv, ControlTypes
<1>1. CASE ForeignStart \/ ForeignStop
  <2>1. UNCHANGED <<rx, TWCR, TWSR, TWDR, mode, got>>
    BY <1>1 DEF ForeignStart, ForeignStop, driverVars, bufferVars, slaveVars, unitVars, wireVars
  <2> QED
    BY <2>1 DEF StoredOnly, Stored, Waits, Acknowledged
\* An event that does not concern what is written to this node.
<1>2. ASSUME NEW status, NEW next, Event(status, next), next # "sr" \/ (mode = "sr" /\ status = "BUS_ERROR"),
             status # "SR_STOP", ~TWCR.TWINT, UNCHANGED got
      PROVE  Stored'
  <2>1. TWSR' = status /\ mode' = next /\ UNCHANGED rx
    BY <1>0, <1>2, EventIs DEF driverVars, bufferVars, slaveVars
  <2>2. ~Waits("SR_STOP")' /\ ~Waits("SR_DATA_ACK") /\ ~Waits("SR_SLA_ACK")
    BY <1>2, <2>1 DEF Waits
  <2>3. mode' = "sr" => mode = "sr" /\ ~Waits("SR_DATA_ACK")' /\ ~Waits("SR_SLA_ACK")'
    BY <1>2, <2>1 DEF Waits
  <2> QED
    BY <1>2, <2>1, <2>2, <2>3 DEF StoredOnly, Stored, Acknowledged
<1>3. ASSUME Event("SR_SLA_ACK", "sr"), got' = <<>>
      PROVE  Stored'
  <2>1. Waits("SR_SLA_ACK")'
    BY <1>0, <1>3, EventIs DEF Waits
  <2> QED
    BY <1>3, <2>1 DEF Stored
<1>4. CASE UnitStart \/ UnitSend \/ UnitReceive \/ SlaveSent
  <2>1. /\ ~TWCR.TWINT /\ got' = got
        /\ \/ Event("START", "address") \/ Event("REP_START", "address")
           \/ Event("MT_DATA_ACK", "mt") \/ Event("MT_DATA_NACK", "mt") \/ Event("ARB_LOST", "none")
           \/ Event("MR_DATA_ACK", "mr") \/ Event("MR_DATA_NACK", "mr")
           \/ Event("ST_DATA_ACK", "st") \/ Event("ST_LAST_DATA", "none") \/ Event("ST_DATA_NACK", "none")
    BY <1>4 DEF UnitStart, UnitSend, UnitReceive, SlaveSent, wireVars
  <2> QED
    BY <1>2, <2>1
<1>5. CASE UnitAddress \/ SlaveAddressed
  <2>1. /\ ~TWCR.TWINT
        /\ \/ Event("SR_SLA_ACK", "sr") /\ got' = <<>>
           \/ /\ got' = got
              /\ \/ Event("MT_SLA_ACK", "mt") \/ Event("MT_SLA_NACK", "mt")
                 \/ Event("MR_SLA_ACK", "mr") \/ Event("MR_SLA_NACK", "mr")
                 \/ Event("ARB_LOST", "none") \/ Event("ST_SLA_ACK", "st")
    BY <1>5 DEF UnitAddress, SlaveAddressed
  <2> QED
    BY <1>2, <1>3, <2>1
<1>6. CASE UnitBusError
  <2>1. ~TWCR.TWINT /\ got' = got /\ Event("BUS_ERROR", mode)
    BY <1>6 DEF UnitBusError, wireVars
  <2> QED
    BY <1>2, <2>1
<1>7. CASE SlaveStop
  <2>1. ~TWCR.TWINT /\ mode = "sr" /\ got' = got /\ Event("SR_STOP", "none")
    BY <1>7 DEF SlaveStop, wireVars
  <2>2. TWSR' = "SR_STOP" /\ UNCHANGED rx
    BY <1>0, <2>1, EventIs DEF driverVars, bufferVars, slaveVars
  <2>3. ~Waits("SR_DATA_ACK") /\ ~Waits("SR_SLA_ACK") /\ ~Waits("SR_DATA_ACK")' /\ ~Waits("SR_SLA_ACK")'
    BY <2>1, <2>2 DEF Waits
  <2> QED
    BY <2>1, <2>2, <2>3 DEF StoredOnly, Stored, Acknowledged
<1>8. CASE SlaveByte
  <2>1. ~TWCR.TWINT /\ mode = "sr" /\ TWDR' = ForeignByte(Len(got) + 1)
    BY <1>8 DEF SlaveByte
  <2>2. CASE Event("SR_DATA_NACK", "none") /\ UNCHANGED got
    BY <1>2, <2>1, <2>2
  <2>3. CASE Event("SR_DATA_ACK", "sr") /\ got' = Append(got, TWDR')
    <3>1. Waits("SR_DATA_ACK")' /\ ~Waits("SR_SLA_ACK")' /\ UNCHANGED rx
      BY <1>0, <2>3, EventIs DEF Waits, driverVars, bufferVars, slaveVars
    <3>0. Len(got) \in Nat /\ Len(got) + 1 \in Int
      BY LenProperties DEF StoredOnly, ReadTypes
    <3>2. Len(got) \in Nat /\ TWDR' \in AnyByte
      BY <2>1, <3>0, BytesAre DEF StoredOnly, ReadTypes
    <3>3. /\ Len(got') = Len(got) + 1 /\ got'[Len(got) + 1] = TWDR'
          /\ \A k \in 1 .. Len(got) : got'[k] = got[k]
      BY <2>3, <3>2, Grown DEF StoredOnly, ReadTypes
    <3>4. /\ Len(rx) <= Len(got) /\ Len(rx) <= BufferLength
          /\ Len(rx) = BufferLength \/ Len(rx) = Len(got)
          /\ \A k \in 1 .. Len(rx) : rx[k] = got[k]
      BY <2>1 DEF StoredOnly, Stored, Acknowledged, Waits
    <3>5. Acknowledged' = Len(got)
      BY <3>1, <3>2, <3>3 DEF Acknowledged
    <3>6. Len(rx) \in Nat
      BY LenProperties DEF StoredOnly, ReadTypes
    <3> QED
      BY <3>1, <3>2, <3>3, <3>4, <3>5, <3>6 DEF Stored
  <2> QED
    BY <1>8, <2>2, <2>3 DEF SlaveByte
<1> QED
  BY <1>1, <1>4, <1>5, <1>6, <1>7, <1>8 DEF Bus

LEMMA IrqStored ==
    ASSUME StoredOnly, TwiIrq
    PROVE  Stored'
<1>1. TWCR.TWINT /\ IrqPending
  BY DEF TwiIrq, IrqQuiet, IrqStart, IrqMtAck, IrqMtNack, IrqArbLost, IrqMrAck, IrqMrDataNack,
         IrqMrSlaNack, IrqSrSlaAck, IrqSrDataAck, IrqSrDataNack, IrqStDataAck, IrqStDone, IrqBusError,
         IrqSrStop, IrqStSlaAck, Irq, IrqPending
<1>2. TWSR' = "NO_INFO"
  BY DEF TwiIrq, IrqQuiet, IrqStart, IrqMtAck, IrqMtNack, IrqArbLost, IrqMrAck, IrqMrDataNack,
         IrqMrSlaNack, IrqSrSlaAck, IrqSrDataAck, IrqSrDataNack, IrqStDataAck, IrqStDone, IrqBusError,
         IrqSrStop, IrqStSlaAck, Irq
<1>3. ~Waits("SR_STOP")' /\ ~Waits("SR_SLA_ACK")' /\ Acknowledged' = Len(got')
  BY <1>2 DEF Waits, Acknowledged
<1>4. Len(got) \in Nat /\ Len(rx) \in Nat /\ rx \in Seq(AnyByte) /\ TWDR \in AnyByte
  BY LenProperties DEF StoredOnly, ReadTypes
<1>5. CASE IrqSrSlaAck
  <2>1. rx' = <<>> /\ got' = got /\ mode = "sr" /\ Waits("SR_SLA_ACK")
    BY <1>1, <1>5 DEF IrqSrSlaAck, Irq, StoredOnly, ControlInv, StatusTells, Waits
  <2>2. got' = <<>>
    BY <2>1 DEF StoredOnly, Stored
  <2>3. Len(rx') = 0 /\ Len(got') = 0
    BY <2>1, <2>2, EmptySeq
  <2> QED
    <3>1. ~Waits("SR_DATA_ACK")' /\ BufferLength \in Nat
      BY <1>2, TwiAssumption DEF Waits, TwiAssumption
    <3>2. \A k \in 1 .. Len(rx') : rx'[k] = got'[k]
      BY <2>3
    <3> QED
      BY <1>3, <2>3, <3>1, <3>2 DEF Stored
<1>6. CASE IrqSrDataAck
  <2>1. /\ rx' = IF Len(rx) < BufferLength THEN Append(rx, TWDR) ELSE rx
        /\ got' = got /\ mode = "sr" /\ Waits("SR_DATA_ACK") /\ ~Waits("SR_SLA_ACK")
    BY <1>1, <1>6 DEF IrqSrDataAck, Irq, StoredOnly, ControlInv, StatusTells, Waits
  <2>2. /\ Len(got) > 0 /\ got[Len(got)] = TWDR /\ Len(rx) <= Len(got) - 1 /\ Len(rx) <= BufferLength
        /\ Len(rx) = BufferLength \/ Len(rx) = Len(got) - 1
        /\ \A k \in 1 .. Len(rx) : rx[k] = got[k]
    BY <2>1 DEF StoredOnly, Stored, Acknowledged
  <2>3. /\ Len(Append(rx, TWDR)) = Len(rx) + 1 /\ Append(rx, TWDR)[Len(rx) + 1] = TWDR
        /\ \A k \in 1 .. Len(rx) : Append(rx, TWDR)[k] = rx[k]
    BY <1>4, Grown
  <2>4. BufferLength \in Nat
    BY TwiAssumption DEF TwiAssumption
  <2>5. CASE Len(rx) < BufferLength
    <3>1. Len(rx') = Len(rx) + 1 /\ Len(rx) = Len(got) - 1
      BY <1>4, <2>1, <2>2, <2>3, <2>4, <2>5
    <3>2. \A k \in 1 .. Len(rx) + 1 : rx'[k] = got[k]
      BY <1>4, <2>1, <2>2, <2>3, <2>5, <3>1
    <3>3. ~Waits("SR_DATA_ACK")'
      BY <1>2 DEF Waits
    <3> QED
      BY <1>3, <1>4, <2>1, <2>4, <2>5, <3>1, <3>2, <3>3 DEF Stored
  <2>6. CASE ~(Len(rx) < BufferLength)
    <3>1. rx' = rx /\ Len(rx) = BufferLength
      BY <1>4, <2>1, <2>2, <2>4, <2>6
    <3>2. ~Waits("SR_DATA_ACK")'
      BY <1>2 DEF Waits
    <3> QED
      BY <1>3, <1>4, <2>1, <2>2, <2>4, <3>1, <3>2 DEF Stored
  <2> QED
    BY <2>5, <2>6
<1>7. CASE ~IrqSrSlaAck /\ ~IrqSrDataAck
  <2>1. mode' = "none" \/ (mode' = mode /\ TWSR \notin {"SR_SLA_ACK", "SR_DATA_ACK", "BUS_ERROR"})
    BY <1>7 DEF TwiIrq, IrqQuiet, IrqStart, IrqMtAck, IrqMtNack, IrqArbLost, IrqMrAck, IrqMrDataNack,
         IrqMrSlaNack, IrqSrDataNack, IrqStDataAck, IrqStDone, IrqBusError, IrqSrStop, IrqStSlaAck, Irq,
         busVars, FinishMaster, twi_stop, twi_releaseBus
  <2>2. TWSR \in {"START", "REP_START", "MT_SLA_ACK", "MT_DATA_ACK", "MT_SLA_NACK", "MT_DATA_NACK",
                  "ARB_LOST", "MR_SLA_ACK", "MR_DATA_ACK", "MR_DATA_NACK", "MR_SLA_NACK", "SR_STOP",
                  "SR_DATA_NACK", "ST_SLA_ACK", "ST_DATA_ACK", "ST_DATA_NACK", "ST_LAST_DATA", "BUS_ERROR"}
    BY <1>7 DEF TwiIrq, IrqQuiet, IrqStart, IrqMtAck, IrqMtNack, IrqArbLost, IrqMrAck, IrqMrDataNack,
         IrqMrSlaNack, IrqSrDataNack, IrqStDataAck, IrqStDone, IrqBusError, IrqSrStop, IrqStSlaAck, Irq
  <2>3. mode' # "sr"
    BY <1>1, <2>1, <2>2 DEF StoredOnly, ControlInv, StatusTells
  <2> QED
    BY <1>3, <2>3 DEF Stored
<1> QED
  BY <1>5, <1>6, <1>7

LEMMA MainStored ==
    ASSUME StoredOnly, MainLine
    PROVE  Stored'
<1>1. CASE TwiReady \/ AnyClaim \/ TwiDone \/ TwiReturn \/ AnyCall
  <2>1. UNCHANGED <<rx, TWCR, TWSR, TWDR, mode, got>>
    BY <1>1 DEF TwiReady, AnyClaim, TwiClaim, TwiDone, TwiReturn, AnyCall, TwiCall, driverVars, bufferVars, slaveVars, unitVars,
                busVars, wireVars
  <2> QED
    BY <2>1 DEF StoredOnly, Stored, Waits, Acknowledged
<1>2. CASE TwiStart \/ TwiInitAgain
  <2>1. UNCHANGED <<rx, mode, got>> /\ ~TWCR'.TWINT
    BY <1>2, ReplyIs, StartsAre DEF TwiStart, TwiInitAgain, bufferVars, slaveVars, busVars, wireVars
  <2>2. mode = "sr" => ~TWCR.TWINT
    BY <1>2 DEF TwiStart, TwiInitAgain, Step, IrqPending, StoredOnly, ControlInv, ControlTypes, TurnedOff, HeldBus
  <2>3. mode = "sr" => ~Waits("SR_SLA_ACK") /\ ~Waits("SR_DATA_ACK")
    BY <2>2 DEF Waits
  <2>4. ~Waits("SR_STOP")' /\ ~Waits("SR_SLA_ACK")' /\ ~Waits("SR_DATA_ACK")'
    BY <2>1 DEF Waits
  <2> QED
    BY <2>1, <2>3, <2>4 DEF StoredOnly, Stored, Acknowledged
<1>3. CASE TwiDisable
  <2>1. mode' = "none" /\ ~TWCR'.TWINT
    BY <1>3 DEF TwiDisable, twi_reply
  <2> QED
    BY <2>1 DEF Stored, Waits
<1> QED
  BY <1>1, <1>2, <1>3 DEF MainLine

LEMMA StoredStep ==
    ASSUME StoredOnly, [AnyStep]_twiVars
    PROVE  Stored'
<1>1. CASE UNCHANGED twiVars
  <2>1. UNCHANGED <<rx, TWCR, TWSR, TWDR, mode, got>>
    BY <1>1 DEF twiVars, driverVars, bufferVars, slaveVars, unitVars, busVars, wireVars
  <2> QED
    BY <2>1 DEF StoredOnly, Stored, Waits, Acknowledged
<1> QED
  BY <1>1, BusStored, IrqStored, MainStored DEF AnyStep

(* When the other master ends its message, twi_onSlaveReceive() is given   *)
(* what was acknowledged, in order, up to the length of twi_rxBuffer       *)
(* (twi.c:460-493), for every length of buffer and message.                *)
THEOREM GivesWhatItAcked ==
    ASSUME ~HeldUp
    PROVE  TwiSpec => []AckedIsGiven
<1>1. StoredOnly => AckedIsGiven
  <2> SUFFICES ASSUME StoredOnly, IrqPending, TWSR = "SR_STOP"
               PROVE  /\ Len(rx) = BufferLength \/ Len(rx) = Len(got)
                      /\ rx = SubSeq(got, 1, Len(rx))
    BY DEF AckedIsGiven
  <2>1. Waits("SR_STOP") /\ ~Waits("SR_SLA_ACK") /\ Acknowledged = Len(got)
    BY DEF Waits, IrqPending, Acknowledged
  <2>2. /\ Len(rx) <= Len(got) /\ (Len(rx) = BufferLength \/ Len(rx) = Len(got))
        /\ \A k \in 1 .. Len(rx) : rx[k] = got[k]
    BY <2>1 DEF StoredOnly, Stored
  <2>3. Len(rx) \in Nat /\ Len(got) \in Nat /\ rx \in Seq(AnyByte) /\ got \in Seq(AnyByte)
    BY LenProperties DEF StoredOnly, ReadTypes
  <2>4. \A k \in 1 .. Len(rx) : got[k] \in AnyByte
    BY <2>2, <2>3, ElementOfSeq
  <2>5. /\ SubSeq(got, 1, Len(rx)) \in Seq(AnyByte)
        /\ Len(SubSeq(got, 1, Len(rx))) = Len(rx)
        /\ \A k \in 1 .. Len(rx) : SubSeq(got, 1, Len(rx))[k] = got[k]
    BY <2>3, <2>4, SubSeqProperties
  <2>6. rx = SubSeq(got, 1, Len(rx))
    BY <2>2, <2>3, <2>5, SeqEqual
  <2> QED
    BY <2>2, <2>6
<1>2. TwiInit => Stored
  BY DEF TwiInit, Stored, Waits, twi_reply
<1>3. ReadInv => ReadTypes
  BY DEF ReadInv
<1>4. ControlInv /\ ReadInv /\ Stored /\ [AnyStep]_twiVars => Stored'
  BY <1>3, StoredStep DEF StoredOnly
<1>5. ControlInv /\ ReadInv /\ Stored => AckedIsGiven
  BY <1>1, <1>3 DEF StoredOnly
<1> QED
  BY <1>2, <1>4, <1>5, DriverStart, DriverStep, PTL DEF TwiSpec

------------------------------------------------------------------------------
(***************************************************************************)
(* Writing.  The sketch always lets the bus go (NoHold).  If it writes, no *)
(* other master is on the bus (Alone), and the buffers hold what it wrote  *)
(* (Prepared, Loaded); the slave has acknowledged the bytes up to the      *)
(* index, but for one that is on its way or waits for the handler          *)
(* (HeardPart, Progress); and when the transaction is over twi_error tells *)
(* how far it came (Ended, Coded).                                         *)
(***************************************************************************)
WireTypes ==
    /\ txBuffer \in [Slot -> AnyByte] /\ txBufferLength \in 0 .. BufferLength
    /\ rxBuffer \in [Slot -> AnyByte] /\ rxBufferLength \in 0 .. BufferLength
    /\ rxBufferIndex \in Nat
    /\ wanted \in Seq(AnyByte) /\ due \in Seq(AnyByte) /\ heard \in Seq(AnyByte)
    /\ transmitting \in BOOLEAN /\ quiet \in BOOLEAN

NoHold == ~twi_inRepStart /\ twi_sendStop /\ call.stop

Alone == quiet => ~foreign /\ mode \notin AsSlave

InWrite == pc \notin {"idle", "off"} /\ call.op = "write"

Prepared ==
    /\ transmitting => quiet
    /\ InWrite => transmitting /\ call.len = txBufferLength
    /\ transmitting => /\ txBufferLength = Len(wanted)
                       /\ \A k \in 1 .. Len(wanted) : txBuffer[k - 1] = wanted[k]

Underway == InWrite /\ pc \in {"start", "busy", "ret"}
Sending == pc = "start" \/ (pc = "busy" /\ twi_state = "MTX")

Loaded == Underway => \A k \in 1 .. Len(wanted) : twi_masterBuffer[k - 1] = wanted[k]

HeardPart ==
    Underway =>
        /\ twi_masterBufferIndex <= Len(wanted) /\ Len(heard) <= Len(wanted)
        /\ \A k \in 1 .. Len(heard) : heard[k] = wanted[k]

Progress ==
    Underway /\ Sending =>
        /\ twi_error = "none"
        /\ mode = "none" => ~TWCR.TWINT
        /\ mode = "mt" \/ (mode = "address" /\ ~TWCR.TWINT) => ~TWCR.TWSTA
        /\ mode # "mt" => twi_masterBufferIndex = 0
        /\ mode = "mt" /\ ~TWCR.TWINT => twi_masterBufferIndex > 0
        /\ Waits("MT_SLA_ACK") \/ Waits("MT_SLA_NACK") => twi_masterBufferIndex = 0
        /\ Waits("MT_DATA_NACK") => twi_masterBufferIndex > 0
        /\ twi_masterBufferIndex > 0 => TWDR = wanted[twi_masterBufferIndex]
        /\ Len(heard) = IF twi_masterBufferIndex = 0 \/ Waits("MT_DATA_ACK")
                        THEN twi_masterBufferIndex ELSE twi_masterBufferIndex - 1

Ended ==
    Underway /\ ~Sending =>
        /\ twi_error = "none" => Len(heard) = Len(wanted)
        /\ twi_error = "MT_SLA_NACK" => Len(heard) = 0
        /\ twi_error = "MT_DATA_NACK" => Len(heard) < Len(wanted)

Coded == pc = "ret" /\ call.op = "write" => ret = WriteCode

\* Nothing waits for the handler when the unit has not been told to start, or is done.
Calm ==
    /\ pc = "ret" => ~TWCR.TWINT
    /\ InWrite /\ pc = "start" => ~TWCR.TWINT
    /\ Underway /\ ~Sending => ~TWCR.TWINT

WriteInv ==
    /\ WireTypes /\ NoHold /\ Alone /\ Prepared /\ Calm /\ Loaded /\ HeardPart
    /\ Progress /\ Ended /\ Coded

------------------------------------------------------------------------------
(***************************************************************************)
(* Reading.  A call asks for a byte at least (Asked); what it copied is    *)
(* what the driver's buffer holds until the indices are set (Fetched); and *)
(* what is still to be read is what the call or the callback was given     *)
(* (Kept).                                                                 *)
(***************************************************************************)
Asked == pc \notin {"idle", "off"} /\ call.op = "read" => call.len > 0

Fetched ==
    Returned("read") => \A k \in 0 .. ret - 1 : rxBuffer[k] = twi_masterBuffer[k]

Kept ==
    ~Returned("read") /\ rxBufferIndex < rxBufferLength =>
        /\ rxBufferLength = Len(due)
        /\ \A k \in rxBufferIndex .. rxBufferLength - 1 : rxBuffer[k] = due[k + 1]

KeptInv == Asked /\ Fetched /\ Kept

DriverInv == ControlInv /\ ReadInv /\ Stored

Inv == DriverInv /\ WriteInv /\ KeptInv

------------------------------------------------------------------------------
(* The steps, by who takes them.                                           *)
Sketched == begin \/ beginTransmission \/ write \/ read
Calling == endTransmission(TRUE) \/ \E quantity \in Lengths \ {0} : requestFrom(quantity, TRUE)
InDriver == (TwiReady \/ TwiStart \/ TwiDisable) /\ UNCHANGED wireClassVars
Handled ==
    \/ IrqQuiet /\ UNCHANGED wireClassVars
    \/ onReceiveService \/ \E length \in Lengths \cup {0} : onRequestService(length)
OnBus == Bus /\ UNCHANGED wireClassVars

LEMMA WireNextIs ==
    WireNext <=> Sketched \/ Calling \/ InDriver \/ Claim \/ Done \/ Return \/ Handled \/ OnBus
BY DEF WireNext, WireSketch, TwiOnly, Sketched, Calling, InDriver, Handled, OnBus

LEMMA HandledIs ==
    ASSUME Handled
    PROVE  TwiIrq /\ UNCHANGED <<transmitting, wanted>>
BY DEF Handled, onReceiveService, onRequestService, wireClassVars, txVars, TwiIrq

(* A step of the sketch, between calls, leaves the driver alone; begin()   *)
(* sets it up again.                                                       *)
LEMMA SketchedIs ==
    ASSUME beginTransmission \/ write \/ read
    PROVE  pc = "idle" /\ UNCHANGED twiVars
BY DEF beginTransmission, write, read, Step, twiVars

(* Every step is one of the driver, called with what is in the buffers.    *)
LEMMA WireStepIsAny ==
    ASSUME WireTypes, ControlInv, WireNext
    PROVE  [AnyStep]_twiVars
<1>1. CASE Sketched
  BY <1>1, SketchedIs DEF Sketched, begin, AnyStep, MainLine
<1>2. CASE endTransmission(TRUE)
  <2>1. TwiCall("write", AnyMessage, txBufferLength, TRUE) /\ txBufferLength \in 0 .. BufferLength
    BY <1>2 DEF endTransmission, WireTypes
  <2>2. AnyCall
    BY <2>1 DEF AnyCall
  <2> QED
    BY <2>2 DEF AnyStep, MainLine
<1>3. ASSUME NEW quantity \in Lengths \ {0}, requestFrom(quantity, TRUE)
      PROVE  AnyStep
  <2>1. quantity \in 0 .. BufferLength
    BY TwiAssumption DEF TwiAssumption
  <2>2. PICK msg \in Message : TwiCall("read", msg, quantity, TRUE)
    BY <1>3 DEF requestFrom
  <2>3. AnyCall
    BY <2>1, <2>2 DEF AnyCall
  <2> QED
    BY <2>3 DEF AnyStep, MainLine
<1>4. CASE Claim
  <2> DEFINE data == [k \in 1 .. call.len |-> txBuffer[k - 1]]
  <2>1. ASSUME NEW k \in 1 .. call.len PROVE txBuffer[k - 1] \in AnyByte
    <3>1. call.len \in 0 .. BufferLength /\ BufferLength \in Nat
      BY TwiAssumption DEF TwiAssumption, ControlInv, ControlTypes
    <3>2. k - 1 \in Slot
      BY <3>1 DEF Slot
    <3> QED
      BY <3>2 DEF WireTypes
  <2>2. data \in [1 .. call.len -> AnyByte]
    BY <2>1
  <2>3. TwiClaim(data)
    BY <1>4 DEF Claim
  <2> HIDE DEF data
  <2>4. AnyClaim
    BY <2>2, <2>3 DEF AnyClaim
  <2> QED
    BY <2>4 DEF AnyStep, MainLine
<1>5. CASE InDriver \/ Done \/ Return \/ OnBus
  BY <1>5 DEF InDriver, Done, Return, OnBus, AnyStep, MainLine
<1>6. CASE Handled
  BY <1>6, HandledIs DEF AnyStep
<1> QED
  BY <1>1, <1>2, <1>3, <1>4, <1>5, <1>6, WireNextIs DEF Calling

LEMMA DriverKept ==
    ASSUME ~HeldUp, DriverInv, WireTypes, WireNext
    PROVE  DriverInv'
<1>1. [AnyStep]_twiVars
  BY WireStepIsAny DEF DriverInv
<1>2. ControlInv' /\ ReadInv'
  BY <1>1, ControlStep, ReadStep DEF DriverInv
<1>3. StoredOnly
  BY DEF DriverInv, StoredOnly, ReadInv
<1>4. Stored'
  BY <1>1, <1>3, StoredStep
<1> QED
  BY <1>2, <1>4 DEF DriverInv

------------------------------------------------------------------------------
(* The types of the buffers, and that the bus is always let go.            *)
LEMMA WireTypesKept ==
    ASSUME WireTypes, DriverInv, WireNext, UNCHANGED quiet
    PROVE  WireTypes'
<1>0. /\ BufferLength \in 1 .. 255 /\ Lengths \subseteq 0 .. BufferLength
      /\ TWDR \in AnyByte /\ answered \in Seq(AnyByte) /\ rx \in Seq(AnyByte) /\ got \in Seq(AnyByte)
      /\ twi_masterBuffer \in [Slot -> AnyByte] /\ <<>> \in Seq(AnyByte)
  BY TwiAssumption, EmptySeq DEF TwiAssumption, DriverInv, ReadInv, ReadTypes
<1>1. ASSUME UNCHANGED wireClassVars, heard' \in Seq(AnyByte)
      PROVE  WireTypes'
  BY <1>1 DEF WireTypes, wireClassVars, txVars, rxVars
<1>2. CASE beginTransmission \/ read \/ begin
  <2>1. /\ heard' = heard /\ txBufferLength' \in {txBufferLength, 0} /\ wanted' \in {wanted, <<>>}
        /\ transmitting' \in {transmitting, TRUE}
        /\ rxBufferIndex' \in {rxBufferIndex, rxBufferIndex + 1, 0} /\ rxBufferLength' \in {rxBufferLength, 0}
        /\ due' \in {due, <<>>} /\ UNCHANGED <<txBuffer, rxBuffer>>
    BY <1>2 DEF beginTransmission, read, begin, TwiInitAgain, wireVars, txVars, rxVars
  <2>2. heard' \in Seq(AnyByte) /\ wanted' \in Seq(AnyByte) /\ due' \in Seq(AnyByte)
    BY <1>0, <2>1 DEF WireTypes
  <2>3. txBufferLength' \in 0 .. BufferLength /\ rxBufferLength' \in 0 .. BufferLength /\ rxBufferIndex' \in Nat
    BY <1>0, <2>1 DEF WireTypes
  <2>4. transmitting' \in BOOLEAN
    BY <2>1 DEF WireTypes
  <2>5. txBuffer' \in [Slot -> AnyByte] /\ rxBuffer' \in [Slot -> AnyByte] /\ quiet' \in BOOLEAN
    BY <2>1 DEF WireTypes
  <2> QED
    BY <2>2, <2>3, <2>4, <2>5 DEF WireTypes
<1>3. CASE write
  <2>1. /\ txBufferLength < BufferLength /\ txBufferLength' = txBufferLength + 1
        /\ txBuffer' = [txBuffer EXCEPT ![txBufferLength] = Nth(AnyMessage, Len(wanted) + 1)]
        /\ wanted' = Append(wanted, txBuffer'[txBufferLength])
        /\ heard' = heard /\ UNCHANGED <<transmitting, rxVars>>
    BY <1>3 DEF write, wireVars
  <2>2. txBufferLength \in Slot /\ Len(wanted) + 1 \in Int
    BY <1>0, <2>1, LenProperties DEF WireTypes, Slot
  <2>3. Nth(AnyMessage, Len(wanted) + 1) \in AnyByte
    BY <2>2, BytesAre
  <2>4. txBuffer' \in [Slot -> AnyByte] /\ txBuffer'[txBufferLength] \in AnyByte
    BY <2>1, <2>2, <2>3 DEF WireTypes
  <2>5. wanted' \in Seq(AnyByte) /\ txBufferLength' \in 0 .. BufferLength
    BY <1>0, <2>1, <2>4, AppendProperties DEF WireTypes
  <2> QED
    BY <2>1, <2>4, <2>5 DEF WireTypes, rxVars
<1>4. CASE Calling \/ InDriver
  <2>1. UNCHANGED wireClassVars /\ heard' = heard
    BY <1>4 DEF Calling, endTransmission, requestFrom, InDriver, TwiCall, TwiReady, TwiStart, TwiDisable, wireVars
  <2> QED
    BY <1>1, <2>1 DEF WireTypes
<1>5. CASE Claim
  BY <1>0, <1>1, <1>5 DEF Claim, TwiClaim
<1>6. CASE Done
  <2>1. /\ rxBuffer' = [k \in Slot |-> IF call.op = "read" /\ k < ret' THEN twi_masterBuffer[k]
                                       ELSE rxBuffer[k]]
        /\ UNCHANGED <<txVars, rxBufferIndex, rxBufferLength, due, heard>>
    BY <1>6 DEF Done, TwiDone, wireVars
  <2>2. rxBuffer' \in [Slot -> AnyByte]
    BY <1>0, <2>1 DEF WireTypes
  <2> QED
    BY <2>1, <2>2 DEF WireTypes, txVars
<1>7. CASE Return
  <2>1. heard' = <<>> /\ UNCHANGED <<txBuffer, rxBuffer>>
    BY <1>7 DEF Return, TwiReturn, rxVars, txVars
  <2>2. CASE call.op # "read"
    <3>1. txBufferLength' = 0 /\ transmitting' = FALSE /\ wanted' = <<>> /\ UNCHANGED rxVars
      BY <1>7, <2>2 DEF Return
    <3>2. heard' \in Seq(AnyByte) /\ wanted' \in Seq(AnyByte) /\ txBufferLength' \in 0 .. BufferLength
      BY <1>0, <2>1, <3>1
    <3>3. transmitting' \in BOOLEAN
      BY <3>1
    <3> QED
      BY <2>1, <3>1, <3>2, <3>3 DEF WireTypes, rxVars
  <2>3. CASE call.op = "read"
    <3>1. /\ rxBufferIndex' = 0 /\ rxBufferLength' = ret /\ due' = SubSeq(answered, 1, ret)
          /\ UNCHANGED txVars /\ pc = "ret"
      BY <1>7, <2>3 DEF Return, TwiReturn, Step
    <3>2. ret \in 0 .. call.len /\ call.len \in 0 .. BufferLength
      BY <2>3, <3>1 DEF DriverInv, ReadInv, Answer, ControlInv, ControlTypes
    <3>3. ret \in 0 .. Len(answered)
      <4>1. call.len > 0 => ret <= twi_masterBufferIndex /\ Len(answered) = twi_masterBufferIndex
        BY <2>3, <3>1 DEF DriverInv, ReadInv, Answer, Counted, Reading, ByteWaits, InRead
      <4> QED
        BY <1>0, <3>2, <4>1, LenProperties
    <3>4. \A k \in 1 .. ret : answered[k] \in AnyByte
      BY <1>0, <3>2, <3>3, LenProperties, ElementOfSeq
    <3>5. SubSeq(answered, 1, ret) \in Seq(AnyByte)
      BY <1>0, <3>2, <3>4, SubSeqProperties
    <3>6. rxBufferLength' \in 0 .. BufferLength
      BY <1>0, <3>1, <3>2
    <3> QED
      BY <2>1, <3>1, <3>5, <3>6 DEF WireTypes, txVars
  <2> QED
    BY <2>2, <2>3
<1>8. CASE IrqQuiet /\ UNCHANGED wireClassVars
  <2>1. heard' = heard
    BY <1>8 DEF IrqQuiet, IrqStart, IrqMtAck, IrqMtNack, IrqArbLost, IrqMrAck, IrqMrDataNack,
         IrqMrSlaNack, IrqSrSlaAck, IrqSrDataAck, IrqSrDataNack, IrqStDataAck, IrqStDone, IrqBusError, Irq
  <2> QED
    BY <1>1, <1>8, <2>1 DEF WireTypes
<1>9. CASE onReceiveService
  <2>1. IrqSrStop /\ heard' = heard /\ UNCHANGED txVars /\ Waits("SR_STOP")
    BY <1>9 DEF onReceiveService, IrqSrStop, Irq, IrqPending, Waits
  <2>2. /\ Len(rx) \in 0 .. BufferLength /\ Len(got) \in Nat
    BY <1>0, <2>1, LenProperties DEF DriverInv, Stored, Waits
  <2>3. CASE UNCHANGED rxVars
    BY <2>1, <2>3 DEF WireTypes, txVars, rxVars
  <2>4. CASE ~UNCHANGED rxVars
    <3>1. /\ rxBuffer' = [k \in Slot |-> IF k < Len(rx) THEN rx[k + 1] ELSE rxBuffer[k]]
          /\ rxBufferLength' = Len(rx) /\ due' = Fitting(got) /\ rxBufferIndex' \in 0 .. Len(rx)
      BY <1>9, <2>4 DEF onReceiveService
    <3>2. ASSUME NEW k \in Slot, k < Len(rx) PROVE rx[k + 1] \in AnyByte
      <4>1. k + 1 \in 1 .. Len(rx)
        BY <2>2, <3>2 DEF Slot
      <4> QED
        BY <1>0, <4>1, ElementOfSeq
    <3>3. rxBuffer' \in [Slot -> AnyByte]
      BY <3>1, <3>2 DEF WireTypes
    <3> DEFINE n == IF Len(got) < BufferLength THEN Len(got) ELSE BufferLength
    <3>4. n \in 0 .. Len(got)
      BY <1>0, <2>2
    <3>5. Fitting(got) = SubSeq(got, 1, n)
      BY DEF Fitting
    <3> HIDE DEF n
    <3>6. \A k \in 1 .. n : got[k] \in AnyByte
      BY <1>0, <2>2, <3>4, ElementOfSeq
    <3>7. due' \in Seq(AnyByte)
      BY <1>0, <3>1, <3>4, <3>5, <3>6, SubSeqProperties
    <3>8. rxBufferIndex' \in Nat /\ rxBufferLength' \in 0 .. BufferLength
      BY <2>2, <3>1
    <3> QED
      BY <2>1, <3>3, <3>7, <3>8 DEF WireTypes, txVars
  <2> QED
    BY <2>3, <2>4
<1>10. ASSUME NEW length \in Lengths \cup {0}, onRequestService(length)
       PROVE  WireTypes'
  <2>1. heard' = heard /\ UNCHANGED <<transmitting, wanted, rxVars>>
    BY <1>10 DEF onRequestService, IrqStSlaAck, Irq
  <2>2. \A k \in Slot : ReplyByte(k) \in AnyByte
    <3>1. \A k \in Slot : k \in Int
      BY DEF Slot
    <3> QED
      BY <3>1, BytesAre DEF ReplyByte
  <2>3. \/ txBuffer' = [k \in Slot |-> IF k < length THEN ReplyByte(k) ELSE txBuffer[k]]
        \/ txBuffer' = txBuffer
    BY <1>10 DEF onRequestService
  <2>4. txBuffer' \in [Slot -> AnyByte]
    BY <2>2, <2>3 DEF WireTypes
  <2>5. txBufferLength' \in {length, 0}
    BY <1>10 DEF onRequestService
  <2>6. txBufferLength' \in 0 .. BufferLength
    BY <1>0, <2>5
  <2> QED
    BY <2>1, <2>4, <2>6 DEF WireTypes, rxVars
<1>11. CASE OnBus
  <2>1. heard' = heard \/ heard' = Append(heard, TWDR)
    BY <1>11 DEF OnBus, Bus, ForeignStart, ForeignStop, UnitStart, UnitAddress, UnitSend, UnitReceive,
                 SlaveAddressed, SlaveByte, SlaveStop, SlaveSent, UnitBusError, wireVars
  <2>3. heard \in Seq(AnyByte)
    BY DEF WireTypes
  <2>4. Append(heard, TWDR) \in Seq(AnyByte)
    BY <1>0, <2>3, Grown
  <2>2. heard' \in Seq(AnyByte)
    BY <2>1, <2>3, <2>4
  <2> QED
    BY <1>1, <1>11, <2>2 DEF OnBus
<1> QED
  BY <1>2, <1>3, <1>4, <1>5, <1>6, <1>7, <1>8, <1>9, <1>10, <1>11, WireNextIs DEF Sketched, Handled

LEMMA NoHoldKept ==
    ASSUME NoHold, WireNext
    PROVE  NoHold'
<1>1. CASE beginTransmission \/ write \/ read
  <2>1. (twi_inRepStart' => twi_inRepStart) /\ (twi_sendStop => twi_sendStop') /\ call' = call
    BY <1>1, SketchedIs DEF twiVars, callVars, driverVars, stateVars, setupVars
  <2> QED
    BY <2>1 DEF NoHold
<1>2. CASE begin \/ InDriver \/ Done
  <2>1. call' = call
    BY <1>2 DEF begin, TwiInitAgain, InDriver, TwiReady, TwiStart, TwiDisable, Done, TwiDone, callVars
  <2>2. twi_inRepStart' => twi_inRepStart
    BY <1>2 DEF begin, TwiInitAgain, InDriver, TwiReady, TwiStart, TwiDisable, Done, TwiDone, driverVars, stateVars
  <2>3. twi_sendStop => twi_sendStop'
    BY <1>2 DEF begin, TwiInitAgain, InDriver, TwiReady, TwiStart, TwiDisable, Done, TwiDone, driverVars, setupVars
  <2> QED
    BY <2>1, <2>2, <2>3 DEF NoHold
<1>6. CASE Claim
  <2>1. call' = call
    BY <1>6 DEF Claim, TwiClaim, callVars
  <2>2. twi_inRepStart' => twi_inRepStart
    BY <1>6 DEF Claim, TwiClaim
  <2>3. twi_sendStop' = call.stop
    BY <1>6 DEF Claim, TwiClaim
  <2> QED
    BY <2>1, <2>2, <2>3 DEF NoHold
<1>3. CASE Calling \/ Return
  <2>1. call'.stop /\ UNCHANGED driverVars
    BY <1>3 DEF Calling, endTransmission, requestFrom, TwiCall, Return, TwiReturn, NoCall
  <2> QED
    BY <2>1 DEF NoHold, driverVars, stateVars, setupVars
<1>4. CASE Handled
  <2>1. call' = call /\ twi_sendStop' = twi_sendStop /\ twi_inRepStart' = twi_inRepStart
    BY <1>4, HandledIs DEF TwiIrq, IrqQuiet, IrqStart, IrqMtAck, IrqMtNack, IrqArbLost, IrqMrAck, IrqMrDataNack,
         IrqMrSlaNack, IrqSrSlaAck, IrqSrDataAck, IrqSrDataNack, IrqStDataAck, IrqStDone, IrqBusError,
         IrqSrStop, IrqStSlaAck, Irq, callVars, setupVars, stateVars, FinishMaster, NoHold
  <2> QED
    BY <2>1 DEF NoHold
<1>5. CASE OnBus
  <2>1. UNCHANGED <<call, driverVars>>
    BY <1>5 DEF OnBus, Bus, ForeignStart, ForeignStop, UnitStart, UnitAddress, UnitSend, UnitReceive,
                SlaveAddressed, SlaveByte, SlaveStop, SlaveSent, UnitBusError, Event, callVars
  <2> QED
    BY <2>1 DEF NoHold, driverVars, stateVars, setupVars
<1> QED
  BY <1>1, <1>2, <1>3, <1>4, <1>5, <1>6, WireNextIs DEF Sketched

------------------------------------------------------------------------------
(* Alone on the bus, the unit is no slave.                                 *)
LEMMA AloneKept ==
    ASSUME Alone, WireNext, Bounded
    PROVE  Alone'
<1> SUFFICES ASSUME quiet PROVE mode' \notin AsSlave
  BY DEF Alone, Bounded
<1>0. ~foreign /\ ~foreign' /\ mode \notin AsSlave
  BY DEF Alone, Bounded
<1>1. CASE OnBus
  BY <1>0, <1>1 DEF OnBus, Bus, ForeignStart, ForeignStop, UnitStart, UnitAddress, UnitSend, UnitReceive,
                    SlaveAddressed, SlaveByte, SlaveStop, SlaveSent, UnitBusError, Event, AsSlave
<1>2. CASE Handled
  <2>1. mode' = mode \/ mode' = "none"
    BY <1>2, HandledIs DEF TwiIrq, IrqQuiet, IrqStart, IrqMtAck, IrqMtNack, IrqArbLost, IrqMrAck, IrqMrDataNack,
         IrqMrSlaNack, IrqSrSlaAck, IrqSrDataAck, IrqSrDataNack, IrqStDataAck, IrqStDone, IrqBusError,
         IrqSrStop, IrqStSlaAck, busVars, FinishMaster, twi_stop, twi_releaseBus
  <2> QED
    BY <1>0, <2>1 DEF AsSlave
<1>3. CASE Sketched \/ Calling \/ InDriver \/ Claim \/ Done \/ Return
  <2>1. mode' = mode \/ mode' = "none"
    BY <1>3 DEF Sketched, begin, TwiInitAgain, beginTransmission, write, read, Calling, endTransmission,
         requestFrom, TwiCall, InDriver, TwiReady, TwiStart, TwiDisable, Claim, TwiClaim, Done, TwiDone,
         Return, TwiReturn, busVars
  <2> QED
    BY <1>0, <2>1 DEF AsSlave
<1> QED
  BY <1>1, <1>2, <1>3, WireNextIs

(* The buffer of the sketch holds what it wrote, until the call returns.   *)
LEMMA PreparedKept ==
    ASSUME WireTypes, DriverInv, Prepared, Alone, WireNext, UNCHANGED quiet
    PROVE  Prepared'
<1>1. CASE beginTransmission \/ begin
  <2>1. pc' = "idle" /\ txBufferLength' \in {0} /\ wanted' = <<>>
    BY <1>1 DEF beginTransmission, begin, TwiInitAgain, Step
  <2>3. transmitting' => quiet
    BY <1>1 DEF beginTransmission, begin, Prepared
  <2>2. Len(wanted') = 0
    BY <2>1, EmptySeq
  <2> QED
    BY <2>1, <2>2, <2>3 DEF Prepared, InWrite
<1>2. CASE write
  <2>1. /\ pc' = "idle" /\ transmitting /\ transmitting' = transmitting
        /\ txBufferLength < BufferLength /\ txBufferLength' = txBufferLength + 1
        /\ txBuffer' = [txBuffer EXCEPT ![txBufferLength] = Nth(AnyMessage, Len(wanted) + 1)]
        /\ wanted' = Append(wanted, txBuffer'[txBufferLength])
    BY <1>2 DEF write, Step
  <2>2. /\ txBufferLength = Len(wanted) /\ Len(wanted) \in Nat /\ wanted \in Seq(AnyByte)
        /\ \A k \in 1 .. Len(wanted) : txBuffer[k - 1] = wanted[k]
    BY <2>1, LenProperties DEF Prepared, WireTypes
  <2>3. txBufferLength \in Slot /\ Len(wanted) + 1 \in Int
    BY <2>1, <2>2, TwiAssumption DEF Slot, WireTypes, TwiAssumption
  <2>4. txBuffer'[txBufferLength] \in AnyByte
    BY <2>1, <2>3, BytesAre DEF WireTypes
  <2>5. /\ Len(wanted') = Len(wanted) + 1 /\ wanted'[Len(wanted) + 1] = txBuffer'[txBufferLength]
        /\ \A k \in 1 .. Len(wanted) : wanted'[k] = wanted[k]
    BY <2>1, <2>2, <2>4, Grown
  <2>6. ASSUME NEW k \in 1 .. Len(wanted) PROVE txBuffer'[k - 1] = txBuffer[k - 1]
    <3>1. k - 1 \in Slot /\ k - 1 # txBufferLength
      BY <2>2, <2>3, TwiAssumption DEF Slot, TwiAssumption
    <3> QED
      BY <2>1, <3>1 DEF WireTypes
  <2>7. \A k \in 1 .. Len(wanted') : txBuffer'[k - 1] = wanted'[k]
    <3> SUFFICES ASSUME NEW k \in 1 .. Len(wanted) + 1 PROVE txBuffer'[k - 1] = wanted'[k]
      BY <2>5
    <3>1. CASE k = Len(wanted) + 1
      BY <2>2, <2>5, <3>1
    <3>2. CASE k # Len(wanted) + 1
      <4>1. k \in 1 .. Len(wanted)
        BY <2>2, <3>2
      <4> QED
        BY <2>2, <2>5, <2>6, <4>1
    <3> QED
      BY <3>1, <3>2
  <2>8. ~InWrite' /\ (transmitting' => quiet') /\ txBufferLength' = Len(wanted')
    BY <2>1, <2>2, <2>5 DEF InWrite, Prepared
  <2> QED
    BY <2>7, <2>8 DEF Prepared
<1>3. CASE read
  <2>1. pc' = "idle" /\ UNCHANGED txVars
    BY <1>3 DEF read, Step
  <2> QED
    BY <2>1 DEF Prepared, InWrite, txVars
<1>4. CASE endTransmission(TRUE)
  <2>1. transmitting /\ call'.len = txBufferLength /\ UNCHANGED txVars
    BY <1>4 DEF endTransmission, TwiCall, wireClassVars
  <2> QED
    BY <2>1 DEF Prepared, InWrite, txVars
<1>5. ASSUME NEW quantity, requestFrom(quantity, TRUE)
      PROVE  Prepared'
  <2>1. call'.op = "read" /\ UNCHANGED txVars
    BY <1>5 DEF requestFrom, TwiCall, wireClassVars
  <2> QED
    BY <2>1 DEF Prepared, InWrite, txVars
<1>6. CASE InDriver \/ Claim \/ Done
  <2>1. /\ UNCHANGED <<txVars, call>>
        /\ pc' \notin {"idle", "off"} => pc \notin {"idle", "off"}
    BY <1>6 DEF InDriver, TwiReady, TwiStart, TwiDisable, Claim, TwiClaim, Done, TwiDone, Step, wireClassVars,
                callVars
  <2> QED
    BY <2>1 DEF Prepared, InWrite, txVars
<1>7. CASE Return
  <2>1. pc' = "idle" /\ (UNCHANGED txVars \/ ~transmitting')
    BY <1>7 DEF Return, TwiReturn, Step
  <2> QED
    BY <2>1 DEF Prepared, InWrite, txVars
<1>8. CASE (IrqQuiet /\ UNCHANGED wireClassVars) \/ onReceiveService \/ OnBus
  <2>1. UNCHANGED <<txVars, pc, call>>
    BY <1>8 DEF OnBus, Bus, ForeignStart, ForeignStop, UnitStart, UnitAddress, UnitSend, UnitReceive,
         SlaveAddressed, SlaveByte, SlaveStop, SlaveSent, UnitBusError, Event, callVars, onReceiveService,
         wireClassVars, IrqQuiet, IrqStart, IrqMtAck, IrqMtNack, IrqArbLost, IrqMrAck, IrqMrDataNack,
         IrqMrSlaNack, IrqSrSlaAck, IrqSrDataAck, IrqSrDataNack, IrqStDataAck, IrqStDone, IrqBusError,
         IrqSrStop, Irq
  <2> QED
    BY <2>1 DEF Prepared, InWrite, txVars
<1>9. ASSUME NEW length \in Lengths \cup {0}, onRequestService(length)
      PROVE  Prepared'
  <2>1. UNCHANGED <<pc, call, transmitting>> /\ TWCR.TWINT /\ TWSR = "ST_SLA_ACK"
    BY <1>9 DEF onRequestService, IrqStSlaAck, Irq, IrqPending, callVars
  <2>2. mode = "st"
    BY <2>1 DEF DriverInv, ControlInv, StatusTells
  <2>3. ~transmitting
    BY <2>2 DEF Prepared, Alone, AsSlave
  <2> QED
    BY <2>1, <2>3 DEF Prepared, InWrite
<1> QED
  BY <1>1, <1>2, <1>3, <1>4, <1>5, <1>6, <1>7, <1>8, <1>9, WireNextIs DEF Sketched, Handled, Calling

------------------------------------------------------------------------------
(* When the main line has the result, or a call that writes has not yet    *)
(* told the unit to start or is over, the unit does nothing.               *)
Rest == pc = "ret" \/ (InWrite /\ pc = "start") \/ (Underway /\ ~Sending)

LEMMA RestingUnit ==
    ASSUME ~HeldUp, DriverInv, NoHold, Alone, Prepared, Calm, Rest, Bus, Bounded
    PROVE  UNCHANGED <<TWCR, TWSR, TWDR, mode, heard, answered>>
<1>1. ~TWCR.TWINT /\ ~twi_inRepStart
  BY DEF Calm, Rest, NoHold
<1>2. ~InMyCall
  BY DEF Rest, InMyCall, Mine, Underway, InWrite, Sending
<1>3. mode \notin AsMaster /\ (TWCR.TWSTA => mode \in AsSlave)
  BY <1>1, <1>2 DEF DriverInv, ControlInv, MasterInCall, StartInCall
<1>4. pc = "ret" \/ (mode \notin AsSlave /\ ~foreign)
  BY DEF Rest, Underway, Prepared, Alone
<1>5. ~UnitStart /\ ~UnitAddress /\ ~UnitSend /\ ~UnitReceive
  BY <1>3 DEF UnitStart, UnitAddress, UnitSend, UnitReceive, AsMaster, AsSlave
<1>6. ~SlaveAddressed /\ ~SlaveByte /\ ~SlaveStop /\ ~SlaveSent
  BY <1>4 DEF SlaveAddressed, SlaveByte, SlaveStop, SlaveSent, InWindow, AsSlave
<1>7. ~UnitBusError
  <2>1. mode \in {"none"} \cup AsMaster \cup AsSlave
    BY DEF DriverInv, ControlInv, ControlTypes
  <2> QED
    BY <1>3, <1>4, <2>1 DEF UnitBusError, InWindow
<1> QED
  BY <1>5, <1>6, <1>7 DEF Bus, ForeignStart, ForeignStop, unitVars, wireVars

(* The bus leaves the main line and the driver alone.                      *)
LEMMA OnBusIs ==
    ASSUME OnBus
    PROVE  Bus /\ UNCHANGED <<pc, call, ret, driverVars, wireClassVars>>
BY DEF OnBus, Bus, ForeignStart, ForeignStop, UnitStart, UnitAddress, UnitSend, UnitReceive,
       SlaveAddressed, SlaveByte, SlaveStop, SlaveSent, UnitBusError, Event, callVars

(* The handler runs if an event waits, and leaves none behind.             *)
LEMMA TwiIrqIs ==
    ASSUME TwiIrq
    PROVE  /\ IrqPending /\ ~TWCR'.TWINT /\ TWSR' = "NO_INFO" /\ UNCHANGED <<pc, call, ret, heard, answered>>
           /\ mode' = mode \/ mode' = "none"
<1>1. IrqPending /\ TWSR' = "NO_INFO" /\ UNCHANGED <<pc, call, ret, heard, answered>>
  BY DEF TwiIrq, IrqQuiet, IrqStart, IrqMtAck, IrqMtNack, IrqArbLost, IrqMrAck, IrqMrDataNack,
         IrqMrSlaNack, IrqSrSlaAck, IrqSrDataAck, IrqSrDataNack, IrqStDataAck, IrqStDone, IrqBusError,
         IrqSrStop, IrqStSlaAck, Irq, callVars
<1>3. ~TWCR'.TWINT
  <2>1. CASE IrqStart \/ IrqMtNack \/ IrqArbLost \/ IrqMrSlaNack \/ IrqSrSlaAck \/ IrqSrDataNack \/ IrqStDone
             \/ IrqBusError \/ IrqSrStop
    BY <2>1, ReplyIs DEF IrqStart, IrqMtNack, IrqArbLost, IrqMrSlaNack, IrqSrSlaAck, IrqSrDataNack, IrqStDone,
             IrqBusError, IrqSrStop, twi_stop, twi_releaseBus
  <2>2. CASE IrqMtAck \/ IrqMrDataNack
    BY <2>2, ReplyIs, StartsAre DEF IrqMtAck, IrqMrDataNack, FinishMaster, twi_stop
  <2>3. CASE IrqMrAck \/ IrqSrDataAck
    BY <2>3 DEF IrqMrAck, IrqSrDataAck, twi_reply
  <2>4. CASE IrqStDataAck \/ \E length \in Lengths \cup {0} : IrqStSlaAck(length)
    BY <2>4 DEF IrqStDataAck, IrqStSlaAck, LoadAnswer, twi_reply
  <2> QED
    BY <2>1, <2>2, <2>3, <2>4 DEF TwiIrq, IrqQuiet
<1>4. mode' = mode \/ mode' = "none"
  BY DEF TwiIrq, IrqQuiet, IrqStart, IrqMtAck, IrqMtNack, IrqArbLost, IrqMrAck, IrqMrDataNack,
         IrqMrSlaNack, IrqSrSlaAck, IrqSrDataAck, IrqSrDataNack, IrqStDataAck, IrqStDone, IrqBusError,
         IrqSrStop, IrqStSlaAck, busVars, FinishMaster, twi_stop, twi_releaseBus
<1> QED
  BY <1>1, <1>3, <1>4

(* No interrupt waits when the main line goes on.                          *)
LEMMA StepIs ==
    ASSUME DriverInv, NoHold, NEW from, NEW to, Step(from, to), from # "off"
    PROVE  pc = from /\ pc' = to /\ ~TWCR.TWINT
BY DEF Step, IrqPending, DriverInv, ControlInv, TurnedOff, NoHold

LEMMA CalmKept ==
    ASSUME ~HeldUp, DriverInv, NoHold, Alone, Prepared, Calm, WireNext, Bounded
    PROVE  Calm'
<1>1. CASE Handled
  BY <1>1, HandledIs, TwiIrqIs DEF Calm
<1>2. CASE OnBus
  <2>1. Rest' = Rest
    BY <1>2, OnBusIs DEF Rest, InWrite, Underway, Sending, driverVars, stateVars
  <2>2. Calm /\ Rest => UNCHANGED TWCR
    BY <1>2, OnBusIs, RestingUnit
  <2>3. Rest => ~TWCR.TWINT
    BY DEF Rest, Calm
  <2>4. Rest' => ~TWCR'.TWINT
    BY <2>1, <2>2, <2>3
  <2> QED
    BY <2>4 DEF Calm, Rest
<1>3. CASE Sketched \/ Calling \/ Return \/ (TwiReady \/ TwiDisable)
  <2>1. pc' \notin {"start", "busy", "ret"}
    BY <1>3 DEF Sketched, begin, TwiInitAgain, beginTransmission, write, read, Calling, endTransmission,
         requestFrom, TwiCall, Return, TwiReturn, TwiReady, TwiDisable, Step
  <2> QED
    BY <2>1 DEF Calm, Underway
<1>4. CASE Claim \/ Done
  <2>1. UNCHANGED TWCR /\ (Step("claim", "start") \/ Step("busy", "ret"))
    BY <1>4 DEF Claim, TwiClaim, Done, TwiDone, unitVars
  <2>2. ~TWCR'.TWINT
    BY <2>1, StepIs
  <2> QED
    BY <2>2 DEF Calm
<1>5. CASE TwiStart
  <2>1. ~TWCR'.TWINT
    BY <1>5, ReplyIs, StartsAre DEF TwiStart
  <2> QED
    BY <2>1 DEF Calm
<1> QED
  BY <1>1, <1>2, <1>3, <1>4, <1>5, WireNextIs DEF InDriver

------------------------------------------------------------------------------
(* A transaction that sends, step by step.                                 *)
SendInv == Loaded /\ HeardPart /\ Progress /\ Ended /\ Coded

LEMMA NotUnderway ==
    ASSUME ~Underway'
    PROVE  SendInv'
BY DEF SendInv, Loaded, HeardPart, Progress, Ended, Coded, Underway, InWrite

(* Nothing that matters to the transaction changes.                        *)
LEMMA SendStill ==
    ASSUME SendInv,
           UNCHANGED <<pc, call, ret, twi_state, twi_error, twi_masterBuffer, twi_masterBufferIndex,
                       wanted, heard, TWCR, TWSR, TWDR, mode>>
    PROVE  SendInv'
<1>1. Underway' = Underway /\ Sending' = Sending /\ WriteCode' = WriteCode
  BY DEF Underway, InWrite, Sending, WriteCode
<1>2. Waits("MT_SLA_ACK")' = Waits("MT_SLA_ACK") /\ Waits("MT_SLA_NACK")' = Waits("MT_SLA_NACK")
      /\ Waits("MT_DATA_ACK")' = Waits("MT_DATA_ACK") /\ Waits("MT_DATA_NACK")' = Waits("MT_DATA_NACK")
  BY DEF Waits
<1> HIDE DEF Underway, Sending, Waits
<1>3. Loaded' /\ HeardPart'
  BY <1>1 DEF SendInv, Loaded, HeardPart
<1>4. Progress'
  BY <1>1, <1>2 DEF SendInv, Progress
<1>5. Ended' /\ Coded'
  BY <1>1 DEF SendInv, Ended, Coded
<1> QED
  BY <1>3, <1>4, <1>5 DEF SendInv

(* In a transaction the unit is alone on the bus, and what the driver has  *)
(* been told is what the sketch wrote.                                     *)
LEMMA SendingIs ==
    ASSUME DriverInv, WriteInv, Underway, Sending
    PROVE  /\ quiet /\ ~foreign /\ mode \in {"none", "address", "mt"} /\ ~twi_inRepStart /\ twi_sendStop
           /\ twi_slarw = "write" /\ Len(wanted) = call.len /\ Len(wanted) \in 0 .. BufferLength
           /\ twi_masterBufferLength = call.len /\ twi_masterBufferIndex \in Nat /\ Len(heard) \in Nat
           /\ wanted \in Seq(AnyByte) /\ heard \in Seq(AnyByte) /\ TWDR \in AnyByte
           /\ TWCR \in Control
<1>1. quiet /\ ~foreign /\ ~twi_inRepStart /\ twi_sendStop /\ mode \notin AsSlave
  BY DEF WriteInv, Prepared, Alone, NoHold, Underway
<1>2. mode # "mr" /\ twi_slarw = "write" /\ twi_masterBufferLength = call.len
  BY <1>1 DEF DriverInv, ReadInv, Direction, Underway, InWrite, Sending
<1>3. mode \in {"none", "address", "mt"}
  BY <1>1, <1>2 DEF DriverInv, ControlInv, ControlTypes, AsMaster, AsSlave
<1>4. Len(wanted) = call.len /\ call.len \in 0 .. BufferLength
  BY DEF WriteInv, Prepared, Underway, DriverInv, ControlInv, ControlTypes
<1>5. /\ wanted \in Seq(AnyByte) /\ heard \in Seq(AnyByte) /\ Len(heard) \in Nat
      /\ TWDR \in AnyByte /\ twi_masterBufferIndex \in Nat /\ TWCR \in Control
  BY LenProperties DEF WriteInv, WireTypes, DriverInv, ReadInv, ReadTypes, ControlInv, ControlTypes
<1> QED
  BY <1>1, <1>2, <1>3, <1>4, <1>5

LEMMA SendOnBus ==
    ASSUME ~HeldUp, DriverInv, WriteInv, OnBus, Bounded
    PROVE  SendInv'
<1>0. SendInv
  BY DEF SendInv, WriteInv
<1>1. Bus /\ UNCHANGED <<pc, call, ret, twi_state, twi_error, twi_masterBuffer, twi_masterBufferIndex, wanted>>
  BY OnBusIs DEF driverVars, stateVars, bufferVars, masterVars, wireClassVars, txVars
<1>2. Underway' = Underway /\ Sending' = Sending
  BY <1>1 DEF Underway, InWrite, Sending
<1>3. CASE ~Underway
  BY <1>2, <1>3, NotUnderway
<1>4. CASE Underway /\ (~Sending \/ pc = "start")
  <2>1. UNCHANGED <<TWCR, TWSR, TWDR, mode, heard>>
    BY <1>1, <1>4, RestingUnit DEF Rest, WriteInv, Underway
  <2> QED
    BY <1>0, <1>1, <2>1, SendStill
<1>5. CASE Underway /\ Sending /\ pc = "busy"
  <2>1. /\ quiet /\ ~foreign /\ mode \in {"none", "address", "mt"} /\ ~twi_inRepStart
        /\ twi_slarw = "write" /\ twi_masterBufferIndex \in Nat /\ Len(heard) \in Nat
        /\ Len(wanted) \in Nat /\ wanted \in Seq(AnyByte) /\ heard \in Seq(AnyByte) /\ TWDR \in AnyByte
        /\ TWCR \in Control
    BY <1>5, SendingIs
  <2>2. ~foreign' /\ Coded'
    BY <1>1, <1>5, <2>1 DEF Bounded, Coded
  <2>3. Loaded' /\ Ended'
    BY <1>0, <1>1, <1>2, <1>5 DEF SendInv, Loaded, Ended
  <2>4. /\ twi_masterBufferIndex <= Len(wanted) /\ Len(heard) <= Len(wanted)
        /\ \A k \in 1 .. Len(heard) : heard[k] = wanted[k]
    BY <1>0, <1>5 DEF SendInv, HeardPart
  <2>5. /\ twi_error = "none"
        /\ mode = "none" => ~TWCR.TWINT
        /\ mode = "mt" \/ (mode = "address" /\ ~TWCR.TWINT) => ~TWCR.TWSTA
        /\ mode # "mt" => twi_masterBufferIndex = 0
        /\ mode = "mt" /\ ~TWCR.TWINT => twi_masterBufferIndex > 0
        /\ twi_masterBufferIndex > 0 => TWDR = wanted[twi_masterBufferIndex]
        /\ ~TWCR.TWINT => Len(heard) = IF twi_masterBufferIndex = 0 THEN twi_masterBufferIndex
                                       ELSE twi_masterBufferIndex - 1
    BY <1>0, <1>5 DEF SendInv, Progress, Waits
  <2>6. CASE UNCHANGED <<unitVars, mode, wireVars>>
    BY <1>0, <1>1, <2>6, SendStill DEF unitVars, wireVars
  \* An event that does not give the slave a byte.
  <2>7. ASSUME NEW status, NEW next \in {"address", "mt"}, Event(status, next), ~TWCR.TWINT,
               UNCHANGED <<TWDR, heard>>, status # "MT_DATA_ACK",
               next = "mt" => mode # "none" /\ ~TWCR.TWSTA,
               next = "address" => mode # "mt",
               status \in {"MT_SLA_ACK", "MT_SLA_NACK"} => mode = "address",
               next = "mt" /\ mode = "address" => status \in {"MT_SLA_ACK", "MT_SLA_NACK"},
               status = "MT_DATA_NACK" => mode = "mt"
        PROVE  SendInv'
    <3>1. /\ TWCR'.TWINT /\ TWCR'.TWSTA = TWCR.TWSTA /\ TWSR' = status /\ mode' = next
      BY <2>1, <2>7, EventIs
    <3>2. HeardPart'
      BY <1>1, <2>4, <2>7 DEF HeardPart
    <3>3. Progress'
      BY <1>1, <2>1, <2>5, <2>7, <3>1 DEF Progress, Waits
    <3> QED
      BY <2>2, <2>3, <3>2, <3>3 DEF SendInv
  <2>8. CASE UnitStart
    <3>1. ~TWCR.TWINT /\ mode = "none" /\ (Event("START", "address") \/ Event("REP_START", "address"))
          /\ UNCHANGED <<TWDR, heard>>
      BY <2>1, <2>5, <2>8 DEF UnitStart, wireVars
    <3> QED
      BY <2>7, <3>1
  <2>9. CASE UnitAddress
    <3>1. ~TWCR.TWINT /\ mode = "address" /\ (Event("MT_SLA_ACK", "mt") \/ Event("MT_SLA_NACK", "mt"))
          /\ UNCHANGED <<TWDR, heard>>
      BY <2>1, <2>2, <2>9 DEF UnitAddress
    <3> QED
      BY <2>5, <2>7, <3>1
  <2>10. CASE UnitSend
    <3>1. /\ ~TWCR.TWINT /\ ~TWCR.TWSTA /\ mode = "mt" /\ TWDR' = TWDR
          /\ \/ Event("MT_DATA_ACK", "mt") /\ heard' = Append(heard, TWDR)
             \/ Event("MT_DATA_NACK", "mt") /\ heard' = heard
      BY <2>2, <2>10 DEF UnitSend
    <3>2. CASE Event("MT_DATA_NACK", "mt") /\ heard' = heard
      BY <2>7, <3>1, <3>2
    <3>3. CASE Event("MT_DATA_ACK", "mt") /\ heard' = Append(heard, TWDR)
      <4>1. /\ TWCR'.TWINT /\ TWCR'.TWSTA = TWCR.TWSTA /\ TWSR' = "MT_DATA_ACK" /\ mode' = "mt"
        BY <2>1, <3>3, EventIs
      <4>2. /\ Len(heard') = Len(heard) + 1 /\ heard'[Len(heard) + 1] = TWDR
            /\ \A k \in 1 .. Len(heard) : heard'[k] = heard[k]
        BY <2>1, <3>3, Grown
      <4>3. twi_masterBufferIndex > 0 /\ Len(heard) = twi_masterBufferIndex - 1 /\ TWDR = wanted[Len(heard) + 1]
        BY <2>1, <2>5, <3>1
      <4>4. \A k \in 1 .. Len(heard) + 1 : heard'[k] = wanted[k]
        BY <2>1, <2>4, <4>2, <4>3
      <4>5. HeardPart'
        BY <1>1, <2>1, <2>4, <4>2, <4>3, <4>4 DEF HeardPart
      <4>6. Progress'
        BY <1>1, <2>1, <2>5, <3>1, <4>1, <4>2, <4>3 DEF Progress, Waits
      <4> QED
        BY <2>2, <2>3, <4>5, <4>6 DEF SendInv
    <3> QED
      BY <3>1, <3>2, <3>3
  <2>11. CASE UnitBusError
    <3>1. /\ ~TWCR.TWINT /\ mode # "none" /\ (mode = "mt" => ~TWCR.TWSTA) /\ Event("BUS_ERROR", mode)
          /\ UNCHANGED <<TWDR, heard>>
      BY <2>11 DEF UnitBusError, wireVars
    <3> QED
      BY <2>1, <2>7, <3>1
  <2> QED
    BY <1>1, <2>1, <2>6, <2>8, <2>9, <2>10, <2>11 DEF Bus, ForeignStart, ForeignStop, UnitReceive,
       SlaveAddressed, SlaveByte, SlaveStop, SlaveSent
<1> QED
  BY <1>3, <1>4, <1>5 DEF Sending

LEMMA SendHandled ==
    ASSUME DriverInv, WriteInv, Handled
    PROVE  SendInv'
<1>0. SendInv
  BY DEF SendInv, WriteInv
<1>1. /\ TwiIrq /\ IrqPending /\ ~TWCR'.TWINT /\ UNCHANGED <<pc, call, ret, heard, wanted, answered>>
      /\ mode' = mode \/ mode' = "none"
  BY HandledIs, TwiIrqIs
<1>2. TWCR.TWINT /\ Underway' = Underway
  BY <1>1 DEF IrqPending, Underway, InWrite
<1>3. CASE ~Underway
  BY <1>2, <1>3, NotUnderway
<1>4. CASE Underway
  <2>1. Sending /\ pc = "busy" /\ twi_state = "MTX"
    BY <1>2, <1>4 DEF WriteInv, Calm, Sending, Underway
  <2>2. /\ mode \in {"none", "address", "mt"} /\ ~twi_inRepStart /\ twi_sendStop
        /\ Len(wanted) = call.len /\ Len(wanted) \in 0 .. BufferLength
        /\ twi_masterBufferLength = call.len /\ twi_masterBufferIndex \in Nat /\ Len(heard) \in Nat
        /\ TWCR \in Control
    BY <1>4, <2>1, SendingIs
  <2>3. /\ twi_error = "none" /\ mode \in {"address", "mt"}
        /\ mode # "mt" => twi_masterBufferIndex = 0
        /\ TWSR \in {"MT_SLA_ACK", "MT_SLA_NACK"} => twi_masterBufferIndex = 0
        /\ TWSR = "MT_DATA_NACK" => twi_masterBufferIndex > 0
        /\ twi_masterBufferIndex > 0 => TWDR = wanted[twi_masterBufferIndex]
        /\ Len(heard) = IF twi_masterBufferIndex = 0 \/ TWSR = "MT_DATA_ACK"
                        THEN twi_masterBufferIndex ELSE twi_masterBufferIndex - 1
    BY <1>0, <1>2, <1>4, <2>1, <2>2 DEF SendInv, Progress, Waits
  <2>4. /\ twi_masterBufferIndex <= Len(wanted) /\ Len(heard) <= Len(wanted)
        /\ \A k \in 1 .. Len(heard) : heard[k] = wanted[k]
        /\ \A k \in 1 .. Len(wanted) : twi_masterBuffer[k - 1] = wanted[k]
    BY <1>0, <1>4 DEF SendInv, HeardPart, Loaded
  <2>5. Coded'
    BY <1>1, <2>1 DEF Coded
  <2>6. IrqStart \/ IrqMtAck \/ IrqMtNack \/ IrqBusError
    BY <1>1, <1>2, <2>3 DEF TwiIrq, IrqQuiet, IrqArbLost, IrqMrAck, IrqMrDataNack,
         IrqMrSlaNack, IrqSrSlaAck, IrqSrDataAck, IrqSrDataNack, IrqStDataAck, IrqStDone,
         IrqSrStop, IrqStSlaAck, Irq, DriverInv, ControlInv, StatusTells
  \* The transaction ends.
  <2>7. ASSUME UNCHANGED <<twi_masterBuffer, twi_masterBufferIndex>>, twi_state' = "READY",
               \/ twi_error' = "none" /\ Len(heard) = Len(wanted)
               \/ twi_error' = "MT_SLA_NACK" /\ Len(heard) = 0
               \/ twi_error' = "MT_DATA_NACK" /\ Len(heard) < Len(wanted)
               \/ twi_error' = "BUS_ERROR"
        PROVE  SendInv'
    <3>1. ~Sending'
      BY <1>1, <2>1, <2>7 DEF Sending
    <3>2. Loaded' /\ HeardPart'
      BY <1>1, <2>4, <2>7 DEF Loaded, HeardPart
    <3>3. Progress' /\ Ended'
      BY <1>1, <2>2, <2>7, <3>1 DEF Progress, Ended
    <3> QED
      BY <2>5, <3>2, <3>3 DEF SendInv
  \* It goes on.
  <2>8. ASSUME UNCHANGED <<twi_masterBuffer, twi_state, twi_error, mode>>, ~TWCR'.TWSTA,
               \/ UNCHANGED <<TWDR, twi_masterBufferIndex>> /\ twi_masterBufferIndex = 0 /\ mode = "address"
               \/ /\ twi_masterBufferIndex' = twi_masterBufferIndex + 1 /\ mode = "mt"
                  /\ twi_masterBufferIndex < Len(wanted) /\ TWDR' = twi_masterBuffer[twi_masterBufferIndex]
                  /\ Len(heard) = twi_masterBufferIndex
        PROVE  SendInv'
    <3>1. Sending' /\ ~Waits("MT_SLA_ACK")' /\ ~Waits("MT_SLA_NACK")' /\ ~Waits("MT_DATA_ACK")'
          /\ ~Waits("MT_DATA_NACK")'
      BY <1>1, <2>1, <2>8 DEF Sending, Waits
    <3>2. Loaded' /\ Ended'
      BY <1>1, <2>4, <2>8, <3>1 DEF Loaded, Ended
    <3>3. twi_masterBufferIndex' <= Len(wanted)
      BY <2>2, <2>4, <2>8
    <3>4. HeardPart'
      BY <1>1, <2>4, <3>3 DEF HeardPart
    <3>5. twi_masterBufferIndex' > 0 => TWDR' = wanted[twi_masterBufferIndex']
      <4>1. CASE twi_masterBufferIndex' = twi_masterBufferIndex /\ twi_masterBufferIndex = 0
        BY <4>1
      <4>2. CASE twi_masterBufferIndex' = twi_masterBufferIndex + 1 /\ twi_masterBufferIndex < Len(wanted)
                 /\ TWDR' = twi_masterBuffer[twi_masterBufferIndex]
        <5>1. twi_masterBufferIndex + 1 \in 1 .. Len(wanted)
          BY <2>2, <4>2
        <5>2. twi_masterBuffer[(twi_masterBufferIndex + 1) - 1] = wanted[twi_masterBufferIndex + 1]
          BY <2>4, <5>1
        <5>3. (twi_masterBufferIndex + 1) - 1 = twi_masterBufferIndex
          BY <2>2
        <5> QED
          BY <4>2, <5>2, <5>3
      <4> QED
        BY <2>8, <4>1, <4>2
    <3>6. Progress'
      BY <1>1, <2>2, <2>3, <2>8, <3>1, <3>5 DEF Progress
    <3> QED
      BY <2>5, <3>2, <3>4, <3>6 DEF SendInv
  <2>9. CASE IrqStart
    <3>1. /\ UNCHANGED <<twi_masterBuffer, twi_masterBufferIndex, twi_state, twi_error, mode, TWDR>>
          /\ TWCR' = twi_reply(TRUE) /\ TWSR \in {"START", "REP_START"}
      BY <2>9 DEF IrqStart, Irq, stateVars, bufferVars, masterVars, busVars
    <3>2. mode = "address"
      BY <1>2, <3>1 DEF DriverInv, ControlInv, StatusTells
    <3> QED
      BY <2>3, <2>8, <3>1, <3>2, ReplyIs
  <2>10. CASE IrqMtAck
    <3>1. mode = "mt" /\ twi_masterBuffer' = twi_masterBuffer /\ twi_error' = twi_error
          /\ TWSR \in {"MT_SLA_ACK", "MT_DATA_ACK"}
      BY <1>2, <2>10 DEF IrqMtAck, Irq, DriverInv, ControlInv, StatusTells
    <3>2. Len(heard) = twi_masterBufferIndex
      BY <2>2, <2>3, <3>1
    <3>3. CASE twi_masterBufferIndex < twi_masterBufferLength
      <4>1. /\ TWDR' = twi_masterBuffer[twi_masterBufferIndex]
            /\ twi_masterBufferIndex' = twi_masterBufferIndex + 1
            /\ TWCR' = twi_reply(TRUE) /\ UNCHANGED <<twi_state, mode>>
        BY <2>10, <3>3 DEF IrqMtAck
      <4>2. ~TWCR'.TWSTA
        BY <4>1, ReplyIs
      <4> QED
        BY <2>2, <2>8, <3>1, <3>2, <3>3, <4>1, <4>2
    <3>4. CASE ~(twi_masterBufferIndex < twi_masterBufferLength)
      <4>1. twi_state' = "READY" /\ twi_masterBufferIndex' = twi_masterBufferIndex
        BY <2>10, <3>4 DEF IrqMtAck, FinishMaster, twi_stop
      <4>2. Len(heard) = Len(wanted)
        BY <2>2, <2>4, <3>2, <3>4
      <4> QED
        BY <2>3, <2>7, <3>1, <4>1, <4>2
    <3> QED
      BY <3>3, <3>4
  <2>11. CASE IrqMtNack
    <3>1. /\ UNCHANGED <<twi_masterBuffer, twi_masterBufferIndex>> /\ twi_state' = "READY"
          /\ twi_error' = TWSR /\ TWSR \in {"MT_SLA_NACK", "MT_DATA_NACK"}
      BY <2>11 DEF IrqMtNack, Irq, twi_stop, bufferVars, masterVars
    <3>2. TWSR = "MT_SLA_NACK" => Len(heard) = 0
      BY <2>3
    <3>3. TWSR = "MT_DATA_NACK" => Len(heard) < Len(wanted)
      BY <2>2, <2>3, <2>4
    <3> QED
      BY <2>7, <3>1, <3>2, <3>3
  <2>12. CASE IrqBusError
    <3>1. /\ UNCHANGED <<twi_masterBuffer, twi_masterBufferIndex>> /\ twi_state' = "READY"
          /\ twi_error' = "BUS_ERROR"
      BY <2>12 DEF IrqBusError, twi_stop, bufferVars, masterVars
    <3> QED
      BY <2>7, <3>1
  <2> QED
    BY <2>6, <2>9, <2>10, <2>11, <2>12
<1> QED
  BY <1>3, <1>4

LEMMA SendMain ==
    ASSUME DriverInv, WriteInv, Calm', Sketched \/ Calling \/ InDriver \/ Claim \/ Done \/ Return
    PROVE  SendInv'
<1>0. SendInv
  BY DEF SendInv, WriteInv
<1>1. CASE Sketched \/ Calling \/ Return \/ TwiReady \/ TwiDisable
  <2>1. pc' \notin {"start", "busy", "ret"}
    BY <1>1 DEF Sketched, begin, TwiInitAgain, beginTransmission, write, read, Calling, endTransmission,
         requestFrom, TwiCall, Return, TwiReturn, TwiReady, TwiDisable, Step
  <2> QED
    BY <2>1, NotUnderway DEF Underway
<1>2. CASE Claim
  <2> DEFINE data == [k \in 1 .. call.len |-> txBuffer[k - 1]]
  <2>1. TwiClaim(data) /\ UNCHANGED wireClassVars
    BY <1>2 DEF Claim
  <2>2. /\ pc = "claim" /\ pc' = "start" /\ call' = call /\ UNCHANGED <<mode, TWCR>>
        /\ twi_error' = "none" /\ twi_masterBufferIndex' = 0 /\ heard' = <<>> /\ UNCHANGED <<wanted, TWSR>>
    BY <2>1 DEF TwiClaim, Step, callVars, busVars, unitVars, wireClassVars, txVars
  <2>3. CASE call.op # "write"
    BY <2>2, <2>3, NotUnderway DEF Underway, InWrite
  <2>4. CASE call.op = "write"
    <3>1. twi_masterBuffer' = [k \in Slot |-> IF k < call.len THEN data[k + 1] ELSE twi_masterBuffer[k]]
      BY <2>1, <2>4 DEF TwiClaim
    <3>2. /\ Len(wanted) = call.len /\ call.len \in 0 .. BufferLength /\ BufferLength \in Nat
          /\ \A k \in 1 .. Len(wanted) : txBuffer[k - 1] = wanted[k]
          /\ transmitting
      BY <2>2, <2>4, TwiAssumption DEF TwiAssumption, WriteInv, Prepared, InWrite, DriverInv, ControlInv,
         ControlTypes
    <3>3. Len(heard') = 0
      BY <2>2, EmptySeq
    <3>4. ASSUME NEW k \in 1 .. Len(wanted) PROVE twi_masterBuffer'[k - 1] = wanted[k]
      <4>1. k - 1 \in Slot /\ k - 1 < call.len /\ (k - 1) + 1 = k /\ k \in 1 .. call.len
        BY <3>2 DEF Slot
      <4>2. twi_masterBuffer'[k - 1] = data[(k - 1) + 1]
        BY <3>1, <4>1
      <4>3. data[k] = txBuffer[k - 1]
        BY <4>1
      <4> QED
        BY <3>2, <4>1, <4>2, <4>3
    <3>5. Loaded'
      BY <2>2, <3>4 DEF Loaded
    <3>6. HeardPart'
      <4>1. 0 <= Len(wanted)
        BY <3>2
      <4>2. \A k \in 1 .. Len(heard') : heard'[k] = wanted'[k]
        BY <3>3
      <4> QED
        BY <2>2, <3>3, <4>1, <4>2 DEF HeardPart
    <3>7. ~TWCR'.TWINT
      <4>1. InWrite' /\ pc' = "start"
        BY <2>2, <2>4 DEF InWrite
      <4> QED
        BY <4>1 DEF Calm
    <3>8. mode' \notin {"address", "mt"}
      BY <2>2 DEF DriverInv, ControlInv, MasterInCall, InMyCall, WriteInv, NoHold, AsMaster
    <3>9. Progress' /\ Ended' /\ Coded'
      BY <2>2, <3>3, <3>7, <3>8 DEF Progress, Ended, Coded, Waits, Sending
    <3> QED
      BY <3>5, <3>6, <3>9 DEF SendInv
  <2> QED
    BY <2>3, <2>4
<1>3. CASE TwiStart /\ UNCHANGED wireClassVars
  <2>1. /\ pc = "start" /\ pc' = "busy" /\ call' = call /\ mode' = mode
        /\ UNCHANGED <<twi_state, twi_error, twi_masterBuffer, twi_masterBufferIndex, heard, wanted, TWDR>>
    BY <1>3 DEF TwiStart, Step, callVars, bufferVars, masterVars, busVars, wireVars, wireClassVars, txVars
  <2>2. CASE ~Underway
    <3>1. ~Underway'
      BY <2>1, <2>2 DEF Underway, InWrite
    <3> QED
      BY <3>1, NotUnderway
  <2>3. CASE Underway
    <3>1. Sending /\ mode \notin AsSlave
      BY <2>1, <2>3 DEF Sending, Underway, WriteInv, Prepared, Alone
    <3>2. twi_state = "MTX" /\ mode \notin AsMaster
      BY <2>1, <2>3, <3>1 DEF DriverInv, ControlInv, Claimed, Mine, MasterInCall, InMyCall, WriteInv, NoHold,
         Underway, InWrite
    <3>3. Sending' /\ ~TWCR'.TWINT
      BY <1>3, <2>1, <3>2, ReplyIs, StartsAre DEF Sending, TwiStart
    <3>4. Loaded' /\ HeardPart' /\ Ended' /\ Coded'
      BY <1>0, <2>1, <2>3, <3>3 DEF SendInv, Loaded, HeardPart, Ended, Coded
    <3>5. ~TWCR.TWINT
      BY <2>1, <2>3 DEF WriteInv, Calm, Underway
    <3>6. Progress'
      BY <1>0, <2>1, <2>3, <3>1, <3>2, <3>3, <3>5 DEF SendInv, Progress, Waits, AsMaster
    <3> QED
      BY <3>4, <3>6 DEF SendInv
  <2> QED
    BY <2>2, <2>3
<1>4. CASE Done
  <2>1. /\ pc = "busy" /\ pc' = "ret" /\ call' = call
        /\ twi_state # (IF call.op = "read" THEN "MRX" ELSE "MTX")
        /\ ret' = IF call.op = "write" THEN WriteCode ELSE ReadCount
        /\ UNCHANGED <<twi_state, twi_error, twi_masterBuffer, twi_masterBufferIndex, heard, wanted>>
    BY <1>4 DEF Done, TwiDone, Step, driverVars, stateVars, bufferVars, masterVars, wireVars, txVars
  <2>2. CASE call.op # "write"
    BY <2>1, <2>2, NotUnderway DEF Underway, InWrite
  <2>3. CASE call.op = "write"
    <3>1. Underway /\ ~Sending /\ ~Sending'
      BY <2>1, <2>3 DEF Underway, InWrite, Sending
    <3>2. WriteCode' = WriteCode
      BY <2>1 DEF WriteCode
    <3>3. Loaded' /\ HeardPart' /\ Progress' /\ Ended'
      BY <1>0, <2>1, <3>1 DEF SendInv, Loaded, HeardPart, Progress, Ended
    <3>4. Coded'
      BY <2>1, <2>3, <3>2 DEF Coded
    <3> QED
      BY <3>3, <3>4 DEF SendInv
  <2> QED
    BY <2>2, <2>3
<1> QED
  BY <1>1, <1>2, <1>3, <1>4 DEF InDriver

------------------------------------------------------------------------------
(* What is to be read, step by step.                                       *)
LEMMA KeptSame ==
    ASSUME KeptInv, Returned("read")' => Returned("read"), ~Returned("read")' => ~Returned("read"),
           UNCHANGED <<ret, twi_masterBuffer, rxVars>>, Asked'
    PROVE  KeptInv'
<1>1. UNCHANGED <<rxBuffer, rxBufferIndex, rxBufferLength, due>>
  BY DEF rxVars
<1> HIDE DEF Returned
<1>2. Fetched' /\ Kept'
  BY <1>1 DEF KeptInv, Fetched, Kept
<1> QED
  BY <1>2 DEF KeptInv

LEMMA KeptStep ==
    ASSUME DriverInv, WriteInv, KeptInv, WireNext
    PROVE  KeptInv'
<1>0. /\ BufferLength \in 1 .. 255 /\ Lengths \subseteq 0 .. BufferLength
      /\ rxBufferIndex \in Nat /\ rxBufferLength \in 0 .. BufferLength /\ Len(due) \in Nat
      /\ rxBuffer \in [Slot -> AnyByte]
  BY TwiAssumption, LenProperties DEF TwiAssumption, WriteInv, WireTypes
<1>1. CASE beginTransmission \/ write \/ endTransmission(TRUE)
  <2>1. /\ UNCHANGED <<ret, twi_masterBuffer, rxVars>> /\ ~Returned("read") /\ ~Returned("read")'
        /\ pc' = "idle" \/ call'.op = "write"
    BY <1>1 DEF beginTransmission, write, endTransmission, TwiCall, Step, Returned, callVars, driverVars,
                bufferVars, masterVars, wireClassVars
  <2> QED
    BY <2>1, KeptSame DEF Asked
<1>2. ASSUME NEW quantity \in Lengths \ {0}, requestFrom(quantity, TRUE)
      PROVE  KeptInv'
  <2>1. /\ UNCHANGED <<ret, twi_masterBuffer, rxVars>> /\ ~Returned("read") /\ ~Returned("read")'
        /\ call'.len = quantity
    BY <1>2 DEF requestFrom, TwiCall, Step, Returned, driverVars, bufferVars, masterVars, wireClassVars
  <2>2. quantity > 0
    BY <1>0
  <2> QED
    BY <2>1, <2>2, KeptSame DEF Asked
<1>3. CASE read
  <2>1. /\ pc' = "idle" /\ rxBufferIndex' = rxBufferIndex + 1 /\ UNCHANGED <<rxBuffer, rxBufferLength, due>>
        /\ pc = "idle"
    BY <1>3 DEF read, Step
  <2>2. Asked' /\ Fetched'
    BY <2>1 DEF Asked, Fetched, Returned
  <2>3. Kept'
    <3> SUFFICES ASSUME rxBufferIndex + 1 < rxBufferLength
                 PROVE  /\ rxBufferLength = Len(due)
                        /\ \A k \in rxBufferIndex + 1 .. rxBufferLength - 1 : rxBuffer[k] = due[k + 1]
      BY <2>1 DEF Kept
    <3>1. rxBufferIndex < rxBufferLength
      BY <1>0
    <3>2. /\ rxBufferLength = Len(due)
          /\ \A k \in rxBufferIndex .. rxBufferLength - 1 : rxBuffer[k] = due[k + 1]
      BY <2>1, <3>1 DEF KeptInv, Kept, Returned
    <3>3. \A k \in rxBufferIndex + 1 .. rxBufferLength - 1 : k \in rxBufferIndex .. rxBufferLength - 1
      BY <1>0
    <3> QED
      BY <3>2, <3>3
  <2> QED
    BY <2>2, <2>3 DEF KeptInv
<1>4. CASE begin
  <2>1. pc' = "idle" /\ rxBufferIndex' = 0 /\ rxBufferLength' = 0
    BY <1>4 DEF begin, TwiInitAgain, Step
  <2> QED
    BY <2>1 DEF KeptInv, Asked, Fetched, Kept, Returned
<1>5. CASE InDriver \/ Claim
  <2>1. /\ pc \notin {"ret"} /\ pc' \notin {"ret"} /\ UNCHANGED <<call, rxVars>>
        /\ pc' \notin {"idle", "off"} => pc \notin {"idle", "off"}
    BY <1>5 DEF InDriver, TwiReady, TwiStart, TwiDisable, Claim, TwiClaim, Step, wireClassVars, callVars
  <2>2. Asked' /\ Fetched'
    BY <2>1 DEF KeptInv, Asked, Fetched, Returned
  <2>3. Kept'
    BY <2>1 DEF KeptInv, Kept, Returned, rxVars
  <2> QED
    BY <2>2, <2>3 DEF KeptInv
<1>6. CASE Done
  <2>1. /\ pc = "busy" /\ pc' = "ret" /\ UNCHANGED <<call, twi_masterBuffer, rxBufferIndex, rxBufferLength, due>>
        /\ rxBuffer' = [k \in Slot |-> IF call.op = "read" /\ k < ret' THEN twi_masterBuffer[k]
                                       ELSE rxBuffer[k]]
    BY <1>6 DEF Done, TwiDone, Step, driverVars, bufferVars, masterVars
  <2>2. Asked'
    BY <2>1 DEF KeptInv, Asked
  <2>3. CASE call.op = "read"
    <3>1. ret' = ReadCount
      BY <1>6, <2>3 DEF Done, TwiDone
    <3>2. twi_masterBufferIndex \in Nat /\ call.len \in 0 .. BufferLength
      BY DEF DriverInv, ReadInv, ReadTypes, ControlInv, ControlTypes
    <3>3. ret' \in 0 .. BufferLength
      BY <1>0, <3>1, <3>2 DEF ReadCount
    <3>4. \A k \in 0 .. ret' - 1 : k \in Slot /\ k < ret'
      <4>1. PICK n \in 0 .. BufferLength : ret' = n
        BY <3>3
      <4>2. \A k \in 0 .. n - 1 : k \in Slot /\ k < n
        BY <1>0 DEF Slot
      <4> QED
        BY <4>1, <4>2
    <3>5. Fetched'
      BY <2>1, <2>3, <3>4 DEF Fetched
    <3>6. Kept'
      BY <2>1, <2>3 DEF Kept, Returned
    <3> QED
      BY <2>2, <3>5, <3>6 DEF KeptInv
  <2>4. CASE call.op # "read"
    <3>1. rxBuffer' = rxBuffer
      BY <1>0, <2>1, <2>4
    <3>2. Fetched' /\ Kept'
      BY <2>1, <2>4, <3>1 DEF KeptInv, Fetched, Kept, Returned
    <3> QED
      BY <2>2, <3>2 DEF KeptInv
  <2> QED
    BY <2>3, <2>4
<1>7. CASE Return
  <2>1. pc = "ret" /\ pc' = "idle"
    BY <1>7 DEF Return, TwiReturn, Step
  <2>2. Asked' /\ Fetched'
    BY <2>1 DEF Asked, Fetched, Returned
  <2>3. CASE call.op # "read"
    <3>1. UNCHANGED rxVars
      BY <1>7, <2>3 DEF Return
    <3>2. Kept'
      BY <2>1, <2>3, <3>1 DEF KeptInv, Kept, Returned, rxVars
    <3> QED
      BY <2>2, <3>2 DEF KeptInv
  <2>4. CASE call.op = "read"
    <3>1. /\ rxBufferIndex' = 0 /\ rxBufferLength' = ret /\ due' = SubSeq(answered, 1, ret)
          /\ rxBuffer' = rxBuffer
      BY <1>7, <2>4 DEF Return
    <3>2. /\ call.len > 0 /\ ret = twi_masterBufferIndex /\ ret \in Nat
      BY <2>1, <2>4, TwiAssumption DEF TwiAssumption, KeptInv, Asked, DriverInv, ReadInv, Answer, ControlInv,
         ControlTypes
    <3>3. /\ Len(answered) = ret /\ \A k \in 1 .. ret : twi_masterBuffer[k - 1] = answered[k]
      BY <2>1, <2>4, <3>2 DEF DriverInv, ReadInv, Counted, Copied, Reading, ByteWaits, InRead
    <3>4. answered \in Seq(AnyByte) /\ \A k \in 1 .. ret : answered[k] \in AnyByte
      BY <3>2, <3>3, ElementOfSeq DEF DriverInv, ReadInv, ReadTypes
    <3>5. Len(due') = ret /\ \A k \in 1 .. ret : due'[k] = answered[k]
      BY <3>1, <3>2, <3>3, <3>4, SubSeqProperties
    <3>6. ASSUME NEW k \in 0 .. ret - 1 PROVE rxBuffer[k] = due'[k + 1]
      <4>1. k + 1 \in 1 .. ret /\ (k + 1) - 1 = k
        BY <3>2
      <4>2. rxBuffer[k] = twi_masterBuffer[k]
        BY <2>1, <2>4 DEF KeptInv, Fetched, Returned
      <4>3. twi_masterBuffer[(k + 1) - 1] = answered[k + 1]
        BY <3>3, <4>1
      <4> QED
        BY <3>5, <4>1, <4>2, <4>3
    <3>7. Kept'
      BY <3>1, <3>5, <3>6 DEF Kept
    <3> QED
      BY <2>2, <3>7 DEF KeptInv
  <2> QED
    BY <2>3, <2>4
<1>8. CASE Handled
  <2>1. TwiIrq /\ IrqPending /\ UNCHANGED <<pc, call, ret>>
    BY <1>8, HandledIs, TwiIrqIs
  <2>2. pc # "ret" /\ pc' # "ret"
    BY <2>1 DEF IrqPending, WriteInv, Calm
  <2>3. Asked' /\ Fetched'
    BY <2>1, <2>2 DEF KeptInv, Asked, Fetched, Returned
  <2>4. CASE UNCHANGED rxVars
    <3>1. Kept'
      BY <2>1, <2>2, <2>4 DEF KeptInv, Kept, Returned, rxVars
    <3> QED
      BY <2>3, <3>1 DEF KeptInv
  <2>5. CASE ~UNCHANGED rxVars
    <3>1. /\ rxBuffer' = [k \in Slot |-> IF k < Len(rx) THEN rx[k + 1] ELSE rxBuffer[k]]
          /\ rxBufferLength' = Len(rx) /\ due' = Fitting(got) /\ rxBufferIndex' \in 0 .. Len(rx)
          /\ Waits("SR_STOP")
      BY <1>8, <2>5 DEF Handled, onReceiveService, onRequestService, wireClassVars, IrqSrStop, Irq, IrqPending,
         Waits
    <3>2. Waits("SR_STOP") /\ ~Waits("SR_SLA_ACK") /\ Acknowledged = Len(got)
      BY <3>1 DEF Waits, Acknowledged
    <3>3. /\ Len(rx) <= Len(got) /\ Len(rx) <= BufferLength /\ (Len(rx) = BufferLength \/ Len(rx) = Len(got))
          /\ \A k \in 1 .. Len(rx) : rx[k] = got[k]
      BY <3>2 DEF DriverInv, Stored
    <3>4. got \in Seq(AnyByte) /\ Len(got) \in Nat /\ Len(rx) \in Nat
      BY LenProperties DEF DriverInv, ReadInv, ReadTypes
    <3>5. Fitting(got) = SubSeq(got, 1, Len(rx))
      <4>1. Len(rx) = IF Len(got) < BufferLength THEN Len(got) ELSE BufferLength
        BY <1>0, <3>3, <3>4
      <4> QED
        BY <4>1 DEF Fitting
    <3>6. \A k \in 1 .. Len(rx) : got[k] \in AnyByte
      BY <3>3, <3>4, ElementOfSeq
    <3>7. Len(due') = Len(rx) /\ \A k \in 1 .. Len(rx) : due'[k] = got[k]
      BY <3>1, <3>4, <3>5, <3>6, SubSeqProperties
    <3>8. ASSUME NEW k \in rxBufferIndex' .. Len(rx) - 1 PROVE rxBuffer'[k] = due'[k + 1]
      <4>1. k \in Slot /\ k < Len(rx) /\ k + 1 \in 1 .. Len(rx)
        BY <1>0, <3>1, <3>3, <3>4 DEF Slot
      <4> QED
        BY <3>1, <3>3, <3>7, <4>1
    <3>9. Kept'
      BY <3>1, <3>7, <3>8 DEF Kept
    <3> QED
      BY <2>3, <3>9 DEF KeptInv
  <2> QED
    BY <2>4, <2>5
<1>9. CASE OnBus
  <2>1. UNCHANGED <<pc, call, ret, twi_masterBuffer, rxVars>>
    BY <1>9, OnBusIs DEF driverVars, bufferVars, masterVars, wireClassVars
  <2>2. Asked'
    BY <2>1 DEF KeptInv, Asked
  <2> QED
    BY <2>1, <2>2, KeptSame DEF Returned
<1> QED
  BY <1>1, <1>2, <1>3, <1>4, <1>5, <1>6, <1>7, <1>8, <1>9, WireNextIs DEF Sketched, Calling

------------------------------------------------------------------------------
LEMMA WireStart == WireInit => Inv
<1> SUFFICES ASSUME WireInit PROVE Inv
  OBVIOUS
<1>1. DriverInv
  <2>1. Stored
    BY DEF WireInit, TwiInit, Stored, Waits, twi_reply
  <2> QED
    BY <2>1, DriverStart DEF WireInit, DriverInv
<1>2. Junk \in AnyByte /\ <<>> \in Seq(AnyByte) /\ Len(<<>>) = 0 /\ BufferLength \in 1 .. 255
  BY BytesAre, EmptySeq, TwiAssumption DEF Junk, TwiAssumption, Nth, AnyByte
<1>3. WireTypes
  <2>1. txBuffer \in [Slot -> AnyByte] /\ rxBuffer \in [Slot -> AnyByte]
    BY <1>2 DEF WireInit
  <2>2. transmitting \in BOOLEAN /\ quiet \in BOOLEAN
    BY DEF WireInit
  <2>3. wanted \in Seq(AnyByte) /\ due \in Seq(AnyByte) /\ heard \in Seq(AnyByte)
    BY <1>2 DEF WireInit, TwiInit
  <2>4. /\ txBufferLength \in 0 .. BufferLength /\ rxBufferLength \in 0 .. BufferLength
        /\ rxBufferIndex \in Nat
    BY <1>2 DEF WireInit
  <2> QED
    BY <2>1, <2>2, <2>3, <2>4 DEF WireTypes
<1>4. /\ pc = "idle" /\ ~twi_inRepStart /\ twi_sendStop /\ call = NoCall /\ ~foreign /\ mode = "none"
      /\ ~transmitting
  BY DEF WireInit, TwiInit
<1>5. NoHold /\ Alone /\ Prepared /\ Calm
  BY <1>4 DEF NoHold, NoCall, Alone, AsSlave, Prepared, InWrite, Calm, Underway
<1>6. Loaded /\ HeardPart /\ Progress /\ Ended /\ Coded
  BY <1>4 DEF Loaded, HeardPart, Progress, Ended, Coded, Underway
<1>7. KeptInv
  BY <1>4 DEF WireInit, KeptInv, Asked, Fetched, Kept, Returned
<1> QED
  BY <1>1, <1>3, <1>5, <1>6, <1>7 DEF Inv, WriteInv

LEMMA WireStill ==
    ASSUME Inv, UNCHANGED vars
    PROVE  Inv'
<1>1. /\ UNCHANGED <<twiVars, txVars, rxVars, quiet>>
  BY DEF vars, wireClassVars
<1>2. /\ UNCHANGED <<pc, call, ret, twi_state, twi_error, twi_sendStop, twi_inRepStart, twi_slarw>>
      /\ UNCHANGED <<twi_masterBuffer, twi_masterBufferIndex, twi_masterBufferLength, rx>>
      /\ UNCHANGED <<TWCR, TWSR, TWDR, mode, foreign, heard, answered, got>>
      /\ UNCHANGED <<transmitting, txBuffer, txBufferLength, wanted>>
      /\ UNCHANGED <<rxBuffer, rxBufferIndex, rxBufferLength, due, quiet>>
  BY <1>1 DEF twiVars, callVars, driverVars, stateVars, setupVars, bufferVars, masterVars, slaveVars,
              unitVars, busVars, wireVars, txVars, rxVars
<1>3. WireTypes' /\ Alone' /\ Prepared'
  BY <1>2 DEF Inv, WriteInv, WireTypes, Alone, Prepared, InWrite
<1>4. NoHold' /\ Calm'
  BY <1>2 DEF Inv, WriteInv, NoHold, Calm, Underway, InWrite, Sending
<1>5. SendInv'
  BY <1>2, SendStill DEF Inv, WriteInv, SendInv
<1>6. KeptInv'
  BY <1>1, <1>2, KeptSame DEF Inv, KeptInv, Asked, Returned
<1>7. Stored'
  BY <1>1, StoredStep DEF Inv, DriverInv, StoredOnly, ReadInv
<1>8. ReadInv'
  BY <1>1, ReadStep DEF Inv, DriverInv
<1>9. ControlInv'
  BY <1>2 DEF Inv, DriverInv, ControlInv, ControlTypes, StatusTells, TurnedOff, HeldBus, MasterInCall,
              StartInCall, Claimed, InMyCall, Mine
<1> QED
  BY <1>3, <1>4, <1>5, <1>6, <1>7, <1>8, <1>9 DEF Inv, DriverInv, WriteInv, SendInv

LEMMA WireStep ==
    ASSUME ~HeldUp, Inv, [WireNext /\ Bounded]_vars
    PROVE  Inv'
<1>1. CASE WireNext /\ Bounded
  <2>1. /\ WireNext /\ Bounded /\ UNCHANGED quiet /\ DriverInv /\ WriteInv /\ KeptInv
        /\ WireTypes /\ NoHold /\ Alone /\ Prepared /\ Calm
    BY <1>1 DEF Inv, WriteInv, Bounded
  <2>2. DriverInv' /\ WireTypes'
    BY <2>1, DriverKept, WireTypesKept
  <2>3. NoHold' /\ Alone' /\ Prepared' /\ Calm'
    BY <2>1, NoHoldKept, AloneKept, PreparedKept, CalmKept
  <2>4. SendInv'
    BY <2>1, <2>3, SendOnBus, SendHandled, SendMain, WireNextIs
  <2>5. KeptInv'
    BY <2>1, KeptStep
  <2> QED
    BY <2>2, <2>3, <2>4, <2>5 DEF Inv, WriteInv, SendInv
<1> QED
  BY <1>1, WireStill

(* endTransmission() returns 0 only if the slave has acknowledged all that *)
(* the sketch wrote since beginTransmission(), and else tells a NACK of    *)
(* the address from one of a byte (Wire.cpp:169-187, twi.c:207-287,        *)
(* 404-425), for every length of buffer and message.                       *)
THEOREM TellsWhatWasSent ==
    ASSUME ~HeldUp
    PROVE  WireSpec => []SentIsWanted
<1>1. Inv => SentIsWanted
  <2> SUFFICES ASSUME Inv, pc = "ret", call.op = "write"
               PROVE  /\ Len(heard) <= Len(wanted) /\ heard = SubSeq(wanted, 1, Len(heard))
                      /\ ret = 0 => heard = wanted
                      /\ ret = 2 => heard = <<>>
                      /\ ret = 3 => Len(heard) < Len(wanted)
    BY DEF SentIsWanted, Returned
  <2>1. Underway /\ ~Sending /\ ret = WriteCode
    BY DEF Underway, InWrite, Sending, Inv, WriteInv, Coded
  <2>2. /\ Len(heard) <= Len(wanted) /\ \A k \in 1 .. Len(heard) : heard[k] = wanted[k]
        /\ twi_error = "none" => Len(heard) = Len(wanted)
        /\ twi_error = "MT_SLA_NACK" => Len(heard) = 0
        /\ twi_error = "MT_DATA_NACK" => Len(heard) < Len(wanted)
    BY <2>1 DEF Inv, WriteInv, HeardPart, Ended
  <2>3. /\ heard \in Seq(AnyByte) /\ wanted \in Seq(AnyByte) /\ Len(heard) \in Nat /\ Len(wanted) \in Nat
    BY LenProperties DEF Inv, WriteInv, WireTypes
  <2>4. \A k \in 1 .. Len(heard) : wanted[k] \in AnyByte
    BY <2>2, <2>3, ElementOfSeq
  <2>5. /\ SubSeq(wanted, 1, Len(heard)) \in Seq(AnyByte)
        /\ Len(SubSeq(wanted, 1, Len(heard))) = Len(heard)
        /\ \A k \in 1 .. Len(heard) : SubSeq(wanted, 1, Len(heard))[k] = wanted[k]
    BY <2>3, <2>4, SubSeqProperties
  <2>6. heard = SubSeq(wanted, 1, Len(heard))
    BY <2>2, <2>3, <2>5, SeqEqual
  <2>7. Len(heard) = Len(wanted) => heard = wanted
    BY <2>2, <2>3, SeqEqual
  <2>8. Len(heard) = 0 => heard = <<>>
    BY <2>3, EmptySeq
  <2>9. /\ ret = 0 => twi_error = "none"
        /\ ret = 2 => twi_error = "MT_SLA_NACK"
        /\ ret = 3 => twi_error = "MT_DATA_NACK"
    BY <2>1 DEF WriteCode
  <2> QED
    BY <2>2, <2>6, <2>7, <2>8, <2>9
<1> QED
  BY <1>1, WireStart, WireStep, PTL DEF WireSpec

(* read() returns the bytes of the last requestFrom(), all that the slave  *)
(* gave, or those of a later message handed to the callback; a message     *)
(* overwrites nothing that is still to be read, while a requestFrom()      *)
(* discards what a message left (Wire.cpp:88-119, 243-257, 276-298,        *)
(* twi.c:131-193), for every length of buffer and message.                 *)
THEOREM ReadsWhatIsDue ==
    ASSUME ~HeldUp
    PROVE  WireSpec => []ReadIsDue
<1>1. Inv => ReadIsDue
  <2>1. ASSUME Inv, Returned("read") PROVE ret = Len(answered)
    <3>1. pc = "ret" /\ call.op = "read" /\ call.len > 0 /\ ret = twi_masterBufferIndex
      BY <2>1 DEF Returned, Inv, KeptInv, Asked, DriverInv, ReadInv, Answer
    <3> QED
      BY <2>1, <3>1 DEF Inv, DriverInv, ReadInv, Counted, Reading, ByteWaits, InRead
  <2>2. ASSUME Inv, pc # "ret", rxBufferIndex < rxBufferLength
        PROVE  /\ rxBufferLength = Len(due)
               /\ \A k \in rxBufferIndex .. rxBufferLength - 1 : rxBuffer[k] = due[k + 1]
    BY <2>2 DEF Inv, KeptInv, Kept, Returned
  <2> QED
    BY <2>1, <2>2 DEF ReadIsDue, ReadIsWhole
<1> QED
  BY <1>1, WireStart, WireStep, PTL DEF WireSpec
=============================================================================
