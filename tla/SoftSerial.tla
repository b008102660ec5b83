----------------------------- MODULE SoftSerial -----------------------------
(***************************************************************************)
(* SoftwareSerial.cpp: serial ports made of pins.  One object at a time    *)
(* listens: its receive pin may interrupt (PCMSK), and the handler takes   *)
(* the frame for active_object and puts the byte in the one ring buffer of *)
(* the class.  What a frame that another holds up, or that began before    *)
(* the object listened, is sampled as may be any byte.                     *)
(*                                                                         *)
(* An edge just before its interrupt is masked is still served after it    *)
(* is: recv() then ends with setRxIntMsk(true).  From then on interrupts   *)
(* come for an object that does not listen, and may even find half of a    *)
(* pointer in active_object; unmasked records it.                          *)
(***************************************************************************)
EXTENDS Naturals, Sequences

CONSTANTS
    Ports,      \* the objects
    Inverted,    \* those with inverse logic
    MaxBuff,    \* _SS_MAX_RX_BUFF
    Bits,       \* 8 in the code
    Heard       \* bound: the bytes that are received

VARIABLES
    active_object, PCMSK,   \* the listener, two bytes, and the pins that interrupt
    overflow, delays,       \* of each object: _buffer_overflow, and that begin() was called
    _head, _tail, _buffer,
    portTodo, portArg,      \* what is left of a call, and whose it is
    portAnswer,             \* what read() returned last, and what it should have
    wire,                   \* the last frame written, its byte and the port
    heard,                  \* history: bytes received and not read, since listen()
    missed, unmasked

ringVars == <<_head, _tail, _buffer>>
portCall == <<portTodo, portArg>>
portVars == <<active_object, PCMSK, overflow, delays, ringVars, portCall, portAnswer, wire, heard, missed, unmasked>>

Nobody == "null"
ASSUME SoftSerialAssumption == MaxBuff \in Nat \ {0} /\ Nobody \notin Ports

Bytes == 0 .. 2 ^ Bits - 1
Pointer(p) == [low |-> p, high |-> p]
isListening(p) == active_object = Pointer(p)
NoFrame == [levels |-> <<>>, byte |-> 0, port |-> Nobody]

PortInit ==
    /\ active_object = Pointer(Nobody) /\ PCMSK = {} /\ overflow = [p \in Ports |-> FALSE] /\ delays = {}
    /\ _head = 0 /\ _tail = 0 /\ _buffer = [i \in 0 .. MaxBuff - 1 |-> 0]
    /\ portTodo = <<>> /\ portArg = Nobody /\ portAnswer = <<0, 0>> /\ wire = NoFrame
    /\ heard = <<>> /\ missed = FALSE /\ unmasked = FALSE

------------------------------------------------------------------------------
\* Forms an error could give the operators below; no action uses them.
FullNever == FALSE
HighestFirst(b, i) == (b \div 2 ^ (Bits - i)) % 2

------------------------------------------------------------------------------
\* recv(), with interrupts off
Following(i) == (i + 1) % MaxBuff
Full == Following(_tail) = _head

recv(p) ==
    /\ \E d \in Heard :
          IF Full
          THEN /\ overflow' = [overflow EXCEPT ![p] = TRUE] /\ missed' = TRUE
               /\ UNCHANGED <<_buffer, _tail, heard>>
          ELSE /\ _buffer' = [_buffer EXCEPT ![_tail] = d] /\ _tail' = Following(_tail)
               /\ heard' = Append(heard, d) /\ UNCHANGED <<overflow, missed>>
    /\ PCMSK' = PCMSK \cup {p}
    /\ UNCHANGED <<active_object, delays, _head, portCall, portAnswer, wire>>

\* a start bit of the port that listens; handle_interrupt() of any other does nothing
PCINT0_vect == \E p \in PCMSK : isListening(p) /\ recv(p) /\ UNCHANGED unmasked

\* one that was there before stopListening() masked it
LateInterrupt ==
    /\ portTodo # <<>> /\ Head(portTodo) = "nullLow"
    /\ \E p \in Ports \ PCMSK : isListening(p) /\ recv(p)
    /\ unmasked' = TRUE

------------------------------------------------------------------------------
StopSteps == <<"maskOff", "nullLow", "nullHigh">>
ListenSteps == <<"flag", "tail", "head", "thisLow", "thisHigh", "maskOn">>

PortCall(steps, p) == portTodo = <<>> /\ portTodo' = steps /\ portArg' = p
restOfPort == <<active_object, PCMSK, overflow, ringVars, portAnswer, wire, heard, missed, unmasked>>

\* listen() of another than the listener stops that one first
Listen(p) == PortCall((IF active_object = Pointer(Nobody) THEN <<>> ELSE StopSteps) \o ListenSteps, p)
listen == (\E p \in delays : ~isListening(p) /\ Listen(p)) /\ UNCHANGED <<delays, restOfPort>>

\* begin() of an object that does not listen: the delays, then listen()
begin_port == (\E p \in Ports : ~isListening(p) /\ delays' = delays \cup {p} /\ Listen(p)) /\ UNCHANGED restOfPort

end_port == (\E p \in Ports : isListening(p) /\ PortCall(StopSteps, p)) /\ UNCHANGED <<delays, restOfPort>>

\* read() and peek(): what is in the ring is there when it is looked at
read_port ==
    /\ \E p \in Ports : isListening(p) /\ _head # _tail /\ PortCall(<<"load", "advance">>, p)
    /\ UNCHANGED <<delays, restOfPort>>

\* flush(), with interrupts off
flush_port ==
    /\ portTodo = <<>> /\ \E p \in Ports : isListening(p)
    /\ _head' = 0 /\ _tail' = 0 /\ heard' = <<>>
    /\ UNCHANGED <<active_object, PCMSK, overflow, delays, _buffer, portCall, portAnswer, wire, missed, unmasked>>

\* overflow() returns the flag and clears it
overflow_port ==
    /\ portTodo = <<>>
    /\ \E p \in Ports : overflow[p] /\ overflow' = [overflow EXCEPT ![p] = FALSE]
                        /\ missed' = (missed /\ ~isListening(p))
    /\ UNCHANGED <<active_object, PCMSK, delays, ringVars, portCall, portAnswer, wire, heard, unmasked>>

\* write(), with interrupts off: a start bit, the bits from the lowest, a stop bit
Level(p, bit) == IF p \in Inverted THEN 1 - bit ELSE bit
Bit(b, i) == (b \div 2 ^ (i - 1)) % 2
Frame(p, b) == [i \in 1 .. Bits + 2 |-> Level(p, IF i = 1 THEN 0 ELSE IF i = Bits + 2 THEN 1 ELSE Bit(b, i - 1))]

write_port ==
    /\ portTodo = <<>>
    /\ \E p \in delays, b \in Bytes : wire' = [levels |-> Frame(p, b), byte |-> b, port |-> p]
    /\ UNCHANGED <<active_object, PCMSK, overflow, delays, ringVars, portCall, portAnswer, heard, missed, unmasked>>

PortOp(op) == portTodo # <<>> /\ Head(portTodo) = op
PointerStep ==
    /\ \/ PortOp("nullLow") /\ active_object' = [active_object EXCEPT !.low = Nobody]
       \/ PortOp("nullHigh") /\ active_object' = [active_object EXCEPT !.high = Nobody]
       \/ PortOp("thisLow") /\ active_object' = [active_object EXCEPT !.low = portArg]
       \/ PortOp("thisHigh") /\ active_object' = [active_object EXCEPT !.high = portArg]
    /\ UNCHANGED <<PCMSK, overflow, ringVars, portAnswer, heard, missed>>

MaskStep ==
    /\ \/ PortOp("maskOff") /\ PCMSK' = PCMSK \ {active_object.low}
       \/ PortOp("maskOn") /\ PCMSK' = PCMSK \cup {portArg}
    /\ UNCHANGED <<active_object, overflow, ringVars, portAnswer, heard, missed>>

RingStep ==
    /\ \/ /\ PortOp("flag") /\ overflow' = [overflow EXCEPT ![portArg] = FALSE] /\ missed' = FALSE
          /\ heard' = <<>> /\ UNCHANGED <<ringVars, portAnswer>>
       \/ PortOp("tail") /\ _tail' = 0 /\ UNCHANGED <<overflow, _head, _buffer, portAnswer, heard, missed>>
       \/ PortOp("head") /\ _head' = 0 /\ UNCHANGED <<overflow, _tail, _buffer, portAnswer, heard, missed>>
       \/ /\ PortOp("load") /\ portAnswer' = <<_buffer[_head], Head(heard)>>
          /\ UNCHANGED <<overflow, ringVars, heard, missed>>
       \/ /\ PortOp("advance") /\ _head' = Following(_head) /\ heard' = Tail(heard) /\ portAnswer' = <<0, 0>>
          /\ UNCHANGED <<overflow, _tail, _buffer, missed>>
    /\ UNCHANGED <<active_object, PCMSK>>

PortStep ==
    /\ PointerStep \/ MaskStep \/ RingStep
    /\ portTodo' = Tail(portTodo) /\ portArg' = IF portTodo' = <<>> THEN Nobody ELSE portArg
    /\ wire' = NoFrame /\ UNCHANGED <<delays, unmasked>>

PortNext ==
    \/ PCINT0_vect \/ LateInterrupt \/ listen \/ begin_port \/ end_port
    \/ read_port \/ flush_port \/ overflow_port \/ write_port \/ PortStep

PortSpec == PortInit /\ [][PortNext]_portVars

------------------------------------------------------------------------------
\* What recv() makes of a frame
Sampled(p, levels) ==
    LET d[i \in 0 .. Bits] == IF i = 0 THEN 0 ELSE d[i - 1] + Level(p, levels[i + 1]) * 2 ^ (i - 1) IN d[Bits]

available == (_tail + MaxBuff - _head) % MaxBuff

\* A port that listens gives the bytes received since it began to, in their order,
\* and none of the port before it; it drops one only if the ring holds as many as
\* it can, and overflow() says so.
SoftRxInOrder ==
    /\ portAnswer[1] = portAnswer[2]
    /\ portTodo = <<>> /\ (\E p \in Ports : isListening(p)) =>
          /\ available = Len(heard)
          /\ \A i \in 1 .. Len(heard) : _buffer[(_head + i - 1) % MaxBuff] = heard[i]
          /\ missed => overflow[active_object.low]

\* No interrupt finds half of a pointer, or an object that was not begun.
WholeListener ==
    PCMSK # {} /\ ~unmasked => active_object.low = active_object.high /\ PCMSK \subseteq delays

\* A port gives what was received in order to the object that listened, and its
\* interrupt finds that object whole.
PortKept == SoftRxInOrder /\ WholeListener

\* A frame written is the byte for a receiver of the same logic, and leaves the
\* line as it is at rest.
FrameIsByte ==
    wire # NoFrame => /\ Sampled(wire.port, wire.levels) = wire.byte
                      /\ wire.levels[Bits + 2] # wire.levels[1]
=============================================================================
