-------------------------------- MODULE Pins --------------------------------
(***************************************************************************)
(* The pins: pinMode(), digitalWrite(), digitalRead(), analogWrite(), the  *)
(* calls for a whole port and shiftOut() and shiftIn(), made by a sketch   *)
(* and by an interrupt handler that has pins of its own.  A call is a list *)
(* of accesses to registers; the handler runs between any two of them, and *)
(* between the read and the write of one that is not made with interrupts  *)
(* off.                                                                    *)
(*                                                                         *)
(* A register is the set of its pins that are on.  The pins are of one     *)
(* port and have the numbers of the variant's table.  The duty of a pin    *)
(* that no timer drives is 0 here: nothing shows it.  A handler whose pin  *)
(* is on a timer of the sketch's pins can undo, or have undone, a change   *)
(* of that timer's register; the handler here keeps clear of it.           *)
(***************************************************************************)
EXTENDS Integers, Sequences

CONSTANTS
    SketchPins,     \* the pins of the port that the sketch calls for
    HandlerPins,    \* those of the handler, on no timer of the sketch's pins
    DataPin,        \* of shiftOut() and shiftIn(), both among SketchPins
    ClockPin,
    Duties,         \* values of analogWrite()
    ShiftBits       \* of a value that is shifted, 8 in the code

ASSUME PinsAssumption ==
    /\ SketchPins \cap HandlerPins = {} /\ {DataPin, ClockPin} \subseteq SketchPins /\ DataPin # ClockPin
    /\ Duties \subseteq 0 .. 255 /\ ShiftBits \in Nat \ {0}

VARIABLES
    regs,       \* ddr: the outputs; port: high or pulled up; com: the pins that a timer drives; duty
    loaded,     \* what the sketch's access has read: no register or one
    pending,    \* what is left of the sketch's call
    shifted,    \* a shift: its call, order and value, the passes made and their bits
    want        \* what each pin is to be, by the calls that were made

pinsVars == <<regs, loaded, pending, shifted, want>>

Pins == SketchPins \cup HandlerPins
Orders == {"LSBFIRST", "MSBFIRST"}
Modes == {"INPUT", "INPUT_PULLUP", "OUTPUT"}

------------------------------------------------------------------------------
\* Forms an error could give the operators below; no action uses them.
OnlyDdr == {"ddr"}
FromOne(order, i) == IF order = "LSBFIRST" THEN i - 1 ELSE ShiftBits - i + 1

\* The register of digital_pin_to_timer_PGM's timer, as turnOffPWM() and analogWrite()
\* choose it on the ATmega169: the TIMER0 of pin 12 is the number of TIMER0A
\* (Arduino.h:196-197). Pins 3 to 5, which digitalPinHasPWM() counts in, have none.
Timer(p) == CASE p = 12 -> "0A" [] p \in {13, 14} -> "1A" [] p = 15 -> "2A" [] OTHER -> "none"

\* The registers that are read, changed and written with interrupts off
Guarded == {"ddr", "port"}

Sets(reg, on, off) == [reg |-> reg, on |-> on, off |-> off]
\* Both registers of a pin that becomes an input, with interrupts off
Input(pins, pulled) == [reg |-> "input", pins |-> pins, up |-> pulled]
PwmDuty(p, val) == [reg |-> "duty", pin |-> p, val |-> val]

turnOffPWM(p) == IF Timer(p) # "none" THEN <<Sets(Timer(p), {}, {p})>> ELSE <<>>

pinMode(p, mode) ==
    IF mode = "OUTPUT" THEN <<Sets("ddr", {p}, {})>> ELSE <<Input({p}, IF mode = "INPUT_PULLUP" THEN {p} ELSE {})>>

digitalWrite(p, val) ==
    turnOffPWM(p) \o (IF val = 0 THEN <<Sets("port", {}, {p})>> ELSE <<Sets("port", {p}, {})>>)

analogWrite(p, val) ==
    pinMode(p, "OUTPUT")
    \o (CASE val = 0 -> digitalWrite(p, 0)
          [] val = 255 -> digitalWrite(p, 1)
          [] OTHER -> IF Timer(p) # "none" THEN <<Sets(Timer(p), {p}, {}), PwmDuty(p, val)>>
                      ELSE digitalWrite(p, IF val < 128 THEN 0 ELSE 1))

\* The level that it returns is the "sample" of shiftIn()
digitalRead(p) == turnOffPWM(p)

_portMode(mode) ==
    CASE mode = "OUTPUT" -> <<Sets("ddr", Pins, {})>>
      [] mode = "INPUT_PULLUP" -> <<Input(Pins, Pins)>>
      [] OTHER -> <<Sets("ddr", {}, Pins)>>
_portWrite(val) == <<Sets("port", val, Pins \ val)>>

\* The bit of the value that the pass i of a shift takes
BitPlace(order, i) == IF order = "LSBFIRST" THEN i - 1 ELSE ShiftBits - i
BitOf(val, place) == (val \div 2 ^ place) % 2

\* The pass i of their loops
shiftOut(order, val, i) ==
    digitalWrite(DataPin, BitOf(val, BitPlace(order, i)))
        \o digitalWrite(ClockPin, 1) \o <<[reg |-> "edge"]>> \o digitalWrite(ClockPin, 0)

shiftIn(order, i) ==
    digitalWrite(ClockPin, 1) \o digitalRead(DataPin)
        \o <<[reg |-> "sample", place |-> BitPlace(order, i)]>> \o digitalWrite(ClockPin, 0)

------------------------------------------------------------------------------
(* The registers *)

TimerPins(reg) == {p \in Pins : Timer(p) = reg}
Contents(r, reg) == CASE reg = "ddr" -> r.ddr [] reg = "port" -> r.port [] OTHER -> r.com \cap TimerPins(reg)
Stored(r, reg, v) ==
    CASE reg = "ddr" -> [r EXCEPT !.ddr = v]
      [] reg = "port" -> [r EXCEPT !.port = v]
      [] OTHER -> [r EXCEPT !.com = (@ \ TimerPins(reg)) \cup v,
                            !.duty = [p \in Pins |-> IF p \in TimerPins(reg) \ v THEN 0 ELSE @[p]]]
Changed(a, v) == (v \cup a.on) \ a.off

Accessed(r, a) ==
    CASE a.reg = "input" -> [r EXCEPT !.ddr = @ \ a.pins, !.port = (@ \ a.pins) \cup a.up]
      [] a.reg = "duty" -> [r EXCEPT !.duty[a.pin] = IF a.pin \in r.com THEN a.val ELSE 0]
      [] OTHER -> Stored(r, a.reg, Changed(a, Contents(r, a.reg)))

\* No call makes more than three accesses.
Once(r, accesses) == IF accesses = <<>> THEN r ELSE Accessed(r, Head(accesses))
Rest(accesses) == IF accesses = <<>> THEN accesses ELSE Tail(accesses)
After(accesses) == Once(Once(Once(regs, accesses), Rest(accesses)), Rest(Rest(accesses)))

------------------------------------------------------------------------------
(* What the calls promise of a pin: its mode, its level and its duty *)

PinIs(out, high, duty) == [out |-> out, high |-> high, duty |-> duty]
PinShows(r, p) == PinIs(IF p \in r.ddr THEN 1 ELSE 0, IF p \in r.port THEN 1 ELSE 0, r.duty[p])

Moded(w, mode) ==
    CASE mode = "OUTPUT" -> PinIs(1, w.high, w.duty)
      [] mode = "INPUT_PULLUP" -> PinIs(0, 1, w.duty)
      [] OTHER -> PinIs(0, 0, w.duty)
Leveled(w, val) == PinIs(w.out, IF val = 0 THEN 0 ELSE 1, 0)
Unpaced(w) == PinIs(w.out, w.high, 0)
Driven(w, val, p) ==
    IF Timer(p) # "none" /\ val \notin {0, 255} THEN PinIs(1, w.high, val)
    ELSE PinIs(1, IF val >= 128 THEN 1 ELSE 0, 0)

\* The calls for one pin
PinCalls(p) ==
    LET w == want[p] IN
    {[accesses |-> pinMode(p, m), gives |-> Moded(w, m)] : m \in Modes}
        \cup {[accesses |-> digitalWrite(p, v), gives |-> Leveled(w, v)] : v \in {0, 1}}
        \cup {[accesses |-> digitalRead(p), gives |-> Unpaced(w)]}
        \cup {[accesses |-> analogWrite(p, v), gives |-> Driven(w, v, p)] : v \in Duties}

------------------------------------------------------------------------------
NoShift == [call |-> "none", order |-> "LSBFIRST", value |-> 0, pass |-> ShiftBits, bits |-> <<>>]
CallOver == pending = <<>> /\ shifted.pass = ShiftBits

PinsInit ==
    /\ regs = [ddr |-> {}, port |-> {}, com |-> {}, duty |-> [p \in Pins |-> 0]]
    /\ loaded = {} /\ pending = <<>> /\ shifted = NoShift
    /\ want = [p \in Pins |-> PinIs(0, 0, 0)]

\* The sketch calls for a pin of its own
SketchCalls ==
    /\ CallOver /\ shifted' = NoShift
    /\ \E p \in SketchPins : \E c \in PinCalls(p) :
        /\ pending' = c.accesses
        /\ want' = [want EXCEPT ![p] = c.gives]
    /\ UNCHANGED <<regs, loaded>>

\* _portMode() and _portWrite() make one access, with interrupts off
SketchCallsPort ==
    /\ CallOver /\ shifted' = NoShift
    /\ \/ \E m \in Modes :
            /\ regs' = After(_portMode(m))
            /\ want' = [p \in Pins |-> PinIs(IF m = "OUTPUT" THEN 1 ELSE 0,
                                             IF m = "INPUT_PULLUP" THEN 1 ELSE want[p].high, want[p].duty)]
       \/ \E v \in SUBSET Pins :
            /\ regs' = After(_portWrite(v))
            /\ want' = [p \in Pins |-> PinIs(want[p].out, IF p \in v THEN 1 ELSE 0, want[p].duty)]
    /\ UNCHANGED <<loaded, pending>>

SketchShifts ==
    /\ CallOver /\ shifted = NoShift
    /\ \E order \in Orders :
        \/ \E val \in 0 .. 2 ^ ShiftBits - 1 :
            shifted' = [NoShift EXCEPT !.call = "shiftOut", !.order = order, !.value = val, !.pass = 0]
        \/ shifted' = [NoShift EXCEPT !.call = "shiftIn", !.order = order, !.pass = 0]
    /\ UNCHANGED <<regs, loaded, pending, want>>

\* A pass leaves the clock low and the data pin at the bit it shifted out
ShiftPasses ==
    /\ pending = <<>> /\ shifted.pass < ShiftBits
    /\ shifted' = [shifted EXCEPT !.pass = @ + 1]
    /\ LET i == shifted.pass + 1
           bit == BitOf(shifted.value, BitPlace(shifted.order, i))
       IN \/ /\ shifted.call = "shiftOut" /\ pending' = shiftOut(shifted.order, shifted.value, i)
             /\ want' = [want EXCEPT ![ClockPin] = Leveled(@, 0), ![DataPin] = Leveled(@, bit)]
          \/ /\ shifted.call = "shiftIn" /\ pending' = shiftIn(shifted.order, i)
             /\ want' = [want EXCEPT ![ClockPin] = Leveled(@, 0), ![DataPin] = Unpaced(@)]
    /\ UNCHANGED <<regs, loaded>>

Now == Head(pending)
StepDone == pending' = Tail(pending)

\* An access that no interrupt comes into
AccessWhole ==
    /\ pending # <<>> /\ Now.reg \in Guarded \cup {"input", "duty"}
    /\ regs' = Accessed(regs, Now) /\ StepDone
    /\ UNCHANGED <<loaded, shifted, want>>

AccessReads ==
    /\ pending # <<>> /\ Now.reg \notin Guarded \cup {"input", "duty", "edge", "sample"} /\ loaded = {}
    /\ loaded' = {Contents(regs, Now.reg)}
    /\ UNCHANGED <<regs, pending, shifted, want>>

AccessWrites ==
    /\ \E v \in loaded : regs' = Stored(regs, Now.reg, Changed(Now, v))
    /\ loaded' = {} /\ StepDone
    /\ UNCHANGED <<shifted, want>>

\* The device takes the data at the rising edge of the clock
DeviceTakes ==
    /\ pending # <<>> /\ Now.reg = "edge"
    /\ shifted' = [shifted EXCEPT !.bits = Append(@, IF DataPin \in regs.port THEN 1 ELSE 0)] /\ StepDone
    /\ UNCHANGED <<regs, loaded, want>>

\* It shows a bit, unless the pin is an output
DeviceShows ==
    /\ pending # <<>> /\ Now.reg = "sample"
    /\ \E b \in IF DataPin \notin regs.ddr THEN {0, 1} ELSE IF DataPin \in regs.port THEN {1} ELSE {0} :
        shifted' = [shifted EXCEPT !.bits = Append(@, b), !.value = @ + b * 2 ^ Now.place]
    /\ StepDone
    /\ UNCHANGED <<regs, loaded, want>>

\* An interrupt, whose handler makes one call
HandlerCalls ==
    /\ \E p \in HandlerPins : \E c \in PinCalls(p) :
        /\ regs' = After(c.accesses)
        /\ want' = [want EXCEPT ![p] = c.gives]
    /\ UNCHANGED <<loaded, pending, shifted>>

PinsNext == SketchCalls \/ SketchCallsPort \/ SketchShifts \/ ShiftPasses \/ AccessWhole \/ AccessReads \/ AccessWrites
                \/ DeviceTakes \/ DeviceShows \/ HandlerCalls

PinsSpec == PinsInit /\ [][PinsNext]_pinsVars

------------------------------------------------------------------------------
\* When a call or a pass of a shift has ended, and of the handler's pins at any
\* time, every pin has the mode, the level and the duty that the last call for it
\* gave it: no call for one pin disturbs another, though the registers are shared
\* with those of a handler (wiring_digital.c:38-58,75-183, wiring_analog.c:105-293).
\* It takes a handler whose pins are on no timer of the sketch's: for any other,
\* a duty may be lost between the read and the write of the timer's register.
PinsKept ==
    \A p \in IF pending = <<>> THEN Pins ELSE HandlerPins :
        want[p] = PinShows(regs, p)

\* The bits that a device took from shiftOut(), or showed to shiftIn(), are
\* those of the value, in the order asked for (wiring_shift.c:25-53).
ShiftedWhole ==
    CallOver /\ shifted # NoShift =>
        /\ Len(shifted.bits) = ShiftBits
        /\ \A k \in 0 .. ShiftBits - 1 :
            BitOf(shifted.value, k) =
                shifted.bits[IF shifted.order = "LSBFIRST" THEN k + 1 ELSE ShiftBits - k]
==============================================================================
