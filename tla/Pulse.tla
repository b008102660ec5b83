------------------------------- MODULE Pulse --------------------------------
(***************************************************************************)
(* Waiting by counting: pulseIn(), whose loops count the polls of a pin,   *)
(* pulseInLong(), which reads the clock after each poll, and the loop of   *)
(* delayMicroseconds().                                                    *)
(*                                                                         *)
(* One poll is one unit of the clock; the line is in the state asked for   *)
(* or not, as the outside has it.  micros() wraps at ClockBits bits; an    *)
(* unsigned int has IntBits bits.                                          *)
(***************************************************************************)
EXTENDS Integers, Sequences

CONSTANTS
    Timeouts,   \* timeouts in polls, none 0
    MaxLine,    \* bound: the polls of one call
    ClockBits,
    IntBits     \* 16 in the code

\* The widths are natural numbers; it is their powers that the proofs use
ASSUME PulseAssumption ==
    /\ Timeouts \subseteq Nat
    /\ 2 ^ ClockBits \in Nat \ {0} /\ 2 ^ IntBits \in Nat \ {0}

VARIABLES
    meter,      \* the call in progress
    line        \* the polls of it: 1 of the line in the state asked for, 0 of any other

pulseVars == <<meter, line>>

\* call; its loop, or "ended"; the polls left or the timeout; the count or the
\* result; the clock when the call and when the pulse began
NoCall == [call |-> "none", at |-> "ended", asked |-> 0, left |-> 0, width |-> 0, began |-> 0, start |-> 0]
Modulo(v) == v % 2 ^ ClockBits
\* The clock after the poll of a step
micros == Modulo(meter.began + Len(line) + 1)

------------------------------------------------------------------------------
\* Forms an error could give the operators below; no action uses them.
PlainDifference(since) == micros - since
NoSkip == [rate \in {1, 8, 12, 16, 20, 24} |-> 0]

Elapsed(since) == Modulo(micros - since)

\* F_CPU in MHz: the requests that return at once, the loops of a microsecond
\* and those that the call itself takes the time of
Skipped == [rate \in {1, 8, 12, 16, 20, 24} |->
            CASE rate = 1 -> 25 [] rate = 8 -> 2 [] rate = 24 -> 0 [] OTHER -> 1]
PerMicro == [rate \in {8, 12, 16, 20, 24} |-> rate \div 4]
Spent == [rate \in {1, 8, 12, 16, 20, 24} |->
            CASE rate = 1 -> 22 [] rate = 8 -> 4 [] rate = 20 -> 7 [] OTHER -> 5]
\* The cycles of the call, but for the loop (the comments' shorter counts)
CallCycles == [rate \in {1, 8, 12, 16, 20, 24} |->
                CASE rate = 1 -> 22 [] rate = 8 -> 17 [] rate = 12 -> 20 [] rate = 16 -> 19 [] rate = 20 -> 26 [] OTHER -> 22]

\* The passes of the loop: none, or as many as its counter has values to zero
DelayPasses(rate, us) ==
    LET Word(v) == v % 2 ^ IntBits
        count == IF rate = 1 THEN Word(us - Spent[1]) \div 4 ELSE Word(Word(us * PerMicro[rate]) - Spent[rate])
    IN IF us <= Skipped[rate] THEN 0 ELSE IF count = 0 THEN 2 ^ IntBits ELSE count
DelayCycles(rate, us) == CallCycles[rate] + 4 * DelayPasses(rate, us)

------------------------------------------------------------------------------
PulseInit == meter = NoCall /\ line = <<>>

Called(m) == meter = NoCall /\ meter' = m /\ line' = <<>>
Returned == meter # NoCall /\ meter.at = "ended" /\ meter' = NoCall /\ line' = <<>>

\* A timeout of less than 16 cycles gives no polls at all: countPulseASM()
\* then counts down from zero
pulseIn == \E t \in Timeouts : Called([NoCall EXCEPT !.call = "pulseIn", !.at = "old", !.asked = t, !.left = t])

pulseInLong ==
    \E t \in Timeouts : \E now \in 0 .. 2 ^ ClockBits - 1 :
        Called([NoCall EXCEPT !.call = "pulseInLong", !.at = "old", !.asked = t, !.began = now])

delayMicroseconds ==
    \E rate \in DOMAIN Skipped : \E us \in 0 .. 2 ^ IntBits - 1 :
        Called([NoCall EXCEPT !.call = "delay", !.asked = us, !.left = rate, !.width = DelayCycles(rate, us)])

Polls(b) == meter.at # "ended" /\ Len(line) < MaxLine /\ line' = Append(line, b)
Ends(width) == meter' = [meter EXCEPT !.at = "ended", !.width = width]
\* The end of the previous pulse, and the start of the one to measure
Waits == meter' = [meter EXCEPT !.at = "wait"]
Starts == meter' = [meter EXCEPT !.at = "pulse", !.start = micros]

\* countPulseASM(): the loops that wait count down, the one that measures up
CountsDown == LET left == Modulo(meter.left - 1) IN
    IF left = 0 THEN Ends(0) ELSE meter' = [meter EXCEPT !.left = left]
CountsUp == IF meter.width + 1 = meter.left THEN Ends(0) ELSE meter' = [meter EXCEPT !.width = @ + 1]

\* A pass of a loop that goes on while the line is in the state
Pass(at, state, again, leaves) ==
    meter.at = at /\ ((Polls(state) /\ again) \/ (Polls(1 - state) /\ leaves))

countPulseASM ==
    /\ meter.call = "pulseIn"
    /\ \/ Pass("old", 1, CountsDown, Waits)
       \/ Pass("wait", 0, CountsDown, Starts)
       \/ Pass("pulse", 1, CountsUp, Ends(meter.width))

\* pulseInLong(): each pass asks whether the time is over
Asks == IF Elapsed(meter.began) > meter.asked THEN Ends(0) ELSE UNCHANGED meter

pulseInLongPolls ==
    /\ meter.call = "pulseInLong"
    /\ \/ Pass("old", 1, Asks, Waits)
       \/ Pass("wait", 0, Asks, Starts)
       \/ Pass("pulse", 1, Asks, Ends(Elapsed(meter.start)))

PulseNext == pulseIn \/ pulseInLong \/ delayMicroseconds \/ countPulseASM \/ pulseInLongPolls \/ Returned

PulseSpec == PulseInit /\ [][PulseNext]_pulseVars

------------------------------------------------------------------------------
\* The polls of the first pulse that begins during the call and ends with it
FirstPulse(s) ==
    /\ s < Len(line) /\ \A i \in s .. Len(line) - 1 : line[i] = 1
    /\ line[Len(line)] = 0
    /\ s > 1 /\ line[s - 1] = 0 /\ \A i, j \in 1 .. s - 1 : i < j /\ line[i] = 0 => line[j] = 0

\* A width that pulseIn() or pulseInLong() returns is that of the first whole
\* pulse of the call, whatever the clock read when it began; zero means that the
\* time was over, or for pulseIn() that the pulse was gone by its second poll (that
\* is, shorter than two polls, 32 cycles: 4 microseconds at 8 MHz, where
\* wiring_pulse.c:27 says it works "from 2-3 microseconds");
\* and a call takes no more polls than its timeout has, for each of pulseIn()'s
\* two counts, but for a timeout of none (wiring_pulse.c:33-93, wiring_pulse.S:58-178).
PulseMeasured ==
    LET t == meter.asked IN
    /\ meter.call \in {"pulseIn", "pulseInLong"} /\ meter.at = "ended" =>
        IF meter.width > 0
        THEN \E s \in 1 .. Len(line) : FirstPulse(s) /\
                meter.width = IF meter.call = "pulseIn" THEN Len(line) - s - 1 ELSE Len(line) - s
        ELSE \/ Len(line) >= t
             \/ meter.call = "pulseIn" /\ FirstPulse(Len(line) - 1)
    /\ meter.call = "pulseIn" /\ t > 0 => Len(line) <= 2 * t + 2
    /\ meter.call = "pulseInLong" => Len(line) <= t + 3

\* A delayMicroseconds() that counts takes the cycles asked for, four more or four
\* less: its counter neither wraps below zero nor is zero when the loop begins, of
\* any number that fits an unsigned int once it is multiplied. One that does not
\* count, because the call itself is taken to last long enough, was asked for no
\* more than 25 cycles; how long it lasts is not claimed (wiring.c:120-239).
DelayIsAsked ==
    LET us == meter.asked
        rate == meter.left
        off == meter.width - us * rate
    IN meter.call = "delay" =>
        IF us <= Skipped[rate] THEN us * rate <= 25
        ELSE rate = 1 \/ us * PerMicro[rate] < 2 ^ IntBits => off \in -4 .. 4
==============================================================================
