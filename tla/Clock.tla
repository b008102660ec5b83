-------------------------------- MODULE Clock --------------------------------
(***************************************************************************)
(* The clock of the core, wiring.c: timer 0 counts, its overflow handler   *)
(* keeps timer0_overflow_count, timer0_millis and timer0_fract, and the    *)
(* main line (or another handler, with interrupts off) reads them with     *)
(* millis(), micros() and delay().                                         *)
(*                                                                         *)
(* A step of millis() and micros() is one access to what the handler       *)
(* shares; timer0_millis is read in two halves, as no AVR instruction      *)
(* reads four bytes.                                                       *)
(***************************************************************************)
EXTENDS Integers

CONSTANTS
    Top,            \* 255: timer 0 counts from 0 to Top
    Half,           \* the values of half an unsigned long
    MILLIS_INC, FRACT_INC, FRACT_MAX,
    Scale,          \* microseconds in a tick, 64 / clockCyclesPerMicrosecond()
    Milli,          \* microseconds in a millisecond
    Delays,         \* bound: the arguments of delay()
    MaxTicks        \* bound: how long the clock runs

Word == Half * Half \* the values of an unsigned long

ASSUME ClockAssumption ==
    /\ Top \in Nat \ {0, 1} /\ Half \in Nat \ {0, 1}
    /\ MILLIS_INC \in Nat /\ FRACT_MAX \in Nat \ {0} /\ FRACT_INC \in 0 .. FRACT_MAX
    /\ Scale \in Nat \ {0} /\ Milli \in Nat \ {0}
    /\ Delays \subseteq Nat /\ MaxTicks \in Nat

VARIABLES
    TCNT0, TOV0, I,
    timer0_overflow_count, timer0_millis, timer0_fract,
    clockPc,             \* where the main line is
    oldSREG,        \* the I flag that millis() or micros() found
    m, t,           \* locals of millis() and micros()
    ms, start,      \* delay(): milliseconds left, and from when
    ticks,          \* history: ticks since reset
    at,             \* history: ticks when t was read, or when delay() began
    askedMs           \* history: the argument of delay()

timer0Vars == <<TCNT0, TOV0, ticks>>
overflowVars == <<timer0_overflow_count, timer0_millis, timer0_fract>>
mainVars == <<clockPc, oldSREG, m, t, ms, start, at, askedMs>>
clockVars == <<timer0Vars, I, overflowVars, mainVars>>

ClockInit ==
    /\ TCNT0 = 0 /\ TOV0 = FALSE /\ I = TRUE /\ ticks = 0
    /\ timer0_overflow_count = 0 /\ timer0_millis = 0 /\ timer0_fract = 0
    /\ clockPc = "sketch" /\ oldSREG = TRUE
    /\ m = 0 /\ t = 0 /\ ms = 0 /\ start = 0 /\ at = 0 /\ askedMs = 0

------------------------------------------------------------------------------
\* Forms an error could give the operators below; no action uses them.
NoCli == UNCHANGED I
CountTov == IF TOV0 THEN 1 ELSE 0
DropFract(f) == IF f >= FRACT_MAX THEN 0 ELSE f
PollEarly == ((ticks * Scale - start) % Word) + 1 >= Milli

(* A tick.  The overflow handler is never held up for Top ticks, and the   *)
(* instructions between the reads of TCNT0 and TOV0 take less than a tick. *)
Tick ==
    /\ ticks < MaxTicks
    /\ TOV0 => TCNT0 < Top - 1
    /\ clockPc = "us_tov" => TCNT0 = t
    /\ ticks' = ticks + 1
    /\ TCNT0' = (TCNT0 + 1) % (Top + 1)
    /\ TOV0' = (TOV0 \/ TCNT0 = Top)
    /\ UNCHANGED <<I, overflowVars, mainVars>>

FractOver(f) == f >= FRACT_MAX

Carry(f) == IF FractOver(f) THEN f - FRACT_MAX ELSE f

\* ISR(TIMER0_OVF_vect)
TIMER0_OVF_vect ==
    /\ I /\ TOV0 /\ TOV0' = FALSE
    /\ LET f == timer0_fract + FRACT_INC
           carried == IF FractOver(f) THEN 1 ELSE 0
       IN  /\ timer0_fract' = Carry(f)
           /\ timer0_millis' = (timer0_millis + MILLIS_INC + carried) % Word
    /\ timer0_overflow_count' = (timer0_overflow_count + 1) % Word
    /\ UNCHANGED <<TCNT0, ticks, I, mainVars>>

\* The sketch, or a handler of its own, turns interrupts off and on.
SetI ==
    /\ clockPc = "sketch" /\ I' = ~I
    /\ UNCHANGED <<timer0Vars, overflowVars, mainVars>>

Cli == I' = FALSE

\* millis() and micros(): oldSREG = SREG; cli();
ClockCall ==
    /\ clockPc = "sketch" /\ clockPc' \in {"ms_low", "us_m"}
    /\ oldSREG' = I /\ Cli
    /\ UNCHANGED <<timer0Vars, overflowVars, m, t, ms, start, at, askedMs>>

MillisLow ==
    /\ clockPc = "ms_low" /\ clockPc' = "ms_high"
    /\ m' = timer0_millis % Half
    /\ UNCHANGED <<timer0Vars, I, overflowVars, oldSREG, t, ms, start, at, askedMs>>

MillisHigh ==
    /\ clockPc = "ms_high" /\ clockPc' = "ms_ret"
    /\ m' = (timer0_millis \div Half) * Half + m
    /\ UNCHANGED <<timer0Vars, I, overflowVars, oldSREG, t, ms, start, at, askedMs>>

MicrosCount ==
    /\ clockPc = "us_m" /\ clockPc' = "us_t"
    /\ m' = timer0_overflow_count
    /\ UNCHANGED <<timer0Vars, I, overflowVars, oldSREG, t, ms, start, at, askedMs>>

MicrosTimer ==
    /\ clockPc = "us_t" /\ clockPc' = "us_tov"
    /\ t' = TCNT0 /\ at' = ticks
    /\ UNCHANGED <<timer0Vars, I, overflowVars, oldSREG, m, ms, start, askedMs>>

\* An overflow that the handler has not counted, unless it came after t was read.
Uncounted == IF TOV0 /\ t < Top THEN 1 ELSE 0

MicrosOverflow ==
    /\ clockPc = "us_tov" /\ clockPc' = "us_ret"
    /\ m' = (m + Uncounted) % Word
    /\ UNCHANGED <<timer0Vars, I, overflowVars, oldSREG, t, ms, start, at, askedMs>>

Micros == ((m * (Top + 1) + t) * Scale) % Word

\* SREG = oldSREG; return m, or return Micros
Return ==
    /\ clockPc \in {"ms_ret", "us_ret"} /\ clockPc' = "sketch"
    /\ I' = oldSREG
    /\ m' = 0 /\ t' = 0 /\ at' = 0
    /\ UNCHANGED <<timer0Vars, overflowVars, oldSREG, ms, start, askedMs>>

(* delay(): micros() is exact here, which MicrosExact says it is.          *)
delay(n) ==
    /\ clockPc = "sketch" /\ I /\ clockPc' = "delay"
    /\ ms' = n /\ start' = (ticks * Scale) % Word /\ at' = ticks /\ askedMs' = n
    /\ UNCHANGED <<timer0Vars, I, overflowVars, oldSREG, m, t>>

MilliOver == (ticks * Scale - start) % Word >= Milli

DelayPoll ==
    /\ clockPc = "delay" /\ ms > 0 /\ MilliOver
    /\ ms' = ms - 1 /\ start' = (start + Milli) % Word
    /\ UNCHANGED <<timer0Vars, I, overflowVars, clockPc, oldSREG, m, t, at, askedMs>>

DelayReturn ==
    /\ clockPc = "delay" /\ ms = 0 /\ clockPc' = "sketch"
    /\ start' = 0 /\ at' = 0 /\ askedMs' = 0
    /\ UNCHANGED <<timer0Vars, I, overflowVars, oldSREG, m, t, ms>>

Main ==
    \/ ClockCall \/ MillisLow \/ MillisHigh
    \/ MicrosCount \/ MicrosTimer \/ MicrosOverflow \/ Return
    \/ DelayPoll \/ DelayReturn

ClockNext ==
    \/ Tick \/ TIMER0_OVF_vect \/ SetI \/ Main
    \/ \E n \in Delays : delay(n)

ClockSpec == ClockInit /\ [][ClockNext]_clockVars

------------------------------------------------------------------------------
\* Type: every variable stays in its range.
ClockTypeOK ==
    /\ TCNT0 \in 0 .. Top /\ TOV0 \in BOOLEAN /\ I \in BOOLEAN
    /\ timer0_overflow_count \in 0 .. Word - 1 /\ timer0_millis \in 0 .. Word - 1
    /\ timer0_fract \in 0 .. FRACT_MAX - 1
    /\ clockPc \in {"sketch", "ms_low", "ms_high", "ms_ret",
               "us_m", "us_t", "us_tov", "us_ret", "delay"}
    /\ oldSREG \in BOOLEAN
    /\ m \in 0 .. Word - 1 /\ t \in 0 .. Top
    /\ ms \in Nat /\ askedMs \in Nat /\ start \in 0 .. Word - 1
    /\ ticks \in 0 .. MaxTicks /\ at \in 0 .. MaxTicks

\* Overflows that the handler has counted.
CountedTicks == ticks \div (Top + 1) - (IF TOV0 THEN 1 ELSE 0)

\* timer0_millis and timer0_fract together are the time of the counted overflows, to
\* the fraction: nothing is lost however long the clock runs ("this doesn't lose
\* precision", wiring.c:34).
MillisExact ==
    (timer0_millis * FRACT_MAX + timer0_fract) % (Word * FRACT_MAX) =
        (CountedTicks * (MILLIS_INC * FRACT_MAX + FRACT_INC)) % (Word * FRACT_MAX)

\* What millis() read is timer0_millis, not halves of two values.
MillisWhole == clockPc = "ms_ret" => m = timer0_millis

\* micros() is the time at which it read TCNT0, also if the timer overflows before,
\* between or after its reads.
MicrosExact == clockPc = "us_ret" => Micros = (at * Scale) % Word

\* delay() never counts a millisecond that has not passed, although micros() wraps and
\* the sketch's yield() may keep it from looking.
DelayLongEnough == clockPc = "delay" => (askedMs - ms) * Milli <= (ticks - at) * Scale
==============================================================================
