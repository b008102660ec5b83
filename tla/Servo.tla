------------------------------- MODULE Servo -------------------------------
(***************************************************************************)
(* Servo.cpp on timer 1: the interrupt ends the pulse of one servo, begins *)
(* that of the next and sets the time of its own next coming; after the    *)
(* last it waits for the rest of REFRESH_INTERVAL.                         *)
(*                                                                         *)
(* The timer counts up to Wrap - 1; the interrupt, once due, comes at most *)
(* MaxLate ticks later, as others may run or be masked.  A handler takes   *)
(* less than a tick.                                                       *)
(***************************************************************************)
EXTENDS Integers, Sequences

CONSTANTS
    ServoPins, MaxServos,   \* MAX_SERVOS, and SERVOS_PER_TIMER
    Widths,                 \* bound: the ticks a sketch writes
    RefreshInterval, Margin,    \* REFRESH_INTERVAL in ticks, and the 4 of the code
    Wrap, MaxLate

\* the widths are below a turn of the timer by the time an interrupt may be late, and
\* so is the refresh interval by the margin: at most 2400 us and 20000 us, of 65536
ASSUME ServoAssumption ==
    /\ MaxServos \in Nat \ {0} /\ RefreshInterval \in Nat \ {0} /\ Margin \in Nat \ {0}
    /\ Wrap \in Nat \ {0} /\ MaxLate \in Nat /\ MaxLate < Wrap
    /\ Widths \subseteq Nat \ {0} /\ \A w \in Widths : w + MaxLate <= Wrap
    /\ RefreshInterval + Margin <= Wrap

VARIABLES
    servos, ServoCount, \* an entry for each servo, and how many there are
    Channel,            \* the servo being pulsed, or -1
    TCNT1, OCR1A, OCF1A, servoIE,   \* the timer: count, compare, flag and enable
    line,               \* the pins
    servoTodo, servoArg,    \* what is left of a call, and of which servo
    high, due, cycle,   \* history: since when the pin is high, for how long it
                        \* was to be, and the time since the first channel began
    left                \* history: pins that lost their servo in a pulse

timer1Vars == <<TCNT1, OCR1A, OCF1A, servoIE>>
servoHistory == <<high, due, cycle, left>>
servoVars == <<servos, ServoCount, Channel, timer1Vars, line, servoTodo, servoArg, servoHistory>>

Indices == 0 .. MaxServos - 1
NoServoArg == [index |-> 0, pin |-> 0]

ServoInit ==
    /\ servos = [i \in Indices |-> [nbr |-> 0, isActive |-> FALSE, ticks |-> 0]] /\ ServoCount = 0
    /\ Channel = 0 /\ TCNT1 = 0 /\ OCR1A = 0 /\ OCF1A = FALSE /\ servoIE = FALSE
    /\ line = [p \in ServoPins |-> 0] /\ servoTodo = <<>> /\ servoArg = NoServoArg
    /\ high = 0 /\ due = 0 /\ cycle = RefreshInterval /\ left = {}

\* the timer counts, unless the interrupt is due and late already
Count ==
    /\ ~(OCF1A /\ servoIE /\ ((TCNT1 - OCR1A) % Wrap) >= MaxLate)
    /\ TCNT1' = (TCNT1 + 1) % Wrap
    /\ OCF1A' = (OCF1A \/ TCNT1' = OCR1A)
    /\ high' = IF \E p \in ServoPins : line[p] = 1 /\ p \notin left /\ high < Wrap THEN high + 1 ELSE high
    /\ cycle' = IF cycle < RefreshInterval THEN cycle + 1 ELSE cycle
    /\ UNCHANGED <<servos, ServoCount, Channel, OCR1A, servoIE, line, servoTodo, servoArg, due, left>>

------------------------------------------------------------------------------
\* Forms an error could give the operators below; no action uses them.
RestNever(now) == (now + Margin) % Wrap
ActiveFirst == <<"active", "nbr", "init", "clear", "enable">>

------------------------------------------------------------------------------
\* handle_interrupts()
Pulsed(i) == i < ServoCount /\ servos[i].isActive

\* the sum is one of 16 bits
Rest(now) == LET soon == (now + Margin) % Wrap IN IF soon < RefreshInterval THEN RefreshInterval ELSE soon

TIMER1_COMPA ==
    LET now == IF Channel < 0 THEN 0 ELSE TCNT1
        next == Channel + 1
        goesOn == next < ServoCount /\ next < MaxServos
        ended == IF Channel >= 0 /\ Pulsed(Channel) THEN [line EXCEPT ![servos[Channel].nbr] = 0] ELSE line
    IN /\ OCF1A /\ servoIE /\ OCF1A' = FALSE
       /\ TCNT1' = now
       /\ Channel' = IF goesOn THEN next ELSE -1
       /\ OCR1A' = IF goesOn THEN (now + servos[next].ticks) % Wrap ELSE Rest(now)
       /\ line' = IF goesOn /\ Pulsed(next) THEN [ended EXCEPT ![servos[next].nbr] = 1] ELSE ended
       /\ high' = 0 /\ due' = (IF goesOn /\ Pulsed(next) THEN servos[next].ticks ELSE 0)
       /\ cycle' = IF Channel < 0 THEN 0 ELSE cycle
       /\ left' = left \cap {p \in ServoPins : line'[p] = 1}
       /\ UNCHANGED <<servos, ServoCount, servoIE, servoTodo, servoArg>>

------------------------------------------------------------------------------
\* Servo(): the default width is stored after the servo is counted
Construct ==
    /\ servoTodo = <<>> /\ ServoCount < MaxServos
    /\ ServoCount' = ServoCount + 1 /\ servoTodo' = <<"default">> /\ servoArg' = [NoServoArg EXCEPT !.index = ServoCount]
    /\ UNCHANGED <<servos, Channel, timer1Vars, line, servoHistory>>

AttachSteps == <<"nbr", "init", "clear", "enable", "active">>

\* attach() of a servo that is not attached, to a pin no other has; initISR() if
\* no servo is active
attach ==
    /\ servoTodo = <<>>
    /\ \E i \in 0 .. ServoCount - 1, p \in ServoPins :
          /\ \A j \in Indices : servos[j].isActive => j # i /\ servos[j].nbr # p
          /\ servoArg' = [index |-> i, pin |-> p]
          /\ servoTodo' = IF \A j \in Indices : ~servos[j].isActive THEN AttachSteps ELSE <<"nbr", "active">>
    /\ UNCHANGED <<servos, ServoCount, Channel, timer1Vars, line, servoHistory>>

\* a pin whose pulse is on stays as it is
detach ==
    /\ servoTodo = <<>>
    /\ \E i \in 0 .. ServoCount - 1 :
          LET cut == {p \in ServoPins \ left : p = servos[i].nbr /\ line[p] = 1}
          IN /\ servos[i].isActive /\ servos' = [servos EXCEPT ![i].isActive = FALSE]
             /\ left' = left \cup cut
             /\ IF cut = {} THEN UNCHANGED <<high, due>> ELSE high' = 0 /\ due' = 0
    /\ UNCHANGED <<ServoCount, Channel, timer1Vars, line, servoTodo, servoArg, cycle>>

\* writeMicroseconds() with interrupts off
write ==
    /\ servoTodo = <<>>
    /\ \E i \in 0 .. ServoCount - 1, w \in Widths : servos' = [servos EXCEPT ![i].ticks = w]
    /\ UNCHANGED <<ServoCount, Channel, timer1Vars, line, servoTodo, servoArg, servoHistory>>

ServoStep ==
    /\ servoTodo # <<>> /\ servoTodo' = Tail(servoTodo)
    /\ LET op == Head(servoTodo)
           i == servoArg.index
       IN \/ op = "default" /\ (\E w \in Widths : servos' = [servos EXCEPT ![i].ticks = w]) /\ UNCHANGED timer1Vars
          \/ op = "nbr" /\ servos' = [servos EXCEPT ![i].nbr = servoArg.pin] /\ UNCHANGED timer1Vars
          \/ op = "active" /\ servos' = [servos EXCEPT ![i].isActive = TRUE] /\ UNCHANGED timer1Vars
          \/ op = "init" /\ TCNT1' = 0 /\ UNCHANGED <<servos, OCR1A, OCF1A, servoIE>>
          \/ op = "clear" /\ OCF1A' = FALSE /\ UNCHANGED <<servos, TCNT1, OCR1A, servoIE>>
          \/ op = "enable" /\ servoIE' = TRUE /\ UNCHANGED <<servos, TCNT1, OCR1A, OCF1A>>
    /\ servoArg' = IF servoTodo' = <<>> THEN NoServoArg ELSE servoArg
    /\ UNCHANGED <<ServoCount, Channel, line, servoHistory>>

ServoNext == Count \/ TIMER1_COMPA \/ Construct \/ attach \/ detach \/ write \/ ServoStep
ServoSpec == ServoInit /\ [][ServoNext]_servoVars

------------------------------------------------------------------------------
\* A pulse is as long as the width written before it began, whatever is written,
\* attached and detached meanwhile; no two servos are pulsed at a time; and the
\* first one is not pulsed again before REFRESH_INTERVAL is over.
PulsesKept ==
    [][ /\ \A p \in ServoPins \ left : line[p] = 1 =>
              /\ high <= due + MaxLate
              /\ line'[p] = 0 => high >= due
              /\ \A q \in ServoPins \ left : line[q] = 1 => q = p
        /\ Channel = -1 /\ Channel' = 0 => cycle = RefreshInterval ]_servoVars
=============================================================================
