-------------------------------- MODULE Tone --------------------------------
(***************************************************************************)
(* Tone.cpp: a square wave on one pin, made by the interrupt of timer 1    *)
(* (AVAILABLE_TONE_PINS is 1), which toggles the pin a number of times, or *)
(* until noTone() if that number is -1.                                    *)
(*                                                                         *)
(* tone() writes the number, a long, byte by byte, and the interrupt may   *)
(* come in between when a tone is playing already.  Here the number is two *)
(* digits instead of four bytes.  The frequency only sets how often the    *)
(* interrupt comes.                                                        *)
(***************************************************************************)
EXTENDS Integers, Sequences

CONSTANTS
    TonePins,
    Base,       \* 256 in the code: what one store writes of the number
    MaxToggles  \* bound: the toggles asked of one tone

VARIABLES
    tone_pins,          \* the pin that has the timer, or 255
    timer1_pin,         \* what timer1_pin_port and timer1_pin_mask say
    timer1_toggle_count,
    OCIE1A,             \* the interrupt is enabled
    level,              \* the pins
    toneTodo, toneArg,  \* what is left of a call, and its arguments
    lowFirst,           \* how the compiler stores a long
    asked,              \* history: the number the last tone was to make,
    toggles, torn       \* those made since it was written, and whether the
                        \* interrupt came while it was

toneVars == <<tone_pins, timer1_pin, timer1_toggle_count, OCIE1A, level, toneTodo, toneArg, lowFirst, asked, toggles, torn>>

NoPin == "255"

ASSUME ToneAssumption ==
    /\ NoPin \notin TonePins /\ Base \in Nat \ {0}
    /\ MaxToggles \in Nat /\ MaxToggles < (Base * Base) \div 2

NoTone == [pin |-> NoPin, count |-> 0]

\* the number, of which the upper half of the range is negative
Digits(n) == LET m == n % (Base * Base) IN [low |-> m % Base, high |-> m \div Base]
Number(c) == LET m == c.high * Base + c.low IN IF m >= (Base * Base) \div 2 THEN m - Base * Base ELSE m

ToneInit ==
    /\ tone_pins = NoPin /\ timer1_pin = NoPin /\ timer1_toggle_count = Digits(0) /\ OCIE1A = FALSE
    /\ level = [p \in TonePins |-> 0] /\ toneTodo = <<>> /\ toneArg = NoTone
    /\ lowFirst \in BOOLEAN /\ asked = 0 /\ toggles = 0 /\ torn = FALSE

------------------------------------------------------------------------------
\* Forms an error could give the operators below; no action uses them.
EnabledFirst == <<"pinMode", "enable", "first", "second">>

------------------------------------------------------------------------------
Counted(c) == IF Number(c) > 0 THEN Digits(Number(c) - 1) ELSE c

ToneSteps == <<"pinMode", "first", "second", "enable">>

\* tone(), and toneBegin(): nothing happens if another pin has the timer
tone ==
    /\ toneTodo = <<>>
    /\ \E p \in TonePins, n \in -1 .. MaxToggles :
          /\ tone_pins \in {p, NoPin}
          /\ toneArg' = [pin |-> p, count |-> n]
          /\ timer1_pin' = IF tone_pins = p THEN timer1_pin ELSE p
          /\ tone_pins' = p
    /\ toneTodo' = ToneSteps /\ torn' = FALSE
    /\ UNCHANGED <<timer1_toggle_count, OCIE1A, level, lowFirst, asked, toggles>>

ToneNextStep(op) == toneTodo # <<>> /\ Head(toneTodo) = op /\ toneTodo' = Tail(toneTodo)

StoreDigit ==
    LET new == Digits(toneArg.count)
    IN /\ \/ ToneNextStep("first") /\ UNCHANGED <<asked, toggles>>
          \/ ToneNextStep("second") /\ toggles' = 0 /\ asked' = toneArg.count
       /\ timer1_toggle_count' = IF (Head(toneTodo) = "first") = lowFirst
                                 THEN [timer1_toggle_count EXCEPT !.low = new.low]
                                 ELSE [timer1_toggle_count EXCEPT !.high = new.high]
       /\ UNCHANGED <<tone_pins, timer1_pin, OCIE1A, level, toneArg, lowFirst, torn>>

\* noTone() on the pin that plays, or on another
noTone ==
    /\ toneTodo = <<>>
    /\ \E p \in TonePins :
          /\ toneArg' = [pin |-> p, count |-> 0]
          /\ tone_pins' = IF tone_pins = p THEN NoPin ELSE tone_pins
          /\ toneTodo' = IF tone_pins = p THEN <<"disable", "low">> ELSE <<"low">>
    /\ UNCHANGED <<timer1_pin, timer1_toggle_count, OCIE1A, level, lowFirst, asked, toggles, torn>>

\* pinMode() leaves the level alone
ToneStep ==
    /\ \/ ToneNextStep("pinMode") /\ UNCHANGED <<OCIE1A, level>>
       \/ ToneNextStep("enable") /\ OCIE1A' = TRUE /\ UNCHANGED level
       \/ ToneNextStep("disable") /\ OCIE1A' = FALSE /\ UNCHANGED level
       \/ ToneNextStep("low") /\ level' = [level EXCEPT ![toneArg.pin] = 0] /\ UNCHANGED OCIE1A
    /\ toneArg' = IF toneTodo' = <<>> THEN NoTone ELSE toneArg
    /\ UNCHANGED <<tone_pins, timer1_pin, timer1_toggle_count, lowFirst, asked, toggles, torn>>

TIMER1_COMPA_vect ==
    /\ OCIE1A
    /\ IF Number(timer1_toggle_count) # 0
       THEN /\ level' = [level EXCEPT ![timer1_pin] = 1 - @]
            /\ timer1_toggle_count' = Counted(timer1_toggle_count)
            /\ toggles' = IF toggles < MaxToggles THEN toggles + 1 ELSE toggles
            /\ UNCHANGED OCIE1A
       ELSE /\ OCIE1A' = FALSE /\ level' = [level EXCEPT ![timer1_pin] = 0]
            /\ UNCHANGED <<timer1_toggle_count, toggles>>
    /\ torn' = (torn \/ (toneTodo # <<>> /\ Head(toneTodo) = "second"))
    /\ UNCHANGED <<tone_pins, timer1_pin, toneTodo, toneArg, lowFirst, asked>>

ToneNext == tone \/ StoreDigit \/ noTone \/ ToneStep \/ TIMER1_COMPA_vect
ToneSpec == ToneInit /\ [][ToneNext]_toneVars

------------------------------------------------------------------------------
\* A tone makes the toggles it was asked for, no more and no less, also when it
\* replaces the one that is playing (but for an interrupt that finds half of the
\* number); and a pin is high only while its tone plays.
TonePulses ==
    /\ toneTodo = <<>> /\ tone_pins # NoPin /\ ~torn =>
          /\ asked \in {-1, toggles + Number(timer1_toggle_count)}
          /\ Number(timer1_toggle_count) # 0 => OCIE1A
    /\ \A p \in TonePins : level[p] = 1 => p = timer1_pin /\ (OCIE1A \/ toneTodo # <<>>)
    /\ toneTodo = <<>> /\ tone_pins = NoPin => ~OCIE1A
=============================================================================
