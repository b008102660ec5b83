------------------------------- MODULE Timers -------------------------------
(***************************************************************************)
(* The parts of the core and its libraries that keep time, one at a time:  *)
(* the clock on timer 0, the lease and the events that are counted with    *)
(* it, and what the handler of timer 1 makes, a tone or the pulses of      *)
(* servos (a sketch links one of the two).  They share no variable, so     *)
(* nothing is lost by leaving all but one of them at rest.                 *)
(***************************************************************************)
EXTENDS Clock, TimerEvents, DhcpLease, Tone, Servo

VARIABLE running    \* the part that is looked at

timersVars == <<clockVars, eventsVars, leaseVars, toneVars, servoVars, running>>

TimersInit ==
    /\ ClockInit /\ EventsInit /\ LeaseInit /\ ToneInit /\ ServoInit
    /\ running \in {"clock", "events", "lease", "tone", "servo"}

TimersNext ==
    /\ \/ running = "clock" /\ ClockNext /\ UNCHANGED <<eventsVars, leaseVars, toneVars, servoVars>>
       \/ running = "events" /\ EventsNext /\ UNCHANGED <<clockVars, leaseVars, toneVars, servoVars>>
       \/ running = "lease" /\ LeaseNext /\ UNCHANGED <<clockVars, eventsVars, toneVars, servoVars>>
       \/ running = "tone" /\ ToneNext /\ UNCHANGED <<clockVars, eventsVars, leaseVars, servoVars>>
       \/ running = "servo" /\ ServoNext /\ UNCHANGED <<clockVars, eventsVars, leaseVars, toneVars>>
    /\ UNCHANGED running

TimersSpec == TimersInit /\ [][TimersNext]_timersVars

------------------------------------------------------------------------------
\* No overflow of timer 0 is lost or counted twice, however the handler falls between
\* the reads of millis() and micros(), and delay() waits as long as it is asked to.
ClockKept == ClockTypeOK /\ MillisExact /\ MillisWhole /\ MicrosExact /\ DelayLongEnough

\* A lease is renewed by its T1, and rebound by its T2 if that fails, however
\* irregularly checkLease() is called.
LeaseInTime == LeaseTypeOK /\ RenewInTime /\ RebindInTime

\* An event runs neither early nor less often than asked for, whatever the callbacks
\* start and stop. oscillate() leaves its pin after full cycles, pulseImmediate() at
\* !startingValue, as their comments say; pulse() does not do what its comment says.
EventsKept == []EventsTypeOK /\ NotEarly /\ NotCutShort /\ PinLeft
=============================================================================
