----------------------------- MODULE TimerEvents -----------------------------
(***************************************************************************)
(* The Timer library: a fixed array of events that Timer::update() runs    *)
(* through, calling their callbacks or toggling their pins.  A callback is *)
(* code of the sketch: it may take time, stop any event and start new      *)
(* ones, in the slot of its own event too.  It does not call update().     *)
(*                                                                         *)
(* lastEventTime is kept as the age millis() - lastEventTime.  A free slot *)
(* is never read, so it is kept empty, but for the one being updated.      *)
(***************************************************************************)
EXTENDS Integers

CONSTANTS
    MAX_NUMBER_OF_EVENTS,
    Periods, Repeats,   \* bound: the arguments of every() and oscillate()
    MaxCalls            \* bound: calls of one callback

ASSUME EventsAssumption ==
    /\ MAX_NUMBER_OF_EVENTS \in Nat \ {0}
    /\ Periods \subseteq Nat /\ Repeats \subseteq Nat /\ MaxCalls \in Nat
    /\ \E p \in Periods : \A q \in Periods : q <= p

VARIABLES
    _events,
    eventsPc,     \* "sketch", "update", or "callback" inside update()
    i,      \* the loop variable of update()
    gap,    \* ticks since update() read millis() for event i
    calls   \* calls the running callback has made

eventsVars == <<_events, eventsPc, i, gap, calls>>

Limits == Repeats \cup {-1} \* -1: for ever

Slots == 0 .. MAX_NUMBER_OF_EVENTS - 1

MaxPeriod == CHOOSE p \in Periods : \A q \in Periods : q <= p

\* Ticks, as far as a comparison with a period can tell.
Upto(n) == IF n > MaxPeriod THEN MaxPeriod ELSE n

(* call, fired, since and taken are history: the method that started the   *)
(* event, how often it ran, the ticks since it started or last ran, and    *)
(* whether it started in its slot while the event before it was running.   *)
Event ==
    [eventType : {"NONE", "EVERY", "OSCILLATE"}, period : Periods \cup {0},
     repeatCount : Int, count : Nat, age : Nat, toggled : BOOLEAN,
     call : {"", "every", "oscillate", "pulse", "pulseImmediate"},
     fired : Nat, since : Nat, taken : BOOLEAN]

Empty ==
    [eventType |-> "NONE", period |-> 0, repeatCount |-> 0, count |-> 0, age |-> 0,
     toggled |-> FALSE, call |-> "", fired |-> 0, since |-> 0, taken |-> FALSE]

EventsInit ==
    /\ _events = [s \in Slots |-> Empty]
    /\ eventsPc = "sketch" /\ i = 0 /\ gap = 0 /\ calls = 0

------------------------------------------------------------------------------
\* Forms an error could give the operators below; no action uses them.
CyclesOnce(n) == n
AgeKept(e) == e
OneShort(e) == e.repeatCount > -1 /\ e.count + 1 >= e.repeatCount

NONE(s) == _events[s].eventType = "NONE"

\* findFreeEventIndex()
IsFreeEventIndex(s) == NONE(s) /\ \A r \in 0 .. s - 1 : ~NONE(r)

\* The sketch calls the library, from a callback or outside update().
InSketch ==
    /\ eventsPc \in {"sketch", "callback"}
    /\ eventsPc = "callback" => calls < MaxCalls
    /\ calls' = IF eventsPc = "callback" THEN calls + 1 ELSE calls
    /\ UNCHANGED <<eventsPc, i, gap>>

Started(type, period, repeatCount, call, s) ==
    [Empty EXCEPT !.eventType = type, !.period = period, !.repeatCount = repeatCount,
                  !.call = call, !.taken = (eventsPc = "callback" /\ s = i)]

Start(type, period, repeatCount, call) ==
    /\ InSketch
    /\ \E s \in Slots :
          /\ IsFreeEventIndex(s)
          /\ _events' = [_events EXCEPT ![s] = Started(type, period, repeatCount, call, s)]

\* every(), and after(), which is every() with a repeatCount of 1
every == \E p \in Periods, n \in Limits : Start("EVERY", p, n, "every")

\* "full cycles not transitions"
Transitions(n) == n * 2

oscillate == \E p \in Periods, n \in Limits : Start("OSCILLATE", p, Transitions(n), "oscillate")

pulse == \E p \in Periods : Start("OSCILLATE", p, Transitions(1), "pulse")

\* oscillate(), and "now fix the repeat count"
pulseImmediate == \E p \in Periods : Start("OSCILLATE", p, 1, "pulseImmediate")

stop ==
    /\ InSketch
    /\ \E s \in Slots :
          /\ ~NONE(s)
          /\ _events' = IF eventsPc = "callback" /\ s = i
                          THEN [_events EXCEPT ![s].eventType = "NONE"]
                          ELSE [_events EXCEPT ![s] = Empty]

update ==
    /\ eventsPc = "sketch" /\ eventsPc' = "update" /\ i' = 0
    /\ UNCHANGED <<_events, gap, calls>>

Current == _events[i]

AtLimit(e) == e.repeatCount > -1 /\ e.count >= e.repeatCount

\* The end of Event::update(): an event that has run often enough is over.
Finished(e) == IF AtLimit(e) \/ e.eventType = "NONE" THEN Empty ELSE e

\* count is only looked at if there is a limit
CountedRun(e) == IF e.repeatCount > -1 THEN [e EXCEPT !.count = @ + 1] ELSE e

Advance(e) ==
    /\ _events' = [_events EXCEPT ![i] = Finished(e)]
    /\ eventsPc' = "update" /\ i' = i + 1
    /\ gap' = 0 /\ calls' = 0

Skip ==
    /\ eventsPc = "update" /\ i \in Slots /\ (NONE(i) \/ Current.age < Current.period)
    /\ Advance(Current)

Due == eventsPc = "update" /\ i \in Slots /\ ~NONE(i) /\ Current.age >= Current.period

\* case EVENT_EVERY: (*callback)(context)
RunCallback ==
    /\ Due /\ Current.eventType = "EVERY"
    /\ _events' = [_events EXCEPT ![i].fired = Upto(@ + 1), ![i].since = 0]
    /\ eventsPc' = "callback" /\ gap' = 0 /\ calls' = 0
    /\ UNCHANGED i

SetAge(e) == [e EXCEPT !.age = gap]

\* lastEventTime = now; count++, whatever the callback has made of the event
CallbackReturn ==
    /\ eventsPc = "callback"
    /\ Advance(CountedRun(SetAge(Current)))

Toggle ==
    /\ Due /\ Current.eventType = "OSCILLATE"
    /\ Advance(CountedRun([Current EXCEPT !.toggled = ~@, !.age = 0, !.since = 0]))

UpdateReturn ==
    /\ eventsPc = "update" /\ i \notin Slots /\ eventsPc' = "sketch" /\ i' = 0
    /\ UNCHANGED <<_events, gap, calls>>

\* millis() advances.
TimePasses ==
    /\ eventsPc \in {"sketch", "callback"}
    /\ _events' = [s \in Slots |->
                     IF NONE(s) THEN _events[s]
                     ELSE [_events[s] EXCEPT !.age = Upto(@ + 1), !.since = Upto(@ + 1)]]
    /\ gap' = IF eventsPc = "callback" THEN Upto(gap + 1) ELSE gap
    /\ UNCHANGED <<eventsPc, i, calls>>

EventsNext ==
    \/ every \/ oscillate \/ pulse \/ pulseImmediate \/ stop
    \/ update \/ Skip \/ RunCallback \/ CallbackReturn \/ Toggle \/ UpdateReturn
    \/ TimePasses

EventsSpec == EventsInit /\ [][EventsNext]_eventsVars

------------------------------------------------------------------------------
\* Type: every variable stays in its range; no event counts past its limit.
EventsTypeOK ==
    /\ _events \in [Slots -> Event]
    /\ \A s \in Slots :
          ~NONE(s) /\ _events[s].repeatCount > 0 => _events[s].count < _events[s].repeatCount
    /\ eventsPc \in {"sketch", "update", "callback"}
    /\ i \in 0 .. MAX_NUMBER_OF_EVENTS /\ gap \in 0 .. MaxPeriod /\ calls \in 0 .. MaxCalls

\* An event runs no sooner than its period after it was started or last ran, however
\* long callbacks take; the exception is an event that took the slot of the one
\* whose callback started it, whose lastEventTime is set to before its start.
NotEarly == [][RunCallback => Current.since >= Current.period \/ Current.taken]_eventsVars

\* update() drops an event with a limit only after it ran that often; the exception
\* is an event that took the slot of the one whose callback started it: the run of the
\* other is counted as its own.
NotCutShort ==
    [][CallbackReturn /\ ~NONE(i) /\ _events'[i].eventType = "NONE" =>
          \/ Current.repeatCount > -1 /\ Upto(Current.repeatCount) <= Current.fired
          \/ Current.taken]_eventsVars

OverBy(call) ==
    /\ eventsPc = "update" /\ i \in Slots /\ Current.call = call /\ ~Current.taken
    /\ _events'[i].eventType = "NONE"

\* oscillate() is over after "full cycles not transitions" (Timer.cpp:71), with the pin
\* at the starting value; after pulseImmediate() "the pin will be left in the
\* !startingValue state" (Timer.cpp:95). Nothing is claimed of pulse(), of which line 86
\* says the same: it is oscillate() once, and ends at the starting value.
PinLeft ==
    [][/\ OverBy("oscillate") => Toggle /\ Current.toggled
       /\ OverBy("pulseImmediate") => Toggle /\ ~Current.toggled]_eventsVars
==============================================================================
