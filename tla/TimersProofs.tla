----------------------------- MODULE TimersProofs -----------------------------
(***************************************************************************)
(* What keeps time keeps it: the events of the Timer library for every     *)
(* number of slots, the clock on timer 0 for every width of its registers  *)
(* and every frequency, the lease that is counted with it, tones for every *)
(* length and every moment at which the next one replaces them, and the    *)
(* pulses of any number of servos.                                         *)
(***************************************************************************)
EXTENDS Timers, DhcpLeaseProofs

\* A step of the parts together is a step of each part, or leaves it alone.
LEMMA PartsSimulated ==
    ASSUME [TimersNext]_timersVars
    PROVE  /\ [ClockNext]_clockVars /\ [EventsNext]_eventsVars /\ [LeaseNext]_leaseVars
           /\ [ToneNext]_toneVars /\ [ServoNext]_servoVars
  <1>1. CASE TimersNext  BY <1>1 DEF TimersNext
  <1>2. CASE UNCHANGED timersVars  BY <1>2 DEF timersVars
  <1>. QED  BY <1>1, <1>2

\* Of the parts of the system that keep time, each keeps its own specification.
LEMMA PartsKept == TimersSpec => ClockSpec /\ EventsSpec /\ LeaseSpec /\ ToneSpec /\ ServoSpec
  <1>1. TimersInit => ClockInit /\ EventsInit /\ LeaseInit /\ ToneInit /\ ServoInit  BY DEF TimersInit
  <1>. QED
    BY <1>1, PartsSimulated, PTL DEF TimersSpec, ClockSpec, EventsSpec, LeaseSpec, ToneSpec, ServoSpec

------------------------------------------------------------------------------
\* A lease is renewed by its T1, and rebound by its T2 if that fails, however irregularly
\* checkLease() is called and whatever lease times replies name, if they name T1 and T2
\* with them (Dhcp.cpp:394-434).
THEOREM LeaseKept == ASSUME T1Named PROVE TimersSpec => []LeaseInTime
  <1>. QED  BY PartsKept, LeaseTypeCorrect, RenewedInTime, ReboundInTime, PTL DEF LeaseInTime

------------------------------------------------------------------------------
(***************************************************************************)
(* The events of the Timer library.  An event that is not being updated    *)
(* has run as often as it has counted, has aged as long as it has waited,  *)
(* and has toggled its pin as its count tells (AtRest); while its callback *)
(* runs it has run once more than it has counted (InRun).  An event that   *)
(* took the slot of the one being updated is held to its limit only.       *)
(***************************************************************************)

Limited(e) == e.repeatCount > 0 => e.count < e.repeatCount

Cycles(e) ==
    e.repeatCount > -1 =>
        /\ e.toggled <=> e.count % 2 = 1
        /\ e.call \in {"oscillate", "pulse"} => e.repeatCount % 2 = 0
        /\ e.call = "pulseImmediate" => e.repeatCount = 1

Sound(e) ==
    /\ e \in Event
    /\ e.eventType # "NONE" => e.repeatCount # 0
    /\ e.eventType # "NONE" /\ ~e.taken =>
          /\ e.since >= e.age
          /\ e.eventType = "EVERY" => e.call = "every" /\ (e.repeatCount > -1 => e.fired = Upto(e.count))
          /\ e.eventType = "OSCILLATE" => e.call # "every" /\ Cycles(e)

AtRest(e) ==
    /\ Sound(e)
    /\ e.eventType = "NONE" => e = Empty
    /\ e.eventType # "NONE" => Limited(e)

InRun(e, g) ==
    /\ e \in Event
    /\ e.eventType # "NONE" => e.repeatCount # 0 /\ Limited(e)
    /\ e.eventType # "NONE" /\ ~e.taken =>
          /\ e.since >= g /\ e.eventType = "EVERY" /\ e.call = "every"
          /\ e.repeatCount > -1 => e.fired = Upto(e.count + 1)

EventsInv ==
    /\ _events \in [Slots -> Event]
    /\ eventsPc \in {"sketch", "update", "callback"}
    /\ i \in 0 .. MAX_NUMBER_OF_EVENTS /\ gap \in 0 .. MaxPeriod /\ calls \in 0 .. MaxCalls
    /\ eventsPc = "callback" => i \in Slots /\ InRun(Current, gap)
    /\ \A s \in Slots : (eventsPc = "callback" /\ s = i) \/ AtRest(_events[s])

LEMMA MaxPeriodIs == MaxPeriod \in Nat /\ \A q \in Periods : q <= MaxPeriod
  BY EventsAssumption DEF EventsAssumption, MaxPeriod

LEMMA UptoIs ==
    ASSUME NEW n \in Nat
    PROVE  /\ Upto(n) \in 0 .. MaxPeriod /\ Upto(Upto(n) + 1) = Upto(n + 1)
           /\ \A k \in Nat : k >= n => Upto(k + 1) >= Upto(n + 1)
  BY MaxPeriodIs DEF Upto

LEMMA EmptyRests == AtRest(Empty)
  <1>1. Empty \in Event  BY DEF Empty, Event
  <1>. QED  BY <1>1 DEF AtRest, Sound, Empty

\* An event that is started has run and toggled as often as it has counted, not at all.
LEMMA StartedRests ==
    ASSUME NEW p \in Periods, NEW n \in Int \ {0}, NEW s \in Slots,
           NEW type \in {"EVERY", "OSCILLATE"},
           NEW call \in {"every", "oscillate", "pulse", "pulseImmediate"},
           type = "EVERY" <=> call = "every",
           call \in {"oscillate", "pulse"} => n % 2 = 0,
           call = "pulseImmediate" => n = 1
    PROVE  /\ AtRest(Started(type, p, n, call, s))
           /\ Started(type, p, n, call, s).taken <=> eventsPc = "callback" /\ s = i
  <1>. DEFINE e == Started(type, p, n, call, s)
  <1>1. /\ e.eventType = type /\ e.repeatCount = n /\ e.call = call /\ e.count = 0 /\ e.fired = 0
        /\ e.age = 0 /\ e.since = 0 /\ e.toggled = FALSE
        /\ e.taken = (eventsPc = "callback" /\ s = i)
        /\ e \in Event
        BY EventsAssumption DEF Started, Empty, Event, EventsAssumption
  <1>2. Upto(0) = 0  BY MaxPeriodIs DEF Upto
  <1>. HIDE DEF e
  <1>3. Cycles(e)  BY <1>1 DEF Cycles
  <1>4. Limited(e)  BY <1>1 DEF Limited
  <1>5. Sound(e)  BY <1>1, <1>2, <1>3 DEF Sound
  <1>6. AtRest(e)  BY <1>1, <1>4, <1>5 DEF AtRest
  <1>. QED  BY <1>1, <1>6 DEF e

\* What the end of Event::update() leaves in the slot.
LEMMA FinishedRests ==
    ASSUME NEW e, Sound(e)
    PROVE  AtRest(Finished(e))
  <1>1. e.repeatCount \in Int /\ e.count \in Nat  BY DEF Sound, Event
  <1>2. CASE AtLimit(e) \/ e.eventType = "NONE"  BY <1>2, EmptyRests DEF Finished
  <1>3. CASE ~(AtLimit(e) \/ e.eventType = "NONE")
        BY <1>1, <1>3 DEF Finished, AtLimit, AtRest, Limited
  <1>. QED  BY <1>2, <1>3

\* Time passes for every event alike.
LEMMA AgedRests ==
    ASSUME NEW e, AtRest(e), e.eventType # "NONE"
    PROVE  AtRest([e EXCEPT !.age = Upto(@ + 1), !.since = Upto(@ + 1)])
  <1>. DEFINE f == [e EXCEPT !.age = Upto(@ + 1), !.since = Upto(@ + 1)]
  <1>1. e \in Event /\ e.age \in Nat /\ e.since \in Nat  BY DEF AtRest, Sound, Event
  <1>2. Upto(e.age + 1) \in Nat /\ Upto(e.since + 1) \in Nat
        BY <1>1, MaxPeriodIs DEF Upto
  <1>3. /\ f \in Event /\ f.eventType = e.eventType /\ f.repeatCount = e.repeatCount /\ f.count = e.count
        /\ f.toggled = e.toggled /\ f.call = e.call /\ f.fired = e.fired /\ f.taken = e.taken
        /\ f.age = Upto(e.age + 1) /\ f.since = Upto(e.since + 1)
        BY <1>1, <1>2 DEF Event
  <1>4. e.since >= e.age => f.since >= f.age  BY <1>1, <1>3, MaxPeriodIs DEF Upto
  <1>. HIDE DEF f
  <1>. QED  BY <1>3, <1>4 DEF AtRest, Sound, Cycles, Limited, f

\* The updates of the event that update() is at.
LEMMA RunIsInRun ==
    ASSUME NEW e, AtRest(e), e.eventType = "EVERY", NEW f,
           f = [e EXCEPT !.fired = Upto(@ + 1), !.since = 0]
    PROVE  f \in Event /\ InRun(f, 0)
  <1>1. /\ e \in Event /\ e.count \in Nat /\ e.fired \in Nat /\ e.repeatCount \in Int
        BY DEF AtRest, Sound, Event
  <1>2. Upto(e.fired + 1) \in Nat  BY <1>1, UptoIs
  <1>3. /\ f \in Event /\ f.eventType = e.eventType /\ f.repeatCount = e.repeatCount /\ f.count = e.count
        /\ f.call = e.call /\ f.taken = e.taken /\ f.since = 0 /\ f.fired = Upto(e.fired + 1)
        BY <1>1, <1>2 DEF Event
  <1>4. e.fired = Upto(e.count) => f.fired = Upto(e.count + 1)  BY <1>1, <1>3, UptoIs
  <1>. QED  BY <1>1, <1>3, <1>4 DEF AtRest, Sound, Limited, InRun

LEMMA CountedRunIs ==
    ASSUME NEW e \in Event, NEW f, f = CountedRun(e)
    PROVE  /\ f \in Event /\ f.eventType = e.eventType /\ f.repeatCount = e.repeatCount
           /\ f.count = IF e.repeatCount > -1 THEN e.count + 1 ELSE e.count
           /\ f.call = e.call /\ f.fired = e.fired /\ f.taken = e.taken
           /\ f.age = e.age /\ f.since = e.since
  <1>1. CASE e.repeatCount > -1
    <2>1. f = [e EXCEPT !.count = e.count + 1]  BY <1>1 DEF CountedRun
    <2>. e.count \in Nat  BY DEF Event
    <2>2. e.count + 1 \in Nat  OBVIOUS
    <2>3. f \in Event /\ f.count = e.count + 1  BY <2>1, <2>2 DEF Event
    <2>4. /\ f.eventType = e.eventType /\ f.repeatCount = e.repeatCount
          /\ f.call = e.call /\ f.fired = e.fired /\ f.taken = e.taken
          /\ f.age = e.age /\ f.since = e.since
          BY <2>1 DEF Event
    <2>. QED  BY <1>1, <2>3, <2>4
  <1>2. CASE ~(e.repeatCount > -1)  BY <1>2 DEF CountedRun, Event
  <1>. QED  BY <1>1, <1>2

LEMMA ReturnIsSound ==
    ASSUME NEW e, InRun(e, gap), gap \in Nat
    PROVE  Sound(CountedRun(SetAge(e)))
  <1>. DEFINE f == CountedRun(SetAge(e))
  <1>1. e \in Event /\ e.count \in Nat /\ e.repeatCount \in Int  BY DEF InRun, Event
  <1>2. /\ f \in Event /\ f.eventType = e.eventType /\ f.repeatCount = e.repeatCount
        /\ f.count = IF e.repeatCount > -1 THEN e.count + 1 ELSE e.count
        /\ f.call = e.call /\ f.fired = e.fired /\ f.taken = e.taken
        /\ f.age = gap /\ f.since = e.since
    <2>. DEFINE g == SetAge(e)
    <2>1. /\ g \in Event /\ g.eventType = e.eventType /\ g.repeatCount = e.repeatCount
          /\ g.count = e.count /\ g.call = e.call /\ g.fired = e.fired /\ g.taken = e.taken
          /\ g.age = gap /\ g.since = e.since
          BY <1>1 DEF SetAge, Event
    <2>2. f = CountedRun(g)  OBVIOUS
    <2>. HIDE DEF f, g
    <2>. QED  BY <2>1, <2>2, CountedRunIs
  <1>. HIDE DEF f
  <1>. QED  BY <1>1, <1>2 DEF InRun, Sound, Limited, f

LEMMA ToggleIsSound ==
    ASSUME NEW e, AtRest(e), e.eventType = "OSCILLATE"
    PROVE  Sound(CountedRun([e EXCEPT !.toggled = ~@, !.age = 0, !.since = 0]))
  <1>. DEFINE f == CountedRun([e EXCEPT !.toggled = ~@, !.age = 0, !.since = 0])
  <1>1. e \in Event /\ e.count \in Nat /\ e.repeatCount \in Int /\ e.toggled \in BOOLEAN
        BY DEF AtRest, Sound, Event
  <1>2. /\ f \in Event /\ f.eventType = e.eventType /\ f.repeatCount = e.repeatCount
        /\ f.count = IF e.repeatCount > -1 THEN e.count + 1 ELSE e.count
        /\ f.call = e.call /\ f.taken = e.taken /\ f.age = 0 /\ f.since = 0
    <2>. DEFINE g == [e EXCEPT !.toggled = ~@, !.age = 0, !.since = 0]
    <2>1. /\ g \in Event /\ g.eventType = e.eventType /\ g.repeatCount = e.repeatCount
          /\ g.count = e.count /\ g.call = e.call /\ g.taken = e.taken /\ g.age = 0 /\ g.since = 0
          BY <1>1 DEF Event
    <2>2. f = CountedRun(g)  OBVIOUS
    <2>. HIDE DEF f, g
    <2>. QED  BY <2>1, <2>2, CountedRunIs
  <1>3. f.toggled <=> ~e.toggled
    <2>1. CASE e.repeatCount > -1  BY <1>1, <2>1 DEF CountedRun, Event
    <2>2. CASE ~(e.repeatCount > -1)  BY <1>1, <2>2 DEF CountedRun, Event
    <2>. QED  BY <2>1, <2>2
  <1>. HIDE DEF f
  <1>4. (e.count + 1) % 2 = 1 <=> ~(e.count % 2 = 1)  BY <1>1
  <1>5. ASSUME Cycles(e) PROVE Cycles(f)
    <2>1. ASSUME e.repeatCount > -1 PROVE f.toggled <=> f.count % 2 = 1
      <3>1. e.toggled <=> e.count % 2 = 1  BY <1>5, <2>1 DEF Cycles
      <3>2. f.count = e.count + 1  BY <1>2, <2>1
      <3>3. f.count % 2 = 1 <=> ~(e.count % 2 = 1)  BY <1>4, <3>2
      <3>. QED  BY <1>3, <3>1, <3>3, Zenon
    <2>. QED  BY <1>2, <1>5, <2>1 DEF Cycles
  <1>. QED  BY <1>1, <1>2, <1>5 DEF AtRest, Sound, f

LEMMA EventsInvInit == EventsInit => EventsInv
  <1>1. Empty \in Event /\ AtRest(Empty)  BY EmptyRests DEF AtRest, Sound
  <1>2. 0 \in 0 .. MAX_NUMBER_OF_EVENTS /\ 0 \in 0 .. MaxPeriod /\ 0 \in 0 .. MaxCalls
        BY EventsAssumption, MaxPeriodIs DEF EventsAssumption
  <1>. QED  BY <1>1, <1>2 DEF EventsInit, EventsInv

\* What the sketch does, from a callback or outside update(), to one slot.
LEMMA SketchStep ==
    ASSUME EventsInv, InSketch, NEW s \in Slots, NEW e,
           _events' = [_events EXCEPT ![s] = e],
           e \in Event,
           eventsPc = "callback" /\ s = i => InRun(e, gap),
           ~(eventsPc = "callback" /\ s = i) => AtRest(e)
    PROVE  EventsInv'
  <1>1. /\ eventsPc' = eventsPc /\ i' = i /\ gap' = gap /\ calls' \in 0 .. MaxCalls
        /\ MaxCalls \in Nat /\ eventsPc \in {"sketch", "callback"}
        BY EventsAssumption DEF EventsInv, InSketch, EventsAssumption
  <1>2. _events' \in [Slots -> Event] /\ _events'[s] = e
        /\ \A r \in Slots : r # s => _events'[r] = _events[r]
        BY DEF EventsInv
  <1>3. ASSUME NEW r \in Slots, ~(eventsPc = "callback" /\ r = i)
        PROVE  AtRest(_events[r])'
    <2>1. CASE r = s  BY <1>2, <1>3, <2>1 DEF AtRest, Sound, Limited, Cycles
    <2>2. CASE r # s
      <3>1. AtRest(_events[r])  BY <1>3 DEF EventsInv
      <3>. QED  BY <1>2, <2>2, <3>1 DEF AtRest, Sound, Limited, Cycles
    <2>. QED  BY <2>1, <2>2
  <1>4. ASSUME eventsPc = "callback" PROVE i \in Slots /\ InRun(Current, gap)'
    <2>1. i \in Slots /\ InRun(_events[i], gap)  BY <1>4 DEF EventsInv, Current
    <2>2. CASE i = s  BY <1>1, <1>2, <1>4, <2>1, <2>2 DEF InRun, Limited, Current
    <2>3. CASE i # s  BY <1>1, <1>2, <2>1, <2>3 DEF InRun, Limited, Current
    <2>. QED  BY <2>1, <2>2, <2>3
  <1>. QED  BY <1>1, <1>2, <1>3, <1>4 DEF EventsInv

\* What update() does to the slot it is at, when it goes on to the next.
LEMMA AdvanceStep ==
    ASSUME EventsInv, i \in Slots, NEW e, Sound(e), Advance(e)
    PROVE  EventsInv'
  <1>1. /\ eventsPc' = "update" /\ i' = i + 1 /\ gap' = 0 /\ calls' = 0
        /\ i + 1 \in 0 .. MAX_NUMBER_OF_EVENTS /\ 0 \in 0 .. MaxPeriod /\ 0 \in 0 .. MaxCalls
        BY EventsAssumption, MaxPeriodIs DEF Advance, Slots, EventsAssumption
  <1>2. AtRest(Finished(e))  BY FinishedRests
  <1>3. Finished(e) \in Event  BY <1>2 DEF AtRest, Sound
  <1>4. _events' \in [Slots -> Event] /\ _events'[i] = Finished(e)
        /\ \A r \in Slots : r # i => _events'[r] = _events[r]
        BY <1>3 DEF EventsInv, Advance
  <1>5. ASSUME NEW r \in Slots PROVE AtRest(_events[r])'
    <2>1. CASE r = i  BY <1>2, <1>4, <2>1 DEF AtRest, Sound, Limited, Cycles
    <2>2. CASE r # i
      <3>1. AtRest(_events[r])  BY <2>2 DEF EventsInv
      <3>. QED  BY <1>4, <2>2, <3>1 DEF AtRest, Sound, Limited, Cycles
    <2>. QED  BY <2>1, <2>2
  <1>. QED  BY <1>1, <1>4, <1>5 DEF EventsInv

LEMMA StartStep ==
    ASSUME EventsInv, NEW p \in Periods, NEW n \in Int \ {0},
           NEW type \in {"EVERY", "OSCILLATE"},
           NEW call \in {"every", "oscillate", "pulse", "pulseImmediate"},
           type = "EVERY" <=> call = "every",
           call \in {"oscillate", "pulse"} => n % 2 = 0,
           call = "pulseImmediate" => n = 1,
           Start(type, p, n, call)
    PROVE  EventsInv'
  <1>1. PICK s \in Slots : _events' = [_events EXCEPT ![s] = Started(type, p, n, call, s)]
        BY DEF Start
  <1>. DEFINE e == Started(type, p, n, call, s)
  <1>2. AtRest(e) /\ (e.taken <=> eventsPc = "callback" /\ s = i)  BY StartedRests
  <1>3. e.eventType # "NONE" /\ e \in Event  BY <1>2 DEF AtRest, Sound, Started, Empty
  <1>4. InSketch  BY DEF Start
  <1>5. _events' = [_events EXCEPT ![s] = e]  BY <1>1
  <1>. HIDE DEF e
  <1>6. eventsPc = "callback" /\ s = i => InRun(e, gap)  BY <1>2, <1>3 DEF InRun, AtRest, Sound
  <1>. QED  BY <1>2, <1>3, <1>4, <1>5, <1>6, SketchStep

LEMMA EventsInvStep ==
    ASSUME 0 \notin Repeats, EventsInv, [EventsNext]_eventsVars
    PROVE  EventsInv'
  <1>1. \A n \in Limits : n \in Int \ {0} /\ Transitions(n) \in Int \ {0} /\ Transitions(n) % 2 = 0
    <2>1. ASSUME NEW n \in Limits PROVE n \in Int \ {0}
          BY EventsAssumption DEF EventsAssumption, Limits
    <2>2. ASSUME NEW n \in Int \ {0} PROVE n * 2 \in Int \ {0} /\ (n * 2) % 2 = 0  OBVIOUS
    <2>. QED  BY <2>1, <2>2 DEF Transitions
  <1>2. CASE every
    <2>1. PICK p \in Periods, n \in Limits : Start("EVERY", p, n, "every")  BY <1>2 DEF every
    <2>. QED  BY <1>1, <2>1, StartStep
  <1>3. CASE oscillate
    <2>1. PICK p \in Periods, n \in Limits : Start("OSCILLATE", p, Transitions(n), "oscillate")
          BY <1>3 DEF oscillate
    <2>. QED  BY <1>1, <2>1, StartStep
  <1>4. CASE pulse
    <2>1. PICK p \in Periods : Start("OSCILLATE", p, Transitions(1), "pulse")  BY <1>4 DEF pulse
    <2>2. Transitions(1) \in Int \ {0} /\ Transitions(1) % 2 = 0  BY DEF Transitions
    <2>. QED  BY <2>1, <2>2, StartStep
  <1>5. CASE pulseImmediate
    <2>1. PICK p \in Periods : Start("OSCILLATE", p, 1, "pulseImmediate")  BY <1>5 DEF pulseImmediate
    <2>. QED  BY <2>1, StartStep
  <1>6. CASE stop
    <2>1. PICK s \in Slots :
             _events' = IF eventsPc = "callback" /\ s = i
                        THEN [_events EXCEPT ![s].eventType = "NONE"]
                        ELSE [_events EXCEPT ![s] = Empty]
          BY <1>6 DEF stop
    <2>2. InSketch /\ _events[s] \in Event  BY <1>6 DEF stop, EventsInv
    <2>3. CASE eventsPc = "callback" /\ s = i
      <3>. DEFINE e == [_events[s] EXCEPT !.eventType = "NONE"]
      <3>1. _events' = [_events EXCEPT ![s] = e]  BY <2>1, <2>3
      <3>2. e \in Event /\ e.eventType = "NONE"  BY <2>2 DEF Event
      <3>. HIDE DEF e
      <3>3. InRun(e, gap)  BY <3>2 DEF InRun
      <3>. QED  BY <2>2, <2>3, <3>1, <3>2, <3>3, SketchStep
    <2>4. CASE ~(eventsPc = "callback" /\ s = i)
      <3>1. _events' = [_events EXCEPT ![s] = Empty]  BY <2>1, <2>4
      <3>2. AtRest(Empty) /\ Empty \in Event  BY EmptyRests DEF AtRest, Sound
      <3>. QED  BY <2>2, <2>4, <3>1, <3>2, SketchStep
    <2>. QED  BY <2>3, <2>4
  <1>7. CASE update
    <2>1. 0 \in 0 .. MAX_NUMBER_OF_EVENTS  BY EventsAssumption DEF EventsAssumption
    <2>. QED  BY <1>7, <2>1 DEF update, EventsInv, AtRest, Sound, Limited, Cycles
  <1>8. CASE Skip
    <2>1. i \in Slots /\ Sound(Current) /\ Advance(Current)
          BY <1>8 DEF Skip, EventsInv, AtRest, Current
    <2>. QED  BY <2>1, AdvanceStep
  <1>9. CASE RunCallback
    <2>. DEFINE f == [Current EXCEPT !.fired = Upto(@ + 1), !.since = 0]
    <2>1. /\ i \in Slots /\ eventsPc = "update" /\ AtRest(Current) /\ Current.eventType = "EVERY"
          /\ eventsPc' = "callback" /\ i' = i /\ gap' = 0 /\ calls' = 0
          BY <1>9 DEF RunCallback, Due, EventsInv, Current
    <2>2. _events' = [_events EXCEPT ![i] = f]  BY <1>9, <2>1 DEF RunCallback, Current, EventsInv
    <2>3. f \in Event /\ InRun(f, 0)  BY <2>1, RunIsInRun
    <2>. HIDE DEF f
    <2>4. _events' \in [Slots -> Event] /\ _events'[i] = f
          /\ \A r \in Slots : r # i => _events'[r] = _events[r]
          BY <2>1, <2>2, <2>3 DEF EventsInv
    <2>5. InRun(_events'[i], 0)  BY <2>3, <2>4
    <2>7. InRun(Current, gap)'  BY <2>1, <2>5 DEF InRun, Limited, Current
    <2>6. ASSUME NEW r \in Slots, r # i PROVE AtRest(_events[r])'
      <3>1. AtRest(_events[r])  BY <2>6 DEF EventsInv
      <3>. QED  BY <2>4, <2>6, <3>1 DEF AtRest, Sound, Limited, Cycles
    <2>8. 0 \in 0 .. MaxPeriod /\ 0 \in 0 .. MaxCalls
          BY EventsAssumption, MaxPeriodIs DEF EventsAssumption
    <2>. QED  BY <2>1, <2>4, <2>6, <2>7, <2>8 DEF EventsInv
  <1>10. CASE CallbackReturn
    <2>1. i \in Slots /\ InRun(Current, gap) /\ gap \in Nat /\ Advance(CountedRun(SetAge(Current)))
          BY <1>10, MaxPeriodIs DEF CallbackReturn, EventsInv
    <2>. QED  BY <2>1, ReturnIsSound, AdvanceStep
  <1>11. CASE Toggle
    <2>1. /\ i \in Slots /\ AtRest(Current) /\ Current.eventType = "OSCILLATE"
          /\ Advance(CountedRun([Current EXCEPT !.toggled = ~@, !.age = 0, !.since = 0]))
          BY <1>11 DEF Toggle, Due, EventsInv, Current
    <2>. QED  BY <2>1, ToggleIsSound, AdvanceStep
  <1>12. CASE UpdateReturn
    <2>1. 0 \in 0 .. MAX_NUMBER_OF_EVENTS  BY EventsAssumption DEF EventsAssumption
    <2>. QED  BY <1>12, <2>1 DEF UpdateReturn, EventsInv, AtRest, Sound, Limited, Cycles
  <1>13. CASE TimePasses
    <2>1. /\ eventsPc' = eventsPc /\ i' = i /\ calls' = calls
          /\ gap' = IF eventsPc = "callback" THEN Upto(gap + 1) ELSE gap
          /\ gap \in Nat /\ gap' \in 0 .. MaxPeriod
      <3>1. gap \in 0 .. MaxPeriod /\ MaxPeriod \in Nat  BY MaxPeriodIs DEF EventsInv
      <3>2. gap + 1 \in Nat /\ Upto(gap + 1) \in 0 .. MaxPeriod  BY <3>1, UptoIs
      <3>3. /\ eventsPc' = eventsPc /\ i' = i /\ calls' = calls
            /\ gap' = IF eventsPc = "callback" THEN Upto(gap + 1) ELSE gap
            BY <1>13, Zenon DEF TimePasses
      <3>. QED  BY <3>1, <3>2, <3>3
    <2>2. ASSUME NEW r \in Slots
          PROVE  /\ _events[r].eventType = "NONE" => _events'[r] = _events[r]
                 /\ _events[r].eventType # "NONE" =>
                       _events'[r] = [_events[r] EXCEPT !.age = Upto(@ + 1), !.since = Upto(@ + 1)]
          BY <1>13 DEF TimePasses, NONE
    <2>3. ASSUME NEW r \in Slots
          PROVE  /\ _events'[r] \in Event /\ _events'[r].eventType = _events[r].eventType
                 /\ _events'[r].repeatCount = _events[r].repeatCount /\ _events'[r].count = _events[r].count
                 /\ _events'[r].taken = _events[r].taken /\ _events'[r].call = _events[r].call
                 /\ _events'[r].fired = _events[r].fired
                 /\ _events[r].eventType # "NONE" => _events'[r].since = Upto(_events[r].since + 1)
      <3>1. _events[r] \in Event  BY DEF EventsInv
      <3>2. CASE _events[r].eventType = "NONE"  BY <2>2, <3>1, <3>2
      <3>3. CASE _events[r].eventType # "NONE"
        <4>1. _events[r].age \in Nat /\ _events[r].since \in Nat  BY <3>1 DEF Event
        <4>2. Upto(_events[r].age + 1) \in Nat /\ Upto(_events[r].since + 1) \in Nat
              BY <4>1, MaxPeriodIs DEF Upto
        <4>. QED  BY <2>2, <3>1, <3>3, <4>2 DEF Event
      <3>. QED  BY <3>2, <3>3
    <2>4. _events' \in [Slots -> Event]  BY <1>13, <2>3 DEF TimePasses
    <2>5. ASSUME NEW r \in Slots, ~(eventsPc = "callback" /\ r = i) PROVE AtRest(_events[r])'
      <3>1. AtRest(_events[r])  BY <2>5 DEF EventsInv
      <3>2. CASE _events[r].eventType = "NONE"
            BY <2>2, <3>1, <3>2 DEF AtRest, Sound, Limited, Cycles
      <3>3. CASE _events[r].eventType # "NONE"
        <4>1. AtRest(_events'[r])  BY <2>2, <3>1, <3>3, AgedRests
        <4>. QED  BY <4>1 DEF AtRest, Sound, Limited, Cycles
      <3>. QED  BY <3>2, <3>3
    <2>6. ASSUME eventsPc = "callback" PROVE i \in Slots /\ InRun(Current, gap)'
      <3>1. i \in Slots /\ InRun(_events[i], gap) /\ gap' = Upto(gap + 1)
            BY <2>1, <2>6 DEF EventsInv, Current
      <3>2. _events[i].since \in Nat  BY <3>1 DEF InRun, Event
      <3>3. _events[i].since >= gap => Upto(_events[i].since + 1) >= Upto(gap + 1)
            BY <2>1, <3>2, UptoIs
      <3>. QED  BY <2>1, <2>3, <3>1, <3>3 DEF InRun, Limited, Current
    <2>. QED  BY <2>1, <2>4, <2>5, <2>6 DEF EventsInv
  <1>14. CASE UNCHANGED eventsVars
        BY <1>14 DEF eventsVars, EventsInv, InRun, AtRest, Sound, Limited, Cycles, Current
  <1>. QED
    BY <1>2, <1>3, <1>4, <1>5, <1>6, <1>7, <1>8, <1>9, <1>10, <1>11, <1>12, <1>13, <1>14 DEF EventsNext

\* An event that goes on keeps its slot, and one that has run often enough does not.
LEMMA FinishedIs ==
    ASSUME NEW e, e \in Event, e.eventType # "NONE"
    PROVE  Finished(e).eventType = "NONE" <=> AtLimit(e)
  <1>1. CASE AtLimit(e)  BY <1>1 DEF Finished, Empty
  <1>2. CASE ~AtLimit(e)  BY <1>2 DEF Finished
  <1>. QED  BY <1>1, <1>2

LEMMA NotEarlyStep ==
    ASSUME EventsInv, RunCallback
    PROVE  Current.since >= Current.period \/ Current.taken
  <1>1. /\ AtRest(Current) /\ Current.eventType # "NONE" /\ Current.age >= Current.period
        BY DEF EventsInv, RunCallback, Due, Current
  <1>2. /\ Current.age \in Nat /\ Current.since \in Nat /\ Current.period \in Int
    <2>1. Current \in Event  BY <1>1 DEF AtRest, Sound
    <2>2. Current.age \in Nat /\ Current.since \in Nat /\ Current.period \in Periods \cup {0}
          BY <2>1 DEF Event
    <2>3. ASSUME NEW p \in Periods \cup {0} PROVE p \in Int
          BY EventsAssumption DEF EventsAssumption
    <2>. QED  BY <2>2, <2>3
  <1>. QED  BY <1>1, <1>2 DEF AtRest, Sound

LEMMA NotCutShortStep ==
    ASSUME EventsInv, CallbackReturn, ~NONE(i), _events'[i].eventType = "NONE", ~Current.taken
    PROVE  Current.repeatCount > -1 /\ Upto(Current.repeatCount) <= Current.fired
  <1>. DEFINE e == CountedRun(SetAge(Current))
  <1>1. /\ i \in Slots /\ InRun(Current, gap) /\ gap \in Nat /\ Current.eventType # "NONE"
        BY MaxPeriodIs DEF EventsInv, CallbackReturn, NONE, Current
  <1>2. /\ Current \in Event /\ Current.count \in Nat /\ Current.repeatCount \in Int
        BY <1>1 DEF InRun, Event
  <1>3. /\ SetAge(Current) \in Event /\ SetAge(Current).eventType = Current.eventType
        /\ SetAge(Current).repeatCount = Current.repeatCount /\ SetAge(Current).count = Current.count
        BY <1>1, <1>2 DEF SetAge, Event
  <1>4. /\ e \in Event /\ e.eventType = Current.eventType /\ e.repeatCount = Current.repeatCount
        /\ e.count = IF Current.repeatCount > -1 THEN Current.count + 1 ELSE Current.count
        BY <1>3, CountedRunIs
  <1>5. _events'[i] = Finished(e)  BY <1>1 DEF CallbackReturn, Advance, EventsInv
  <1>. HIDE DEF e
  <1>6. e.repeatCount > -1 /\ e.count >= e.repeatCount
        BY <1>1, <1>4, <1>5, FinishedIs DEF AtLimit
  <1>7. Current.repeatCount \in Nat /\ Current.fired = Upto(Current.count + 1)
        /\ Current.repeatCount <= Current.count + 1
        BY <1>1, <1>2, <1>4, <1>6 DEF InRun
  <1>. QED  BY <1>2, <1>7, MaxPeriodIs DEF Upto

LEMMA PinLeftStep ==
    ASSUME EventsInv, [EventsNext]_eventsVars, NEW call, OverBy(call),
           call \in {"oscillate", "pulseImmediate"}
    PROVE  /\ Toggle
           /\ call = "oscillate" => Current.toggled
           /\ call = "pulseImmediate" => ~Current.toggled
  <1>1. /\ eventsPc = "update" /\ i \in Slots /\ AtRest(Current) /\ Current.call = call
        /\ ~Current.taken /\ _events'[i].eventType = "NONE"
        BY DEF OverBy, EventsInv, Current
  <1>2. Current.eventType # "NONE" /\ Current.call # "every"
    <2>1. Empty.call = ""  BY DEF Empty
    <2>2. Current.eventType = "NONE" => Current = Empty  BY <1>1 DEF AtRest
    <2>. QED  BY <1>1, <2>1, <2>2
  <1>3. /\ Current \in Event /\ Current.eventType = "OSCILLATE" /\ Cycles(Current) /\ Limited(Current)
        /\ Current.repeatCount # 0
        BY <1>1, <1>2 DEF AtRest, Sound, Event
  <1>4. /\ Current.repeatCount \in Int /\ Current.count \in Nat /\ _events \in [Slots -> Event]
        BY <1>3 DEF Event, EventsInv
  <1>5. ~Skip
    <2>1. ASSUME Skip PROVE FALSE
      <3>1. _events'[i] = Finished(Current)  BY <1>1, <1>4, <2>1 DEF Skip, Advance
      <3>2. AtLimit(Current)  BY <1>1, <1>2, <1>3, <3>1, FinishedIs
      <3>. QED  BY <1>3, <1>4, <3>2 DEF AtLimit, Limited
    <2>. QED  BY <2>1
  <1>6. Toggle
    <2>1. ~(every \/ oscillate \/ pulse \/ pulseImmediate \/ stop)
          BY <1>1 DEF every, oscillate, pulse, pulseImmediate, stop, Start, InSketch
    <2>2. ~(update \/ CallbackReturn \/ UpdateReturn \/ TimePasses)
          BY <1>1 DEF update, CallbackReturn, UpdateReturn, TimePasses
    <2>3. ~RunCallback  BY <1>3 DEF RunCallback
    <2>4. ~UNCHANGED eventsVars  BY <1>1, <1>2 DEF eventsVars, Current
    <2>. QED  BY <1>5, <2>1, <2>2, <2>3, <2>4 DEF EventsNext
  <1>. DEFINE g == [Current EXCEPT !.toggled = ~@, !.age = 0, !.since = 0]
              e == CountedRun(g)
  <1>7. g \in Event /\ g.eventType = "OSCILLATE" /\ g.repeatCount = Current.repeatCount
        /\ g.count = Current.count
        BY <1>3 DEF Event
  <1>8. _events'[i] = Finished(e)  BY <1>1, <1>4, <1>6 DEF Toggle, Advance
  <1>. HIDE DEF g
  <1>9. /\ e \in Event /\ e.eventType = "OSCILLATE" /\ e.repeatCount = Current.repeatCount
        /\ e.count = IF Current.repeatCount > -1 THEN Current.count + 1 ELSE Current.count
        BY <1>7, CountedRunIs
  <1>. HIDE DEF e
  <1>10. AtLimit(e)  BY <1>1, <1>8, <1>9, FinishedIs
  <1>11. Current.repeatCount > -1 /\ Current.count + 1 = Current.repeatCount
         BY <1>3, <1>4, <1>9, <1>10 DEF AtLimit, Limited
  <1>12. Current.toggled <=> Current.count % 2 = 1  BY <1>3, <1>11 DEF Cycles
  <1>13. ASSUME call = "oscillate" PROVE Current.toggled
    <2>1. Current.repeatCount % 2 = 0  BY <1>1, <1>3, <1>11, <1>13 DEF Cycles
    <2>2. Current.count % 2 = 1  BY <1>4, <1>11, <2>1
    <2>. QED  BY <1>12, <2>2
  <1>14. ASSUME call = "pulseImmediate" PROVE ~Current.toggled
    <2>1. Current.repeatCount = 1  BY <1>1, <1>3, <1>11, <1>14 DEF Cycles
    <2>2. ~(Current.count % 2 = 1)  BY <1>4, <1>11, <2>1
    <2>. QED  BY <1>12, <2>2
  <1>. QED  BY <1>6, <1>13, <1>14

\* An event runs neither early nor less often than asked for, oscillate() ends after full
\* cycles and pulseImmediate() at !startingValue, whatever the callbacks start and stop and
\* however many slots there are (Timer.cpp:36-137, Event.cpp:37-60), if no event is to
\* run no times. It claims nothing of the pin that pulse() leaves.
THEOREM EventsHold == ASSUME 0 \notin Repeats PROVE TimersSpec => EventsKept
  <1>1. ASSUME EventsInv PROVE EventsTypeOK
        BY <1>1 DEF EventsInv, EventsTypeOK, AtRest, InRun, Limited, NONE, Current
  <1>2. ASSUME EventsInv, [EventsNext]_eventsVars
        PROVE  [RunCallback => Current.since >= Current.period \/ Current.taken]_eventsVars
        BY <1>2, NotEarlyStep
  <1>3. ASSUME EventsInv, [EventsNext]_eventsVars
        PROVE  [CallbackReturn /\ ~NONE(i) /\ _events'[i].eventType = "NONE" =>
                  \/ Current.repeatCount > -1 /\ Upto(Current.repeatCount) <= Current.fired
                  \/ Current.taken]_eventsVars
        BY <1>3, NotCutShortStep
  <1>4. ASSUME EventsInv, [EventsNext]_eventsVars
        PROVE  [/\ OverBy("oscillate") => Toggle /\ Current.toggled
                /\ OverBy("pulseImmediate") => Toggle /\ ~Current.toggled]_eventsVars
        BY <1>4, PinLeftStep
  <1>. QED
    BY <1>1, <1>2, <1>3, <1>4, EventsInvInit, EventsInvStep, PartsKept, PTL
    DEF EventsSpec, EventsKept, NotEarly, NotCutShort, PinLeft

------------------------------------------------------------------------------
(***************************************************************************)
(* The clock.  What millis() and micros() compute is exact modulo the      *)
(* width of their counters, so quotients are carried along: the overflows  *)
(* since reset (Overflows), of which the handler has counted CountedTicks. *)
(***************************************************************************)

\* What division and remainder are, for any divisor.
LEMMA Divided ==
    ASSUME NEW a \in Int, NEW b \in Nat \ {0}
    PROVE  a \div b \in Int /\ a % b \in 0 .. b - 1 /\ a = b * (a \div b) + (a % b)
  <1>1. a \div b \in Int  OBVIOUS
  <1>2. a % b \in 0 .. b - 1  OBVIOUS
  <1>3. a = b * (a \div b) + (a % b)  OBVIOUS
  <1>. QED  BY <1>1, <1>2, <1>3

LEMMA OnlyQuotient ==
    ASSUME NEW b \in Nat \ {0}, NEW j \in Int, NEW k \in Int, NEW r \in 0 .. b - 1, NEW z \in 0 .. b - 1,
           b * j + r = b * k + z
    PROVE  j = k /\ r = z
  <1>1. ASSUME NEW x \in Int, NEW y \in Int, x >= y + 1 PROVE b * x >= b * y + b
    <2>1. PICK d \in Nat : x = y + 1 + d
      <3>1. x - y - 1 \in Nat /\ x = y + 1 + (x - y - 1)  BY <1>1
      <3>. QED  BY <3>1
    <2>2. b * x = b * y + b + b * d  BY <2>1
    <2>3. b * d >= 0  OBVIOUS
    <2>. QED  BY <2>2, <2>3
  <1>2. b * j \in Int /\ b * k \in Int  OBVIOUS
  <1>3. ~(j >= k + 1)  BY <1>1, <1>2
  <1>4. ~(k >= j + 1)  BY <1>1, <1>2
  <1>5. j = k  BY <1>3, <1>4
  <1>. QED  BY <1>2, <1>5

LEMMA QuotientIs ==
    ASSUME NEW b \in Nat \ {0}, NEW k \in Int, NEW r \in 0 .. b - 1
    PROVE  (b * k + r) \div b = k /\ (b * k + r) % b = r
  <1>. DEFINE a == b * k + r
  <1>1. a \in Int  OBVIOUS
  <1>2. a \div b \in Int /\ a % b \in 0 .. b - 1 /\ a = b * (a \div b) + (a % b)  BY <1>1, Divided
  <1>. QED  BY <1>2, OnlyQuotient

LEMMA Turns ==
    ASSUME NEW a \in Int, NEW b \in Nat \ {0}, NEW k \in Int
    PROVE  (a + b * k) % b = a % b
  <1>. DEFINE q == a \div b
              r == a % b
  <1>1. q \in Int /\ r \in 0 .. b - 1 /\ a = b * q + r  BY Divided
  <1>. HIDE DEF q, r
  <1>2. a + b * k = b * (q + k) + r  BY <1>1
  <1>3. (b * (q + k) + r) % b = r  BY <1>1, QuotientIs
  <1>. QED  BY <1>2, <1>3 DEF r

LEMMA TurnsAdd ==
    ASSUME NEW a \in Int, NEW b \in Nat \ {0}, NEW c \in Int
    PROVE  ((a % b) + c) % b = (a + c) % b
  <1>. DEFINE q == a \div b
              r == a % b
  <1>1. q \in Int /\ r \in 0 .. b - 1 /\ a = b * q + r  BY Divided
  <1>. HIDE DEF q, r
  <1>2. a + c = (r + c) + b * q  BY <1>1
  <1>3. ((r + c) + b * q) % b = (r + c) % b
    <2>1. r + c \in Int  BY <1>1
    <2>. QED  BY <1>1, <2>1, Turns
  <1>. QED  BY <1>2, <1>3 DEF r

\* A remainder is no more than what is divided.
LEMMA RemainderIsLess ==
    ASSUME NEW a \in Nat, NEW b \in Nat \ {0}
    PROVE  a % b <= a
  <1>1. a \div b \in Nat /\ a % b \in 0 .. b - 1 /\ a % b = a - b * (a \div b)  BY Division
  <1>2. ASSUME NEW q \in Nat PROVE b * q >= 0  OBVIOUS
  <1>. QED  BY <1>1, <1>2

\* A difference modulo the width of a counter is no more than the true one.
LEMMA DifferenceIs ==
    ASSUME NEW a \in Int, NEW c \in Int, c <= a, NEW b \in Nat \ {0}, NEW x, x = c % b,
           NEW least \in Int, (a - x) % b >= least
    PROVE  a - c >= least
  <1>. DEFINE q == c \div b
              d == a - c
  <1>1. q \in Int /\ x \in 0 .. b - 1 /\ c = b * q + x  BY Divided
  <1>2. d \in Nat  OBVIOUS
  <1>3. a - x = d + b * q  BY <1>1
  <1>. HIDE DEF q, d
  <1>4. (d + b * q) % b = d % b
    <2>1. d \in Int /\ q \in Int  BY <1>1, <1>2
    <2>. QED  BY <2>1, Turns, Zenon
  <1>5. d % b <= d /\ d % b \in Int
    <2>1. d % b <= d  BY <1>2, RemainderIsLess, Zenon
    <2>. QED  BY <1>2, <2>1
  <1>6. d >= least  BY <1>2, <1>3, <1>4, <1>5
  <1>. QED  BY <1>6 DEF d

LEMMA ClockConstants ==
    /\ Word \in Nat \ {0} /\ Half \in Nat \ {0} /\ Half <= Word
    /\ Top + 1 \in Nat \ {0} /\ Top \in Nat \ {0, 1}
    /\ MILLIS_INC \in Nat /\ FRACT_MAX \in Nat \ {0} /\ FRACT_INC \in 0 .. FRACT_MAX
    /\ Word * FRACT_MAX \in Nat \ {0}
    /\ Scale \in Nat \ {0} /\ Milli \in Nat \ {0} /\ MaxTicks \in Nat /\ Delays \subseteq Nat
  <1>1. ASSUME NEW a \in Nat \ {0}, NEW b \in Nat \ {0} PROVE a * b \in Nat \ {0} /\ a <= a * b
    <2>1. PICK d \in Nat : b = d + 1
      <3>1. b - 1 \in Nat /\ b = (b - 1) + 1  OBVIOUS
      <3>. QED  BY <3>1
    <2>2. a * b = a * d + a /\ a * d \in Nat  BY <2>1
    <2>. QED  BY <2>2
  <1>2. /\ Half \in Nat \ {0} /\ Top + 1 \in Nat \ {0} /\ FRACT_MAX \in Nat \ {0}
        BY ClockAssumption DEF ClockAssumption
  <1>3. Word \in Nat \ {0} /\ Half <= Word  BY <1>1, <1>2 DEF Word
  <1>4. Word * FRACT_MAX \in Nat \ {0}  BY <1>1, <1>2, <1>3
  <1>. QED  BY <1>2, <1>3, <1>4, ClockAssumption DEF ClockAssumption

Overflows == ticks \div (Top + 1)

PerOverflow == MILLIS_INC * FRACT_MAX + FRACT_INC

\* The time of c overflows is what the two counters say if they went over k times.
Balanced(c, millis, fract, k) ==
    c * PerOverflow = millis * FRACT_MAX + fract + (Word * FRACT_MAX) * k

Turned(k) == Balanced(CountedTicks, timer0_millis, timer0_fract, k)

CountInv ==
    /\ ticks = (Top + 1) * Overflows + TCNT0
    /\ TOV0 => TCNT0 < Top
    /\ CountedTicks \in Int
    /\ timer0_overflow_count = CountedTicks % Word
    /\ \E k \in Int : Turned(k)

ReadsInv ==
    /\ clockPc \notin {"sketch", "delay"} => ~I
    /\ clockPc = "ms_high" => m = timer0_millis % Half
    /\ clockPc = "ms_ret" => m = timer0_millis
    /\ clockPc \in {"us_t", "us_tov"} => m = timer0_overflow_count
    /\ clockPc \in {"us_tov", "us_ret"} => at = (Top + 1) * (at \div (Top + 1)) + t
    /\ clockPc = "us_tov" => at \div (Top + 1) = CountedTicks + Uncounted
    /\ clockPc = "us_ret" => m = (at \div (Top + 1)) % Word

DelayInv ==
    clockPc = "delay" =>
        /\ ms <= askedMs /\ at <= ticks
        /\ start = (at * Scale + (askedMs - ms) * Milli) % Word
        /\ (askedMs - ms) * Milli <= (ticks - at) * Scale

ClockInv == ClockTypeOK /\ CountInv /\ ReadsInv /\ DelayInv

LEMMA ClockInvInit == ClockInit => ClockInv
  <1>. SUFFICES ASSUME ClockInit PROVE ClockInv  OBVIOUS
  <1>. USE ClockConstants DEF ClockInit
  <1>1. ClockTypeOK
    <2>1. /\ TCNT0 \in 0 .. Top /\ timer0_overflow_count \in 0 .. Word - 1
          /\ timer0_millis \in 0 .. Word - 1 /\ timer0_fract \in 0 .. FRACT_MAX - 1
          /\ m \in 0 .. Word - 1 /\ t \in 0 .. Top /\ ms \in Nat /\ askedMs \in Nat
          /\ start \in 0 .. Word - 1 /\ ticks \in 0 .. MaxTicks /\ at \in 0 .. MaxTicks
          OBVIOUS
    <2>2. TOV0 \in BOOLEAN /\ I \in BOOLEAN /\ oldSREG \in BOOLEAN  BY Zenon
    <2>3. clockPc = "sketch"  OBVIOUS
    <2>. QED  BY <2>1, <2>2, <2>3 DEF ClockTypeOK
  <1>2. Overflows = 0
    <2>1. ((Top + 1) * 0 + 0) \div (Top + 1) = 0  BY QuotientIs
    <2>. QED  BY <2>1 DEF Overflows
  <1>3. CountedTicks = 0  BY <1>2 DEF CountedTicks, Overflows
  <1>4. 0 % Word = 0
    <2>1. (Word * 0 + 0) % Word = 0  BY QuotientIs
    <2>. QED  BY <2>1
  <1>5. PerOverflow \in Int  BY DEF PerOverflow
  <1>6. \E k \in Int : Turned(k)
    <2>1. Turned(0)  BY <1>3, <1>5 DEF Turned, Balanced
    <2>. QED  BY <2>1
  <1>7. CountInv
    <2>1. ticks = (Top + 1) * Overflows + TCNT0  BY <1>2
    <2>2. timer0_overflow_count = CountedTicks % Word  BY <1>3, <1>4
    <2>3. ~TOV0 /\ CountedTicks \in Int  BY <1>3
    <2>. QED  BY <1>6, <2>1, <2>2, <2>3 DEF CountInv
  <1>. QED  BY <1>1, <1>7 DEF ClockInv, ReadsInv, DelayInv

\* A tick: only a counter that wraps goes over, and its overflow is then not counted yet.
LEMMA TickCounts ==
    ASSUME ClockInv, Tick
    PROVE  /\ ticks' = (Top + 1) * Overflows' + TCNT0' /\ TCNT0' \in 0 .. Top
           /\ TOV0' \in BOOLEAN /\ (TOV0' => TCNT0' < Top)
           /\ CountedTicks' = CountedTicks
           /\ clockPc = "us_tov" => Uncounted' = Uncounted
  <1>. USE ClockConstants
  <1>1. /\ ticks \in Nat /\ TCNT0 \in 0 .. Top /\ TOV0 \in BOOLEAN /\ ticks < MaxTicks
        /\ ticks = (Top + 1) * Overflows + TCNT0 /\ (TOV0 => TCNT0 < Top)
        BY DEF ClockInv, ClockTypeOK, CountInv, Tick
  <1>2. /\ ticks' = ticks + 1 /\ TCNT0' = (TCNT0 + 1) % (Top + 1)
        /\ TOV0' = (TOV0 \/ TCNT0 = Top)
        /\ UNCHANGED <<I, overflowVars, mainVars>>
        BY DEF Tick
  <1>3. Overflows \in Int  BY <1>1, Divided DEF Overflows
  <1>4. TOV0' \in BOOLEAN /\ (TOV0' <=> TOV0 \/ TCNT0 = Top)  BY <1>2, Zenon
  <1>5. TOV0 => TCNT0 < Top - 1  BY DEF Tick
  <1>6. CASE TCNT0 < Top
    <2>1. TCNT0 + 1 \in 0 .. (Top + 1) - 1  BY <1>1, <1>6
    <2>2. TCNT0' = TCNT0 + 1
      <3>1. ((Top + 1) * 0 + (TCNT0 + 1)) % (Top + 1) = TCNT0 + 1  BY <2>1, QuotientIs
      <3>2. (Top + 1) * 0 + (TCNT0 + 1) = TCNT0 + 1  BY <1>1
      <3>. QED  BY <1>2, <3>1, <3>2
    <2>3. ticks + 1 = (Top + 1) * Overflows + (TCNT0 + 1)  BY <1>1, <1>3
    <2>4. Overflows' = Overflows  BY <1>2, <1>3, <2>1, <2>3, QuotientIs DEF Overflows
    <2>5. (TOV0' <=> TOV0) /\ (TOV0' => TCNT0' < Top)  BY <1>1, <1>6, <1>4, <1>5, <2>2
    <2>6. CountedTicks' = CountedTicks  BY <2>4, <2>5 DEF CountedTicks, Overflows
    <2>7. TCNT0' \in 0 .. Top  BY <1>1, <1>6, <2>2
    <2>8. ticks' = (Top + 1) * Overflows' + TCNT0'  BY <1>2, <2>2, <2>3, <2>4
    <2>9. clockPc = "us_tov" => Uncounted' = Uncounted  BY <1>2, <2>5 DEF Uncounted, mainVars
    <2>. QED  BY <1>4, <2>5, <2>6, <2>7, <2>8, <2>9
  <1>7. CASE TCNT0 = Top
    <2>1. 0 \in 0 .. (Top + 1) - 1 /\ Overflows + 1 \in Int  BY <1>3
    <2>2. TCNT0' = 0
      <3>1. ((Top + 1) * 1 + 0) % (Top + 1) = 0  BY <2>1, QuotientIs
      <3>2. (Top + 1) * 1 + 0 = TCNT0 + 1  BY <1>1, <1>7
      <3>. QED  BY <1>2, <3>1, <3>2
    <2>3. ticks + 1 = (Top + 1) * (Overflows + 1) + 0  BY <1>1, <1>3, <1>7
    <2>4. Overflows' = Overflows + 1  BY <1>2, <2>1, <2>3, QuotientIs DEF Overflows
    <2>5. ~TOV0 /\ TOV0' /\ TCNT0' < Top  BY <1>1, <1>7, <1>4, <1>5, <2>2
    <2>6. CountedTicks' = CountedTicks  BY <1>3, <2>4, <2>5 DEF CountedTicks, Overflows
    <2>7. TCNT0' \in 0 .. Top  BY <2>2
    <2>8. ticks' = (Top + 1) * Overflows' + TCNT0'  BY <1>2, <2>2, <2>3, <2>4
    <2>9. clockPc = "us_tov" => Uncounted' = Uncounted
          BY <1>2, <1>7, <2>5 DEF Uncounted, mainVars, Tick
    <2>. QED  BY <1>4, <2>5, <2>6, <2>7, <2>8, <2>9
  <1>. QED  BY <1>1, <1>6, <1>7

\* An overflow that the handler counts: what it adds to timer0_millis and timer0_fract
\* is the time of one overflow, but for whole turns of the counters.
LEMMA OverflowTurns ==
    ASSUME NEW c \in Int, NEW k \in Int, NEW millis \in Int, NEW fract \in Int,
           NEW j \in Int, NEW after \in Int, NEW carried \in Int,
           Balanced(c, millis, fract, k),
           millis + MILLIS_INC + carried = Word * j + after
    PROVE  Balanced(c + 1, after, fract + FRACT_INC - FRACT_MAX * carried, k + j)
  <1>. DEFINE inc == MILLIS_INC
              full == FRACT_MAX
              width == Word
              over == FRACT_INC
  <1>. inc \in Int /\ full \in Int /\ width \in Int /\ over \in Int  BY ClockConstants
  <1>1. /\ c * (inc * full + over) = millis * full + fract + (width * full) * k
        /\ millis + inc + carried = width * j + after
        BY DEF Balanced, PerOverflow
  <1>. HIDE DEF inc, full, width, over
  <1>2. (c + 1) * (inc * full + over) = c * (inc * full + over) + inc * full + over  OBVIOUS
  <1>3. (width * j + after) * full = (width * full) * j + after * full  OBVIOUS
  <1>4. (millis + inc + carried) * full = millis * full + inc * full + full * carried  OBVIOUS
  <1>5. (width * full) * (k + j) = (width * full) * k + (width * full) * j  OBVIOUS
  <1>6. (width * full) * k \in Int /\ (width * full) * j \in Int /\ after * full \in Int
        /\ millis * full \in Int /\ inc * full \in Int /\ full * carried \in Int
        OBVIOUS
  <1>7. millis * full + inc * full + full * carried = (width * full) * j + after * full
        BY <1>3, <1>4, <1>1
  <1>8. (c + 1) * (inc * full + over) =
            after * full + (fract + over - full * carried) + (width * full) * (k + j)
        BY <1>2, <1>5, <1>6, <1>7, <1>1
  <1>. QED  BY <1>8 DEF Balanced, PerOverflow, inc, full, width, over

LEMMA OverflowCounts ==
    ASSUME ClockInv, TIMER0_OVF_vect
    PROVE  CountInv' /\ ClockTypeOK'
  <1>. USE ClockConstants
  <1>. DEFINE f == timer0_fract + FRACT_INC
              carried == IF FractOver(f) THEN 1 ELSE 0
              sum == timer0_millis + MILLIS_INC + carried
  <1>1. /\ TOV0 /\ TOV0' = FALSE /\ timer0_fract' = Carry(f)
        /\ timer0_millis' = sum % Word /\ timer0_overflow_count' = (timer0_overflow_count + 1) % Word
        /\ UNCHANGED <<TCNT0, ticks, I, mainVars>>
        BY DEF TIMER0_OVF_vect
  <1>2. /\ timer0_fract \in 0 .. FRACT_MAX - 1 /\ timer0_millis \in 0 .. Word - 1
        /\ timer0_overflow_count = CountedTicks % Word /\ CountedTicks \in Int
        /\ ticks \in Nat /\ TCNT0 \in 0 .. Top
        /\ ticks = (Top + 1) * Overflows + TCNT0
        BY DEF ClockInv, ClockTypeOK, CountInv
  <1>3. Overflows \in Int /\ Overflows' = Overflows  BY <1>1, <1>2, Divided DEF Overflows
  <1>4. CountedTicks' = CountedTicks + 1  BY <1>1, <1>3 DEF CountedTicks, Overflows
  <1>5. timer0_overflow_count' = CountedTicks' % Word
        BY <1>1, <1>2, <1>4, TurnsAdd
  <1>6. /\ f \in Int /\ carried \in {0, 1} /\ sum \in Int
        /\ timer0_fract' = f - FRACT_MAX * carried /\ timer0_fract' \in 0 .. FRACT_MAX - 1
        BY <1>1, <1>2 DEF Carry, FractOver
  <1>7. sum \div Word \in Int /\ sum % Word \in 0 .. Word - 1 /\ sum = Word * (sum \div Word) + (sum % Word)
        BY <1>6, Divided
  <1>. HIDE DEF carried, f, sum
  <1>8. \E k \in Int : Turned(k)'
    <2>1. PICK k \in Int : Turned(k)  BY DEF ClockInv, CountInv
    <2>2. PICK j \in Int : sum = Word * j + timer0_millis'  BY <1>1, <1>7
    <2>3. timer0_millis' \in Int  BY <1>1, <1>7
    <2>4. Balanced(CountedTicks, timer0_millis, timer0_fract, k)  BY <2>1 DEF Turned
    <2>5. timer0_millis + MILLIS_INC + carried = Word * j + timer0_millis'  BY <2>2 DEF sum
    <2>6. timer0_millis \in Int /\ timer0_fract \in Int /\ CountedTicks \in Int /\ carried \in Int
          BY <1>2, <1>6
    <2>7. Balanced(CountedTicks + 1, timer0_millis',
                   timer0_fract + FRACT_INC - FRACT_MAX * carried, k + j)
          BY <2>3, <2>4, <2>5, <2>6, OverflowTurns
    <2>8. timer0_fract' = timer0_fract + FRACT_INC - FRACT_MAX * carried  BY <1>2, <1>6 DEF f
    <2>9. Turned(k + j)'  BY <1>4, <2>7, <2>8 DEF Turned, Balanced, PerOverflow
    <2>. QED  BY <2>9
  <1>9. CountInv'
    <2>1. ~TOV0'  BY <1>1
    <2>2. ticks' = (Top + 1) * Overflows' + TCNT0'  BY <1>1, <1>2, <1>3
    <2>3. CountedTicks' \in Int  BY <1>2, <1>4
    <2>. QED  BY <1>5, <1>8, <2>1, <2>2, <2>3 DEF CountInv
  <1>10. ClockTypeOK'
    <2>1. timer0_overflow_count' \in 0 .. Word - 1
      <3>1. timer0_overflow_count + 1 \in Int  BY DEF ClockInv, ClockTypeOK
      <3>. QED  BY <1>1, <3>1, Divided
    <2>. QED  BY <1>1, <1>6, <1>7, <2>1 DEF ClockInv, ClockTypeOK, mainVars
  <1>. QED  BY <1>9, <1>10

\* What the main line does leaves the counters alone.
LEMMA CountKept ==
    ASSUME CountInv, UNCHANGED <<timer0Vars, overflowVars>>
    PROVE  CountInv' /\ CountedTicks' = CountedTicks /\ Overflows' = Overflows
  <1>1. UNCHANGED <<ticks, TCNT0, TOV0, timer0_overflow_count, timer0_millis, timer0_fract>>
        BY DEF timer0Vars, overflowVars
  <1>2. Overflows' = Overflows  BY <1>1 DEF Overflows
  <1>3. CountedTicks' = CountedTicks  BY <1>1 DEF CountedTicks
  <1>4. \E k \in Int : Turned(k)'
    <2>1. PICK k \in Int : Turned(k)  BY DEF CountInv
    <2>2. Turned(k)'  BY <1>1, <1>3, <2>1 DEF Turned, Balanced, PerOverflow
    <2>. QED  BY <2>2
  <1>. QED  BY <1>1, <1>2, <1>3, <1>4 DEF CountInv

LEMMA TickStep ==
    ASSUME ClockInv, Tick
    PROVE  ClockInv'
  <1>. USE ClockConstants
  <1>1. /\ ticks' = (Top + 1) * Overflows' + TCNT0' /\ TCNT0' \in 0 .. Top
        /\ TOV0' \in BOOLEAN /\ (TOV0' => TCNT0' < Top)
        /\ CountedTicks' = CountedTicks
        /\ clockPc = "us_tov" => Uncounted' = Uncounted
        BY TickCounts
  <1>2. /\ ticks' = ticks + 1 /\ ticks \in 0 .. MaxTicks /\ ticks < MaxTicks
        /\ UNCHANGED <<I, timer0_overflow_count, timer0_millis, timer0_fract,
                       clockPc, oldSREG, m, t, ms, start, at, askedMs>>
        BY DEF ClockInv, ClockTypeOK, Tick, overflowVars, mainVars
  <1>3. ClockTypeOK'
    <2>1. ticks' \in 0 .. MaxTicks  BY <1>2
    <2>. QED  BY <1>1, <1>2, <2>1 DEF ClockInv, ClockTypeOK
  <1>4. CountInv'
    <2>1. PICK k \in Int : Turned(k)  BY DEF ClockInv, CountInv
    <2>2. Turned(k)'  BY <1>1, <1>2, <2>1 DEF Turned, Balanced, PerOverflow
    <2>3. timer0_overflow_count' = CountedTicks' % Word /\ CountedTicks' \in Int
          BY <1>1, <1>2 DEF ClockInv, CountInv
    <2>. QED  BY <1>1, <2>2, <2>3 DEF CountInv
  <1>5. ReadsInv'  BY <1>1, <1>2 DEF ClockInv, ReadsInv
  <1>6. DelayInv'
    <2>1. at \in Nat /\ Scale \in Nat /\ ticks \in Nat  BY <1>2 DEF ClockInv, ClockTypeOK
    <2>2. (ticks + 1 - at) * Scale = (ticks - at) * Scale + Scale  BY <2>1
    <2>3. (ticks - at) * Scale \in Int /\ (askedMs - ms) * Milli \in Int
          BY <2>1 DEF ClockInv, ClockTypeOK
    <2>. QED  BY <1>2, <2>1, <2>2, <2>3 DEF ClockInv, DelayInv
  <1>. QED  BY <1>3, <1>4, <1>5, <1>6 DEF ClockInv

LEMMA OverflowStep ==
    ASSUME ClockInv, TIMER0_OVF_vect
    PROVE  ClockInv'
  <1>1. I /\ UNCHANGED <<ticks, I, clockPc, ms, start, at, askedMs>>
        BY DEF TIMER0_OVF_vect, mainVars
  <1>2. clockPc \in {"sketch", "delay"}  BY <1>1 DEF ClockInv, ReadsInv
  <1>3. ReadsInv'  BY <1>1, <1>2 DEF ReadsInv
  <1>4. DelayInv'  BY <1>1 DEF ClockInv, DelayInv
  <1>. QED  BY <1>3, <1>4, OverflowCounts DEF ClockInv

LEMMA DelayStep ==
    ASSUME ClockInv, DelayPoll
    PROVE  ClockInv'
  <1>. USE ClockConstants
  <1>1. /\ clockPc = "delay" /\ ms > 0 /\ ms' = ms - 1 /\ start' = (start + Milli) % Word
        /\ (ticks * Scale - start) % Word >= Milli
        /\ UNCHANGED <<ticks, TCNT0, TOV0, I, overflowVars, clockPc, oldSREG, m, t, at, askedMs>>
        BY DEF DelayPoll, MilliOver, timer0Vars
  <1>2. /\ ms \in Nat /\ askedMs \in Nat /\ at \in Nat /\ ticks \in Nat /\ start \in 0 .. Word - 1
        /\ ms <= askedMs /\ at <= ticks
        BY <1>1 DEF ClockInv, ClockTypeOK, DelayInv
  <1>. DEFINE S == at * Scale + (askedMs - ms) * Milli
              d == ticks * Scale - S
  <1>3. start = S % Word /\ (askedMs - ms) * Milli <= (ticks - at) * Scale
        BY <1>1 DEF ClockInv, DelayInv
  <1>4. /\ S \in Int /\ d \in Nat
        /\ (ticks - at) * Scale = ticks * Scale - at * Scale
        /\ (askedMs - (ms - 1)) * Milli = (askedMs - ms) * Milli + Milli
    <2>1. /\ ticks * Scale \in Int /\ at * Scale \in Int /\ (askedMs - ms) * Milli \in Int
          /\ (ticks - at) * Scale = ticks * Scale - at * Scale
          BY <1>2
    <2>2. (askedMs - (ms - 1)) * Milli = (askedMs - ms) * Milli + Milli  BY <1>2
    <2>. QED  BY <1>3, <2>1, <2>2
  <1>5. ticks * Scale \in Int /\ at * Scale \in Int /\ (askedMs - ms) * Milli \in Int  BY <1>2
  <1>6. d >= Milli
    <2>1. ticks * Scale \in Int /\ S <= ticks * Scale  BY <1>4, <1>5
    <2>. HIDE DEF S
    <2>2. S \in Int /\ Milli \in Int /\ Word \in Nat \ {0} /\ start = S % Word  BY <1>3, <1>4
    <2>3. (ticks * Scale - start) % Word >= Milli  BY <1>1
    <2>4. ticks * Scale - S >= Milli  BY <2>1, <2>2, <2>3, DifferenceIs, Zenon
    <2>. QED  BY <2>4
  <1>7. start' = (S + Milli) % Word  BY <1>1, <1>3, <1>4, TurnsAdd
  <1>8. DelayInv'
    <2>1. start' = (at * Scale + (askedMs - (ms - 1)) * Milli) % Word
      <3>1. S + Milli = at * Scale + (askedMs - (ms - 1)) * Milli  BY <1>4, <1>5
      <3>. QED  BY <1>7, <3>1
    <2>2. (askedMs - (ms - 1)) * Milli <= (ticks - at) * Scale  BY <1>4, <1>5, <1>6
    <2>. QED  BY <1>1, <1>2, <2>1, <2>2 DEF DelayInv
  <1>9. ClockTypeOK'
    <2>1. start' \in 0 .. Word - 1
      <3>1. start + Milli \in Int  BY <1>2
      <3>. QED  BY <1>1, <3>1, Divided
    <2>2. ms' \in Nat  BY <1>1, <1>2
    <2>. QED  BY <1>1, <2>1, <2>2 DEF ClockInv, ClockTypeOK, overflowVars
  <1>10. CountInv'  BY <1>1, CountKept DEF ClockInv, timer0Vars
  <1>11. ReadsInv'  BY <1>1 DEF ReadsInv
  <1>. QED  BY <1>8, <1>9, <1>10, <1>11 DEF ClockInv

\* millis() and micros() read with interrupts off, and leave the counters alone.
LEMMA ReadStep ==
    ASSUME ClockInv,
           \/ SetI \/ ClockCall \/ MillisLow \/ MillisHigh
           \/ MicrosCount \/ MicrosTimer \/ MicrosOverflow \/ Return
    PROVE  ClockInv'
  <1>. USE ClockConstants
  <1>1. UNCHANGED <<timer0Vars, overflowVars, ms, start, askedMs>> /\ clockPc # "delay" /\ clockPc' # "delay"
        BY DEF SetI, ClockCall, MillisLow, MillisHigh, MicrosCount, MicrosTimer, MicrosOverflow, Return,
               mainVars
  <1>2. CountInv' /\ CountedTicks' = CountedTicks /\ Overflows' = Overflows
        BY <1>1, CountKept DEF ClockInv
  <1>3. DelayInv'  BY <1>1 DEF DelayInv
  <1>4. /\ UNCHANGED <<TCNT0, TOV0, ticks, timer0_overflow_count, timer0_millis, timer0_fract>>
        /\ TCNT0 \in 0 .. Top /\ ticks \in 0 .. MaxTicks /\ I \in BOOLEAN /\ oldSREG \in BOOLEAN
        /\ timer0_overflow_count \in 0 .. Word - 1 /\ timer0_millis \in 0 .. Word - 1
        /\ m \in 0 .. Word - 1 /\ t \in 0 .. Top /\ at \in 0 .. MaxTicks /\ 0 \in 0 .. MaxTicks
        BY <1>1 DEF ClockInv, ClockTypeOK, timer0Vars, overflowVars
  <1>5. CASE SetI
    <2>1. /\ clockPc' = "sketch" /\ I' \in BOOLEAN /\ UNCHANGED <<oldSREG, m, t, at>>
          BY <1>4, <1>5 DEF SetI, mainVars
    <2>2. ReadsInv'  BY <2>1 DEF ReadsInv
    <2>3. ClockTypeOK'  BY <1>1, <1>4, <2>1 DEF ClockInv, ClockTypeOK
    <2>. QED  BY <1>2, <1>3, <2>2, <2>3 DEF ClockInv
  <1>6. CASE ClockCall
    <2>1. /\ clockPc' \in {"ms_low", "us_m"} /\ I' = FALSE /\ oldSREG' = I /\ UNCHANGED <<m, t, at>>
          BY <1>6 DEF ClockCall, Cli
    <2>2. ReadsInv'  BY <2>1 DEF ReadsInv
    <2>3. ClockTypeOK'  BY <1>1, <1>4, <2>1 DEF ClockInv, ClockTypeOK
    <2>. QED  BY <1>2, <1>3, <2>2, <2>3 DEF ClockInv
  <1>7. CASE MillisLow
    <2>1. /\ clockPc = "ms_low" /\ clockPc' = "ms_high" /\ m' = timer0_millis % Half
          /\ UNCHANGED <<I, oldSREG, t, at>>
          BY <1>7 DEF MillisLow
    <2>2. ReadsInv'  BY <1>4, <2>1 DEF ClockInv, ReadsInv
    <2>3. m' \in 0 .. Half - 1  BY <1>4, <2>1, Divided
    <2>4. m' \in 0 .. Word - 1  BY <2>3
    <2>5. ClockTypeOK'  BY <1>1, <1>4, <2>1, <2>4 DEF ClockInv, ClockTypeOK
    <2>. QED  BY <1>2, <1>3, <2>2, <2>5 DEF ClockInv
  <1>8. CASE MillisHigh
    <2>1. /\ clockPc = "ms_high" /\ clockPc' = "ms_ret"
          /\ m' = (timer0_millis \div Half) * Half + m
          /\ UNCHANGED <<I, oldSREG, t, at>>
          BY <1>8 DEF MillisHigh
    <2>2. m = timer0_millis % Half  BY <2>1 DEF ClockInv, ReadsInv
    <2>3. m' = timer0_millis
      <3>1. timer0_millis \in Int /\ Half \in Nat \ {0}  BY <1>4
      <3>2. timer0_millis = Half * (timer0_millis \div Half) + (timer0_millis % Half)
            BY <3>1, Divided, Zenon
      <3>3. timer0_millis \div Half \in Int  BY <3>1
      <3>4. (timer0_millis \div Half) * Half = Half * (timer0_millis \div Half)  BY <3>1, <3>3
      <3>. QED  BY <2>1, <2>2, <3>2, <3>4
    <2>4. ReadsInv'  BY <1>4, <2>1, <2>3 DEF ClockInv, ReadsInv
    <2>5. ClockTypeOK'  BY <1>1, <1>4, <2>1, <2>3 DEF ClockInv, ClockTypeOK
    <2>. QED  BY <1>2, <1>3, <2>4, <2>5 DEF ClockInv
  <1>9. CASE MicrosCount
    <2>1. /\ clockPc = "us_m" /\ clockPc' = "us_t" /\ m' = timer0_overflow_count
          /\ UNCHANGED <<I, oldSREG, t, at>>
          BY <1>9 DEF MicrosCount
    <2>2. ReadsInv'  BY <1>4, <2>1 DEF ClockInv, ReadsInv
    <2>3. ClockTypeOK'  BY <1>1, <1>4, <2>1 DEF ClockInv, ClockTypeOK
    <2>. QED  BY <1>2, <1>3, <2>2, <2>3 DEF ClockInv
  <1>10. CASE MicrosTimer
    <2>1. /\ clockPc = "us_t" /\ clockPc' = "us_tov" /\ t' = TCNT0 /\ at' = ticks
          /\ UNCHANGED <<I, oldSREG, m>>
          BY <1>10 DEF MicrosTimer
    <2>2. at' \div (Top + 1) = Overflows  BY <2>1 DEF Overflows
    <2>3. at' = (Top + 1) * (at' \div (Top + 1)) + t'  BY <2>1, <2>2 DEF ClockInv, CountInv
    <2>4. Overflows = CountedTicks + Uncounted'
      <3>1. TOV0 => TCNT0 < Top  BY DEF ClockInv, CountInv
      <3>2. Overflows \in Int  BY <1>4, Divided DEF Overflows
      <3>3. CASE TOV0
            BY <1>4, <2>1, <3>1, <3>2, <3>3 DEF CountedTicks, Uncounted, Overflows
      <3>4. CASE ~TOV0
            BY <1>4, <2>1, <3>2, <3>4 DEF CountedTicks, Uncounted, Overflows
      <3>. QED  BY <3>3, <3>4
    <2>5. ReadsInv'  BY <1>2, <1>4, <2>1, <2>2, <2>3, <2>4 DEF ClockInv, ReadsInv
    <2>6. ClockTypeOK'  BY <1>1, <1>4, <2>1 DEF ClockInv, ClockTypeOK
    <2>. QED  BY <1>2, <1>3, <2>5, <2>6 DEF ClockInv
  <1>11. CASE MicrosOverflow
    <2>1. /\ clockPc = "us_tov" /\ clockPc' = "us_ret" /\ m' = (m + Uncounted) % Word
          /\ UNCHANGED <<I, oldSREG, t, at>>
          BY <1>11 DEF MicrosOverflow
    <2>2. /\ m = CountedTicks % Word /\ at \div (Top + 1) = CountedTicks + Uncounted
          /\ at = (Top + 1) * (at \div (Top + 1)) + t /\ CountedTicks \in Int /\ Uncounted \in Int
          BY <2>1 DEF ClockInv, ReadsInv, CountInv, Uncounted
    <2>3. m' = (at \div (Top + 1)) % Word
      <3>1. ((CountedTicks % Word) + Uncounted) % Word = (CountedTicks + Uncounted) % Word
            BY <2>2, TurnsAdd, Zenon
      <3>. QED  BY <2>1, <2>2, <3>1
    <2>4. ReadsInv'  BY <2>1, <2>2, <2>3 DEF ClockInv, ReadsInv
    <2>5. m' \in 0 .. Word - 1
      <3>1. m + Uncounted \in Int  BY <1>4, <2>2
      <3>. QED  BY <2>1, <3>1, Divided
    <2>6. ClockTypeOK'  BY <1>1, <1>4, <2>1, <2>5 DEF ClockInv, ClockTypeOK
    <2>. QED  BY <1>2, <1>3, <2>4, <2>6 DEF ClockInv
  <1>12. CASE Return
    <2>1. /\ clockPc' = "sketch" /\ I' = oldSREG /\ oldSREG' = oldSREG /\ m' = 0 /\ t' = 0 /\ at' = 0
          BY <1>12 DEF Return
    <2>2. ReadsInv'  BY <2>1 DEF ReadsInv
    <2>3. ClockTypeOK'  BY <1>1, <1>4, <2>1 DEF ClockInv, ClockTypeOK
    <2>. QED  BY <1>2, <1>3, <2>2, <2>3 DEF ClockInv
  <1>. QED  BY <1>5, <1>6, <1>7, <1>8, <1>9, <1>10, <1>11, <1>12

LEMMA ClockInvStep ==
    ASSUME ClockInv, [ClockNext]_clockVars
    PROVE  ClockInv'
  <1>. USE ClockConstants
  <1>1. ASSUME NEW n \in Delays, delay(n) PROVE ClockInv'
    <2>1. /\ clockPc' = "delay" /\ ms' = n /\ start' = (ticks * Scale) % Word /\ at' = ticks
          /\ askedMs' = n /\ n \in Nat /\ ticks \in 0 .. MaxTicks
          /\ UNCHANGED <<timer0Vars, I, overflowVars, oldSREG, m, t>>
          BY <1>1 DEF delay, ClockInv, ClockTypeOK
    <2>2. CountInv'  BY <2>1, CountKept DEF ClockInv
    <2>3. ReadsInv'  BY <2>1 DEF ReadsInv
    <2>4. DelayInv'
      <3>1. ticks * Scale \in Int  BY <2>1
      <3>2. (n - n) * Milli = 0 /\ (ticks - ticks) * Scale = 0  BY <2>1
      <3>3. start' = (ticks * Scale + (n - n) * Milli) % Word  BY <2>1, <3>1, <3>2
      <3>4. ticks' = ticks  BY <2>1 DEF timer0Vars
      <3>. QED  BY <2>1, <3>2, <3>3, <3>4 DEF DelayInv
    <2>5. start' \in 0 .. Word - 1
      <3>1. ticks * Scale \in Int  BY <2>1
      <3>. QED  BY <2>1, <3>1, Divided
    <2>6. ClockTypeOK'  BY <2>1, <2>5 DEF ClockInv, ClockTypeOK, timer0Vars, overflowVars
    <2>. QED  BY <2>2, <2>3, <2>4, <2>6 DEF ClockInv
  <1>2. CASE DelayReturn
    <2>1. /\ clockPc' = "sketch" /\ start' = 0 /\ at' = 0 /\ askedMs' = 0
          /\ UNCHANGED <<timer0Vars, I, overflowVars, oldSREG, m, t, ms>>
          BY <1>2 DEF DelayReturn
    <2>2. CountInv'  BY <2>1, CountKept DEF ClockInv
    <2>3. ClockTypeOK'  BY <2>1 DEF ClockInv, ClockTypeOK, timer0Vars, overflowVars
    <2>. QED  BY <2>1, <2>2, <2>3 DEF ClockInv, ReadsInv, DelayInv
  <1>3. CASE UNCHANGED clockVars
    <2>1. /\ UNCHANGED <<TCNT0, TOV0, ticks, I, timer0_overflow_count, timer0_millis, timer0_fract>>
          /\ UNCHANGED <<clockPc, oldSREG, m, t, ms, start, at, askedMs>>
          BY <1>3 DEF clockVars, timer0Vars, overflowVars, mainVars
    <2>2. CountInv' /\ CountedTicks' = CountedTicks
          BY <2>1, CountKept DEF ClockInv, timer0Vars, overflowVars
    <2>3. ClockTypeOK'  BY <2>1 DEF ClockInv, ClockTypeOK
    <2>4. ReadsInv'  BY <2>1, <2>2 DEF ClockInv, ReadsInv, Uncounted
    <2>5. DelayInv'  BY <2>1 DEF ClockInv, DelayInv
    <2>. QED  BY <2>2, <2>3, <2>4, <2>5 DEF ClockInv
  <1>. QED  BY <1>1, <1>2, <1>3, TickStep, OverflowStep, DelayStep, ReadStep DEF ClockNext, Main

\* What the invariant says of a whole turn: timer0_millis and timer0_fract are the time of the
\* overflows that are counted, and micros() the time at which it read TCNT0.
LEMMA ExactIs ==
    ASSUME ClockInv
    PROVE  MillisExact /\ MicrosExact
  <1>. USE ClockConstants
  <1>1. MillisExact
    <2>1. PICK k \in Int : Turned(k)  BY DEF ClockInv, CountInv
    <2>. DEFINE sum == timer0_millis * FRACT_MAX + timer0_fract
    <2>2. sum \in Int  BY DEF ClockInv, ClockTypeOK
    <2>3. CountedTicks * PerOverflow = sum + (Word * FRACT_MAX) * k
          BY <2>1 DEF Turned, Balanced
    <2>. HIDE DEF sum
    <2>4. Word * FRACT_MAX \in Nat \ {0}  OBVIOUS
    <2>5. (sum + (Word * FRACT_MAX) * k) % (Word * FRACT_MAX) = sum % (Word * FRACT_MAX)
          BY <2>2, <2>4, Turns, Zenon
    <2>6. sum % (Word * FRACT_MAX) = (CountedTicks * PerOverflow) % (Word * FRACT_MAX)
          BY <2>3, <2>5, Zenon
    <2>. QED  BY <2>6, Zenon DEF MillisExact, PerOverflow, sum
  <1>2. MicrosExact
    <2>1. SUFFICES ASSUME clockPc = "us_ret" PROVE Micros = (at * Scale) % Word
          BY DEF MicrosExact
    <2>. DEFINE turns == at \div (Top + 1)
    <2>2. turns \in Int  BY Divided DEF ClockInv, ClockTypeOK
    <2>3. at = (Top + 1) * turns + t /\ m = turns % Word /\ t \in Int
          BY <2>1 DEF ClockInv, ReadsInv, ClockTypeOK
    <2>. HIDE DEF turns
    <2>4. PICK q \in Int : turns = Word * q + m  BY <2>2, <2>3, Divided
    <2>5. m \in Int  BY DEF ClockInv, ClockTypeOK
    <2>. DEFINE whole == (m * (Top + 1) + t) * Scale
    <2>6. whole \in Int /\ (Top + 1) * q * Scale \in Int  BY <2>3, <2>4, <2>5
    <2>7. at * Scale = whole + Word * ((Top + 1) * q * Scale)  BY <2>3, <2>4, <2>5
    <2>8. Micros = whole % Word  BY DEF Micros
    <2>. HIDE DEF whole
    <2>9. Word \in Nat \ {0}  OBVIOUS
    <2>10. (whole + Word * ((Top + 1) * q * Scale)) % Word = whole % Word
           BY <2>6, <2>9, Turns, Zenon
    <2>. QED  BY <2>7, <2>8, <2>10, Zenon
  <1>. QED  BY <1>1, <1>2

\* No overflow of timer 0 is lost or counted twice, however the handler falls between the
\* reads of millis() and micros(), for every width of the counters, every frequency and
\* however long the clock runs; and delay() waits as long as it is asked to
\* (wiring.c:45-117), as long as the handler is not held up for a whole turn of the timer.
THEOREM ClockHolds == TimersSpec => []ClockKept
  <1>1. ASSUME ClockInv PROVE ClockKept
    <2>1. ClockTypeOK  BY <1>1 DEF ClockInv
    <2>2. MillisExact /\ MicrosExact  BY <1>1, ExactIs
    <2>3. MillisWhole  BY <1>1 DEF ClockInv, ReadsInv, MillisWhole
    <2>4. DelayLongEnough  BY <1>1 DEF ClockInv, DelayInv, DelayLongEnough
    <2>. QED  BY <2>1, <2>2, <2>3, <2>4 DEF ClockKept
  <1>. QED  BY <1>1, ClockInvInit, ClockInvStep, PartsKept, PTL DEF ClockSpec

------------------------------------------------------------------------------
(***************************************************************************)
(* Tones.  The number of toggles has been stored by the time the interrupt *)
(* is enabled (ToneCount), a pin is high only if timer 1 has it, and a     *)
(* call that is under way says which pin it will leave low (TonePin).      *)
(***************************************************************************)
Digit == 0 .. Base - 1
Counter == [low : Digit, high : Digit]

\* What can be left of tone() and of noTone().
ToSecond == <<"second", "enable">>
ToFirst == <<"first", "second", "enable">>
ToEnable == <<"enable">>
ToDisable == <<"disable", "low">>
ToLow == <<"low">>
Toning == {ToneSteps, ToFirst, ToSecond, ToEnable}

ToneTypes ==
    /\ toneTodo \in Toning \cup {<<>>, ToDisable, ToLow}
    /\ tone_pins \in TonePins \cup {NoPin} /\ timer1_pin \in TonePins \cup {NoPin}
    /\ timer1_toggle_count \in Counter
    /\ OCIE1A \in BOOLEAN /\ torn \in BOOLEAN /\ lowFirst \in BOOLEAN
    /\ level \in [TonePins -> {0, 1}]
    /\ toneArg.count \in -1 .. MaxToggles
    /\ asked \in -1 .. MaxToggles /\ toggles \in 0 .. MaxToggles

ToneCount ==
    ~torn =>
        /\ toneTodo = ToSecond =>
              /\ lowFirst => timer1_toggle_count.low = Digits(toneArg.count).low
              /\ ~lowFirst => timer1_toggle_count.high = Digits(toneArg.count).high
        /\ toneTodo = ToEnable \/ (toneTodo \in {<<>>, ToLow} /\ tone_pins # NoPin) =>
              asked = -1 \/ (Number(timer1_toggle_count) >= 0 /\ asked = toggles + Number(timer1_toggle_count))
        /\ toneTodo \in {<<>>, ToLow} /\ tone_pins # NoPin =>
              (Number(timer1_toggle_count) # 0 => OCIE1A)

TonePin ==
    /\ tone_pins # NoPin => timer1_pin = tone_pins
    /\ toneTodo \in Toning => tone_pins # NoPin
    /\ toneTodo = ToDisable => tone_pins = NoPin /\ toneArg.pin = timer1_pin
    /\ toneTodo \in {<<>>, ToLow} /\ tone_pins = NoPin => ~OCIE1A
    /\ OCIE1A => timer1_pin \in TonePins
    /\ \A p \in TonePins : level[p] = 1 =>
          /\ p = timer1_pin
          /\ toneTodo = <<>> \/ (toneTodo = ToLow /\ tone_pins # NoPin) => OCIE1A
          /\ toneTodo = ToLow /\ tone_pins = NoPin => p = toneArg.pin

ToneInv == ToneTypes /\ ToneCount /\ TonePin

LEMMA ToneConstants ==
    /\ NoPin \notin TonePins /\ Base \in Nat \ {0} /\ Base * Base \in Nat \ {0}
    /\ MaxToggles \in Nat /\ MaxToggles < (Base * Base) \div 2
    /\ (Base * Base) \div 2 \in Nat /\ 2 * ((Base * Base) \div 2) <= Base * Base
  <1>1. /\ NoPin \notin TonePins /\ Base \in Nat \ {0}
        /\ MaxToggles \in Nat /\ MaxToggles < (Base * Base) \div 2
        BY ToneAssumption DEF ToneAssumption
  <1>2. ASSUME NEW a \in Nat \ {0}, NEW b \in Nat \ {0} PROVE a * b \in Nat \ {0}  OBVIOUS
  <1>3. Base * Base \in Nat \ {0}  BY <1>1, <1>2
  <1>4. ASSUME NEW a \in Nat PROVE a \div 2 \in Nat /\ 2 * (a \div 2) <= a  OBVIOUS
  <1>5. (Base * Base) \div 2 \in Nat /\ 2 * ((Base * Base) \div 2) <= Base * Base  BY <1>3, <1>4
  <1>. QED  BY <1>1, <1>3, <1>5

LEMMA PairIs ==
    ASSUME NEW v \in 0 .. Base * Base - 1
    PROVE  v % Base \in Digit /\ v \div Base \in Digit /\ v = (v \div Base) * Base + (v % Base)
  <1>. DEFINE lo == v % Base
              hi == v \div Base
  <1>1. Base \in Nat \ {0} /\ Base * Base \in Nat \ {0} /\ v \in Nat /\ v < Base * Base  BY ToneConstants
  <1>2. hi \in Nat /\ lo \in 0 .. Base - 1 /\ lo = v - Base * hi  BY <1>1, Division, Zenon
  <1>. HIDE DEF hi, lo
  <1>3. ASSUME hi >= Base PROVE FALSE
    <2>1. PICK d \in Nat : hi = Base + d
      <3>1. hi - Base \in Nat /\ hi = Base + (hi - Base)  BY <1>1, <1>2, <1>3
      <3>. QED  BY <3>1
    <2>2. Base * hi = Base * Base + Base * d /\ Base * d >= 0 /\ Base * d \in Int  BY <1>1, <2>1
    <2>. QED  BY <1>1, <1>2, <2>2
  <1>4. hi \in Digit  BY <1>1, <1>2, <1>3 DEF Digit
  <1>5. Base * hi = hi * Base /\ Base * hi \in Int  BY <1>1, <1>2
  <1>6. v = hi * Base + lo  BY <1>1, <1>2, <1>5
  <1>. QED  BY <1>2, <1>4, <1>6 DEF hi, lo, Digit

\* The digits of a number that fits are those of no other.
LEMMA DigitsAre ==
    ASSUME NEW n \in Int
    PROVE  /\ Digits(n) \in Counter
           /\ 0 <= n /\ n < (Base * Base) \div 2 => Number(Digits(n)) = n
  <1>. DEFINE W == Base * Base
              v == n % W
  <1>1. W \in Nat \ {0} /\ W \div 2 \in Nat /\ 2 * (W \div 2) <= W  BY ToneConstants
  <1>2. v \in 0 .. W - 1
    <2>. HIDE DEF W
    <2>. QED  BY <1>1, Divided
  <1>3. v % Base \in Digit /\ v \div Base \in Digit /\ v = (v \div Base) * Base + (v % Base)
        BY <1>2, PairIs
  <1>4. Digits(n) = [low |-> v % Base, high |-> v \div Base]  BY DEF Digits
  <1>5. Digits(n) \in Counter  BY <1>3, <1>4 DEF Counter
  <1>6. Digits(n).high * Base + Digits(n).low = v  BY <1>3, <1>4
  <1>7. Number(Digits(n)) = IF v >= W \div 2 THEN v - W ELSE v  BY <1>6 DEF Number
  <1>8. ASSUME 0 <= n, n < W \div 2 PROVE v = n
    <2>. HIDE DEF W
    <2>1. n \in 0 .. W - 1 /\ W * 0 + n = n  BY <1>1, <1>8
    <2>2. (W * 0 + n) % W = n  BY <1>1, <2>1, QuotientIs
    <2>. QED  BY <2>1, <2>2
  <1>9. ASSUME 0 <= n, n < W \div 2 PROVE Number(Digits(n)) = n
    <2>1. v = n  BY <1>8, <1>9
    <2>. HIDE DEF W, v
    <2>. QED  BY <1>1, <1>7, <1>9, <2>1
  <1>. QED  BY <1>5, <1>9

LEMMA CountedIs ==
    ASSUME NEW c \in Counter
    PROVE  /\ Number(c) \in Int /\ Counted(c) \in Counter
           /\ Number(c) > 0 => Number(Counted(c)) = Number(c) - 1
           /\ ~(Number(c) > 0) => Counted(c) = c
  <1>. DEFINE v == c.high * Base + c.low
              W == Base * Base
  <1>1. W \in Nat \ {0} /\ W \div 2 \in Nat /\ 2 * (W \div 2) <= W /\ Base \in Nat \ {0}  BY ToneConstants
  <1>2. c.low \in 0 .. Base - 1 /\ c.high \in 0 .. Base - 1  BY DEF Counter, Digit
  <1>3. v \in 0 .. W - 1
    <2>1. PICK d \in Nat : Base = c.high + 1 + d
      <3>1. Base - c.high - 1 \in Nat /\ Base = c.high + 1 + (Base - c.high - 1)  BY <1>1, <1>2
      <3>. QED  BY <3>1
    <2>2. Base * Base = c.high * Base + Base + d * Base /\ d * Base \in Nat /\ c.high * Base \in Nat
          BY <1>1, <1>2, <2>1
    <2>. QED  BY <1>1, <1>2, <2>2
  <1>4. Number(c) = IF v >= W \div 2 THEN v - W ELSE v  BY DEF Number
  <1>. HIDE DEF v, W
  <1>5. Number(c) \in Int /\ Number(c) < W \div 2  BY <1>1, <1>3, <1>4
  <1>6. ASSUME Number(c) > 0 PROVE Counted(c) \in Counter /\ Number(Counted(c)) = Number(c) - 1
    <2>1. Number(c) - 1 \in Int /\ 0 <= Number(c) - 1 /\ Number(c) - 1 < W \div 2  BY <1>1, <1>5, <1>6
    <2>2. Counted(c) = Digits(Number(c) - 1)  BY <1>6 DEF Counted
    <2>. QED  BY <2>1, <2>2, DigitsAre DEF W
  <1>. QED  BY <1>5, <1>6 DEF Counted

LEMMA ToneLists ==
    /\ Head(ToneSteps) = "pinMode" /\ Tail(ToneSteps) = ToFirst
    /\ Head(ToFirst) = "first" /\ Tail(ToFirst) = ToSecond
    /\ Head(ToSecond) = "second" /\ Tail(ToSecond) = ToEnable
    /\ Head(ToEnable) = "enable" /\ Tail(ToEnable) = <<>>
    /\ Head(ToDisable) = "disable" /\ Tail(ToDisable) = ToLow
    /\ Head(ToLow) = "low" /\ Tail(ToLow) = <<>>
    /\ <<>> \notin Toning /\ ToDisable \notin Toning /\ ToLow \notin Toning
    /\ ToDisable # <<>> /\ ToLow # <<>> /\ ToDisable # ToLow
  BY DEF Toning, ToneSteps, ToFirst, ToSecond, ToEnable, ToDisable, ToLow

\* The first step of what is left of a call tells what follows it.
LEMMA NextOf ==
    ASSUME ToneTypes, NEW op, ToneNextStep(op)
    PROVE  /\ op = "pinMode" => toneTodo = ToneSteps /\ toneTodo' = ToFirst
           /\ op = "first" => toneTodo = ToFirst /\ toneTodo' = ToSecond
           /\ op = "second" => toneTodo = ToSecond /\ toneTodo' = ToEnable
           /\ op = "enable" => toneTodo = ToEnable /\ toneTodo' = <<>>
           /\ op = "disable" => toneTodo = ToDisable /\ toneTodo' = ToLow
           /\ op = "low" => toneTodo = ToLow /\ toneTodo' = <<>>
  <1>1. /\ toneTodo # <<>> /\ Head(toneTodo) = op /\ toneTodo' = Tail(toneTodo)
        /\ toneTodo \in {ToneSteps, ToFirst, ToSecond, ToEnable, ToDisable, ToLow}
        BY DEF ToneNextStep, ToneTypes, Toning
  <1>. QED  BY <1>1, ToneLists

LEMMA ToneInvInit == ToneInit => ToneInv
  <1>. SUFFICES ASSUME ToneInit PROVE ToneInv  OBVIOUS
  <1>1. Digits(0) \in Counter  BY DigitsAre
  <1>2. ToneTypes
    <2>1. /\ toneTodo = <<>> /\ tone_pins = NoPin /\ timer1_pin = NoPin
          /\ timer1_toggle_count \in Counter /\ asked = 0 /\ toggles = 0 /\ toneArg.count = 0
          BY <1>1 DEF ToneInit, NoTone
    <2>2. OCIE1A \in BOOLEAN /\ torn \in BOOLEAN /\ lowFirst \in BOOLEAN  BY Zenon DEF ToneInit
    <2>3. level \in [TonePins -> {0, 1}]  BY DEF ToneInit
    <2>4. 0 \in -1 .. MaxToggles /\ 0 \in 0 .. MaxToggles  BY ToneConstants
    <2>. QED  BY <2>1, <2>2, <2>3, <2>4 DEF ToneTypes
  <1>3. ToneCount  BY ToneLists DEF ToneInit, ToneCount, Toning
  <1>4. TonePin  BY ToneLists DEF ToneInit, TonePin, Toning
  <1>. QED  BY <1>2, <1>3, <1>4 DEF ToneInv

LEMMA ToneStarts ==
    ASSUME ToneInv, tone \/ noTone
    PROVE  ToneInv'
  <1>. USE ToneLists
  <1>1. CASE tone
    <2>1. PICK p \in TonePins, n \in -1 .. MaxToggles :
             /\ tone_pins \in {p, NoPin}
             /\ toneArg' = [pin |-> p, count |-> n]
             /\ timer1_pin' = IF tone_pins = p THEN timer1_pin ELSE p
             /\ tone_pins' = p
          BY <1>1 DEF tone
    <2>2. /\ toneTodo = <<>> /\ toneTodo' = ToneSteps /\ torn' = FALSE
          /\ UNCHANGED <<timer1_toggle_count, OCIE1A, level, lowFirst, asked, toggles>>
          BY <1>1 DEF tone
    <2>3. timer1_pin' = p  BY <2>1, ToneConstants DEF ToneInv, TonePin
    <2>4. ToneSteps \in Toning /\ ToneSteps # ToSecond /\ ToneSteps # ToEnable  BY DEF Toning
    <2>5. ToneTypes'  BY <2>1, <2>2, <2>3, <2>4 DEF ToneInv, ToneTypes
    <2>6. ToneCount'  BY <2>2, <2>4 DEF ToneCount
    <2>7. TonePin'
      <3>1. p # NoPin  BY ToneConstants
      <3>2. ASSUME NEW z \in TonePins, level[z] = 1 PROVE z = p
            BY <2>1, <2>2, <3>1, <3>2 DEF ToneInv, TonePin
      <3>. QED  BY <2>1, <2>2, <2>3, <2>4, <3>1, <3>2 DEF TonePin
    <2>. QED  BY <2>5, <2>6, <2>7 DEF ToneInv
  <1>2. CASE noTone
    <2>1. PICK p \in TonePins :
             /\ toneArg' = [pin |-> p, count |-> 0]
             /\ tone_pins' = IF tone_pins = p THEN NoPin ELSE tone_pins
             /\ toneTodo' = IF tone_pins = p THEN ToDisable ELSE ToLow
          BY <1>2 DEF noTone, ToDisable, ToLow
    <2>2. /\ toneTodo = <<>>
          /\ UNCHANGED <<timer1_pin, timer1_toggle_count, OCIE1A, level, lowFirst, asked, toggles, torn>>
          BY <1>2 DEF noTone
    <2>3. 0 \in -1 .. MaxToggles /\ p # NoPin  BY ToneConstants
    <2>4. ToneTypes'  BY <2>1, <2>2, <2>3 DEF ToneInv, ToneTypes
    <2>5. ToLow # ToSecond /\ ToLow # ToEnable /\ ToDisable # ToSecond /\ ToDisable # ToEnable
          BY DEF Toning
    <2>6. ToneCount'  BY <2>1, <2>2, <2>5 DEF ToneInv, ToneCount
    <2>7. TonePin'
      <3>1. CASE tone_pins = p
            BY <2>1, <2>2, <2>3, <3>1 DEF ToneInv, TonePin
      <3>2. CASE tone_pins # p
            BY <2>1, <2>2, <2>3, <3>2 DEF ToneInv, TonePin
      <3>. QED  BY <3>1, <3>2
    <2>. QED  BY <2>4, <2>6, <2>7 DEF ToneInv
  <1>. QED  BY <1>1, <1>2

\* The number is stored digit by digit; the interrupt is enabled after that.
LEMMA ToneStores ==
    ASSUME ToneInv, StoreDigit
    PROVE  ToneInv'
  <1>. USE ToneLists
  <1>. DEFINE new == Digits(toneArg.count)
  <1>1. /\ UNCHANGED <<tone_pins, timer1_pin, OCIE1A, level, toneArg, lowFirst, torn>>
        /\ timer1_toggle_count' = IF (Head(toneTodo) = "first") = lowFirst
                                  THEN [timer1_toggle_count EXCEPT !.low = new.low]
                                  ELSE [timer1_toggle_count EXCEPT !.high = new.high]
        BY DEF StoreDigit
  <1>2. /\ timer1_toggle_count \in Counter /\ lowFirst \in BOOLEAN /\ toneArg.count \in -1 .. MaxToggles
        BY DEF ToneInv, ToneTypes
  <1>3. new \in Counter /\ (toneArg.count >= 0 => Number(new) = toneArg.count)
    <2>1. toneArg.count \in Int /\ (toneArg.count >= 0 => toneArg.count < (Base * Base) \div 2)
          BY <1>2, ToneConstants
    <2>. QED  BY <2>1, DigitsAre
  <1>. HIDE DEF new
  <1>4. ToFirst # ToSecond /\ ToSecond # ToEnable /\ ToEnable \in Toning /\ ToSecond \in Toning
        /\ ToFirst \in Toning
        BY DEF Toning
  <1>5. TonePin /\ ToneTypes /\ ToneCount  BY DEF ToneInv
  <1>6. timer1_toggle_count' \in Counter
    <2>1. [timer1_toggle_count EXCEPT !.low = new.low] \in Counter  BY <1>2, <1>3 DEF Counter
    <2>2. [timer1_toggle_count EXCEPT !.high = new.high] \in Counter  BY <1>2, <1>3 DEF Counter
    <2>. QED  BY <1>1, <2>1, <2>2
  <1>7. CASE ToneNextStep("first")
    <2>1. toneTodo = ToFirst /\ toneTodo' = ToSecond /\ asked' = asked /\ toggles' = toggles
      <3>1. ~ToneNextStep("second")  BY <1>7 DEF ToneNextStep
      <3>. QED  BY <1>5, <1>7, <3>1, NextOf DEF StoreDigit
    <2>2. /\ lowFirst => timer1_toggle_count' = [timer1_toggle_count EXCEPT !.low = new.low]
          /\ ~lowFirst => timer1_toggle_count' = [timer1_toggle_count EXCEPT !.high = new.high]
          BY <1>1, <1>2, <2>1
    <2>3. /\ lowFirst => timer1_toggle_count'.low = new.low
          /\ ~lowFirst => timer1_toggle_count'.high = new.high
          BY <1>2, <2>2 DEF Counter
    <2>4. ToneTypes'  BY <1>1, <1>4, <1>5, <1>6, <2>1 DEF ToneTypes
    <2>5. ToneCount'  BY <1>1, <1>4, <2>1, <2>3 DEF ToneCount, new
    <2>6. TonePin'  BY <1>1, <1>4, <1>5, <2>1 DEF TonePin
    <2>. QED  BY <2>4, <2>5, <2>6 DEF ToneInv
  <1>8. CASE ToneNextStep("second")
    <2>1. toneTodo = ToSecond /\ toneTodo' = ToEnable /\ asked' = toneArg.count /\ toggles' = 0
      <3>1. ~ToneNextStep("first")  BY <1>8 DEF ToneNextStep
      <3>. QED  BY <1>5, <1>8, <3>1, NextOf DEF StoreDigit
    <2>2. /\ lowFirst => timer1_toggle_count' = [timer1_toggle_count EXCEPT !.high = new.high]
          /\ ~lowFirst => timer1_toggle_count' = [timer1_toggle_count EXCEPT !.low = new.low]
          BY <1>1, <1>2, <2>1
    <2>3. ~torn => timer1_toggle_count' = new
      <3>1. SUFFICES ASSUME ~torn PROVE timer1_toggle_count' = new  OBVIOUS
      <3>2. /\ lowFirst => timer1_toggle_count.low = new.low
            /\ ~lowFirst => timer1_toggle_count.high = new.high
            BY <1>5, <2>1, <3>1 DEF ToneCount, new
      <3>3. timer1_toggle_count'.low = new.low /\ timer1_toggle_count'.high = new.high
            BY <1>2, <2>2, <3>2 DEF Counter
      <3>. QED  BY <1>3, <1>6, <3>3 DEF Counter
    <2>4. ToneTypes'
      <3>1. 0 \in 0 .. MaxToggles  BY ToneConstants
      <3>. QED  BY <1>1, <1>2, <1>4, <1>5, <1>6, <2>1, <3>1 DEF ToneTypes
    <2>5. ToneCount'
      <3>1. SUFFICES ASSUME ~torn, toneArg.count # -1
                     PROVE  /\ Number(timer1_toggle_count') >= 0
                            /\ toneArg.count = 0 + Number(timer1_toggle_count')
            BY <1>1, <1>4, <2>1 DEF ToneCount, Number
      <3>2. toneArg.count >= 0 /\ toneArg.count \in Int  BY <1>2, <3>1, ToneConstants
      <3>. QED  BY <1>3, <2>3, <3>1, <3>2
    <2>6. TonePin'  BY <1>1, <1>4, <1>5, <2>1 DEF TonePin
    <2>. QED  BY <2>4, <2>5, <2>6 DEF ToneInv
  <1>. QED  BY <1>7, <1>8 DEF StoreDigit

LEMMA ToneGoesOn ==
    ASSUME ToneInv, ToneStep
    PROVE  ToneInv'
  <1>. USE ToneLists
  <1>1. /\ UNCHANGED <<tone_pins, timer1_pin, timer1_toggle_count, lowFirst, asked, toggles, torn>>
        /\ toneArg' = IF toneTodo' = <<>> THEN NoTone ELSE toneArg
        BY DEF ToneStep
  <1>2. TonePin /\ ToneTypes /\ ToneCount  BY DEF ToneInv
  <1>3. toneArg'.count \in -1 .. MaxToggles  BY <1>1, <1>2, ToneConstants DEF ToneTypes, NoTone
  <1>4. ToFirst \in Toning /\ ToEnable \in Toning /\ ToSecond \in Toning /\ ToFirst # ToSecond /\ ToFirst # ToEnable
        BY DEF Toning
  <1>5. CASE ToneNextStep("pinMode") /\ UNCHANGED <<OCIE1A, level>>
    <2>1. toneTodo = ToneSteps /\ toneTodo' = ToFirst /\ ToneSteps \in Toning
          BY <1>2, <1>5, NextOf DEF Toning
    <2>2. ToneTypes'  BY <1>1, <1>2, <1>3, <1>4, <1>5, <2>1 DEF ToneTypes
    <2>3. ToneCount'  BY <1>1, <1>4, <2>1 DEF ToneCount
    <2>4. TonePin'  BY <1>1, <1>2, <1>4, <1>5, <2>1 DEF TonePin
    <2>. QED  BY <2>2, <2>3, <2>4 DEF ToneInv
  <1>6. CASE ToneNextStep("enable") /\ OCIE1A' = TRUE /\ UNCHANGED level
    <2>1. toneTodo = ToEnable /\ toneTodo' = <<>> /\ tone_pins # NoPin
          BY <1>2, <1>4, <1>6, NextOf DEF TonePin
    <2>2. ToneTypes'  BY <1>1, <1>2, <1>3, <1>6, <2>1 DEF ToneTypes
    <2>3. ToneCount'  BY <1>1, <1>2, <1>4, <1>6, <2>1 DEF ToneCount, Number
    <2>4. TonePin'
      <3>1. timer1_pin \in TonePins  BY <1>2, <2>1 DEF TonePin, ToneTypes
      <3>. QED  BY <1>1, <1>2, <1>6, <2>1, <3>1 DEF TonePin
    <2>. QED  BY <2>2, <2>3, <2>4 DEF ToneInv
  <1>7. CASE ToneNextStep("disable") /\ OCIE1A' = FALSE /\ UNCHANGED level
    <2>1. toneTodo = ToDisable /\ toneTodo' = ToLow /\ tone_pins = NoPin /\ toneArg.pin = timer1_pin
          BY <1>2, <1>7, NextOf DEF TonePin
    <2>2. ToneTypes'  BY <1>1, <1>2, <1>3, <1>7, <2>1 DEF ToneTypes
    <2>3. ToneCount'  BY <1>1, <1>4, <2>1 DEF ToneCount
    <2>4. TonePin'  BY <1>1, <1>2, <1>7, <2>1 DEF TonePin
    <2>. QED  BY <2>2, <2>3, <2>4 DEF ToneInv
  <1>8. CASE ToneNextStep("low") /\ level' = [level EXCEPT ![toneArg.pin] = 0] /\ UNCHANGED OCIE1A
    <2>1. toneTodo = ToLow /\ toneTodo' = <<>>  BY <1>2, <1>8, NextOf
    <2>2. level' \in [TonePins -> {0, 1}]  BY <1>2, <1>8 DEF ToneTypes
    <2>3. ToneTypes'  BY <1>1, <1>2, <1>3, <1>8, <2>1, <2>2 DEF ToneTypes
    <2>4. ToneCount'  BY <1>1, <1>2, <1>4, <1>8, <2>1 DEF ToneCount, Number
    <2>5. ASSUME NEW z \in TonePins, level'[z] = 1 PROVE z # toneArg.pin /\ level[z] = 1
          BY <1>2, <1>8, <2>5 DEF ToneTypes
    <2>6. TonePin'  BY <1>1, <1>2, <1>8, <2>1, <2>5 DEF TonePin
    <2>. QED  BY <2>3, <2>4, <2>6 DEF ToneInv
  <1>. QED  BY <1>5, <1>6, <1>7, <1>8 DEF ToneStep

\* The interrupt: one toggle more and one less to go, or the last one is over.
LEMMA ToneToggles ==
    ASSUME ToneInv, TIMER1_COMPA_vect
    PROVE  ToneInv'
  <1>. USE ToneLists
  <1>1. /\ OCIE1A /\ UNCHANGED <<tone_pins, timer1_pin, toneTodo, toneArg, lowFirst, asked>>
        /\ torn' = (torn \/ (toneTodo # <<>> /\ Head(toneTodo) = "second"))
        BY DEF TIMER1_COMPA_vect
  <1>2. TonePin /\ ToneTypes /\ ToneCount  BY DEF ToneInv
  <1>3. torn' \in BOOLEAN /\ (torn' <=> torn \/ (toneTodo # <<>> /\ Head(toneTodo) = "second"))
        BY <1>1, Zenon
  <1>4. ~torn' => ~torn /\ toneTodo # ToSecond
    <2>1. ToSecond # <<>>  BY DEF Toning
    <2>. QED  BY <1>3, <2>1
  <1>5. timer1_pin \in TonePins /\ level \in [TonePins -> {0, 1}] /\ timer1_toggle_count \in Counter
        BY <1>1, <1>2 DEF TonePin, ToneTypes
  <1>6. /\ Number(timer1_toggle_count) \in Int /\ Counted(timer1_toggle_count) \in Counter
        /\ Number(timer1_toggle_count) > 0 =>
              Number(Counted(timer1_toggle_count)) = Number(timer1_toggle_count) - 1
        BY <1>5, CountedIs
  <1>7. CASE Number(timer1_toggle_count) # 0
    <2>1. /\ level' = [level EXCEPT ![timer1_pin] = 1 - @]
          /\ timer1_toggle_count' = Counted(timer1_toggle_count)
          /\ toggles' = IF toggles < MaxToggles THEN toggles + 1 ELSE toggles
          /\ OCIE1A' = OCIE1A
          BY <1>7 DEF TIMER1_COMPA_vect
    <2>2. level' \in [TonePins -> {0, 1}] /\ \A z \in TonePins : z # timer1_pin => level'[z] = level[z]
          BY <1>5, <2>1
    <2>3. ToneTypes'
      <3>1. toggles' \in 0 .. MaxToggles  BY <1>2, <2>1, ToneConstants DEF ToneTypes
      <3>. QED  BY <1>1, <1>2, <1>3, <1>6, <2>1, <2>2, <3>1 DEF ToneTypes
    <2>4. ToneCount'
      <3>1. ASSUME ~torn, asked = -1 \/ (Number(timer1_toggle_count) >= 0
                                         /\ asked = toggles + Number(timer1_toggle_count))
            PROVE  asked = -1 \/ (Number(timer1_toggle_count') >= 0
                                  /\ asked = toggles' + Number(timer1_toggle_count'))
        <4>1. CASE asked = -1  BY <4>1
        <4>2. CASE asked # -1
          <5>1. /\ Number(timer1_toggle_count) > 0 /\ toggles < MaxToggles
                /\ toggles \in Nat /\ asked \in Int
                BY <1>2, <1>6, <1>7, <3>1, <4>2, ToneConstants DEF ToneTypes
          <5>2. /\ toggles' = toggles + 1
                /\ Number(timer1_toggle_count') = Number(timer1_toggle_count) - 1
                BY <1>6, <2>1, <5>1
          <5>. QED  BY <1>6, <3>1, <4>2, <5>1, <5>2
        <4>. QED  BY <4>1, <4>2
      <3>2. Number(timer1_toggle_count') = Number(timer1_toggle_count)'  BY DEF Number
      <3>. QED  BY <1>1, <1>2, <1>4, <2>1, <3>1, <3>2 DEF ToneCount
    <2>5. TonePin'  BY <1>1, <1>2, <2>1, <2>2 DEF TonePin
    <2>. QED  BY <2>3, <2>4, <2>5 DEF ToneInv
  <1>8. CASE Number(timer1_toggle_count) = 0
    <2>1. /\ OCIE1A' = FALSE /\ level' = [level EXCEPT ![timer1_pin] = 0]
          /\ timer1_toggle_count' = timer1_toggle_count /\ toggles' = toggles
          BY <1>8 DEF TIMER1_COMPA_vect
    <2>2. level' \in [TonePins -> {0, 1}] /\ level'[timer1_pin] = 0
          /\ \A z \in TonePins : z # timer1_pin => level'[z] = level[z]
          BY <1>5, <2>1
    <2>3. ToneTypes'  BY <1>1, <1>2, <1>3, <2>1, <2>2 DEF ToneTypes
    <2>4. ToneCount'
      <3>1. Number(timer1_toggle_count)' = Number(timer1_toggle_count)  BY <2>1 DEF Number
      <3>. QED  BY <1>1, <1>2, <1>4, <1>8, <2>1, <3>1 DEF ToneCount
    <2>5. TonePin'  BY <1>1, <1>2, <2>1, <2>2 DEF TonePin
    <2>. QED  BY <2>3, <2>4, <2>5 DEF ToneInv
  <1>. QED  BY <1>7, <1>8

LEMMA ToneInvStep ==
    ASSUME ToneInv, [ToneNext]_toneVars
    PROVE  ToneInv'
  <1>1. CASE UNCHANGED toneVars
        BY <1>1 DEF toneVars, ToneInv, ToneTypes, ToneCount, TonePin, Number
  <1>. QED  BY <1>1, ToneStarts, ToneStores, ToneGoesOn, ToneToggles DEF ToneNext

\* A tone makes the toggles it was asked for, no more and no less, also when it replaces
\* the one that is playing (but for an interrupt that finds half of the number), and a
\* pin is high only while its tone plays (Tone.cpp:240-375, 480-534), for tones of every length.
THEOREM TonesHold == TimersSpec => []TonePulses
  <1>1. ASSUME ToneInv PROVE TonePulses
    <2>1. ASSUME toneTodo = <<>>, tone_pins # NoPin, ~torn
          PROVE  /\ asked \in {-1, toggles + Number(timer1_toggle_count)}
                 /\ Number(timer1_toggle_count) # 0 => OCIE1A
          BY <1>1, <2>1 DEF ToneInv, ToneCount
    <2>2. ASSUME NEW p \in TonePins, level[p] = 1
          PROVE  p = timer1_pin /\ (OCIE1A \/ toneTodo # <<>>)
          BY <1>1, <2>2 DEF ToneInv, TonePin
    <2>3. ASSUME toneTodo = <<>>, tone_pins = NoPin PROVE ~OCIE1A
          BY <1>1, <2>3 DEF ToneInv, TonePin
    <2>. QED  BY <2>1, <2>2, <2>3 DEF TonePulses
  <1>. QED  BY <1>1, ToneInvInit, ToneInvStep, PartsKept, PTL DEF ToneSpec

------------------------------------------------------------------------------
(***************************************************************************)
(* Servo: the pins whose pulse counts, what a call may be at, and the      *)
(* compare value, which is as far from the count as the pulse has to go.   *)
(***************************************************************************)
ServoUp == {p \in ServoPins \ left : line[p] = 1}

ServoTypes ==
    /\ servos \in [Indices -> [nbr : ServoPins \cup {0}, isActive : BOOLEAN, ticks : Widths \cup {0}]]
    /\ ServoCount \in 0 .. MaxServos /\ Channel \in -1 .. MaxServos - 1
    /\ TCNT1 \in 0 .. Wrap - 1 /\ OCR1A \in 0 .. Wrap - 1 /\ OCF1A \in BOOLEAN /\ servoIE \in BOOLEAN
    /\ line \in [ServoPins -> {0, 1}] /\ left \subseteq ServoPins
    /\ high \in Nat /\ due \in Nat /\ cycle \in 0 .. RefreshInterval

\* what is left of an attach() that found no active servo, and of any
Starting ==
    {AttachSteps, <<"init", "clear", "enable", "active">>, <<"clear", "enable", "active">>, <<"enable", "active">>}
Attaching == Starting \cup {<<"nbr", "active">>, <<"active">>}

ServoCall ==
    /\ servoTodo \in Attaching \cup {<<>>, <<"default">>}
    /\ servoTodo # <<>> => (servoArg.index \in 0 .. ServoCount - 1 /\ ~servos[servoArg.index].isActive)
    /\ servoTodo \in Attaching => servoArg.pin \in ServoPins
    /\ servoTodo \in Starting => \A s \in Indices : ~servos[s].isActive

ServoSized ==
    /\ servoTodo = <<"default">> => servoArg.index = ServoCount - 1
    /\ \A s \in Indices : servos[s].isActive => s < ServoCount
    /\ \A s \in 0 .. ServoCount - 1 : (servoTodo = <<"default">> /\ s = ServoCount - 1) \/ servos[s].ticks \in Widths

OneUp == \A p \in ServoUp : Channel >= 0 /\ Pulsed(Channel) /\ servos[Channel].nbr = p

PulseTimed ==
    ServoUp # {} =>
        /\ servoIE /\ due \in Widths
        /\ ~OCF1A => (high < due /\ OCR1A = (TCNT1 + (due - high)) % Wrap)
        /\ OCF1A => (high >= due /\ high - due <= MaxLate /\ TCNT1 = (OCR1A + (high - due)) % Wrap)

Refreshed ==
    /\ cycle = RefreshInterval \/ cycle >= TCNT1
    /\ Channel = -1 => (cycle = RefreshInterval \/ (OCR1A >= RefreshInterval /\ ~OCF1A))

ServoInv == ServoTypes /\ ServoCall /\ ServoSized /\ OneUp /\ PulseTimed /\ Refreshed

\* A sum of less than two turns of the timer.
LEMMA WrapAdd ==
    ASSUME NEW x \in 0 .. Wrap - 1, NEW k \in 0 .. Wrap
    PROVE  /\ (x + k) % Wrap = IF x + k < Wrap THEN x + k ELSE x + k - Wrap
           /\ (x + k) % Wrap \in 0 .. Wrap - 1
  <1>1. Wrap \in Nat \ {0}  BY ServoAssumption
  <1>2. CASE x + k < Wrap
    <2>1. (Wrap * 0 + (x + k)) % Wrap = x + k  BY <1>1, <1>2, QuotientIs
    <2>2. Wrap * 0 + (x + k) = x + k  BY <1>1
    <2>. QED  BY <1>1, <1>2, <2>1, <2>2
  <1>3. CASE ~(x + k < Wrap)
    <2>1. (Wrap * 1 + (x + k - Wrap)) % Wrap = x + k - Wrap  BY <1>1, <1>3, QuotientIs
    <2>2. Wrap * 1 + (x + k - Wrap) = x + k  BY <1>1
    <2>. QED  BY <1>1, <1>3, <2>1, <2>2
  <1>. QED  BY <1>2, <1>3

\* How far the count is past the compare value.
LEMMA WrapLess ==
    ASSUME NEW x \in 0 .. Wrap - 1, NEW k \in 0 .. Wrap - 1, NEW y, y = (x + k) % Wrap
    PROVE  (y - x) % Wrap = k
  <1>1. Wrap \in Nat \ {0} /\ k \in 0 .. Wrap  BY ServoAssumption
  <1>2. (Wrap * 0 + k) % Wrap = k  BY <1>1, QuotientIs
  <1>3. (Wrap * (-1) + k) % Wrap = k  BY <1>1, QuotientIs
  <1>4. CASE y = x + k
    <2>1. y - x = Wrap * 0 + k  BY <1>1, <1>4
    <2>. QED  BY <1>2, <2>1
  <1>5. CASE y = x + k - Wrap
    <2>1. y - x = Wrap * (-1) + k  BY <1>1, <1>5
    <2>. QED  BY <1>3, <2>1
  <1>. QED  BY <1>1, <1>4, <1>5, WrapAdd

LEMMA ServoInvInit == ServoInit => ServoInv
  <1>. SUFFICES ASSUME ServoInit PROVE ServoInv  OBVIOUS
  <1>1. ServoTypes
    <2>1. 0 \in 0 .. MaxServos /\ 0 \in -1 .. MaxServos - 1 /\ 0 \in 0 .. Wrap - 1
          /\ RefreshInterval \in 0 .. RefreshInterval
          BY ServoAssumption
    <2>2. servos \in [Indices -> [nbr : ServoPins \cup {0}, isActive : BOOLEAN, ticks : Widths \cup {0}]]
          BY DEF ServoInit
    <2>3. line \in [ServoPins -> {0, 1}]  BY DEF ServoInit
    <2>. QED  BY <2>1, <2>2, <2>3 DEF ServoInit, ServoTypes
  <1>2. ServoCall
    <2>1. servoTodo = <<>>  BY DEF ServoInit
    <2>. QED  BY <2>1 DEF ServoCall, Attaching, Starting, AttachSteps
  <1>3. ServoSized  BY ServoAssumption DEF ServoInit, ServoSized, Indices
  <1>4. ServoUp = {}  BY DEF ServoInit, ServoUp
  <1>5. Refreshed  BY DEF ServoInit, Refreshed
  <1>. QED  BY <1>1, <1>2, <1>3, <1>4, <1>5 DEF ServoInv, OneUp, PulseTimed

LEMMA CountTimed ==
    ASSUME ServoInv, Count
    PROVE  ServoInv'
  <1>1. /\ TCNT1' = (TCNT1 + 1) % Wrap /\ OCF1A' = (OCF1A \/ TCNT1' = OCR1A)
        /\ high' = IF \E p \in ServoPins : line[p] = 1 /\ p \notin left /\ high < Wrap THEN high + 1 ELSE high
        /\ cycle' = IF cycle < RefreshInterval THEN cycle + 1 ELSE cycle
        /\ UNCHANGED <<servos, ServoCount, Channel, OCR1A, servoIE, line, servoTodo, servoArg, due, left>>
        BY DEF Count
  <1>2. ServoTypes /\ ServoCall /\ ServoSized /\ OneUp /\ PulseTimed /\ Refreshed  BY DEF ServoInv
  <1>3. /\ TCNT1 \in 0 .. Wrap - 1 /\ OCR1A \in 0 .. Wrap - 1 /\ high \in Nat /\ due \in Nat
        /\ cycle \in 0 .. RefreshInterval /\ Wrap \in Nat \ {0} /\ RefreshInterval \in Nat \ {0}
        /\ MaxLate \in Nat /\ MaxLate < Wrap /\ OCF1A \in BOOLEAN
        BY <1>2, ServoAssumption DEF ServoTypes
  <1>4. /\ TCNT1' = IF TCNT1 + 1 < Wrap THEN TCNT1 + 1 ELSE 0
        /\ TCNT1' \in 0 .. Wrap - 1
    <2>1. PICK one \in 0 .. Wrap : one = 1  BY <1>3
    <2>2. (TCNT1 + one) % Wrap = IF TCNT1 + one < Wrap THEN TCNT1 + one ELSE TCNT1 + one - Wrap  BY <1>3, WrapAdd
    <2>3. (TCNT1 + one) % Wrap = TCNT1'  BY <1>1, <2>1
    <2>. QED  BY <1>3, <2>1, <2>2, <2>3
  <1>5. high' \in Nat /\ cycle' \in 0 .. RefreshInterval  BY <1>1, <1>3
  <1>6. ServoTypes'
    <2>1. OCF1A' \in BOOLEAN  BY <1>1
    <2>. QED  BY <1>1, <1>2, <1>4, <1>5, <2>1 DEF ServoTypes
  <1>7. ServoCall'  BY <1>1, <1>2 DEF ServoCall
  <1>8. ServoSized'  BY <1>1, <1>2 DEF ServoSized
  <1>9. ServoUp' = ServoUp  BY <1>1 DEF ServoUp
  <1>10. OneUp'  BY <1>1, <1>2, <1>9 DEF OneUp, Pulsed
  <1>11. Refreshed'
    <2>1. cycle' = RefreshInterval \/ cycle' >= TCNT1'  BY <1>1, <1>2, <1>3, <1>4 DEF Refreshed
    <2>2. ASSUME Channel = -1, cycle' # RefreshInterval PROVE OCR1A >= RefreshInterval /\ ~OCF1A'
      <3>1. cycle # RefreshInterval  BY <1>1, <1>3, <2>2
      <3>2. OCR1A >= RefreshInterval /\ ~OCF1A  BY <1>2, <2>2, <3>1 DEF Refreshed
      <3>3. cycle' < RefreshInterval /\ cycle' >= TCNT1'  BY <1>3, <1>5, <2>1, <2>2
      <3>4. TCNT1' # OCR1A  BY <1>3, <1>4, <1>5, <3>2, <3>3
      <3>. QED  BY <1>1, <3>2, <3>4
    <2>. QED  BY <1>1, <2>1, <2>2 DEF Refreshed
  <1>12. PulseTimed'
    <2>1. SUFFICES ASSUME ServoUp # {}
                   PROVE  /\ ~OCF1A' => (high' < due /\ OCR1A = (TCNT1' + (due - high')) % Wrap)
                          /\ OCF1A' => (high' >= due /\ high' - due <= MaxLate
                                        /\ TCNT1' = (OCR1A + (high' - due)) % Wrap)
      <3>1. ServoUp' # {} => (servoIE' /\ due' \in Widths)  BY <1>1, <1>2, <1>9 DEF PulseTimed
      <3>. QED  BY <1>1, <1>9, <2>1, <3>1 DEF PulseTimed
    <2>2. /\ servoIE /\ due \in Widths
          /\ ~OCF1A => (high < due /\ OCR1A = (TCNT1 + (due - high)) % Wrap)
          /\ OCF1A => (high >= due /\ high - due <= MaxLate /\ TCNT1 = (OCR1A + (high - due)) % Wrap)
          BY <1>2, <2>1 DEF PulseTimed
    <2>3. due + MaxLate <= Wrap  BY <2>2, ServoAssumption
    <2>4. PICK p \in ServoPins : line[p] = 1 /\ p \notin left  BY <2>1 DEF ServoUp
    <2>5. CASE ~OCF1A
      <3>1. high < due /\ high < Wrap /\ OCR1A = (TCNT1 + (due - high)) % Wrap  BY <1>3, <2>2, <2>3, <2>5
      <3>2. high' = high + 1  BY <1>1, <2>4, <3>1
      <3>3. PICK d \in 1 .. Wrap : d = due - high  BY <1>3, <2>3, <3>1
      <3>4. OCR1A = IF TCNT1 + d < Wrap THEN TCNT1 + d ELSE TCNT1 + d - Wrap
        <4>1. d \in 0 .. Wrap  BY <1>3
        <4>. QED  BY <1>3, <3>1, <3>3, <4>1, WrapAdd
      <3>5. OCR1A = TCNT1' <=> d = 1  BY <1>3, <1>4, <3>4
      <3>6. CASE d = 1
        <4>0. high' = due  BY <1>3, <3>2, <3>3, <3>6
        <4>1. OCF1A' /\ high' = due  BY <1>1, <3>5, <3>6, <4>0
        <4>2. (OCR1A + 0) % Wrap = OCR1A
          <5>1. PICK none \in 0 .. Wrap : none = 0  BY <1>3
          <5>2. (OCR1A + none) % Wrap = IF OCR1A + none < Wrap THEN OCR1A + none ELSE OCR1A + none - Wrap
                BY <1>3, WrapAdd
          <5>. QED  BY <1>3, <5>1, <5>2
        <4>3. high' - due = 0  BY <1>3, <4>1
        <4>. QED  BY <1>3, <3>5, <3>6, <4>1, <4>2, <4>3
      <3>7. CASE d # 1
        <4>1. ~OCF1A'  BY <1>1, <2>5, <3>5, <3>7
        <4>2. due - high' = d - 1 /\ d - 1 \in 0 .. Wrap /\ high' < due  BY <1>3, <3>2, <3>3, <3>7
        <4>3. (TCNT1' + (d - 1)) % Wrap = IF TCNT1' + (d - 1) < Wrap THEN TCNT1' + (d - 1) ELSE TCNT1' + (d - 1) - Wrap
              BY <1>4, <4>2, WrapAdd
        <4>4. (TCNT1' + (d - 1)) % Wrap = OCR1A  BY <1>3, <1>4, <3>4, <4>2, <4>3
        <4>. QED  BY <4>1, <4>2, <4>4
      <3>. QED  BY <3>6, <3>7
    <2>6. CASE OCF1A
      <3>1. high >= due /\ high - due <= MaxLate /\ TCNT1 = (OCR1A + (high - due)) % Wrap  BY <2>2, <2>6
      <3>2. PICK k \in 0 .. Wrap - 1 : k = high - due  BY <1>3, <3>1
      <3>3. (TCNT1 - OCR1A) % Wrap = k  BY <1>3, <3>1, <3>2, WrapLess
      <3>4. ~((TCNT1 - OCR1A) % Wrap >= MaxLate)  BY <2>2, <2>6 DEF Count
      <3>5. k < MaxLate  BY <1>3, <3>2, <3>3, <3>4
      <3>6. high < Wrap  BY <1>3, <2>3, <3>2, <3>5
      <3>7. high' = high + 1 /\ OCF1A'  BY <1>1, <2>4, <2>6, <3>6
      <3>8. TCNT1 = IF OCR1A + k < Wrap THEN OCR1A + k ELSE OCR1A + k - Wrap
        <4>1. k \in 0 .. Wrap  BY <1>3
        <4>. QED  BY <1>3, <3>1, <3>2, <4>1, WrapAdd
      <3>9. high' - due = k + 1 /\ k + 1 \in 0 .. Wrap  BY <1>3, <3>2, <3>7
      <3>10. (OCR1A + (k + 1)) % Wrap = IF OCR1A + (k + 1) < Wrap THEN OCR1A + (k + 1) ELSE OCR1A + (k + 1) - Wrap
             BY <1>3, <3>9, WrapAdd
      <3>11. TCNT1' = (OCR1A + (k + 1)) % Wrap  BY <1>3, <1>4, <3>2, <3>5, <3>8, <3>9, <3>10
      <3>. QED  BY <1>3, <3>1, <3>2, <3>5, <3>7, <3>9, <3>11
    <2>. QED  BY <1>3, <2>5, <2>6
  <1>. QED  BY <1>6, <1>7, <1>8, <1>10, <1>11, <1>12 DEF ServoInv

LEMMA InterruptKeeps ==
    ASSUME ServoInv, TIMER1_COMPA
    PROVE  ServoInv'
  <1>1. ServoTypes /\ ServoCall /\ ServoSized /\ OneUp /\ PulseTimed /\ Refreshed  BY DEF ServoInv
  <1>2. /\ TCNT1 \in 0 .. Wrap - 1 /\ Channel \in -1 .. MaxServos - 1 /\ ServoCount \in 0 .. MaxServos
        /\ cycle \in 0 .. RefreshInterval /\ line \in [ServoPins -> {0, 1}] /\ left \subseteq ServoPins
        /\ servos \in [Indices -> [nbr : ServoPins \cup {0}, isActive : BOOLEAN, ticks : Widths \cup {0}]]
        /\ Wrap \in Nat \ {0} /\ RefreshInterval \in Nat \ {0} /\ MaxServos \in Nat \ {0}
        BY <1>1, ServoAssumption DEF ServoTypes
  <1>3. PICK now \in 0 .. Wrap - 1 : now = IF Channel < 0 THEN 0 ELSE TCNT1  BY <1>2
  <1>4. PICK n \in 0 .. MaxServos : n = Channel + 1  BY <1>2
  <1>5. PICK e : e = IF Channel >= 0 /\ Pulsed(Channel) THEN [line EXCEPT ![servos[Channel].nbr] = 0] ELSE line
        OBVIOUS
  <1>6. e \in [ServoPins -> {0, 1}] /\ \A p \in ServoPins : e[p] = 1 => p \in left
    <2>1. CASE Channel >= 0 /\ Pulsed(Channel)
      <3>1. e = [line EXCEPT ![servos[Channel].nbr] = 0]  BY <1>5, <2>1
      <3>2. ASSUME NEW p \in ServoPins, e[p] = 1 PROVE p \in left
        <4>1. line[p] = 1 /\ servos[Channel].nbr # p  BY <1>2, <3>1, <3>2
        <4>. QED  BY <1>1, <4>1 DEF OneUp, ServoUp
      <3>. QED  BY <1>2, <3>1, <3>2
    <2>2. CASE ~(Channel >= 0 /\ Pulsed(Channel))
      <3>1. e = line  BY <1>5, <2>2
      <3>. QED  BY <1>1, <1>2, <2>2, <3>1 DEF OneUp, ServoUp
    <2>. QED  BY <2>1, <2>2
  <1>7. /\ servoIE /\ OCF1A' = FALSE /\ TCNT1' = now /\ high' = 0
        /\ cycle' = (IF Channel < 0 THEN 0 ELSE cycle)
        /\ UNCHANGED <<servos, ServoCount, servoIE, servoTodo, servoArg>>
        BY <1>3 DEF TIMER1_COMPA
  <1>8. left' = left \cap {p \in ServoPins : line'[p] = 1}  BY DEF TIMER1_COMPA
  <1>9. ASSUME NEW k \in Widths \cup {0} PROVE k \in 0 .. Wrap /\ (now + k) % Wrap \in 0 .. Wrap - 1
    <2>1. k \in 0 .. Wrap  BY <1>9, ServoAssumption
    <2>. QED  BY <2>1, WrapAdd
  <1>10. ServoCall' /\ ServoSized'  BY <1>1, <1>7 DEF ServoCall, ServoSized
  <1>11. cycle' \in 0 .. RefreshInterval /\ (cycle' = RefreshInterval \/ cycle' >= TCNT1')
    <2>1. CASE Channel < 0  BY <1>2, <1>3, <1>7, <2>1
    <2>2. CASE ~(Channel < 0)  BY <1>1, <1>2, <1>3, <1>7, <2>2 DEF Refreshed
    <2>. QED  BY <2>1, <2>2
  <1>12. CASE n < ServoCount /\ n < MaxServos
    <2>1. /\ Channel' = n /\ OCR1A' = (now + servos[n].ticks) % Wrap
          /\ line' = (IF Pulsed(n) THEN [e EXCEPT ![servos[n].nbr] = 1] ELSE e)
          /\ due' = (IF Pulsed(n) THEN servos[n].ticks ELSE 0)
          BY <1>3, <1>4, <1>5, <1>12 DEF TIMER1_COMPA
    <2>2. n \in Indices /\ n \in -1 .. MaxServos - 1 /\ n \in 0 .. ServoCount - 1  BY <1>2, <1>12 DEF Indices
    <2>3. servos[n].ticks \in Widths \cup {0}  BY <1>2, <2>2
    <2>4. OCR1A' \in 0 .. Wrap - 1  BY <1>9, <2>1, <2>3
    <2>5. line' \in [ServoPins -> {0, 1}] /\ \A p \in ServoPins : line'[p] = 1 => (p \in left \/ (Pulsed(n) /\ p = servos[n].nbr))
      <3>1. CASE Pulsed(n)  BY <1>6, <2>1, <3>1
      <3>2. CASE ~Pulsed(n)  BY <1>6, <2>1, <3>2
      <3>. QED  BY <3>1, <3>2
    <2>6. due' \in Nat
      <3>1. Widths \cup {0} \subseteq Nat  BY ServoAssumption
      <3>. QED  BY <2>1, <2>3, <3>1
    <2>7. ServoTypes'
      <3>1. OCF1A' \in BOOLEAN /\ servoIE' \in BOOLEAN  BY <1>1, <1>7 DEF ServoTypes
      <3>. QED  BY <1>2, <1>7, <1>8, <1>11, <2>1, <2>2, <2>4, <2>5, <2>6, <3>1 DEF ServoTypes, Indices
    <2>8. ASSUME NEW p \in ServoUp' PROVE Pulsed(n) /\ servos[n].nbr = p
      <3>1. p \in ServoPins /\ line'[p] = 1 /\ p \notin left'  BY <2>8 DEF ServoUp
      <3>2. p \notin left  BY <1>8, <3>1
      <3>. QED  BY <2>5, <3>1, <3>2
    <2>9. OneUp'
      <3>1. Pulsed(n)' <=> Pulsed(n)  BY <1>7 DEF Pulsed
      <3>. QED  BY <1>2, <1>7, <2>1, <2>8, <3>1 DEF OneUp, Pulsed
    <2>10. PulseTimed'
      <3>1. SUFFICES ASSUME ServoUp' # {}
                     PROVE  due' \in Widths /\ high' < due' /\ OCR1A' = (TCNT1' + (due' - high')) % Wrap
            BY <1>7 DEF PulseTimed
      <3>2. Pulsed(n)  BY <2>8, <3>1
      <3>3. due' = servos[n].ticks  BY <2>1, <3>2
      <3>4. servos[n].ticks \in Widths
        <4>1. ASSUME servoTodo = <<"default">>, n = ServoCount - 1 PROVE FALSE
          <5>1. ~servos[servoArg.index].isActive /\ servoArg.index = n  BY <1>1, <4>1 DEF ServoCall, ServoSized
          <5>. QED  BY <3>2, <5>1 DEF Pulsed
        <4>. QED  BY <1>1, <2>2, <4>1 DEF ServoSized
      <3>5. PICK w \in Widths : w = servos[n].ticks  BY <3>4
      <3>6. w \in Nat \ {0} /\ w - 0 = w  BY ServoAssumption
      <3>. QED  BY <1>7, <2>1, <3>3, <3>4, <3>5, <3>6
    <2>11. Refreshed'  BY <1>2, <1>11, <2>1 DEF Refreshed
    <2>. QED  BY <1>10, <2>7, <2>9, <2>10, <2>11 DEF ServoInv
  <1>13. CASE ~(n < ServoCount /\ n < MaxServos)
    <2>1. Channel' = -1 /\ OCR1A' = Rest(now) /\ line' = e /\ due' = 0  BY <1>3, <1>4, <1>5, <1>13 DEF TIMER1_COMPA
    <2>2. OCR1A' \in 0 .. Wrap - 1 /\ OCR1A' >= RefreshInterval
      <3>1. PICK k \in 0 .. Wrap : k = Margin  BY <1>2, ServoAssumption
      <3>2. PICK soon \in 0 .. Wrap - 1 : soon = (now + Margin) % Wrap  BY <3>1, WrapAdd
      <3>3. OCR1A' = IF soon < RefreshInterval THEN RefreshInterval ELSE soon  BY <2>1, <3>2 DEF Rest
      <3>4. RefreshInterval \in 0 .. Wrap - 1  BY <1>2, ServoAssumption
      <3>. QED  BY <1>2, <3>3, <3>4
    <2>3. ServoUp' = {}
      <3>1. ASSUME NEW p \in ServoUp' PROVE FALSE
        <4>1. p \in ServoPins /\ line'[p] = 1 /\ p \notin left'  BY <3>1 DEF ServoUp
        <4>. QED  BY <1>6, <1>8, <2>1, <4>1
      <3>. QED  BY <3>1
    <2>4. ServoTypes'
      <3>1. OCF1A' \in BOOLEAN /\ servoIE' \in BOOLEAN  BY <1>1, <1>7 DEF ServoTypes
      <3>2. -1 \in -1 .. MaxServos - 1  BY <1>2
      <3>. QED  BY <1>2, <1>6, <1>7, <1>8, <1>11, <2>1, <2>2, <3>1, <3>2 DEF ServoTypes, Indices
    <2>5. Refreshed'  BY <1>7, <1>11, <2>2 DEF Refreshed
    <2>. QED  BY <1>10, <2>3, <2>4, <2>5 DEF ServoInv, OneUp, PulseTimed
  <1>. QED  BY <1>12, <1>13

LEMMA NoneUp ==
    ASSUME ServoInv, \A s \in Indices : ~servos[s].isActive
    PROVE  ServoUp = {}
  <1>1. ASSUME Channel >= 0 PROVE Channel \in Indices  BY <1>1, ServoAssumption DEF ServoInv, ServoTypes, Indices
  <1>. QED  BY <1>1 DEF ServoInv, OneUp, Pulsed

LEMMA ConstructKeeps ==
    ASSUME ServoInv, Construct
    PROVE  ServoInv'
  <1>1. ServoTypes /\ ServoCall /\ ServoSized /\ OneUp /\ PulseTimed /\ Refreshed  BY DEF ServoInv
  <1>2. /\ servoTodo = <<>> /\ ServoCount < MaxServos /\ ServoCount' = ServoCount + 1
        /\ servoTodo' = <<"default">> /\ servoArg' = [index |-> ServoCount, pin |-> 0]
        /\ UNCHANGED <<servos, Channel, timer1Vars, line, servoHistory>>
        BY DEF Construct, NoServoArg
  <1>3. ServoCount \in 0 .. MaxServos /\ MaxServos \in Nat \ {0}  BY <1>1, ServoAssumption DEF ServoTypes
  <1>4. ServoCount' \in 0 .. MaxServos /\ ServoCount \in Indices  BY <1>2, <1>3 DEF Indices
  <1>5. ServoTypes'  BY <1>1, <1>2, <1>4 DEF ServoTypes, timer1Vars, servoHistory
  <1>6. ServoSized'
    <2>1. ASSUME NEW s \in Indices, servos[s].isActive PROVE s < ServoCount + 1
          BY <1>1, <1>3, <2>1 DEF ServoSized, Indices
    <2>2. ASSUME NEW s \in 0 .. ServoCount PROVE s = ServoCount \/ servos[s].ticks \in Widths
          BY <1>1, <1>2, <1>3, <2>2 DEF ServoSized
    <2>. QED  BY <1>2, <1>3, <2>1, <2>2 DEF ServoSized
  <1>7. ServoCall'
    <2>1. ServoCount \in 0 .. ServoCount' - 1  BY <1>2, <1>3
    <2>2. ~servos[ServoCount].isActive  BY <1>1, <1>3, <1>4 DEF ServoSized
    <2>3. <<"default">> \notin Attaching  BY DEF Attaching, Starting, AttachSteps
    <2>. QED  BY <1>2, <2>1, <2>2, <2>3 DEF ServoCall, Attaching
  <1>8. ServoUp' = ServoUp  BY <1>2 DEF ServoUp, servoHistory
  <1>9. OneUp'  BY <1>1, <1>2, <1>3, <1>8 DEF OneUp, Pulsed, ServoTypes
  <1>10. PulseTimed' /\ Refreshed'  BY <1>1, <1>2, <1>8 DEF PulseTimed, Refreshed, timer1Vars, servoHistory
  <1>. QED  BY <1>5, <1>6, <1>7, <1>9, <1>10 DEF ServoInv

LEMMA AttachKeeps ==
    ASSUME ServoInv, attach
    PROVE  ServoInv'
  <1>1. ServoTypes /\ ServoCall /\ ServoSized /\ OneUp /\ PulseTimed /\ Refreshed  BY DEF ServoInv
  <1>2. PICK s \in 0 .. ServoCount - 1, p \in ServoPins :
          /\ \A j \in Indices : servos[j].isActive => j # s
          /\ servoArg' = [index |-> s, pin |-> p]
          /\ servoTodo' = IF \A j \in Indices : ~servos[j].isActive THEN AttachSteps ELSE <<"nbr", "active">>
        BY DEF attach
  <1>3. servoTodo = <<>> /\ UNCHANGED <<servos, ServoCount, Channel, timer1Vars, line, servoHistory>>  BY DEF attach
  <1>4. s \in Indices  BY <1>1, ServoAssumption DEF ServoTypes, Indices
  <1>5. ServoTypes'  BY <1>1, <1>3 DEF ServoTypes, timer1Vars, servoHistory
  <1>6. servoTodo' \in Attaching /\ (servoTodo' \in Starting => \A j \in Indices : ~servos[j].isActive)
    <2>1. CASE \A j \in Indices : ~servos[j].isActive  BY <1>2, <2>1 DEF Attaching, Starting
    <2>2. CASE ~\A j \in Indices : ~servos[j].isActive
      <3>1. <<"nbr", "active">> \notin Starting  BY DEF Starting, AttachSteps
      <3>. QED  BY <1>2, <2>2, <3>1 DEF Attaching
    <2>. QED  BY <2>1, <2>2
  <1>7. <<"default">> \notin Attaching  BY DEF Attaching, Starting, AttachSteps
  <1>8. ServoSized'
    <2>1. \A j \in 0 .. ServoCount - 1 : servos[j].ticks \in Widths  BY <1>1, <1>3 DEF ServoSized
    <2>. QED  BY <1>1, <1>3, <1>6, <1>7, <2>1 DEF ServoSized
  <1>9. ServoCall'
    <2>1. ~servos[s].isActive  BY <1>2, <1>4
    <2>. QED  BY <1>2, <1>3, <1>6, <2>1 DEF ServoCall
  <1>10. ServoUp' = ServoUp  BY <1>3 DEF ServoUp, servoHistory
  <1>11. OneUp' /\ PulseTimed' /\ Refreshed'
         BY <1>1, <1>3, <1>10 DEF OneUp, Pulsed, PulseTimed, Refreshed, timer1Vars, servoHistory
  <1>. QED  BY <1>5, <1>8, <1>9, <1>11 DEF ServoInv

LEMMA DetachKeeps ==
    ASSUME ServoInv, detach
    PROVE  ServoInv'
  <1>1. ServoTypes /\ ServoCall /\ ServoSized /\ OneUp /\ PulseTimed /\ Refreshed  BY DEF ServoInv
  <1>2. PICK s \in 0 .. ServoCount - 1, cut \in SUBSET ServoPins :
          /\ cut = {p \in ServoPins \ left : p = servos[s].nbr /\ line[p] = 1}
          /\ servos' = [servos EXCEPT ![s].isActive = FALSE] /\ left' = left \cup cut
          /\ IF cut = {} THEN UNCHANGED <<high, due>> ELSE high' = 0 /\ due' = 0
        BY DEF detach
  <1>3. servoTodo = <<>> /\ UNCHANGED <<ServoCount, Channel, timer1Vars, line, servoTodo, servoArg, cycle>>
        BY DEF detach
  <1>4. s \in Indices  BY <1>1, ServoAssumption DEF ServoTypes, Indices
  <1>5. /\ servos' \in [Indices -> [nbr : ServoPins \cup {0}, isActive : BOOLEAN, ticks : Widths \cup {0}]]
        /\ \A j \in Indices : servos'[j].ticks = servos[j].ticks /\ servos'[j].nbr = servos[j].nbr
        /\ \A j \in Indices : servos'[j].isActive => (servos[j].isActive /\ j # s)
        /\ \A j \in Indices : j # s => servos'[j] = servos[j]
        BY <1>1, <1>2, <1>4 DEF ServoTypes
  <1>6. ServoTypes'
    <2>1. high' \in Nat /\ due' \in Nat  BY <1>1, <1>2 DEF ServoTypes
    <2>2. left' \subseteq ServoPins  BY <1>1, <1>2 DEF ServoTypes
    <2>. QED  BY <1>1, <1>3, <1>5, <2>1, <2>2 DEF ServoTypes, timer1Vars
  <1>7. \A j \in 0 .. ServoCount - 1 : j \in Indices  BY <1>1, ServoAssumption DEF ServoTypes, Indices
  <1>8. ServoSized'  BY <1>1, <1>3, <1>5, <1>7 DEF ServoSized
  <1>9. ServoCall'
    <2>1. servoTodo' = <<>> /\ servoTodo' \notin Attaching  BY <1>3 DEF Attaching, Starting, AttachSteps
    <2>. QED  BY <2>1 DEF ServoCall, Attaching
  <1>10. ASSUME NEW p \in ServoUp' PROVE p \in ServoUp /\ p \notin cut  BY <1>2, <1>3 DEF ServoUp
  <1>11. ASSUME NEW p \in ServoUp' PROVE Channel >= 0 /\ Pulsed(Channel)' /\ servos'[Channel].nbr = p
    <2>1. Channel >= 0 /\ Pulsed(Channel) /\ servos[Channel].nbr = p  BY <1>1, <1>10 DEF OneUp
    <2>2. p # servos[s].nbr
      <3>1. p \in ServoPins \ left /\ line[p] = 1  BY <1>10 DEF ServoUp
      <3>. QED  BY <1>2, <1>10, <3>1
    <2>3. Channel # s /\ Channel \in Indices  BY <1>1, <2>1, <2>2, ServoAssumption DEF ServoTypes, Indices
    <2>4. servos'[Channel] = servos[Channel]  BY <1>5, <2>3
    <2>. QED  BY <1>3, <2>1, <2>4 DEF Pulsed
  <1>12. OneUp'  BY <1>3, <1>11 DEF OneUp, Pulsed
  <1>13. PulseTimed'
    <2>1. CASE cut = {}
      <3>1. ServoUp' = ServoUp  BY <1>2, <1>3, <2>1 DEF ServoUp
      <3>. QED  BY <1>1, <1>2, <1>3, <2>1, <3>1 DEF PulseTimed, timer1Vars
    <2>2. CASE cut # {}
      <3>1. PICK c : c \in cut  BY <2>2
      <3>2. c \in ServoUp  BY <1>2, <3>1 DEF ServoUp
      <3>3. ASSUME NEW p \in ServoUp' PROVE FALSE
        <4>1. p = c  BY <1>1, <1>10, <3>2 DEF OneUp
        <4>. QED  BY <1>10, <3>1, <4>1
      <3>. QED  BY <3>3 DEF PulseTimed
    <2>. QED  BY <2>1, <2>2
  <1>14. Refreshed'  BY <1>1, <1>3 DEF Refreshed, timer1Vars
  <1>. QED  BY <1>6, <1>8, <1>9, <1>12, <1>13, <1>14 DEF ServoInv

LEMMA WriteKeeps ==
    ASSUME ServoInv, write
    PROVE  ServoInv'
  <1>1. ServoTypes /\ ServoCall /\ ServoSized /\ OneUp /\ PulseTimed /\ Refreshed  BY DEF ServoInv
  <1>2. PICK s \in 0 .. ServoCount - 1, w \in Widths : servos' = [servos EXCEPT ![s].ticks = w]  BY DEF write
  <1>3. servoTodo = <<>> /\ UNCHANGED <<ServoCount, Channel, timer1Vars, line, servoTodo, servoArg, servoHistory>>
        BY DEF write
  <1>4. s \in Indices /\ \A j \in 0 .. ServoCount - 1 : j \in Indices
        BY <1>1, ServoAssumption DEF ServoTypes, Indices
  <1>5. /\ servos' \in [Indices -> [nbr : ServoPins \cup {0}, isActive : BOOLEAN, ticks : Widths \cup {0}]]
        /\ \A j \in Indices : servos'[j].nbr = servos[j].nbr
        /\ \A j \in Indices : servos'[j].isActive = servos[j].isActive
        /\ \A j \in Indices : servos'[j].ticks = w \/ servos'[j].ticks = servos[j].ticks
        BY <1>1, <1>2, <1>4 DEF ServoTypes
  <1>6. ServoTypes'  BY <1>1, <1>3, <1>5 DEF ServoTypes, timer1Vars, servoHistory
  <1>7. ServoSized'  BY <1>1, <1>3, <1>4, <1>5 DEF ServoSized
  <1>8. ServoCall'
    <2>1. servoTodo' = <<>> /\ servoTodo' \notin Attaching  BY <1>3 DEF Attaching, Starting, AttachSteps
    <2>. QED  BY <2>1 DEF ServoCall, Attaching
  <1>9. ServoUp' = ServoUp  BY <1>3 DEF ServoUp, servoHistory
  <1>10. OneUp'
    <2>1. ASSUME NEW p \in ServoUp PROVE Channel >= 0 /\ Pulsed(Channel)' /\ servos'[Channel].nbr = p
      <3>1. Channel >= 0 /\ Pulsed(Channel) /\ servos[Channel].nbr = p  BY <1>1 DEF OneUp
      <3>2. Channel \in Indices  BY <1>1, <3>1, ServoAssumption DEF ServoTypes, Indices
      <3>. QED  BY <1>3, <1>5, <3>1, <3>2 DEF Pulsed
    <2>. QED  BY <1>3, <1>9, <2>1 DEF OneUp, Pulsed
  <1>11. PulseTimed' /\ Refreshed'  BY <1>1, <1>3, <1>9 DEF PulseTimed, Refreshed, timer1Vars, servoHistory
  <1>. QED  BY <1>6, <1>7, <1>8, <1>10, <1>11 DEF ServoInv

\* What a call does next, and what is left of it.
LEMMA CallParts ==
    ASSUME ServoCall, servoTodo # <<>>
    PROVE  LET op == Head(servoTodo)
               rest == Tail(servoTodo)
           IN \/ op = "default" /\ rest = <<>> /\ servoTodo = <<"default">>
              \/ op = "nbr" /\ servoTodo \in Attaching /\ rest \in Attaching
                 /\ (rest \in Starting => servoTodo \in Starting)
              \/ op \in {"init", "clear", "enable"} /\ servoTodo \in Starting /\ rest \in Attaching
              \/ op = "active" /\ servoTodo \in Attaching /\ rest = <<>>
  <1>1. CASE servoTodo = <<"default">>  BY <1>1
  <1>2. CASE servoTodo = AttachSteps
    <2>1. Head(servoTodo) = "nbr" /\ Tail(servoTodo) = <<"init", "clear", "enable", "active">>
          BY <1>2 DEF AttachSteps
    <2>. QED  BY <1>2, <2>1 DEF Attaching, Starting
  <1>3. CASE servoTodo = <<"init", "clear", "enable", "active">>
    <2>1. Head(servoTodo) = "init" /\ Tail(servoTodo) = <<"clear", "enable", "active">>  BY <1>3
    <2>. QED  BY <1>3, <2>1 DEF Attaching, Starting
  <1>4. CASE servoTodo = <<"clear", "enable", "active">>
    <2>1. Head(servoTodo) = "clear" /\ Tail(servoTodo) = <<"enable", "active">>  BY <1>4
    <2>. QED  BY <1>4, <2>1 DEF Attaching, Starting
  <1>5. CASE servoTodo = <<"enable", "active">>
    <2>1. Head(servoTodo) = "enable" /\ Tail(servoTodo) = <<"active">>  BY <1>5
    <2>. QED  BY <1>5, <2>1 DEF Attaching, Starting
  <1>6. CASE servoTodo = <<"nbr", "active">>
    <2>1. Head(servoTodo) = "nbr" /\ Tail(servoTodo) = <<"active">>  BY <1>6
    <2>2. <<"active">> \notin Starting  BY DEF Starting, AttachSteps
    <2>. QED  BY <1>6, <2>1, <2>2 DEF Attaching
  <1>7. CASE servoTodo = <<"active">>
    <2>1. Head(servoTodo) = "active" /\ Tail(servoTodo) = <<>>  BY <1>7
    <2>. QED  BY <1>7, <2>1 DEF Attaching
  <1>. QED  BY <1>1, <1>2, <1>3, <1>4, <1>5, <1>6, <1>7 DEF ServoCall, Attaching, Starting

LEMMA StepKeeps ==
    ASSUME ServoInv, ServoStep
    PROVE  ServoInv'
  <1>1. ServoTypes /\ ServoCall /\ ServoSized /\ OneUp /\ PulseTimed /\ Refreshed  BY DEF ServoInv
  <1>2. /\ servoTodo # <<>> /\ servoTodo' = Tail(servoTodo)
        /\ servoArg' = IF servoTodo' = <<>> THEN NoServoArg ELSE servoArg
        /\ UNCHANGED <<ServoCount, Channel, line, servoHistory>>
        BY DEF ServoStep
  <1>3. PICK s \in 0 .. ServoCount - 1 : s = servoArg.index /\ ~servos[s].isActive  BY <1>1, <1>2 DEF ServoCall
  <1>4. s \in Indices /\ \A j \in 0 .. ServoCount - 1 : j \in Indices
        BY <1>1, ServoAssumption DEF ServoTypes, Indices
  <1>5. ServoUp' = ServoUp  BY <1>2 DEF ServoUp, servoHistory
  <1>6. <<>> \notin Attaching /\ <<"default">> \notin Attaching  BY DEF Attaching, Starting, AttachSteps
  <1>7. \A p \in ServoUp : Channel # s  BY <1>1, <1>3 DEF OneUp, Pulsed
  <1>8. ASSUME UNCHANGED timer1Vars,
               servos' \in [Indices -> [nbr : ServoPins \cup {0}, isActive : BOOLEAN, ticks : Widths \cup {0}]],
               \A j \in Indices : j # s => servos'[j] = servos[j]
        PROVE  ServoTypes' /\ OneUp' /\ PulseTimed' /\ Refreshed'
    <2>1. ServoTypes'  BY <1>1, <1>2, <1>8 DEF ServoTypes, timer1Vars, servoHistory
    <2>2. ASSUME NEW p \in ServoUp PROVE Channel >= 0 /\ Pulsed(Channel)' /\ servos'[Channel].nbr = p
      <3>1. Channel >= 0 /\ Pulsed(Channel) /\ servos[Channel].nbr = p  BY <1>1 DEF OneUp
      <3>2. Channel \in Indices /\ Channel # s  BY <1>1, <1>7, <3>1, ServoAssumption DEF ServoTypes, Indices
      <3>. QED  BY <1>2, <1>8, <3>1, <3>2 DEF Pulsed
    <2>3. OneUp'  BY <1>2, <1>5, <2>2 DEF OneUp, Pulsed
    <2>. QED  BY <1>1, <1>2, <1>5, <1>8, <2>1, <2>3 DEF PulseTimed, Refreshed, timer1Vars, servoHistory
  <1>9. CASE Head(servoTodo) = "default"
    <2>1. servoTodo' = <<>> /\ servoTodo = <<"default">>  BY <1>1, <1>2, <1>9, CallParts
    <2>2. PICK w \in Widths : servos' = [servos EXCEPT ![s].ticks = w]  BY <1>3, <1>9 DEF ServoStep
    <2>3. UNCHANGED timer1Vars  BY <1>9 DEF ServoStep
    <2>4. /\ servos' \in [Indices -> [nbr : ServoPins \cup {0}, isActive : BOOLEAN, ticks : Widths \cup {0}]]
          /\ \A j \in Indices : j # s => servos'[j] = servos[j]
          /\ servos'[s].ticks = w /\ servos'[s].isActive = servos[s].isActive
          BY <1>1, <1>4, <2>2 DEF ServoTypes
    <2>5. ServoCall'  BY <1>6, <2>1 DEF ServoCall, Attaching
    <2>6. ServoSized'
      <3>1. s = ServoCount - 1  BY <1>1, <1>3, <2>1 DEF ServoSized
      <3>2. ASSUME NEW j \in Indices, servos'[j].isActive PROVE j < ServoCount
            BY <1>1, <1>3, <2>4, <3>2 DEF ServoSized
      <3>3. ASSUME NEW j \in 0 .. ServoCount - 1 PROVE servos'[j].ticks \in Widths
        <4>1. CASE j = s  BY <2>4, <4>1
        <4>2. CASE j # s  BY <1>1, <1>4, <2>4, <3>1, <4>2 DEF ServoSized
        <4>. QED  BY <4>1, <4>2
      <3>. QED  BY <1>2, <2>1, <3>2, <3>3 DEF ServoSized
    <2>. QED  BY <1>8, <2>3, <2>4, <2>5, <2>6 DEF ServoInv
  <1>10. CASE Head(servoTodo) = "nbr"
    <2>1. servoTodo \in Attaching /\ servoTodo' \in Attaching /\ (servoTodo' \in Starting => servoTodo \in Starting)
          BY <1>1, <1>2, <1>10, CallParts
    <2>2. servos' = [servos EXCEPT ![s].nbr = servoArg.pin] /\ UNCHANGED timer1Vars  BY <1>3, <1>10 DEF ServoStep
    <2>3. servoArg.pin \in ServoPins  BY <1>1, <2>1 DEF ServoCall
    <2>4. /\ servos' \in [Indices -> [nbr : ServoPins \cup {0}, isActive : BOOLEAN, ticks : Widths \cup {0}]]
          /\ \A j \in Indices : j # s => servos'[j] = servos[j]
          /\ \A j \in Indices : servos'[j].ticks = servos[j].ticks /\ servos'[j].isActive = servos[j].isActive
          BY <1>1, <1>4, <2>2, <2>3 DEF ServoTypes
    <2>5. servoArg' = servoArg  BY <1>2, <1>6, <2>1
    <2>6. ServoCall'  BY <1>1, <1>2, <1>3, <1>4, <2>1, <2>3, <2>4, <2>5 DEF ServoCall
    <2>7. ServoSized'
      <3>1. \A j \in 0 .. ServoCount - 1 : servos'[j].ticks \in Widths  BY <1>1, <1>4, <1>6, <2>1, <2>4 DEF ServoSized
      <3>. QED  BY <1>1, <1>2, <1>6, <2>1, <2>4, <3>1 DEF ServoSized
    <2>. QED  BY <1>8, <2>2, <2>4, <2>6, <2>7 DEF ServoInv
  <1>11. CASE Head(servoTodo) = "active"
    <2>1. servoTodo \in Attaching /\ servoTodo' = <<>>  BY <1>1, <1>2, <1>11, CallParts
    <2>2. servos' = [servos EXCEPT ![s].isActive = TRUE] /\ UNCHANGED timer1Vars  BY <1>3, <1>11 DEF ServoStep
    <2>3. /\ servos' \in [Indices -> [nbr : ServoPins \cup {0}, isActive : BOOLEAN, ticks : Widths \cup {0}]]
          /\ \A j \in Indices : j # s => servos'[j] = servos[j]
          /\ \A j \in Indices : servos'[j].ticks = servos[j].ticks
          BY <1>1, <1>4, <2>2 DEF ServoTypes
    <2>4. ServoCall'  BY <1>6, <2>1 DEF ServoCall, Attaching
    <2>5. ServoSized'
      <3>1. \A j \in 0 .. ServoCount - 1 : servos'[j].ticks \in Widths  BY <1>1, <1>4, <1>6, <2>1, <2>3 DEF ServoSized
      <3>2. ASSUME NEW j \in Indices, servos'[j].isActive PROVE j < ServoCount
        <4>1. ServoCount \in Int  BY <1>1, ServoAssumption DEF ServoTypes
        <4>2. CASE j = s  BY <1>3, <4>1, <4>2
        <4>3. CASE j # s  BY <1>1, <2>3, <3>2, <4>3 DEF ServoSized
        <4>. QED  BY <4>2, <4>3
      <3>. QED  BY <1>2, <2>1, <3>1, <3>2 DEF ServoSized
    <2>. QED  BY <1>8, <2>2, <2>3, <2>4, <2>5 DEF ServoInv
  <1>12. CASE Head(servoTodo) \in {"init", "clear", "enable"}
    <2>1. servoTodo \in Starting /\ servoTodo' \in Attaching  BY <1>1, <1>2, <1>12, CallParts
    <2>2. servoTodo \in Attaching /\ \A j \in Indices : ~servos[j].isActive  BY <1>1, <2>1 DEF ServoCall, Attaching
    <2>3. servos' = servos /\ servoArg' = servoArg  BY <1>2, <1>6, <1>12, <2>1 DEF ServoStep
    <2>4. ServoUp' = {}  BY <1>5, <2>2, NoneUp
    <2>5. ServoCall'  BY <1>1, <1>2, <2>1, <2>2, <2>3 DEF ServoCall
    <2>6. ServoSized'  BY <1>1, <1>2, <1>6, <2>1, <2>2, <2>3 DEF ServoSized
    <2>7. /\ TCNT1' \in {TCNT1, 0} /\ OCR1A' = OCR1A
          /\ OCF1A' => OCF1A
          BY <1>12 DEF ServoStep
    <2>8. OCF1A' \in BOOLEAN /\ servoIE' \in BOOLEAN  BY <1>1, <1>12 DEF ServoStep, ServoTypes
    <2>9. TCNT1' \in 0 .. Wrap - 1  BY <1>1, <2>7, ServoAssumption DEF ServoTypes
    <2>10. ServoTypes'  BY <1>1, <1>2, <2>3, <2>7, <2>8, <2>9 DEF ServoTypes, servoHistory
    <2>11. Refreshed'
      <3>1. cycle \in Nat  BY <1>1, ServoAssumption DEF ServoTypes
      <3>. QED  BY <1>1, <1>2, <2>7, <3>1 DEF Refreshed, servoHistory
    <2>. QED  BY <2>4, <2>5, <2>6, <2>10, <2>11 DEF ServoInv, OneUp, PulseTimed
  <1>. QED  BY <1>1, <1>2, <1>9, <1>10, <1>11, <1>12, CallParts

LEMMA ServoInvStep ==
    ASSUME ServoInv, [ServoNext]_servoVars
    PROVE  ServoInv'
  <1>1. CASE UNCHANGED servoVars
    <2>1. UNCHANGED <<servos, ServoCount, Channel, TCNT1, OCR1A, OCF1A, servoIE, line, servoTodo, servoArg,
                      high, due, cycle, left>>
          BY <1>1 DEF servoVars, timer1Vars, servoHistory
    <2>2. ServoUp' = ServoUp  BY <2>1 DEF ServoUp
    <2>3. ServoTypes' /\ ServoCall' /\ ServoSized'  BY <2>1 DEF ServoInv, ServoTypes, ServoCall, ServoSized
    <2>4. OneUp' /\ PulseTimed' /\ Refreshed'  BY <2>1, <2>2 DEF ServoInv, OneUp, Pulsed, PulseTimed, Refreshed
    <2>. QED  BY <2>3, <2>4 DEF ServoInv
  <1>. QED  BY <1>1, CountTimed, InterruptKeeps, ConstructKeeps, AttachKeeps, DetachKeeps, WriteKeeps, StepKeeps
            DEF ServoNext

\* The pulse of a servo is as long as the width written before it began, give or take the
\* lateness of the interrupt, no two servos are pulsed at a time, and the first is not
\* pulsed again before REFRESH_INTERVAL is over, whatever is written, attached and detached
\* meanwhile (Servo.cpp:56-81, 210-294), for every number of servos and every width.
THEOREM PulsesHold == TimersSpec => PulsesKept
  <1>1. ASSUME ServoInv, [ServoNext]_servoVars
        PROVE  [ /\ \A p \in ServoPins \ left : line[p] = 1 =>
                       /\ high <= due + MaxLate
                       /\ line'[p] = 0 => high >= due
                       /\ \A q \in ServoPins \ left : line[q] = 1 => q = p
                 /\ Channel = -1 /\ Channel' = 0 => cycle = RefreshInterval ]_servoVars
    <2>1. /\ high \in Nat /\ due \in Nat /\ MaxLate \in Nat /\ OCF1A \in BOOLEAN
          /\ MaxServos \in Nat \ {0}
          BY <1>1, ServoAssumption DEF ServoInv, ServoTypes
    <2>2. SUFFICES ASSUME ServoNext
                   PROVE  /\ \A p \in ServoPins \ left : line[p] = 1 =>
                                /\ high <= due + MaxLate
                                /\ line'[p] = 0 => high >= due
                                /\ \A q \in ServoPins \ left : line[q] = 1 => q = p
                          /\ Channel = -1 /\ Channel' = 0 => cycle = RefreshInterval
          BY <1>1
    <2>3. CASE TIMER1_COMPA
      <3>1. OCF1A  BY <2>3 DEF TIMER1_COMPA
      <3>2. ASSUME NEW p \in ServoPins \ left, line[p] = 1
            PROVE  /\ high <= due + MaxLate /\ high >= due
                   /\ \A q \in ServoPins \ left : line[q] = 1 => q = p
        <4>1. p \in ServoUp  BY <3>2 DEF ServoUp
        <4>2. high >= due /\ high - due <= MaxLate  BY <1>1, <3>1, <4>1 DEF ServoInv, PulseTimed
        <4>3. \A q \in ServoUp : q = p  BY <1>1, <4>1 DEF ServoInv, OneUp
        <4>. QED  BY <2>1, <4>2, <4>3 DEF ServoUp
      <3>3. ASSUME Channel = -1 PROVE cycle = RefreshInterval  BY <1>1, <3>1, <3>3 DEF ServoInv, Refreshed
      <3>. QED  BY <3>2, <3>3
    <2>4. CASE ~TIMER1_COMPA
      <3>1. line' = line /\ Channel' = Channel
            BY <2>2, <2>4 DEF ServoNext, Count, Construct, attach, detach, write, ServoStep
      <3>2. ASSUME NEW p \in ServoPins \ left, line[p] = 1
            PROVE  high <= due + MaxLate /\ \A q \in ServoPins \ left : line[q] = 1 => q = p
        <4>1. p \in ServoUp  BY <3>2 DEF ServoUp
        <4>2. CASE OCF1A
          <5>1. high >= due /\ high - due <= MaxLate  BY <1>1, <4>1, <4>2 DEF ServoInv, PulseTimed
          <5>2. \A q \in ServoUp : q = p  BY <1>1, <4>1 DEF ServoInv, OneUp
          <5>. QED  BY <2>1, <5>1, <5>2 DEF ServoUp
        <4>3. CASE ~OCF1A
          <5>1. high < due  BY <1>1, <4>1, <4>3 DEF ServoInv, PulseTimed
          <5>2. \A q \in ServoUp : q = p  BY <1>1, <4>1 DEF ServoInv, OneUp
          <5>. QED  BY <2>1, <5>1, <5>2 DEF ServoUp
        <4>. QED  BY <4>2, <4>3
      <3>. QED  BY <3>1, <3>2
    <2>. QED  BY <2>3, <2>4
  <1>. QED  BY <1>1, ServoInvInit, ServoInvStep, PartsKept, PTL DEF ServoSpec, PulsesKept
==============================================================================
