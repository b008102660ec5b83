-------------------------------- MODULE Spi --------------------------------
(***************************************************************************)
(* The SPI library's transactions (SPI.h, SPI.cpp) and the one external    *)
(* interrupt of these chips, INT0 (WInterrupts.c), whose handler may use   *)
(* the bus too.                                                            *)
(*                                                                         *)
(* A call of the main line is a list of steps, todo, between any two of    *)
(* which INT0 may come while its bit of EIMSK and the I flag are set.  Its *)
(* handler runs with I clear, and is one step.  There is one interruptSave *)
(* for all transactions, and nothing notices if what it was saved from has *)
(* been changed by then: history keeps what a sketch must not do, and the  *)
(* properties hold as long as it has done none of it.                      *)
(***************************************************************************)
EXTENDS Naturals, Sequences

VARIABLES
    EIMSK, I,           \* the bit of INT0, and the I flag of SREG
    interruptMode, interruptMask, interruptSave,
    initialized,        \* begin() counts its users
    intFunc,            \* the pointer of INT0, two bytes
    todo, arg,          \* what is left of the call of the main line, and its arguments
    depth,              \* history: transactions of the main line that are open
    wantEIMSK, wantI,   \* history: what the sketch has set
    disturbed,          \* history: a handler used the bus in a transaction
    misused             \* history: the sketch did what it should not have done

intVars == <<EIMSK, I>>
modeVars == <<interruptMode, interruptMask, initialized>>
wantVars == <<wantEIMSK, wantI>>
spiVars == <<intVars, modeVars, interruptSave, intFunc, todo, arg, depth, wantVars, disturbed, misused>>

Functions == {"bus", "plain"}   \* one that has a transaction of its own, one that has not
Whole(f) == [low |-> f, high |-> f]
NoArg == [f |-> "nothing", block |-> 0, offset |-> 0, count |-> 0]

SpiInit ==
    /\ EIMSK = FALSE /\ I = TRUE /\ interruptMode = 0 /\ interruptMask = FALSE /\ interruptSave = FALSE
    /\ initialized = 1 /\ intFunc = Whole("nothing") /\ todo = <<>> /\ arg = NoArg
    /\ depth = 0 /\ wantEIMSK = FALSE /\ wantI = TRUE /\ disturbed = FALSE
    /\ misused = FALSE

------------------------------------------------------------------------------
\* Forms an error could give the operators below; no action uses them.
MaskNothing == FALSE
StoreThenDisable == <<"storeLow", "storeHigh", "disable">>

------------------------------------------------------------------------------
\* beginTransaction() and endTransaction(), which turn interrupts off for what
\* they do; a handler does both, and has nothing to turn off.
Masked == interruptMask

Save == interruptSave' = CASE interruptMode = 1 -> EIMSK [] interruptMode = 2 -> I [] OTHER -> interruptSave

beginTransaction ==
    /\ Save
    /\ EIMSK' = (EIMSK /\ ~(interruptMode = 1 /\ Masked))
    /\ I' = (I /\ interruptMode # 2)
    /\ depth' = depth + 1
    /\ misused' = (misused \/ depth > 0)

Restore ==
    /\ EIMSK' = IF interruptMode = 1 THEN interruptSave ELSE EIMSK
    /\ I' = IF interruptMode = 2 THEN interruptSave ELSE I

endTransaction ==
    /\ Restore
    /\ depth' = IF depth > 0 THEN depth - 1 ELSE 0
    /\ UNCHANGED <<interruptSave, misused>>

\* what INT0 calls is only masked if usingInterrupt() was told of it
Unregistered(mode, mask, f) == f = "bus" /\ mode # 2 /\ ~(mode = 1 /\ mask)

Change(mode, mask, f) ==
    misused' = (misused \/ depth > 0 \/ Unregistered(mode, mask, f))

\* usingInterrupt(0), or of any number these chips have no mask for
usingInterrupt ==
    /\ todo = <<>>
    /\ \/ interruptMask' = TRUE /\ interruptMode' = IF interruptMode = 0 THEN 1 ELSE interruptMode
       \/ interruptMask' = interruptMask /\ interruptMode' = 2
    /\ Change(interruptMode', interruptMask', intFunc.low)
    /\ UNCHANGED <<intVars, initialized, interruptSave, intFunc, todo, arg, depth, wantVars, disturbed>>

notUsingInterrupt ==
    /\ todo = <<>> /\ interruptMode # 2
    /\ interruptMask' = FALSE /\ interruptMode' = 0
    /\ Change(0, FALSE, intFunc.low)
    /\ UNCHANGED <<intVars, initialized, interruptSave, intFunc, todo, arg, depth, wantVars, disturbed>>

\* begin() and end() of one more user
begin ==
    /\ todo = <<>> /\ initialized < 2 /\ initialized' = initialized + 1
    /\ UNCHANGED <<intVars, interruptMode, interruptMask, interruptSave, intFunc, todo, arg, depth, wantVars, disturbed, misused>>

end ==
    /\ todo = <<>> /\ initialized > 0 /\ initialized' = initialized - 1
    /\ interruptMode' = IF initialized = 1 THEN 0 ELSE interruptMode
    /\ Change(interruptMode', interruptMask, intFunc.low)
    /\ UNCHANGED <<intVars, interruptMask, interruptSave, intFunc, todo, arg, depth, wantVars, disturbed>>

------------------------------------------------------------------------------
\* WInterrupts.c and the sketch's interrupts() and noInterrupts()
Call(steps, a) == todo = <<>> /\ todo' = steps /\ arg' = a

attachInterrupt ==
    \E f \in Functions :
        /\ Call(<<"storeLow", "storeHigh", "enable">>, [NoArg EXCEPT !.f = f])
        /\ misused' = (misused \/ depth > 0 \/ intFunc # Whole("nothing") \/ Unregistered(interruptMode, interruptMask, f))
        /\ UNCHANGED <<intVars, modeVars, interruptSave, intFunc, depth, wantVars, disturbed>>

DetachSteps == <<"disable", "storeLow", "storeHigh">>

detachInterrupt ==
    /\ Call(DetachSteps, NoArg)
    /\ misused' = (misused \/ depth > 0)
    /\ UNCHANGED <<intVars, modeVars, interruptSave, intFunc, depth, wantVars, disturbed>>

Next(op) == todo # <<>> /\ Head(todo) = op /\ todo' = Tail(todo)

Store ==
    /\ \/ Next("storeLow") /\ intFunc' = [intFunc EXCEPT !.low = arg.f]
       \/ Next("storeHigh") /\ intFunc' = [intFunc EXCEPT !.high = arg.f]
    /\ arg' = IF todo' = <<>> THEN NoArg ELSE arg
    /\ UNCHANGED <<intVars, modeVars, interruptSave, depth, wantVars, disturbed, misused>>

SetINT0 ==
    /\ \/ Next("enable") /\ EIMSK' = TRUE
       \/ Next("disable") /\ EIMSK' = FALSE
    /\ wantEIMSK' = EIMSK'
    /\ arg' = IF todo' = <<>> THEN NoArg ELSE arg
    /\ UNCHANGED <<I, modeVars, interruptSave, intFunc, depth, wantI, disturbed, misused>>

interrupts ==
    /\ todo = <<>> /\ I' = ~I /\ wantI' = ~I
    /\ misused' = (misused \/ depth > 0)
    /\ UNCHANGED <<EIMSK, modeVars, interruptSave, intFunc, todo, arg, depth, wantEIMSK, disturbed>>

\* The handler: with interrupts off its transaction saves and restores what it
\* finds, and so leaves only interruptSave changed, and the settings of the bus.
INT0_vect ==
    /\ EIMSK /\ I
    /\ IF intFunc.low = "bus"
       THEN /\ interruptSave' = CASE interruptMode = 1 -> EIMSK [] interruptMode = 2 -> FALSE [] OTHER -> interruptSave
            /\ disturbed' = (disturbed \/ depth > 0)
       ELSE UNCHANGED <<interruptSave, disturbed>>
    /\ UNCHANGED <<intVars, modeVars, intFunc, todo, arg, depth, wantVars, misused>>

\* A transaction of the sketch with another chip, such as an access of the W5100
access ==
    /\ Call(<<"begin", "transfer", "end">>, NoArg)
    /\ UNCHANGED <<intVars, modeVars, interruptSave, intFunc, depth, wantVars, disturbed, misused>>

Transaction ==
    /\ \/ Next("begin") /\ beginTransaction
       \/ Next("end") /\ endTransaction
       \/ Next("transfer") /\ UNCHANGED <<intVars, interruptSave, depth, misused>>
    /\ UNCHANGED <<modeVars, intFunc, arg, wantVars, disturbed>>

SpiNext ==
    \/ usingInterrupt \/ notUsingInterrupt \/ begin \/ end
    \/ attachInterrupt \/ detachInterrupt \/ Store \/ SetINT0 \/ interrupts
    \/ INT0_vect \/ access \/ Transaction

------------------------------------------------------------------------------
\* A handler that usingInterrupt() was told of does not use the bus inside a
\* transaction, and when the last is over interrupts are as the sketch has set
\* them: saved and restored in one byte for everybody.
TransactionsHold ==
    ~misused => ~disturbed /\ (depth = 0 => I = wantI /\ EIMSK = wantEIMSK)

\* INT0 never calls half of one pointer and half of another: it is disabled while
\* one is stored, as detachInterrupt() and attachInterrupt() have it between them.
CalledWhole == ~misused /\ EIMSK /\ I => intFunc.low = intFunc.high
=============================================================================
