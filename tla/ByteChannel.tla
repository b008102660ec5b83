----------------------------- MODULE ByteChannel -----------------------------
(***************************************************************************)
(* What every byte queue of the core promises its two ends: bytes leave in *)
(* the order they were accepted, each of them once, and no more than Cap   *)
(* of them are ever held in between.  HardwareSerial implements it twice   *)
(* (transmit and receive).  There is no fairness here: a channel may hold  *)
(* its bytes for ever, and Discard is the loss its owner asks for (end()). *)
(***************************************************************************)
EXTENDS Naturals, Sequences

CONSTANTS
    Byte,   \* the values that travel
    Cap     \* the most bytes the channel holds

VARIABLES
    held,   \* the bytes accepted and not yet delivered, oldest first
    out     \* every byte delivered so far

channelVars == <<held, out>>

Init == held = <<>> /\ out = <<>>

Accept(b) ==
    /\ Len(held) < Cap
    /\ held' = Append(held, b)
    /\ UNCHANGED out

Deliver ==
    /\ held # <<>>
    /\ out' = Append(out, Head(held))
    /\ held' = Tail(held)

Discard ==
    /\ held' = <<>>
    /\ UNCHANGED out

Next == (\E b \in Byte : Accept(b)) \/ Deliver \/ Discard

Spec == Init /\ [][Next]_channelVars

\* A channel whose owner never throws bytes away.
Lossless == Init /\ [][(\E b \in Byte : Accept(b)) \/ Deliver]_channelVars
==============================================================================
