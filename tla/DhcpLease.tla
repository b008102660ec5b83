------------------------------ MODULE DhcpLease ------------------------------
(***************************************************************************)
(* The life of a DHCP lease: checkLease(), which a sketch calls through    *)
(* Ethernet.maintain(), counts down to renewal and rebinding in whole      *)
(* seconds of millis() and then blocks in request_DHCP_lease().  What goes *)
(* on inside that call is the subject of module Dhcp; here it succeeds     *)
(* with the options of an ACK, or fails.                                   *)
(*                                                                         *)
(* The code only ever subtracts clock values, so times are kept as ages:   *)
(* a wrap of the 32-bit clock changes nothing.                             *)
(***************************************************************************)
EXTENDS Integers

CONSTANTS
    Second,         \* ticks of millis() in a second
    DEFAULT_LEASE,  \* the lease time when no server named one, in seconds
    Terms,          \* bound: the lease times replies name; 0: none named
    T1Named,        \* TRUE if replies that name a lease time name T1 and T2 too
    MaxGap,         \* bound: ticks from one call of checkLease() to the next
    MaxRequest      \* bound: ticks a failing request takes

ASSUME LeaseAssumption ==
    /\ Second \in Nat \ {0} /\ DEFAULT_LEASE \in Nat \ {0}
    /\ Terms \subseteq Nat /\ T1Named \in BOOLEAN
    /\ MaxGap \in Nat \ {0} /\ MaxRequest \in Nat

VARIABLES
    pc,             \* "none" before beginWithDHCP(), "sketch", or "rebind" inside checkLease()
    _dhcp_state,    \* "LEASED", "START", or "other": where a failing request stopped
    _dhcpLeaseTime, _dhcpT1, _dhcpT2,
    _renewInSec, _rebindInSec,
    checked,        \* millis() - _lastCheckLeaseMillis
    called,         \* ticks since the last call of checkLease()
    age,            \* history: ticks since the lease was granted, -1: given up
    term            \* history: the time it was granted for, in seconds

optionVars == <<_dhcpLeaseTime, _dhcpT1, _dhcpT2>>
countVars == <<_renewInSec, _rebindInSec>>
leaseVars == <<pc, _dhcp_state, optionVars, countVars, checked, called, age, term>>

LeaseInit ==
    /\ pc = "none" /\ _dhcp_state = "START"
    /\ _dhcpLeaseTime = 0 /\ _dhcpT1 = 0 /\ _dhcpT2 = 0
    /\ _renewInSec = 0 /\ _rebindInSec = 0
    /\ checked = 0 /\ called = 0 /\ age = -1 /\ term = 0

------------------------------------------------------------------------------
\* Forms an error could give the helpers below; no action uses them.
DropRemainder(ticks) == 0

------------------------------------------------------------------------------
T1Of(t) == t \div 2
T2Of(t) == t - t \div 8

\* An option that a reply does not name keeps its value.
Option(named, value) == IF named = 0 THEN value ELSE named

T1Option(t) == IF T1Named THEN T1Of(t) ELSE 0
T2Option(t) == IF T1Named THEN T2Of(t) ELSE 0

\* The ACK: lease time, T1 and T2 get a value only if no reply named one so far.
Granted(leaseTime, t1, t2, t) ==
    LET lease == Option(Option(t, leaseTime), DEFAULT_LEASE)
        T1 == Option(T1Option(t), t1)
        T2 == Option(T2Option(t), t2)
    IN  /\ _dhcp_state' = "LEASED"
        /\ _dhcpLeaseTime' = lease
        /\ _dhcpT1' = IF T1 = 0 THEN T1Of(lease) ELSE T1
        /\ _dhcpT2' = IF T2 = 0 THEN T2Of(lease) ELSE T2
        /\ _renewInSec' = _dhcpT1' /\ _rebindInSec' = _dhcpT2'
        /\ age' = 0 /\ term' = lease

\* A request that fails; a reply seen on the way leaves its options.  _renewInSec
\* counts only while there is a lease: it is reset here.
Failed(leaseTime, t1, t2, rebind) ==
    \E t \in Terms \cup {0} :
        /\ _dhcp_state' \in {"START", "other"}
        /\ _dhcpLeaseTime' = Option(t, leaseTime)
        /\ _dhcpT1' = Option(T1Option(t), t1)
        /\ _dhcpT2' = Option(T2Option(t), t2)
        /\ _renewInSec' = 0 /\ _rebindInSec' = rebind

Forgotten == age' = -1 /\ term' = 0

\* It has taken time, and the lease still runs if it is going to be rebound.
StillRuns ==
    /\ _dhcp_state' = "START" /\ _rebindInSec' > 0
    /\ \E d \in 0 .. MaxRequest : age' = age + d
    /\ UNCHANGED term

\* beginWithDHCP(): the options of an earlier lease are forgotten.
beginWithDHCP ==
    /\ pc \in {"none", "sketch"} /\ pc' = "sketch"
    /\ \/ \E t \in Terms : Granted(0, 0, 0, t)
       \/ Failed(0, 0, 0, _rebindInSec) /\ Forgotten
    /\ checked' = 0 /\ called' = 0

\* The part of a second that a check leaves to the next one.
Remainder(ticks) == ticks % Second

\* A counter after that many seconds: early rather than late.
CountDown(count, elapsed) == IF count < elapsed * 2 THEN 0 ELSE count - elapsed

After(count) == IF checked < Second THEN count ELSE CountDown(count, checked \div Second)

\* checkLease() up to the first request: the countdown, nothing more to do for now ...
CountOnly ==
    /\ pc = "sketch" /\ ~(_dhcp_state = "LEASED" /\ After(_renewInSec) = 0)
    /\ pc' = "rebind" /\ called' = 0
    /\ checked' = IF checked < Second THEN checked ELSE Remainder(checked)
    /\ _rebindInSec' = After(_rebindInSec)
    /\ _renewInSec' = IF _dhcp_state = "LEASED" THEN After(_renewInSec) ELSE 0
    /\ UNCHANGED <<_dhcp_state, optionVars, age, term>>

\* ... or the lease is to be renewed.
Renew ==
    /\ pc = "sketch" /\ _dhcp_state = "LEASED" /\ After(_renewInSec) = 0
    /\ pc' = "rebind" /\ called' = 0 /\ checked' = 0
    /\ \/ \E t \in Terms : Granted(_dhcpLeaseTime, _dhcpT1, _dhcpT2, t)
       \/ /\ Failed(_dhcpLeaseTime, _dhcpT1, _dhcpT2, After(_rebindInSec))
          /\ StillRuns \/ ((_dhcp_state' = "other" \/ _rebindInSec' = 0) /\ Forgotten)

RebindDue == _rebindInSec = 0 /\ _dhcp_state \in {"LEASED", "START"}

\* The second half of checkLease().
Rebind ==
    /\ pc = "rebind" /\ pc' = "sketch" /\ RebindDue
    /\ \/ \E t \in Terms : Granted(_dhcpLeaseTime, _dhcpT1, _dhcpT2, t)
       \/ Failed(_dhcpLeaseTime, _dhcpT1, _dhcpT2, 0) /\ Forgotten
    /\ checked' = 0 /\ UNCHANGED called

NoRebind ==
    /\ pc = "rebind" /\ pc' = "sketch" /\ ~RebindDue
    /\ UNCHANGED <<_dhcp_state, optionVars, countVars, checked, called, age, term>>

\* Time passes between two calls.
Pass ==
    /\ pc = "sketch" /\ called < MaxGap
    /\ checked' = checked + 1 /\ called' = called + 1
    /\ age' = IF age = -1 THEN -1 ELSE age + 1
    /\ UNCHANGED <<pc, _dhcp_state, optionVars, countVars, term>>

LeaseNext == beginWithDHCP \/ CountOnly \/ Renew \/ Rebind \/ NoRebind \/ Pass

LeaseSpec == LeaseInit /\ [][LeaseNext]_leaseVars

------------------------------------------------------------------------------
\* Type: every variable stays in its range (checkLease() never underflows a counter).
LeaseTypeOK ==
    /\ pc \in {"none", "sketch", "rebind"}
    /\ _dhcp_state \in {"LEASED", "START", "other"}
    /\ _dhcpLeaseTime \in Nat /\ _dhcpT1 \in Nat /\ _dhcpT2 \in Nat
    /\ _renewInSec \in Nat /\ _rebindInSec \in Nat
    /\ checked \in Nat /\ called \in 0 .. MaxGap
    /\ age \in Nat \cup {-1} /\ term \in Nat

Leased == pc = "sketch" /\ _dhcp_state = "LEASED"

\* However irregularly checkLease() is called, no part of a second is lost: both
\* counters and the age of the last check add up to the age of the lease.
NoDrift ==
    Leased => /\ age = (_dhcpT1 - _renewInSec) * Second + checked
              /\ age = (_dhcpT2 - _rebindInSec) * Second + checked

\* A lease is renewed by its T1, late by less than the time between two calls of
\* checkLease().
RenewInTime == Leased => age < _dhcpT1 * Second + MaxGap \/ _dhcpT1 = 0

\* After a failed renewal the client rebinds by the T2 of its lease, late by no more
\* than that request took, a second and the time between two calls.
RebindInTime ==
    pc = "sketch" /\ _dhcp_state = "START" /\ age # -1 =>
        /\ _rebindInSec > 0
        /\ age < (term - term \div 8) * Second + MaxRequest + Second + MaxGap
==============================================================================
