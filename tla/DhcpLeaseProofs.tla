--------------------------- MODULE DhcpLeaseProofs ---------------------------
(***************************************************************************)
(* The countdown of a DHCP lease is exact and renewal in time, for every   *)
(* length of a second, every lease time and every rhythm of maintain(),    *)
(* and so is rebinding if replies name T1 and T2 with a lease time.        *)
(***************************************************************************)
EXTENDS DhcpLease, TLAPS

\* How the counters of a lease add up, also inside checkLease(): there a rebinding
\* counter of zero, set early, has not been looked at yet.
AddsUp ==
    /\ checked < Second + called
    /\ _dhcp_state = "LEASED" =>
          /\ pc # "none"
          /\ age = (_dhcpT1 - _renewInSec) * Second + checked
          /\ _renewInSec > 0 \/ _dhcpT1 = 0
          /\ _renewInSec <= _dhcpT1
          /\ pc = "sketch" \/ _rebindInSec # 0 =>
                age = (_dhcpT2 - _rebindInSec) * Second + checked

LeaseInv == LeaseTypeOK /\ AddsUp

\* T1 and T2 of a lease time are numbers of seconds.
LEMMA TimersAreNat ==
    ASSUME NEW t \in Nat
    PROVE  T1Of(t) \in Nat /\ T2Of(t) \in Nat
  BY DEF T1Of, T2Of

LEMMA NothingCounted ==
    ASSUME NEW total \in Nat, NEW s \in Nat
    PROVE  0 = (total - total) * s + 0
  <1>1. total - total = 0  OBVIOUS
  <1>. QED  BY <1>1

\* The countdown of checkLease() subtracts whole seconds and keeps the rest.
LEMMA CountIsExact ==
    ASSUME NEW total \in Nat, NEW count \in Nat, NEW e \in Nat, NEW c \in Nat,
           NEW s \in Nat
    PROVE  (total - (count - e)) * s + (c - s * e) = (total - count) * s + c
  OBVIOUS

LEMMA Division ==
    ASSUME NEW a \in Nat, NEW s \in Nat \ {0}
    PROVE  /\ a \div s \in Nat /\ a % s \in 0 .. s - 1
           /\ a % s = a - s * (a \div s)
  <1>1. a \div s \in Nat  OBVIOUS
  <1>2. a % s \in 0 .. s - 1  OBVIOUS
  <1>3. a % s = a - s * (a \div s)  OBVIOUS
  <1>. QED  BY <1>1, <1>2, <1>3

LEMMA AfterStep ==
    ASSUME LeaseTypeOK, NEW count \in Nat
    PROVE  /\ After(count) \in Nat
           /\ checked < Second => After(count) = count
           /\ checked >= Second /\ After(count) # 0 =>
                 After(count) = count - checked \div Second
  <1>1. Second \in Nat \ {0} /\ checked \in Nat  BY LeaseAssumption DEF LeaseAssumption, LeaseTypeOK
  <1>2. checked \div Second \in Nat  BY <1>1
  <1>. QED  BY <1>1, <1>2 DEF After, CountDown

\* An ACK starts the countdown.
LEMMA GrantedStep ==
    ASSUME NEW l \in Nat, NEW t1 \in Nat, NEW t2 \in Nat, NEW t \in Terms,
           Granted(l, t1, t2, t), checked' = 0
    PROVE  /\ _dhcpLeaseTime' \in Nat /\ _dhcpT1' \in Nat /\ _dhcpT2' \in Nat
           /\ _renewInSec' = _dhcpT1' /\ _rebindInSec' = _dhcpT2'
           /\ _dhcp_state' = "LEASED" /\ age' = 0 /\ term' \in Nat
           /\ age' = (_dhcpT1' - _renewInSec') * Second + checked'
           /\ age' = (_dhcpT2' - _rebindInSec') * Second + checked'
  <1>1. t \in Nat /\ DEFAULT_LEASE \in Nat /\ Second \in Nat
        BY LeaseAssumption DEF LeaseAssumption
  <1>2. Option(Option(t, l), DEFAULT_LEASE) \in Nat  BY <1>1 DEF Option
  <1>3. /\ _dhcpLeaseTime' \in Nat /\ term' \in Nat
        BY <1>2 DEF Granted
  <1>4. T1Option(t) \in Nat /\ T2Option(t) \in Nat
        BY <1>1, TimersAreNat DEF T1Option, T2Option
  <1>5. Option(T1Option(t), t1) \in Nat /\ Option(T2Option(t), t2) \in Nat
        BY <1>4 DEF Option
  <1>6. _dhcpT1' \in Nat /\ _dhcpT2' \in Nat
        BY <1>2, <1>5, TimersAreNat DEF Granted
  <1>7. /\ _renewInSec' = _dhcpT1' /\ _rebindInSec' = _dhcpT2'
        /\ _dhcp_state' = "LEASED" /\ age' = 0
        BY DEF Granted
  <1>8. /\ 0 = (_dhcpT1' - _dhcpT1') * Second + 0
        /\ 0 = (_dhcpT2' - _dhcpT2') * Second + 0
        BY <1>1, <1>6, NothingCounted
  <1>. QED  BY <1>3, <1>6, <1>7, <1>8

\* A request that fails leaves options and counters in their range, and no lease.
LEMMA FailedStep ==
    ASSUME NEW l \in Nat, NEW t1 \in Nat, NEW t2 \in Nat, NEW r \in Nat, Failed(l, t1, t2, r)
    PROVE  /\ _dhcpLeaseTime' \in Nat /\ _dhcpT1' \in Nat /\ _dhcpT2' \in Nat
           /\ _renewInSec' \in Nat /\ _rebindInSec' \in Nat
           /\ _dhcp_state' \in {"START", "other"}
  <1>1. PICK t \in Terms \cup {0} :
           /\ _dhcp_state' \in {"START", "other"}
           /\ _dhcpLeaseTime' = Option(t, l)
           /\ _dhcpT1' = Option(T1Option(t), t1)
           /\ _dhcpT2' = Option(T2Option(t), t2)
           /\ _renewInSec' = 0 /\ _rebindInSec' = r
        BY DEF Failed
  <1>2. t \in Nat  BY LeaseAssumption DEF LeaseAssumption
  <1>3. T1Option(t) \in Nat /\ T2Option(t) \in Nat
        BY <1>2, TimersAreNat DEF T1Option, T2Option
  <1>4. _dhcpLeaseTime' \in Nat /\ _dhcpT1' \in Nat /\ _dhcpT2' \in Nat
        BY <1>1, <1>2, <1>3 DEF Option
  <1>. QED  BY <1>1, <1>4

\* The same for every way checkLease() and beginWithDHCP() get there.
LEMMA FailedKeepsInv ==
    ASSUME LeaseTypeOK, NEW l \in Nat, NEW t1 \in Nat, NEW t2 \in Nat, NEW r \in Nat,
           Failed(l, t1, t2, r), StillRuns \/ Forgotten, checked' = 0,
           called' \in 0 .. MaxGap, pc' \in {"sketch", "rebind"}
    PROVE  LeaseInv'
  <1>1. age' \in Nat \cup {-1} /\ term' \in Nat
        BY LeaseAssumption DEF LeaseTypeOK, StillRuns, Forgotten, LeaseAssumption
  <1>2. /\ _dhcpLeaseTime' \in Nat /\ _dhcpT1' \in Nat /\ _dhcpT2' \in Nat
        /\ _renewInSec' \in Nat /\ _rebindInSec' \in Nat
        /\ _dhcp_state' \in {"START", "other"}
        BY FailedStep
  <1>3. LeaseTypeOK'  BY <1>1, <1>2, LeaseAssumption DEF LeaseTypeOK, LeaseAssumption
  <1>4. called' \in Nat /\ Second \in Nat \ {0}  BY LeaseAssumption DEF LeaseAssumption
  <1>5. _dhcp_state' # "LEASED"  BY <1>2
  <1>6. checked' < Second + called'
    <2>. DEFINE c == checked'  k == called'
    <2>1. c = 0 /\ k \in Nat  BY <1>4
    <2>. HIDE DEF c, k
    <2>2. c < Second + k  BY <1>4, <2>1
    <2>. QED  BY <2>2 DEF c, k
  <1>7. AddsUp'  BY <1>5, <1>6 DEF AddsUp
  <1>. QED  BY <1>3, <1>7 DEF LeaseInv

LEMMA LeaseInvInit == LeaseInit => LeaseInv
  BY LeaseAssumption DEF LeaseInit, LeaseInv, LeaseTypeOK, AddsUp, LeaseAssumption

LEMMA LeaseInvStep == LeaseInv /\ [LeaseNext]_leaseVars => LeaseInv'
  <1>. SUFFICES ASSUME LeaseInv, [LeaseNext]_leaseVars PROVE LeaseInv'
       OBVIOUS
  <1>. USE LeaseAssumption DEF LeaseAssumption
  <1>1. CASE beginWithDHCP
    <2>1. CASE \E t \in Terms : Granted(0, 0, 0, t)
      <3>. PICK t \in Terms : Granted(0, 0, 0, t)  BY <2>1
      <3>1. checked' = 0 /\ called' = 0 /\ pc' = "sketch"  BY <1>1 DEF beginWithDHCP
      <3>. QED  BY <3>1, GrantedStep DEF LeaseInv, LeaseTypeOK, AddsUp
    <2>2. CASE Failed(0, 0, 0, _rebindInSec) /\ Forgotten
      <3>1. checked' = 0 /\ called' = 0 /\ pc' = "sketch"  BY <1>1 DEF beginWithDHCP
      <3>. QED  BY <2>2, <3>1, FailedKeepsInv DEF LeaseInv, LeaseTypeOK
    <2>. QED  BY <1>1, <2>1, <2>2 DEF beginWithDHCP
  <1>2. CASE CountOnly
    <2>1. /\ Second \in Nat \ {0} /\ checked \in Nat /\ _renewInSec \in Nat /\ _rebindInSec \in Nat
          /\ checked \div Second \in Nat /\ checked % Second \in 0 .. Second - 1
          /\ checked % Second = checked - Second * (checked \div Second)
      <3>1. /\ Second \in Nat \ {0} /\ checked \in Nat /\ _renewInSec \in Nat
            /\ _rebindInSec \in Nat
            BY DEF LeaseInv, LeaseTypeOK
      <3>. QED  BY <3>1, Division
    <2>2. /\ After(_renewInSec) \in Nat /\ After(_rebindInSec) \in Nat
          BY <2>1, AfterStep DEF LeaseInv
    <2>3. LeaseTypeOK'
      <3>1. /\ checked' \in Nat /\ called' = 0 /\ pc' = "rebind"
            /\ _renewInSec' \in Nat /\ _rebindInSec' \in Nat
            BY <1>2, <2>1, <2>2 DEF CountOnly, Remainder
      <3>. QED  BY <1>2, <3>1 DEF CountOnly, LeaseInv, LeaseTypeOK, optionVars
    <2>4. (checked < Second + called)'
          BY <1>2, <2>1 DEF CountOnly, Remainder
    <2>5. ASSUME _dhcp_state = "LEASED", checked < Second
          PROVE  AddsUp'
      <3>1. After(_renewInSec) = _renewInSec /\ After(_rebindInSec) = _rebindInSec
            BY <2>1, <2>5, AfterStep DEF LeaseInv
      <3>. QED  BY <1>2, <2>4, <2>5, <3>1 DEF CountOnly, LeaseInv, AddsUp, optionVars
    <2>6. ASSUME _dhcp_state = "LEASED", ~(checked < Second)
          PROVE  AddsUp'
      <3>. DEFINE e == checked \div Second
      <3>1. /\ _renewInSec' = _renewInSec - e
            /\ _rebindInSec' # 0 => _rebindInSec' = _rebindInSec - e
            /\ checked' = checked - Second * e /\ _renewInSec' # 0
            BY <1>2, <2>1, <2>6, AfterStep DEF CountOnly, LeaseInv, Remainder
      <3>2. /\ _dhcpT1 \in Nat /\ _dhcpT2 \in Nat
            /\ age = (_dhcpT1 - _renewInSec) * Second + checked
            /\ pc = "sketch" => age = (_dhcpT2 - _rebindInSec) * Second + checked
            BY <2>6 DEF LeaseInv, LeaseTypeOK, AddsUp
      <3>3. age = (_dhcpT1 - _renewInSec') * Second + checked'
            BY <2>1, <3>1, <3>2, CountIsExact
      <3>4. _rebindInSec' # 0 => age = (_dhcpT2 - _rebindInSec') * Second + checked'
        <4>1. pc = "sketch"  BY <1>2 DEF CountOnly
        <4>2. ASSUME _rebindInSec' # 0
              PROVE  age = (_dhcpT2 - _rebindInSec') * Second + checked'
              BY <2>1, <3>1, <3>2, <4>1, <4>2, CountIsExact
        <4>. QED  BY <4>2
      <3>5. _renewInSec' > 0 /\ _renewInSec' <= _dhcpT1
        <4>1. _renewInSec <= _dhcpT1  BY <2>1, <2>6, <3>1, <3>2 DEF LeaseInv, AddsUp
        <4>. QED  BY <2>1, <2>3, <3>1, <3>2, <4>1 DEF LeaseTypeOK
      <3>. QED  BY <1>2, <2>4, <3>3, <3>4, <3>5 DEF CountOnly, AddsUp, optionVars
    <2>7. CASE _dhcp_state # "LEASED"
          BY <1>2, <2>3, <2>4, <2>7 DEF CountOnly, LeaseInv, AddsUp
    <2>. QED  BY <2>3, <2>5, <2>6, <2>7 DEF LeaseInv
  <1>3. CASE Renew
    <2>1. checked' = 0 /\ called' = 0 /\ pc' = "rebind"  BY <1>3 DEF Renew
    <2>2. CASE \E t \in Terms : Granted(_dhcpLeaseTime, _dhcpT1, _dhcpT2, t)
      <3>. PICK t \in Terms : Granted(_dhcpLeaseTime, _dhcpT1, _dhcpT2, t)  BY <2>2
      <3>. QED  BY <2>1, GrantedStep DEF LeaseInv, LeaseTypeOK, AddsUp
    <2>3. CASE /\ Failed(_dhcpLeaseTime, _dhcpT1, _dhcpT2, After(_rebindInSec))
               /\ StillRuns \/ Forgotten
      <3>1. After(_rebindInSec) \in Nat  BY AfterStep DEF LeaseInv, LeaseTypeOK
      <3>. QED  BY <2>1, <2>3, <3>1, FailedKeepsInv DEF LeaseInv, LeaseTypeOK
    <2>. QED  BY <1>3, <2>2, <2>3 DEF Renew
  <1>4. CASE Rebind
    <2>1. checked' = 0 /\ called' = called /\ pc' = "sketch"  BY <1>4 DEF Rebind
    <2>2. CASE \E t \in Terms : Granted(_dhcpLeaseTime, _dhcpT1, _dhcpT2, t)
      <3>. PICK t \in Terms : Granted(_dhcpLeaseTime, _dhcpT1, _dhcpT2, t)  BY <2>2
      <3>. QED  BY <2>1, GrantedStep DEF LeaseInv, LeaseTypeOK, AddsUp
    <2>3. CASE Failed(_dhcpLeaseTime, _dhcpT1, _dhcpT2, 0) /\ Forgotten
          BY <2>1, <2>3, FailedKeepsInv DEF LeaseInv, LeaseTypeOK
    <2>. QED  BY <1>4, <2>2, <2>3 DEF Rebind
  <1>5. CASE NoRebind
        BY <1>5 DEF NoRebind, RebindDue, LeaseInv, LeaseTypeOK, AddsUp, optionVars, countVars
  <1>6. CASE Pass
    <2>1. LeaseTypeOK'
          BY <1>6 DEF Pass, LeaseInv, LeaseTypeOK, optionVars, countVars
    <2>2. AddsUp'
      <3>1. /\ checked \in Nat /\ called \in Nat /\ Second \in Nat /\ _dhcpT1 \in Nat
            /\ _dhcpT2 \in Nat /\ _renewInSec \in Nat /\ _rebindInSec \in Nat
            BY DEF LeaseInv, LeaseTypeOK
      <3>2. (checked < Second + called)'  BY <1>6, <3>1 DEF Pass, LeaseInv, AddsUp
      <3>3. ASSUME _dhcp_state = "LEASED" PROVE age # -1
        <4>. DEFINE n == _dhcpT1 - _renewInSec
        <4>1. _dhcpT1 >= _renewInSec
              BY <3>1, <3>3 DEF LeaseInv, LeaseTypeOK, AddsUp
        <4>. QED  BY <3>1, <3>3, <4>1 DEF LeaseInv, LeaseTypeOK, AddsUp
      <3>. QED  BY <1>6, <3>1, <3>2, <3>3 DEF Pass, LeaseInv, AddsUp, optionVars, countVars
    <2>. QED  BY <2>1, <2>2 DEF LeaseInv
  <1>7. CASE UNCHANGED leaseVars
        BY <1>7 DEF leaseVars, optionVars, countVars, LeaseInv, LeaseTypeOK, AddsUp
  <1>. QED  BY <1>1, <1>2, <1>3, <1>4, <1>5, <1>6, <1>7 DEF LeaseNext

\* The variables stay in their ranges, and the counters never underflow.
THEOREM LeaseTypeCorrect == LeaseSpec => []LeaseTypeOK
  <1>1. LeaseInv => LeaseTypeOK  BY DEF LeaseInv
  <1>. QED  BY <1>1, LeaseInvInit, LeaseInvStep, PTL DEF LeaseSpec

\* No part of a second is lost to the countdown, however checkLease() is called.
THEOREM CountersExact == LeaseSpec => []NoDrift
  <1>1. LeaseInv => NoDrift  BY DEF LeaseInv, AddsUp, NoDrift, Leased
  <1>. QED  BY <1>1, LeaseInvInit, LeaseInvStep, PTL DEF LeaseSpec

LEMMA LateByAGap ==
    ASSUME NEW total \in Nat, NEW count \in Nat, count > 0, count <= total,
           NEW s \in Nat, NEW c \in Nat, NEW k \in Nat, c < s + k
    PROVE  (total - count) * s + c < total * s + k
  <1>1. (total - count) * s = total * s - count * s  OBVIOUS
  <1>2. count * s >= s
    <2>1. (count - 1) * s >= 0  OBVIOUS
    <2>. QED  BY <2>1
  <1>3. total * s \in Nat /\ count * s \in Nat  OBVIOUS
  <1>. QED  BY <1>1, <1>2, <1>3

\* A lease is renewed at most the time between two calls of checkLease() after T1.
THEOREM RenewedInTime == LeaseSpec => []RenewInTime
  <1>1. ASSUME LeaseInv PROVE RenewInTime
    <2>. SUFFICES ASSUME Leased, _dhcpT1 # 0 PROVE age < _dhcpT1 * Second + MaxGap
         BY DEF RenewInTime
    <2>1. /\ _dhcpT1 \in Nat /\ _renewInSec \in Nat /\ Second \in Nat /\ checked \in Nat
          /\ called \in Nat /\ called <= MaxGap /\ MaxGap \in Nat
          BY <1>1, LeaseAssumption DEF LeaseInv, LeaseTypeOK, LeaseAssumption
    <2>2. /\ age = (_dhcpT1 - _renewInSec) * Second + checked
          /\ _renewInSec > 0 /\ _renewInSec <= _dhcpT1 /\ checked < Second + called
          BY <1>1, <2>1 DEF LeaseInv, AddsUp, Leased
    <2>3. checked < Second + MaxGap  BY <2>1, <2>2
    <2>. QED  BY <2>1, <2>2, <2>3, LateByAGap
  <1>. QED  BY <1>1, LeaseInvInit, LeaseInvStep, PTL DEF LeaseSpec

------------------------------------------------------------------------------
(***************************************************************************)
(* Rebinding.  T2 is that of the lease time as long as replies name both   *)
(* or neither (Terminated); and a lease that could not be renewed is as    *)
(* old as the counter says, but for the rest of a second that the renewal  *)
(* dropped and the time that it took (Overdue).                            *)
(***************************************************************************)
Terminated ==
    /\ _dhcpT2 = T2Of(_dhcpLeaseTime)
    /\ _dhcp_state = "LEASED" => term = _dhcpLeaseTime

Overdue ==
    _dhcp_state = "START" /\ age # -1 =>
        /\ pc \in {"sketch", "rebind"} /\ (pc = "sketch" => _rebindInSec > 0)
        /\ _rebindInSec > 0 =>
              age < (T2Of(term) - _rebindInSec) * Second + checked + Second + MaxRequest

\* The counter has not run out, so the time it stands for has not.
LEMMA CounterRuns ==
    ASSUME NEW count \in Nat, count > 0, NEW total \in Nat, NEW s \in Nat
    PROVE  (total - count) * s <= total * s - s
  <1>1. (total - count) * s = total * s - count * s  OBVIOUS
  <1>2. (count - 1) * s >= 0  OBVIOUS
  <1>3. count * s >= s  BY <1>2
  <1>4. total * s \in Nat /\ count * s \in Nat  OBVIOUS
  <1>. QED  BY <1>1, <1>3, <1>4

\* T2 of a lease time of at least a second is not zero.
LEMMA T2Is ==
    ASSUME NEW t \in Nat
    PROVE  T2Of(t) \in Nat /\ (T2Of(t) = 0 <=> t = 0)
  BY DEF T2Of

LEMMA OptionsTerminate ==
    ASSUME T1Named, NEW l \in Nat, NEW t \in Nat
    PROVE  Option(T2Option(t), T2Of(l)) = T2Of(Option(t, l))
  BY T2Is DEF Option, T2Option

LEMMA GrantTerminates ==
    ASSUME T1Named, NEW l \in Nat, NEW t1, NEW t \in Terms, Granted(l, t1, T2Of(l), t)
    PROVE  Terminated' /\ Overdue'
  <1>. DEFINE lease == Option(Option(t, l), DEFAULT_LEASE)
  <1>1. t \in Nat /\ DEFAULT_LEASE \in Nat \ {0}  BY LeaseAssumption DEF LeaseAssumption
  <1>2. Option(T2Option(t), T2Of(l)) = T2Of(Option(t, l))  BY <1>1, OptionsTerminate
  <1>3. Option(t, l) \in Nat  BY <1>1 DEF Option
  <1>4. /\ _dhcp_state' = "LEASED" /\ _dhcpLeaseTime' = lease /\ term' = lease
        /\ _dhcpT2' = IF T2Of(Option(t, l)) = 0 THEN T2Of(lease) ELSE T2Of(Option(t, l))
        BY <1>2 DEF Granted
  <1>5. CASE Option(t, l) = 0
        BY <1>1, <1>4, <1>5, T2Is DEF Terminated, Overdue
  <1>6. CASE Option(t, l) # 0
    <2>1. lease = Option(t, l)  BY <1>6 DEF Option
    <2>2. T2Of(Option(t, l)) # 0  BY <1>3, <1>6, T2Is
    <2>. QED  BY <1>4, <2>1, <2>2 DEF Terminated, Overdue
  <1>. QED  BY <1>5, <1>6

LEMMA FailureTerminates ==
    ASSUME T1Named, NEW l \in Nat, NEW t1, NEW r, Failed(l, t1, T2Of(l), r)
    PROVE  Terminated'
  <1>1. PICK t \in Terms \cup {0} :
           /\ _dhcp_state' \in {"START", "other"}
           /\ _dhcpLeaseTime' = Option(t, l)
           /\ _dhcpT2' = Option(T2Option(t), T2Of(l))
        BY DEF Failed
  <1>2. t \in Nat  BY LeaseAssumption DEF LeaseAssumption
  <1>. QED  BY <1>1, <1>2, OptionsTerminate DEF Terminated

RebindInv == LeaseInv /\ Terminated /\ Overdue

LEMMA RebindInvInit == LeaseInit => RebindInv
  <1>1. T2Of(0) = 0  BY T2Is
  <1>. QED  BY <1>1, LeaseInvInit DEF LeaseInit, RebindInv, Terminated, Overdue

LEMMA RebindInvStep ==
    ASSUME T1Named, RebindInv, [LeaseNext]_leaseVars
    PROVE  RebindInv'
  <1>. USE LeaseAssumption DEF LeaseAssumption
  <1>1. LeaseInv'  BY LeaseInvStep DEF RebindInv
  <1>2. /\ _dhcpLeaseTime \in Nat /\ _dhcpT2 = T2Of(_dhcpLeaseTime) /\ T2Of(0) = 0
        BY T2Is DEF RebindInv, LeaseInv, LeaseTypeOK, Terminated
  <1>3. /\ Second \in Nat \ {0} /\ checked \in Nat /\ _rebindInSec \in Nat /\ term \in Nat
        /\ age \in Nat \cup {-1} /\ MaxGap \in Nat /\ MaxRequest \in Nat
        BY DEF RebindInv, LeaseInv, LeaseTypeOK
  <1>4. CASE beginWithDHCP
    <2>1. ASSUME \E t \in Terms : Granted(0, 0, 0, t)
          PROVE  Terminated' /\ Overdue'
          BY <1>2, <2>1, GrantTerminates
    <2>2. ASSUME Failed(0, 0, 0, _rebindInSec), Forgotten
          PROVE  Terminated' /\ Overdue'
      <3>1. Terminated'  BY <1>2, <2>2, FailureTerminates
      <3>. QED  BY <2>2, <3>1 DEF Forgotten, Overdue
    <2>3. Terminated' /\ Overdue'  BY <1>4, <2>1, <2>2 DEF beginWithDHCP
    <2>. QED  BY <1>1, <2>3 DEF RebindInv
  <1>5. CASE Renew
    <2>1. ASSUME \E t \in Terms : Granted(_dhcpLeaseTime, _dhcpT1, _dhcpT2, t)
          PROVE  Terminated' /\ Overdue'
          BY <1>2, <2>1, GrantTerminates
    <2>2. ASSUME Failed(_dhcpLeaseTime, _dhcpT1, _dhcpT2, After(_rebindInSec)), StillRuns
          PROVE  Terminated' /\ Overdue'
      <3>1. Terminated'  BY <1>2, <2>2, FailureTerminates
      <3>. DEFINE r == After(_rebindInSec)
                  e == checked \div Second
                  T == T2Of(term)
      <3>2. /\ pc' = "rebind" /\ checked' = 0 /\ term' = term /\ _rebindInSec' = r /\ r > 0
            /\ pc = "sketch" /\ _dhcp_state = "LEASED" /\ T = _dhcpT2
            BY <1>5, <2>2 DEF Renew, StillRuns, Failed, RebindInv, Terminated
      <3>3. PICK d \in 0 .. MaxRequest : age' = age + d
            BY <2>2 DEF StillRuns
      <3>4. /\ age = (T - _rebindInSec) * Second + checked
            BY <3>2 DEF RebindInv, LeaseInv, LeaseTypeOK, AddsUp
      <3>5. T \in Nat /\ r \in Nat /\ e \in Nat /\ checked % Second \in 0 .. Second - 1
            /\ checked % Second = checked - Second * e
            BY <1>3, T2Is, Division, AfterStep DEF RebindInv, LeaseInv
      <3>6. \E c \in Nat : c < Second /\ age = (T - r) * Second + c
        <4>1. CASE checked < Second
          <5>1. r = _rebindInSec  BY <1>3, <4>1, AfterStep DEF RebindInv, LeaseInv
          <5>. QED  BY <1>3, <3>4, <4>1, <5>1
        <4>2. CASE ~(checked < Second)
          <5>1. r = _rebindInSec - e  BY <1>3, <3>2, <4>2, AfterStep DEF RebindInv, LeaseInv
          <5>. HIDE DEF r, e, T
          <5>2. age = (T - r) * Second + (checked - Second * e)
                BY <1>3, <3>4, <3>5, <5>1, CountIsExact
          <5>3. (checked % Second) \in Nat /\ checked % Second < Second
                BY <1>3, <3>5
          <5>. QED  BY <3>5, <5>2, <5>3
        <4>. QED  BY <4>1, <4>2
      <3>7. PICK c \in Nat : c < Second /\ age = (T - r) * Second + c
            BY <3>6
      <3>8. age' < (T2Of(term') - _rebindInSec') * Second + checked' + Second + MaxRequest
        <4>. HIDE DEF r, T
        <4>1. (T - r) * Second \in Int  BY <1>3, <3>5
        <4>2. age + d < (T - r) * Second + 0 + Second + MaxRequest
              BY <1>3, <3>3, <3>7, <4>1
        <4>. QED  BY <3>2, <3>3, <4>2 DEF T
      <3>. QED  BY <3>1, <3>2, <3>8 DEF Overdue
    <2>3. ASSUME Failed(_dhcpLeaseTime, _dhcpT1, _dhcpT2, After(_rebindInSec)), Forgotten
          PROVE  Terminated' /\ Overdue'
      <3>1. Terminated'  BY <1>2, <2>3, FailureTerminates
      <3>. QED  BY <2>3, <3>1 DEF Forgotten, Overdue
    <2>4. Terminated' /\ Overdue'  BY <1>5, <2>1, <2>2, <2>3 DEF Renew
    <2>. QED  BY <1>1, <2>4 DEF RebindInv
  <1>6. CASE Rebind
    <2>1. ASSUME \E t \in Terms : Granted(_dhcpLeaseTime, _dhcpT1, _dhcpT2, t)
          PROVE  Terminated' /\ Overdue'
          BY <1>2, <2>1, GrantTerminates
    <2>2. ASSUME Failed(_dhcpLeaseTime, _dhcpT1, _dhcpT2, 0), Forgotten
          PROVE  Terminated' /\ Overdue'
      <3>1. Terminated'  BY <1>2, <2>2, FailureTerminates
      <3>. QED  BY <2>2, <3>1 DEF Forgotten, Overdue
    <2>3. Terminated' /\ Overdue'  BY <1>6, <2>1, <2>2 DEF Rebind
    <2>. QED  BY <1>1, <2>3 DEF RebindInv
  <1>7. CASE CountOnly
    <2>1. Terminated'  BY <1>7 DEF CountOnly, optionVars, RebindInv, Terminated
    <2>2. ASSUME _dhcp_state = "START", age # -1, _rebindInSec' > 0
          PROVE  age < (T2Of(term) - _rebindInSec') * Second + checked' + Second + MaxRequest
      <3>. DEFINE r == After(_rebindInSec)
                  e == checked \div Second
                  T == T2Of(term)
      <3>1. /\ _rebindInSec' = r /\ pc = "sketch"
            /\ checked' = IF checked < Second THEN checked ELSE checked % Second
            BY <1>7 DEF CountOnly, Remainder
      <3>2. T \in Nat /\ r \in Nat /\ e \in Nat /\ checked % Second \in 0 .. Second - 1
            /\ checked % Second = checked - Second * e
            BY <1>3, T2Is, Division, AfterStep DEF RebindInv, LeaseInv
      <3>3. /\ _rebindInSec > 0
            /\ age < (T - _rebindInSec) * Second + checked + Second + MaxRequest
            BY <2>2, <3>1 DEF RebindInv, Overdue
      <3>4. CASE checked < Second
        <4>1. r = _rebindInSec  BY <1>3, <3>4, AfterStep DEF RebindInv, LeaseInv
        <4>. QED  BY <3>1, <3>3, <3>4, <4>1
      <3>5. CASE ~(checked < Second)
        <4>1. r = _rebindInSec - e  BY <1>3, <2>2, <3>1, <3>5, AfterStep DEF RebindInv, LeaseInv
        <4>2. checked' = checked - Second * e /\ _rebindInSec' = _rebindInSec - e  BY <3>1, <3>2, <3>5, <4>1
        <4>. HIDE DEF r, e, T
        <4>3. (T - (_rebindInSec - e)) * Second + (checked - Second * e) = (T - _rebindInSec) * Second + checked
              BY <1>3, <3>2, CountIsExact
        <4>4. (T - (_rebindInSec - e)) * Second \in Int /\ (T - _rebindInSec) * Second \in Int
              /\ Second * e \in Int
              BY <1>3, <3>2
        <4>5. age < (T - (_rebindInSec - e)) * Second + (checked - Second * e) + Second + MaxRequest
              BY <1>3, <3>3, <4>3, <4>4
        <4>. QED  BY <4>2, <4>5 DEF T
      <3>. QED  BY <3>4, <3>5
    <2>3. Overdue'  BY <1>7, <2>2 DEF CountOnly, Overdue
    <2>. QED  BY <1>1, <2>1, <2>3 DEF RebindInv
  <1>8. CASE NoRebind
    <2>1. Terminated'  BY <1>8 DEF NoRebind, optionVars, RebindInv, Terminated
    <2>2. Overdue'
          BY <1>3, <1>8 DEF NoRebind, RebindDue, countVars, RebindInv, Overdue
    <2>. QED  BY <1>1, <2>1, <2>2 DEF RebindInv
  <1>9. CASE Pass
    <2>1. Terminated'  BY <1>9 DEF Pass, optionVars, RebindInv, Terminated
    <2>2. ASSUME _dhcp_state = "START", age # -1
          PROVE  /\ _rebindInSec > 0
                 /\ age + 1 < (T2Of(term) - _rebindInSec) * Second + (checked + 1) + Second + MaxRequest
      <3>1. /\ _rebindInSec > 0
            /\ age < (T2Of(term) - _rebindInSec) * Second + checked + Second + MaxRequest
            BY <1>9, <2>2 DEF Pass, RebindInv, Overdue
      <3>2. (T2Of(term) - _rebindInSec) * Second \in Int
            BY <1>3, T2Is
      <3>. QED  BY <1>3, <2>2, <3>1, <3>2
    <2>3. Overdue'  BY <1>9, <2>2 DEF Pass, countVars, Overdue
    <2>. QED  BY <1>1, <2>1, <2>3 DEF RebindInv
  <1>10. CASE UNCHANGED leaseVars
        BY <1>1, <1>10 DEF leaseVars, optionVars, countVars, RebindInv, Terminated, Overdue
  <1>. QED  BY <1>4, <1>5, <1>6, <1>7, <1>8, <1>9, <1>10 DEF LeaseNext

\* After a failed renewal the client rebinds by the T2 of its lease, late by no more than
\* the request that failed, a second and the time between two calls of checkLease()
\* (Dhcp.cpp:394-434), whatever lease times replies name, if they name T1 and T2 with them.
THEOREM ReboundInTime == ASSUME T1Named PROVE LeaseSpec => []RebindInTime
  <1>1. ASSUME RebindInv PROVE RebindInTime
    <2>. SUFFICES ASSUME pc = "sketch", _dhcp_state = "START", age # -1
                  PROVE  /\ _rebindInSec > 0
                         /\ age < (term - term \div 8) * Second + MaxRequest + Second + MaxGap
         BY DEF RebindInTime
    <2>. DEFINE T == T2Of(term)
                rest == (T - _rebindInSec) * Second
    <2>1. /\ T \in Nat /\ _rebindInSec \in Nat /\ Second \in Nat /\ checked \in Nat /\ called \in Nat
          /\ called <= MaxGap /\ checked < Second + called
          /\ MaxGap \in Nat /\ MaxRequest \in Nat /\ age \in Int
          BY <1>1, LeaseAssumption, T2Is DEF RebindInv, LeaseInv, LeaseTypeOK, AddsUp, LeaseAssumption
    <2>2. _rebindInSec > 0 /\ age < rest + checked + Second + MaxRequest
          BY <1>1 DEF RebindInv, Overdue
    <2>3. T * Second \in Int /\ rest \in Int
          BY <2>1
    <2>4. rest <= T * Second - Second
          BY <2>1, <2>2, CounterRuns
    <2>5. T = term - term \div 8
          BY DEF T2Of
    <2>. HIDE DEF rest, T
    <2>6. checked < Second + MaxGap
          BY <2>1
    <2>. QED  BY <2>1, <2>2, <2>3, <2>4, <2>5, <2>6
  <1>. QED  BY <1>1, RebindInvInit, RebindInvStep, PTL DEF LeaseSpec
==============================================================================
