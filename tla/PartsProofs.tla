---------------------------- MODULE PartsProofs -----------------------------
(***************************************************************************)
(* What is proved of three parts of the board, each by itself.  The        *)
(* dataflash implements FlashMemory, for any size of a page and any cells  *)
(* and pages that are followed: what the chip makes of the bytes of a call *)
(* is what the call promises, whatever call came before.  Pins are what    *)
(* the calls made them, for any pins of a sketch and of a handler.  And a  *)
(* search of a stream ends at the first target to come, for any targets    *)
(* and characters.                                                         *)
(***************************************************************************)
EXTENDS Dataflash, Pins, Text, Integers, SequenceTheorems, WellFoundedInduction, TLAPS

------------------------------------------------------------------------------
(***************************************************************************)
(* Send() is a recursive function of the bytes.  The states that the chip  *)
(* goes through are a chain (Goes), there is one for every number of bytes *)
(* (a least number without one would contradict its predecessor), and the  *)
(* function that Send() chooses is one.                                    *)
(***************************************************************************)
LEMMA LeastOfAny ==
    ASSUME NEW S \in SUBSET Nat, S # {}
    PROVE  \E n \in S : \A m \in S : n <= m
<1>2. PICK n \in S : \A m \in S : ~(<<m, n>> \in OpToRel(<, Nat))
  BY NatLessThanWellFounded, WFMin
<1>3. \A m \in S : n <= m
  <2> TAKE m \in S
  <2>1. <<m, n>>[1] = m /\ <<m, n>>[2] = n /\ <<m, n>> \in Nat \X Nat
    OBVIOUS
  <2>2. ~(m < n)
    BY <1>2, <2>1 DEF OpToRel
  <2> QED
    BY <2>2
<1> QED
  BY <1>3

\* c are the states that the first n bytes of s lead through, one from the other.
Goes(d, s, c, n) == c = [i \in 0 .. n |-> c[i]] /\ c[0] = d /\ \A i \in 1 .. n : c[i] = Clock(c[i - 1], s[i])

LEMMA NextGoes ==
    ASSUME NEW d, NEW s, NEW c, NEW n \in Nat, Goes(d, s, c, n), NEW i \in 1 .. n, NEW j \in Nat, i = j + 1
    PROVE  c[i] = Clock(c[j], s[i])
<1>1. c[i] = Clock(c[i - 1], s[i])
  BY DEF Goes
<1>2. i - 1 = j
  OBVIOUS
<1>. QED  BY <1>1, <1>2

LEMMA ChainsExist ==
    ASSUME NEW d, NEW s, NEW n \in Nat
    PROVE  \E c : Goes(d, s, c, n)
<1>1. SUFFICES ASSUME ~ \E c : Goes(d, s, c, n) PROVE FALSE
  OBVIOUS
<1>2. PICK T \in SUBSET Nat : T = {m \in Nat : ~ \E c : Goes(d, s, c, m)}
  OBVIOUS
<1>3. PICK k \in T : \A m \in T : k <= m
  <2>1. n \in T
    BY <1>1, <1>2
  <2>. QED  BY <2>1, LeastOfAny
<1>4. k # 0
  <2>1. Goes(d, s, [i \in 0 .. 0 |-> d], 0)
    BY DEF Goes
  <2>2. k = 0 => FALSE
    BY <1>2, <1>3, <2>1
  <2>. QED  BY <2>2
<1>5. k \in Nat /\ k - 1 \in Nat /\ ~(k <= k - 1)
  BY <1>2, <1>3, <1>4
<1>6. PICK c : Goes(d, s, c, k - 1)
  BY <1>2, <1>3, <1>5
<1>7. PICK e : e = [i \in 0 .. k |-> IF i = k THEN Clock(c[k - 1], s[k]) ELSE c[i]]
  OBVIOUS
<1>8. e = [i \in 0 .. k |-> e[i]] /\ e[0] = d
  BY <1>4, <1>5, <1>6, <1>7 DEF Goes
<1>9. \A i \in 1 .. k : e[i] = Clock(e[i - 1], s[i])
  <2>1. TAKE i \in 1 .. k
  <2>2. i - 1 \in 0 .. k /\ i - 1 # k /\ e[i - 1] = c[i - 1]
    BY <1>5, <1>7
  <2>3. i # k => i \in 1 .. k - 1
    BY <1>5
  <2>4. i # k => e[i] = c[i] /\ c[i] = Clock(c[i - 1], s[i])
    <3>1. i # k => e[i] = c[i]
      BY <1>7
    <3>2. i # k => c[i] = Clock(c[i - 1], s[i])
      BY <1>6, <2>3 DEF Goes
    <3>. QED  BY <3>1, <3>2
  <2>5. i = k => e[i] = Clock(c[i - 1], s[i])
    BY <1>7
  <2>. QED  BY <2>2, <2>4, <2>5
<1>10. Goes(d, s, e, k)
  BY <1>8, <1>9 DEF Goes
<1>. QED  BY <1>2, <1>3, <1>10

\* Send() comes to the last of these states: there is only one such chain, because two would
\* differ at a first byte.
LEMMA SendGoes ==
    ASSUME NEW d, NEW s, NEW n \in Nat, Len(s) = n
    PROVE  \E c : Goes(d, s, c, n) /\ Send(d, s) = c[n]
<1> DEFINE next(f, i) == IF i = 0 THEN d ELSE Clock(f[i - 1], s[i])
           sent == CHOOSE f : f = [i \in 0 .. Len(s) |-> next(f, i)]
<1>1. PICK c : Goes(d, s, c, n)
  BY ChainsExist
<1>2. \A i \in 0 .. n : c[i] = next(c, i)
  BY <1>1 DEF Goes
<1>3. c = [i \in 0 .. Len(s) |-> next(c, i)]
  BY <1>1, <1>2 DEF Goes
<1>4. sent = [i \in 0 .. Len(s) |-> next(sent, i)]
  BY <1>3
<1>5. Send(d, s) = sent[n]
  BY DEF Send
<1> HIDE DEF sent
<1>6. sent[0] = d /\ sent = [i \in 0 .. n |-> sent[i]]
  BY <1>4
<1>7. \A i \in 1 .. n : sent[i] = Clock(sent[i - 1], s[i])
  <2>1. TAKE i \in 1 .. n
  <2>2. i \in 0 .. n /\ i # 0
    OBVIOUS
  <2>. QED  BY <1>4, <2>2
<1>8. Goes(d, s, sent, n)
  BY <1>6, <1>7, Zenon DEF Goes
<1>. QED  BY <1>5, <1>8
------------------------------------------------------------------------------
(***************************************************************************)
(* A byte clocked into a chip that is selected (Open; Closed is one        *)
(* that is not): an opcode, the status, one of the three bytes of address, *)
(* a filler, and what comes after them, read or written.                   *)
(***************************************************************************)
Open(op, in, adr, f, o, b, p) ==
    [cs |-> "low", op |-> op, in |-> in, adr |-> adr, power |-> "up", status |-> f, out |-> o, buf |-> b, page |-> p]
Closed(a, f, b, p) ==
    [cs |-> "high", op |-> None, in |-> 0, adr |-> 0, power |-> a, status |-> f, out |-> Memory!NoAnswer,
     buf |-> b, page |-> p]

LEMMA Changes ==
    ASSUME NEW op, NEW in, NEW adr, NEW f, NEW o, NEW b, NEW p, NEW d, d = Open(op, in, adr, f, o, b, p), NEW x, NEW e
    PROVE  /\ e = [d EXCEPT !.op = x] => e = Open(x, in, adr, f, o, b, p)
           /\ e = [d EXCEPT !.in = x] => e = Open(op, x, adr, f, o, b, p)
           /\ e = [d EXCEPT !.adr = x] => e = Open(op, in, x, f, o, b, p)
           /\ e = [d EXCEPT !.out = x] => e = Open(op, in, adr, f, x, b, p)
           /\ e = [d EXCEPT !.buf = x] => e = Open(op, in, adr, f, o, x, p)
BY DEF Open

LEMMA Outs ==
    ASSUME NEW op, NEW in, NEW adr, NEW f, NEW o, NEW b, NEW p, NEW d, d = Open(op, in, adr, f, o, b, p), NEW x, NEW e,
           e = [d EXCEPT !.out = x]
    PROVE  e = Open(op, in, adr, f, x, b, p)
BY DEF Open

LEMMA Counts ==
    ASSUME NEW op, NEW in, NEW adr, NEW f, NEW o, NEW b, NEW p, NEW d, d = Open(op, in, adr, f, o, b, p), NEW n,
           n = [d EXCEPT !.in = d.in + 1]
    PROVE  n = Open(op, in + 1, adr, f, o, b, p)
<1>1. PICK m : m = d.in + 1
  OBVIOUS
<1>2. m = in + 1
  BY <1>1 DEF Open
<1>3. n = [d EXCEPT !.in = m]
  BY <1>1
<1>4. n = Open(op, m, adr, f, o, b, p)
  BY <1>3, Changes
<1>. QED  BY <1>2, <1>4

\* A byte that is clocked in, as what came before makes it.
LEMMA ClocksOpcode ==
    ASSUME NEW f, NEW o, NEW b, NEW p, NEW x, NEW d, d = Open(None, 0, 0, f, o, b, p)
    PROVE  Clock(d, x) = Open(x, 0, 0, f, o, b, p)
<1>1. d.cs = "low" /\ d.power = "up" /\ d.op = None
  BY DEF Open
<1>2. PICK e : e = [d EXCEPT !.op = x]
  OBVIOUS
<1>3. Clock(d, x) = e
  BY <1>1, <1>2 DEF Clock, None, StatusReg, BufWrite, ExitDeepPowerdown
<1>4. e = Open(x, 0, 0, f, o, b, p)
  BY <1>2, Changes
<1>. QED  BY <1>3, <1>4

LEMMA ClocksStatus ==
    ASSUME NEW f, NEW o, NEW b, NEW p, NEW x, NEW d, d = Open(StatusReg, 0, 0, f, o, b, p)
    PROVE  Clock(d, x) = Open(StatusReg, 1, 0, f, f, b, p)
<1>1. d.cs = "low" /\ d.power = "up" /\ d.op = 87 /\ d.in = 0 /\ d.status = f
  BY DEF Open, StatusReg
<1>2. PICK n : n = [d EXCEPT !.in = d.in + 1]
  OBVIOUS
<1>3. PICK e : e = [n EXCEPT !.out = d.status]
  OBVIOUS
<1>4. Clock(d, x) = e
  <2>1. PICK g : g = Clock(d, x)
    OBVIOUS
  <2>2. g = e
    BY <1>1, <1>2, <1>3, <2>1 DEF Clock, None, StatusReg, BufWrite, ExitDeepPowerdown
  <2>. QED  BY <2>1, <2>2
<1>5. PICK m : m = d.in + 1
  OBVIOUS
<1>6. m = 1
  BY <1>1, <1>5
<1>7. n = Open(StatusReg, 1, 0, f, o, b, p)
  BY <1>2, <1>5, <1>6, Changes
<1>8. e = Open(StatusReg, 1, 0, f, f, b, p)
  BY <1>1, <1>3, <1>7, Changes
<1>. QED  BY <1>4, <1>8

LEMMA ClocksAddress ==
    ASSUME NEW f, NEW o, NEW b, NEW p, NEW x \in Nat, NEW op, NEW in \in Nat, in < 3, NEW adr \in Nat, NEW d,
           d = Open(op, in, adr, f, o, b, p), op # None, op # StatusReg,
           NEW next \in Nat, next = in + 1, NEW more \in Nat, more = adr * 256 + x
    PROVE  Clock(d, x) = Open(op, next, more, f, o, b, p)
<1>1. d.cs = "low" /\ d.power = "up" /\ d.op = op /\ d.in = in /\ d.adr = adr
  BY DEF Open
<1>2. PICK n : n = [d EXCEPT !.in = d.in + 1]
  OBVIOUS
<1>3. n = Open(op, next, adr, f, o, b, p)
  <2>1. n = Open(op, in + 1, adr, f, o, b, p)
    BY <1>2, Counts
  <2>. QED  BY <2>1
<1>4. PICK e : e = [n EXCEPT !.adr = n.adr * 256 + x]
  OBVIOUS
<1>5. op # 0 /\ op # 87 /\ in < 3 /\ ~(in >= 3)
  BY DEF None, StatusReg
<1>6. Clock(d, x) = e
  BY <1>1, <1>2, <1>4, <1>5 DEF Clock, None, StatusReg, BufWrite, ExitDeepPowerdown
<1>7. n.adr = adr
  BY <1>3 DEF Open
<1>8. PICK m : m = n.adr * 256 + x
  OBVIOUS
<1>9. e = Open(op, next, m, f, o, b, p)
  <2>1. e = [n EXCEPT !.adr = m]
    BY <1>4, <1>8
  <2>. QED  BY <1>3, <2>1 DEF Open
<1>10. m = more
  BY <1>7, <1>8
<1>. QED  BY <1>6, <1>9, <1>10

\* The number of a byte within the fillers, or within what comes after them, and the next one.
InFillers(op, in, next) == in \in Nat /\ next = in + 1 /\ Fillers(op) \in Nat /\ in >= 3 /\ in < 3 + Fillers(op)
AfterThem(op, in, next, k) == k \in Nat /\ Fillers(op) \in Nat /\ in = 3 + Fillers(op) + k /\ next = in + 1

LEMMA ClocksFiller ==
    ASSUME NEW f, NEW o, NEW b, NEW p, NEW x, NEW op \in {84, 86, 104}, NEW in, NEW adr, NEW d,
           d = Open(op, in, adr, f, o, b, p), NEW next, InFillers(op, in, next)
    PROVE  Clock(d, x) = Open(op, next, adr, f, o, b, p)
<1>0. in \in Nat /\ next = in + 1 /\ Fillers(op) \in Nat /\ in >= 3 /\ in < 3 + Fillers(op)
  BY DEF InFillers
<1>1. d.cs = "low" /\ d.power = "up" /\ d.op = op /\ d.in = in
  BY DEF Open
<1>2. PICK n : n = [d EXCEPT !.in = d.in + 1]
  OBVIOUS
<1>3. n = Open(op, in + 1, adr, f, o, b, p)
  BY <1>2, Counts
<1>4. PICK l : l = Fillers(op)
  OBVIOUS
<1>5. op # 0 /\ op # 87 /\ op # 132 /\ op # 135 /\ ~(in < 3) /\ ~(in >= 3 + l)
  BY <1>0, <1>4
<1>6. Clock(d, x) = n
  <2>1. PICK g : g = Clock(d, x)
    OBVIOUS
  <2>2. g = n
    BY <1>1, <1>2, <1>4, <1>5, <2>1 DEF Clock, None, StatusReg, BufWrite, ExitDeepPowerdown
  <2>. QED  BY <2>1, <2>2
<1>7. n = Open(op, next, adr, f, o, b, p)
  BY <1>0, <1>3
<1>. QED  BY <1>6, <1>7

LEMMA ClocksOut ==
    ASSUME NEW f, NEW o, NEW b, NEW p, NEW x, NEW op \in {84, 86, 104}, NEW in, NEW adr, NEW d,
           d = Open(op, in, adr, f, o, b, p), NEW k, NEW next, AfterThem(op, in, next, k)
    PROVE  Clock(d, x) = Open(op, next, adr, f, Shown(d, k), b, p)
<1>0. k \in Nat /\ Fillers(op) \in Nat /\ in = 3 + Fillers(op) + k /\ next = in + 1
  BY DEF AfterThem
<1>1. d.cs = "low" /\ d.power = "up" /\ d.op = op /\ d.in = in
  BY DEF Open
<1>2. PICK n : n = [d EXCEPT !.in = d.in + 1]
  OBVIOUS
<1>3. n = Open(op, in + 1, adr, f, o, b, p)
  BY <1>2, Counts
<1>4. PICK l : l = Fillers(op)
  OBVIOUS
<1>5. op # 0 /\ op # 87 /\ op # 132 /\ op # 135 /\ ~(in < 3) /\ in >= 3 + l /\ in - 3 - l = k
  BY <1>0, <1>4
<1>6. PICK v : v = Shown(d, d.in - 3 - Fillers(d.op))
  OBVIOUS
<1>7. PICK e : e = [n EXCEPT !.out = v]
  OBVIOUS
<1>8. Clock(d, x) = e
  <2>1. PICK g : g = Clock(d, x)
    OBVIOUS
  <2>2. d.in >= 3 + Fillers(d.op)
    BY <1>1, <1>4, <1>5
  <2>3. g = e
    BY <1>1, <1>2, <1>5, <1>6, <1>7, <2>1, <2>2 DEF Clock, None, StatusReg, BufWrite, ExitDeepPowerdown
  <2>. QED  BY <2>1, <2>3
<1>9. v = Shown(d, k)
  BY <1>1, <1>4, <1>5, <1>6
<1>10. e = Open(op, in + 1, adr, f, v, b, p)
  <2>1. PICK m : m = in + 1
    OBVIOUS
  <2>2. n = Open(op, m, adr, f, o, b, p)
    BY <1>3, <2>1, Zenon
  <2>3. e = Open(op, m, adr, f, v, b, p)
    BY <1>7, <2>2, Outs
  <2>. QED  BY <2>1, <2>3
<1>11. e = Open(op, next, adr, f, v, b, p)
  BY <1>0, <1>10
<1>. QED  BY <1>8, <1>9, <1>11

StoredAt(b, op, cell, x) == [b EXCEPT ![BufferOf(op)] = Memory!Put(b[BufferOf(op)], cell, x)]

LEMMA ClocksIn ==
    ASSUME NEW f, NEW o, NEW b, NEW p, NEW x, NEW op \in {132, 135}, NEW in, NEW adr, NEW d,
           d = Open(op, in, adr, f, o, b, p), NEW k, NEW next, AfterThem(op, in, next, k)
    PROVE  Clock(d, x) = Open(op, next, adr, f, o, StoredAt(b, op, Cell(d, k), x), p)
<1>1. d.cs = "low" /\ d.power = "up" /\ d.op = op /\ d.in = in
  BY DEF Open
<1>2. PICK n : n = [d EXCEPT !.in = d.in + 1]
  OBVIOUS
<1>3. n = Open(op, in + 1, adr, f, o, b, p)
  BY <1>2, Counts
<1>4. Fillers(op) = 0
  BY DEF Fillers, BufRead, ContArrayRead
<1>0. k \in Nat /\ in = 3 + k /\ next = in + 1
  BY <1>4 DEF AfterThem
<1>5. op # 0 /\ op # 87 /\ ~(in < 3) /\ in >= 3 /\ in - 3 - Fillers(op) = k
  BY <1>0, <1>4
<1>6. n.buf = b
  BY <1>3 DEF Open
<1>7. PICK c : c = Cell(d, d.in - 3 - Fillers(d.op))
  OBVIOUS
<1>8. PICK m : m = [n.buf EXCEPT ![BufferOf(d.op)] = Memory!Put(n.buf[BufferOf(d.op)], c, x)]
  OBVIOUS
<1>9. PICK e : e = [n EXCEPT !.buf = m]
  OBVIOUS
<1>10. Clock(d, x) = e
  <2>1. PICK g : g = Clock(d, x)
    OBVIOUS
  <2>2. g = e
    BY <1>1, <1>2, <1>5, <1>7, <1>8, <1>9, <2>1 DEF Clock, None, StatusReg, BufWrite, ExitDeepPowerdown
  <2>. QED  BY <2>1, <2>2
<1>11. c = Cell(d, k)
  BY <1>1, <1>5, <1>7
<1>12. m = StoredAt(b, op, Cell(d, k), x)
  BY <1>1, <1>6, <1>8, <1>11, Zenon DEF StoredAt
<1>13. e = Open(op, in + 1, adr, f, o, m, p)
  <2>1. PICK i : i = in + 1
    OBVIOUS
  <2>2. n = Open(op, i, adr, f, o, b, p)
    BY <1>3, <2>1
  <2>3. e = Open(op, i, adr, f, o, m, p)
    BY <1>9, <2>2 DEF Open
  <2>. QED  BY <2>1, <2>3
<1>14. e = Open(op, next, adr, f, o, m, p)
  BY <1>0, <1>13
<1>. QED  BY <1>10, <1>12, <1>14
------------------------------------------------------------------------------
(***************************************************************************)
(* The address that the chip makes of the three bytes is the one meant.    *)
(***************************************************************************)
LEMMA AddressArrives ==
    ASSUME NEW page \in Nat, NEW at \in Nat, at < 512
    PROVE  ((0 * 256 + page \div 128) * 256 + (((page * 2) % 256) + (at \div 256))) * 256 + (at % 256) = page * 512 + at
<1>1. PICK q \in Nat, r \in 0 .. 127 : page = 128 * q + r
  <2>1. page = 128 * (page \div 128) + (page % 128) /\ page \div 128 \in Nat /\ page % 128 \in 0 .. 127
    OBVIOUS
  <2>. QED  BY <2>1
<1>2. page \div 128 = q /\ (page * 2) % 256 = 2 * r
  BY <1>1
<1>3. PICK g \in 0 .. 1, h \in 0 .. 255 : at = 256 * g + h
  <2>1. at = 256 * (at \div 256) + (at % 256) /\ at \div 256 \in 0 .. 1 /\ at % 256 \in 0 .. 255
    OBVIOUS
  <2>. QED  BY <2>1
<1>4. at \div 256 = g /\ at % 256 = h
  BY <1>3
<1>. QED  BY <1>1, <1>2, <1>3, <1>4

AddressIs(adr, page, at) == page \in Nat /\ at \in Nat /\ at < 512 /\ adr \in Nat /\ adr = page * 512 + at

LEMMA AddressRead ==
    ASSUME NEW page, NEW at, NEW adr, AddressIs(adr, page, at)
    PROVE  adr % 512 = at /\ adr \div 512 = page
BY DEF AddressIs

\* The bytes begin with a command and its address.
Commands(s, op, page, at) ==
    /\ s[1] = op /\ s[2] = page \div 128 /\ s[3] = ((page * 2) % 256) + (at \div 256) /\ s[4] = at % 256

SentBytes(op, page, at, rest) == <<op>> \o Address(page, at) \o rest

\* The rest of m bytes that makes n of them with the command and its address.
BytesAfter(rest, m, n) == (\E S : rest \in Seq(S)) /\ m \in Nat /\ Len(rest) = m /\ n = 4 + m

LEMMA BytesOf ==
    ASSUME NEW op, NEW page, NEW at, NEW rest, NEW m, NEW n, BytesAfter(rest, m, n)
    PROVE  /\ Len(SentBytes(op, page, at, rest)) = n /\ Commands(SentBytes(op, page, at, rest), op, page, at)
           /\ \A i \in 1 .. m : SentBytes(op, page, at, rest)[4 + i] = rest[i]
<1>5. PICK s : s = SentBytes(op, page, at, rest)
  OBVIOUS
<1>6. PICK S : rest \in Seq(S)
  BY DEF BytesAfter
<1>7. m \in Nat /\ Len(rest) = m /\ n = 4 + m
  BY DEF BytesAfter
<1>1. PICK x, y, z : x = page \div 128 /\ y = ((page * 2) % 256) + (at \div 256) /\ z = at % 256
  OBVIOUS
<1>2. s = <<op>> \o <<x, y, z>> \o rest
  BY <1>1, <1>5 DEF Address, SentBytes
<1>3. s = <<op, x, y, z>> \o rest
  BY <1>2, <1>6
<1>4. Len(s) = n /\ s[1] = op /\ s[2] = x /\ s[3] = y /\ s[4] = z /\ \A i \in 1 .. m : s[4 + i] = rest[i]
  BY <1>3, <1>6, <1>7
<1>. QED  BY <1>1, <1>4, <1>5 DEF Commands

------------------------------------------------------------------------------
(***************************************************************************)
(* The chip is selected, and deselected, which carries out a command about *)
(* a page.                                                                 *)
(***************************************************************************)
LEMMA ShutsAgain ==
    ASSUME NEW a, NEW f, NEW b, NEW p, NEW d, d = Closed(a, f, b, p), NEW e,
           e = [d EXCEPT !.cs = "high", !.op = None, !.in = 0, !.adr = 0, !.out = Memory!NoAnswer]
    PROVE  e = Closed(a, f, b, p)
BY DEF Closed

LEMMA ShutChanges ==
    ASSUME NEW a, NEW f, NEW b, NEW p, NEW d, d = Closed(a, f, b, p), NEW x, NEW e
    PROVE  /\ e = [d EXCEPT !.power = x] => e = Closed(x, f, b, p)
           /\ e = [d EXCEPT !.status = x] => e = Closed(a, x, b, p)
           /\ e = [d EXCEPT !.buf = x] => e = Closed(a, f, x, p)
           /\ e = [d EXCEPT !.page = x] => e = Closed(a, f, b, x)
BY DEF Closed

LEMMA Opens ==
    ASSUME NEW f, NEW b, NEW p, NEW d, d = Closed("up", f, b, p)
    PROVE  Select(d) = Open(None, 0, 0, f, Memory!NoAnswer, b, p)
<1>1. PICK e : e = Select(d)
  OBVIOUS
<1>2. e = Open(None, 0, 0, f, Memory!NoAnswer, b, p)
  BY <1>1 DEF Select, Closed, Open
<1>. QED  BY <1>1, <1>2

LEMMA OpensAgain ==
    ASSUME NEW op, NEW in, NEW adr, NEW f, NEW o, NEW b, NEW p, NEW d, d = Open(op, in, adr, f, o, b, p)
    PROVE  Select(d) = d
<1>1. PICK e : e = Select(d)
  OBVIOUS
<1>2. e = Open(op, in, adr, f, o, b, p)
  BY <1>1 DEF Select, Open
<1>. QED  BY <1>1, <1>2

PageOps == {131, 134, 83, 85, 96, 97, 129}

\* NothingAsked was asked for that is done now.
LEMMA DeselectsOnly ==
    ASSUME NEW op, NEW in, NEW adr, NEW f, NEW o, NEW b, NEW p, NEW d, d = Open(op, in, adr, f, o, b, p),
           op \notin PageOps, op # EnterDeepPowerdown, op # ExitDeepPowerdown
    PROVE  Deselect(d) = Closed("up", f, b, p)
<1>1. PICK e : e = [d EXCEPT !.cs = "high", !.op = None, !.in = 0, !.adr = 0, !.out = Memory!NoAnswer]
  OBVIOUS
<1>2. d.op = op
  BY DEF Open
<1>3. Deselect(d) = e
  <2>1. PICK g : g = Deselect(d)
    OBVIOUS
  <2>2. g = e
    BY <1>1, <1>2, <2>1 DEF Deselect, PageOps, PageEraseCmd, EnterDeepPowerdown, ExitDeepPowerdown
  <2>. QED  BY <2>1, <2>2
<1>4. e = Closed("up", f, b, p)
  BY <1>1 DEF Open, Closed
<1>. QED  BY <1>3, <1>4

LEMMA StaysShut ==
    ASSUME NEW a, NEW f, NEW b, NEW p, NEW d, d = Closed(a, f, b, p)
    PROVE  Deselect(d) = Closed(a, f, b, p)
<1>1. PICK e : e = [d EXCEPT !.cs = "high", !.op = None, !.in = 0, !.adr = 0, !.out = Memory!NoAnswer]
  OBVIOUS
<1>2. d.op = 0 /\ d.cs = "high"
  BY DEF Closed, None
<1>3. Deselect(d) = e
  <2>1. PICK g : g = Deselect(d)
    OBVIOUS
  <2>2. g = e
    BY <1>1, <1>2, <2>1 DEF Deselect, PageOps, PageEraseCmd, EnterDeepPowerdown, ExitDeepPowerdown
  <2>. QED  BY <2>1, <2>2
<1>4. e = Closed(a, f, b, p)
  BY <1>1, ShutsAgain
<1>. QED  BY <1>3, <1>4

\* What a command about a page did: the buffers, the pages and the status afterwards.
BufDone(op, page, b, p) == IF op \in {83, 85} THEN [b EXCEPT ![BufferOf(op)] = p[page]] ELSE b
PageDone(op, page, b, p) ==
    IF op \in {131, 134} THEN [p EXCEPT ![page] = b[BufferOf(op)]]
    ELSE IF op = 129 THEN [p EXCEPT ![page] = Memory!Blank] ELSE p
StatusDone(op, page, f, b, p) ==
    IF op \in {96, 97} THEN (IF b[BufferOf(op)] = p[page] THEN Memory!Same ELSE Memory!Differ) ELSE f

LEMMA DeselectsDone ==
    ASSUME NEW op \in PageOps, NEW adr, NEW f, NEW o, NEW b, NEW p, NEW d, d = Open(op, 3, adr, f, o, b, p),
           NEW page \in Pages, PageOf(adr) = page
    PROVE  Deselect(d) = Closed("up", StatusDone(op, page, f, b, p), BufDone(op, page, b, p), PageDone(op, page, b, p))
<1>1. PICK e : e = [d EXCEPT !.cs = "high", !.op = None, !.in = 0, !.adr = 0, !.out = Memory!NoAnswer]
  OBVIOUS
<1>2. d.op = op /\ d.cs = "low" /\ d.in = 3 /\ PageOf(d.adr) = page /\ d.buf = b /\ d.page = p
  BY DEF Open
<1>3. e = Closed("up", f, b, p) /\ e.buf = b /\ e.page = p
  <2>1. e = Closed("up", f, b, p)
    BY <1>1 DEF Open, Closed
  <2>. QED  BY <2>1 DEF Closed
<1>4. PICK n : n = BufferOf(op)
  OBVIOUS
<1>5. CASE op \in {131, 134}
  <2>1. PICK q : q = [e.page EXCEPT ![page] = d.buf[n]]
    OBVIOUS
  <2>2. PICK g : g = [e EXCEPT !.page = q]
    OBVIOUS
  <2>3. PICK h : h = Deselect(d)
    OBVIOUS
  <2>4. h = g
    BY <1>1, <1>2, <1>4, <1>5, <2>1, <2>2, <2>3 DEF Deselect, PageEraseCmd, EnterDeepPowerdown, ExitDeepPowerdown
  <2>5. g = Closed("up", f, b, q)
    BY <1>3, <2>2, ShutChanges
  <2>6. StatusDone(op, page, f, b, p) = f /\ BufDone(op, page, b, p) = b /\ PageDone(op, page, b, p) = q
    BY <1>2, <1>3, <1>4, <1>5, <2>1 DEF StatusDone, BufDone, PageDone
  <2>. QED  BY <2>3, <2>4, <2>5, <2>6
<1>6. CASE op \in {83, 85}
  <2>1. PICK q : q = [e.buf EXCEPT ![n] = d.page[page]]
    OBVIOUS
  <2>2. PICK g : g = [e EXCEPT !.buf = q]
    OBVIOUS
  <2>3. PICK h : h = Deselect(d)
    OBVIOUS
  <2>4. h = g
    BY <1>1, <1>2, <1>4, <1>6, <2>1, <2>2, <2>3 DEF Deselect, PageEraseCmd, EnterDeepPowerdown, ExitDeepPowerdown
  <2>5. g = Closed("up", f, q, p)
    BY <1>3, <2>2, ShutChanges
  <2>6. StatusDone(op, page, f, b, p) = f /\ BufDone(op, page, b, p) = q /\ PageDone(op, page, b, p) = p
    BY <1>2, <1>3, <1>4, <1>6, <2>1 DEF StatusDone, BufDone, PageDone
  <2>. QED  BY <2>3, <2>4, <2>5, <2>6
<1>7. CASE op \in {96, 97}
  <2>1. PICK q : q = IF d.buf[n] = d.page[page] THEN Memory!Same ELSE Memory!Differ
    OBVIOUS
  <2>2. PICK g : g = [e EXCEPT !.status = q]
    OBVIOUS
  <2>3. PICK h : h = Deselect(d)
    OBVIOUS
  <2>4. h = g
    BY <1>1, <1>2, <1>4, <1>7, <2>1, <2>2, <2>3 DEF Deselect, PageEraseCmd, EnterDeepPowerdown, ExitDeepPowerdown
  <2>5. g = Closed("up", q, b, p)
    BY <1>3, <2>2, ShutChanges
  <2>6. StatusDone(op, page, f, b, p) = q /\ BufDone(op, page, b, p) = b /\ PageDone(op, page, b, p) = p
    BY <1>2, <1>3, <1>4, <1>7, <2>1 DEF StatusDone, BufDone, PageDone
  <2>. QED  BY <2>3, <2>4, <2>5, <2>6
<1>8. CASE op = 129
  <2>1. PICK q : q = [e.page EXCEPT ![page] = Memory!Blank]
    OBVIOUS
  <2>2. PICK g : g = [e EXCEPT !.page = q]
    OBVIOUS
  <2>3. PICK h : h = Deselect(d)
    OBVIOUS
  <2>4. h = g
    BY <1>1, <1>2, <1>4, <1>8, <2>1, <2>2, <2>3 DEF Deselect, PageEraseCmd, EnterDeepPowerdown, ExitDeepPowerdown
  <2>5. g = Closed("up", f, b, q)
    BY <1>3, <2>2, ShutChanges
  <2>6. StatusDone(op, page, f, b, p) = f /\ BufDone(op, page, b, p) = b /\ PageDone(op, page, b, p) = q
    BY <1>2, <1>3, <1>4, <1>8, <2>1 DEF StatusDone, BufDone, PageDone
  <2>. QED  BY <2>3, <2>4, <2>5, <2>6
<1>. QED  BY <1>5, <1>6, <1>7, <1>8 DEF PageOps
------------------------------------------------------------------------------
(***************************************************************************)
(* The bytes of a call, one by one: the status, and a command's address.   *)
(***************************************************************************)
LEMMA StatusSent ==
    ASSUME NEW f, NEW o, NEW b, NEW p, NEW d, d = Open(None, 0, 0, f, o, b, p)
    PROVE  Send(d, <<StatusReg, 0>>) = Open(StatusReg, 1, 0, f, f, b, p)
<1>1. PICK s : s = <<StatusReg, 0>>
  OBVIOUS
<1>2. Len(s) = 2 /\ s[1] = StatusReg
  BY <1>1
<1>3. PICK c : Goes(d, s, c, 2) /\ Send(d, s) = c[2]
  BY <1>2, SendGoes
<1>4. c[0] = d /\ c[1] = Clock(c[0], s[1]) /\ c[2] = Clock(c[1], s[2])
  BY <1>3 DEF Goes
<1>5. c[1] = Open(StatusReg, 0, 0, f, o, b, p)
  BY <1>2, <1>4, ClocksOpcode
<1>6. c[2] = Open(StatusReg, 1, 0, f, f, b, p)
  BY <1>4, <1>5, ClocksStatus
<1>. QED  BY <1>1, <1>3, <1>6

LEMMA ThreeBytes ==
    ASSUME NEW f, NEW o, NEW b, NEW p, NEW op, op # None, op # StatusReg,
           NEW u \in Nat, NEW v \in Nat, NEW w \in Nat, NEW x \in Nat, NEW y \in Nat, NEW z \in Nat,
           x = 0 * 256 + u, y = x * 256 + v, z = y * 256 + w,
           NEW c1, NEW c2, NEW c3, NEW c4, c1 = Open(op, 0, 0, f, o, b, p),
           c2 = Clock(c1, u), c3 = Clock(c2, v), c4 = Clock(c3, w)
    PROVE  c4 = Open(op, 3, z, f, o, b, p)
<1>1. PICK i \in Nat, j \in Nat, k \in Nat, l \in Nat : i = 0 /\ j = 1 /\ k = 2 /\ l = 3
  OBVIOUS
<1>2. j = i + 1 /\ k = j + 1 /\ l = k + 1 /\ i < 3 /\ j < 3 /\ k < 3 /\ x = i * 256 + u
  BY <1>1
<1>3. c1 = Open(op, i, i, f, o, b, p)
  BY <1>1
<1>4. c2 = Open(op, j, x, f, o, b, p)
  <2>1. Clock(c1, u) = Open(op, j, x, f, o, b, p)
    BY <1>2, <1>3, ClocksAddress
  <2>. QED  BY <2>1
<1>5. c3 = Open(op, k, y, f, o, b, p)
  <2>1. Clock(c2, v) = Open(op, k, y, f, o, b, p)
    BY <1>2, <1>4, ClocksAddress
  <2>. QED  BY <2>1
<1>6. c4 = Open(op, l, z, f, o, b, p)
  <2>1. Clock(c3, w) = Open(op, l, z, f, o, b, p)
    BY <1>2, <1>5, ClocksAddress
  <2>. QED  BY <2>1
<1>. QED  BY <1>1, <1>6

LEMMA CommandSent ==
    ASSUME NEW f, NEW o, NEW b, NEW p, NEW d, d = Open(None, 0, 0, f, o, b, p),
           NEW op, op # None, op # StatusReg, NEW page, NEW at, NEW adr, AddressIs(adr, page, at),
           NEW s, NEW n \in Nat, n >= 4, NEW c, Goes(d, s, c, n), Commands(s, op, page, at)
    PROVE  c[4] = Open(op, 3, adr, f, o, b, p)
<1>10. page \in Nat /\ at \in Nat /\ at < 512 /\ adr \in Nat /\ adr = page * 512 + at
  BY DEF AddressIs
<1>0. /\ s[1] = op /\ s[2] = page \div 128 /\ s[3] = ((page * 2) % 256) + (at \div 256)
      /\ s[4] = at % 256
  BY DEF Commands
<1>1. /\ c[0] = d /\ c[1] = Clock(c[0], s[1]) /\ c[2] = Clock(c[1], s[2])
      /\ c[3] = Clock(c[2], s[3]) /\ c[4] = Clock(c[3], s[4])
  <2>1. 1 \in 1 .. n /\ 2 \in 1 .. n /\ 3 \in 1 .. n /\ 4 \in 1 .. n
    OBVIOUS
  <2>2. \A i \in 1 .. n : \A j \in Nat : i = j + 1 => c[i] = Clock(c[j], s[i])
    BY NextGoes
  <2>3. c[1] = Clock(c[0], s[1]) /\ c[2] = Clock(c[1], s[2])
    BY <2>1, <2>2
  <2>4. c[3] = Clock(c[2], s[3]) /\ c[4] = Clock(c[3], s[4])
    BY <2>1, <2>2
  <2>. QED  BY <2>3, <2>4 DEF Goes
<1>2. c[1] = Open(op, 0, 0, f, o, b, p)
  BY <1>0, <1>1, ClocksOpcode
<1>3. s[2] \in Nat /\ s[3] \in Nat /\ s[4] \in Nat
  BY <1>0, <1>10
<1>4. PICK u \in Nat, v \in Nat, w \in Nat : u = s[2] /\ v = s[3] /\ w = s[4]
  BY <1>3
<1>5. PICK x \in Nat : x = 0 * 256 + u
  OBVIOUS
<1>6. PICK y \in Nat : y = x * 256 + v
  OBVIOUS
<1>8. PICK z \in Nat : z = y * 256 + w
  OBVIOUS
<1>7. c[4] = Open(op, 3, z, f, o, b, p)
  <2>1. c[2] = Clock(c[1], u) /\ c[3] = Clock(c[2], v) /\ c[4] = Clock(c[3], w)
    BY <1>1, <1>4
  <2>2. PICK c1, c2, c3, c4 : c1 = c[1] /\ c2 = c[2] /\ c3 = c[3] /\ c4 = c[4]
    OBVIOUS
  <2>3. c4 = Open(op, 3, z, f, o, b, p)
    BY <1>2, <1>5, <1>6, <1>8, <2>1, <2>2, ThreeBytes
  <2>. QED  BY <2>2, <2>3
<1>9. z = adr
  BY <1>0, <1>4, <1>5, <1>6, <1>8, <1>10, AddressArrives
<1>. QED  BY <1>7, <1>9

------------------------------------------------------------------------------
(***************************************************************************)
(* What is left of a call: the chip deselected or asleep, or selected at   *)
(* the place it has got to.  Never a command about a page, which the next  *)
(* call's reset would carry out once more.                                 *)
(***************************************************************************)
NothingAsked(d) == d.op = None /\ d.in = 0 /\ d.adr = 0
AtPlace(d) ==
    /\ d.op \in {84, 86, 104, 132, 135}
    /\ \E k \in Nat : d.in = 3 + Fillers(d.op) + k
    /\ d.adr \in Nat

Rests(d) ==
    \/ d = Closed("up", d.status, d.buf, d.page)
    \/ /\ d = Open(d.op, d.in, d.adr, d.status, d.out, d.buf, d.page)
       /\ NothingAsked(d) \/ d.op = StatusReg \/ AtPlace(d)

FlashInv == Rests(df) \/ df = Closed("down", df.status, df.buf, df.page)

\* Whatever was left, the next call finds a chip that waits for an opcode.
LEMMA Resets ==
    ASSUME NEW d, Rests(d)
    PROVE  /\ Deselect(d) = Closed("up", d.status, d.buf, d.page)
           /\ DF_reset(d) = Open(None, 0, 0, d.status, Memory!NoAnswer, d.buf, d.page)
<1>1. PICK f : f = d.status  OBVIOUS
<1>2. PICK b : b = d.buf  OBVIOUS
<1>3. PICK p : p = d.page  OBVIOUS
<1>4. Deselect(d) = Closed("up", f, b, p)
  <2>1. CASE d = Closed("up", f, b, p)
    BY <2>1, StaysShut
  <2>2. CASE d = Open(d.op, d.in, d.adr, f, d.out, b, p) /\ (NothingAsked(d) \/ d.op = StatusReg \/ AtPlace(d))
    <3>1. d.op \notin PageOps /\ d.op # EnterDeepPowerdown /\ d.op # ExitDeepPowerdown
      BY <2>2 DEF NothingAsked, AtPlace, PageOps, None, StatusReg, EnterDeepPowerdown, ExitDeepPowerdown
    <3>. QED  BY <2>2, <3>1, DeselectsOnly
  <2>. QED  BY <1>1, <1>2, <1>3, <2>1, <2>2 DEF Rests
<1>5. DF_reset(d) = Open(None, 0, 0, f, Memory!NoAnswer, b, p)
  BY <1>4, Opens DEF DF_reset
<1>. QED  BY <1>1, <1>2, <1>3, <1>4, <1>5

\* A command about a page is done, and the status read after it.
LEMMA PageCalls ==
    ASSUME NEW d, Rests(d), NEW op \in PageOps, NEW page \in Pages, NEW f, NEW b, NEW p,
           f = StatusDone(op, page, d.status, d.buf, d.page), b = BufDone(op, page, d.buf, d.page),
           p = PageDone(op, page, d.buf, d.page)
    PROVE  PageCall(d, op, page) = Open(StatusReg, 1, 0, f, f, b, p)
<1>1. PICK r : r = DF_reset(d)
  OBVIOUS
<1>2. r = Open(None, 0, 0, d.status, Memory!NoAnswer, d.buf, d.page)
  BY <1>1, Resets
<1>0. PICK at \in Nat : at = 0 /\ at < 512
  OBVIOUS
<1>3. PICK s : s = <<op>> \o Address(page, at)
  OBVIOUS
<1>4. Len(s) = 4 /\ Commands(s, op, page, at)
  <2>1. PICK x, y, z : x = page \div 128 /\ y = ((page * 2) % 256) + (at \div 256) /\ z = at % 256
    OBVIOUS
  <2>2. s = <<op>> \o <<x, y, z>>
    BY <1>3, <2>1 DEF Address
  <2>3. Len(s) = 4 /\ s[1] = op /\ s[2] = x /\ s[3] = y /\ s[4] = z
    BY <2>2
  <2>. QED  BY <2>1, <2>3 DEF Commands
<1>17. PICK n \in Nat : n = 4
  OBVIOUS
<1>5. PICK c : Goes(r, s, c, n) /\ Send(r, s) = c[n]
  <2>1. Len(s) = n
    BY <1>4, <1>17
  <2>. QED  BY <2>1, SendGoes
<1>6. page \in Nat /\ op # None /\ op # StatusReg
  BY DataflashAssumption DEF DataflashAssumption, PageOps, None, StatusReg
<1>7. PICK adr \in Nat : adr = page * 512 + at
  BY <1>6
<1>16. c[4] = Open(op, 3, adr, d.status, Memory!NoAnswer, d.buf, d.page)
  <2>1. n >= 4
    BY <1>17
  <2>2. AddressIs(adr, page, at)
    BY <1>0, <1>6, <1>7 DEF AddressIs
  <2>. QED  BY <1>2, <1>4, <1>5, <1>6, <2>1, <2>2, CommandSent
<1>8. Send(r, s) = Open(op, 3, adr, d.status, Memory!NoAnswer, d.buf, d.page)
  BY <1>5, <1>7, <1>16, <1>17
<1>9. PageOf(adr) = page
  <2>1. adr \div 512 = page
    BY <1>0, <1>6, <1>7, AddressRead DEF AddressIs
  <2>. QED  BY <2>1 DEF PageOf
<1>10. Deselect(Send(r, s)) = Closed("up", f, b, p)
  BY <1>8, <1>9, DeselectsDone
<1>11. DF_reset(Send(r, s)) = Open(None, 0, 0, f, Memory!NoAnswer, b, p)
  BY <1>10, Opens DEF DF_reset
<1>12. PICK u : u = DF_reset(Send(r, s))
  OBVIOUS
<1>13. Rests(u) /\ u.status = f /\ u.buf = b /\ u.page = p
  BY <1>11, <1>12 DEF Rests, NothingAsked, Open
<1>14. DF_reset(u) = Open(None, 0, 0, f, Memory!NoAnswer, b, p)
  BY <1>13, Resets
<1>15. ReadDFStatus(u) = Open(StatusReg, 1, 0, f, f, b, p)
  BY <1>14, StatusSent DEF ReadDFStatus
<1>. QED  BY <1>0, <1>1, <1>3, <1>12, <1>15 DEF PageCall
------------------------------------------------------------------------------
(***************************************************************************)
(* The calls that point the chip to a place.                               *)
(***************************************************************************)
PlaceOps == {84, 86, 104, 132, 135}

LEMMA FillersAre ==
    /\ Fillers(84) = 1 /\ Fillers(86) = 1 /\ Fillers(104) = 4 /\ Fillers(132) = 0 /\ Fillers(135) = 0
BY DEF Fillers, BufRead, ContArrayRead

\* After the command and its address come the bytes of rest.
Follows(c, rest, m) == \A i \in 1 .. m : c[4 + i] = Clock(c[3 + i], rest[i])

LEMMA Pointed ==
    ASSUME NEW d, Rests(d), NEW op \in PlaceOps, NEW page, NEW at, NEW adr, AddressIs(adr, page, at),
           NEW rest, NEW m, NEW n, BytesAfter(rest, m, n)
    PROVE  \E c : /\ Follows(c, rest, m)
                  /\ c[4] = Open(op, 3, adr, d.status, Memory!NoAnswer, d.buf, d.page)
                  /\ Enable(d, op, page, at, rest) = c[n]
<1>1. PICK r : r = DF_reset(d)
  OBVIOUS
<1>2. r = Open(None, 0, 0, d.status, Memory!NoAnswer, d.buf, d.page)
  BY <1>1, Resets
<1>3. PICK s : s = SentBytes(op, page, at, rest)
  OBVIOUS
<1>4. Len(s) = n /\ Commands(s, op, page, at) /\ \A i \in 1 .. m : s[4 + i] = rest[i]
  <2>1. Len(SentBytes(op, page, at, rest)) = n /\ Commands(SentBytes(op, page, at, rest), op, page, at)
    BY BytesOf
  <2>2. \A i \in 1 .. m : SentBytes(op, page, at, rest)[4 + i] = rest[i]
    BY BytesOf
  <2>. QED  BY <1>3, <2>1, <2>2, Zenon
<1>6. op # None /\ op # StatusReg /\ n \in Nat /\ n >= 4 /\ m \in Nat /\ n = 4 + m
  BY DEF PlaceOps, None, StatusReg, BytesAfter
<1>5. PICK c : Goes(r, s, c, n) /\ Send(r, s) = c[n]
  BY <1>4, <1>6, SendGoes
<1>7. c[4] = Open(op, 3, adr, d.status, Memory!NoAnswer, d.buf, d.page)
  <2>1. PICK f, o, b, p : f = d.status /\ o = Memory!NoAnswer /\ b = d.buf /\ p = d.page
    OBVIOUS
  <2>2. r = Open(None, 0, 0, f, o, b, p)
    BY <1>2, <2>1
  <2>3. c[4] = Open(op, 3, adr, f, o, b, p)
    BY <1>4, <1>5, <1>6, <2>2, CommandSent
  <2>. QED  BY <2>1, <2>3
<1>8. Follows(c, rest, m)
  <2>1. SUFFICES ASSUME NEW i \in 1 .. m PROVE c[4 + i] = Clock(c[3 + i], rest[i])
    BY DEF Follows
  <2>2. 4 + i \in 1 .. n /\ (4 + i) - 1 = 3 + i
    BY <1>6
  <2>3. c[4 + i] = Clock(c[(4 + i) - 1], s[4 + i])
    BY <1>5, <2>2, Zenon DEF Goes
  <2>4. s[4 + i] = rest[i]
    BY <1>4
  <2>. QED  BY <2>2, <2>3, <2>4
<1>9. Enable(d, op, page, at, rest) = c[n]
  BY <1>1, <1>3, <1>5, Zenon DEF Enable, SentBytes
<1>. QED  BY <1>7, <1>8, <1>9, Zenon
------------------------------------------------------------------------------
(***************************************************************************)
(* The place after k bytes, and what is seen of the memory there.          *)
(***************************************************************************)
UseOf(op) == IF op \in {84, 86} THEN "read" ELSE IF op = 104 THEN "flash" ELSE "write"
OfPage(op, adr, k) == IF op = 104 THEN ((adr \div 512) + (((adr % 512) + k) \div PageSize)) % 2048 ELSE BufferOf(op)
Spot(op, adr, k) == [use |-> UseOf(op), of |-> OfPage(op, adr, k), at |-> ((adr % 512) + k) % PageSize]

Looked(spot, b, p) ==
    IF spot.use = "read" THEN Memory!At(b[spot.of], spot.at)
    ELSE IF spot.use = "flash" /\ spot.of \in Pages THEN Memory!At(p[spot.of], spot.at) ELSE Memory!Unknown

Stands(d, op, k, adr, f, o, b, p) ==
    /\ op \in PlaceOps /\ k \in Nat /\ adr \in Nat
    /\ d = Open(op, 3 + Fillers(op) + k, adr, f, o, b, p)

LEMMA FillersCount ==
    ASSUME NEW op \in PlaceOps
    PROVE  Fillers(op) \in Nat
BY FillersAre DEF PlaceOps

LEMMA StandsAt ==
    ASSUME NEW d, NEW op, NEW k, NEW adr, NEW f, NEW o, NEW b, NEW p, Stands(d, op, k, adr, f, o, b, p)
    PROVE  /\ d.op = op /\ d.adr = adr /\ d.in - 3 - Fillers(d.op) = k /\ d.buf = b /\ d.page = p
           /\ Cell(d, k) = Spot(op, adr, k).at
           /\ op = 104 => CellPage(d, k) = Spot(op, adr, k).of
<1>1. d.op = op /\ d.adr = adr /\ d.in = 3 + Fillers(op) + k /\ d.buf = b /\ d.page = p
  BY DEF Stands, Open
<1>2. PICK l \in Nat : l = Fillers(op)
  BY FillersCount DEF Stands
<1>3. k \in Nat /\ (3 + l + k) - 3 - l = k
  BY <1>2 DEF Stands
<1>. QED  BY <1>1, <1>2, <1>3 DEF Cell, CellPage, PageOf, Spot, OfPage

LEMMA PlaceIs ==
    ASSUME NEW d, NEW op, NEW k, NEW adr, NEW f, NEW o, NEW b, NEW p, Stands(d, op, k, adr, f, o, b, p)
    PROVE  Place(d) = Spot(op, adr, k)
<1>1. PICK i : i = d.in - 3 - Fillers(d.op)
  OBVIOUS
<1>2. i = k /\ d.op = op
  BY <1>1, StandsAt
<1>3. PICK c, g : c = Cell(d, i) /\ g = CellPage(d, i)
  OBVIOUS
<1>4. c = Spot(op, adr, k).at /\ (op = 104 => g = Spot(op, adr, k).of)
  BY <1>2, <1>3, StandsAt
<1>5. Spot(op, adr, k).at = ((adr % 512) + k) % PageSize /\ Spot(op, adr, k).of = OfPage(op, adr, k)
  BY DEF Spot
<1>6. PICK x : x = Place(d)
  OBVIOUS
<1>7. CASE op \in {84, 86}
  <2>1. x = [use |-> "read", of |-> BufferOf(op), at |-> c]
    BY <1>1, <1>2, <1>3, <1>6, <1>7 DEF Place, BufRead, BufWrite, ContArrayRead
  <2>. QED  BY <1>4, <1>5, <1>6, <1>7, <2>1 DEF Spot, OfPage, UseOf
<1>8. CASE op = 104
  <2>1. x = [use |-> "flash", of |-> g, at |-> c]
    BY <1>1, <1>2, <1>3, <1>6, <1>8 DEF Place, BufRead, BufWrite, ContArrayRead
  <2>. QED  BY <1>4, <1>5, <1>6, <1>8, <2>1 DEF Spot, OfPage, UseOf
<1>9. CASE op \in {132, 135}
  <2>1. x = [use |-> "write", of |-> BufferOf(op), at |-> c]
    BY <1>1, <1>2, <1>3, <1>6, <1>9 DEF Place, BufRead, BufWrite, ContArrayRead
  <2>. QED  BY <1>4, <1>5, <1>6, <1>9, <2>1 DEF Spot, OfPage, UseOf
<1>. QED  BY <1>7, <1>8, <1>9 DEF Stands, PlaceOps

LEMMA NoPlace ==
    ASSUME NEW d, d.op \notin PlaceOps
    PROVE  Place(d) = Memory!Nowhere
<1>1. PICK x : x = Place(d)
  OBVIOUS
<1>2. x = [use |-> "none", of |-> 0, at |-> 0]
  BY <1>1 DEF Place, PlaceOps, BufRead, BufWrite, ContArrayRead
<1>. QED  BY <1>1, <1>2 DEF Memory!Nowhere

\* One byte further.
LEMMA CountsOver ==
    ASSUME NEW a \in Nat, NEW k \in Nat, NEW g \in Nat
    PROVE  LET x == (a + k) % PageSize
               y == (a + (k + 1)) % PageSize
               u == (a + k) \div PageSize
               v == (a + (k + 1)) \div PageSize
           IN /\ x \in 0 .. PageSize - 1
              /\ x < PageSize - 1 => y = x + 1 /\ v = u
              /\ ~(x < PageSize - 1) => y = 0 /\ v = u + 1
<1>1. PICK n \in Nat \ {0} : n = PageSize
  BY DataflashAssumption DEF DataflashAssumption
<1>2. PICK q \in Nat, r \in 0 .. n - 1 : a + k = n * q + r
  <2>1. PICK t \in Nat : t = a + k
    OBVIOUS
  <2>2. t = n * (t \div n) + (t % n) /\ t \div n \in Nat /\ t % n \in 0 .. n - 1
    BY <1>1
  <2>. QED  BY <2>1, <2>2
<1>. QED  BY <1>1, <1>2

LEMMA Wraps ==
    ASSUME NEW a \in Nat, NEW u \in Nat
    PROVE  (a + (u + 1)) % 2048 = (((a + u) % 2048) + 1) % 2048
OBVIOUS

LEMMA SpotMoves ==
    ASSUME NEW op \in PlaceOps, NEW adr \in Nat, NEW k \in Nat
    PROVE  Spot(op, adr, k + 1) = Memory!Further(Spot(op, adr, k))
<1>1. PICK a \in Nat, g \in Nat : a = adr % 512 /\ g = adr \div 512
  OBVIOUS
<1>2. PICK x, y, u, v : x = (a + k) % PageSize /\ y = (a + (k + 1)) % PageSize
                        /\ u = (a + k) \div PageSize /\ v = (a + (k + 1)) \div PageSize
  OBVIOUS
<1>3. /\ x \in 0 .. PageSize - 1
      /\ x < PageSize - 1 => y = x + 1 /\ v = u
      /\ ~(x < PageSize - 1) => y = 0 /\ v = u + 1
  BY <1>2, CountsOver
<1>4. u \in Nat
  BY <1>1, <1>2, DataflashAssumption DEF DataflashAssumption
<1>5. (g + (u + 1)) % 2048 = (((g + u) % 2048) + 1) % 2048
  BY <1>1, <1>4, Wraps
<1>6. PICK s, t : s = Spot(op, adr, k) /\ t = Spot(op, adr, k + 1)
  OBVIOUS
<1>7. PICK e, f : e = OfPage(op, adr, k) /\ f = OfPage(op, adr, k + 1)
  OBVIOUS
<1>16. PICK z : z = UseOf(op)
  OBVIOUS
<1>8. s = [use |-> z, of |-> e, at |-> x] /\ t = [use |-> z, of |-> f, at |-> y]
  BY <1>1, <1>2, <1>6, <1>7, <1>16 DEF Spot
<1>9. op = 104 => e = (g + u) % 2048 /\ f = (g + v) % 2048
  BY <1>1, <1>2, <1>7 DEF OfPage
<1>10. op # 104 => e = f
  BY <1>7 DEF OfPage
<1>11. z = "flash" <=> op = 104
  BY <1>16 DEF UseOf, PlaceOps
<1>12. s.use = z /\ s.of = e /\ s.at = x
  BY <1>8
<1>13. y = IF x = PageSize - 1 THEN 0 ELSE x + 1
  BY <1>3, DataflashAssumption DEF DataflashAssumption
<1>14. f = IF x = PageSize - 1 /\ z = "flash" THEN (e + 1) % 2048 ELSE e
  BY <1>3, <1>5, <1>9, <1>10, <1>11, DataflashAssumption DEF DataflashAssumption
<1>15. Memory!Further(s) = [use |-> z, of |-> f, at |-> y]
  BY <1>12, <1>13, <1>14 DEF Memory!Further
<1>. QED  BY <1>6, <1>8, <1>15

\* A page and an offset that the chip has.
PlaceOf(adr, page, at) == AddressIs(adr, page, at) /\ page < 2048 /\ at < PageSize

LEMMA SpotStarts ==
    ASSUME NEW op \in PlaceOps, NEW page, NEW at, NEW adr, PlaceOf(adr, page, at)
    PROVE  /\ op = 104 => Spot(op, adr, 0) = [use |-> "flash", of |-> page, at |-> at]
           /\ op # 104 => Spot(op, adr, 0) = [use |-> UseOf(op), of |-> BufferOf(op), at |-> at]
<1>1. adr % 512 = at /\ adr \div 512 = page
  BY AddressRead DEF PlaceOf
<1>2. PICK n \in Nat \ {0} : n = PageSize
  BY DataflashAssumption DEF DataflashAssumption
<1>3. (at + 0) % PageSize = at /\ (at + 0) \div PageSize = 0
  BY <1>2 DEF PlaceOf, AddressIs
<1>4. (page + 0) % 2048 = page
  BY DEF PlaceOf, AddressIs
<1>5. op = 104 => OfPage(op, adr, 0) = page
  BY <1>1, <1>3, <1>4 DEF OfPage
<1>6. op # 104 => OfPage(op, adr, 0) = BufferOf(op)
  BY DEF OfPage
<1>7. Spot(op, adr, 0) = [use |-> UseOf(op), of |-> OfPage(op, adr, 0), at |-> at]
  BY <1>1, <1>3 DEF Spot
<1>8. op = 104 => UseOf(op) = "flash"
  BY DEF UseOf
<1>. QED  BY <1>5, <1>6, <1>7, <1>8

LEMMA ShownIs ==
    ASSUME NEW d, NEW op \in {84, 86, 104}, NEW k, NEW adr, NEW f, NEW o, NEW b, NEW p, Stands(d, op, k, adr, f, o, b, p)
    PROVE  Shown(d, k) = Looked(Spot(op, adr, k), b, p)
<1>1. d.op = op /\ d.buf = b /\ d.page = p
  BY StandsAt
<1>2. PICK s : s = Spot(op, adr, k)
  OBVIOUS
<1>3. Cell(d, k) = s.at /\ (op = 104 => CellPage(d, k) = s.of)
  BY <1>2, StandsAt
<1>4. s.use = UseOf(op) /\ s.of = OfPage(op, adr, k)
  BY <1>2 DEF Spot
<1>5. op # 104 => s.use = "read" /\ s.of = BufferOf(op)
  BY <1>4 DEF UseOf, OfPage
<1>6. op = 104 => s.use = "flash"
  BY <1>4 DEF UseOf
<1>7. PICK x : x = Shown(d, k)
  OBVIOUS
<1>8. CASE op # 104
  <2>1. x = Memory!At(b[BufferOf(op)], s.at)
    BY <1>1, <1>3, <1>7, <1>8 DEF Shown, BufRead, ContArrayRead
  <2>. QED  BY <1>2, <1>5, <1>7, <1>8, <2>1 DEF Looked
<1>9. CASE op = 104
  <2>1. x = IF s.of \in Pages THEN Memory!At(p[s.of], s.at) ELSE Memory!Unknown
    BY <1>1, <1>3, <1>7, <1>9 DEF Shown, BufRead, ContArrayRead
  <2>. QED  BY <1>2, <1>6, <1>7, <1>9, <2>1 DEF Looked
<1>. QED  BY <1>8, <1>9
------------------------------------------------------------------------------
(***************************************************************************)
(* A byte at the place moves it on: within the page, to the buffer's own   *)
(* beginning, or into the next page of the flash.                          *)
(***************************************************************************)
Written(b, spot, x) == [b EXCEPT ![spot.of] = Memory!Put(b[spot.of], spot.at, x)]

LEMMA ReadsOne ==
    ASSUME NEW d, NEW op \in {84, 86, 104}, NEW k, NEW adr, NEW f, NEW o, NEW b, NEW p, Stands(d, op, k, adr, f, o, b, p),
           NEW x
    PROVE  Stands(Clock(d, x), op, k + 1, adr, f, Looked(Spot(op, adr, k), b, p), b, p)
<1>1. op \in PlaceOps /\ k \in Nat /\ adr \in Nat /\ d = Open(op, 3 + Fillers(op) + k, adr, f, o, b, p)
  BY DEF Stands
<1>2. PICK l \in Nat : l = Fillers(op)
  BY <1>1, FillersCount
<1>3. PICK in, next : in = 3 + Fillers(op) + k /\ next = 3 + Fillers(op) + (k + 1)
  OBVIOUS
<1>11. AfterThem(op, in, next, k)
  BY <1>1, <1>2, <1>3 DEF AfterThem
<1>4. d = Open(op, in, adr, f, o, b, p)
  BY <1>1, <1>3
<1>5. Clock(d, x) = Open(op, next, adr, f, Shown(d, k), b, p)
  BY <1>4, <1>11, ClocksOut
<1>6. PICK v : v = Looked(Spot(op, adr, k), b, p)
  OBVIOUS
<1>7. Shown(d, k) = v
  BY <1>6, ShownIs
<1>8. Clock(d, x) = Open(op, 3 + Fillers(op) + (k + 1), adr, f, v, b, p)
  BY <1>3, <1>5, <1>7, Zenon
<1>9. k + 1 \in Nat
  BY <1>1
<1>10. Stands(Clock(d, x), op, k + 1, adr, f, v, b, p)
  BY <1>1, <1>8, <1>9, Zenon DEF Stands
<1>. QED  BY <1>6, <1>10

LEMMA WritesOne ==
    ASSUME NEW d, NEW op \in {132, 135}, NEW k, NEW adr, NEW f, NEW o, NEW b, NEW p, Stands(d, op, k, adr, f, o, b, p),
           NEW x
    PROVE  Stands(Clock(d, x), op, k + 1, adr, f, o, Written(b, Spot(op, adr, k), x), p)
<1>1. op \in PlaceOps /\ k \in Nat /\ adr \in Nat /\ d = Open(op, 3 + Fillers(op) + k, adr, f, o, b, p)
  BY DEF Stands
<1>2. Fillers(op) = 0
  BY FillersAre
<1>3. PICK in, next : in = 3 + Fillers(op) + k /\ next = 3 + Fillers(op) + (k + 1)
  OBVIOUS
<1>13. AfterThem(op, in, next, k)
  BY <1>1, <1>2, <1>3 DEF AfterThem
<1>4. d = Open(op, in, adr, f, o, b, p)
  BY <1>1, <1>3
<1>5. PICK h : h = StoredAt(b, op, Cell(d, k), x)
  OBVIOUS
<1>6. Clock(d, x) = Open(op, next, adr, f, o, h, p)
  BY <1>4, <1>5, <1>13, ClocksIn
<1>7. Cell(d, k) = Spot(op, adr, k).at
  BY StandsAt
<1>8. Spot(op, adr, k).of = BufferOf(op)
  BY DEF Spot, OfPage
<1>9. h = Written(b, Spot(op, adr, k), x)
  BY <1>5, <1>7, <1>8, Zenon DEF Written, StoredAt
<1>10. Clock(d, x) = Open(op, 3 + Fillers(op) + (k + 1), adr, f, o, h, p)
  BY <1>3, <1>6, Zenon
<1>11. k + 1 \in Nat
  BY <1>1
<1>12. Stands(Clock(d, x), op, k + 1, adr, f, o, h, p)
  BY <1>1, <1>10, <1>11, Zenon DEF Stands
<1>. QED  BY <1>9, <1>12

LEMMA OneSent ==
    ASSUME NEW d, NEW x
    PROVE  Send(d, <<x>>) = Clock(d, x)
<1>1. PICK s : s = <<x>>
  OBVIOUS
<1>2. Len(s) = 1 /\ s[1] = x
  BY <1>1
<1>3. PICK n \in Nat : n = 1
  OBVIOUS
<1>4. PICK c : Goes(d, s, c, n) /\ Send(d, s) = c[n]
  BY <1>2, <1>3, SendGoes
<1>5. c[0] = d /\ c[1] = Clock(c[0], s[1])
  <2>1. 1 \in 1 .. n /\ 1 - 1 = 0
    BY <1>3
  <2>. QED  BY <1>4, <2>1 DEF Goes
<1>. QED  BY <1>1, <1>2, <1>3, <1>4, <1>5

------------------------------------------------------------------------------
(***************************************************************************)
(* Where a call that enables reading or writing leaves the chip: after the *)
(* fillers, or with bytes read or written after them.                      *)
(***************************************************************************)
LEMMA FollowsIn ==
    ASSUME NEW c, NEW rest
    PROVE  /\ Follows(c, rest, 1) => c[5] = Clock(c[4], rest[1])
           /\ Follows(c, rest, 2) => c[5] = Clock(c[4], rest[1]) /\ c[6] = Clock(c[5], rest[2])
           /\ Follows(c, rest, 4) => /\ c[5] = Clock(c[4], rest[1]) /\ c[6] = Clock(c[5], rest[2])
                                     /\ c[7] = Clock(c[6], rest[3]) /\ c[8] = Clock(c[7], rest[4])
<1>1. ASSUME NEW m \in Nat, Follows(c, rest, m), NEW i \in 1 .. m, NEW u \in Nat, u = 4 + i, NEW v \in Nat, v = 3 + i
      PROVE  c[u] = Clock(c[v], rest[i])
  BY <1>1 DEF Follows
<1>2. Follows(c, rest, 1) => c[5] = Clock(c[4], rest[1])
  BY <1>1
<1>3. Follows(c, rest, 2) => c[5] = Clock(c[4], rest[1]) /\ c[6] = Clock(c[5], rest[2])
  BY <1>1
<1>4. Follows(c, rest, 4) => /\ c[5] = Clock(c[4], rest[1]) /\ c[6] = Clock(c[5], rest[2])
                             /\ c[7] = Clock(c[6], rest[3]) /\ c[8] = Clock(c[7], rest[4])
  BY <1>1
<1>. QED  BY <1>2, <1>3, <1>4

LEMMA EnablesBuffer ==
    ASSUME NEW d, Rests(d), NEW op \in {84, 86}, NEW page, NEW at, NEW adr, AddressIs(adr, page, at)
    PROVE  /\ Stands(Enable(d, op, page, at, <<0>>), op, 0, adr, d.status, Memory!NoAnswer, d.buf, d.page)
           /\ Stands(Enable(d, op, page, at, <<0, 0>>), op, 1, adr, d.status,
                     Looked(Spot(op, adr, 0), d.buf, d.page), d.buf, d.page)
<1>1. PICK f, o, b, p : f = d.status /\ o = Memory!NoAnswer /\ b = d.buf /\ p = d.page
  OBVIOUS
<1>2. op \in PlaceOps /\ Fillers(op) = 1
  BY FillersAre DEF PlaceOps
<1>3. PICK i \in Nat, j \in Nat, k \in Nat : i = 3 /\ j = 4 /\ j = i + 1 /\ k = 0
  OBVIOUS
<1>4. ASSUME NEW e, e = Open(op, 3, adr, f, o, b, p), NEW x
      PROVE  Stands(Clock(e, x), op, 0, adr, f, o, b, p)
  <2>1. e = Open(op, i, adr, f, o, b, p) /\ InFillers(op, i, j)
    BY <1>2, <1>3, <1>4 DEF InFillers
  <2>2. Clock(e, x) = Open(op, j, adr, f, o, b, p)
    BY <2>1, ClocksFiller
  <2>3. j = 3 + Fillers(op) + 0
    BY <1>2, <1>3
  <2>. QED  BY <1>2, <2>2, <2>3 DEF Stands, AddressIs
<1>5. Stands(Enable(d, op, page, at, <<0>>), op, 0, adr, f, o, b, p)
  <2>1. PICK rest : rest = <<0>>
    OBVIOUS
  <2>2. BytesAfter(rest, 1, 5) /\ rest[1] = 0
    <3>1. rest \in Seq({0})
      BY <2>1
    <3>2. \E S : rest \in Seq(S)
      BY <3>1, Zenon
    <3>. QED  BY <2>1, <3>2 DEF BytesAfter
  <2>3. PICK c : /\ Follows(c, rest, 1) /\ c[4] = Open(op, 3, adr, d.status, Memory!NoAnswer, d.buf, d.page)
                 /\ Enable(d, op, page, at, rest) = c[5]
    BY <1>2, <2>2, Pointed
  <2>4. c[5] = Clock(c[4], 0)
    BY <2>2, <2>3, FollowsIn
  <2>5. Stands(c[5], op, 0, adr, f, o, b, p)
    BY <1>1, <1>4, <2>3, <2>4
  <2>. QED  BY <2>1, <2>3, <2>5
<1>6. Stands(Enable(d, op, page, at, <<0, 0>>), op, 1, adr, f, Looked(Spot(op, adr, 0), b, p), b, p)
  <2>1. PICK rest : rest = <<0, 0>>
    OBVIOUS
  <2>2. BytesAfter(rest, 2, 6) /\ rest[1] = 0 /\ rest[2] = 0
    <3>1. rest \in Seq({0})
      BY <2>1
    <3>2. \E S : rest \in Seq(S)
      BY <3>1, Zenon
    <3>. QED  BY <2>1, <3>2 DEF BytesAfter
  <2>3. PICK c : /\ Follows(c, rest, 2) /\ c[4] = Open(op, 3, adr, d.status, Memory!NoAnswer, d.buf, d.page)
                 /\ Enable(d, op, page, at, rest) = c[6]
    BY <1>2, <2>2, Pointed
  <2>4. c[5] = Clock(c[4], 0) /\ c[6] = Clock(c[5], 0)
    BY <2>2, <2>3, FollowsIn
  <2>5. Stands(c[5], op, k, adr, f, o, b, p)
    BY <1>1, <1>3, <1>4, <2>3, <2>4
  <2>6. Stands(c[6], op, k + 1, adr, f, Looked(Spot(op, adr, k), b, p), b, p)
    BY <2>4, <2>5, ReadsOne
  <2>7. k + 1 = 1
    BY <1>3
  <2>. QED  BY <1>3, <2>1, <2>3, <2>6, <2>7
<1>. QED  BY <1>1, <1>5, <1>6

LEMMA EnablesFlash ==
    ASSUME NEW d, Rests(d), NEW op, op = 104, NEW page, NEW at, NEW adr, AddressIs(adr, page, at)
    PROVE  Stands(Enable(d, op, page, at, <<0, 0, 0, 0>>), op, 0, adr, d.status, Memory!NoAnswer, d.buf, d.page)
<1>1. PICK f, o, b, p : f = d.status /\ o = Memory!NoAnswer /\ b = d.buf /\ p = d.page
  OBVIOUS
<1>2. op \in PlaceOps /\ Fillers(op) = 4
  BY FillersAre DEF PlaceOps
<1>3. ASSUME NEW e, NEW i, NEW j, e = Open(op, i, adr, f, o, b, p), NEW x, i \in 3 .. 6, j = i + 1
      PROVE  Clock(e, x) = Open(op, j, adr, f, o, b, p)
  <2>1. InFillers(op, i, j)
    BY <1>2, <1>3 DEF InFillers
  <2>. QED  BY <1>3, <2>1, ClocksFiller
<1>4. PICK rest : rest = <<0, 0, 0, 0>>
  OBVIOUS
<1>5. BytesAfter(rest, 4, 8)
  <2>1. rest \in Seq({0})
    BY <1>4
  <2>2. \E S : rest \in Seq(S)
    BY <2>1, Zenon
  <2>. QED  BY <1>4, <2>2 DEF BytesAfter
<1>6. PICK c : /\ Follows(c, rest, 4) /\ c[4] = Open(op, 3, adr, d.status, Memory!NoAnswer, d.buf, d.page)
               /\ Enable(d, op, page, at, rest) = c[8]
  BY <1>2, <1>5, Pointed
<1>7. PICK x1, x2, x3, x4 : x1 = rest[1] /\ x2 = rest[2] /\ x3 = rest[3] /\ x4 = rest[4]
  OBVIOUS
<1>8. c[5] = Clock(c[4], x1) /\ c[6] = Clock(c[5], x2) /\ c[7] = Clock(c[6], x3) /\ c[8] = Clock(c[7], x4)
  BY <1>6, <1>7, FollowsIn
<1>9. c[4] = Open(op, 3, adr, f, o, b, p)
  BY <1>1, <1>6
<1>10. c[5] = Open(op, 4, adr, f, o, b, p)
  BY <1>3, <1>8, <1>9
<1>11. c[6] = Open(op, 5, adr, f, o, b, p)
  BY <1>3, <1>8, <1>10
<1>12. c[7] = Open(op, 6, adr, f, o, b, p)
  BY <1>3, <1>8, <1>11
<1>13. c[8] = Open(op, 7, adr, f, o, b, p)
  BY <1>3, <1>8, <1>12
<1>14. 3 + Fillers(op) + 0 = 7
  BY <1>2
<1>15. Stands(c[8], op, 0, adr, f, o, b, p)
  BY <1>2, <1>13, <1>14 DEF Stands, AddressIs
<1>. QED  BY <1>1, <1>4, <1>6, <1>15

LEMMA EnablesWriting ==
    ASSUME NEW d, Rests(d), NEW op \in {132, 135}, NEW page, NEW at, NEW adr, AddressIs(adr, page, at), NEW x, NEW data
    PROVE  /\ data = <<>> =>
                Stands(Enable(d, op, page, at, data), op, 0, adr, d.status, Memory!NoAnswer, d.buf, d.page)
           /\ data = <<x>> =>
                Stands(Enable(d, op, page, at, data), op, 1, adr, d.status, Memory!NoAnswer,
                       Written(d.buf, Spot(op, adr, 0), x), d.page)
           /\ data = <<x, x>> =>
                Stands(Enable(d, op, page, at, data), op, 2, adr, d.status, Memory!NoAnswer,
                       Written(Written(d.buf, Spot(op, adr, 0), x), Spot(op, adr, 1), x), d.page)
<1>1. PICK f, o, b, p : f = d.status /\ o = Memory!NoAnswer /\ b = d.buf /\ p = d.page
  OBVIOUS
<1>8. PICK b1 : b1 = Written(d.buf, Spot(op, adr, 0), x)
  OBVIOUS
<1>9. PICK b2 : b2 = Written(b1, Spot(op, adr, 1), x)
  OBVIOUS
<1>2. op \in PlaceOps /\ Fillers(op) = 0
  BY FillersAre DEF PlaceOps
<1>3. PICK i \in Nat, j \in Nat, k \in Nat : i = 0 /\ j = 1 /\ k = 2 /\ j = i + 1 /\ k = j + 1
  OBVIOUS
<1>4. ASSUME NEW e, e = Open(op, 3, adr, f, o, b, p)
      PROVE  Stands(e, op, i, adr, f, o, b, p)
  <2>1. 3 = 3 + Fillers(op) + i
    BY <1>2, <1>3
  <2>. QED  BY <1>2, <1>4, <2>1 DEF Stands, AddressIs
<1>5. Stands(Enable(d, op, page, at, <<>>), op, 0, adr, f, o, b, p)
  <2>1. PICK rest : rest = <<>>
    OBVIOUS
  <2>2. BytesAfter(rest, 0, 4)
    <3>1. rest \in Seq({0})
      BY <2>1
    <3>2. \E S : rest \in Seq(S)
      BY <3>1, Zenon
    <3>. QED  BY <2>1, <3>2 DEF BytesAfter
  <2>3. PICK c : /\ Follows(c, rest, 0) /\ c[4] = Open(op, 3, adr, d.status, Memory!NoAnswer, d.buf, d.page)
                 /\ Enable(d, op, page, at, rest) = c[4]
    BY <1>2, <2>2, Pointed
  <2>4. Stands(c[4], op, i, adr, f, o, b, p)
    BY <1>1, <1>4, <2>3
  <2>. QED  BY <1>3, <2>1, <2>3, <2>4
<1>6. Stands(Enable(d, op, page, at, <<x>>), op, 1, adr, f, o, b1, p)
  <2>1. PICK rest : rest = <<x>>
    OBVIOUS
  <2>2. BytesAfter(rest, 1, 5) /\ rest[1] = x
    <3>1. rest \in Seq({x})
      BY <2>1
    <3>2. \E S : rest \in Seq(S)
      BY <3>1, Zenon
    <3>. QED  BY <2>1, <3>2 DEF BytesAfter
  <2>3. PICK c : /\ Follows(c, rest, 1) /\ c[4] = Open(op, 3, adr, d.status, Memory!NoAnswer, d.buf, d.page)
                 /\ Enable(d, op, page, at, rest) = c[5]
    BY <1>2, <2>2, Pointed
  <2>4. c[5] = Clock(c[4], x)
    BY <2>2, <2>3, FollowsIn
  <2>5. Stands(c[4], op, i, adr, f, o, b, p)
    BY <1>1, <1>4, <2>3
  <2>6. Stands(c[5], op, i + 1, adr, f, o, Written(b, Spot(op, adr, i), x), p)
    BY <2>4, <2>5, WritesOne
  <2>7. i + 1 = 1 /\ Written(b, Spot(op, adr, i), x) = b1
    BY <1>1, <1>3, <1>8
  <2>. QED  BY <2>1, <2>3, <2>6, <2>7
<1>7. Stands(Enable(d, op, page, at, <<x, x>>), op, 2, adr, f, o, b2, p)
  <2>1. PICK rest : rest = <<x, x>>
    OBVIOUS
  <2>2. BytesAfter(rest, 2, 6) /\ rest[1] = x /\ rest[2] = x
    <3>1. rest \in Seq({x})
      BY <2>1
    <3>2. \E S : rest \in Seq(S)
      BY <3>1, Zenon
    <3>. QED  BY <2>1, <3>2 DEF BytesAfter
  <2>3. PICK c : /\ Follows(c, rest, 2) /\ c[4] = Open(op, 3, adr, d.status, Memory!NoAnswer, d.buf, d.page)
                 /\ Enable(d, op, page, at, rest) = c[6]
    BY <1>2, <2>2, Pointed
  <2>4. c[5] = Clock(c[4], x) /\ c[6] = Clock(c[5], x)
    BY <2>2, <2>3, FollowsIn
  <2>5. Stands(c[4], op, i, adr, f, o, b, p)
    BY <1>1, <1>4, <2>3
  <2>6. Stands(c[5], op, i + 1, adr, f, o, Written(b, Spot(op, adr, i), x), p)
    BY <2>4, <2>5, WritesOne
  <2>7. i + 1 = j /\ Written(b, Spot(op, adr, i), x) = b1
    BY <1>1, <1>3, <1>8
  <2>8. Stands(c[6], op, j + 1, adr, f, o, Written(b1, Spot(op, adr, j), x), p)
    BY <2>4, <2>6, <2>7, WritesOne
  <2>9. j + 1 = 2 /\ Written(b1, Spot(op, adr, j), x) = b2
    BY <1>1, <1>3, <1>9
  <2>. QED  BY <2>1, <2>3, <2>8, <2>9
<1>. QED  BY <1>1, <1>5, <1>6, <1>7, <1>8, <1>9
------------------------------------------------------------------------------
(***************************************************************************)
(* The invariant holds at a place, and a chip at a place is one of these;  *)
(* the two calls about power.                                              *)
(***************************************************************************)
LEMMA StandsRests ==
    ASSUME NEW d, NEW op, NEW k, NEW adr, NEW f, NEW o, NEW b, NEW p, Stands(d, op, k, adr, f, o, b, p)
    PROVE  Rests(d) /\ d.op = op /\ d.status = f /\ d.out = o /\ d.buf = b /\ d.page = p
<1>1. op \in PlaceOps /\ k \in Nat /\ adr \in Nat /\ d = Open(op, 3 + Fillers(op) + k, adr, f, o, b, p)
  BY DEF Stands
<1>2. PICK i : i = 3 + Fillers(op) + k
  OBVIOUS
<1>3. d.op = op /\ d.in = i /\ d.adr = adr /\ d.status = f /\ d.out = o /\ d.buf = b /\ d.page = p
  BY <1>1, <1>2 DEF Open
<1>4. AtPlace(d)
  BY <1>1, <1>2, <1>3, Zenon DEF AtPlace, PlaceOps
<1>5. d = Open(d.op, d.in, d.adr, d.status, d.out, d.buf, d.page)
  BY <1>1, <1>2, <1>3
<1>. QED  BY <1>3, <1>4, <1>5 DEF Rests

LEMMA RestsStand ==
    ASSUME NEW d, Rests(d), d.op \in PlaceOps
    PROVE  \E k : Stands(d, d.op, k, d.adr, d.status, d.out, d.buf, d.page)
<1>1. PICK op, in, adr, f, o, b, p : /\ op = d.op /\ in = d.in /\ adr = d.adr /\ f = d.status /\ o = d.out
                                     /\ b = d.buf /\ p = d.page
  OBVIOUS
<1>2. op \in PlaceOps /\ op # None /\ op # StatusReg
  BY <1>1 DEF PlaceOps, None, StatusReg
<1>3. d # Closed("up", f, b, p)
  BY <1>1, <1>2 DEF Closed
<1>4. d = Open(op, in, adr, f, o, b, p) /\ AtPlace(d)
  BY <1>1, <1>2, <1>3 DEF Rests, NothingAsked
<1>5. PICK k \in Nat : in = 3 + Fillers(op) + k
  BY <1>1, <1>4 DEF AtPlace
<1>6. adr \in Nat
  BY <1>1, <1>4 DEF AtPlace
<1>7. Stands(d, op, k, adr, f, o, b, p)
  BY <1>2, <1>4, <1>5, <1>6 DEF Stands
<1>. QED  BY <1>1, <1>7

LEMMA Falls ==
    ASSUME NEW f, NEW b, NEW p, NEW d, d = Closed("up", f, b, p)
    PROVE  Deselect(Send(Select(d), <<EnterDeepPowerdown>>)) = Closed("down", f, b, p)
<1>1. PICK x : x = EnterDeepPowerdown
  OBVIOUS
<1>2. PICK o : o = Memory!NoAnswer
  OBVIOUS
<1>3. Select(d) = Open(None, 0, 0, f, o, b, p)
  BY <1>2, Opens
<1>4. PICK e : e = Send(Select(d), <<x>>)
  OBVIOUS
<1>5. e = Open(x, 0, 0, f, o, b, p)
  BY <1>3, <1>4, OneSent, ClocksOpcode
<1>6. e.op = 185 /\ e.cs = "low" /\ e.in = 0
  BY <1>1, <1>5 DEF Open, EnterDeepPowerdown
<1>7. PICK g : g = [e EXCEPT !.cs = "high", !.op = None, !.in = 0, !.adr = 0, !.out = Memory!NoAnswer]
  OBVIOUS
<1>8. PICK h : h = [g EXCEPT !.power = "down"]
  OBVIOUS
<1>9. PICK y : y = Deselect(e)
  OBVIOUS
<1>10. y = h
  BY <1>6, <1>7, <1>8, <1>9 DEF Deselect, PageEraseCmd, EnterDeepPowerdown, ExitDeepPowerdown
<1>11. g = Closed("up", f, b, p)
  BY <1>5, <1>7 DEF Open, Closed
<1>12. h = Closed("down", f, b, p)
  BY <1>8, <1>11, ShutChanges
<1>. QED  BY <1>1, <1>4, <1>9, <1>10, <1>12

LEMMA Wakes ==
    ASSUME NEW f, NEW b, NEW p, NEW d, d = Closed("down", f, b, p)
    PROVE  Deselect(Send(Select(d), <<ExitDeepPowerdown>>)) = Closed("up", f, b, p)
<1>1. PICK x : x = ExitDeepPowerdown
  OBVIOUS
<1>2. PICK a : a = Select(d)
  OBVIOUS
<1>3. a = [d EXCEPT !.cs = "low"]
  BY <1>2 DEF Select
<1>4. a.cs = "low" /\ a.power = "down" /\ a.op = None
  BY <1>3 DEF Closed
<1>5. PICK e : e = [a EXCEPT !.op = x]
  OBVIOUS
<1>13. PICK t : t = Clock(a, x)
  OBVIOUS
<1>14. t = e
  BY <1>1, <1>4, <1>5, <1>13 DEF Clock, None, StatusReg, BufWrite, ExitDeepPowerdown
<1>15. e = Send(Select(d), <<x>>)
  BY <1>2, <1>13, <1>14, OneSent
<1>6. e.op = 171 /\ e.cs = "low" /\ e.in = 0
  BY <1>1, <1>3, <1>5 DEF Closed, ExitDeepPowerdown
<1>7. PICK g : g = [e EXCEPT !.cs = "high", !.op = None, !.in = 0, !.adr = 0, !.out = Memory!NoAnswer]
  OBVIOUS
<1>8. PICK h : h = [g EXCEPT !.power = "up"]
  OBVIOUS
<1>9. PICK y : y = Deselect(e)
  OBVIOUS
<1>10. y = h
  BY <1>6, <1>7, <1>8, <1>9 DEF Deselect, PageEraseCmd, EnterDeepPowerdown, ExitDeepPowerdown
<1>11. g = Closed("down", f, b, p)
  BY <1>3, <1>5, <1>7 DEF Closed
<1>12. h = Closed("up", f, b, p)
  BY <1>8, <1>11, ShutChanges
<1>. QED  BY <1>1, <1>9, <1>10, <1>12, <1>15

------------------------------------------------------------------------------
(***************************************************************************)
(* Every call is a step of FlashMemory: Memory sees what it leaves.        *)
(***************************************************************************)
LEMMA Seen ==
    ASSUME NEW e, NEW r, CallsFlash(e, r)
    PROVE  /\ Place(df)' = Place(e) /\ dfAnswer' = r /\ df.buf' = e.buf /\ df.page' = e.page
           /\ Rests(e) => FlashInv'
<1>1. df' = e /\ dfAnswer' = r
  BY DEF CallsFlash
<1>2. Place(df)' = Place(e)
  BY <1>1
<1>3. Rests(e) => FlashInv'
  BY <1>1 DEF FlashInv
<1>. QED  BY <1>1, <1>2, <1>3

LEMMA PageCallLeaves ==
    ASSUME NEW d, Rests(d), NEW op \in PageOps, NEW page \in Pages, NEW e, e = PageCall(d, op, page)
    PROVE  /\ Rests(e) /\ Place(e) = Memory!Nowhere
           /\ e.out = StatusDone(op, page, d.status, d.buf, d.page)
           /\ e.buf = BufDone(op, page, d.buf, d.page) /\ e.page = PageDone(op, page, d.buf, d.page)
<1>1. PICK f, b, p : /\ f = StatusDone(op, page, d.status, d.buf, d.page)
                     /\ b = BufDone(op, page, d.buf, d.page) /\ p = PageDone(op, page, d.buf, d.page)
  OBVIOUS
<1>2. e = Open(StatusReg, 1, 0, f, f, b, p)
  BY <1>1, PageCalls
<1>3. e.op = StatusReg /\ e.out = f /\ e.buf = b /\ e.page = p
  BY <1>2 DEF Open
<1>4. Rests(e)
  BY <1>2 DEF Rests, Open
<1>5. Place(e) = Memory!Nowhere
  BY <1>3, NoPlace DEF PlaceOps, StatusReg
<1>. QED  BY <1>1, <1>3, <1>4, <1>5

LEMMA BuffersGo ==
    ASSUME Rests(df), BufferToPage
    PROVE  FlashStep /\ FlashInv'
<1>1. PICK b \in Memory!Buffers, p \in Pages : CallsFlash(PageCall(df, BufToFlashWE(b), p), Memory!NoAnswer)
  BY DEF BufferToPage
<1>2. PICK op : op = BufToFlashWE(b)
  OBVIOUS
<1>3. op \in {131, 134} /\ op \in PageOps /\ BufferOf(op) = b
  BY <1>2 DEF BufToFlashWE, Memory!Buffers, BufferOf, PageOps
<1>4. PICK e : e = PageCall(df, op, p)
  OBVIOUS
<1>5. /\ Rests(e) /\ Place(e) = Memory!Nowhere
      /\ e.buf = BufDone(op, p, df.buf, df.page) /\ e.page = PageDone(op, p, df.buf, df.page)
  BY <1>3, <1>4, PageCallLeaves
<1>6. e.buf = df.buf /\ e.page = [df.page EXCEPT ![p] = df.buf[b]]
  BY <1>3, <1>5 DEF BufDone, PageDone
<1>7. CallsFlash(e, Memory!NoAnswer)
  BY <1>1, <1>2, <1>4
<1>8. /\ Place(df)' = Memory!Nowhere /\ dfAnswer' = Memory!NoAnswer /\ df.buf' = df.buf
      /\ df.page' = [df.page EXCEPT ![p] = df.buf[b]] /\ FlashInv'
  BY <1>5, <1>6, <1>7, Seen
<1>9. Memory!Copy(b, p)
  BY <1>8 DEF Memory!Copy
<1>. QED  BY <1>8, <1>9 DEF FlashStep, Memory!MemNext

LEMMA PagesCome ==
    ASSUME Rests(df), PageToBuffer
    PROVE  FlashStep /\ FlashInv'
<1>1. PICK b \in Memory!Buffers, p \in Pages : CallsFlash(PageCall(df, FlashToBuf(b), p), Memory!NoAnswer)
  BY DEF PageToBuffer
<1>2. PICK op : op = FlashToBuf(b)
  OBVIOUS
<1>3. op \in {83, 85} /\ op \in PageOps /\ BufferOf(op) = b
  BY <1>2 DEF FlashToBuf, Memory!Buffers, BufferOf, PageOps
<1>4. PICK e : e = PageCall(df, op, p)
  OBVIOUS
<1>5. /\ Rests(e) /\ Place(e) = Memory!Nowhere
      /\ e.buf = BufDone(op, p, df.buf, df.page) /\ e.page = PageDone(op, p, df.buf, df.page)
  BY <1>3, <1>4, PageCallLeaves
<1>6. e.page = df.page /\ e.buf = [df.buf EXCEPT ![b] = df.page[p]]
  BY <1>3, <1>5 DEF BufDone, PageDone
<1>7. CallsFlash(e, Memory!NoAnswer)
  BY <1>1, <1>2, <1>4
<1>8. /\ Place(df)' = Memory!Nowhere /\ dfAnswer' = Memory!NoAnswer /\ df.page' = df.page
      /\ df.buf' = [df.buf EXCEPT ![b] = df.page[p]] /\ FlashInv'
  BY <1>5, <1>6, <1>7, Seen
<1>9. Memory!Load(b, p)
  BY <1>8 DEF Memory!Load
<1>. QED  BY <1>8, <1>9 DEF FlashStep, Memory!MemNext

LEMMA PagesGo ==
    ASSUME Rests(df), PageErase
    PROVE  FlashStep /\ FlashInv'
<1>1. PICK p \in Pages : CallsFlash(PageCall(df, PageEraseCmd, p), Memory!NoAnswer)
  BY DEF PageErase
<1>2. PICK op : op = PageEraseCmd
  OBVIOUS
<1>3. op = 129 /\ op \in PageOps
  BY <1>2 DEF PageEraseCmd, PageOps
<1>4. PICK e : e = PageCall(df, op, p)
  OBVIOUS
<1>5. /\ Rests(e) /\ Place(e) = Memory!Nowhere
      /\ e.buf = BufDone(op, p, df.buf, df.page) /\ e.page = PageDone(op, p, df.buf, df.page)
  BY <1>3, <1>4, PageCallLeaves
<1>6. e.buf = df.buf /\ e.page = [df.page EXCEPT ![p] = Memory!Blank]
  BY <1>3, <1>5 DEF BufDone, PageDone
<1>7. CallsFlash(e, Memory!NoAnswer)
  BY <1>1, <1>2, <1>4
<1>8. /\ Place(df)' = Memory!Nowhere /\ dfAnswer' = Memory!NoAnswer /\ df.buf' = df.buf
      /\ df.page' = [df.page EXCEPT ![p] = Memory!Blank] /\ FlashInv'
  BY <1>5, <1>6, <1>7, Seen
<1>9. Memory!Erase(p)
  BY <1>8 DEF Memory!Erase
<1>. QED  BY <1>8, <1>9 DEF FlashStep, Memory!MemNext

LEMMA Compares ==
    ASSUME Rests(df), PageBufferCompare
    PROVE  FlashStep /\ FlashInv'
<1>1. PICK b \in Memory!Buffers, p \in Pages :
         CallsFlash(PageCall(df, FlashToBufCompare(b), p), PageCall(df, FlashToBufCompare(b), p).out)
  BY DEF PageBufferCompare
<1>2. PICK op : op = FlashToBufCompare(b)
  OBVIOUS
<1>3. op \in {96, 97} /\ op \in PageOps /\ BufferOf(op) = b
  BY <1>2 DEF FlashToBufCompare, Memory!Buffers, BufferOf, PageOps
<1>4. PICK e : e = PageCall(df, op, p)
  OBVIOUS
<1>5. /\ Rests(e) /\ Place(e) = Memory!Nowhere /\ e.out = StatusDone(op, p, df.status, df.buf, df.page)
      /\ e.buf = BufDone(op, p, df.buf, df.page) /\ e.page = PageDone(op, p, df.buf, df.page)
  BY <1>3, <1>4, PageCallLeaves
<1>6. /\ e.buf = df.buf /\ e.page = df.page
      /\ e.out = IF df.buf[b] = df.page[p] THEN Memory!Same ELSE Memory!Differ
  BY <1>3, <1>5 DEF BufDone, PageDone, StatusDone
<1>7. CallsFlash(e, e.out)
  BY <1>1, <1>2, <1>4
<1>8. /\ Place(df)' = Memory!Nowhere /\ dfAnswer' = e.out /\ df.buf' = df.buf /\ df.page' = df.page /\ FlashInv'
  BY <1>5, <1>6, <1>7, Seen
<1>9. Memory!Compare(b, p)
  BY <1>6, <1>8 DEF Memory!Compare
<1>. QED  BY <1>8, <1>9 DEF FlashStep, Memory!MemNext

LEMMA CellAddress ==
    ASSUME NEW page \in Nat, page < 2048, NEW at \in Cells
    PROVE  \E adr : PlaceOf(adr, page, at)
<1>1. at \in Nat /\ at < PageSize /\ at < 512 /\ page \in Nat
  BY DataflashAssumption DEF DataflashAssumption
<1>2. PICK adr \in Nat : adr = page * 512 + at
  BY <1>1
<1>. QED  BY <1>1, <1>2 DEF AddressIs, PlaceOf

\* The chip stands where Point() says.
LEMMA Points ==
    ASSUME NEW e, CallsFlash(e, Memory!NoAnswer), NEW op, NEW k, NEW adr, NEW f, NEW o,
           Stands(e, op, k, adr, f, o, df.buf, df.page),
           NEW use, NEW of, NEW at, Spot(op, adr, k) = [use |-> use, of |-> of, at |-> at]
    PROVE  Memory!Point(use, of, at) /\ FlashInv'
<1>1. Place(e) = Spot(op, adr, k)
  BY PlaceIs
<1>2. Rests(e) /\ e.buf = df.buf /\ e.page = df.page
  BY StandsRests
<1>3. /\ Place(df)' = Spot(op, adr, k) /\ dfAnswer' = Memory!NoAnswer /\ df.buf' = df.buf /\ df.page' = df.page
      /\ FlashInv'
  BY <1>1, <1>2, Seen
<1>. QED  BY <1>3 DEF Memory!Point

LEMMA FlashPoints ==
    ASSUME Rests(df), ContFlashReadEnable
    PROVE  FlashStep /\ FlashInv'
<1>1. PICK p \in Pages, at \in Cells : CallsFlash(Enable(df, ContArrayRead, p, at, <<0, 0, 0, 0>>), Memory!NoAnswer)
  BY DEF ContFlashReadEnable
<1>2. PICK op : op = 104
  OBVIOUS
<1>3. op \in PlaceOps /\ op = ContArrayRead /\ UseOf(op) = "flash"
  BY <1>2 DEF PlaceOps, ContArrayRead, UseOf
<1>4. p \in Nat /\ p < 2048
  BY DataflashAssumption DEF DataflashAssumption
<1>5. PICK adr : PlaceOf(adr, p, at)
  BY <1>4, CellAddress
<1>6. PICK e : e = Enable(df, op, p, at, <<0, 0, 0, 0>>)
  OBVIOUS
<1>7. Stands(e, op, 0, adr, df.status, Memory!NoAnswer, df.buf, df.page)
  BY <1>2, <1>5, <1>6, EnablesFlash DEF PlaceOf
<1>8. Spot(op, adr, 0) = [use |-> "flash", of |-> p, at |-> at]
  BY <1>2, <1>3, <1>5, SpotStarts
<1>9. CallsFlash(e, Memory!NoAnswer)
  BY <1>1, <1>3, <1>6
<1>10. Memory!Point("flash", p, at) /\ FlashInv'
  BY <1>7, <1>8, <1>9, Points
<1>. QED  BY <1>10 DEF FlashStep, Memory!MemNext

LEMMA BufferPoints ==
    ASSUME Rests(df), BufferReadEnable
    PROVE  FlashStep /\ FlashInv'
<1>1. PICK b \in Memory!Buffers, at \in Cells : CallsFlash(Enable(df, BufRead(b), 0, at, <<0>>), Memory!NoAnswer)
  BY DEF BufferReadEnable
<1>2. PICK op : op = BufRead(b)
  OBVIOUS
<1>3. op \in {84, 86} /\ op \in PlaceOps /\ op # 104 /\ BufferOf(op) = b /\ UseOf(op) = "read"
  BY <1>2 DEF PlaceOps, BufRead, UseOf, BufferOf, Memory!Buffers
<1>4. PICK page \in Nat : page = 0 /\ page < 2048
  OBVIOUS
<1>5. PICK adr : PlaceOf(adr, page, at)
  BY <1>4, CellAddress
<1>6. PICK e : e = Enable(df, op, page, at, <<0>>)
  OBVIOUS
<1>7. Stands(e, op, 0, adr, df.status, Memory!NoAnswer, df.buf, df.page)
  BY <1>3, <1>5, <1>6, EnablesBuffer DEF PlaceOf
<1>8. Spot(op, adr, 0) = [use |-> "read", of |-> b, at |-> at]
  BY <1>3, <1>5, SpotStarts
<1>9. CallsFlash(e, Memory!NoAnswer)
  BY <1>1, <1>2, <1>4, <1>6
<1>10. Memory!Point("read", b, at) /\ FlashInv'
  BY <1>7, <1>8, <1>9, Points
<1>. QED  BY <1>10 DEF FlashStep, Memory!MemNext

\* What is under the place is what is looked at.
LEMMA UnderIs ==
    ASSUME NEW spot
    PROVE  Memory!Under(spot) = Looked(spot, df.buf, df.page)
<1>1. PICK u, v : u = Memory!Under(spot) /\ v = Looked(spot, df.buf, df.page)
  OBVIOUS
<1>2. PICK x, y : x = Memory!At(df.buf[spot.of], spot.at) /\ y = Memory!At(df.page[spot.of], spot.at)
  OBVIOUS
<1>3. u = IF spot.use = "read" THEN x ELSE IF spot.use = "flash" /\ spot.of \in Pages THEN y ELSE Memory!Unknown
  BY <1>1, <1>2 DEF Memory!Under
<1>4. v = IF spot.use = "read" THEN x ELSE IF spot.use = "flash" /\ spot.of \in Pages THEN y ELSE Memory!Unknown
  BY <1>1, <1>2 DEF Looked
<1>. QED  BY <1>1, <1>3, <1>4

LEMMA BufferReads ==
    ASSUME Rests(df), BufferReadByte
    PROVE  FlashStep /\ FlashInv'
<1>1. PICK b \in Memory!Buffers, at \in Cells :
         CallsFlash(Enable(df, BufRead(b), 0, at, <<0, 0>>), Enable(df, BufRead(b), 0, at, <<0, 0>>).out)
  BY DEF BufferReadByte
<1>2. PICK op : op = BufRead(b)
  OBVIOUS
<1>3. op \in {84, 86} /\ op \in PlaceOps /\ op # 104 /\ BufferOf(op) = b /\ UseOf(op) = "read"
  BY <1>2 DEF PlaceOps, BufRead, UseOf, BufferOf, Memory!Buffers
<1>4. PICK page \in Nat : page = 0 /\ page < 2048
  OBVIOUS
<1>5. PICK adr : PlaceOf(adr, page, at)
  BY <1>4, CellAddress
<1>6. PICK e : e = Enable(df, op, page, at, <<0, 0>>)
  OBVIOUS
<1>7. PICK spot : spot = Spot(op, adr, 0)
  OBVIOUS
<1>8. spot = [use |-> "read", of |-> b, at |-> at]
  BY <1>3, <1>5, <1>7, SpotStarts
<1>9. PICK v : v = Looked(spot, df.buf, df.page)
  OBVIOUS
<1>10. Stands(e, op, 1, adr, df.status, v, df.buf, df.page)
  BY <1>3, <1>5, <1>6, <1>7, <1>9, EnablesBuffer DEF PlaceOf
<1>11. Place(e) = Spot(op, adr, 1)
  BY <1>10, PlaceIs
<1>12. Rests(e) /\ e.buf = df.buf /\ e.page = df.page /\ e.out = v
  BY <1>10, StandsRests
<1>13. Spot(op, adr, 1) = Memory!Further(spot)
  <2>1. PICK i \in Nat : i = 0
    OBVIOUS
  <2>2. Spot(op, adr, i + 1) = Memory!Further(Spot(op, adr, i))
    BY <1>3, <1>5, SpotMoves DEF PlaceOf, AddressIs
  <2>3. i + 1 = 1
    BY <2>1
  <2>. QED  BY <1>7, <2>1, <2>2, <2>3
<1>14. CallsFlash(e, e.out)
  BY <1>1, <1>2, <1>4, <1>6
<1>15. /\ Place(df)' = Memory!Further(spot) /\ dfAnswer' = v /\ df.buf' = df.buf /\ df.page' = df.page
       /\ FlashInv'
  BY <1>11, <1>12, <1>13, <1>14, Seen
<1>16. v = Memory!At(df.buf[b], at)
  BY <1>8, <1>9 DEF Looked
<1>17. Memory!ReadAt(b, at)
  BY <1>8, <1>15, <1>16 DEF Memory!ReadAt
<1>. QED  BY <1>15, <1>17 DEF FlashStep, Memory!MemNext

LEMMA BufferWrites ==
    ASSUME Rests(df), BufferWrite
    PROVE  FlashStep /\ FlashInv'
<1>1. PICK b \in Memory!Buffers, at \in Cells, data \in {<<>>} \cup {<<x>> : x \in Data} \cup {<<x, x>> : x \in Data} :
         CallsFlash(Enable(df, BufWrite(b), 0, at, data), Memory!NoAnswer)
  BY DEF BufferWrite
<1>2. PICK op : op = BufWrite(b)
  OBVIOUS
<1>3. op \in {132, 135} /\ op \in PlaceOps /\ op # 104 /\ BufferOf(op) = b /\ UseOf(op) = "write"
  BY <1>2 DEF PlaceOps, BufWrite, UseOf, BufferOf, Memory!Buffers
<1>4. PICK page \in Nat : page = 0 /\ page < 2048
  OBVIOUS
<1>5. PICK adr : PlaceOf(adr, page, at)
  BY <1>4, CellAddress
<1>6. PICK e : e = Enable(df, op, page, at, data)
  OBVIOUS
<1>7. CallsFlash(e, Memory!NoAnswer)
  BY <1>1, <1>2, <1>4, <1>6
<1>8. PICK first : first = Spot(op, adr, 0)
  OBVIOUS
<1>9. first = [use |-> "write", of |-> b, at |-> at]
  BY <1>3, <1>5, <1>8, SpotStarts
<1>15. AddressIs(adr, page, at)
  BY <1>5 DEF PlaceOf
<1>10. CASE data = <<>>
  <2>2. Stands(e, op, 0, adr, df.status, Memory!NoAnswer, df.buf, df.page)
    BY <1>3, <1>6, <1>10, <1>15, EnablesWriting
  <2>3. Memory!Point("write", b, at) /\ FlashInv'
    BY <1>7, <1>8, <1>9, <2>2, Points
  <2>. QED  BY <2>3 DEF FlashStep, Memory!MemNext
<1>11. PICK second, third : second = Spot(op, adr, 1) /\ third = Spot(op, adr, 2)
  OBVIOUS
<1>12. second = Memory!Further(first) /\ third = Memory!Further(second)
  <2>1. PICK i \in Nat, j \in Nat : i = 0 /\ j = 1
    OBVIOUS
  <2>2. Spot(op, adr, i + 1) = Memory!Further(Spot(op, adr, i)) /\ Spot(op, adr, j + 1) = Memory!Further(Spot(op, adr, j))
    BY <1>3, <1>5, SpotMoves DEF PlaceOf, AddressIs
  <2>3. i + 1 = 1 /\ j + 1 = 2
    BY <2>1
  <2>. QED  BY <1>8, <1>11, <2>1, <2>2, <2>3
<1>13. second.of = b
  BY <1>3, <1>11 DEF Spot, OfPage
<1>14. ASSUME NEW x \in Data, data \in {<<x>>, <<x, x>>}
       PROVE  FlashStep /\ FlashInv'
  <2>1. PICK one, two : /\ one = Memory!Put(df.buf[b], at, x) /\ two = Memory!Put(one, second.at, x)
    OBVIOUS
  <2>2. PICK b1 : b1 = Written(df.buf, first, x)
    OBVIOUS
  <2>3. b1 = [df.buf EXCEPT ![b] = one]
    BY <1>9, <2>1, <2>2 DEF Written
  <2>4. PICK b2 : b2 = Written(b1, second, x)
    OBVIOUS
  <2>5. CASE data = <<x>>
    <3>1. Stands(e, op, 1, adr, df.status, Memory!NoAnswer, b1, df.page)
      BY <1>3, <1>6, <1>8, <1>15, <2>2, <2>5, EnablesWriting
    <3>2. Place(e) = second
      BY <1>11, <3>1, PlaceIs
    <3>3. Rests(e) /\ e.buf = b1 /\ e.page = df.page
      BY <3>1, StandsRests
    <3>4. /\ Place(df)' = second /\ dfAnswer' = Memory!NoAnswer /\ df.buf' = b1 /\ df.page' = df.page /\ FlashInv'
      BY <1>7, <3>2, <3>3, Seen
    <3>5. Memory!WriteAt(b, at, x, 1)
      BY <1>9, <1>12, <2>1, <2>3, <3>4 DEF Memory!WriteAt
    <3>. QED  BY <3>4, <3>5 DEF FlashStep, Memory!MemNext
  <2>6. CASE data = <<x, x>>
    <3>1. Stands(e, op, 2, adr, df.status, Memory!NoAnswer, b2, df.page)
      BY <1>3, <1>6, <1>8, <1>11, <1>15, <2>2, <2>4, <2>6, EnablesWriting
    <3>2. Place(e) = third
      BY <1>11, <3>1, PlaceIs
    <3>3. Rests(e) /\ e.buf = b2 /\ e.page = df.page
      BY <3>1, StandsRests
    <3>4. /\ Place(df)' = third /\ dfAnswer' = Memory!NoAnswer /\ df.buf' = b2 /\ df.page' = df.page /\ FlashInv'
      BY <1>7, <3>2, <3>3, Seen
    <3>5. b2 = [df.buf EXCEPT ![b] = two]
      BY <1>13, <2>1, <2>3, <2>4 DEF Written
    <3>6. Memory!WriteAt(b, at, x, 2)
      BY <1>9, <1>12, <2>1, <3>4, <3>5 DEF Memory!WriteAt
    <3>. QED  BY <3>4, <3>6 DEF FlashStep, Memory!MemNext
  <2>. QED  BY <1>14, <2>5, <2>6
<1>. QED  BY <1>1, <1>10, <1>14

LEMMA NextIsRead ==
    ASSUME Rests(df), ReadNextByte
    PROVE  FlashStep /\ FlashInv'
<1>1. PICK op : op = df.op
  OBVIOUS
<1>2. op \in {84, 86, 104} /\ op \in PlaceOps /\ CallsFlash(Send(df, <<0>>), Send(df, <<0>>).out)
  BY <1>1 DEF ReadNextByte, BufRead, ContArrayRead, PlaceOps
<1>3. PICK e : e = Clock(df, 0)
  OBVIOUS
<1>4. CallsFlash(e, e.out)
  BY <1>2, <1>3, OneSent
<1>5. PICK k, adr : Stands(df, op, k, adr, df.status, df.out, df.buf, df.page)
  BY <1>1, <1>2, RestsStand
<1>6. k \in Nat /\ adr \in Nat
  BY <1>5 DEF Stands
<1>7. PICK spot : spot = Spot(op, adr, k)
  OBVIOUS
<1>8. PICK v : v = Looked(spot, df.buf, df.page)
  OBVIOUS
<1>9. Stands(e, op, k + 1, adr, df.status, v, df.buf, df.page)
  BY <1>2, <1>3, <1>5, <1>7, <1>8, ReadsOne
<1>10. Place(e) = Memory!Further(spot)
  BY <1>2, <1>6, <1>7, <1>9, PlaceIs, SpotMoves
<1>11. Rests(e) /\ e.out = v /\ e.buf = df.buf /\ e.page = df.page
  BY <1>9, StandsRests
<1>12. Place(df) = spot
  BY <1>5, <1>7, PlaceIs
<1>13. /\ Place(df)' = Memory!Further(spot) /\ dfAnswer' = v /\ df.buf' = df.buf /\ df.page' = df.page /\ FlashInv'
  BY <1>4, <1>10, <1>11, Seen
<1>14. spot.use \in {"read", "flash"}
  BY <1>2, <1>7 DEF Spot, UseOf
<1>15. Memory!Read
  BY <1>8, <1>12, <1>13, <1>14, UnderIs DEF Memory!Read
<1>. QED  BY <1>13, <1>15 DEF FlashStep, Memory!MemNext

LEMMA NextIsWritten ==
    ASSUME Rests(df), WriteNextByte
    PROVE  FlashStep /\ FlashInv'
<1>1. PICK op : op = df.op
  OBVIOUS
<1>2. op \in {132, 135} /\ op \in PlaceOps
  BY <1>1 DEF WriteNextByte, BufWrite, PlaceOps
<1>3. PICK x \in Data : CallsFlash(Send(df, <<x>>), Memory!NoAnswer)
  BY DEF WriteNextByte
<1>4. PICK e : e = Clock(df, x)
  OBVIOUS
<1>5. CallsFlash(e, Memory!NoAnswer)
  BY <1>3, <1>4, OneSent
<1>6. PICK k, adr : Stands(df, op, k, adr, df.status, df.out, df.buf, df.page)
  BY <1>1, <1>2, RestsStand
<1>7. k \in Nat /\ adr \in Nat
  BY <1>6 DEF Stands
<1>8. PICK spot : spot = Spot(op, adr, k)
  OBVIOUS
<1>9. PICK b : b = Written(df.buf, spot, x)
  OBVIOUS
<1>10. Stands(e, op, k + 1, adr, df.status, df.out, b, df.page)
  BY <1>2, <1>4, <1>6, <1>8, <1>9, WritesOne
<1>11. Place(e) = Memory!Further(spot)
  BY <1>2, <1>7, <1>8, <1>10, PlaceIs, SpotMoves
<1>12. Rests(e) /\ e.buf = b /\ e.page = df.page
  BY <1>10, StandsRests
<1>13. Place(df) = spot
  BY <1>6, <1>8, PlaceIs
<1>14. /\ Place(df)' = Memory!Further(spot) /\ dfAnswer' = Memory!NoAnswer /\ df.buf' = b /\ df.page' = df.page /\ FlashInv'
  BY <1>5, <1>11, <1>12, Seen
<1>15. spot.use = "write"
  BY <1>2, <1>8 DEF Spot, UseOf
<1>16. Memory!Write(x)
  BY <1>9, <1>13, <1>14, <1>15 DEF Memory!Write, Written
<1>. QED  BY <1>14, <1>16 DEF FlashStep, Memory!MemNext

LEMMA IsActivated ==
    ASSUME Rests(df), Activate
    PROVE  FlashStep /\ FlashInv'
<1>1. PICK e : e = Select(df)
  OBVIOUS
<1>2. CallsFlash(e, Memory!NoAnswer)
  BY <1>1 DEF Activate
<1>3. Rests(e) /\ Place(e) = Place(df) /\ e.buf = df.buf /\ e.page = df.page
  <2>1. CASE df = Closed("up", df.status, df.buf, df.page)
    <3>1. e = Open(None, 0, 0, df.status, Memory!NoAnswer, df.buf, df.page)
      BY <1>1, <2>1, Opens
    <3>2. e.op = None /\ df.op = None /\ e.buf = df.buf /\ e.page = df.page
      BY <2>1, <3>1 DEF Open, Closed
    <3>3. Rests(e)
      BY <3>1 DEF Rests, Open, NothingAsked
    <3>4. Place(e) = Memory!Nowhere /\ Place(df) = Memory!Nowhere
      BY <3>2, NoPlace DEF PlaceOps, None
    <3>. QED  BY <3>2, <3>3, <3>4
  <2>2. CASE df = Open(df.op, df.in, df.adr, df.status, df.out, df.buf, df.page)
    BY <1>1, <2>2, OpensAgain
  <2>. QED  BY <2>1, <2>2 DEF Rests
<1>4. /\ Place(df)' = Place(df) /\ dfAnswer' = Memory!NoAnswer /\ df.buf' = df.buf /\ df.page' = df.page /\ FlashInv'
  BY <1>2, <1>3, Seen
<1>5. Memory!Rest
  BY <1>4 DEF Memory!Rest
<1>. QED  BY <1>4, <1>5 DEF FlashStep, Memory!MemNext

\* A chip that is deselected is at no place.
LEMMA Stops ==
    ASSUME NEW e, NEW a, CallsFlash(e, Memory!NoAnswer), e = Closed(a, df.status, df.buf, df.page)
    PROVE  FlashStep
<1>1. e.op = None /\ e.buf = df.buf /\ e.page = df.page
  BY DEF Closed
<1>2. Place(e) = Memory!Nowhere
  BY <1>1, NoPlace DEF PlaceOps, None
<1>3. /\ Place(df)' = Memory!Nowhere /\ dfAnswer' = Memory!NoAnswer /\ df.buf' = df.buf /\ df.page' = df.page
  BY <1>1, <1>2, Seen
<1>4. Memory!Stop
  BY <1>3 DEF Memory!Stop
<1>. QED  BY <1>4 DEF FlashStep, Memory!MemNext

LEMMA IsDeactivated ==
    ASSUME Rests(df), Deactivate
    PROVE  FlashStep /\ FlashInv'
<1>1. PICK e : e = Deselect(df)
  OBVIOUS
<1>2. CallsFlash(e, Memory!NoAnswer)
  BY <1>1 DEF Deactivate
<1>3. e = Closed("up", df.status, df.buf, df.page)
  BY <1>1, Resets
<1>4. Rests(e)
  BY <1>3 DEF Rests, Closed
<1>. QED  BY <1>2, <1>3, <1>4, Stops, Seen

LEMMA FallsAsleep ==
    ASSUME Rests(df), EnterDeepPowerDown
    PROVE  FlashStep /\ FlashInv'
<1>1. df.cs = "high"
  BY DEF EnterDeepPowerDown
<1>2. df = Closed("up", df.status, df.buf, df.page)
  BY <1>1 DEF Rests, Open
<1>3. PICK e : e = Deselect(Send(Select(df), <<EnterDeepPowerdown>>))
  OBVIOUS
<1>4. e = Closed("down", df.status, df.buf, df.page)
  BY <1>2, <1>3, Falls
<1>5. CallsFlash(e, Memory!NoAnswer)
  BY <1>3 DEF EnterDeepPowerDown
<1>6. e = Closed("down", e.status, e.buf, e.page)
  BY <1>4 DEF Closed
<1>7. FlashInv'
  BY <1>5, <1>6 DEF FlashInv, CallsFlash
<1>. QED  BY <1>4, <1>5, <1>7, Stops

LEMMA Awakes ==
    ASSUME df = Closed("down", df.status, df.buf, df.page), ExitDeepPowerDown
    PROVE  FlashStep /\ FlashInv'
<1>1. PICK e : e = Deselect(Send(Select(df), <<ExitDeepPowerdown>>))
  OBVIOUS
<1>2. e = Closed("up", df.status, df.buf, df.page)
  BY <1>1, Wakes
<1>3. CallsFlash(e, Memory!NoAnswer)
  BY <1>1 DEF ExitDeepPowerDown
<1>4. Rests(e)
  BY <1>2 DEF Rests, Closed
<1>. QED  BY <1>2, <1>3, <1>4, Stops, Seen

------------------------------------------------------------------------------
(***************************************************************************)
(* The refinement.                                                         *)
(***************************************************************************)
LEMMA FlashBegins == DataflashInit => FlashInv /\ Memory!MemInit
<1>1. SUFFICES ASSUME DataflashInit PROVE FlashInv /\ Memory!MemInit
  OBVIOUS
<1>2. PICK f, b, p : f = Memory!Same /\ b = [i \in Memory!Buffers |-> Memory!Blank] /\ p = [i \in Pages |-> Memory!Blank]
  OBVIOUS
<1>3. df = Closed("up", f, b, p)
  BY <1>1, <1>2 DEF DataflashInit, Closed
<1>4. df.status = f /\ df.buf = b /\ df.page = p /\ df.op = None
  BY <1>3 DEF Closed
<1>5. FlashInv
  BY <1>3, <1>4 DEF FlashInv, Rests
<1>6. Place(df) = Memory!Nowhere
  BY <1>4, NoPlace DEF PlaceOps, None
<1>7. dfAnswer = Memory!NoAnswer
  BY <1>1 DEF DataflashInit
<1>. QED  BY <1>2, <1>4, <1>5, <1>6, <1>7 DEF Memory!MemInit

\* Every call does what FlashMemory says one may.
LEMMA FlashGoesOn == FlashInv /\ [DataflashNext]_dfVars => FlashStep /\ FlashInv'
<1>1. SUFFICES ASSUME FlashInv, [DataflashNext]_dfVars PROVE FlashStep /\ FlashInv'
  OBVIOUS
<1>2. CASE UNCHANGED dfVars
  <2>1. df' = df /\ dfAnswer' = dfAnswer
    BY <1>2 DEF dfVars
  <2>2. Place(df)' = Place(df) /\ FlashInv'
    BY <1>1, <2>1 DEF FlashInv
  <2>. QED  BY <2>1, <2>2 DEF FlashStep, Memory!memVars
<1>3. CASE DataflashNext /\ df.power = "up"
  <2>1. Rests(df)
    BY <1>1, <1>3 DEF FlashInv, Closed
  <2>2. \/ BufferToPage \/ PageToBuffer \/ PageErase \/ PageBufferCompare
        \/ ContFlashReadEnable \/ BufferReadEnable \/ BufferReadByte \/ BufferWrite
        \/ ReadNextByte \/ WriteNextByte \/ Activate \/ Deactivate \/ EnterDeepPowerDown
    BY <1>3 DEF DataflashNext
  <2>. QED  BY <2>1, <2>2, BuffersGo, PagesCome, PagesGo, Compares, FlashPoints, BufferPoints, BufferReads, BufferWrites,
               NextIsRead, NextIsWritten, IsActivated, IsDeactivated, FallsAsleep
<1>4. CASE DataflashNext /\ df.power # "up"
  <2>1. df = Closed("down", df.status, df.buf, df.page)
    BY <1>1, <1>4 DEF FlashInv, Rests, Closed, Open
  <2>2. ExitDeepPowerDown
    BY <1>4 DEF DataflashNext
  <2>. QED  BY <2>1, <2>2, Awakes
<1>. QED  BY <1>1, <1>2, <1>3, <1>4

\* The library's calls, as the bytes they send, implement two buffers and the pages of a
\* flash with a place where reading or writing goes on byte by byte, as FlashMemory has
\* them: what the chip does, where a comment of the library says otherwise. Deep
\* power-down is entered and left with the chip deselected, nothing being called in it.
THEOREM FlashIsMemory == DataflashSpec => Memory!MemSpec
<1>1. FlashStep => [Memory!MemNext]_Memory!memVars
  BY DEF FlashStep
<1>. QED  BY <1>1, FlashBegins, FlashGoesOn, PTL DEF DataflashSpec, Memory!MemSpec

------------------------------------------------------------------------------
(***************************************************************************)
(* The pins.  What an access does is followed for each pin by itself: a    *)
(* pin's view of the registers, and how an access changes it.              *)
(***************************************************************************)
Viewed(r, p) ==
    [out |-> IF p \in r.ddr THEN 1 ELSE 0, high |-> IF p \in r.port THEN 1 ELSE 0,
     com |-> IF p \in r.com THEN 1 ELSE 0, duty |-> r.duty[p]]

Plain(v) == [out |-> v.out, high |-> v.high, duty |-> v.duty]

OutBy(v, a, p) ==
    IF a.reg = "ddr" THEN IF p \in a.off THEN 0 ELSE IF p \in a.on THEN 1 ELSE v.out
    ELSE IF a.reg = "input" /\ p \in a.pins THEN 0 ELSE v.out
HighBy(v, a, p) ==
    IF a.reg = "port" THEN IF p \in a.off THEN 0 ELSE IF p \in a.on THEN 1 ELSE v.high
    ELSE IF a.reg = "input" THEN IF p \in a.up THEN 1 ELSE IF p \in a.pins THEN 0 ELSE v.high
    ELSE v.high
ComBy(v, a, p) == IF a.reg = Timer(p) THEN IF p \in a.off THEN 0 ELSE IF p \in a.on THEN 1 ELSE v.com ELSE v.com
DutyBy(v, a, p) ==
    IF a.reg = Timer(p) THEN IF ComBy(v, a, p) = 1 THEN v.duty ELSE 0
    ELSE IF a.reg = "duty" /\ a.pin = p THEN IF v.com = 1 THEN a.val ELSE 0
    ELSE v.duty
By(v, a, p) == [out |-> OutBy(v, a, p), high |-> HighBy(v, a, p), com |-> ComBy(v, a, p), duty |-> DutyBy(v, a, p)]

\* the accesses that are made for pins of a set
RegistersOf(P) == {Sets(reg, on, off) : reg \in Guarded, on \in SUBSET P, off \in SUBSET P}
TimersOf(P) == {Sets(Timer(p), {p}, {}) : p \in {q \in P : Timer(q) # "none"}}
                 \cup {Sets(Timer(p), {}, {p}) : p \in {q \in P : Timer(q) # "none"}}
InputsOf(P) == {Input(pins, pulled) : pins \in SUBSET P, pulled \in SUBSET P}
DutiesOf(P) == {PwmDuty(p, val) : p \in P, val \in Int}
Devices == {[reg |-> "edge"]} \cup {[reg |-> "sample", place |-> place] : place \in Int}
AccessesOf(P) == RegistersOf(P) \cup TimersOf(P) \cup InputsOf(P) \cup DutiesOf(P)
SketchAccesses == AccessesOf(SketchPins) \cup Devices

RegTypes(r) ==
    /\ r = [ddr |-> r.ddr, port |-> r.port, com |-> r.com, duty |-> r.duty]
    /\ r.duty = [p \in Pins |-> r.duty[p]]
    /\ \A p \in Pins : /\ p \notin r.com => r.duty[p] = 0
                       /\ Timer(p) = "none" => p \notin r.com

Sound(v, p) ==
    /\ v = [out |-> v.out, high |-> v.high, com |-> v.com, duty |-> v.duty]
    /\ v.com \in {0, 1} /\ (v.com = 0 => v.duty = 0) /\ (Timer(p) = "none" => v.com = 0)

LEMMA TimerIs == \A p : Timer(p) \in {"0A", "1A", "2A", "none"}
BY DEF Timer

LEMMA AccessShapes ==
    ASSUME NEW P, NEW a \in AccessesOf(P)
    PROVE  \/ \E reg \in {"ddr", "port"}, on \in SUBSET P, off \in SUBSET P : a = [reg |-> reg, on |-> on, off |-> off]
           \/ \E p \in P : Timer(p) # "none" /\ a = [reg |-> Timer(p), on |-> {p}, off |-> {}]
           \/ \E p \in P : Timer(p) # "none" /\ a = [reg |-> Timer(p), on |-> {}, off |-> {p}]
           \/ \E pins \in SUBSET P, pulled \in SUBSET P : a = [reg |-> "input", pins |-> pins, up |-> pulled]
           \/ \E p \in P, val \in Int : a = [reg |-> "duty", pin |-> p, val |-> val]
BY DEF AccessesOf, RegistersOf, TimersOf, InputsOf, DutiesOf, Guarded, Sets, Input, PwmDuty

\* An access changes each pin's view as said above.
LEMMA AccessIsSeen ==
    ASSUME NEW r, RegTypes(r), NEW P, P \subseteq Pins, NEW a \in AccessesOf(P), NEW p \in Pins
    PROVE  Viewed(Accessed(r, a), p) = By(Viewed(r, p), a, p)
<1>1. PICK s : s = Accessed(r, a)
  OBVIOUS
<1>2. r = [ddr |-> r.ddr, port |-> r.port, com |-> r.com, duty |-> r.duty] /\ r.duty = [q \in Pins |-> r.duty[q]]
  BY DEF RegTypes
<1>3. Timer(p) \in {"0A", "1A", "2A", "none"}
  BY TimerIs
<1>4. PICK v : v = Viewed(r, p)
  OBVIOUS
<1>5. v.out = (IF p \in r.ddr THEN 1 ELSE 0) /\ v.high = (IF p \in r.port THEN 1 ELSE 0)
      /\ v.com = (IF p \in r.com THEN 1 ELSE 0) /\ v.duty = r.duty[p]
  BY <1>4 DEF Viewed
<1>6. SUFFICES /\ (IF p \in s.ddr THEN 1 ELSE 0) = OutBy(v, a, p)
               /\ (IF p \in s.port THEN 1 ELSE 0) = HighBy(v, a, p)
               /\ (IF p \in s.com THEN 1 ELSE 0) = ComBy(v, a, p)
               /\ s.duty[p] = DutyBy(v, a, p)
  BY <1>1, <1>4 DEF Viewed, By
<1>7. ASSUME NEW reg \in {"ddr", "port"}, NEW on, NEW off, a = [reg |-> reg, on |-> on, off |-> off]
      PROVE  /\ (IF p \in s.ddr THEN 1 ELSE 0) = OutBy(v, a, p)
             /\ (IF p \in s.port THEN 1 ELSE 0) = HighBy(v, a, p)
             /\ (IF p \in s.com THEN 1 ELSE 0) = ComBy(v, a, p)
             /\ s.duty[p] = DutyBy(v, a, p)
  <2>1. CASE reg = "ddr"
    <3>1. s = [r EXCEPT !.ddr = (r.ddr \cup on) \ off]
      BY <1>1, <1>7, <2>1 DEF Accessed, Stored, Changed, Contents
    <3>2. s.ddr = (r.ddr \cup on) \ off /\ s.port = r.port /\ s.com = r.com /\ s.duty = r.duty
      BY <1>2, <3>1
    <3> QED
      BY <1>3, <1>5, <1>7, <2>1, <3>2 DEF OutBy, HighBy, ComBy, DutyBy
  <2>2. CASE reg = "port"
    <3>1. s = [r EXCEPT !.port = (r.port \cup on) \ off]
      BY <1>1, <1>7, <2>2 DEF Accessed, Stored, Changed, Contents
    <3>2. s.ddr = r.ddr /\ s.port = (r.port \cup on) \ off /\ s.com = r.com /\ s.duty = r.duty
      BY <1>2, <3>1
    <3> QED
      BY <1>3, <1>5, <1>7, <2>2, <3>2 DEF OutBy, HighBy, ComBy, DutyBy
  <2> QED
    BY <2>1, <2>2
<1>8. ASSUME NEW q \in P, Timer(q) # "none", NEW on, NEW off, on \subseteq {q}, off \subseteq {q}, on \cap off = {},
             a = [reg |-> Timer(q), on |-> on, off |-> off]
      PROVE  /\ (IF p \in s.ddr THEN 1 ELSE 0) = OutBy(v, a, p)
             /\ (IF p \in s.port THEN 1 ELSE 0) = HighBy(v, a, p)
             /\ (IF p \in s.com THEN 1 ELSE 0) = ComBy(v, a, p)
             /\ s.duty[p] = DutyBy(v, a, p)
  <2>1. PICK timer : timer = Timer(q)
    OBVIOUS
  <2>2. timer \in {"0A", "1A", "2A"}
    BY <1>8, <2>1, TimerIs
  <2>3. PICK mine : mine = TimerPins(timer)
    OBVIOUS
  <2>4. PICK c : c = ((r.com \cap mine) \cup on) \ off
    OBVIOUS
  <2>5. a.reg = timer /\ a.on = on /\ a.off = off
    BY <1>8, <2>1
  <2>6. s = [r EXCEPT !.com = (@ \ mine) \cup c, !.duty = [x \in Pins |-> IF x \in mine \ c THEN 0 ELSE @[x]]]
    BY <1>1, <2>2, <2>3, <2>4, <2>5 DEF Accessed, Stored, Changed, Contents
  <2>7. /\ s.ddr = r.ddr /\ s.port = r.port /\ s.com = (r.com \ mine) \cup c
        /\ s.duty = [x \in Pins |-> IF x \in mine \ c THEN 0 ELSE r.duty[x]]
    BY <1>2, <2>6
  <2>8. s.duty[p] = IF p \in mine \ c THEN 0 ELSE r.duty[p]
    BY <2>7
  <2>9. p \in mine <=> Timer(p) = timer
    BY <2>3 DEF TimerPins
  <2>10. q \in mine
    BY <1>8, <2>1, <2>3 DEF TimerPins
  <2>11. OutBy(v, a, p) = v.out /\ HighBy(v, a, p) = v.high
    BY <2>2, <2>5 DEF OutBy, HighBy
  <2>12. CASE Timer(p) = timer
    <3>1. ComBy(v, a, p) = IF p \in off THEN 0 ELSE IF p \in on THEN 1 ELSE v.com
      BY <2>5, <2>12 DEF ComBy
    <3>2. DutyBy(v, a, p) = IF ComBy(v, a, p) = 1 THEN v.duty ELSE 0
      BY <2>5, <2>12 DEF DutyBy
    <3>3. p \in s.com <=> p \in c
      BY <2>7, <2>9, <2>12
    <3>4. p \in c <=> ComBy(v, a, p) = 1
      BY <1>5, <2>4, <2>9, <2>12, <3>1
    <3>5. ComBy(v, a, p) \in {0, 1}
      BY <1>5, <3>1
    <3> QED
      BY <1>5, <2>7, <2>8, <2>9, <2>11, <2>12, <3>2, <3>3, <3>4, <3>5
  <2>13. CASE Timer(p) # timer
    <3>1. ComBy(v, a, p) = v.com /\ DutyBy(v, a, p) = v.duty
      BY <2>2, <2>5, <2>13 DEF ComBy, DutyBy
    <3>2. p \notin c
      BY <1>8, <2>4, <2>9, <2>10, <2>13
    <3> QED
      BY <1>5, <2>7, <2>8, <2>9, <2>11, <2>13, <3>1, <3>2
  <2> QED
    BY <2>12, <2>13
<1>9. ASSUME NEW pins, NEW pulled, a = [reg |-> "input", pins |-> pins, up |-> pulled]
      PROVE  /\ (IF p \in s.ddr THEN 1 ELSE 0) = OutBy(v, a, p)
             /\ (IF p \in s.port THEN 1 ELSE 0) = HighBy(v, a, p)
             /\ (IF p \in s.com THEN 1 ELSE 0) = ComBy(v, a, p)
             /\ s.duty[p] = DutyBy(v, a, p)
  <2>1. s = [r EXCEPT !.ddr = @ \ pins, !.port = (@ \ pins) \cup pulled]
    BY <1>1, <1>9 DEF Accessed
  <2>2. s.ddr = r.ddr \ pins /\ s.port = (r.port \ pins) \cup pulled /\ s.com = r.com /\ s.duty = r.duty
    BY <1>2, <2>1
  <2> QED
    BY <1>3, <1>5, <1>9, <2>2 DEF OutBy, HighBy, ComBy, DutyBy
<1>10. ASSUME NEW q \in P, NEW val, a = [reg |-> "duty", pin |-> q, val |-> val]
      PROVE  /\ (IF p \in s.ddr THEN 1 ELSE 0) = OutBy(v, a, p)
             /\ (IF p \in s.port THEN 1 ELSE 0) = HighBy(v, a, p)
             /\ (IF p \in s.com THEN 1 ELSE 0) = ComBy(v, a, p)
             /\ s.duty[p] = DutyBy(v, a, p)
  <2>1. PICK d : d = IF q \in r.com THEN val ELSE 0
    OBVIOUS
  <2>2. s = [r EXCEPT !.duty[q] = d]
    BY <1>1, <1>10, <2>1 DEF Accessed
  <2>3. s.ddr = r.ddr /\ s.port = r.port /\ s.com = r.com /\ s.duty = [r.duty EXCEPT ![q] = d]
    BY <1>2, <2>2
  <2>4. s.duty[p] = IF p = q THEN d ELSE r.duty[p]
    BY <1>2, <2>3
  <2> QED
    BY <1>3, <1>5, <1>10, <2>1, <2>3, <2>4 DEF OutBy, HighBy, ComBy, DutyBy
<1> QED
  BY <1>7, <1>8, <1>9, <1>10, AccessShapes

LEMMA AccessTypes ==
    ASSUME NEW r, RegTypes(r), NEW P, P \subseteq Pins, NEW a \in AccessesOf(P)
    PROVE  RegTypes(Accessed(r, a))
<1>1. PICK s : s = Accessed(r, a)
  OBVIOUS
<1>2. s = [ddr |-> s.ddr, port |-> s.port, com |-> s.com, duty |-> s.duty] /\ s.duty = [p \in Pins |-> s.duty[p]]
  <2>1. r = [ddr |-> r.ddr, port |-> r.port, com |-> r.com, duty |-> r.duty] /\ r.duty = [q \in Pins |-> r.duty[q]]
    BY DEF RegTypes
  <2>2. CASE a.reg = "input"
    BY <1>1, <2>1, <2>2 DEF Accessed
  <2>3. CASE a.reg = "duty"
    BY <1>1, <2>1, <2>3 DEF Accessed
  <2>4. CASE a.reg \in {"ddr", "port"}
    BY <1>1, <2>1, <2>4 DEF Accessed, Stored
  <2>5. CASE a.reg \notin {"input", "duty", "ddr", "port"}
    BY <1>1, <2>1, <2>5 DEF Accessed, Stored
  <2> QED
    BY <2>2, <2>3, <2>4, <2>5
<1>3. \A p \in Pins : (p \notin s.com => s.duty[p] = 0) /\ (Timer(p) = "none" => p \notin s.com)
  <2> TAKE p \in Pins
  <2>1. PICK v : v = Viewed(r, p)
    OBVIOUS
  <2>2. v.com \in {0, 1} /\ (v.com = 0 => v.duty = 0) /\ (Timer(p) = "none" => v.com = 0)
    BY <2>1 DEF Viewed, RegTypes
  <2>3. Viewed(s, p) = By(v, a, p)
    BY <1>1, <2>1, AccessIsSeen
  <2>4. (p \in s.com <=> ComBy(v, a, p) = 1) /\ s.duty[p] = DutyBy(v, a, p) /\ ComBy(v, a, p) \in {0, 1}
    BY <2>2, <2>3 DEF Viewed, By, ComBy
  <2>5. ComBy(v, a, p) = 0 => DutyBy(v, a, p) = 0
    BY <2>2 DEF ComBy, DutyBy
  <2>6. Timer(p) = "none" => ComBy(v, a, p) = 0
    <3>1. a.reg # "none"
      BY AccessShapes, TimerIs
    <3> QED
      BY <2>2, <3>1 DEF ComBy
  <2> QED
    BY <2>4, <2>5, <2>6
<1> QED
  BY <1>1, <1>2, <1>3 DEF RegTypes

------------------------------------------------------------------------------
\* A list of accesses takes the view v of the pin to w.
Runs(v, s, p, w) ==
    \E tr : /\ tr[0] = v /\ tr[Len(s)] = w
            /\ \A i \in 1 .. Len(s) : tr[i] = By(tr[i - 1], s[i], p)

LEMMA RunsNone == \A v, p, w : Runs(v, <<>>, p, w) <=> w = v
<1>1. ASSUME NEW v, NEW p PROVE Runs(v, <<>>, p, v)
  <2>1. PICK tr : tr = [i \in {0} |-> v]
    OBVIOUS
  <2>2. tr[0] = v /\ Len(<<>>) = 0 /\ \A i \in 1 .. 0 : FALSE
    BY <2>1
  <2> QED
    BY <2>2 DEF Runs
<1>2. ASSUME NEW v, NEW p, NEW w, Runs(v, <<>>, p, w) PROVE w = v
  BY <1>2 DEF Runs
<1> QED
  BY <1>1, <1>2

LEMMA RunsOne == \A v, a, p : Runs(v, <<a>>, p, By(v, a, p))
<1> TAKE v, a, p
<1>1. PICK w : w = By(v, a, p)
  OBVIOUS
<1>2. PICK tr : tr = [i \in {0, 1} |-> IF i = 0 THEN v ELSE w]
  OBVIOUS
<1>3. PICK s : s = <<a>>
  OBVIOUS
<1>4. Len(s) = 1 /\ s[1] = a
  BY <1>3
<1>5. tr[0] = v /\ tr[1] = w
  BY <1>2
<1>6. \A i \in 1 .. 1 : tr[i] = By(tr[i - 1], s[i], p)
  <2> TAKE i \in 1 .. 1
  <2>1. i = 1 /\ i - 1 = 0
    OBVIOUS
  <2> QED
    BY <1>1, <1>4, <1>5, <2>1
<1>7. Runs(v, s, p, w)
  BY <1>4, <1>5, <1>6 DEF Runs
<1> QED
  BY <1>1, <1>3, <1>7

LEMMA RunsOn ==
    ASSUME NEW S, NEW s \in Seq(S), NEW u \in Seq(S), NEW v, NEW p, NEW w, NEW x, Runs(v, s, p, w), Runs(w, u, p, x)
    PROVE  Runs(v, s \o u, p, x)
<1>1. PICK n \in Nat, k \in Nat : n = Len(s) /\ k = Len(u)
  OBVIOUS
<1>2. PICK a : a[0] = v /\ a[n] = w /\ \A i \in 1 .. n : a[i] = By(a[i - 1], s[i], p)
  BY <1>1 DEF Runs
<1>3. PICK b : b[0] = w /\ b[k] = x /\ \A i \in 1 .. k : b[i] = By(b[i - 1], u[i], p)
  BY <1>1 DEF Runs
<1>4. PICK t : t = s \o u
  OBVIOUS
<1>5. Len(t) = n + k /\ (\A i \in 1 .. n : t[i] = s[i]) /\ \A i \in n + 1 .. n + k : t[i] = u[i - n]
  BY <1>1, <1>4
<1>6. PICK tr : tr = [i \in 0 .. n + k |-> IF i <= n THEN a[i] ELSE b[i - n]]
  OBVIOUS
<1>7. tr[0] = v
  BY <1>2, <1>6
<1>8. tr[n + k] = x
  <2>1. CASE k = 0
    BY <1>2, <1>3, <1>6, <2>1
  <2>2. CASE k # 0
    <3>1. ~(n + k <= n) /\ n + k - n = k /\ n + k \in 0 .. n + k
      BY <2>2
    <3> QED
      BY <1>3, <1>6, <3>1
  <2> QED
    BY <2>1, <2>2
<1>9. \A i \in 1 .. n + k : tr[i] = By(tr[i - 1], t[i], p)
  <2> TAKE i \in 1 .. n + k
  <2>1. CASE i <= n
    <3>1. i \in 1 .. n /\ i - 1 <= n /\ i \in 0 .. n + k /\ i - 1 \in 0 .. n + k
      BY <2>1
    <3>2. tr[i] = a[i] /\ tr[i - 1] = a[i - 1] /\ t[i] = s[i]
      BY <1>5, <1>6, <2>1, <3>1
    <3> QED
      BY <1>2, <3>1, <3>2
  <2>2. CASE i = n + 1
    <3>1. ~(i <= n) /\ i - n = 1 /\ i - 1 = n /\ i - 1 <= n /\ i \in 0 .. n + k /\ i - 1 \in 0 .. n + k /\ 1 \in 1 .. k /\ 1 - 1 = 0
          /\ i \in n + 1 .. n + k
      BY <2>2
    <3>2. tr[i] = b[1] /\ tr[i - 1] = a[n] /\ t[i] = u[1]
      BY <1>5, <1>6, <3>1
    <3>3. b[1] = By(b[0], u[1], p)
      BY <1>3, <3>1
    <3> QED
      BY <1>2, <1>3, <3>2, <3>3
  <2>3. CASE i > n + 1
    <3>1. PICK j : j = i - n
      OBVIOUS
    <3>2. ~(i <= n) /\ ~(i - 1 <= n) /\ i - 1 - n = j - 1 /\ i \in 0 .. n + k /\ i - 1 \in 0 .. n + k /\ j \in 1 .. k
          /\ i \in n + 1 .. n + k
      BY <2>3, <3>1
    <3>3. tr[i] = b[j] /\ tr[i - 1] = b[j - 1] /\ t[i] = u[j]
      BY <1>5, <1>6, <3>1, <3>2
    <3> QED
      BY <1>3, <3>2, <3>3
  <2> QED
    BY <2>1, <2>2, <2>3
<1> QED
  BY <1>4, <1>5, <1>7, <1>8, <1>9 DEF Runs

\* The first access is made.
LEMMA RunsAccess ==
    ASSUME NEW S, NEW s \in Seq(S), s # <<>>, NEW v, NEW p, NEW w, Runs(v, s, p, w)
    PROVE  Runs(By(v, Head(s), p), Tail(s), p, w)
<1>1. PICK n \in Nat : n = Len(s)
  OBVIOUS
<1>2. PICK a : a[0] = v /\ a[n] = w /\ \A i \in 1 .. n : a[i] = By(a[i - 1], s[i], p)
  BY <1>1 DEF Runs
<1>3. PICK t : t = Tail(s)
  OBVIOUS
<1>4. n > 0 /\ Len(t) = n - 1 /\ Head(s) = s[1] /\ \A i \in 1 .. n - 1 : t[i] = s[i + 1]
  BY <1>1, <1>3
<1>5. PICK b : b = [i \in 0 .. n - 1 |-> a[i + 1]]
  OBVIOUS
<1>6. b[0] = By(v, Head(s), p)
  <2>1. 1 \in 1 .. n /\ 0 \in 0 .. n - 1 /\ 0 + 1 = 1 /\ 1 - 1 = 0
    BY <1>4
  <2>2. b[0] = a[1]
    BY <1>5, <2>1
  <2>3. a[1] = By(a[0], s[1], p)
    BY <1>2, <2>1
  <2> QED
    BY <1>2, <1>4, <2>2, <2>3
<1>7. b[n - 1] = w
  <2>1. n - 1 \in 0 .. n - 1 /\ n - 1 + 1 = n
    BY <1>4
  <2> QED
    BY <1>2, <1>5, <2>1
<1>8. \A i \in 1 .. n - 1 : b[i] = By(b[i - 1], t[i], p)
  <2> TAKE i \in 1 .. n - 1
  <2>1. i \in 0 .. n - 1 /\ i - 1 \in 0 .. n - 1 /\ i - 1 + 1 = i /\ i + 1 \in 1 .. n /\ i + 1 - 1 = i
    OBVIOUS
  <2>2. b[i] = a[i + 1] /\ b[i - 1] = a[i] /\ t[i] = s[i + 1]
    BY <1>4, <1>5, <2>1
  <2>3. PICK j : j = i + 1
    OBVIOUS
  <2>4. a[j] = By(a[j - 1], s[j], p) /\ j - 1 = i
    BY <1>2, <2>1, <2>3
  <2> QED
    BY <2>2, <2>3, <2>4
<1> QED
  BY <1>3, <1>4, <1>6, <1>7, <1>8 DEF Runs

\* Accesses that do nothing to the pin.
LEMMA RunsAside ==
    ASSUME NEW S, NEW s \in Seq(S), NEW v, NEW p, \A a \in S : By(v, a, p) = v
    PROVE  Runs(v, s, p, v)
<1>1. PICK n \in Nat : n = Len(s)
  OBVIOUS
<1>2. PICK tr : tr = [i \in 0 .. n |-> v]
  OBVIOUS
<1>3. tr[0] = v /\ tr[n] = v
  BY <1>2
<1>4. \A i \in 1 .. n : tr[i] = By(tr[i - 1], s[i], p)
  <2> TAKE i \in 1 .. n
  <2>1. i \in 0 .. n /\ i - 1 \in 0 .. n /\ s[i] \in S
    BY <1>1
  <2> QED
    BY <1>2, <2>1
<1> QED
  BY <1>1, <1>3, <1>4 DEF Runs

\* Accesses for one pin do nothing to the views of others, with other timers or not driven.
LEMMA OthersUntouched ==
    ASSUME NEW P, NEW a \in AccessesOf(P), NEW p, p \notin P, NEW v, Sound(v, p)
    PROVE  By(v, a, p) = v
<1>1. OutBy(v, a, p) = v.out
  BY AccessShapes, TimerIs DEF OutBy
<1>2. HighBy(v, a, p) = v.high
  BY AccessShapes, TimerIs DEF HighBy
<1>3. ComBy(v, a, p) = v.com
  BY AccessShapes, TimerIs DEF ComBy
<1>4. DutyBy(v, a, p) = v.duty
  BY <1>3, AccessShapes, TimerIs DEF DutyBy, Sound
<1> QED
  BY <1>1, <1>2, <1>3, <1>4 DEF By, Sound

------------------------------------------------------------------------------
(* Calls *)
Off(v) == [out |-> v.out, high |-> v.high, com |-> 0, duty |-> 0]
Told(v, high) == [out |-> v.out, high |-> high, com |-> 0, duty |-> 0]

LEMMA OfOnePin ==
    ASSUME NEW p
    PROVE  /\ \A m : pinMode(p, m) \in Seq(AccessesOf({p})) /\ Len(pinMode(p, m)) = 1
           /\ turnOffPWM(p) \in Seq(AccessesOf({p})) /\ Len(turnOffPWM(p)) <= 1
           /\ \A v : digitalWrite(p, v) \in Seq(AccessesOf({p})) /\ Len(digitalWrite(p, v)) <= 2
           /\ digitalRead(p) \in Seq(AccessesOf({p})) /\ Len(digitalRead(p)) <= 1
           /\ \A v \in Int : analogWrite(p, v) \in Seq(AccessesOf({p})) /\ Len(analogWrite(p, v)) <= 3
<1>1. PICK S : S = AccessesOf({p})
  OBVIOUS
<1>2. \A reg \in {"ddr", "port"} : Sets(reg, {p}, {}) \in S /\ Sets(reg, {}, {p}) \in S
  BY <1>1 DEF AccessesOf, RegistersOf, Guarded
<1>3. Input({p}, {p}) \in S /\ Input({p}, {}) \in S
  BY <1>1 DEF AccessesOf, InputsOf
<1>4. Timer(p) # "none" => Sets(Timer(p), {p}, {}) \in S /\ Sets(Timer(p), {}, {p}) \in S
  BY <1>1 DEF AccessesOf, TimersOf
<1>5. \A v \in Int : PwmDuty(p, v) \in S
  BY <1>1 DEF AccessesOf, DutiesOf
<1>6. \A m : pinMode(p, m) \in Seq(S) /\ Len(pinMode(p, m)) = 1
  BY <1>2, <1>3 DEF pinMode
<1>7. turnOffPWM(p) \in Seq(S) /\ Len(turnOffPWM(p)) <= 1
  BY <1>4 DEF turnOffPWM
<1>8. ASSUME NEW v PROVE digitalWrite(p, v) \in Seq(S) /\ Len(digitalWrite(p, v)) <= 2
  <2>1. PICK s : s = IF v = 0 THEN <<Sets("port", {}, {p})>> ELSE <<Sets("port", {p}, {})>>
    OBVIOUS
  <2>2. s \in Seq(S) /\ Len(s) = 1
    BY <1>2, <2>1
  <2>3. digitalWrite(p, v) = turnOffPWM(p) \o s
    BY <2>1 DEF digitalWrite
  <2>4. PICK t : t = turnOffPWM(p)
    OBVIOUS
  <2>5. t \o s \in Seq(S) /\ Len(t \o s) = Len(t) + Len(s)
    BY <1>7, <2>2, <2>4, ConcatProperties
  <2> QED
    BY <1>7, <2>2, <2>3, <2>4, <2>5
<1>9. ASSUME NEW v \in Int PROVE analogWrite(p, v) \in Seq(S) /\ Len(analogWrite(p, v)) <= 3
  <2>1. \E s \in Seq(S) : Len(s) <= 2 /\ analogWrite(p, v) = pinMode(p, "OUTPUT") \o s
    <3>1. CASE v = 0
      <4>1. analogWrite(p, v) = pinMode(p, "OUTPUT") \o digitalWrite(p, 0)
        BY <3>1 DEF analogWrite
      <4> QED
        BY <1>8, <4>1
    <3>2. CASE v = 255
      <4>1. analogWrite(p, v) = pinMode(p, "OUTPUT") \o digitalWrite(p, 1)
        BY <3>2 DEF analogWrite
      <4> QED
        BY <1>8, <4>1
    <3>3. CASE v # 0 /\ v # 255 /\ Timer(p) # "none"
      <4>1. PICK x \in S, y \in S : x = Sets(Timer(p), {p}, {}) /\ y = PwmDuty(p, v)
        BY <1>4, <1>5, <3>3
      <4>2. analogWrite(p, v) = pinMode(p, "OUTPUT") \o <<x, y>>
        BY <3>3, <4>1 DEF analogWrite
      <4> QED
        <5>1. PICK s : s = <<x, y>>
          OBVIOUS
        <5>2. s \in Seq(S) /\ Len(s) <= 2
          BY <5>1
        <5> QED
          BY <4>2, <5>1, <5>2
    <3>4. CASE v # 0 /\ v # 255 /\ Timer(p) = "none"
      <4>1. PICK b : b = IF v < 128 THEN 0 ELSE 1
        OBVIOUS
      <4>2. analogWrite(p, v) = pinMode(p, "OUTPUT") \o digitalWrite(p, b)
        BY <3>4, <4>1 DEF analogWrite
      <4> QED
        BY <1>8, <4>2
    <3> QED
      BY <3>1, <3>2, <3>3, <3>4
  <2>2. PICK s \in Seq(S) : Len(s) <= 2 /\ analogWrite(p, v) = pinMode(p, "OUTPUT") \o s
    BY <2>1
  <2>3. PICK t : t = pinMode(p, "OUTPUT")
    OBVIOUS
  <2>4. t \o s \in Seq(S) /\ Len(t \o s) = Len(t) + Len(s)
    BY <1>6, <2>3, ConcatProperties
  <2> QED
    BY <1>6, <2>2, <2>3, <2>4
<1> QED
  BY <1>1, <1>6, <1>7, <1>8, <1>9 DEF digitalRead

LEMMA TurnsOff ==
    ASSUME NEW p, NEW v, Sound(v, p)
    PROVE  Runs(v, turnOffPWM(p), p, Off(v))
<1>1. CASE Timer(p) = "none"
  <2>1. turnOffPWM(p) = <<>>
    BY <1>1 DEF turnOffPWM
  <2>2. Off(v) = v
    BY <1>1 DEF Off, Sound
  <2> QED
    BY <2>1, <2>2, RunsNone
<1>2. CASE Timer(p) # "none"
  <2>1. PICK a : a = Sets(Timer(p), {}, {p})
    OBVIOUS
  <2>2. turnOffPWM(p) = <<a>>
    BY <1>2, <2>1 DEF turnOffPWM
  <2>3. By(v, a, p) = Off(v)
    BY <1>2, <2>1, TimerIs DEF By, OutBy, HighBy, ComBy, DutyBy, Off, Sets
  <2> QED
    BY <2>2, <2>3, RunsOne
<1> QED
  BY <1>1, <1>2

LEMMA DigitalWrites ==
    ASSUME NEW p, NEW v, Sound(v, p), NEW b
    PROVE  Runs(v, digitalWrite(p, b), p, Told(v, IF b = 0 THEN 0 ELSE 1))
<1>1. PICK a : a = IF b = 0 THEN Sets("port", {}, {p}) ELSE Sets("port", {p}, {})
  OBVIOUS
<1>2. PICK u : u = <<a>>
  OBVIOUS
<1>3. digitalWrite(p, b) = turnOffPWM(p) \o u
  BY <1>1, <1>2 DEF digitalWrite
<1>4. PICK S : S = AccessesOf({p})
  OBVIOUS
<1>5. a \in S
  BY <1>1, <1>4 DEF AccessesOf, RegistersOf, Guarded
<1>6. u \in Seq(S)
  BY <1>2, <1>5
<1>7. turnOffPWM(p) \in Seq(S)
  BY <1>4, OfOnePin
<1>8. By(Off(v), a, p) = Told(v, IF b = 0 THEN 0 ELSE 1)
  BY <1>1, TimerIs DEF By, OutBy, HighBy, ComBy, DutyBy, Off, Told, Sets
<1>9. Runs(Off(v), u, p, Told(v, IF b = 0 THEN 0 ELSE 1))
  BY <1>2, <1>8, RunsOne
<1> QED
  BY <1>3, <1>6, <1>7, <1>9, TurnsOff, RunsOn

\* A call for a pin makes it what the call promises.
LEMMA CallGives ==
    ASSUME NEW p \in Pins, NEW v, Sound(v, p), v.out \in {0, 1}, want[p] = Plain(v), NEW c \in PinCalls(p)
    PROVE  /\ c.accesses \in Seq(AccessesOf({p})) /\ Len(c.accesses) <= 3
           /\ \E w : Runs(v, c.accesses, p, w) /\ c.gives = Plain(w)
<1>1. v = [out |-> v.out, high |-> v.high, com |-> v.com, duty |-> v.duty]
  BY DEF Sound
<1>2. PICK w0 : w0 = want[p]
  OBVIOUS
<1>12. w0.out = v.out /\ w0.high = v.high /\ w0.duty = v.duty
  BY <1>2 DEF Plain
<1>3. PICK S : S = AccessesOf({p})
  OBVIOUS
<1>4. ASSUME NEW b, c = [accesses |-> digitalWrite(p, b), gives |-> Leveled(want[p], b)]
      PROVE  \E w : Runs(v, c.accesses, p, w) /\ c.gives = Plain(w)
  <2>1. PICK w : w = Told(v, IF b = 0 THEN 0 ELSE 1)
    OBVIOUS
  <2>2. Runs(v, c.accesses, p, w)
    BY <1>4, <2>1, DigitalWrites
  <2>3. c.gives = Plain(w)
    <3>1. c.gives = [out |-> v.out, high |-> IF b = 0 THEN 0 ELSE 1, duty |-> 0]
      <4>1. c.gives = Leveled(w0, b)
        BY <1>2, <1>4
      <4> QED
        BY <1>12, <4>1 DEF Leveled, PinIs
    <3> QED
      BY <2>1, <3>1 DEF Told, Plain
  <2> QED
    BY <2>2, <2>3
<1>5. ASSUME c = [accesses |-> digitalRead(p), gives |-> Unpaced(want[p])]
      PROVE  \E w : Runs(v, c.accesses, p, w) /\ c.gives = Plain(w)
  <2>1. Runs(v, c.accesses, p, Off(v))
    BY <1>5, TurnsOff DEF digitalRead
  <2>2. c.gives = Plain(Off(v))
    <3>1. c.gives = [out |-> v.out, high |-> v.high, duty |-> 0]
      <4>1. c.gives = Unpaced(w0)
        BY <1>2, <1>5
      <4> QED
        BY <1>12, <4>1 DEF Unpaced, PinIs
    <3> QED
      BY <3>1 DEF Off, Plain
  <2> QED
    BY <2>1, <2>2
<1>6. ASSUME NEW m \in Modes, c = [accesses |-> pinMode(p, m), gives |-> Moded(want[p], m)]
      PROVE  \E w : Runs(v, c.accesses, p, w) /\ c.gives = Plain(w)
  <2>1. PICK a : a = IF m = "OUTPUT" THEN Sets("ddr", {p}, {}) ELSE Input({p}, IF m = "INPUT_PULLUP" THEN {p} ELSE {})
    OBVIOUS
  <2>2. c.accesses = <<a>>
    BY <1>6, <2>1 DEF pinMode
  <2>3. PICK w : w = By(v, a, p)
    OBVIOUS
  <2>4. Runs(v, c.accesses, p, w)
    BY <2>2, <2>3, RunsOne
  <2>5. CASE m = "OUTPUT"
    <3>1. w.out = 1 /\ w.high = v.high /\ w.duty = v.duty
      BY <2>1, <2>3, <2>5, TimerIs DEF By, OutBy, HighBy, ComBy, DutyBy, Sets
    <3>2. c.gives = [out |-> 1, high |-> v.high, duty |-> v.duty]
      <4>1. c.gives = Moded(w0, m)
        BY <1>2, <1>6
      <4> QED
        BY <1>12, <2>5, <4>1 DEF Moded, PinIs
    <3> QED
      BY <2>4, <3>1, <3>2 DEF Plain
  <2>6. CASE m = "INPUT_PULLUP"
    <3>1. w.out = 0 /\ w.high = 1 /\ w.duty = v.duty
      BY <2>1, <2>3, <2>6, TimerIs DEF By, OutBy, HighBy, ComBy, DutyBy, Input
    <3>2. c.gives = [out |-> 0, high |-> 1, duty |-> v.duty]
      <4>1. c.gives = Moded(w0, m)
        BY <1>2, <1>6
      <4> QED
        BY <1>12, <2>6, <4>1 DEF Moded, PinIs
    <3> QED
      BY <2>4, <3>1, <3>2 DEF Plain
  <2>7. CASE m = "INPUT"
    <3>1. w.out = 0 /\ w.high = 0 /\ w.duty = v.duty
      BY <2>1, <2>3, <2>7, TimerIs DEF By, OutBy, HighBy, ComBy, DutyBy, Input
    <3>2. c.gives = [out |-> 0, high |-> 0, duty |-> v.duty]
      <4>1. c.gives = Moded(w0, m)
        BY <1>2, <1>6
      <4> QED
        BY <1>12, <2>7, <4>1 DEF Moded, PinIs
    <3> QED
      BY <2>4, <3>1, <3>2 DEF Plain
  <2> QED
    BY <1>6, <2>5, <2>6, <2>7 DEF Modes
<1>7. ASSUME NEW x \in Int, c = [accesses |-> analogWrite(p, x), gives |-> Driven(want[p], x, p)],
             x \in 0 .. 255
      PROVE  \E w : Runs(v, c.accesses, p, w) /\ c.gives = Plain(w)
  <2>1. PICK a : a = Sets("ddr", {p}, {})
    OBVIOUS
  <2>2. PICK s : s = <<a>>
    OBVIOUS
  <2>3. pinMode(p, "OUTPUT") = s
    BY <2>1, <2>2 DEF pinMode
  <2>4. s \in Seq(S)
    BY <1>3, <2>3, OfOnePin
  <2>5. PICK v1 : v1 = [out |-> 1, high |-> v.high, com |-> v.com, duty |-> v.duty]
    OBVIOUS
  <2>6. By(v, a, p) = v1
    BY <2>1, <2>5, TimerIs DEF By, OutBy, HighBy, ComBy, DutyBy, Sets
  <2>7. Runs(v, s, p, v1)
    BY <2>2, <2>6, RunsOne
  <2>8. Sound(v1, p)
    BY <2>5 DEF Sound
  <2>14. c.gives = Driven(w0, x, p)
    BY <1>2, <1>7
  <2>15. /\ Timer(p) # "none" /\ x \notin {0, 255} => c.gives = [out |-> 1, high |-> v.high, duty |-> x]
         /\ Timer(p) = "none" \/ x \in {0, 255} => c.gives = [out |-> 1, high |-> IF x >= 128 THEN 1 ELSE 0, duty |-> 0]
    BY <1>12, <2>14 DEF Driven, PinIs
  <2>9. ASSUME NEW b, c.accesses = s \o digitalWrite(p, b), c.gives = [out |-> 1, high |-> IF b = 0 THEN 0 ELSE 1, duty |-> 0]
        PROVE  \E w : Runs(v, c.accesses, p, w) /\ c.gives = Plain(w)
    <3>1. PICK w : w = Told(v1, IF b = 0 THEN 0 ELSE 1)
      OBVIOUS
    <3>2. Runs(v1, digitalWrite(p, b), p, w)
      BY <2>8, <3>1, DigitalWrites
    <3>3. digitalWrite(p, b) \in Seq(S)
      BY <1>3, OfOnePin
    <3>4. Runs(v, c.accesses, p, w)
      BY <2>4, <2>7, <2>9, <3>2, <3>3, RunsOn
    <3>5. c.gives = Plain(w)
      BY <2>5, <2>9, <3>1 DEF Told, Plain
    <3> QED
      BY <3>4, <3>5
  <2>10. CASE x = 0
    <3>1. c.accesses = s \o digitalWrite(p, 0)
      BY <1>7, <2>3, <2>10 DEF analogWrite
    <3>2. c.gives = [out |-> 1, high |-> 0, duty |-> 0]
      BY <2>10, <2>15
    <3> QED
      BY <2>9, <3>1, <3>2
  <2>11. CASE x = 255
    <3>1. c.accesses = s \o digitalWrite(p, 1)
      BY <1>7, <2>3, <2>11 DEF analogWrite
    <3>2. c.gives = [out |-> 1, high |-> 1, duty |-> 0]
      BY <2>11, <2>15
    <3> QED
      BY <2>9, <3>1, <3>2
  <2>12. CASE x # 0 /\ x # 255 /\ Timer(p) = "none"
    <3>1. PICK b : b = IF x < 128 THEN 0 ELSE 1
      OBVIOUS
    <3>2. c.accesses = s \o digitalWrite(p, b)
      BY <1>7, <2>3, <2>12, <3>1 DEF analogWrite
    <3>3. c.gives = [out |-> 1, high |-> IF b = 0 THEN 0 ELSE 1, duty |-> 0]
      BY <1>7, <2>12, <2>15, <3>1
    <3> QED
      BY <2>9, <3>2, <3>3
  <2>13. CASE x # 0 /\ x # 255 /\ Timer(p) # "none"
    <3>1. PICK y, z : y = Sets(Timer(p), {p}, {}) /\ z = PwmDuty(p, x)
      OBVIOUS
    <3>2. PICK sy, sz : sy = <<y>> /\ sz = <<z>>
      OBVIOUS
    <3>3. y \in S /\ z \in S
      <4>1. y \in TimersOf({p})
        BY <2>13, <3>1 DEF TimersOf
      <4>2. z \in DutiesOf({p})
        BY <3>1 DEF DutiesOf
      <4> QED
        BY <1>3, <4>1, <4>2 DEF AccessesOf
    <3>4. sy \in Seq(S) /\ sz \in Seq(S) /\ <<y, z>> = sy \o sz
      <4>1. sy \in Seq(S) /\ sz \in Seq(S)
        BY <3>2, <3>3
      <4>2. PICK yz : yz = <<y, z>>
        OBVIOUS
      <4>3. yz \in Seq(S) /\ Len(yz) = 2 /\ yz[1] = y /\ yz[2] = z
        BY <3>3, <4>2
      <4>4. PICK cat : cat = sy \o sz
        OBVIOUS
      <4>5. Len(sy) = 1 /\ sy[1] = y /\ Len(sz) = 1 /\ sz[1] = z
        BY <3>2
      <4>6. cat \in Seq(S) /\ Len(cat) = 2 /\ cat[1] = y /\ cat[2] = z
        <5>1. Len(cat) = 2
          BY <4>1, <4>4, <4>5, ConcatProperties
        <5>2. cat[1] = sy[1] /\ cat[2] = sz[1]
          BY <4>1, <4>4, <4>5, ConcatProperties
        <5> QED
          BY <4>1, <4>4, <4>5, <5>1, <5>2, ConcatProperties
      <4>7. yz = cat
        BY <4>3, <4>6, SeqEqual
      <4> QED
        BY <4>1, <4>2, <4>4, <4>7
    <3>5. c.accesses = s \o (sy \o sz)
      <4>1. c.accesses = s \o <<y, z>>
        BY <1>7, <2>3, <2>13, <3>1 DEF analogWrite
      <4> QED
        BY <3>4, <4>1
    <3>6. PICK v2 : v2 = [out |-> 1, high |-> v.high, com |-> 1, duty |-> v.duty]
      OBVIOUS
    <3>7. PICK v3 : v3 = [out |-> 1, high |-> v.high, com |-> 1, duty |-> x]
      OBVIOUS
    <3>8. By(v1, y, p) = v2
      BY <2>5, <2>13, <3>1, <3>6, TimerIs DEF By, OutBy, HighBy, ComBy, DutyBy, Sets
    <3>9. By(v2, z, p) = v3
      BY <2>13, <3>1, <3>6, <3>7, TimerIs DEF By, OutBy, HighBy, ComBy, DutyBy, PwmDuty
    <3>10. Runs(v1, sy, p, v2) /\ Runs(v2, sz, p, v3)
      BY <3>2, <3>8, <3>9, RunsOne
    <3>11. Runs(v1, sy \o sz, p, v3)
      BY <3>4, <3>10, RunsOn
    <3>12. sy \o sz \in Seq(S)
      BY <3>4, ConcatProperties
    <3>13. Runs(v, s \o (sy \o sz), p, v3)
      BY <2>4, <2>7, <3>11, <3>12, RunsOn
    <3>14. c.gives = Plain(v3)
      BY <2>13, <2>15, <3>7 DEF Plain
    <3> QED
      BY <3>5, <3>13, <3>14
  <2> QED
    BY <2>10, <2>11, <2>12, <2>13
<1>8. \/ \E m \in Modes : c = [accesses |-> pinMode(p, m), gives |-> Moded(want[p], m)]
      \/ \E b \in {0, 1} : c = [accesses |-> digitalWrite(p, b), gives |-> Leveled(want[p], b)]
      \/ c = [accesses |-> digitalRead(p), gives |-> Unpaced(want[p])]
      \/ \E x \in Duties : c = [accesses |-> analogWrite(p, x), gives |-> Driven(want[p], x, p)]
  BY Zenon DEF PinCalls
<1>9. \A x \in Duties : x \in Int /\ x \in 0 .. 255
  BY PinsAssumption
<1>10. \E w : Runs(v, c.accesses, p, w) /\ c.gives = Plain(w)
  BY <1>4, <1>5, <1>6, <1>7, <1>8, <1>9, Zenon
<1>11. c.accesses \in Seq(S) /\ Len(c.accesses) <= 3
  <2>1. ASSUME NEW m \in Modes, c = [accesses |-> pinMode(p, m), gives |-> Moded(want[p], m)]
        PROVE  c.accesses \in Seq(S) /\ Len(c.accesses) <= 3
    <3>1. PICK s : s = pinMode(p, m)
      OBVIOUS
    <3>2. c.accesses = s
      BY <2>1, <3>1
    <3>3. s \in Seq(S) /\ Len(s) = 1
      BY <1>3, <3>1, OfOnePin
    <3> QED
      BY <3>2, <3>3
  <2>2. ASSUME NEW b, c = [accesses |-> digitalWrite(p, b), gives |-> Leveled(want[p], b)]
        PROVE  c.accesses \in Seq(S) /\ Len(c.accesses) <= 3
    <3>1. PICK s : s = digitalWrite(p, b)
      OBVIOUS
    <3>2. c.accesses = s
      BY <2>2, <3>1
    <3>3. s \in Seq(S) /\ Len(s) <= 2
      BY <1>3, <3>1, OfOnePin
    <3>4. Len(s) <= 3
      BY <3>3
    <3> QED
      BY <3>2, <3>3, <3>4
  <2>3. ASSUME c = [accesses |-> digitalRead(p), gives |-> Unpaced(want[p])]
        PROVE  c.accesses \in Seq(S) /\ Len(c.accesses) <= 3
    <3>1. PICK s : s = digitalRead(p)
      OBVIOUS
    <3>2. c.accesses = s
      BY <2>3, <3>1
    <3>3. s \in Seq(S) /\ Len(s) <= 1
      BY <1>3, <3>1, OfOnePin
    <3>4. Len(s) <= 3
      BY <3>3
    <3> QED
      BY <3>2, <3>3, <3>4
  <2>4. ASSUME NEW x \in Duties, c = [accesses |-> analogWrite(p, x), gives |-> Driven(want[p], x, p)]
        PROVE  c.accesses \in Seq(S) /\ Len(c.accesses) <= 3
    <3>1. PICK s : s = analogWrite(p, x)
      OBVIOUS
    <3>2. c.accesses = s
      BY <2>4, <3>1
    <3>3. s \in Seq(S) /\ Len(s) <= 3
      BY <1>3, <1>9, <3>1, OfOnePin
    <3> QED
      BY <3>2, <3>3
  <2> QED
    BY <1>8, <2>1, <2>2, <2>3, <2>4, Zenon
<1> QED
  BY <1>3, <1>10, <1>11

------------------------------------------------------------------------------
LEMMA DeviceUntouched ==
    ASSUME NEW a \in Devices, NEW p, NEW v, Sound(v, p)
    PROVE  By(v, a, p) = v
<1>1. a.reg \in {"edge", "sample"}
  BY DEF Devices
<1>2. OutBy(v, a, p) = v.out /\ HighBy(v, a, p) = v.high /\ ComBy(v, a, p) = v.com /\ DutyBy(v, a, p) = v.duty
  BY <1>1, TimerIs DEF OutBy, HighBy, ComBy, DutyBy
<1> QED
  BY <1>2 DEF By, Sound

LEMMA ViewIsSound ==
    ASSUME NEW r, RegTypes(r), NEW p \in Pins
    PROVE  /\ Sound(Viewed(r, p), p) /\ Viewed(r, p).out \in {0, 1}
           /\ Plain(Viewed(r, p)) = PinShows(r, p)
BY DEF Sound, Viewed, RegTypes, Plain, PinShows, PinIs

LEMMA SeqOfMore == ASSUME NEW S, NEW T, S \subseteq T, NEW s \in Seq(S) PROVE s \in Seq(T)
<1>1. PICK n \in Nat : n = Len(s)
  OBVIOUS
<1>2. s = [i \in 1 .. n |-> s[i]] /\ \A i \in 1 .. n : s[i] \in T
  BY <1>1
<1>3. PICK f : f = [i \in 1 .. n |-> s[i]]
  OBVIOUS
<1>4. f \in [1 .. n -> T]
  BY <1>2, <1>3
<1>5. f \in Seq(T)
  BY <1>4, SeqDef
<1> QED
  BY <1>2, <1>3, <1>5

LEMMA MoreAccesses == ASSUME NEW P, NEW Q, P \subseteq Q PROVE AccessesOf(P) \subseteq AccessesOf(Q)
<1>1. RegistersOf(P) \subseteq RegistersOf(Q)
  BY DEF RegistersOf
<1>2. TimersOf(P) \subseteq TimersOf(Q)
  BY DEF TimersOf
<1>3. InputsOf(P) \subseteq InputsOf(Q)
  BY DEF InputsOf
<1>4. DutiesOf(P) \subseteq DutiesOf(Q)
  BY DEF DutiesOf
<1> QED
  BY <1>1, <1>2, <1>3, <1>4 DEF AccessesOf

\* No timer of a sketch's pin drives one of the handler's.
TimersApart == \A p \in SketchPins, q \in HandlerPins : Timer(p) = Timer(q) => Timer(p) = "none"

GoesTo(r, s, p, w) == \E v : Runs(Viewed(r, p), s, p, v) /\ w = Plain(v)

PinsInv ==
    /\ RegTypes(regs)
    /\ pending \in Seq(SketchAccesses)
    /\ want = [p \in Pins |-> want[p]]
    /\ shifted = [call |-> shifted.call, order |-> shifted.order, value |-> shifted.value, pass |-> shifted.pass,
                  bits |-> shifted.bits]
    /\ shifted.pass \in Int
    /\ \/ loaded = {}
       \/ /\ pending # <<>> /\ Now.reg \in {"0A", "1A", "2A"}
          /\ loaded = {regs.com \cap TimerPins(Now.reg)}
    /\ \A p \in SketchPins : GoesTo(regs, pending, p, want[p])
    /\ \A p \in HandlerPins : want[p] = Plain(Viewed(regs, p))

LEMMA PinsAtRest ==
    ASSUME PinsInv, pending = <<>>
    PROVE  \A p \in Pins : want[p] = Plain(Viewed(regs, p))
<1> TAKE p \in Pins
<1>1. CASE p \in SketchPins
  <2>1. PICK v : Runs(Viewed(regs, p), <<>>, p, v) /\ want[p] = Plain(v)
    BY <1>1 DEF PinsInv, GoesTo
  <2>2. v = Viewed(regs, p)
    BY <2>1, RunsNone
  <2> QED
    BY <2>1, <2>2
<1>2. CASE p \in HandlerPins
  BY <1>2 DEF PinsInv
<1> QED
  BY <1>1, <1>2 DEF Pins

LEMMA PinsInvHolds == PinsInv => PinsKept
<1> SUFFICES ASSUME PinsInv PROVE PinsKept
  OBVIOUS
<1>1. \A p \in Pins : Plain(Viewed(regs, p)) = PinShows(regs, p)
  BY ViewIsSound DEF PinsInv
<1>2. \A p \in HandlerPins : p \in Pins /\ want[p] = Plain(Viewed(regs, p))
  BY DEF PinsInv, Pins
<1> QED
  BY <1>1, <1>2, PinsAtRest DEF PinsKept

LEMMA PinsBegin == PinsInit => PinsInv
<1> SUFFICES ASSUME PinsInit PROVE PinsInv
  OBVIOUS
<1>1. regs = [ddr |-> {}, port |-> {}, com |-> {}, duty |-> [p \in Pins |-> 0]]
      /\ loaded = {} /\ pending = <<>> /\ shifted = NoShift /\ want = [p \in Pins |-> PinIs(0, 0, 0)]
  BY DEF PinsInit
<1>2. RegTypes(regs)
  BY <1>1 DEF RegTypes
<1>3. \A p \in Pins : want[p] = Plain(Viewed(regs, p))
  BY <1>1 DEF Plain, Viewed, PinIs
<1>4. \A p \in SketchPins : p \in Pins /\ Runs(Viewed(regs, p), pending, p, Viewed(regs, p))
  BY <1>1, RunsNone DEF Pins
<1>5. \A p \in SketchPins : GoesTo(regs, pending, p, want[p])
  BY <1>3, <1>4 DEF GoesTo
<1>6. shifted = [call |-> shifted.call, order |-> shifted.order, value |-> shifted.value, pass |-> shifted.pass,
                  bits |-> shifted.bits] /\ shifted.pass \in Int
  BY <1>1, PinsAssumption DEF NoShift
<1>7. pending \in Seq(SketchAccesses) /\ want = [p \in Pins |-> want[p]]
  BY <1>1
<1>8. \A p \in HandlerPins : want[p] = Plain(Viewed(regs, p))
  BY <1>3 DEF Pins
<1> QED
  BY <1>1, <1>2, <1>5, <1>6, <1>7, <1>8 DEF PinsInv

\* What stays as it is when an access of the sketch is made.
SameShift ==
    /\ shifted' = [call |-> shifted'.call, order |-> shifted'.order, value |-> shifted'.value, pass |-> shifted'.pass,
                  bits |-> shifted'.bits]
    /\ shifted'.pass \in Int

LEMMA AccessGoesOn ==
    ASSUME PinsInv, pending # <<>>, pending' = Tail(pending), want' = want, loaded' = {}, SameShift,
           \/ Now \in AccessesOf(SketchPins) /\ regs' = Accessed(regs, Now)
           \/ Now \in Devices /\ regs' = regs
    PROVE  PinsInv'
<1>1. RegTypes(regs) /\ pending \in Seq(SketchAccesses) /\ want = [p \in Pins |-> want[p]]
  BY DEF PinsInv
<1>2. SketchPins \subseteq Pins /\ HandlerPins \subseteq Pins
  BY DEF Pins
<1>3. PICK a : a = Now
  OBVIOUS
<1>4. PICK s : s = regs'
  OBVIOUS
<1>5. RegTypes(s) /\ \A p \in Pins : Viewed(s, p) = By(Viewed(regs, p), a, p)
  <2>1. CASE a \in AccessesOf(SketchPins) /\ s = Accessed(regs, a)
    BY <1>1, <1>2, <2>1, AccessTypes, AccessIsSeen
  <2>2. CASE a \in Devices /\ s = regs
    BY <1>1, <2>2, DeviceUntouched, ViewIsSound
  <2> QED
    BY <1>3, <1>4, <2>1, <2>2
<1>6. \A p \in SketchPins : GoesTo(s, Tail(pending), p, want[p])
  <2> TAKE p \in SketchPins
  <2>1. PICK v : Runs(Viewed(regs, p), pending, p, v) /\ want[p] = Plain(v)
    BY DEF PinsInv, GoesTo
  <2>2. Runs(By(Viewed(regs, p), Head(pending), p), Tail(pending), p, v)
    BY <1>1, <2>1, RunsAccess
  <2>3. Runs(Viewed(s, p), Tail(pending), p, v)
    BY <1>2, <1>3, <1>5, <2>2 DEF Now
  <2> QED
    BY <2>1, <2>3 DEF GoesTo
<1>7. \A p \in HandlerPins : want[p] = Plain(Viewed(s, p))
  <2> TAKE p \in HandlerPins
  <2>1. p \in Pins /\ p \notin SketchPins /\ Sound(Viewed(regs, p), p)
    BY <1>1, <1>2, PinsAssumption, ViewIsSound
  <2>2. By(Viewed(regs, p), a, p) = Viewed(regs, p)
    BY <1>3, <2>1, OthersUntouched, DeviceUntouched
  <2> QED
    BY <1>5, <2>1, <2>2 DEF PinsInv
<1>8. Tail(pending) \in Seq(SketchAccesses)
  BY <1>1
<1> QED
  BY <1>1, <1>4, <1>5, <1>6, <1>7, <1>8 DEF PinsInv, SameShift

LEMMA NextAccess ==
    ASSUME PinsInv, pending # <<>>
    PROVE  /\ Now \in AccessesOf(SketchPins) \cup Devices
           /\ Now \in Devices <=> Now.reg \in {"edge", "sample"}
           /\ Now.reg \in {"ddr", "port", "input", "duty", "edge", "sample", "0A", "1A", "2A"}
<1>1. Now \in SketchAccesses
  BY DEF PinsInv, Now
<1>2. ASSUME NEW a \in AccessesOf(SketchPins) PROVE a.reg \in {"ddr", "port", "input", "duty", "0A", "1A", "2A"}
  BY AccessShapes, TimerIs
<1>3. \A a \in Devices : a.reg \in {"edge", "sample"}
  BY DEF Devices
<1> QED
  BY <1>1, <1>2, <1>3 DEF SketchAccesses

LEMMA SketchSteps ==
    ASSUME PinsInv, AccessWhole \/ AccessReads \/ AccessWrites \/ DeviceTakes \/ DeviceShows
    PROVE  PinsInv'
<1>1. shifted = [call |-> shifted.call, order |-> shifted.order, value |-> shifted.value, pass |-> shifted.pass,
                  bits |-> shifted.bits] /\ shifted.pass \in Int
  BY DEF PinsInv
<1>2. CASE AccessWhole
  <2>1. pending # <<>> /\ Now.reg \in {"ddr", "port", "input", "duty"} /\ regs' = Accessed(regs, Now)
        /\ pending' = Tail(pending) /\ loaded' = loaded /\ shifted' = shifted /\ want' = want
    BY <1>2 DEF AccessWhole, StepDone, Guarded
  <2>2. loaded = {}
    BY <2>1 DEF PinsInv
  <2>3. Now \in AccessesOf(SketchPins)
    BY <2>1, NextAccess
  <2>4. SameShift
    BY <1>1, <2>1 DEF SameShift
  <2> QED
    BY <2>1, <2>2, <2>3, <2>4, AccessGoesOn
<1>3. CASE AccessReads
  <2>1. pending # <<>> /\ Now.reg \notin {"ddr", "port", "input", "duty", "edge", "sample"}
        /\ loaded' = {Contents(regs, Now.reg)} /\ regs' = regs /\ pending' = pending /\ shifted' = shifted /\ want' = want
    BY <1>3 DEF AccessReads, Guarded
  <2>2. Now.reg \in {"0A", "1A", "2A"}
    BY <2>1, NextAccess
  <2>3. Contents(regs, Now.reg) = regs.com \cap TimerPins(Now.reg)
    BY <2>2 DEF Contents
  <2>4. Now' = Now
    BY <2>1 DEF Now
  <2> QED
    BY <2>1, <2>2, <2>3, <2>4 DEF PinsInv, TimerPins
<1>4. CASE AccessWrites
  <2>1. PICK v \in loaded : regs' = Stored(regs, Now.reg, Changed(Now, v))
    BY <1>4 DEF AccessWrites
  <2>2. loaded' = {} /\ pending' = Tail(pending) /\ shifted' = shifted /\ want' = want
    BY <1>4 DEF AccessWrites, StepDone
  <2>3. pending # <<>> /\ Now.reg \in {"0A", "1A", "2A"} /\ v = regs.com \cap TimerPins(Now.reg)
    BY <2>1 DEF PinsInv
  <2>4. v = Contents(regs, Now.reg)
    BY <2>3 DEF Contents
  <2>5. regs' = Accessed(regs, Now)
    BY <2>1, <2>3, <2>4 DEF Accessed
  <2>6. Now \in AccessesOf(SketchPins)
    BY <2>3, NextAccess
  <2>7. SameShift
    BY <1>1, <2>2 DEF SameShift
  <2> QED
    BY <2>2, <2>3, <2>5, <2>6, <2>7, AccessGoesOn
<1>5. ASSUME DeviceTakes \/ DeviceShows PROVE PinsInv'
  <2>1. pending # <<>> /\ Now.reg \in {"edge", "sample"} /\ pending' = Tail(pending) /\ regs' = regs
        /\ loaded' = loaded /\ want' = want
    BY <1>5 DEF DeviceTakes, DeviceShows, StepDone
  <2>2. loaded = {}
    BY <2>1 DEF PinsInv
  <2>3. Now \in Devices
    BY <2>1, NextAccess
  <2>4. SameShift
    <3>1. CASE DeviceTakes
      <4>1. PICK b : shifted' = [shifted EXCEPT !.bits = b]
        BY <3>1 DEF DeviceTakes
      <4> QED
        BY <1>1, <4>1 DEF SameShift
    <3>2. CASE DeviceShows
      <4>1. PICK b, x : shifted' = [shifted EXCEPT !.bits = b, !.value = x]
        BY <3>2 DEF DeviceShows
      <4> QED
        BY <1>1, <4>1 DEF SameShift
    <3> QED
      BY <1>5, <3>1, <3>2
  <2> QED
    BY <2>1, <2>2, <2>3, <2>4, AccessGoesOn
<1> QED
  BY <1>2, <1>3, <1>4, <1>5

\* One access of a call that is made at once.
LEMMA OnceIs ==
    ASSUME NEW P, P \subseteq Pins, NEW r, RegTypes(r), NEW s \in Seq(AccessesOf(P))
    PROVE  /\ RegTypes(Once(r, s)) /\ Rest(s) \in Seq(AccessesOf(P))
           /\ Len(Rest(s)) = IF Len(s) = 0 THEN 0 ELSE Len(s) - 1
           /\ \A p \in Pins : \A w : Runs(Viewed(r, p), s, p, w) => Runs(Viewed(Once(r, s), p), Rest(s), p, w)
           /\ \A p \in Pins : p \notin P => Viewed(Once(r, s), p) = Viewed(r, p)
<1>1. CASE s = <<>>
  BY <1>1 DEF Once, Rest
<1>2. CASE s # <<>>
  <2>1. PICK a \in AccessesOf(P) : a = Head(s)
    BY <1>2
  <2>2. Once(r, s) = Accessed(r, a) /\ Rest(s) = Tail(s)
    BY <1>2, <2>1 DEF Once, Rest
  <2>3. Tail(s) \in Seq(AccessesOf(P)) /\ Len(Tail(s)) = Len(s) - 1 /\ Len(s) # 0
    BY <1>2
  <2>4. RegTypes(Accessed(r, a))
    BY AccessTypes
  <2>5. \A p \in Pins : Viewed(Accessed(r, a), p) = By(Viewed(r, p), a, p)
    BY AccessIsSeen
  <2>6. \A p \in Pins : p \notin P => By(Viewed(r, p), a, p) = Viewed(r, p)
    BY OthersUntouched, ViewIsSound
  <2>7. \A p \in Pins : \A w : Runs(Viewed(r, p), s, p, w) => Runs(By(Viewed(r, p), a, p), Tail(s), p, w)
    BY <1>2, <2>1, RunsAccess
  <2> QED
    BY <2>2, <2>3, <2>4, <2>5, <2>6, <2>7
<1> QED
  BY <1>1, <1>2

LEMMA AfterIs ==
    ASSUME NEW P, P \subseteq Pins, RegTypes(regs), NEW s \in Seq(AccessesOf(P)), Len(s) <= 3
    PROVE  /\ RegTypes(After(s))
           /\ \A p \in Pins : \A w : Runs(Viewed(regs, p), s, p, w) => w = Viewed(After(s), p)
           /\ \A p \in Pins : p \notin P => Viewed(After(s), p) = Viewed(regs, p)
<1>1. PICK r1, s1 : r1 = Once(regs, s) /\ s1 = Rest(s)
  OBVIOUS
<1>2. PICK r2, s2 : r2 = Once(r1, s1) /\ s2 = Rest(s1)
  OBVIOUS
<1>3. PICK r3, s3 : r3 = Once(r2, s2) /\ s3 = Rest(s2)
  OBVIOUS
<1>4. After(s) = r3
  BY <1>1, <1>2, <1>3 DEF After
<1>5. /\ RegTypes(r1) /\ s1 \in Seq(AccessesOf(P)) /\ Len(s1) = IF Len(s) = 0 THEN 0 ELSE Len(s) - 1
      /\ \A p \in Pins : \A w : Runs(Viewed(regs, p), s, p, w) => Runs(Viewed(r1, p), s1, p, w)
      /\ \A p \in Pins : p \notin P => Viewed(r1, p) = Viewed(regs, p)
  BY <1>1, OnceIs
<1>10. RegTypes(r1) /\ s1 \in Seq(AccessesOf(P))
  BY <1>5
<1>6. /\ RegTypes(r2) /\ s2 \in Seq(AccessesOf(P)) /\ Len(s2) = IF Len(s1) = 0 THEN 0 ELSE Len(s1) - 1
      /\ \A p \in Pins : \A w : Runs(Viewed(r1, p), s1, p, w) => Runs(Viewed(r2, p), s2, p, w)
      /\ \A p \in Pins : p \notin P => Viewed(r2, p) = Viewed(r1, p)
  BY <1>2, <1>10, OnceIs
<1>11. RegTypes(r2) /\ s2 \in Seq(AccessesOf(P))
  BY <1>6
<1>7. /\ RegTypes(r3) /\ s3 \in Seq(AccessesOf(P)) /\ Len(s3) = IF Len(s2) = 0 THEN 0 ELSE Len(s2) - 1
      /\ \A p \in Pins : \A w : Runs(Viewed(r2, p), s2, p, w) => Runs(Viewed(r3, p), s3, p, w)
      /\ \A p \in Pins : p \notin P => Viewed(r3, p) = Viewed(r2, p)
  BY <1>3, <1>11, OnceIs
<1>8. s3 = <<>>
  <2>1. PICK n \in Nat : n = Len(s)
    OBVIOUS
  <2>2. PICK n1 \in Nat : n1 = Len(s1)
    BY <1>5
  <2>3. PICK n2 \in Nat : n2 = Len(s2)
    BY <1>6
  <2>4. PICK n3 \in Nat : n3 = Len(s3)
    BY <1>7
  <2>5. n <= 3 /\ n1 = (IF n = 0 THEN 0 ELSE n - 1) /\ n2 = (IF n1 = 0 THEN 0 ELSE n1 - 1) /\ n3 = (IF n2 = 0 THEN 0 ELSE n2 - 1)
    BY <1>5, <1>6, <1>7, <2>1, <2>2, <2>3, <2>4
  <2>6. n3 = 0
    BY <2>5
  <2> QED
    BY <1>7, <2>4, <2>6, EmptySeq
<1>9. \A p \in Pins : \A w : Runs(Viewed(regs, p), s, p, w) => w = Viewed(r3, p)
  BY <1>5, <1>6, <1>7, <1>8, RunsNone
<1> QED
  BY <1>4, <1>5, <1>6, <1>7, <1>9

LEMMA HandlerKeeps ==
    ASSUME PinsInv, TimersApart, HandlerCalls
    PROVE  PinsInv'
<1>1. RegTypes(regs) /\ pending \in Seq(SketchAccesses) /\ want = [p \in Pins |-> want[p]]
  BY DEF PinsInv
<1>2. SketchPins \subseteq Pins /\ HandlerPins \subseteq Pins /\ SketchPins \cap HandlerPins = {}
  BY PinsAssumption DEF Pins
<1>16. PICK p \in HandlerPins : \E c \in PinCalls(p) : regs' = After(c.accesses) /\ want' = [want EXCEPT ![p] = c.gives]
  BY DEF HandlerCalls
<1>3. PICK c \in PinCalls(p) : regs' = After(c.accesses) /\ want' = [want EXCEPT ![p] = c.gives]
  BY <1>16
<1>4. loaded' = loaded /\ pending' = pending /\ shifted' = shifted
  BY DEF HandlerCalls
<1>5. p \in Pins /\ Sound(Viewed(regs, p), p) /\ Viewed(regs, p).out \in {0, 1} /\ want[p] = Plain(Viewed(regs, p))
  BY <1>1, <1>2, ViewIsSound DEF PinsInv
<1>6. PICK s : s = c.accesses
  OBVIOUS
<1>7. PICK w : Runs(Viewed(regs, p), s, p, w) /\ c.gives = Plain(w) /\ s \in Seq(AccessesOf({p})) /\ Len(s) <= 3
  BY <1>5, <1>6, CallGives
<1>8. PICK r : r = After(s)
  OBVIOUS
<1>9. RegTypes(r) /\ w = Viewed(r, p) /\ \A q \in Pins : q # p => Viewed(r, q) = Viewed(regs, q)
  <2>1. {p} \subseteq Pins
    BY <1>5
  <2> QED
    BY <1>1, <1>5, <1>7, <1>8, <2>1, AfterIs
<1>10. regs' = r /\ want'[p] = Plain(w) /\ (\A q \in Pins : q # p => want'[q] = want[q]) /\ want' = [q \in Pins |-> want'[q]]
  BY <1>1, <1>3, <1>5, <1>6, <1>7, <1>8
<1>11. \A q \in SketchPins : GoesTo(r, pending, q, want'[q])
  <2> TAKE q \in SketchPins
  <2>1. q \in Pins /\ q # p /\ GoesTo(regs, pending, q, want[q])
    BY <1>2 DEF PinsInv
  <2> QED
    BY <1>9, <1>10, <2>1 DEF GoesTo
<1>12. \A q \in HandlerPins : want'[q] = Plain(Viewed(r, q))
  <2> TAKE q \in HandlerPins
  <2>1. q \in Pins /\ want[q] = Plain(Viewed(regs, q))
    BY <1>2 DEF PinsInv
  <2> QED
    BY <1>9, <1>10, <2>1
<1>13. \/ loaded = {}
       \/ /\ pending # <<>> /\ Now.reg \in {"0A", "1A", "2A"}
          /\ loaded = {r.com \cap TimerPins(Now.reg)}
  <2>1. CASE loaded = {}
    BY <2>1
  <2>2. CASE /\ pending # <<>> /\ Now.reg \in {"0A", "1A", "2A"}
             /\ loaded = {regs.com \cap TimerPins(Now.reg)}
    <3>1. PICK a \in AccessesOf(SketchPins) : a = Now
      BY <2>2, NextAccess
    <3>2. PICK x \in SketchPins : Now.reg = Timer(x)
      BY <2>2, <3>1, AccessShapes
    <3>3. p \notin TimerPins(Now.reg)
      BY <2>2, <3>2 DEF TimersApart, TimerPins
    <3>4. \A q \in TimerPins(Now.reg) : q \in r.com <=> q \in regs.com
      <4> TAKE q \in TimerPins(Now.reg)
      <4>1. q \in Pins /\ q # p
        BY <3>3 DEF TimerPins
      <4>2. Viewed(r, q).com = Viewed(regs, q).com
        BY <1>9, <4>1
      <4> QED
        BY <4>2 DEF Viewed
    <3>5. r.com \cap TimerPins(Now.reg) = regs.com \cap TimerPins(Now.reg)
      BY <3>4
    <3> QED
      BY <2>2, <3>5
  <2> QED
    BY <2>1, <2>2 DEF PinsInv
<1>14. Now' = Now
  BY <1>4 DEF Now
<1>15. TimerPins(Now.reg)' = TimerPins(Now.reg)
  BY <1>14 DEF TimerPins
<1> QED
  BY <1>1, <1>4, <1>9, <1>10, <1>11, <1>12, <1>13, <1>14, <1>15 DEF PinsInv

LEMMA SketchBegins ==
    ASSUME PinsInv, SketchCalls
    PROVE  PinsInv'
<1>1. RegTypes(regs) /\ want = [p \in Pins |-> want[p]] /\ pending = <<>> /\ loaded = {}
  BY DEF PinsInv, SketchCalls, CallOver
<1>2. SketchPins \subseteq Pins /\ HandlerPins \subseteq Pins /\ SketchPins \cap HandlerPins = {}
  BY PinsAssumption DEF Pins
<1>13. PICK p \in SketchPins : \E c \in PinCalls(p) : pending' = c.accesses /\ want' = [want EXCEPT ![p] = c.gives]
  BY DEF SketchCalls
<1>3. PICK c \in PinCalls(p) : pending' = c.accesses /\ want' = [want EXCEPT ![p] = c.gives]
  BY <1>13
<1>4. loaded' = {} /\ regs' = regs /\ shifted' = NoShift
  BY <1>1 DEF SketchCalls
<1>5. \A q \in Pins : Sound(Viewed(regs, q), q) /\ Viewed(regs, q).out \in {0, 1} /\ want[q] = Plain(Viewed(regs, q))
  BY <1>1, ViewIsSound, PinsAtRest
<1>6. PICK s : s = c.accesses
  OBVIOUS
<1>7. PICK w : Runs(Viewed(regs, p), s, p, w) /\ c.gives = Plain(w) /\ s \in Seq(AccessesOf({p}))
  BY <1>2, <1>5, <1>6, CallGives
<1>8. want'[p] = Plain(w) /\ (\A q \in Pins : q # p => want'[q] = want[q]) /\ want' = [q \in Pins |-> want'[q]]
  BY <1>1, <1>2, <1>3, <1>7
<1>9. s \in Seq(SketchAccesses)
  <2>1. {p} \subseteq SketchPins
    OBVIOUS
  <2>2. AccessesOf({p}) \subseteq SketchAccesses
    BY <2>1, MoreAccesses DEF SketchAccesses
  <2> QED
    BY <1>7, <2>2, SeqOfMore
<1>10. \A q \in SketchPins : GoesTo(regs, s, q, want'[q])
  <2> TAKE q \in SketchPins
  <2>1. CASE q = p
    BY <1>7, <1>8, <2>1 DEF GoesTo
  <2>2. CASE q # p
    <3>1. \A a \in AccessesOf({p}) : By(Viewed(regs, q), a, q) = Viewed(regs, q)
      BY <1>2, <1>5, <2>2, OthersUntouched
    <3>2. Runs(Viewed(regs, q), s, q, Viewed(regs, q))
      BY <1>7, <3>1, RunsAside
    <3> QED
      BY <1>2, <1>5, <1>8, <2>2, <3>2 DEF GoesTo
  <2> QED
    BY <2>1, <2>2
<1>11. \A q \in HandlerPins : want'[q] = Plain(Viewed(regs, q))
  BY <1>2, <1>5, <1>8
<1>12. SameShift
  BY <1>4, PinsAssumption DEF SameShift, NoShift
<1> QED
  BY <1>1, <1>3, <1>4, <1>6, <1>8, <1>9, <1>10, <1>11, <1>12 DEF PinsInv, SameShift

\* A call that makes one access for the whole port.
LEMMA PortGoes ==
    ASSUME PinsInv, pending = <<>>, NEW a \in AccessesOf(Pins), regs' = After(<<a>>), pending' = <<>>, loaded' = loaded,
           SameShift, want' = [p \in Pins |-> want'[p]],
           \A p \in Pins : want'[p] = Plain(By(Viewed(regs, p), a, p))
    PROVE  PinsInv'
<1>1. RegTypes(regs) /\ loaded = {}
  BY DEF PinsInv
<1>2. SketchPins \subseteq Pins /\ HandlerPins \subseteq Pins
  BY DEF Pins
<1>3. PICK s : s = <<a>>
  OBVIOUS
<1>4. s \in Seq(AccessesOf(Pins)) /\ Len(s) <= 3
  BY <1>3
<1>5. PICK r : r = After(s)
  OBVIOUS
<1>6. RegTypes(r) /\ \A p \in Pins : \A w : Runs(Viewed(regs, p), s, p, w) => w = Viewed(r, p)
  BY <1>1, <1>4, <1>5, AfterIs
<1>7. \A p \in Pins : want'[p] = Plain(Viewed(r, p))
  <2> TAKE p \in Pins
  <2>1. Runs(Viewed(regs, p), s, p, By(Viewed(regs, p), a, p))
    BY <1>3, RunsOne
  <2> QED
    BY <1>6, <2>1
<1>8. \A p \in SketchPins : GoesTo(r, <<>>, p, want'[p])
  BY <1>2, <1>7, RunsNone DEF GoesTo
<1>9. <<>> \in Seq(SketchAccesses)
  OBVIOUS
<1>10. regs' = r
  BY <1>3, <1>5
<1> QED
  BY <1>1, <1>2, <1>6, <1>7, <1>8, <1>9, <1>10 DEF PinsInv, SameShift

LEMMA PortBegins ==
    ASSUME PinsInv, SketchCallsPort
    PROVE  PinsInv'
<1>1. RegTypes(regs) /\ pending = <<>>
  BY DEF PinsInv, SketchCallsPort, CallOver
<1>2. pending' = <<>> /\ loaded' = loaded /\ shifted' = NoShift
  BY <1>1 DEF SketchCallsPort
<1>3. SameShift
  BY <1>2, PinsAssumption DEF SameShift, NoShift
<1>4. \A p \in Pins : PinIs(Viewed(regs, p).out, Viewed(regs, p).high, Viewed(regs, p).duty) = want[p]
  BY <1>1, PinsAtRest DEF PinIs, Plain
<1>5. \A p \in Pins : want[p].out = Viewed(regs, p).out /\ want[p].high = Viewed(regs, p).high /\ want[p].duty = Viewed(regs, p).duty
  <2> TAKE p \in Pins
  <2>1. PICK w : w = want[p]
    OBVIOUS
  <2>2. w = PinIs(Viewed(regs, p).out, Viewed(regs, p).high, Viewed(regs, p).duty)
    BY <1>4, <2>1
  <2> QED
    BY <2>1, <2>2 DEF PinIs
<1>6. ASSUME NEW m \in Modes, regs' = After(_portMode(m)),
             want' = [p \in Pins |-> PinIs(IF m = "OUTPUT" THEN 1 ELSE 0,
                                           IF m = "INPUT_PULLUP" THEN 1 ELSE want[p].high, want[p].duty)]
      PROVE  PinsInv'
  <2>1. PICK a : a = CASE m = "OUTPUT" -> Sets("ddr", Pins, {}) [] m = "INPUT_PULLUP" -> Input(Pins, Pins)
                       [] OTHER -> Sets("ddr", {}, Pins)
    OBVIOUS
  <2>2. _portMode(m) = <<a>> /\ a \in AccessesOf(Pins)
    BY <2>1 DEF _portMode, AccessesOf, RegistersOf, InputsOf, Guarded
  <2>3. \A p \in Pins : want'[p] = Plain(By(Viewed(regs, p), a, p))
    <3> TAKE p \in Pins
    <3>1. PICK v : v = Viewed(regs, p)
      OBVIOUS
    <3>2. want'[p] = PinIs(IF m = "OUTPUT" THEN 1 ELSE 0, IF m = "INPUT_PULLUP" THEN 1 ELSE v.high, v.duty)
      BY <1>5, <1>6, <3>1
    <3>3. DutyBy(v, a, p) = v.duty
      BY <2>1, TimerIs DEF DutyBy, Sets, Input
    <3>4. OutBy(v, a, p) = (IF m = "OUTPUT" THEN 1 ELSE 0) /\ HighBy(v, a, p) = IF m = "INPUT_PULLUP" THEN 1 ELSE v.high
      BY <2>1 DEF OutBy, HighBy, Sets, Input
    <3> QED
      BY <3>1, <3>2, <3>3, <3>4 DEF Plain, By, PinIs
  <2>4. want' = [p \in Pins |-> want'[p]]
    BY <1>6
  <2> QED
    BY <1>1, <1>2, <1>3, <1>6, <2>2, <2>3, <2>4, PortGoes
<1>7. ASSUME NEW v \in SUBSET Pins, regs' = After(_portWrite(v)),
             want' = [p \in Pins |-> PinIs(want[p].out, IF p \in v THEN 1 ELSE 0, want[p].duty)]
      PROVE  PinsInv'
  <2>1. PICK a : a = Sets("port", v, Pins \ v)
    OBVIOUS
  <2>2. _portWrite(v) = <<a>> /\ a \in AccessesOf(Pins)
    BY <2>1 DEF _portWrite, AccessesOf, RegistersOf, Guarded
  <2>3. \A p \in Pins : want'[p] = Plain(By(Viewed(regs, p), a, p))
    <3> TAKE p \in Pins
    <3>1. PICK x : x = Viewed(regs, p)
      OBVIOUS
    <3>2. want'[p] = PinIs(x.out, IF p \in v THEN 1 ELSE 0, x.duty)
      BY <1>5, <1>7, <3>1
    <3>3. OutBy(x, a, p) = x.out /\ HighBy(x, a, p) = (IF p \in v THEN 1 ELSE 0) /\ DutyBy(x, a, p) = x.duty
      BY <2>1, TimerIs DEF OutBy, HighBy, DutyBy, Sets
    <3> QED
      BY <3>1, <3>2, <3>3 DEF Plain, By, PinIs
  <2>4. want' = [p \in Pins |-> want'[p]]
    BY <1>7
  <2> QED
    BY <1>1, <1>2, <1>3, <1>7, <2>2, <2>3, <2>4, PortGoes
<1> QED
  BY <1>6, <1>7 DEF SketchCallsPort

\* A shift that is about to begin makes no access.
LEMMA ShiftBegins ==
    ASSUME PinsInv, SketchShifts
    PROVE  PinsInv'
<1>1. regs' = regs /\ loaded' = loaded /\ pending' = pending /\ want' = want
  BY DEF SketchShifts
<1>2. SameShift
  <2>1. PICK order \in Orders :
          \/ \E val \in 0 .. 2 ^ ShiftBits - 1 :
              shifted' = [NoShift EXCEPT !.call = "shiftOut", !.order = order, !.value = val, !.pass = 0]
          \/ shifted' = [NoShift EXCEPT !.call = "shiftIn", !.order = order, !.pass = 0]
    BY DEF SketchShifts
  <2>2. PICK which, val : shifted' = [call |-> which, order |-> order, value |-> val, pass |-> 0, bits |-> <<>>]
    <3>1. CASE \E val \in 0 .. 2 ^ ShiftBits - 1 :
              shifted' = [NoShift EXCEPT !.call = "shiftOut", !.order = order, !.value = val, !.pass = 0]
      <4>1. PICK val : shifted' = [NoShift EXCEPT !.call = "shiftOut", !.order = order, !.value = val, !.pass = 0]
        BY <3>1
      <4>2. shifted' = [call |-> "shiftOut", order |-> order, value |-> val, pass |-> 0, bits |-> <<>>]
        BY <4>1 DEF NoShift
      <4> QED
        BY <4>2
    <3>2. CASE shifted' = [NoShift EXCEPT !.call = "shiftIn", !.order = order, !.pass = 0]
      <4>1. shifted' = [call |-> "shiftIn", order |-> order, value |-> 0, pass |-> 0, bits |-> <<>>]
        BY <3>2 DEF NoShift
      <4> QED
        BY <4>1
    <3> QED
      BY <2>1, <3>1, <3>2
  <2> QED
    BY <2>2 DEF SameShift
<1>3. Now' = Now
  BY <1>1 DEF Now
<1>4. TimerPins(Now.reg)' = TimerPins(Now.reg)
  BY <1>3 DEF TimerPins
<1> QED
  BY <1>1, <1>2, <1>3, <1>4 DEF PinsInv, SameShift

\* Four lists, one after the other.
LEMMA RunsFour ==
    ASSUME NEW S, NEW s1 \in Seq(S), NEW s2 \in Seq(S), NEW s3 \in Seq(S), NEW s4 \in Seq(S), NEW p,
           NEW v0, NEW v1, NEW v2, NEW v3, NEW v4,
           Runs(v0, s1, p, v1), Runs(v1, s2, p, v2), Runs(v2, s3, p, v3), Runs(v3, s4, p, v4)
    PROVE  s1 \o s2 \o s3 \o s4 \in Seq(S) /\ Runs(v0, s1 \o s2 \o s3 \o s4, p, v4)
<1>1. PICK a : a = s1 \o s2
  OBVIOUS
<1>2. a \in Seq(S)
  BY <1>1, ConcatProperties
<1>3. Runs(v0, a, p, v2)
  BY <1>1, RunsOn
<1>4. PICK b : b = a \o s3
  OBVIOUS
<1>5. b \in Seq(S)
  BY <1>2, <1>4, ConcatProperties
<1>6. Runs(v0, b, p, v3)
  BY <1>2, <1>3, <1>4, RunsOn
<1>7. b \o s4 \in Seq(S) /\ Runs(v0, b \o s4, p, v4)
  BY <1>5, <1>6, RunsOn, ConcatProperties
<1> QED
  BY <1>1, <1>4, <1>7

\* Four lists, of which each is for other pins or for none.
LEMMA FourAside ==
    ASSUME NEW s1 \in Seq(SketchAccesses), NEW s2 \in Seq(SketchAccesses),
           NEW s3 \in Seq(SketchAccesses), NEW s4 \in Seq(SketchAccesses), NEW p, NEW v,
           Runs(v, s1, p, v), Runs(v, s2, p, v), Runs(v, s3, p, v), Runs(v, s4, p, v)
    PROVE  Runs(v, s1 \o s2 \o s3 \o s4, p, v)
BY RunsFour

\* The lists of a pass are of the sketch, and leave the other pins as they are.
LEMMA ForOnePin ==
    ASSUME NEW p \in SketchPins, NEW s \in Seq(AccessesOf({p}))
    PROVE  /\ s \in Seq(SketchAccesses)
           /\ \A q : \A v : q # p /\ Sound(v, q) => Runs(v, s, q, v)
<1>1. {p} \subseteq SketchPins
  OBVIOUS
<1>2. AccessesOf({p}) \subseteq SketchAccesses
  BY <1>1, MoreAccesses DEF SketchAccesses
<1>3. s \in Seq(SketchAccesses)
  BY <1>2, SeqOfMore
<1>4. ASSUME NEW q, NEW v, q # p, Sound(v, q) PROVE Runs(v, s, q, v)
  <2>1. \A a \in AccessesOf({p}) : By(v, a, q) = v
    BY <1>4, OthersUntouched
  <2> QED
    BY <2>1, RunsAside
<1> QED
  BY <1>3, <1>4

LEMMA ForTheDevice ==
    ASSUME NEW d \in Devices
    PROVE  <<d>> \in Seq(SketchAccesses) /\ \A q : \A v : Sound(v, q) => Runs(v, <<d>>, q, v)
<1>1. PICK s : s = <<d>>
  OBVIOUS
<1>2. s \in Seq(SketchAccesses) /\ s \in Seq(Devices)
  BY <1>1 DEF SketchAccesses
<1>3. ASSUME NEW q, NEW v, Sound(v, q) PROVE Runs(v, s, q, v)
  <2>1. \A a \in Devices : By(v, a, q) = v
    BY <1>3, DeviceUntouched
  <2> QED
    BY <1>2, <2>1, RunsAside
<1> QED
  BY <1>1, <1>2, <1>3

LEMMA ToldIsSound == \A v, p, b : Sound(v, p) => Sound(Told(v, b), p) /\ Sound(Off(v), p)
BY DEF Sound, Told, Off

\* What a pass of shiftOut() or shiftIn() does to each of the sketch's pins.
LEMMA PassGives ==
    ASSUME NEW p, NEW v, Sound(v, p), NEW bit, NEW place \in Int, NEW order, NEW i, NEW val,
           place = BitPlace(order, i), bit = BitOf(val, place)
    PROVE  /\ shiftOut(order, val, i) \in Seq(SketchAccesses) /\ shiftIn(order, i) \in Seq(SketchAccesses)
           /\ p = DataPin => /\ Runs(v, shiftOut(order, val, i), p, Told(v, IF bit = 0 THEN 0 ELSE 1))
                             /\ Runs(v, shiftIn(order, i), p, Off(v))
           /\ p = ClockPin => /\ Runs(v, shiftOut(order, val, i), p, Told(v, 0))
                              /\ Runs(v, shiftIn(order, i), p, Told(v, 0))
           /\ p \notin {DataPin, ClockPin} => Runs(v, shiftOut(order, val, i), p, v) /\ Runs(v, shiftIn(order, i), p, v)
<1>1. DataPin \in SketchPins /\ ClockPin \in SketchPins /\ DataPin # ClockPin
  BY PinsAssumption
<1>2. PICK d : d = digitalWrite(DataPin, bit)
  OBVIOUS
<1>3. PICK h : h = digitalWrite(ClockPin, 1)
  OBVIOUS
<1>4. PICK l : l = digitalWrite(ClockPin, 0)
  OBVIOUS
<1>5. PICK f : f = digitalRead(DataPin)
  OBVIOUS
<1>6. PICK edge : edge = <<[reg |-> "edge"]>>
  OBVIOUS
<1>7. PICK sample : sample = <<[reg |-> "sample", place |-> place]>>
  OBVIOUS
<1>8. /\ d \in Seq(AccessesOf({DataPin})) /\ h \in Seq(AccessesOf({ClockPin})) /\ l \in Seq(AccessesOf({ClockPin}))
      /\ f \in Seq(AccessesOf({DataPin}))
  BY <1>2, <1>3, <1>4, <1>5, OfOnePin
<1>9. /\ d \in Seq(SketchAccesses) /\ h \in Seq(SketchAccesses) /\ l \in Seq(SketchAccesses) /\ f \in Seq(SketchAccesses)
      /\ edge \in Seq(SketchAccesses) /\ sample \in Seq(SketchAccesses)
  <2>1. [reg |-> "edge"] \in Devices /\ [reg |-> "sample", place |-> place] \in Devices
    BY DEF Devices
  <2> QED
    BY <1>1, <1>6, <1>7, <1>8, <2>1, ForOnePin, ForTheDevice
<1>10. shiftOut(order, val, i) = d \o h \o edge \o l /\ shiftIn(order, i) = h \o f \o sample \o l
  BY <1>2, <1>3, <1>4, <1>5, <1>6, <1>7 DEF shiftOut, shiftIn
<1>11. d \o h \o edge \o l \in Seq(SketchAccesses) /\ h \o f \o sample \o l \in Seq(SketchAccesses)
  <2>1. d \o h \in Seq(SketchAccesses) /\ h \o f \in Seq(SketchAccesses)
    BY <1>9, ConcatProperties
  <2>2. d \o h \o edge \in Seq(SketchAccesses) /\ h \o f \o sample \in Seq(SketchAccesses)
    BY <1>9, <2>1, ConcatProperties
  <2> QED
    BY <1>9, <2>2, ConcatProperties
<1>12. \A w : Sound(w, p) => Runs(w, edge, p, w) /\ Runs(w, sample, p, w)
  <2>1. [reg |-> "edge"] \in Devices /\ [reg |-> "sample", place |-> place] \in Devices
    BY DEF Devices
  <2> QED
    BY <1>6, <1>7, <2>1, ForTheDevice
<1>13. /\ p # DataPin => \A w : Sound(w, p) => Runs(w, d, p, w) /\ Runs(w, f, p, w)
       /\ p # ClockPin => \A w : Sound(w, p) => Runs(w, h, p, w) /\ Runs(w, l, p, w)
  BY <1>1, <1>8, ForOnePin
<1>14. CASE p = DataPin
  <2>1. PICK w : w = Told(v, IF bit = 0 THEN 0 ELSE 1)
    OBVIOUS
  <2>2. Sound(w, p) /\ Sound(Off(v), p)
    BY <2>1, ToldIsSound
  <2>3. Runs(v, d, p, w)
    BY <1>2, <1>14, <2>1, DigitalWrites
  <2>4. Runs(w, h, p, w) /\ Runs(w, edge, p, w) /\ Runs(w, l, p, w)
    BY <1>1, <1>12, <1>13, <1>14, <2>2
  <2>5. Runs(v, d \o h \o edge \o l, p, w)
    BY <1>9, <2>3, <2>4, RunsFour
  <2>6. PICK o : o = Off(v)
    OBVIOUS
  <2>7. Runs(v, h, p, v) /\ Runs(o, sample, p, o) /\ Runs(o, l, p, o)
    BY <1>1, <1>12, <1>13, <1>14, <2>2, <2>6
  <2>8. Runs(v, f, p, o)
    BY <1>5, <1>14, <2>6, TurnsOff DEF digitalRead
  <2>9. Runs(v, h \o f \o sample \o l, p, o)
    BY <1>9, <2>7, <2>8, RunsFour
  <2> QED
    BY <1>1, <1>10, <1>11, <1>14, <2>1, <2>5, <2>6, <2>9
<1>15. CASE p = ClockPin
  <2>1. PICK w : w = Told(v, 1)
    OBVIOUS
  <2>2. PICK z : z = Told(v, 0)
    OBVIOUS
  <2>3. Sound(w, p) /\ Told(w, 0) = z
    BY <2>1, <2>2, ToldIsSound DEF Told
  <2>4. Runs(v, h, p, w)
    BY <1>3, <1>15, <2>1, DigitalWrites
  <2>5. Runs(w, l, p, z)
    BY <1>4, <1>15, <2>3, DigitalWrites
  <2>6. Runs(v, d, p, v) /\ Runs(w, f, p, w) /\ Runs(w, edge, p, w) /\ Runs(w, sample, p, w)
    BY <1>1, <1>12, <1>13, <1>15, <2>3
  <2>7. Runs(v, d \o h \o edge \o l, p, z)
    BY <1>9, <2>4, <2>5, <2>6, RunsFour
  <2>8. Runs(v, h \o f \o sample \o l, p, z)
    BY <1>9, <2>4, <2>5, <2>6, RunsFour
  <2> QED
    BY <1>1, <1>10, <1>11, <1>15, <2>2, <2>7, <2>8
<1>16. CASE p \notin {DataPin, ClockPin}
  <2>1. Runs(v, d, p, v) /\ Runs(v, h, p, v) /\ Runs(v, edge, p, v) /\ Runs(v, l, p, v) /\ Runs(v, f, p, v) /\ Runs(v, sample, p, v)
    BY <1>12, <1>13, <1>16
  <2>2. Runs(v, d \o h \o edge \o l, p, v) /\ Runs(v, h \o f \o sample \o l, p, v)
    BY <1>9, <2>1, FourAside
  <2> QED
    BY <1>10, <1>11, <1>16, <2>2
<1> QED
  BY <1>14, <1>15, <1>16

LEMMA PassKeeps ==
    ASSUME PinsInv, ShiftPasses
    PROVE  PinsInv'
<1>1. RegTypes(regs) /\ want = [p \in Pins |-> want[p]] /\ pending = <<>> /\ loaded = {} /\ shifted.pass \in Int
  BY DEF PinsInv, ShiftPasses
<1>2. SketchPins \subseteq Pins /\ HandlerPins \subseteq Pins /\ SketchPins \cap HandlerPins = {}
      /\ DataPin \in SketchPins /\ ClockPin \in SketchPins /\ DataPin # ClockPin /\ ShiftBits \in Int
  BY PinsAssumption DEF Pins
<1>3. loaded' = {} /\ regs' = regs /\ shifted' = [shifted EXCEPT !.pass = @ + 1]
  BY <1>1 DEF ShiftPasses
<1>4. SameShift
  BY <1>1, <1>3 DEF PinsInv, SameShift
<1>5. PICK i \in Int : i = shifted.pass + 1
  BY <1>1
<1>6. PICK order, val : order = shifted.order /\ val = shifted.value
  OBVIOUS
<1>7. PICK place : place = BitPlace(order, i)
  OBVIOUS
<1>8. place \in Int
  BY <1>2, <1>5, <1>7 DEF BitPlace
<1>9. PICK bit : bit = BitOf(val, place)
  OBVIOUS
<1>10. \/ /\ pending' = shiftOut(order, val, i)
          /\ want' = [want EXCEPT ![ClockPin] = Leveled(@, 0), ![DataPin] = Leveled(@, bit)]
       \/ /\ pending' = shiftIn(order, i)
          /\ want' = [want EXCEPT ![ClockPin] = Leveled(@, 0), ![DataPin] = Unpaced(@)]
  BY <1>5, <1>6, <1>7, <1>9 DEF ShiftPasses
<1>11. PICK d : d = IF pending' = shiftOut(order, val, i) /\ want' = [want EXCEPT ![ClockPin] = Leveled(@, 0), ![DataPin] = Leveled(@, bit)]
                    THEN Leveled(want[DataPin], bit) ELSE Unpaced(want[DataPin])
  OBVIOUS
<1>12. want' = [want EXCEPT ![ClockPin] = Leveled(@, 0), ![DataPin] = d]
  BY <1>1, <1>2, <1>10, <1>11
<1>13. /\ want'[DataPin] = d /\ want'[ClockPin] = Leveled(want[ClockPin], 0)
       /\ \A q \in Pins : q \notin {DataPin, ClockPin} => want'[q] = want[q]
       /\ want' = [q \in Pins |-> want'[q]]
  BY <1>1, <1>2, <1>12
<1>14. \A q \in Pins : Sound(Viewed(regs, q), q) /\ want[q] = Plain(Viewed(regs, q))
  BY <1>1, ViewIsSound, PinsAtRest
<1>15. /\ Leveled(want[ClockPin], 0) = Plain(Told(Viewed(regs, ClockPin), 0))
       /\ Leveled(want[DataPin], bit) = Plain(Told(Viewed(regs, DataPin), IF bit = 0 THEN 0 ELSE 1))
       /\ Unpaced(want[DataPin]) = Plain(Off(Viewed(regs, DataPin)))
  <2>1. ASSUME NEW q \in Pins, NEW b
        PROVE  Leveled(want[q], b) = Plain(Told(Viewed(regs, q), IF b = 0 THEN 0 ELSE 1)) /\ Unpaced(want[q]) = Plain(Off(Viewed(regs, q)))
    <3>1. PICK w, v : w = want[q] /\ v = Viewed(regs, q)
      OBVIOUS
    <3>4. w = Plain(v)
      BY <1>14, <3>1
    <3>2. w.out = v.out /\ w.high = v.high
      BY <3>4 DEF Plain
    <3>3. Leveled(w, b) = Plain(Told(v, IF b = 0 THEN 0 ELSE 1)) /\ Unpaced(w) = Plain(Off(v))
      BY <3>2 DEF Leveled, Unpaced, PinIs, Plain, Told, Off
    <3> QED
      BY <3>1, <3>3
  <2> QED
    BY <1>2, <2>1
<1>16. PICK s : s = pending'
  OBVIOUS
<1>17. s \in Seq(SketchAccesses)
  BY <1>2, <1>7, <1>8, <1>9, <1>10, <1>14, <1>16, PassGives
<1>18. \A q \in SketchPins : GoesTo(regs, s, q, want'[q])
  <2> TAKE q \in SketchPins
  <2>1. q \in Pins /\ Sound(Viewed(regs, q), q)
    BY <1>2, <1>14
  <2>2. PICK v : v = Viewed(regs, q)
    OBVIOUS
  <2>3. CASE q = DataPin
    <3>1. CASE pending' = shiftOut(order, val, i) /\ want' = [want EXCEPT ![ClockPin] = Leveled(@, 0), ![DataPin] = Leveled(@, bit)]
      <4>1. Runs(v, s, q, Told(v, IF bit = 0 THEN 0 ELSE 1))
        BY <1>7, <1>8, <1>9, <1>16, <2>1, <2>2, <2>3, <3>1, PassGives
      <4>2. want'[q] = Plain(Told(v, IF bit = 0 THEN 0 ELSE 1))
        BY <1>11, <1>13, <1>15, <2>2, <2>3, <3>1
      <4> QED
        BY <2>2, <4>1, <4>2 DEF GoesTo
    <3>2. CASE ~(pending' = shiftOut(order, val, i) /\ want' = [want EXCEPT ![ClockPin] = Leveled(@, 0), ![DataPin] = Leveled(@, bit)])
      <4>1. pending' = shiftIn(order, i)
        BY <1>10, <3>2
      <4>2. Runs(v, s, q, Off(v))
        BY <1>7, <1>8, <1>9, <1>16, <2>1, <2>2, <2>3, <4>1, PassGives
      <4>3. want'[q] = Plain(Off(v))
        BY <1>11, <1>13, <1>15, <2>2, <2>3, <3>2
      <4> QED
        BY <2>2, <4>2, <4>3 DEF GoesTo
    <3> QED
      BY <3>1, <3>2
  <2>4. CASE q = ClockPin
    <3>1. Runs(v, s, q, Told(v, 0))
      BY <1>7, <1>8, <1>9, <1>10, <1>16, <2>1, <2>2, <2>4, PassGives
    <3>2. want'[q] = Plain(Told(v, 0))
      BY <1>13, <1>15, <2>2, <2>4
    <3> QED
      BY <2>2, <3>1, <3>2 DEF GoesTo
  <2>5. CASE q \notin {DataPin, ClockPin}
    <3>1. Runs(v, s, q, v)
      BY <1>7, <1>8, <1>9, <1>10, <1>16, <2>1, <2>2, <2>5, PassGives
    <3>2. want'[q] = Plain(v)
      BY <1>13, <1>14, <2>1, <2>2, <2>5
    <3> QED
      BY <2>2, <3>1, <3>2 DEF GoesTo
  <2> QED
    BY <2>3, <2>4, <2>5
<1>19. \A q \in HandlerPins : want'[q] = Plain(Viewed(regs, q))
  BY <1>2, <1>13, <1>14
<1> QED
  BY <1>1, <1>3, <1>4, <1>13, <1>16, <1>17, <1>18, <1>19 DEF PinsInv, SameShift

LEMMA PinsStay ==
    ASSUME PinsInv, UNCHANGED pinsVars
    PROVE  PinsInv'
BY DEF PinsInv, pinsVars, Now, TimerPins

LEMMA PinsGoOn ==
    ASSUME PinsInv, TimersApart, [PinsNext]_pinsVars
    PROVE  PinsInv'
BY SketchBegins, PortBegins, ShiftBegins, PassKeeps, SketchSteps, HandlerKeeps, PinsStay DEF PinsNext

\* Every pin has the mode, the level and the duty that the last call for it gave
\* it, with a handler that makes calls between any two accesses of the sketch,
\* when no timer of a sketch's pin drives one of the handler's
\* (wiring_digital.c, wiring_analog.c).
THEOREM PinsHold ==
    ASSUME TimersApart
    PROVE  PinsSpec => []PinsKept
<1>1. PinsInit => PinsInv
  BY PinsBegin
<1>2. PinsInv /\ [PinsNext]_pinsVars => PinsInv'
  BY PinsGoOn
<1>3. PinsInv => PinsKept
  BY PinsInvHolds
<1> QED
  BY <1>1, <1>2, <1>3, PTL DEF PinsSpec

------------------------------------------------------------------------------
(***************************************************************************)
(* The searches of a stream.  Of each target a search knows the longest    *)
(* start with which the characters it took end.                            *)
(***************************************************************************)
LongestStart(h, t, i) == EndsWith(h, t, i) /\ \A k \in i + 1 .. Len(t) : ~EndsWith(h, t, k)
NotYet(h, t) == \A k \in 0 .. Len(h) : ~Found(SubSeq(h, 1, k), t)
StartOf(t, i) == t \in Seq(Letter) /\ i \in 0 .. Len(t) - 1

\* The characters one by one.
LEMMA EndIs ==
    ASSUME NEW h \in Seq(Letter), NEW t \in Seq(Letter), NEW k \in 0 .. Len(t)
    PROVE  EndsWith(h, t, k) <=> k <= Len(h) /\ \A m \in 1 .. k : h[Len(h) - k + m] = t[m]
<1>1. CASE k <= Len(h)
  <2>1. PICK l \in Nat : l = Len(h)
    OBVIOUS
  <2>2. PICK a : a = SubSeq(h, l - k + 1, l)
    OBVIOUS
  <2>3. PICK b : b = SubSeq(t, 1, k)
    OBVIOUS
  <2>4. a \in Seq(Letter) /\ Len(a) = k /\ \A m \in 1 .. k : a[m] = h[l - k + m]
    <3>0. PICK from : from = l - k + 1
      OBVIOUS
    <3>1. from \in 1 .. l + 1 /\ from = l - k + 1
      BY <1>1, <2>1, <3>0
    <3>2. l \in from - 1 .. Len(h)
      BY <1>1, <2>1, <3>1
    <3>3. /\ a \in Seq(Letter) /\ Len(a) = l - from + 1
          /\ \A m \in 1 .. l - from + 1 : a[m] = h[from + m - 1]
      BY <2>1, <2>2, <3>1, <3>2, SubSeqProperties
    <3>4. l - from + 1 = k /\ \A m \in 1 .. k : from + m - 1 = l - k + m
      BY <3>1
    <3>5. a \in Seq(Letter) /\ Len(a) = k /\ \A m \in 1 .. k : a[m] = h[from + m - 1]
      BY <3>3, <3>4, Zenon
    <3> QED
      BY <3>4, <3>5, Zenon
  <2>5. b \in Seq(Letter) /\ Len(b) = k /\ \A m \in 1 .. k : b[m] = t[m]
    BY <2>3
  <2>6. a = b <=> \A m \in 1 .. k : a[m] = b[m]
    <3>1. (\A m \in 1 .. k : a[m] = b[m]) => a = b
      BY <2>4, <2>5, SeqEqual
    <3> QED
      BY <3>1
  <2> QED
    BY <1>1, <2>1, <2>2, <2>3, <2>4, <2>5, <2>6 DEF EndsWith
<1>2. CASE ~(k <= Len(h))
  BY <1>2 DEF EndsWith
<1> QED
  BY <1>1, <1>2

\* One character more: a start that goes on.
LEMMA EndGrows ==
    ASSUME NEW h \in Seq(Letter), NEW c \in Letter, NEW t \in Seq(Letter), NEW k \in 1 .. Len(t)
    PROVE  EndsWith(Append(h, c), t, k) <=> EndsWith(h, t, k - 1) /\ c = t[k]
<1>1. PICK g : g = Append(h, c)
  OBVIOUS
<1>2. PICK l \in Nat : l = Len(h)
  OBVIOUS
<1>3. g \in Seq(Letter) /\ Len(g) = l + 1 /\ g[l + 1] = c /\ \A n \in 1 .. l : g[n] = h[n]
  BY <1>1, <1>2, AppendProperties
<1>4. EndsWith(g, t, k) <=> k <= l + 1 /\ \A m \in 1 .. k : g[l + 1 - k + m] = t[m]
  <2>1. k \in 0 .. Len(t)
    OBVIOUS
  <2>2. EndsWith(g, t, k) <=> k <= Len(g) /\ \A m \in 1 .. k : g[Len(g) - k + m] = t[m]
    BY <1>3, <2>1, EndIs
  <2>3. Len(g) = l + 1
    BY <1>3
  <2>4. \A m \in 1 .. k : g[Len(g) - k + m] = g[l + 1 - k + m]
    BY <2>3
  <2>5. (\A m \in 1 .. k : g[Len(g) - k + m] = t[m]) <=> \A m \in 1 .. k : g[l + 1 - k + m] = t[m]
    BY <2>4, Zenon
  <2>6. k <= Len(g) <=> k <= l + 1
    BY <2>3
  <2> QED
    BY <2>2, <2>5, <2>6, Zenon
<1>5. EndsWith(h, t, k - 1) <=> k - 1 <= l /\ \A m \in 1 .. k - 1 : h[l - (k - 1) + m] = t[m]
  <2>1. PICK j : j = k - 1
    OBVIOUS
  <2>2. j \in 0 .. Len(t)
    BY <2>1
  <2>3. EndsWith(h, t, j) <=> j <= Len(h) /\ \A m \in 1 .. j : h[Len(h) - j + m] = t[m]
    BY <2>2, EndIs
  <2> QED
    BY <1>2, <2>1, <2>3
<1>6. CASE k - 1 <= l
  <2>1. \A m \in 1 .. k - 1 : g[l + 1 - k + m] = h[l - (k - 1) + m]
    BY <1>3, <1>6
  <2>2. g[l + 1 - k + k] = c
    BY <1>3
  <2>3. (\A m \in 1 .. k : g[l + 1 - k + m] = t[m])
          <=> (\A m \in 1 .. k - 1 : g[l + 1 - k + m] = t[m]) /\ c = t[k]
    BY <2>2
  <2>4. (\A m \in 1 .. k - 1 : g[l + 1 - k + m] = t[m]) <=> \A m \in 1 .. k - 1 : h[l - (k - 1) + m] = t[m]
    BY <2>1
  <2>5. k <= l + 1 /\ k - 1 <= l
    BY <1>6
  <2> QED
    BY <1>1, <1>4, <1>5, <2>3, <2>4, <2>5, Zenon
<1>7. CASE ~(k - 1 <= l)
  BY <1>1, <1>4, <1>5, <1>7
<1> QED
  BY <1>6, <1>7

\* Of two starts the shorter one is where the longer one ends.
LEMMA Overlap ==
    ASSUME NEW h \in Seq(Letter), NEW t \in Seq(Letter), NEW i \in 0 .. Len(t), EndsWith(h, t, i), NEW k \in 0 .. i
    PROVE  EndsWith(h, t, k) <=> \A m \in 1 .. k : t[m] = t[m + i - k]
<1>1. PICK l \in Nat : l = Len(h)
  OBVIOUS
<1>2. i <= l /\ \A m \in 1 .. i : h[l - i + m] = t[m]
  BY <1>1, EndIs
<1>3. EndsWith(h, t, k) <=> \A m \in 1 .. k : h[l - k + m] = t[m]
  <2>1. k \in 0 .. Len(t)
    OBVIOUS
  <2>2. EndsWith(h, t, k) <=> k <= Len(h) /\ \A m \in 1 .. k : h[Len(h) - k + m] = t[m]
    BY <2>1, EndIs
  <2> QED
    BY <1>1, <1>2, <2>2
<1>4. \A m \in 1 .. k : h[l - k + m] = t[m + i - k]
  <2> TAKE m \in 1 .. k
  <2>1. m + i - k \in 1 .. i /\ l - i + (m + i - k) = l - k + m
    BY <1>1
  <2> QED
    BY <1>2, <2>1
<1> QED
  BY <1>3, <1>4

LEMMA GreatestBelow ==
    ASSUME NEW i \in Nat, NEW S \in SUBSET (0 .. i - 1), S # {}
    PROVE  \E n \in S : \A m \in S : m <= n
<1>1. PICK T : T = {i - n : n \in S}
  OBVIOUS
<1>2. T \in SUBSET Nat /\ T # {}
  <2>1. \A n \in S : n \in 0 .. i - 1
    OBVIOUS
  <2>2. \A n \in S : i - n \in Nat
    BY <2>1
  <2>3. \A x \in T : \E n \in S : x = i - n
    BY <1>1
  <2>4. \A n \in S : i - n \in T
    BY <1>1
  <2> QED
    BY <2>2, <2>3, <2>4
<1>3. PICK x \in T : \A m \in T : x <= m
  BY <1>2, LeastOfAny
<1>4. PICK n \in S : x = i - n
  BY <1>1, <1>3
<1>5. \A m \in S : m <= n
  <2> TAKE m \in S
  <2>1. i - m \in T
    BY <1>1
  <2> QED
    BY <1>3, <1>4, <2>1
<1> QED
  BY <1>5

\* What the walk back finds: a start that the character completes, and that the
\* longer start ends with; and no longer one.
StartGoesOn(t, i, c, k) == c = t[k + 1] /\ \A m \in 1 .. k : t[m] = t[m + i - k]

LEMMA WalkEnds ==
    ASSUME NEW t, NEW i, StartOf(t, i), NEW c \in Letter
    PROVE  \/ Walked(t, i, c) = i + 1 /\ c = t[i + 1]
           \/ Walked(t, i, c) = 0 /\ c # t[i + 1] /\ \A k \in 0 .. i - 1 : ~StartGoesOn(t, i, c, k)
           \/ /\ c # t[i + 1]
              /\ \E b \in 0 .. i - 1 : /\ Walked(t, i, c) = 1 + b /\ StartGoesOn(t, i, c, b)
                                       /\ \A k \in 0 .. i - 1 : StartGoesOn(t, i, c, k) => k <= b
<1>1. PICK B : B = {k \in 0 .. i - 1 : StartGoesOn(t, i, c, k)}
  OBVIOUS
<1>2. PICK w : w = Walked(t, i, c)
  OBVIOUS
<1>3. w = IF c = t[i + 1] THEN i + 1 ELSE IF B = {} THEN 0 ELSE 1 + (CHOOSE k \in B : \A j \in B : j <= k)
  BY <1>1, <1>2 DEF Walked, StartGoesOn
<1>4. i \in Nat /\ B \in SUBSET (0 .. i - 1)
  BY <1>1 DEF StartOf
<1>5. CASE c = t[i + 1]
  BY <1>2, <1>3, <1>5
<1>6. CASE c # t[i + 1] /\ B = {}
  BY <1>1, <1>2, <1>3, <1>6
<1>7. CASE c # t[i + 1] /\ B # {}
  <2>1. \E k \in B : \A j \in B : j <= k
    BY <1>4, <1>7, GreatestBelow
  <2>2. PICK b : b = CHOOSE k \in B : \A j \in B : j <= k
    OBVIOUS
  <2>3. b \in B /\ \A j \in B : j <= b
    BY <2>1, <2>2
  <2>4. w = 1 + b
    BY <1>3, <1>7, <2>2
  <2> QED
    BY <1>1, <1>2, <1>7, <2>3, <2>4
<1> QED
  BY <1>5, <1>6, <1>7

LEMMA WalkIs ==
    ASSUME NEW h \in Seq(Letter), NEW t, NEW i, StartOf(t, i), LongestStart(h, t, i), NEW c \in Letter
    PROVE  Walked(t, i, c) \in 0 .. Len(t) /\ LongestStart(Append(h, c), t, Walked(t, i, c))
<1>1. PICK w : w = Walked(t, i, c)
  OBVIOUS
<1>2. PICK g : g = Append(h, c)
  OBVIOUS
<1>3. t \in Seq(Letter) /\ i \in 0 .. Len(t) - 1 /\ Len(t) \in Nat
  BY DEF StartOf
<1>4. EndsWith(h, t, i) /\ \A k \in i + 1 .. Len(t) : ~EndsWith(h, t, k)
  BY DEF LongestStart
<1>5. \A k \in 1 .. Len(t) : EndsWith(g, t, k) <=> EndsWith(h, t, k - 1) /\ c = t[k]
  BY <1>2, <1>3, EndGrows
<1>6. \A k \in 0 .. i - 1 : EndsWith(g, t, k + 1) <=> StartGoesOn(t, i, c, k)
  <2> TAKE k \in 0 .. i - 1
  <2>1. EndsWith(h, t, k) <=> \A m \in 1 .. k : t[m] = t[m + i - k]
    BY <1>3, <1>4, Overlap
  <2>2. k + 1 \in 1 .. Len(t) /\ k + 1 - 1 = k
    BY <1>3
  <2> QED
    BY <1>5, <2>1, <2>2 DEF StartGoesOn
<1>7. EndsWith(g, t, i + 1) <=> c = t[i + 1]
  <2>1. PICK j : j = i + 1
    OBVIOUS
  <2>2. j \in 1 .. Len(t) /\ j - 1 = i
    BY <1>3, <2>1
  <2>3. EndsWith(g, t, j) <=> EndsWith(h, t, j - 1) /\ c = t[j]
    BY <1>5, <2>2
  <2> QED
    BY <1>4, <2>1, <2>2, <2>3
<1>8. \A k \in i + 2 .. Len(t) : ~EndsWith(g, t, k)
  <2> TAKE k \in i + 2 .. Len(t)
  <2>1. k \in 1 .. Len(t) /\ k - 1 \in i + 1 .. Len(t)
    BY <1>3
  <2> QED
    BY <1>4, <1>5, <2>1
<1>9. EndsWith(g, t, 0)
  <2>1. g \in Seq(Letter) /\ 0 \in 0 .. Len(t) /\ 0 <= Len(g)
    BY <1>2, <1>3
  <2> QED
    BY <1>3, <2>1, EndIs
<1>10. \A k \in 1 .. i : EndsWith(g, t, k) <=> StartGoesOn(t, i, c, k - 1)
  <2> TAKE k \in 1 .. i
  <2>1. k - 1 \in 0 .. i - 1 /\ k - 1 + 1 = k
    BY <1>3
  <2> QED
    BY <1>6, <2>1
<1>11. CASE w = i + 1 /\ c = t[i + 1]
  BY <1>1, <1>2, <1>3, <1>7, <1>8, <1>11 DEF LongestStart
<1>12. CASE w = 0 /\ c # t[i + 1] /\ \A k \in 0 .. i - 1 : ~StartGoesOn(t, i, c, k)
  <2>1. \A k \in 1 .. Len(t) : ~EndsWith(g, t, k)
    <3> TAKE k \in 1 .. Len(t)
    <3>1. CASE k <= i
      <4>1. k \in 1 .. i /\ k - 1 \in 0 .. i - 1
        BY <1>3, <3>1
      <4> QED
        BY <1>10, <1>12, <4>1
    <3>2. CASE k = i + 1
      BY <1>7, <1>12, <3>2
    <3>3. CASE k >= i + 2
      BY <1>8, <3>3
    <3> QED
      BY <1>3, <3>1, <3>2, <3>3
  <2> QED
    BY <1>1, <1>2, <1>3, <1>9, <1>12, <2>1 DEF LongestStart
<1>13. CASE /\ c # t[i + 1]
            /\ \E b \in 0 .. i - 1 : /\ w = 1 + b /\ StartGoesOn(t, i, c, b)
                                     /\ \A k \in 0 .. i - 1 : StartGoesOn(t, i, c, k) => k <= b
  <2>1. PICK b \in 0 .. i - 1 : w = 1 + b /\ StartGoesOn(t, i, c, b) /\ \A k \in 0 .. i - 1 : StartGoesOn(t, i, c, k) => k <= b
    BY <1>13
  <2>2. w = b + 1 /\ EndsWith(g, t, w) /\ w \in 0 .. Len(t)
    BY <1>3, <1>6, <2>1
  <2>3. \A k \in w + 1 .. Len(t) : ~EndsWith(g, t, k)
    <3> TAKE k \in w + 1 .. Len(t)
    <3>1. CASE k <= i
      <4>1. k \in 1 .. i /\ k - 1 \in 0 .. i - 1 /\ ~(k - 1 <= b)
        BY <1>3, <2>1, <2>2, <3>1
      <4> QED
        BY <1>10, <2>1, <4>1
    <3>2. CASE k = i + 1
      BY <1>7, <1>13, <3>2
    <3>3. CASE k >= i + 2
      BY <1>8, <3>3
    <3> QED
      BY <1>3, <2>2, <3>1, <3>2, <3>3
  <2> QED
    BY <1>1, <1>2, <2>2, <2>3 DEF LongestStart
<1> QED
  BY <1>1, <1>11, <1>12, <1>13, WalkEnds

------------------------------------------------------------------------------
Searching(targets, index, h) ==
    /\ DOMAIN targets \subseteq Nat
    /\ \A n \in DOMAIN targets : StartOf(targets[n], index[n]) /\ LongestStart(h, targets[n], index[n]) /\ NotYet(h, targets[n])

SearchEnded(targets, r, h) ==
    /\ Found(h, targets[r])
    /\ \A n \in DOMAIN targets, k \in 0 .. Len(h) : Found(SubSeq(h, 1, k), targets[n]) => k = Len(h) /\ n >= r

ReadGoesOn(stop, length, count, h) ==
    /\ length \in Nat /\ count \in Nat /\ count < length /\ Len(h) = count
    /\ \A i \in 1 .. count : <<h[i]>> # stop

ReadEnded(stop, r, h) ==
    /\ Len(h) - r \in {0, 1}
    /\ r < Len(h) => <<h[Len(h)]>> = stop
    /\ \A i \in 1 .. r : <<h[i]>> # stop

TextInv ==
    /\ taken \in Seq(Letter)
    /\ call = [kind |-> call.kind, targets |-> call.targets, index |-> call.index, result |-> call.result]
    /\ call.kind \in {"none", "find", "found", "lost", "bytes", "read"}
    /\ call.kind = "none" => taken = <<>>
    /\ call.kind = "find" => Searching(call.targets, call.index, taken)
    /\ call.kind = "found" => SearchEnded(call.targets, call.result, taken)
    /\ call.kind = "bytes" => /\ call.index = <<call.index[1], call.index[2]>>
                              /\ ReadGoesOn(call.targets, call.index[1], call.index[2], taken)
    /\ call.kind = "read" => ReadEnded(call.targets, call.result, taken)

LEMMA FoundIs ==
    ASSUME NEW h \in Seq(Letter), NEW t \in Seq(Letter), Found(h, t)
    PROVE  Len(t) <= Len(h)
BY DEF Found, EndsWith

\* What was taken before is the start of what is taken now.
LEMMA TakenBefore ==
    ASSUME NEW h \in Seq(Letter), NEW c \in Letter, NEW k \in 0 .. Len(h) + 1
    PROVE  SubSeq(Append(h, c), 1, k) = IF k = Len(h) + 1 THEN Append(h, c) ELSE SubSeq(h, 1, k)
<1>1. PICK g : g = Append(h, c)
  OBVIOUS
<1>2. g \in Seq(Letter) /\ Len(g) = Len(h) + 1 /\ \A n \in 1 .. Len(h) : g[n] = h[n]
  BY <1>1, AppendProperties
<1>3. CASE k = Len(h) + 1
  BY <1>1, <1>2, <1>3, SubSeqFull
<1>4. CASE k # Len(h) + 1
  <2>1. k \in 0 .. Len(h)
    BY <1>4
  <2>2. PICK a : a = SubSeq(g, 1, k)
    OBVIOUS
  <2>3. PICK b : b = SubSeq(h, 1, k)
    OBVIOUS
  <2>4. a \in Seq(Letter) /\ Len(a) = k /\ \A m \in 1 .. k : a[m] = g[m]
    BY <1>2, <2>1, <2>2
  <2>5. b \in Seq(Letter) /\ Len(b) = k /\ \A m \in 1 .. k : b[m] = h[m]
    BY <2>1, <2>3
  <2>6. a = b
    BY <1>2, <2>1, <2>4, <2>5, SeqEqual
  <2> QED
    BY <1>1, <1>4, <2>2, <2>3, <2>6
<1> QED
  BY <1>3, <1>4

LEMMA NotYetGrows ==
    ASSUME NEW h \in Seq(Letter), NEW c \in Letter, NEW t, NEW k \in 0 .. Len(Append(h, c)),
           NotYet(h, t), Found(SubSeq(Append(h, c), 1, k), t)
    PROVE  k = Len(Append(h, c)) /\ Found(Append(h, c), t)
<1>1. Len(Append(h, c)) = Len(h) + 1 /\ Len(h) \in Nat
  OBVIOUS
<1>2. k \in 0 .. Len(h) + 1
  BY <1>1
<1>3. k # Len(h) + 1 => k \in 0 .. Len(h) /\ SubSeq(Append(h, c), 1, k) = SubSeq(h, 1, k)
  BY <1>1, <1>2, TakenBefore
<1>4. k = Len(h) + 1
  BY <1>3 DEF NotYet
<1>5. SubSeq(Append(h, c), 1, k) = Append(h, c)
  BY <1>2, <1>4, TakenBefore
<1> QED
  BY <1>1, <1>4, <1>5

\* One character of one target.
LEMMA TargetHears ==
    ASSUME NEW h \in Seq(Letter), NEW c \in Letter, NEW t, NEW i, NEW w,
           StartOf(t, i), LongestStart(h, t, i), NotYet(h, t), w = Walked(t, i, c)
    PROVE  /\ t \in Seq(Letter) /\ w \in 0 .. Len(t) /\ LongestStart(Append(h, c), t, w)
           /\ w = Len(t) => Found(Append(h, c), t)
           /\ \A k \in 0 .. Len(Append(h, c)) :
                 Found(SubSeq(Append(h, c), 1, k), t) => k = Len(Append(h, c)) /\ w = Len(t)
<1>1. t \in Seq(Letter) /\ w \in 0 .. Len(t) /\ LongestStart(Append(h, c), t, w)
  BY WalkIs DEF StartOf
<1>2. w = Len(t) <=> Found(Append(h, c), t)
  <2>1. w = Len(t) => Found(Append(h, c), t)
    BY <1>1 DEF LongestStart, Found
  <2>2. w # Len(t) => Len(t) \in w + 1 .. Len(t)
    BY <1>1
  <2> QED
    BY <1>1, <2>1, <2>2 DEF LongestStart, Found
<1> QED
  BY <1>1, <1>2, NotYetGrows

LEMMA FindGoesOn ==
    ASSUME TextInv, NEW c \in Letter, FindHears(c)
    PROVE  TextInv'
<1>1. call.kind = "find" /\ taken \in Seq(Letter) /\ Searching(call.targets, call.index, taken)
  BY DEF FindHears, TextInv
<1>2. PICK targets, old : targets = call.targets /\ old = call.index
  OBVIOUS
<1>3. PICK g : g = Append(taken, c)
  OBVIOUS
<1>4. taken' = g /\ g \in Seq(Letter)
  BY <1>1, <1>3 DEF FindHears
<1>5. PICK index : index = [n \in DOMAIN targets |-> Walked(targets[n], old[n], c)]
  OBVIOUS
<1>6. PICK whole : whole = {n \in DOMAIN index : index[n] = Len(targets[n])}
  OBVIOUS
<1>7. call' = IF whole = {} THEN [call EXCEPT !.index = index]
              ELSE [call EXCEPT !.kind = "found", !.result = CHOOSE n \in whole : \A m \in whole : n <= m]
  BY <1>2, <1>5, <1>6 DEF FindHears
<1>8. DOMAIN index = DOMAIN targets /\ DOMAIN targets \subseteq Nat
  BY <1>1, <1>2, <1>5 DEF Searching
<1>9. \A n \in DOMAIN targets :
        /\ targets[n] \in Seq(Letter) /\ index[n] \in 0 .. Len(targets[n]) /\ LongestStart(g, targets[n], index[n])
        /\ index[n] = Len(targets[n]) => Found(g, targets[n])
        /\ \A k \in 0 .. Len(g) : Found(SubSeq(g, 1, k), targets[n]) => k = Len(g) /\ index[n] = Len(targets[n])
  <2> TAKE n \in DOMAIN targets
  <2>1. StartOf(targets[n], old[n]) /\ LongestStart(taken, targets[n], old[n]) /\ NotYet(taken, targets[n])
    BY <1>1, <1>2 DEF Searching
  <2>2. index[n] = Walked(targets[n], old[n], c)
    BY <1>5
  <2> QED
    BY <1>1, <1>3, <2>1, <2>2, TargetHears
<1>10. CASE whole = {}
  <2>1. call' = [call EXCEPT !.index = index]
    BY <1>7, <1>10
  <2>2. call'.kind = "find" /\ call'.targets = targets /\ call'.index = index
        /\ call' = [kind |-> call'.kind, targets |-> call'.targets, index |-> call'.index, result |-> call'.result]
    BY <1>1, <1>2, <2>1 DEF TextInv
  <2>3. \A n \in DOMAIN targets : StartOf(targets[n], index[n]) /\ LongestStart(g, targets[n], index[n]) /\ NotYet(g, targets[n])
    <3> TAKE n \in DOMAIN targets
    <3>1. index[n] # Len(targets[n])
      BY <1>6, <1>8, <1>10
    <3> QED
      BY <1>9, <3>1 DEF StartOf, NotYet
  <2>4. Searching(targets, index, g)
    BY <1>8, <2>3 DEF Searching
  <2> QED
    BY <1>4, <2>2, <2>4 DEF TextInv
<1>11. CASE whole # {}
  <2>1. PICK r : r = CHOOSE n \in whole : \A m \in whole : n <= m
    OBVIOUS
  <2>2. whole \in SUBSET Nat
    BY <1>6, <1>8
  <2>3. r \in whole /\ \A m \in whole : r <= m
    BY <1>11, <2>1, <2>2, LeastOfAny
  <2>4. call' = [call EXCEPT !.kind = "found", !.result = r]
    BY <1>7, <1>11, <2>1
  <2>5. call'.kind = "found" /\ call'.targets = targets /\ call'.result = r
        /\ call' = [kind |-> call'.kind, targets |-> call'.targets, index |-> call'.index, result |-> call'.result]
    BY <1>1, <1>2, <2>4 DEF TextInv
  <2>6. r \in DOMAIN targets /\ Found(g, targets[r])
    BY <1>6, <1>8, <1>9, <2>3
  <2>7. \A n \in DOMAIN targets, k \in 0 .. Len(g) : Found(SubSeq(g, 1, k), targets[n]) => k = Len(g) /\ n >= r
    <3> TAKE n \in DOMAIN targets, k \in 0 .. Len(g)
    <3>1. ASSUME Found(SubSeq(g, 1, k), targets[n]) PROVE k = Len(g) /\ n >= r
      <4>1. k = Len(g) /\ n \in whole
        BY <1>6, <1>8, <1>9, <3>1
      <4>2. r \in Nat /\ n \in Nat /\ r <= n
        BY <2>2, <2>3, <4>1
      <4> QED
        BY <4>1, <4>2
    <3> QED
      BY <3>1
  <2>8. SearchEnded(targets, r, g)
    BY <2>6, <2>7 DEF SearchEnded
  <2> QED
    BY <1>4, <2>5, <2>8 DEF TextInv
<1> QED
  BY <1>10, <1>11

LEMMA FindBegins ==
    ASSUME NEW targets, DOMAIN targets \subseteq Nat, \A n \in DOMAIN targets : targets[n] \in Seq(Letter), Find(targets)
    PROVE  TextInv'
<1>1. PICK empty : empty = {n \in DOMAIN targets : targets[n] = <<>>}
  OBVIOUS
<1>2. PICK index : index = [n \in DOMAIN targets |-> 0]
  OBVIOUS
<1>3. taken' = <<>> /\ taken' \in Seq(Letter)
  BY DEF Find
<1>4. call' = IF empty = {} THEN [kind |-> "find", targets |-> targets, index |-> index, result |-> -1]
              ELSE [kind |-> "found", targets |-> targets, index |-> index,
                    result |-> CHOOSE n \in empty : \A m \in empty : n <= m]
  BY <1>1, <1>2 DEF Find
<1>5. PICK g : g = taken'
  OBVIOUS
<1>6. g = <<>> /\ g \in Seq(Letter) /\ Len(g) = 0 /\ SubSeq(g, 1, 0) = g
  BY <1>3, <1>5
<1>10. \A k \in 0 .. Len(g) : k = 0 /\ SubSeq(g, 1, k) = g
  <2> TAKE k \in 0 .. Len(g)
  <2>1. k = 0
    BY <1>6
  <2> QED
    BY <1>6, <2>1
<1>7. \A n \in DOMAIN targets : targets[n] # <<>> =>
         StartOf(targets[n], 0) /\ LongestStart(g, targets[n], 0) /\ NotYet(g, targets[n])
  <2> TAKE n \in DOMAIN targets
  <2>1. PICK t \in Seq(Letter) : t = targets[n]
    OBVIOUS
  <2>2. ASSUME t # <<>> PROVE StartOf(t, 0) /\ LongestStart(g, t, 0) /\ NotYet(g, t)
    <3>1. Len(t) \in Nat /\ Len(t) > 0
      BY <2>2, EmptySeq
    <3>2. StartOf(t, 0)
      BY <3>1 DEF StartOf
    <3>3. EndsWith(g, t, 0)
      <4>1. g \in Seq(Letter) /\ 0 <= Len(g)
        BY <1>6
      <4>2. PICK none \in 0 .. Len(t) : none = 0
        BY <3>1
      <4>3. EndsWith(g, t, none) <=> none <= Len(g) /\ \A m \in 1 .. none : g[Len(g) - none + m] = t[m]
        BY <4>1, EndIs, Zenon
      <4>4. \A m \in 1 .. none : FALSE
        BY <4>2
      <4> QED
        BY <4>1, <4>2, <4>3, <4>4, Zenon
    <3>4. \A k \in 1 .. Len(t) : ~EndsWith(g, t, k)
      BY <1>6, <3>1 DEF EndsWith
    <3>5. LongestStart(g, t, 0)
      BY <3>3, <3>4 DEF LongestStart
    <3>6. NotYet(g, t)
      <4>1. ~Found(g, t)
        BY <3>1, <3>4 DEF Found
      <4> QED
        BY <1>10, <4>1, Zenon DEF NotYet
    <3> QED
      BY <3>2, <3>5, <3>6
  <2> QED
    BY <2>1, <2>2
<1>8. CASE empty = {}
  <2>1. call' = [kind |-> "find", targets |-> targets, index |-> index, result |-> -1]
    BY <1>4, <1>8
  <2>2. \A n \in DOMAIN targets : index[n] = 0 /\ targets[n] # <<>>
    BY <1>1, <1>2, <1>8
  <2>3. Searching(targets, index, g)
    BY <1>7, <2>2 DEF Searching
  <2> QED
    BY <1>3, <1>5, <2>1, <2>3 DEF TextInv
<1>9. CASE empty # {}
  <2>1. PICK r : r = CHOOSE n \in empty : \A m \in empty : n <= m
    OBVIOUS
  <2>2. empty \in SUBSET Nat
    BY <1>1
  <2>3. r \in empty /\ \A m \in empty : r <= m
    BY <1>9, <2>1, <2>2, LeastOfAny
  <2>4. call' = [kind |-> "found", targets |-> targets, index |-> index, result |-> r]
    BY <1>4, <1>9, <2>1
  <2>5. r \in DOMAIN targets /\ targets[r] = <<>>
    BY <1>1, <2>3
  <2>6. Found(g, targets[r])
    BY <1>6, <2>5, EndIs DEF Found
  <2>7. \A n \in DOMAIN targets, k \in 0 .. Len(g) : Found(SubSeq(g, 1, k), targets[n]) => k = Len(g) /\ n >= r
    <3> TAKE n \in DOMAIN targets, k \in 0 .. Len(g)
    <3>1. ASSUME Found(SubSeq(g, 1, k), targets[n]) PROVE k = Len(g) /\ n >= r
      <4>1. k = 0 /\ Found(g, targets[n])
        BY <1>10, <3>1, Zenon
      <4>2. targets[n] = <<>>
        <5>1. 0 \in 0 .. Len(g) /\ Found(SubSeq(g, 1, 0), targets[n])
          BY <1>6, <4>1
        <5> QED
          BY <1>7, <5>1 DEF NotYet
      <4>3. n \in empty
        BY <1>1, <4>2
      <4>4. r \in Nat /\ n \in Nat /\ r <= n
        BY <2>2, <2>3, <4>3
      <4> QED
        BY <1>6, <4>1, <4>4
    <3> QED
      BY <3>1
  <2>8. SearchEnded(targets, r, g)
    BY <2>6, <2>7 DEF SearchEnded
  <2> QED
    BY <1>3, <1>5, <2>4, <2>8 DEF TextInv
<1> QED
  BY <1>8, <1>9

LEMMA FindCalls == TextInv /\ FindCalled => TextInv'
<1>1. \A t \in Targets : t \in Seq(Letter)
  BY TextAssumption DEF Targets
<1>2. ASSUME NEW t \in Targets, Find(<<t>>) PROVE TextInv'
  <2>1. PICK targets : targets = <<t>>
    OBVIOUS
  <2>2. DOMAIN targets \subseteq Nat /\ \A n \in DOMAIN targets : targets[n] \in Seq(Letter)
    BY <1>1, <2>1
  <2> QED
    BY <1>2, <2>1, <2>2, FindBegins
<1>3. ASSUME NEW t \in Targets, NEW u \in Targets, Find(<<t, u>>) PROVE TextInv'
  <2>1. PICK targets : targets = <<t, u>>
    OBVIOUS
  <2>2. DOMAIN targets \subseteq Nat /\ \A n \in DOMAIN targets : targets[n] \in Seq(Letter)
    BY <1>1, <2>1
  <2> QED
    BY <1>3, <2>1, <2>2, FindBegins
<1> QED
  BY <1>2, <1>3 DEF FindCalled

LEMMA ReadGoes ==
    ASSUME TextInv, NEW c \in Letter, ReadHears(c)
    PROVE  TextInv'
<1>1. PICK stop, length, count : stop = call.targets /\ length = call.index[1] /\ count = call.index[2]
  OBVIOUS
<1>2. call.kind = "bytes" /\ taken \in Seq(Letter) /\ call.index = <<length, count>>
      /\ ReadGoesOn(stop, length, count, taken)
  BY <1>1 DEF ReadHears, TextInv
<1>3. PICK g : g = Append(taken, c)
  OBVIOUS
<1>4. taken' = g /\ g \in Seq(Letter) /\ Len(g) = count + 1 /\ g[count + 1] = c /\ \A i \in 1 .. count : g[i] = taken[i]
  BY <1>2, <1>3, AppendProperties DEF ReadHears, ReadGoesOn
<1>5. length \in Nat /\ count \in Nat /\ count < length /\ \A i \in 1 .. count : <<g[i]>> # stop
  BY <1>2, <1>4 DEF ReadGoesOn
<1>6. call' = IF <<c>> = stop THEN [call EXCEPT !.kind = "read", !.result = count]
              ELSE IF count + 1 = length THEN [call EXCEPT !.kind = "read", !.index[2] = @ + 1, !.result = length]
              ELSE [call EXCEPT !.index[2] = @ + 1]
  BY <1>1 DEF ReadHears
<1>7. call = [kind |-> call.kind, targets |-> call.targets, index |-> call.index, result |-> call.result]
  BY DEF TextInv
<1>8. CASE <<c>> = stop
  <2>1. call' = [call EXCEPT !.kind = "read", !.result = count]
    BY <1>6, <1>8
  <2>2. call'.kind = "read" /\ call'.targets = stop /\ call'.result = count
        /\ call' = [kind |-> call'.kind, targets |-> call'.targets, index |-> call'.index, result |-> call'.result]
    BY <1>1, <1>7, <2>1
  <2>3. ReadEnded(stop, count, g)
    BY <1>4, <1>5, <1>8 DEF ReadEnded
  <2> QED
    BY <1>4, <2>2, <2>3 DEF TextInv
<1>9. CASE <<c>> # stop /\ count + 1 = length
  <2>1. call' = [call EXCEPT !.kind = "read", !.index[2] = @ + 1, !.result = length]
    BY <1>6, <1>9
  <2>2. call'.kind = "read" /\ call'.targets = stop /\ call'.result = length
        /\ call' = [kind |-> call'.kind, targets |-> call'.targets, index |-> call'.index, result |-> call'.result]
    BY <1>1, <1>7, <2>1
  <2>3. ReadEnded(stop, length, g)
    BY <1>4, <1>5, <1>9 DEF ReadEnded
  <2> QED
    BY <1>4, <2>2, <2>3 DEF TextInv
<1>10. CASE <<c>> # stop /\ count + 1 # length
  <2>1. call' = [call EXCEPT !.index[2] = @ + 1]
    BY <1>6, <1>10
  <2>2. call'.kind = "bytes" /\ call'.targets = stop /\ call'.index = [call.index EXCEPT ![2] = @ + 1]
        /\ call' = [kind |-> call'.kind, targets |-> call'.targets, index |-> call'.index, result |-> call'.result]
    BY <1>1, <1>2, <1>7, <2>1
  <2>3. call'.index = <<length, count + 1>>
    BY <1>2, <2>2
  <2>4. call'.index = <<call'.index[1], call'.index[2]>> /\ call'.index[1] = length /\ call'.index[2] = count + 1
    BY <2>3
  <2>5. ReadGoesOn(stop, length, count + 1, g)
    BY <1>4, <1>5, <1>10 DEF ReadGoesOn
  <2> QED
    BY <1>4, <2>2, <2>4, <2>5 DEF TextInv
<1> QED
  BY <1>8, <1>9, <1>10

LEMMA ReadBegins ==
    ASSUME TextInv, ReadCalled
    PROVE  TextInv'
<1>1. call = Idle /\ taken' = taken
  BY DEF ReadCalled, Begins
<1>2. PICK stop \in {<<>>} \union {<<c>> : c \in Letter}, length \in 1 .. MaxHeard :
         call' = [kind |-> "bytes", targets |-> stop, index |-> <<length, 0>>, result |-> -1]
  BY Zenon DEF ReadCalled
<1>3. taken = <<>> /\ taken \in Seq(Letter)
  BY <1>1 DEF TextInv, Idle
<1>4. length \in Nat /\ 0 < length
  BY TextAssumption
<1>5. ReadGoesOn(stop, length, 0, taken)
  BY <1>3, <1>4 DEF ReadGoesOn
<1>6. call'.kind = "bytes" /\ call'.targets = stop /\ call'.index = <<call'.index[1], call'.index[2]>>
      /\ call'.index[1] = length /\ call'.index[2] = 0
      /\ call' = [kind |-> call'.kind, targets |-> call'.targets, index |-> call'.index, result |-> call'.result]
  BY <1>2
<1> QED
  BY <1>1, <1>3, <1>5, <1>6 DEF TextInv

LEMMA CallTimesOut ==
    ASSUME TextInv, TimesOut
    PROVE  TextInv'
<1>1. call = [kind |-> call.kind, targets |-> call.targets, index |-> call.index, result |-> call.result]
      /\ taken \in Seq(Letter) /\ taken' = taken
  BY DEF TextInv, TimesOut
<1>2. CASE call.kind = "find" /\ call' = [call EXCEPT !.kind = "lost"]
  BY <1>1, <1>2 DEF TextInv
<1>3. CASE call.kind = "bytes" /\ call' = [call EXCEPT !.kind = "read", !.result = call.index[2]]
  <2>1. call'.kind = "read" /\ call'.targets = call.targets /\ call'.result = call.index[2]
        /\ call' = [kind |-> call'.kind, targets |-> call'.targets, index |-> call'.index, result |-> call'.result]
    BY <1>1, <1>3
  <2>2. ReadGoesOn(call.targets, call.index[1], call.index[2], taken)
    BY <1>3 DEF TextInv
  <2>3. ReadEnded(call.targets, call.index[2], taken)
    BY <2>2 DEF ReadGoesOn, ReadEnded
  <2> QED
    BY <1>1, <2>1, <2>3 DEF TextInv
<1> QED
  BY <1>2, <1>3 DEF TimesOut

LEMMA TextInvHolds == TextInv => FindsFirst
<1> SUFFICES ASSUME TextInv PROVE FindsFirst
  OBVIOUS
<1>1. ASSUME call.kind = "find" PROVE
        \A n \in DOMAIN call.targets :
             LET t == call.targets[n]
             IN /\ ~\E k \in 0 .. Len(taken) : Found(SubSeq(taken, 1, k), t)
                /\ EndsWith(taken, t, call.index[n])
                /\ \A k \in call.index[n] + 1 .. Len(t) : ~EndsWith(taken, t, k)
  BY <1>1, Zenon DEF TextInv, Searching, LongestStart, NotYet
<1>2. ASSUME call.kind = "found" PROVE
         /\ Found(taken, call.targets[call.result])
         /\ \A n \in DOMAIN call.targets, k \in 0 .. Len(taken) :
               Found(SubSeq(taken, 1, k), call.targets[n]) => k = Len(taken) /\ n >= call.result
  BY <1>2, Zenon DEF TextInv, SearchEnded
<1>3. ASSUME call.kind = "read" PROVE ReadEnded(call.targets, call.result, taken)
  BY <1>3 DEF TextInv
<1> QED
  BY <1>1, <1>2, <1>3, Zenon DEF FindsFirst, ReadEnded

LEMMA SearchesBegin == TextInit => TextInv
BY DEF TextInit, TextInv, Idle

LEMMA TextGoesOn == TextInv /\ [TextNext]_textVars => TextInv'
<1>1. ASSUME TextInv, UNCHANGED textVars PROVE TextInv'
  <2>1. call' = call /\ taken' = taken
    BY <1>1 DEF textVars
  <2> QED
    BY <1>1, <2>1, Zenon DEF TextInv
<1>2. ASSUME TextInv, Says PROVE TextInv'
  <2>1. call' = call /\ taken' = taken
    BY <1>2 DEF Says
  <2> QED
    BY <1>2, <2>1, Zenon DEF TextInv
<1>3. ASSUME Forget PROVE TextInv'
  BY <1>3 DEF TextInv, Forget, Idle
<1> QED
  BY <1>1, <1>2, <1>3, FindCalls, FindGoesOn, ReadBegins, ReadGoes, CallTimesOut DEF TextNext

(* A search ends with the first character that completes a target and with *)
(* the first such target, and a read with the stop or the length, for all  *)
(* characters, targets and lengths: after a target's start broke off the   *)
(* search goes on from the longest part of it that may still become a      *)
(* target (Stream.cpp:188-318).                                            *)
THEOREM TextFinds == TextSpec => []FindsFirst
BY SearchesBegin, TextGoesOn, TextInvHolds, PTL DEF TextSpec
==============================================================================
