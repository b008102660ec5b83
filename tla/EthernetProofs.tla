---------------------------- MODULE EthernetProofs ----------------------------
(***************************************************************************)
(* Whose socket a call reaches, for every number of sockets, objects, uses *)
(* and unread units, and whichever parts of the library a sketch uses; and *)
(* whose lease the DHCP client holds, for every number of servers and of   *)
(* transactions, whether or not sockets run out and however late _timeout  *)
(* is noticed.                                                             *)
(***************************************************************************)
EXTENDS EthernetSockets, Dhcp, SequenceTheorems, WellFoundedInduction, TLAPS

SocketStates == {"CLOSED", "INIT", "LISTEN", "SYNSENT", "ESTABLISHED", "FIN_WAIT", "CLOSE_WAIT", "LAST_ACK", "UDP"}
Unit == [of : Nat, n : Nat, len : Nat, from : {"peer", "dns"}, q : Nat]
Socket == [st : SocketStates, use : Nat, rx : Seq(Unit), ir : SUBSET {"SEND_OK", "TIMEOUT"}, tx : Room]
Ops == {"idle", "connect", "send", "sending", "stop", "accept", "acceptStop", "available", "serverWrite", "serverSent",
        "packet", "parse", "query", "querying", "answer", "skip"}
Holders == Clients \cup {Guest}

SocketTypes ==
    /\ chip \in [Sockets -> Socket]
    /\ _server_port \in [Sockets -> BOOLEAN]
    /\ _sock \in [Objects -> 0 .. MAX_SOCK_NUM]
    /\ _remaining \in [UdpObjects -> Nat]
    /\ mine \in [Objects -> Nat]
    /\ uses \in Nat /\ queries \in Nat

(* The call at work and the socket it waits for; one that closes the socket *)
(* closes nobody's but that of a connection that is over.                   *)
Over(s) == \A g \in Objects : _sock[g] = s => mine[g] \in ended
NoUdp(s) == ~crossed => \A u \in UdpObjects : _sock[u] # s

CallTypes ==
    /\ call.op \in Ops /\ call.h \in Objects /\ call.s \in 0 .. MAX_SOCK_NUM /\ call.n \in Nat
    /\ call.next \in {"idle", "available", "serverWrite", "serverSent"}
    /\ call = [op |-> call.op, h |-> call.h, s |-> call.s, next |-> call.next, listening |-> call.listening, n |-> call.n]

CallKnows ==
    /\ call.op \in {"connect", "send", "sending", "stop", "acceptStop", "packet", "parse", "serverSent"} => call.s # MAX_SOCK_NUM
    /\ call.op \in {"connect", "stop", "packet", "parse"} => _sock[call.h] = call.s
    /\ call.op \in {"send", "sending"} /\ call.next = "idle" => _sock[call.h] = call.s
    /\ call.op \in {"send", "sending"} => call.next \in {"idle", "serverSent"}
    /\ call.op \in {"packet", "parse"} => call.h \in UdpObjects
    /\ call.op \in {"connect", "stop"} => call.h \in Holders
    /\ call.op = "connect" => call.h # Guest
    /\ call.op \in {"query", "querying", "answer"} => _sock[Dns] # MAX_SOCK_NUM
    /\ call.op \in {"query", "querying", "answer"} => _remaining[Dns] = 0
    /\ call.op \in {"accept", "acceptStop"} => call.next \in {"available", "serverWrite"}
    /\ call.op \notin {"send", "sending", "accept", "acceptStop"} => call.next = "idle"
    /\ call.op \in {"stop", "acceptStop"} => Over(call.s) /\ NoUdp(call.s)

(* A socket that is in use has an owner; the server's variable for a guest *)
(* is not one, because available() forgets what it held.                   *)
SocketsHeld ==
    \A s \in Sockets :
        chip[s].st \in {"CLOSED", "INIT"} \/ _server_port[s] \/ \E h \in Objects \ {Guest} : _sock[h] = s

(* An object's socket is the one it got, in a connection that goes on, or  *)
(* what it got it for is over.                                             *)
Mine(h) == chip[_sock[h]].use = mine[h] /\ chip[_sock[h]].st \in {"SYNSENT", "ESTABLISHED", "UDP"}

SocketsOwned ==
    /\ \A h \in Objects : _sock[h] # MAX_SOCK_NUM => mine[h] \in ended \/ Mine(h)
    /\ \A s \in Sockets : chip[s].st = "CLOSE_WAIT" => chip[s].use \in ended
    /\ \A s \in Sockets : chip[s].st = "LISTEN" => chip[s].rx = <<>>
    /\ \A s \in Sockets, i \in Nat : i \in 1 .. Len(chip[s].rx) => chip[s].rx[i].of = chip[s].use

(* Until a call has crossed into another's socket a UDP object has its own *)
(* to itself.                                                              *)
UdpOwned ==
    /\ \A h \in Objects : mine[h] <= uses
    /\ \A s \in Sockets : chip[s].use <= uses
    /\ ~crossed => \A u \in UdpObjects : _sock[u] # MAX_SOCK_NUM =>
          /\ chip[_sock[u]].st = "UDP" /\ chip[_sock[u]].use = mine[u]
          /\ \A h \in Objects : h # u /\ _sock[h] = _sock[u] => mine[h] # mine[u]

(* RX memory: the rest of a datagram, left units long, and whole ones.     *)
Follows(u, v) == IF u.n = u.len THEN v.n = 0 ELSE v.n = u.n + 1 /\ v.len = u.len
Framed(rx, left) ==
    /\ left <= Len(rx)
    /\ \A i \in 1 .. left : rx[i].n = rx[i].len - left + i
    /\ Len(rx) > left => rx[left + 1].n = 0
    /\ \A i \in 1 .. Len(rx) :
          /\ rx[i].n <= rx[i].len
          /\ IF i < Len(rx) THEN Follows(rx[i], rx[i + 1]) ELSE rx[i].n = rx[i].len

Frames == ~crossed => \A u \in UdpObjects : _sock[u] # MAX_SOCK_NUM => Framed(chip[_sock[u]].rx, _remaining[u])

EthernetInv == SocketTypes /\ CallTypes /\ CallKnows /\ SocketsHeld /\ SocketsOwned /\ UdpOwned /\ Frames

------------------------------------------------------------------------------
(* Of the sockets that would do the first one is taken, and it is one of   *)
(* them.                                                                   *)
LEMMA LeastOf ==
    ASSUME NEW S \in SUBSET Nat, S # {}
    PROVE  \E n \in S : \A m \in S : n <= m
<1>2. PICK n \in S : \A m \in S : ~(<<m, n>> \in OpToRel(<, Nat))
  BY NatLessThanWellFounded, WFMin
<1>3. \A m \in S : n <= m
  <2> TAKE m \in S
  <2>1. <<m, n>>[1] = m /\ <<m, n>>[2] = n /\ <<m, n>> \in Nat \X Nat
    OBVIOUS
  <2>2. ~(m < n)
    BY <1>2, <2>1 DEF OpToRel
  <2> QED
    BY <2>2
<1> QED
  BY <1>3

LEMMA FirstIsOne ==
    ASSUME NEW S \in SUBSET Sockets, S # {}
    PROVE  First(S) \in S
<1>1. S \in SUBSET Nat
  BY EthernetAssumption DEF EthernetAssumption, Sockets
<1> QED
  BY <1>1, LeastOf DEF First, Min

LEMMA Distinct ==
    /\ Guest \in Objects /\ Dns \in UdpObjects /\ UdpObjects \subseteq Objects /\ Holders \subseteq Objects
    /\ Clients \subseteq Holders /\ Guest \notin Clients /\ Guest \notin UdpObjects /\ Holders \cap UdpObjects = {}
    /\ MAX_SOCK_NUM \in Nat /\ MAX_SOCK_NUM \notin Sockets /\ 0 \in Sockets /\ 0 \in 0 .. MAX_SOCK_NUM
    /\ \A s \in 0 .. MAX_SOCK_NUM : s # MAX_SOCK_NUM => s \in Sockets
    /\ \A s \in Sockets : s \in Nat /\ s \in 0 .. MAX_SOCK_NUM /\ s + 1 \in 0 .. MAX_SOCK_NUM
  BY EthernetAssumption DEF EthernetAssumption, Objects, Holders, UdpObjects, Sockets

(* The initial state.                                                      *)
LEMMA EthernetInitially == EthernetInit => EthernetInv
<1> SUFFICES ASSUME EthernetInit PROVE EthernetInv
  OBVIOUS
<1>1. SocketTypes
  <2>1. [st |-> "CLOSED", use |-> 0, rx |-> <<>>, ir |-> {}, tx |-> "room"] \in Socket
    BY DEF Socket, SocketStates, Room
  <2> QED
    BY <2>1, Distinct DEF EthernetInit, SocketTypes
<1>2. CallTypes /\ CallKnows
  BY Distinct DEF EthernetInit, CallTypes, CallKnows, NoCall, Ops
<1>3. SocketsHeld /\ SocketsOwned
  BY Distinct DEF EthernetInit, SocketsHeld, SocketsOwned
<1>4. UdpOwned /\ Frames
  BY Distinct DEF EthernetInit, UdpOwned, Frames
<1> QED
  BY <1>1, <1>2, <1>3, <1>4 DEF EthernetInv

------------------------------------------------------------------------------
(* RX memory.                                                              *)
LEMMA UnitIs == \A u \in Unit : u.n \in Nat /\ u.len \in Nat /\ u.of \in Nat
  BY DEF Unit

LEMMA Dropped ==
    ASSUME NEW rx \in Seq(Unit), NEW k \in 0 .. Len(rx)
    PROVE  LET r == SubSeq(rx, k + 1, Len(rx))
           IN r \in Seq(Unit) /\ Len(r) = Len(rx) - k /\ \A i \in 1 .. Len(r) : r[i] = rx[k + i]
<1>1. \A i \in k + 1 .. Len(rx) : rx[i] \in Unit
  OBVIOUS
<1> QED
  BY <1>1, SubSeqProperties

LEMMA FramedEmpty == Framed(<<>>, 0)
  BY DEF Framed

(* A part of the rest is read.                                             *)
LEMMA FramedRead ==
    ASSUME NEW rx \in Seq(Unit), NEW left \in Nat, Framed(rx, left), NEW k \in 0 .. left,
           NEW r \in Seq(Unit), Len(r) = Len(rx) - k, \A i \in 1 .. Len(r) : r[i] = rx[k + i]
    PROVE  Framed(r, left - k)
<1>1. left <= Len(rx) /\ left - k <= Len(r) /\ left - k \in Nat /\ Len(rx) \in Nat /\ Len(r) \in Nat
  BY DEF Framed
<1>2. ASSUME NEW i \in 1 .. left - k PROVE r[i].n = r[i].len - (left - k) + i
  <2> DEFINE j == k + i
             u == rx[j]
  <2>1. r[i] = u /\ j \in 1 .. left /\ u \in Unit
    BY <1>1
  <2>2. u.n = u.len - left + j
    BY <2>1 DEF Framed
  <2>3. u.n \in Nat /\ u.len \in Nat
    BY <2>1, UnitIs
  <2>4. j = k + i
    OBVIOUS
  <2> HIDE DEF j, u
  <2> QED
    BY <2>1, <2>2, <2>3, <2>4
<1>3. Len(r) > left - k => r[left - k + 1].n = 0
  BY <1>1 DEF Framed
<1>4. ASSUME NEW i \in 1 .. Len(r)
      PROVE  r[i].n <= r[i].len /\ IF i < Len(r) THEN Follows(r[i], r[i + 1]) ELSE r[i].n = r[i].len
  <2> DEFINE j == k + i
  <2>1. j \in 1 .. Len(rx) /\ (i < Len(r) <=> j < Len(rx)) /\ r[i] = rx[j]
    BY <1>1
  <2>2. i < Len(r) => r[i + 1] = rx[j + 1]
    BY <1>1
  <2>3. rx[j].n <= rx[j].len /\ IF j < Len(rx) THEN Follows(rx[j], rx[j + 1]) ELSE rx[j].n = rx[j].len
    BY <2>1 DEF Framed
  <2> HIDE DEF j
  <2> QED
    BY <2>1, <2>2, <2>3
<1> QED
  BY <1>1, <1>2, <1>3, <1>4 DEF Framed

(* A datagram that has begun is there as a whole.                          *)
LEMMA FramedWhole ==
    ASSUME NEW rx \in Seq(Unit), NEW left \in Nat, Framed(rx, left), Len(rx) > left,
           NEW i \in 0 .. rx[left + 1].len
    PROVE  LET h == left + 1
           IN h + i <= Len(rx) /\ rx[h + i].n = i /\ rx[h + i].len = rx[h].len
<1> DEFINE h == left + 1
           len == rx[h].len
           P(k) == h + k <= Len(rx) /\ rx[h + k].n = k /\ rx[h + k].len = len
           T == {k \in 0 .. len : ~P(k)}
<1>1. h \in 1 .. Len(rx) /\ len \in Nat /\ rx[h].n = 0 /\ Len(rx) \in Nat
  BY UnitIs DEF Framed
<1>2. P(0)
  BY <1>1
<1>3. ASSUME NEW k \in 0 .. len, k + 1 <= len, P(k) PROVE P(k + 1)
  <2> DEFINE u == rx[h + k]
             v == rx[h + k + 1]
  <2>1. h + k \in 1 .. Len(rx) /\ u.n = k /\ u.len = len
    BY <1>1, <1>3
  <2>2. IF h + k < Len(rx) THEN Follows(u, v) ELSE u.n = u.len
    BY <2>1 DEF Framed
  <2>3. u.n # u.len
    BY <2>1, <1>1, <1>3
  <2>4. h + k < Len(rx) /\ v.n = u.n + 1 /\ v.len = u.len
    BY <2>2, <2>3 DEF Follows
  <2>5. h + (k + 1) = h + k + 1
    BY <1>1
  <2> QED
    BY <2>1, <2>4, <2>5, <1>1
<1>4. T = {}
  <2> SUFFICES ASSUME T # {} PROVE FALSE
    OBVIOUS
  <2>1. T \in SUBSET Nat
    BY <1>1
  <2>2. PICK k \in T : \A m \in T : k <= m
    BY <2>1, LeastOf
  <2>3. k \in 0 .. len /\ ~P(k) /\ k # 0
    BY <1>2, <2>2
  <2>4. k - 1 \in 0 .. len /\ (k - 1) + 1 = k
    BY <2>3, <1>1
  <2>5. k - 1 \notin T
    BY <2>2, <2>4, <1>1
  <2>6. P(k - 1)
    BY <2>4, <2>5
  <2> HIDE DEF P
  <2>7. P((k - 1) + 1)
    BY <1>3, <2>4, <2>6, <2>3, <1>1
  <2> QED
    BY <2>3, <2>4, <2>7
<1>5. P(i)
  BY <1>4
<1> QED
  BY <1>5

(* The header of the next datagram is taken.                               *)
LEMMA FramedNext ==
    ASSUME NEW rx \in Seq(Unit), NEW left \in Nat, Framed(rx, left), Len(rx) > left,
           NEW r \in Seq(Unit), Len(r) = Len(rx) - left - 1, \A i \in 1 .. Len(r) : r[i] = rx[left + 1 + i]
    PROVE  Framed(r, rx[left + 1].len)
<1> DEFINE h == left + 1
           len == rx[h].len
<1>1. h \in 1 .. Len(rx) /\ len \in Nat /\ Len(r) = Len(rx) - h /\ Len(rx) \in Nat /\ Len(r) \in Nat
  BY UnitIs
<1>2. \A i \in 0 .. len : h + i <= Len(rx) /\ rx[h + i].n = i /\ rx[h + i].len = len
  BY FramedWhole
<1>3. \A i \in 1 .. Len(r) : r[i] = rx[h + i]
  OBVIOUS
<1>4. \A i \in 1 .. Len(rx) :
          rx[i].n <= rx[i].len /\ IF i < Len(rx) THEN Follows(rx[i], rx[i + 1]) ELSE rx[i].n = rx[i].len
  BY DEF Framed
<1> HIDE DEF h, len
<1>5. len <= Len(r)
  <2>1. h + len <= Len(rx)
    <3>1. len \in 0 .. len
      BY <1>1
    <3> QED
      BY <3>1, <1>2
  <2> QED
    BY <2>1, <1>1
<1>6. \A i \in 1 .. len : r[i].n = r[i].len - len + i
  <2> TAKE i \in 1 .. len
  <2>1. rx[h + i].n = i /\ rx[h + i].len = len /\ r[i] = rx[h + i]
    BY <1>1, <1>2, <1>3, <1>5
  <2> QED
    BY <2>1, <1>1
<1>7. Len(r) > len => r[len + 1].n = 0
  <2> HAVE Len(r) > len
  <2>1. h + len \in 1 .. Len(rx) /\ h + len < Len(rx) /\ h + len + 1 = h + (len + 1)
    BY <1>1
  <2>2. len \in 0 .. len /\ rx[h + len].n = len /\ rx[h + len].len = len
    <3>1. len \in 0 .. len
      BY <1>1
    <3> QED
      BY <3>1, <1>2
  <2>3. Follows(rx[h + len], rx[h + len + 1])
    BY <2>1, <1>4
  <2>4. rx[h + (len + 1)].n = 0
    BY <2>1, <2>2, <2>3 DEF Follows
  <2>5. len + 1 \in 1 .. Len(r)
    BY <1>1
  <2> QED
    BY <2>4, <2>5, <1>3
<1>8. ASSUME NEW i \in 1 .. Len(r)
      PROVE  r[i].n <= r[i].len /\ IF i < Len(r) THEN Follows(r[i], r[i + 1]) ELSE r[i].n = r[i].len
  <2> DEFINE j == h + i
  <2>1. j \in 1 .. Len(rx) /\ (i < Len(r) <=> j < Len(rx)) /\ r[i] = rx[j]
    BY <1>1, <1>3
  <2>2. i < Len(r) => r[i + 1] = rx[j + 1]
    <3> HAVE i < Len(r)
    <3>1. i + 1 \in 1 .. Len(r) /\ h + (i + 1) = j + 1
      BY <1>1
    <3> QED
      BY <3>1, <1>3
  <2>3. rx[j].n <= rx[j].len /\ IF j < Len(rx) THEN Follows(rx[j], rx[j + 1]) ELSE rx[j].n = rx[j].len
    BY <2>1, <1>4
  <2> HIDE DEF j
  <2> QED
    BY <2>1, <2>2, <2>3
<1>9. Framed(r, len)
  BY <1>5, <1>6, <1>7, <1>8 DEF Framed
<1> QED
  BY <1>9 DEF len, h

(* A datagram arrives.                                                     *)
LEMMA FramedMore ==
    ASSUME NEW rx \in Seq(Unit), NEW left \in Nat, Framed(rx, left), NEW len \in Nat,
           NEW r \in Seq(Unit), Len(r) = Len(rx) + len + 1, \A i \in 1 .. Len(rx) : r[i] = rx[i],
           \A i \in 1 .. len + 1 : r[Len(rx) + i].n = i - 1 /\ r[Len(rx) + i].len = len
    PROVE  Framed(r, left)
<1> DEFINE N == Len(rx)
<1>1. left <= N /\ N \in Nat /\ N < Len(r) /\ Len(r) = N + len + 1
  BY DEF Framed
<1>2. \A i \in 1 .. left : r[i].n = r[i].len - left + i
  BY <1>1 DEF Framed
<1>3. \A i \in 1 .. N : rx[i].n <= rx[i].len /\ IF i < N THEN Follows(rx[i], rx[i + 1]) ELSE rx[i].n = rx[i].len
  BY DEF Framed
<1>4. \A i \in 1 .. len + 1 : r[N + i].n = i - 1 /\ r[N + i].len = len
  OBVIOUS
<1>5. \A i \in 1 .. N : r[i] = rx[i]
  OBVIOUS
<1>6. left < N => r[left + 1].n = 0
  BY <1>1 DEF Framed
<1> HIDE DEF N
<1>7. r[N + 1].n = 0
  <2>1. 1 \in 1 .. len + 1
    OBVIOUS
  <2> QED
    BY <2>1, <1>4
<1>8. r[left + 1].n = 0
  BY <1>1, <1>6, <1>7
<1>9. ASSUME NEW i \in 1 .. Len(r)
      PROVE  r[i].n <= r[i].len /\ IF i < Len(r) THEN Follows(r[i], r[i + 1]) ELSE r[i].n = r[i].len
  <2>1. CASE i < N
    <3>1. i \in 1 .. N /\ i + 1 \in 1 .. N /\ i < Len(r)
      BY <2>1, <1>1
    <3>2. r[i] = rx[i] /\ r[i + 1] = rx[i + 1]
      BY <3>1, <1>5
    <3> QED
      BY <3>1, <3>2, <2>1, <1>3
  <2>2. CASE i = N
    <3>1. r[i] = rx[i] /\ i \in 1 .. N /\ i < Len(r)
      BY <2>2, <1>1, <1>5
    <3>2. rx[i].n <= rx[i].len /\ rx[i].n = rx[i].len
      BY <3>1, <2>2, <1>3
    <3> QED
      BY <3>1, <3>2, <1>7, <2>2 DEF Follows
  <2>3. CASE i > N
    <3> DEFINE k == i - N
    <3>1. k \in 1 .. len + 1 /\ i = N + k /\ (i < Len(r) <=> k < len + 1)
      BY <2>3, <1>1
    <3> HIDE DEF k
    <3>2. r[i].n = k - 1 /\ r[i].len = len
      BY <3>1, <1>4
    <3>3. ASSUME k < len + 1 PROVE r[i + 1].n = k /\ r[i + 1].len = len
      <4>1. k + 1 \in 1 .. len + 1 /\ i + 1 = N + (k + 1) /\ (k + 1) - 1 = k
        BY <3>1, <3>3, <1>1
      <4>2. r[N + (k + 1)].n = (k + 1) - 1 /\ r[N + (k + 1)].len = len
        BY <4>1, <1>4
      <4> QED
        BY <4>1, <4>2
    <3>4. CASE k < len + 1
      BY <3>1, <3>2, <3>3, <3>4 DEF Follows
    <3>5. CASE k = len + 1
      BY <3>1, <3>2, <3>5
    <3> QED
      BY <3>1, <3>4, <3>5
  <2> QED
    BY <2>1, <2>2, <2>3, <1>1
<1> QED
  BY <1>1, <1>2, <1>8, <1>9 DEF Framed, N

------------------------------------------------------------------------------
(* A step that changes at most the flags of sockets.                       *)
Calm ==
    /\ chip' \in [Sockets -> Socket]
    /\ \A s \in Sockets : chip'[s].st = chip[s].st /\ chip'[s].use = chip[s].use /\ chip'[s].rx = chip[s].rx
    /\ UNCHANGED <<_server_port, _sock, _remaining, mine, ended, uses, queries>>
    /\ crossed => crossed'

OwnersInv == SocketTypes /\ SocketsHeld /\ SocketsOwned /\ UdpOwned /\ Frames

LEMMA SockIs ==
    ASSUME SocketTypes
    PROVE  /\ \A h \in Objects : _sock[h] \in 0 .. MAX_SOCK_NUM /\ (_sock[h] # MAX_SOCK_NUM => _sock[h] \in Sockets)
           /\ \A s \in Sockets : chip[s] \in Socket /\ chip[s].rx \in Seq(Unit) /\ chip[s].use \in Nat
           /\ \A h \in Objects : mine[h] \in Nat
           /\ \A u \in UdpObjects : _remaining[u] \in Nat
  BY Distinct DEF SocketTypes, Socket

LEMMA CalmKeeps ==
    ASSUME OwnersInv, Calm
    PROVE  OwnersInv'
<1>1. SocketTypes'
  BY DEF OwnersInv, Calm, SocketTypes
<1>2. SocketsHeld'
  BY DEF OwnersInv, Calm, SocketsHeld
<1>3. SocketsOwned'
  <2>1. \A h \in Objects : _sock'[h] # MAX_SOCK_NUM => mine'[h] \in ended' \/ Mine(h)'
    BY SockIs DEF OwnersInv, Calm, SocketsOwned, Mine
  <2> QED
    BY <2>1 DEF OwnersInv, Calm, SocketsOwned
<1>4. UdpOwned'
  BY SockIs, Distinct DEF OwnersInv, Calm, UdpOwned
<1>5. Frames'
  BY SockIs, Distinct DEF OwnersInv, Calm, Frames
<1> QED
  BY <1>1, <1>2, <1>3, <1>4, <1>5 DEF OwnersInv

(* The chip stays as it is.                                                *)
LEMMA IdleChipIsCalm ==
    ASSUME OwnersInv, UNCHANGED <<chip, _server_port, _sock, _remaining, mine, ended, uses, queries>>, crossed => crossed'
    PROVE  Calm
  BY DEF OwnersInv, SocketTypes, Calm

LEMMA FlagIsCalm ==
    ASSUME OwnersInv, NEW s \in Sockets, NEW r \in Socket, chip' = [chip EXCEPT ![s] = r],
           r.st = chip[s].st, r.use = chip[s].use, r.rx = chip[s].rx,
           UNCHANGED <<_server_port, _sock, _remaining, mine, ended, uses, queries>>, crossed => crossed'
    PROVE  Calm
  BY DEF OwnersInv, SocketTypes, Calm

LEMMA TxIsCalm ==
    ASSUME OwnersInv, NEW s \in Sockets, NEW b \in Room, chip' = [chip EXCEPT ![s].tx = b],
           UNCHANGED <<_server_port, _sock, _remaining, mine, ended, uses, queries>>, crossed => crossed'
    PROVE  Calm
<1> DEFINE r == [chip[s] EXCEPT !.tx = b]
<1>1. chip[s] \in Socket
  BY SockIs DEF OwnersInv
<1>2. r \in Socket /\ r.st = chip[s].st /\ r.use = chip[s].use /\ r.rx = chip[s].rx
  BY <1>1 DEF Socket
<1>3. chip' = [chip EXCEPT ![s] = r]
  OBVIOUS
<1> HIDE DEF r
<1> QED
  BY <1>2, <1>3, FlagIsCalm

LEMMA IrIsCalm ==
    ASSUME OwnersInv, NEW s \in Sockets, NEW b \in SUBSET {"SEND_OK", "TIMEOUT"}, chip' = [chip EXCEPT ![s].ir = b],
           UNCHANGED <<_server_port, _sock, _remaining, mine, ended, uses, queries>>, crossed => crossed'
    PROVE  Calm
<1> DEFINE r == [chip[s] EXCEPT !.ir = b]
<1>1. chip[s] \in Socket
  BY SockIs DEF OwnersInv
<1>2. r \in Socket /\ r.st = chip[s].st /\ r.use = chip[s].use /\ r.rx = chip[s].rx
  BY <1>1 DEF Socket
<1>3. chip' = [chip EXCEPT ![s] = r]
  OBVIOUS
<1> HIDE DEF r
<1> QED
  BY <1>2, <1>3, FlagIsCalm

LEMMA ViaCrosses ==
    ASSUME NEW h, Via(h)
    PROVE  crossed => crossed'
  BY Zenon DEF Via

LEMMA ViaIsMine ==
    ASSUME NEW h, Via(h), ~crossed'
    PROVE  ~crossed /\ chip[_sock[h]].use = mine[h]
  BY Zenon DEF Via

LEMMA WriteStep ==
    ASSUME EthernetInv, NEW c \in Holders, write(c)
    PROVE  EthernetInv'
<1>1. OwnersInv'
  <2>1. Calm
    BY IdleChipIsCalm, ViaCrosses DEF EthernetInv, OwnersInv, write, ownVars
  <2> QED
    BY <2>1, CalmKeeps DEF EthernetInv, OwnersInv
<1>2. CallTypes' /\ CallKnows'
  <2>1. _sock[c] \in Sockets /\ c \in Objects /\ _sock' = _sock
    BY SockIs, Distinct DEF EthernetInv, write, ownVars
  <2>2. call' = [op |-> "send", h |-> c, s |-> _sock[c], next |-> "idle", listening |-> FALSE, n |-> 0]
    BY DEF write, Enter, NoCall
  <2> QED
    BY <2>1, <2>2, Distinct DEF CallTypes, CallKnows, Ops
<1> QED
  BY <1>1, <1>2 DEF EthernetInv, OwnersInv

LEMMA SendStartStep ==
    ASSUME EthernetInv, SendStart
    PROVE  EthernetInv'
<1>1. call.s \in Sockets
  BY Distinct DEF EthernetInv, CallTypes, CallKnows, SendStart
<1>2. OwnersInv'
  <2>1. PICK b \in Room : chip' = [chip EXCEPT ![call.s].tx = b]
    <3> DEFINE b == IF IsUp(call.s) \/ St(call.s) = "UDP" THEN "sending" ELSE "room"
    <3>1. b \in Room
      BY DEF Room
    <3>2. chip' = [chip EXCEPT ![call.s].tx = b]
      BY DEF SendStart
    <3> HIDE DEF b
    <3> QED
      BY <3>1, <3>2
  <2>2. Calm
    BY <1>1, <2>1, TxIsCalm DEF EthernetInv, OwnersInv, SendStart, ownVars
  <2> QED
    BY <2>2, CalmKeeps DEF EthernetInv, OwnersInv
<1>3. CallTypes' /\ CallKnows'
  <2>1. _sock' = _sock /\ call.op = "send"
    BY DEF SendStart, ownVars
  <2>2. PICK k \in {0, 1} : call' = [call EXCEPT !.op = "sending", !.n = k]
    BY DEF SendStart
  <2>3. call' = [op |-> "sending", h |-> call.h, s |-> call.s, next |-> call.next, listening |-> call.listening, n |-> k]
    BY <2>2 DEF EthernetInv, CallTypes
  <2> QED
    BY <2>1, <2>3, <1>1, Distinct DEF EthernetInv, CallTypes, CallKnows, Ops
<1> QED
  BY <1>2, <1>3 DEF EthernetInv, OwnersInv

(* A call that is over, and one that goes on with another step.            *)
LEMMA NowIdle ==
    ASSUME NEW h \in Objects, NEW s \in 0 .. MAX_SOCK_NUM,
           call' = [op |-> "idle", h |-> h, s |-> s, next |-> "idle", listening |-> FALSE, n |-> 0]
    PROVE  CallTypes' /\ CallKnows'
  BY DEF CallTypes, CallKnows, Ops

LEMMA Returned ==
    ASSUME CallTypes, CallKnows, Return, call.next = "idle"
    PROVE  CallTypes' /\ CallKnows'
<1>1. call' = [op |-> "idle", h |-> Guest, s |-> call.s, next |-> "idle", listening |-> FALSE, n |-> 0]
  BY DEF Return, NoCall
<1> QED
  BY <1>1, NowIdle, Distinct DEF CallTypes

LEMMA EnterIdle ==
    ASSUME NEW h \in Objects, NEW s \in 0 .. MAX_SOCK_NUM, Enter("idle", h, s)
    PROVE  CallTypes' /\ CallKnows' /\ call.op = "idle"
<1>1. call' = [op |-> "idle", h |-> h, s |-> s, next |-> "idle", listening |-> FALSE, n |-> 0]
  BY DEF Enter, NoCall
<1> QED
  BY <1>1, NowIdle DEF Enter

LEMMA SendEndStep ==
    ASSUME EthernetInv, SendEnd
    PROVE  EthernetInv'
<1>1. call.s \in Sockets /\ call.next \in {"idle", "serverSent"} /\ chip[call.s] \in Socket
  BY Distinct, SockIs DEF EthernetInv, CallTypes, CallKnows, SendEnd
<1>2. OwnersInv'
  <2>1. UNCHANGED <<_server_port, _sock, _remaining, mine, ended, uses, queries>> /\ (crossed => crossed')
    BY DEF SendEnd, ownVars
  <2>2. CASE chip' = [chip EXCEPT ![call.s].ir = @ \ {"SEND_OK"}]
    <3>1. chip[call.s].ir \ {"SEND_OK"} \in SUBSET {"SEND_OK", "TIMEOUT"}
      BY <1>1 DEF Socket
    <3>2. Calm
      BY <1>1, <2>1, <2>2, <3>1, IrIsCalm DEF EthernetInv, OwnersInv
    <3> QED
      BY <3>2, CalmKeeps DEF EthernetInv, OwnersInv
  <2>3. CASE St(call.s) = "CLOSED" /\ chip' = close(chip, call.s)
    <3> DEFINE r == [chip[call.s] EXCEPT !.st = "CLOSED", !.ir = {}, !.tx = "room"]
    <3>1. r \in Socket /\ r.st = chip[call.s].st /\ r.use = chip[call.s].use /\ r.rx = chip[call.s].rx
      BY <1>1, <2>3 DEF Socket, SocketStates, Room, St
    <3>2. chip' = [chip EXCEPT ![call.s] = r]
      BY <2>3 DEF close
    <3> HIDE DEF r
    <3>3. Calm
      BY <1>1, <2>1, <3>1, <3>2, FlagIsCalm DEF EthernetInv, OwnersInv
    <3> QED
      BY <3>3, CalmKeeps DEF EthernetInv, OwnersInv
  <2> QED
    BY <2>2, <2>3 DEF SendEnd
<1>3. CallTypes' /\ CallKnows'
  <2>1. CASE call.next = "idle"
    BY <2>1, Returned DEF EthernetInv, SendEnd
  <2>2. CASE call.next = "serverSent"
    <3>1. call' = [op |-> "serverSent", h |-> Guest, s |-> call.s, next |-> "idle", listening |-> FALSE, n |-> 0]
      BY <2>2 DEF SendEnd, Return, NoCall
    <3> QED
      BY <3>1, <1>1, Distinct DEF CallTypes, CallKnows, Ops
  <2> QED
    BY <1>1, <2>1, <2>2
<1> QED
  BY <1>2, <1>3 DEF EthernetInv, OwnersInv

LEMMA PacketSentStep ==
    ASSUME EthernetInv, PacketSent
    PROVE  EthernetInv'
<1>1. call.s \in Sockets /\ call.next = "idle"
  BY Distinct DEF EthernetInv, CallTypes, CallKnows, PacketSent
<1>2. OwnersInv'
  <2>1. {} \in SUBSET {"SEND_OK", "TIMEOUT"} /\ chip' = [chip EXCEPT ![call.s].ir = {}] /\ (crossed => crossed')
        /\ UNCHANGED <<_server_port, _sock, _remaining, mine, ended, uses, queries>>
    BY DEF PacketSent, ownVars
  <2>2. Calm
    BY <1>1, <2>1, IrIsCalm DEF EthernetInv, OwnersInv
  <2> QED
    BY <2>2, CalmKeeps DEF EthernetInv, OwnersInv
<1>3. CallTypes' /\ CallKnows'
  BY <1>1, Returned DEF EthernetInv, PacketSent
<1> QED
  BY <1>2, <1>3 DEF EthernetInv, OwnersInv

LEMMA SendPacketStep ==
    ASSUME EthernetInv, NEW u \in UdpObjects, sendPacket(u)
    PROVE  EthernetInv'
<1>1. _sock[u] \in Sockets /\ u \in Objects /\ _sock' = _sock
  BY SockIs, Distinct DEF EthernetInv, sendPacket, ownVars
<1>2. OwnersInv'
  <2>1. PICK b \in Room : chip' = [chip EXCEPT ![_sock[u]].tx = b]
    <3> DEFINE b == IF St(_sock[u]) = "UDP" THEN "sending" ELSE chip[_sock[u]].tx
    <3>1. b \in Room
      <4>1. chip[_sock[u]] \in Socket
        BY <1>1, SockIs DEF EthernetInv, OwnersInv
      <4> QED
        BY <4>1 DEF Room, Socket
    <3>2. chip' = [chip EXCEPT ![_sock[u]].tx = b]
      BY DEF sendPacket
    <3> HIDE DEF b
    <3> QED
      BY <3>1, <3>2
  <2>2. Calm
    BY <1>1, <2>1, TxIsCalm, ViaCrosses DEF EthernetInv, OwnersInv, sendPacket, ownVars
  <2> QED
    BY <2>2, CalmKeeps DEF EthernetInv, OwnersInv
<1>3. CallTypes' /\ CallKnows'
  <2>1. call' = [op |-> "packet", h |-> u, s |-> _sock[u], next |-> "idle", listening |-> FALSE, n |-> 0]
    BY DEF sendPacket, Enter, NoCall
  <2> QED
    BY <2>1, <1>1, Distinct DEF CallTypes, CallKnows, Ops
<1> QED
  BY <1>2, <1>3 DEF EthernetInv, OwnersInv

LEMMA ParsePacketStep ==
    ASSUME EthernetInv, NEW u \in UdpObjects, parsePacket(u)
    PROVE  EthernetInv'
<1>1. _sock[u] \in Sockets /\ u \in Objects /\ _sock' = _sock
  BY SockIs, Distinct DEF EthernetInv, parsePacket, ownVars
<1>2. OwnersInv'
  <2>1. Calm
    BY IdleChipIsCalm, ViaCrosses DEF EthernetInv, OwnersInv, parsePacket, ownVars
  <2> QED
    BY <2>1, CalmKeeps DEF EthernetInv, OwnersInv
<1>3. CallTypes' /\ CallKnows'
  <2>1. call' = [op |-> "parse", h |-> u, s |-> _sock[u], next |-> "idle", listening |-> FALSE, n |-> 0]
    BY DEF parsePacket, Enter, NoCall
  <2> QED
    BY <2>1, <1>1, Distinct DEF CallTypes, CallKnows, Ops
<1> QED
  BY <1>2, <1>3 DEF EthernetInv, OwnersInv

LEMMA QueryStep ==
    ASSUME EthernetInv, Query
    PROVE  EthernetInv'
<1>1. _sock[Dns] \in Sockets /\ Dns \in Objects /\ _sock' = _sock /\ call.op = "query"
  BY SockIs, Distinct DEF EthernetInv, CallKnows, Query, ownVars
<1>2. OwnersInv'
  <2>1. Calm
    BY <1>1, TxIsCalm DEF EthernetInv, OwnersInv, Query, ownVars, Room
  <2> QED
    BY <2>1, CalmKeeps DEF EthernetInv, OwnersInv
<1>3. CallTypes' /\ CallKnows'
  <2>1. call' = [op |-> "querying", h |-> call.h, s |-> call.s, next |-> call.next, listening |-> call.listening, n |-> call.n]
    BY DEF EthernetInv, CallTypes, Query
  <2> QED
    BY <2>1, <1>1, Distinct DEF EthernetInv, CallTypes, CallKnows, Ops, Query, ownVars
<1> QED
  BY <1>2, <1>3 DEF EthernetInv, OwnersInv

LEMMA ServerCallStep ==
    ASSUME EthernetInv, NEW next \in {"available", "serverWrite"}, serverCall(next)
    PROVE  EthernetInv'
<1>1. OwnersInv'
  <2>1. Calm
    BY IdleChipIsCalm DEF EthernetInv, OwnersInv, serverCall, ownVars
  <2> QED
    BY <2>1, CalmKeeps DEF EthernetInv, OwnersInv
<1>2. CallTypes' /\ CallKnows'
  <2>1. call' = [op |-> "accept", h |-> Guest, s |-> 0, next |-> next, listening |-> FALSE, n |-> 0]
    BY DEF serverCall, NoCall
  <2> QED
    BY <2>1, Distinct DEF CallTypes, CallKnows, Ops
<1> QED
  BY <1>1, <1>2 DEF EthernetInv, OwnersInv

LEMMA ServerWriteStep ==
    ASSUME EthernetInv, serverWrite
    PROVE  EthernetInv'
<1>1. OwnersInv'
  <2>1. Calm
    BY IdleChipIsCalm DEF EthernetInv, OwnersInv, serverWrite, ownVars
  <2> QED
    BY <2>1, CalmKeeps DEF EthernetInv, OwnersInv
<1>2. CallTypes' /\ CallKnows'
  <2>1. CASE call.s = MAX_SOCK_NUM
    <3>1. call' = [op |-> "idle", h |-> Guest, s |-> 0, next |-> "idle", listening |-> FALSE, n |-> 0]
      BY <2>1, Distinct DEF serverWrite, NoCall
    <3> QED
      BY <3>1, NowIdle, Distinct
  <2>2. CASE call.s # MAX_SOCK_NUM
    <3>1. call.s \in Sockets /\ call.op = "serverWrite"
      BY <2>2, Distinct DEF EthernetInv, CallTypes, serverWrite
    <3>2. CASE call' = [NoCall EXCEPT !.op = "send", !.s = call.s, !.next = "serverSent"]
      <4>1. call' = [op |-> "send", h |-> Guest, s |-> call.s, next |-> "serverSent", listening |-> FALSE, n |-> 0]
        BY <3>2 DEF NoCall
      <4> QED
        BY <4>1, <3>1, Distinct DEF CallTypes, CallKnows, Ops
    <3>3. CASE call' = [call EXCEPT !.s = @ + 1]
      <4>1. call' = [op |-> "serverWrite", h |-> call.h, s |-> call.s + 1, next |-> call.next, listening |-> call.listening, n |-> call.n]
        BY <3>1, <3>3 DEF EthernetInv, CallTypes
      <4> QED
        BY <4>1, <3>1, Distinct DEF EthernetInv, CallTypes, CallKnows, Ops
    <3> QED
      BY <2>2, <3>1, <3>2, <3>3 DEF serverWrite
  <2> QED
    BY <2>1, <2>2
<1> QED
  BY <1>1, <1>2 DEF EthernetInv, OwnersInv

LEMMA ServerSentStep ==
    ASSUME EthernetInv, serverSent
    PROVE  EthernetInv'
<1>1. OwnersInv'
  <2>1. Calm
    BY IdleChipIsCalm DEF EthernetInv, OwnersInv, serverSent, ownVars
  <2> QED
    BY <2>1, CalmKeeps DEF EthernetInv, OwnersInv
<1>2. CallTypes' /\ CallKnows'
  <2>1. call.s \in Sockets
    BY Distinct DEF EthernetInv, CallTypes, CallKnows, serverSent
  <2>2. call' = [op |-> "serverWrite", h |-> call.h, s |-> call.s + 1, next |-> call.next, listening |-> call.listening, n |-> call.n]
    BY DEF EthernetInv, CallTypes, serverSent
  <2> QED
    BY <2>1, <2>2, Distinct DEF EthernetInv, CallTypes, CallKnows, Ops, serverSent
<1> QED
  BY <1>1, <1>2 DEF EthernetInv, OwnersInv

------------------------------------------------------------------------------
(* A step that changes one socket, and whose socket one object holds.      *)
MovesOne(s, r, o) ==
    /\ chip' = [chip EXCEPT ![s] = r]
    /\ _server_port' \in [Sockets -> BOOLEAN] /\ \A t \in Sockets : t # s => _server_port'[t] = _server_port[t]
    /\ _sock' \in [Objects -> 0 .. MAX_SOCK_NUM] /\ mine' \in [Objects -> Nat]
    /\ \A h \in Objects : h # o => _sock'[h] = _sock[h] /\ mine'[h] = mine[h]
    /\ \/ _sock'[o] = _sock[o] /\ mine'[o] = mine[o]
       \/ _sock'[o] \in {s, MAX_SOCK_NUM} /\ (o = Guest \/ _sock[o] \in {s, MAX_SOCK_NUM})
    /\ _remaining' \in [UdpObjects -> Nat]
    /\ \A u \in UdpObjects : _sock'[u] \notin {s, MAX_SOCK_NUM} => _remaining'[u] = _remaining[u]
    /\ uses' \in Nat /\ uses <= uses' /\ mine'[o] <= uses' /\ queries' \in Nat
    /\ ended \subseteq ended' /\ (crossed => crossed')

HeldBy(s, r) == r.st \in {"CLOSED", "INIT"} \/ _server_port'[s] \/ \E h \in Objects \ {Guest} : _sock'[h] = s

OwnedBy(s, r) ==
    /\ \A h \in Objects : _sock'[h] = s =>
          mine'[h] \in ended' \/ (r.use = mine'[h] /\ r.st \in {"SYNSENT", "ESTABLISHED", "UDP"})
    /\ r.st = "CLOSE_WAIT" => r.use \in ended'
    /\ r.st = "LISTEN" => r.rx = <<>>
    /\ \A i \in Nat : i \in 1 .. Len(r.rx) => r.rx[i].of = r.use
    /\ r.use <= uses'

UdpBy(s, r) ==
    ~crossed' => \A u \in UdpObjects : _sock'[u] = s =>
        /\ r.st = "UDP" /\ r.use = mine'[u] /\ Framed(r.rx, _remaining'[u])
        /\ \A h \in Objects : h # u /\ _sock'[h] = s => mine'[h] # mine'[u]

LEMMA OneMoves ==
    ASSUME OwnersInv, NEW s \in Sockets, NEW r \in Socket, NEW o \in Objects,
           MovesOne(s, r, o), HeldBy(s, r), OwnedBy(s, r), UdpBy(s, r)
    PROVE  OwnersInv'
<1>1. SocketTypes'
  BY DEF OwnersInv, SocketTypes, MovesOne
<1>2. /\ chip'[s] = r /\ \A t \in Sockets : t # s => chip'[t] = chip[t]
      /\ \A t \in Sockets : t # s => _server_port'[t] = _server_port[t]
  BY DEF OwnersInv, SocketTypes, MovesOne
<1>3. /\ \A h \in Objects : _sock'[h] \notin {s, MAX_SOCK_NUM} => _sock'[h] = _sock[h] /\ mine'[h] = mine[h] /\ _sock[h] \in Sockets
      /\ \A h \in Objects : h # Guest /\ _sock[h] \notin {s, MAX_SOCK_NUM} => _sock'[h] = _sock[h]
  BY SockIs DEF MovesOne, OwnersInv
<1>4. SocketsHeld'
  <2> SUFFICES ASSUME NEW t \in Sockets
               PROVE  chip'[t].st \in {"CLOSED", "INIT"} \/ _server_port'[t] \/ \E h \in Objects \ {Guest} : _sock'[h] = t
    BY DEF SocketsHeld
  <2>1. CASE t = s
    BY <2>1, <1>2 DEF HeldBy
  <2>2. CASE t # s
    <3>1. chip[t].st \in {"CLOSED", "INIT"} \/ _server_port[t] \/ \E h \in Objects \ {Guest} : _sock[h] = t
      BY DEF OwnersInv, SocketsHeld
    <3>2. t # MAX_SOCK_NUM
      BY Distinct
    <3> QED
      BY <2>2, <3>1, <3>2, <1>2, <1>3
  <2> QED
    BY <2>1, <2>2
<1>5. SocketsOwned'
  <2>1. ASSUME NEW h \in Objects, _sock'[h] # MAX_SOCK_NUM
        PROVE  mine'[h] \in ended' \/ Mine(h)'
    <3>1. CASE _sock'[h] = s
      BY <3>1, <1>2 DEF OwnedBy, Mine
    <3>2. CASE _sock'[h] # s
      <4>1. _sock'[h] = _sock[h] /\ mine'[h] = mine[h] /\ _sock[h] \in Sockets /\ chip'[_sock[h]] = chip[_sock[h]]
        BY <3>2, <2>1, <1>3, <1>2
      <4>2. mine[h] \in ended \/ Mine(h)
        BY <2>1, <4>1 DEF OwnersInv, SocketsOwned
      <4> QED
        BY <4>1, <4>2 DEF Mine, MovesOne
    <3> QED
      BY <3>1, <3>2
  <2>2. ASSUME NEW t \in Sockets
        PROVE  /\ chip'[t].st = "CLOSE_WAIT" => chip'[t].use \in ended'
               /\ chip'[t].st = "LISTEN" => chip'[t].rx = <<>>
               /\ \A i \in Nat : i \in 1 .. Len(chip'[t].rx) => chip'[t].rx[i].of = chip'[t].use
    <3>1. CASE t = s
      BY <3>1, <1>2 DEF OwnedBy
    <3>2. CASE t # s
      BY <3>2, <1>2 DEF OwnersInv, SocketsOwned, MovesOne
    <3> QED
      BY <3>1, <3>2
  <2> QED
    BY <2>1, <2>2 DEF SocketsOwned
<1>6. ASSUME NEW u \in UdpObjects, ~crossed', _sock'[u] # MAX_SOCK_NUM
      PROVE  /\ chip'[_sock'[u]].st = "UDP" /\ chip'[_sock'[u]].use = mine'[u]
             /\ \A h \in Objects : h # u /\ _sock'[h] = _sock'[u] => mine'[h] # mine'[u]
             /\ Framed(chip'[_sock'[u]].rx, _remaining'[u])
  <2>1. CASE _sock'[u] = s
    BY <2>1, <1>2, <1>6 DEF UdpBy
  <2>2. CASE _sock'[u] # s
    <3>1. u \in Objects /\ ~crossed
      BY <1>6, Distinct DEF MovesOne
    <3>2. _sock'[u] = _sock[u] /\ mine'[u] = mine[u] /\ chip'[_sock[u]] = chip[_sock[u]] /\ _remaining'[u] = _remaining[u]
      BY <2>2, <3>1, <1>6, <1>3, <1>2 DEF MovesOne
    <3>3. /\ chip[_sock[u]].st = "UDP" /\ chip[_sock[u]].use = mine[u]
          /\ \A h \in Objects : h # u /\ _sock[h] = _sock[u] => mine[h] # mine[u]
          /\ Framed(chip[_sock[u]].rx, _remaining[u])
      BY <3>1, <3>2, <1>6 DEF OwnersInv, UdpOwned, Frames
    <3>4. \A h \in Objects : _sock'[h] = _sock'[u] => _sock[h] = _sock[u] /\ mine'[h] = mine[h]
      BY <2>2, <3>2, <1>6, <1>3
    <3> QED
      BY <3>2, <3>3, <3>4
  <2> QED
    BY <2>1, <2>2
<1>7. \A h \in Objects : mine'[h] <= uses'
  <2> TAKE h \in Objects
  <2>1. mine[h] <= uses /\ mine[h] \in Nat /\ uses \in Nat /\ uses' \in Nat /\ uses <= uses'
    BY SockIs DEF OwnersInv, UdpOwned, SocketTypes, MovesOne
  <2>2. CASE h = o
    BY <2>2 DEF MovesOne
  <2>3. CASE h # o
    BY <2>1, <2>3 DEF MovesOne
  <2> QED
    BY <2>2, <2>3
<1>8. UdpOwned'
  <2>1. \A t \in Sockets : chip'[t].use <= uses'
    <3> TAKE t \in Sockets
    <3>1. CASE t = s
      BY <3>1, <1>2 DEF OwnedBy
    <3>2. CASE t # s
      <4>1. chip'[t] = chip[t] /\ chip[t].use \in Nat /\ chip[t].use <= uses
        BY <3>2, <1>2, SockIs DEF OwnersInv, UdpOwned
      <4>2. uses \in Nat /\ uses' \in Nat /\ uses <= uses'
        BY DEF OwnersInv, SocketTypes, MovesOne
      <4> QED
        BY <4>1, <4>2
    <3> QED
      BY <3>1, <3>2
  <2> QED
    BY <1>6, <1>7, <2>1 DEF UdpOwned
<1>9. Frames'
  BY <1>6 DEF Frames
<1> QED
  BY <1>1, <1>4, <1>5, <1>8, <1>9 DEF OwnersInv

(* The chip's side of a socket changes, or the network's: nobody's number. *)
LEMMA ChipMoves ==
    ASSUME OwnersInv, NEW s \in Sockets, NEW r \in Socket, chip' = [chip EXCEPT ![s] = r],
           UNCHANGED <<_server_port, _sock, _remaining, mine, queries>>,
           uses' \in Nat, uses <= uses', ended \subseteq ended', crossed => crossed'
    PROVE  MovesOne(s, r, Guest)
<1>1. mine'[Guest] <= uses'
  <2>1. mine[Guest] \in Nat /\ mine[Guest] <= uses /\ uses \in Nat
    BY Distinct, SockIs DEF OwnersInv, UdpOwned, SocketTypes
  <2> QED
    BY <2>1
<1> QED
  BY <1>1 DEF MovesOne, OwnersInv, SocketTypes

LEMMA AcceptSocketStep ==
    ASSUME EthernetInv, AcceptSocket
    PROVE  EthernetInv'
<1>0. PICK s \in Sockets : s = call.s
  BY Distinct DEF EthernetInv, CallTypes, AcceptSocket
<1>1. /\ s + 1 \in 0 .. MAX_SOCK_NUM /\ call.op = "accept" /\ OwnersInv /\ chip[s] \in Socket
      /\ UNCHANGED <<_server_port, _sock, _remaining, mine, ended, uses, queries, crossed>>
  BY <1>0, SockIs, Distinct DEF EthernetInv, OwnersInv, CallTypes, AcceptSocket, ownVars
<1>2. CASE _server_port[s] /\ St(s) = "CLOSE_WAIT" /\ chip[s].rx = <<>>
  <2> DEFINE r == [chip[s] EXCEPT !.st = "LAST_ACK"]
  <2>1. chip' = [chip EXCEPT ![s] = r] /\ call' = [call EXCEPT !.op = "acceptStop"]
    BY <1>0, <1>2 DEF AcceptSocket, disconnect, St
  <2>2. r \in Socket /\ r.st = "LAST_ACK" /\ r.use = chip[s].use /\ r.rx = chip[s].rx
    BY <1>1 DEF Socket, SocketStates, Room
  <2> HIDE DEF r
  <2>3. Over(s)
    BY <1>1, <1>2, Distinct DEF OwnersInv, SocketsOwned, Mine, Over, St
  <2>4. NoUdp(s)
    BY <1>1, <1>2, Distinct DEF OwnersInv, UdpOwned, NoUdp, St
  <2>5. MovesOne(s, r, Guest)
    <3>1. uses' \in Nat /\ uses <= uses'
      BY <1>1 DEF OwnersInv, SocketTypes
    <3> QED
      BY <1>1, <2>1, <2>2, <3>1, ChipMoves
  <2>6. HeldBy(s, r) /\ OwnedBy(s, r) /\ UdpBy(s, r)
    <3>1. HeldBy(s, r)
      BY <1>1, <1>2 DEF HeldBy
    <3>2. OwnedBy(s, r)
      BY <1>1, <2>2, <2>3 DEF OwnedBy, Over, OwnersInv, SocketsOwned, UdpOwned
    <3>3. UdpBy(s, r)
      BY <1>1, <2>4 DEF UdpBy, NoUdp
    <3> QED
      BY <3>1, <3>2, <3>3
  <2>7. OwnersInv'
    BY <1>1, <2>2, <2>5, <2>6, Distinct, OneMoves
  <2>8. CallTypes' /\ CallKnows'
    <3>1. call' = [op |-> "acceptStop", h |-> call.h, s |-> s, next |-> call.next, listening |-> call.listening, n |-> call.n]
      BY <1>0, <1>1, <2>1 DEF EthernetInv, CallTypes
    <3>2. Over(s)' /\ NoUdp(s)'
      BY <1>1, <2>3, <2>4 DEF Over, NoUdp
    <3> QED
      BY <3>1, <3>2, <1>1, Distinct DEF EthernetInv, CallTypes, CallKnows, Ops
  <2> QED
    BY <2>7, <2>8 DEF EthernetInv, OwnersInv
<1>3. CASE ~(_server_port[s] /\ St(s) = "CLOSE_WAIT" /\ chip[s].rx = <<>>)
  <2>1. chip' = chip /\ \E l : call' = [call EXCEPT !.s = s + 1, !.listening = l]
    BY <1>0, <1>3 DEF AcceptSocket
  <2>2. OwnersInv'
    BY <1>1, <2>1, IdleChipIsCalm, CalmKeeps
  <2>3. CallTypes' /\ CallKnows'
    <3>1. PICK l : call' = [call EXCEPT !.s = s + 1, !.listening = l]
      BY <2>1
    <3>2. call' = [op |-> call.op, h |-> call.h, s |-> s + 1, next |-> call.next, listening |-> l, n |-> call.n]
      BY <3>1 DEF EthernetInv, CallTypes
    <3> QED
      BY <3>2, <1>1, Distinct DEF EthernetInv, CallTypes, CallKnows, Ops
  <2> QED
    BY <2>2, <2>3 DEF EthernetInv, OwnersInv
<1> QED
  BY <1>2, <1>3

(* A server's socket is opened; whoever has its number by then lost it     *)
(* before.                                                                 *)
LEMMA OverOrMine ==
    ASSUME OwnersInv, NEW s \in Sockets, St(s) \in {"CLOSED", "FIN_WAIT", "CLOSE_WAIT", "LAST_ACK", "INIT", "LISTEN"}
    PROVE  Over(s) /\ NoUdp(s)
<1>1. Over(s)
  BY Distinct DEF OwnersInv, SocketsOwned, Mine, Over, St
<1>2. NoUdp(s)
  BY Distinct DEF OwnersInv, UdpOwned, NoUdp, St
<1> QED
  BY <1>1, <1>2

LEMMA BeginKeeps ==
    ASSUME OwnersInv, Begin, UNCHANGED <<_sock, _remaining, mine, ended, uses, queries, crossed>>
    PROVE  OwnersInv'
<1> DEFINE free == {s \in Sockets : St(s) = "CLOSED"}
           s == First(free)
           r == [st |-> "LISTEN", use |-> 0, rx |-> <<>>, ir |-> {}, tx |-> "room"]
<1>1. CASE free = {}
  BY <1>1, IdleChipIsCalm, CalmKeeps DEF Begin
<1>2. CASE free # {}
  <2>1. s \in Sockets /\ St(s) = "CLOSED"
    <3>1. free \in SUBSET Sockets
      OBVIOUS
    <3> HIDE DEF free
    <3>2. First(free) \in free
      BY <1>2, <3>1, FirstIsOne
    <3> QED
      BY <3>2 DEF free
  <2>2. chip' = listen(socket(chip, s, "INIT", 0), s) /\ _server_port' = [_server_port EXCEPT ![s] = TRUE]
    BY <1>2 DEF Begin
  <2> HIDE DEF free, s
  <2>3. chip' = [chip EXCEPT ![s] = r]
    BY <2>1, <2>2 DEF listen, socket, OwnersInv, SocketTypes
  <2>4. r \in Socket
    BY DEF Socket, SocketStates, Room
  <2>5. MovesOne(s, r, Guest)
    <3>1. mine'[Guest] <= uses'
      BY Distinct DEF OwnersInv, UdpOwned
    <3>2. uses \in Nat /\ uses <= uses
      BY DEF OwnersInv, SocketTypes
    <3> QED
      BY <2>1, <2>2, <2>3, <3>1, <3>2 DEF MovesOne, OwnersInv, SocketTypes
  <2>6. HeldBy(s, r)
    BY <2>1, <2>2 DEF HeldBy, OwnersInv, SocketTypes
  <2>7. Over(s) /\ NoUdp(s)
    BY <2>1, OverOrMine
  <2>8. OwnedBy(s, r) /\ UdpBy(s, r)
    BY <2>7 DEF OwnedBy, UdpBy, Over, NoUdp, OwnersInv, SocketTypes
  <2> HIDE DEF r
  <2> QED
    BY <2>1, <2>4, <2>5, <2>6, <2>8, Distinct, OneMoves
<1> QED
  BY <1>1, <1>2

LEMMA ServerBeginStep ==
    ASSUME EthernetInv, serverBegin
    PROVE  EthernetInv'
<1>1. OwnersInv'
  BY BeginKeeps DEF EthernetInv, OwnersInv, serverBegin, Enter
<1>2. CallTypes' /\ CallKnows'
  BY EnterIdle, Distinct DEF serverBegin
<1> QED
  BY <1>1, <1>2 DEF EthernetInv, OwnersInv

LEMMA AcceptEndStep ==
    ASSUME EthernetInv, AcceptEnd
    PROVE  EthernetInv'
<1>1. OwnersInv'
  <2>1. CASE call.listening
    BY <2>1, IdleChipIsCalm, CalmKeeps DEF EthernetInv, OwnersInv, AcceptEnd
  <2>2. CASE ~call.listening
    BY <2>2, BeginKeeps DEF EthernetInv, OwnersInv, AcceptEnd
  <2> QED
    BY <2>1, <2>2
<1>2. CallTypes' /\ CallKnows'
  <2>1. call' = [op |-> call.next, h |-> Guest, s |-> 0, next |-> "idle", listening |-> FALSE, n |-> 0]
    BY DEF AcceptEnd, NoCall
  <2>2. call.next \in {"available", "serverWrite"}
    BY DEF EthernetInv, CallKnows, AcceptEnd
  <2> QED
    BY <2>1, <2>2, Distinct DEF CallTypes, CallKnows, Ops
<1> QED
  BY <1>1, <1>2 DEF EthernetInv, OwnersInv

(* A connection is begun, or a UDP socket opened, in a socket that will do. *)
LEMMA OpenKeeps ==
    ASSUME OwnersInv, NEW o \in Objects, o # Guest, NEW s \in Sockets, Over(s), NoUdp(s), _sock[o] = MAX_SOCK_NUM,
           chip' = socket(chip, s, IF o \in UdpObjects THEN "UDP" ELSE "SYNSENT", uses + 1),
           _sock' = [_sock EXCEPT ![o] = s], mine' = [mine EXCEPT ![o] = uses + 1], uses' = uses + 1,
           _remaining' = IF o \in UdpObjects THEN [_remaining EXCEPT ![o] = 0] ELSE _remaining,
           UNCHANGED <<_server_port, ended, crossed>>, queries' \in Nat
    PROVE  OwnersInv'
<1> DEFINE st == IF o \in UdpObjects THEN "UDP" ELSE "SYNSENT"
           r == [st |-> st, use |-> uses + 1, rx |-> <<>>, ir |-> {}, tx |-> "room"]
<1>1. uses \in Nat /\ _sock' \in [Objects -> 0 .. MAX_SOCK_NUM] /\ mine' \in [Objects -> Nat] /\ _sock'[o] = s /\ mine'[o] = uses + 1
  BY Distinct DEF OwnersInv, SocketTypes
<1>2. chip' = [chip EXCEPT ![s] = r]
  BY DEF socket
<1>3. r \in Socket
  BY <1>1 DEF Socket, SocketStates, Room
<1>4. \A h \in Objects : h # o => _sock'[h] = _sock[h] /\ mine'[h] = mine[h]
  BY DEF OwnersInv, SocketTypes
<1>5. /\ _remaining' \in [UdpObjects -> Nat] /\ \A u \in UdpObjects : u # o => _remaining'[u] = _remaining[u]
      /\ o \in UdpObjects => _remaining'[o] = 0
  BY DEF OwnersInv, SocketTypes
<1>6. MovesOne(s, r, o)
  <2>1. \A u \in UdpObjects : _sock'[u] \notin {s, MAX_SOCK_NUM} => _remaining'[u] = _remaining[u]
    BY <1>1, <1>5
  <2>2. uses <= uses' /\ mine'[o] <= uses' /\ uses' \in Nat
    BY <1>1
  <2> QED
    BY <1>1, <1>2, <1>4, <1>5, <2>1, <2>2 DEF MovesOne, OwnersInv, SocketTypes
<1>7. HeldBy(s, r)
  BY <1>1 DEF HeldBy
<1>8. OwnedBy(s, r)
  <2>1. r.use = uses' /\ r.rx = <<>> /\ r.st \in {"SYNSENT", "UDP"} /\ uses' <= uses'
    BY <1>1
  <2> HIDE DEF r
  <2> QED
    BY <1>1, <1>4, <2>1 DEF OwnedBy, Over
<1>9. UdpBy(s, r)
  <2> SUFFICES ASSUME ~crossed', NEW u \in UdpObjects, _sock'[u] = s
               PROVE  /\ r.st = "UDP" /\ r.use = mine'[u] /\ Framed(r.rx, _remaining'[u])
                      /\ \A h \in Objects : h # u /\ _sock'[h] = s => mine'[h] # mine'[u]
    BY DEF UdpBy
  <2>1. u = o
    BY <1>4, Distinct DEF NoUdp
  <2>2. \A h \in Objects : h # o => mine'[h] # mine'[o]
    <3> TAKE h \in Objects
    <3> HAVE h # o
    <3>1. mine[h] <= uses /\ mine[h] \in Nat
      BY SockIs DEF OwnersInv, UdpOwned
    <3> QED
      BY <1>1, <1>4, <3>1
  <2> QED
    BY <1>1, <1>5, <2>1, <2>2, FramedEmpty
<1> HIDE DEF r
<1> QED
  BY <1>3, <1>6, <1>7, <1>8, <1>9, OneMoves

LEMMA ConnectStep ==
    ASSUME EthernetInv, NEW c \in Clients, connect(c)
    PROVE  EthernetInv'
<1>1. c \in Objects /\ c # Guest /\ c \notin UdpObjects /\ c \in Holders
  BY Distinct
<1>2. PICK s \in Sockets : s = First(ConnectTakes) /\ St(s) \in {"CLOSED", "FIN_WAIT", "CLOSE_WAIT"}
  <2>1. ConnectTakes \in SUBSET Sockets /\ ConnectTakes # {}
    BY DEF ConnectTakes, connect
  <2>2. First(ConnectTakes) \in ConnectTakes
    BY <2>1, FirstIsOne
  <2> QED
    BY <2>2 DEF ConnectTakes
<1>3. OwnersInv /\ Over(s) /\ NoUdp(s) /\ uses \in Nat
  BY <1>2, OverOrMine DEF EthernetInv, OwnersInv, SocketTypes
<1>4. CASE Enter("connect", c, s) /\ chip' = socket(chip, s, "SYNSENT", uses + 1)
           /\ _sock' = [_sock EXCEPT ![c] = s] /\ mine' = [mine EXCEPT ![c] = uses + 1]
  <2>1. OwnersInv'
    BY <1>1, <1>3, <1>4, OpenKeeps DEF connect, OwnersInv, SocketTypes
  <2>2. call' = [op |-> "connect", h |-> c, s |-> s, next |-> "idle", listening |-> FALSE, n |-> 0] /\ _sock'[c] = s
    BY <1>1, <1>3, <1>4 DEF Enter, NoCall, OwnersInv, SocketTypes
  <2>3. CallTypes' /\ CallKnows'
    BY <1>1, <2>2, Distinct DEF CallTypes, CallKnows, Ops
  <2> QED
    BY <2>1, <2>3 DEF EthernetInv, OwnersInv
<1>5. CASE Enter("idle", c, s) /\ chip' = socket(chip, s, "INIT", uses + 1) /\ UNCHANGED <<_sock, mine>>
  <2> DEFINE r == [st |-> "INIT", use |-> uses + 1, rx |-> <<>>, ir |-> {}, tx |-> "room"]
  <2>1. chip' = [chip EXCEPT ![s] = r] /\ r \in Socket /\ r.use = uses' /\ r.rx = <<>> /\ r.st = "INIT"
    BY <1>3, <1>5 DEF socket, Socket, SocketStates, Room, connect
  <2> HIDE DEF r
  <2>2. uses' \in Nat /\ uses <= uses' /\ uses' <= uses' /\ UNCHANGED <<_server_port, _remaining, queries, ended, crossed>>
    BY <1>3 DEF connect
  <2>3. MovesOne(s, r, Guest)
    BY <1>3, <1>5, <2>1, <2>2, ChipMoves
  <2>4. HeldBy(s, r) /\ OwnedBy(s, r) /\ UdpBy(s, r)
    BY <1>3, <1>5, <2>1, <2>2 DEF HeldBy, OwnedBy, UdpBy, Over, NoUdp
  <2>5. OwnersInv'
    BY <1>3, <2>1, <2>3, <2>4, Distinct, OneMoves
  <2>6. CallTypes' /\ CallKnows'
    BY <1>1, <1>5, EnterIdle, Distinct
  <2> QED
    BY <2>5, <2>6 DEF EthernetInv, OwnersInv
<1> QED
  BY <1>2, <1>4, <1>5 DEF connect

(* An object lets go of a socket that is somebody's or nobody's.           *)
LEMMA LetGoKeeps ==
    ASSUME OwnersInv, NEW s \in Sockets, NEW o \in Objects, _sock[o] = s, St(s) = "CLOSED",
           _sock' = [_sock EXCEPT ![o] = MAX_SOCK_NUM], NoUdp(s),
           UNCHANGED <<chip, _server_port, _remaining, mine, ended, uses, queries, crossed>>
    PROVE  OwnersInv'
<1> DEFINE r == chip[s]
<1>1. r \in Socket /\ chip' = [chip EXCEPT ![s] = r] /\ uses \in Nat /\ uses <= uses /\ mine[o] <= uses
  BY SockIs DEF OwnersInv, SocketTypes, UdpOwned
<1>2. r.st = "CLOSED" /\ r.use <= uses /\ \A i \in Nat : i \in 1 .. Len(r.rx) => r.rx[i].of = r.use
  BY DEF St, OwnersInv, SocketsOwned, UdpOwned
<1>3. /\ _sock' \in [Objects -> 0 .. MAX_SOCK_NUM] /\ _sock'[o] = MAX_SOCK_NUM /\ \A h \in Objects : h # o => _sock'[h] = _sock[h]
      /\ MAX_SOCK_NUM # s
  BY Distinct DEF OwnersInv, SocketTypes
<1> HIDE DEF r
<1>4. MovesOne(s, r, o)
  BY <1>1, <1>3 DEF MovesOne, OwnersInv, SocketTypes
<1>5. HeldBy(s, r) /\ UdpBy(s, r)
  BY <1>2, <1>3, Distinct DEF HeldBy, UdpBy, NoUdp
<1>6. OwnedBy(s, r)
  <2>1. Over(s)
    BY OverOrMine
  <2> QED
    BY <1>2, <1>3, <2>1 DEF OwnedBy, Over
<1> QED
  BY <1>1, <1>4, <1>5, <1>6, OneMoves

LEMMA ConnectedStep ==
    ASSUME EthernetInv, Connected
    PROVE  EthernetInv'
<1>1. /\ call.s \in Sockets /\ call.h \in Objects /\ _sock[call.h] = call.s /\ call.next = "idle" /\ OwnersInv
      /\ UNCHANGED <<chip, _server_port, _remaining, mine, ended, uses, queries, crossed>>
  BY Distinct DEF EthernetInv, OwnersInv, CallTypes, CallKnows, Connected
<1>2. OwnersInv'
  <2>1. CASE St(call.s) = "CLOSED"
    <3>1. NoUdp(call.s) /\ _sock' = [_sock EXCEPT ![call.h] = MAX_SOCK_NUM]
      BY <1>1, <2>1, OverOrMine DEF Connected
    <3> QED
      BY <1>1, <2>1, <3>1, LetGoKeeps
  <2>2. CASE St(call.s) # "CLOSED"
    <3>1. _sock' = _sock
      BY <1>1, <2>2 DEF Connected, OwnersInv, SocketTypes
    <3> QED
      BY <1>1, <3>1, IdleChipIsCalm, CalmKeeps
  <2> QED
    BY <2>1, <2>2
<1>3. CallTypes' /\ CallKnows'
  BY <1>1, Returned DEF EthernetInv, Connected
<1> QED
  BY <1>2, <1>3 DEF EthernetInv, OwnersInv

(* What is read is at most what is there.                                  *)
LEMMA LeastIs ==
    ASSUME NEW S \in SUBSET Nat, S # {}
    PROVE  Min(S) \in S /\ \A n \in S : Min(S) <= n
  BY LeastOf DEF Min

LEMMA LeastIsBelow ==
    ASSUME NEW S \in SUBSET Nat, NEW m \in S
    PROVE  Min(S) \in 0 .. m
<1>1. Min(S) \in S /\ Min(S) <= m
  BY LeastIs
<1>2. m \in Nat /\ Min(S) \in Nat
  BY <1>1
<1> QED
  BY <1>1, <1>2

(* A call on a socket that is still the caller's own leaves UDP alone.     *)
LEMMA OwnIsNoUdp ==
    ASSUME OwnersInv, NEW c \in Holders, Via(c), _sock[c] # MAX_SOCK_NUM
    PROVE  ~crossed' => \A u \in UdpObjects : _sock[u] # _sock[c]
<1> SUFFICES ASSUME ~crossed', NEW u \in UdpObjects, _sock[u] = _sock[c] PROVE FALSE
  OBVIOUS
<1>1. ~crossed /\ chip[_sock[c]].use = mine[c]
  BY ViaIsMine
<1> QED
  BY <1>1, Distinct DEF OwnersInv, UdpOwned

(* The first units of a socket's RX memory are taken.                      *)
LEMMA RecvIs ==
    ASSUME OwnersInv, NEW s \in Sockets, NEW k \in 0 .. Len(chip[s].rx)
    PROVE  LET r == [chip[s] EXCEPT !.rx = SubSeq(@, k + 1, Len(@))]
           IN /\ recv(chip, s, k) = [chip EXCEPT ![s] = r] /\ r \in Socket
              /\ r.st = chip[s].st /\ r.use = chip[s].use
              /\ r.rx \in Seq(Unit) /\ Len(r.rx) = Len(chip[s].rx) - k
              /\ \A i \in 1 .. Len(r.rx) : r.rx[i] = chip[s].rx[k + i]
              /\ \A i \in Nat : i \in 1 .. Len(r.rx) => r.rx[i].of = r.use
              /\ r.st = "LISTEN" => r.rx = <<>>
<1> DEFINE q == chip[s].rx
           x == SubSeq(q, k + 1, Len(q))
           r == [chip[s] EXCEPT !.rx = x]
<1>1. q \in Seq(Unit) /\ chip[s] \in Socket /\ k \in 0 .. Len(q) /\ Len(q) \in Nat
  BY SockIs DEF OwnersInv
<1>2. \A i \in 1 .. Len(q) : q[i].of = chip[s].use
  BY DEF OwnersInv, SocketsOwned
<1>3. chip[s].st = "LISTEN" => q = <<>>
  BY DEF OwnersInv, SocketsOwned
<1>4. recv(chip, s, k) = [chip EXCEPT ![s] = r]
  BY DEF recv
<1>5. x \in Seq(Unit) /\ Len(x) = Len(q) - k /\ \A i \in 1 .. Len(x) : x[i] = q[k + i]
  <2> HIDE DEF q
  <2> QED
    BY <1>1, Dropped
<1>6. \A i \in Nat : i \in 1 .. Len(x) => x[i].of = chip[s].use
  <2> SUFFICES ASSUME NEW i \in 1 .. Len(x) PROVE x[i].of = chip[s].use
    OBVIOUS
  <2>1. k + i \in 1 .. Len(q)
    BY <1>1, <1>5
  <2> QED
    BY <2>1, <1>2, <1>5
<1>7. chip[s].st = "LISTEN" => x = <<>>
  <2> HIDE DEF q, x
  <2>1. q = <<>> => Len(x) = 0
    BY <1>1, <1>5
  <2> QED
    BY <1>3, <1>5, <2>1, EmptySeq
<1>8. r \in Socket /\ r.st = chip[s].st /\ r.use = chip[s].use /\ r.rx = x
  <2> HIDE DEF x
  <2> QED
    BY <1>1, <1>5 DEF Socket
<1> HIDE DEF x
<1>9. [chip[s] EXCEPT !.rx = SubSeq(@, k + 1, Len(@))] = r
  BY <1>1 DEF x, Socket
<1> QED
  BY <1>4, <1>5, <1>6, <1>7, <1>8, <1>9 DEF q

LEMMA ReadStep ==
    ASSUME EthernetInv, NEW c \in Holders, NEW n \in 1 .. MaxBytes, read(c, n)
    PROVE  EthernetInv'
<1>1. PICK s \in Sockets : s = _sock[c]
  BY SockIs, Distinct DEF EthernetInv, read
<1>2. OwnersInv /\ uses \in Nat /\ uses <= uses
  BY DEF EthernetInv, OwnersInv, SocketTypes
<1>3. PICK k \in 0 .. Len(chip[s].rx) : chip' = recv(chip, s, k)
  <2> DEFINE S == {n, Len(chip[s].rx)}
  <2>1. Len(chip[s].rx) \in Nat /\ n \in Nat
    BY <1>2, SockIs, EthernetAssumption DEF OwnersInv, EthernetAssumption
  <2>2. chip' = recv(chip, s, Min(S))
    BY <1>1 DEF read
  <2>3. Min(S) \in S /\ Min(S) <= Len(chip[s].rx)
    BY <2>1, LeastIs
  <2> HIDE DEF S
  <2>4. Min(S) \in Nat
    BY <2>1, <2>3 DEF S
  <2> QED
    BY <2>1, <2>2, <2>3, <2>4
<1>4. PICK r : /\ chip' = [chip EXCEPT ![s] = r] /\ r \in Socket /\ r.st = chip[s].st /\ r.use = chip[s].use
               /\ \A i \in Nat : i \in 1 .. Len(r.rx) => r.rx[i].of = r.use
               /\ r.st = "LISTEN" => r.rx = <<>>
  <2> DEFINE r == [chip[s] EXCEPT !.rx = SubSeq(@, k + 1, Len(@))]
  <2>1. /\ recv(chip, s, k) = [chip EXCEPT ![s] = r] /\ r \in Socket /\ r.st = chip[s].st /\ r.use = chip[s].use
        /\ \A i \in Nat : i \in 1 .. Len(r.rx) => r.rx[i].of = r.use
        /\ r.st = "LISTEN" => r.rx = <<>>
    BY <1>2, RecvIs
  <2> HIDE DEF r
  <2> QED
    BY <2>1, <1>3
<1>5. MovesOne(s, r, Guest)
  BY <1>2, <1>4, ChipMoves, ViaCrosses DEF read, ownVars
<1>6. HeldBy(s, r)
  BY <1>2, <1>4 DEF HeldBy, OwnersInv, SocketsHeld, read, ownVars
<1>7. OwnedBy(s, r)
  <2>1. UNCHANGED <<_sock, mine, ended, uses>> /\ \A h \in Objects : _sock[h] = s => _sock[h] # MAX_SOCK_NUM
    BY Distinct DEF read, ownVars
  <2> QED
    BY <1>2, <1>4, <2>1 DEF OwnedBy, OwnersInv, SocketsOwned, Mine, UdpOwned
<1>8. UdpBy(s, r)
  <2>1. ~crossed' => \A u \in UdpObjects : _sock[u] # s
    BY <1>1, <1>2, OwnIsNoUdp DEF read
  <2> QED
    BY <2>1 DEF UdpBy, read, ownVars
<1>9. CallTypes' /\ CallKnows'
  BY EnterIdle, Distinct DEF read
<1> QED
  BY <1>2, <1>4, <1>5, <1>6, <1>7, <1>8, <1>9, Distinct, OneMoves DEF EthernetInv, OwnersInv

LEMMA StopStep ==
    ASSUME EthernetInv, NEW c \in Holders, stop(c)
    PROVE  EthernetInv'
<1>1. PICK s \in Sockets : s = _sock[c]
  BY SockIs, Distinct DEF EthernetInv, stop
<1>2. OwnersInv /\ uses \in Nat /\ uses <= uses /\ chip[s] \in Socket /\ c \in Objects
      /\ UNCHANGED <<_server_port, _sock, _remaining, mine, uses, queries>> /\ ended' = ended \cup {chip[s].use}
  BY <1>1, SockIs, Distinct DEF EthernetInv, OwnersInv, SocketTypes, stop
<1>3. PICK st \in SocketStates : /\ chip' = [chip EXCEPT ![s].st = st]
                                 /\ \/ st = chip[s].st
                                    \/ st \in {"FIN_WAIT", "LAST_ACK"} /\ chip[s].st \in {"ESTABLISHED", "CLOSE_WAIT"}
  <2> DEFINE st == CASE chip[s].st = "ESTABLISHED" -> "FIN_WAIT" [] chip[s].st = "CLOSE_WAIT" -> "LAST_ACK" [] OTHER -> chip[s].st
  <2>1. st \in SocketStates
    BY <1>2 DEF Socket, SocketStates, Room
  <2>2. chip' = [chip EXCEPT ![s].st = st]
    BY <1>1 DEF stop, disconnect
  <2>3. st = chip[s].st \/ (st \in {"FIN_WAIT", "LAST_ACK"} /\ chip[s].st \in {"ESTABLISHED", "CLOSE_WAIT"})
    OBVIOUS
  <2> HIDE DEF st
  <2> QED
    BY <2>1, <2>2, <2>3
<1> DEFINE r == [chip[s] EXCEPT !.st = st]
<1>4. /\ chip' = [chip EXCEPT ![s] = r] /\ r \in Socket /\ r.st = st /\ r.use = chip[s].use /\ r.rx = chip[s].rx
  BY <1>2, <1>3 DEF Socket
<1> HIDE DEF r
<1>5. MovesOne(s, r, Guest)
  BY <1>2, <1>4, ChipMoves, ViaCrosses DEF stop
<1>6. HeldBy(s, r)
  BY <1>2, <1>3, <1>4 DEF HeldBy, OwnersInv, SocketsHeld
<1>7. Over(s)'
  <2>1. \A h \in Objects : _sock[h] = s => mine[h] \in ended \/ chip[s].use = mine[h]
    BY <1>2, Distinct DEF OwnersInv, SocketsOwned, Mine
  <2> QED
    BY <1>2, <2>1 DEF Over
<1>8. NoUdp(s)'
  BY <1>1, <1>2, OwnIsNoUdp, Distinct DEF stop, NoUdp
<1>9. OwnedBy(s, r) /\ UdpBy(s, r)
  <2>1. OwnedBy(s, r)
    <3>1. r.st = "LISTEN" => r.rx = <<>>
      BY <1>2, <1>3, <1>4 DEF OwnersInv, SocketsOwned
    <3>2. r.use \in ended' /\ r.use <= uses' /\ \A i \in Nat : i \in 1 .. Len(r.rx) => r.rx[i].of = r.use
      BY <1>2, <1>4 DEF OwnersInv, SocketsOwned, UdpOwned
    <3> QED
      BY <1>7, <3>1, <3>2 DEF OwnedBy, Over
  <2>2. UdpBy(s, r)
    BY <1>8 DEF UdpBy, NoUdp
  <2> QED
    BY <2>1, <2>2
<1>10. OwnersInv'
  BY <1>2, <1>4, <1>5, <1>6, <1>9, Distinct, OneMoves
<1>11. CallTypes' /\ CallKnows'
  <2>1. call' = [op |-> "stop", h |-> c, s |-> s, next |-> "idle", listening |-> FALSE, n |-> 0]
    BY <1>1 DEF stop, Enter, NoCall
  <2>2. _sock'[c] = s
    BY <1>1, <1>2
  <2> QED
    BY <2>1, <2>2, <1>2, <1>7, <1>8, Distinct DEF CallTypes, CallKnows, Ops
<1> QED
  BY <1>10, <1>11 DEF EthernetInv, OwnersInv

LEMMA StopEndStep ==
    ASSUME EthernetInv, StopEnd
    PROVE  EthernetInv'
<1>1. PICK s \in Sockets : s = call.s
  BY Distinct DEF EthernetInv, CallTypes, CallKnows, StopEnd
<1>2. /\ OwnersInv /\ uses \in Nat /\ uses <= uses /\ chip[s] \in Socket /\ Over(s) /\ NoUdp(s) /\ call.h \in Objects
      /\ UNCHANGED <<_remaining, mine, ended, uses, queries, crossed>> /\ _server_port' = [_server_port EXCEPT ![s] = FALSE]
  BY <1>1, SockIs DEF EthernetInv, OwnersInv, SocketTypes, StopEnd, CallTypes, CallKnows
<1>3. PICK r \in Socket : /\ chip' = [chip EXCEPT ![s] = r] /\ r.st = "CLOSED" /\ r.use = chip[s].use /\ r.rx = chip[s].rx
  <2>1. CASE St(s) = "CLOSED"
    BY <1>1, <1>2, <2>1 DEF StopEnd, St, OwnersInv, SocketTypes
  <2>2. CASE St(s) # "CLOSED"
    <3> DEFINE r == [chip[s] EXCEPT !.st = "CLOSED", !.ir = {}, !.tx = "room"]
    <3>1. chip' = [chip EXCEPT ![s] = r]
      BY <1>1, <2>2 DEF StopEnd, close
    <3>2. r \in Socket /\ r.st = "CLOSED" /\ r.use = chip[s].use /\ r.rx = chip[s].rx
      BY <1>2 DEF Socket, SocketStates, Room
    <3> HIDE DEF r
    <3> QED
      BY <3>1, <3>2
  <2> QED
    BY <2>1, <2>2
<1>4. r.use <= uses /\ \A i \in Nat : i \in 1 .. Len(r.rx) => r.rx[i].of = r.use
  BY <1>2, <1>3 DEF OwnersInv, SocketsOwned, UdpOwned
<1>5. CASE call.op = "stop"
  <2>1. PICK o \in Objects : o = call.h
    BY <1>2
  <2>2. _sock' = [_sock EXCEPT ![o] = MAX_SOCK_NUM] /\ _sock[o] = s /\ call.next = "idle" /\ Return
    BY <1>1, <1>5, <2>1 DEF StopEnd, EthernetInv, CallKnows
  <2>3. /\ _sock' \in [Objects -> 0 .. MAX_SOCK_NUM] /\ _sock'[o] = MAX_SOCK_NUM /\ \A h \in Objects : h # o => _sock'[h] = _sock[h]
        /\ MAX_SOCK_NUM # s /\ mine[o] <= uses
    BY <1>2, <2>2, Distinct DEF OwnersInv, SocketTypes, UdpOwned
  <2>4. MovesOne(s, r, o)
    BY <1>2, <1>3, <2>2, <2>3 DEF MovesOne, OwnersInv, SocketTypes
  <2>5. HeldBy(s, r) /\ OwnedBy(s, r) /\ UdpBy(s, r)
    BY <1>2, <1>3, <1>4, <2>3, Distinct DEF HeldBy, OwnedBy, UdpBy, Over, NoUdp
  <2>6. OwnersInv'
    BY <1>2, <2>4, <2>5, OneMoves
  <2>7. CallTypes' /\ CallKnows'
    BY <2>2, Returned DEF EthernetInv
  <2> QED
    BY <2>6, <2>7 DEF EthernetInv, OwnersInv
<1>6. CASE call.op = "acceptStop"
  <2>1. _sock' = _sock /\ call' = [call EXCEPT !.op = "accept", !.s = s + 1]
    BY <1>1, <1>6 DEF StopEnd
  <2>2. MovesOne(s, r, Guest)
    <3>1. mine[Guest] <= uses
      BY <1>2, Distinct DEF OwnersInv, UdpOwned
    <3> QED
      BY <1>2, <1>3, <2>1, <3>1 DEF MovesOne, OwnersInv, SocketTypes
  <2>3. HeldBy(s, r) /\ OwnedBy(s, r) /\ UdpBy(s, r)
    BY <1>2, <1>3, <1>4, <2>1, Distinct DEF HeldBy, OwnedBy, UdpBy, Over, NoUdp
  <2>4. OwnersInv'
    BY <1>2, <2>2, <2>3, Distinct, OneMoves
  <2>5. CallTypes' /\ CallKnows'
    <3>1. call' = [op |-> "accept", h |-> call.h, s |-> s + 1, next |-> call.next, listening |-> call.listening, n |-> call.n]
      BY <2>1 DEF EthernetInv, CallTypes
    <3> QED
      BY <3>1, <1>6, Distinct DEF EthernetInv, CallTypes, CallKnows, Ops
  <2> QED
    BY <2>4, <2>5 DEF EthernetInv, OwnersInv
<1> QED
  BY <1>5, <1>6 DEF StopEnd

(* The server hands out the first of its sockets with something to read.   *)
LEMMA AvailableStep ==
    ASSUME EthernetInv, available
    PROVE  EthernetInv'
<1> DEFINE ready == {s \in Sockets : /\ _server_port[s] /\ St(s) \in {"ESTABLISHED", "CLOSE_WAIT"}
                                     /\ chip[s].rx # <<>>}
<1>1. /\ OwnersInv /\ uses \in Nat /\ uses <= uses
      /\ UNCHANGED <<chip, _server_port, _remaining, ended, uses, queries, crossed>>
  BY DEF EthernetInv, OwnersInv, SocketTypes, available
<1>2. PICK s \in Sockets, v \in {MAX_SOCK_NUM} \cup Sockets, m \in Nat :
          /\ _sock' = [_sock EXCEPT ![Guest] = v] /\ mine' = [mine EXCEPT ![Guest] = m] /\ m <= uses
          /\ \/ v = MAX_SOCK_NUM
             \/ v = s /\ m = chip[s].use /\ St(s) \in {"ESTABLISHED", "CLOSE_WAIT"}
  <2>1. CASE ready = {}
    <3>1. _sock' = [_sock EXCEPT ![Guest] = MAX_SOCK_NUM] /\ mine' = [mine EXCEPT ![Guest] = 0]
      BY <2>1 DEF available
    <3>2. 0 \in Sockets /\ 0 \in Nat /\ 0 <= uses
      BY <1>1, Distinct
    <3> HIDE DEF ready
    <3> QED
      BY <3>1, <3>2
  <2>2. CASE ready # {}
    <3>1. _sock' = [_sock EXCEPT ![Guest] = First(ready)] /\ mine' = [mine EXCEPT ![Guest] = chip[First(ready)].use]
      BY <2>2 DEF available
    <3>2. ready \in SUBSET Sockets
      OBVIOUS
    <3>3. \A s \in ready : s \in Sockets /\ St(s) \in {"ESTABLISHED", "CLOSE_WAIT"}
      OBVIOUS
    <3> HIDE DEF ready
    <3>4. First(ready) \in ready
      BY <2>2, <3>2, FirstIsOne
    <3>5. chip[First(ready)].use \in Nat /\ chip[First(ready)].use <= uses
      BY <1>1, <3>3, <3>4, SockIs DEF OwnersInv, UdpOwned
    <3> QED
      BY <3>1, <3>3, <3>4, <3>5
  <2> QED
    BY <2>1, <2>2
<1>3. /\ _sock'[Guest] = v /\ mine'[Guest] = m /\ \A h \in Objects : h # Guest => _sock'[h] = _sock[h] /\ mine'[h] = mine[h]
      /\ _sock' \in [Objects -> 0 .. MAX_SOCK_NUM] /\ mine' \in [Objects -> Nat]
  BY <1>1, <1>2, Distinct DEF OwnersInv, SocketTypes
<1>4. PICK r \in Socket : r = chip[s]
  BY <1>1, SockIs DEF OwnersInv
<1>5. MovesOne(s, r, Guest)
  <2>1. chip' = [chip EXCEPT ![s] = r]
    BY <1>1, <1>4 DEF OwnersInv, SocketTypes
  <2> QED
    BY <1>1, <1>2, <1>3, <2>1 DEF MovesOne, OwnersInv, SocketTypes
<1>6. HeldBy(s, r)
  BY <1>1, <1>3, <1>4 DEF HeldBy, OwnersInv, SocketsHeld
<1>7. OwnedBy(s, r)
  <2>1. r.use <= uses' /\ (r.st = "CLOSE_WAIT" => r.use \in ended') /\ (r.st = "LISTEN" => r.rx = <<>>)
        /\ \A i \in Nat : i \in 1 .. Len(r.rx) => r.rx[i].of = r.use
    BY <1>1, <1>4 DEF OwnersInv, SocketsOwned, UdpOwned
  <2>2. ASSUME NEW h \in Objects, _sock'[h] = s
        PROVE  mine'[h] \in ended' \/ (r.use = mine'[h] /\ r.st \in {"SYNSENT", "ESTABLISHED", "UDP"})
    <3>1. CASE h = Guest
      BY <1>2, <1>3, <1>4, <2>1, <2>2, <3>1, Distinct DEF St
    <3>2. CASE h # Guest
      <4>1. _sock[h] = s /\ mine'[h] = mine[h] /\ s # MAX_SOCK_NUM
        BY <1>3, <2>2, <3>2, Distinct
      <4>2. mine[h] \in ended \/ Mine(h)
        BY <1>1, <4>1 DEF OwnersInv, SocketsOwned
      <4> QED
        BY <1>1, <1>4, <4>1, <4>2 DEF Mine
    <3> QED
      BY <3>1, <3>2
  <2> QED
    BY <2>1, <2>2 DEF OwnedBy
<1>8. UdpBy(s, r)
  <2> SUFFICES ASSUME ~crossed', NEW u \in UdpObjects, _sock'[u] = s
               PROVE  /\ r.st = "UDP" /\ r.use = mine'[u] /\ Framed(r.rx, _remaining'[u])
                      /\ \A h \in Objects : h # u /\ _sock'[h] = s => mine'[h] # mine'[u]
    BY DEF UdpBy
  <2>1. ~crossed /\ _sock[u] = s /\ mine'[u] = mine[u] /\ s # MAX_SOCK_NUM /\ u \in Objects
    BY <1>1, <1>3, Distinct
  <2>2. /\ r.st = "UDP" /\ r.use = mine[u] /\ Framed(r.rx, _remaining[u])
        /\ \A h \in Objects : h # u /\ _sock[h] = s => mine[h] # mine[u]
    BY <1>1, <1>4, <2>1 DEF OwnersInv, UdpOwned, Frames
  <2>3. v # s
    BY <1>2, <1>4, <2>1, <2>2 DEF St
  <2> QED
    BY <1>1, <1>3, <2>1, <2>2, <2>3
<1>9. CallTypes' /\ CallKnows'
  <2>1. call' = [op |-> "idle", h |-> Guest, s |-> 0, next |-> "idle", listening |-> FALSE, n |-> 0]
    BY DEF available, NoCall
  <2> QED
    BY <2>1, NowIdle, Distinct
<1> QED
  BY <1>1, <1>5, <1>6, <1>7, <1>8, <1>9, Distinct, OneMoves DEF EthernetInv, OwnersInv

------------------------------------------------------------------------------
(* UDP and DNS.                                                            *)
LEMMA UdpOpenKeeps ==
    ASSUME OwnersInv, NEW u \in UdpObjects, UdpOpen(u), UNCHANGED <<ended, crossed>>, queries' \in Nat
    PROVE  OwnersInv' /\ _sock'[u] # MAX_SOCK_NUM
<1>1. u \in Objects /\ u # Guest
  BY Distinct
<1>2. PICK s \in Sockets : s = First(UdpTakes) /\ St(s) \in {"CLOSED", "FIN_WAIT"}
  <2>1. UdpTakes \in SUBSET Sockets /\ UdpTakes # {}
    BY DEF UdpTakes, UdpOpen
  <2>2. First(UdpTakes) \in UdpTakes
    BY <2>1, FirstIsOne
  <2> QED
    BY <2>2 DEF UdpTakes
<1>3. Over(s) /\ NoUdp(s)
  BY <1>2, OverOrMine
<1>4. OwnersInv'
  BY <1>1, <1>2, <1>3, OpenKeeps DEF UdpOpen, ResetRemaining
<1>5. _sock'[u] = s
  BY <1>1, <1>2 DEF UdpOpen, OwnersInv, SocketTypes
<1> QED
  BY <1>4, <1>5, Distinct

LEMMA UdpBeginStep ==
    ASSUME EthernetInv, NEW u \in UdpObjects, udpBegin(u)
    PROVE  EthernetInv'
<1>1. OwnersInv'
  BY UdpOpenKeeps DEF EthernetInv, OwnersInv, SocketTypes, udpBegin
<1>2. CallTypes' /\ CallKnows'
  BY EnterIdle, Distinct DEF udpBegin
<1> QED
  BY <1>1, <1>2 DEF EthernetInv, OwnersInv

LEMMA GetHostByNameStep ==
    ASSUME EthernetInv, getHostByName
    PROVE  EthernetInv'
<1>1. OwnersInv /\ queries' \in Nat /\ Dns \in UdpObjects
  BY Distinct DEF EthernetInv, OwnersInv, SocketTypes, getHostByName
<1>2. OwnersInv' /\ _sock'[Dns] # MAX_SOCK_NUM
  BY <1>1, UdpOpenKeeps DEF getHostByName
<1>3. CallTypes' /\ CallKnows'
  <2>1. call' = [op |-> "query", h |-> Dns, s |-> 0, next |-> "idle", listening |-> FALSE, n |-> 0]
    BY DEF getHostByName, Enter, NoCall
  <2>2. _remaining'[Dns] = 0
    BY Distinct DEF getHostByName, UdpOpen, ResetRemaining, EthernetInv, SocketTypes
  <2> QED
    BY <2>1, <2>2, <1>2, Distinct DEF CallTypes, CallKnows, Ops
<1> QED
  BY <1>2, <1>3 DEF EthernetInv, OwnersInv

(* A UDP socket is closed, by the one that has it for its own unless a     *)
(* call crosses.                                                           *)
LEMMA UdpCloseKeeps ==
    ASSUME OwnersInv, NEW u \in UdpObjects, _sock[u] # MAX_SOCK_NUM, UdpClose(u, chip),
           _remaining' \in [UdpObjects -> Nat], \A w \in UdpObjects \ {u} : _remaining'[w] = _remaining[w],
           UNCHANGED <<mine, uses, queries>>, crossed => crossed',
           ~crossed' => chip[_sock[u]].use = mine[u]
    PROVE  OwnersInv'
<1>1. PICK s \in Sockets : s = _sock[u]
  BY SockIs, Distinct DEF OwnersInv
<1> DEFINE r == [chip[s] EXCEPT !.st = "CLOSED", !.ir = {}, !.tx = "room"]
<1>2. /\ chip' = [chip EXCEPT ![s] = r] /\ _server_port' = [_server_port EXCEPT ![s] = FALSE]
      /\ _sock' = [_sock EXCEPT ![u] = MAX_SOCK_NUM] /\ ended' = ended \cup {chip[s].use}
  BY <1>1 DEF UdpClose, close
<1>3. r \in Socket /\ r.st = "CLOSED" /\ r.use = chip[s].use /\ r.rx = chip[s].rx
  <2>1. chip[s] \in Socket
    BY SockIs DEF OwnersInv
  <2> QED
    BY <2>1 DEF Socket, SocketStates, Room
<1> HIDE DEF r
<1>4. /\ u \in Objects /\ mine[u] <= uses /\ uses \in Nat /\ uses <= uses /\ MAX_SOCK_NUM # s
      /\ _sock' \in [Objects -> 0 .. MAX_SOCK_NUM] /\ _sock'[u] = MAX_SOCK_NUM /\ \A h \in Objects : h # u => _sock'[h] = _sock[h]
  BY <1>2, Distinct DEF OwnersInv, SocketTypes, UdpOwned
<1>5. MovesOne(s, r, u)
  <2>1. \A w \in UdpObjects : _sock'[w] \notin {s, MAX_SOCK_NUM} => _remaining'[w] = _remaining[w]
    BY <1>4
  <2> QED
    BY <1>1, <1>2, <1>4, <2>1 DEF MovesOne, OwnersInv, SocketTypes
<1>6. HeldBy(s, r)
  BY <1>3 DEF HeldBy
<1>7. OwnedBy(s, r)
  <2>1. r.use <= uses' /\ \A i \in Nat : i \in 1 .. Len(r.rx) => r.rx[i].of = r.use
    BY <1>3 DEF OwnersInv, SocketsOwned, UdpOwned
  <2>2. \A h \in Objects : _sock'[h] = s => mine[h] \in ended'
    BY <1>2, <1>4, Distinct DEF OwnersInv, SocketsOwned, Mine
  <2> QED
    BY <1>3, <2>1, <2>2 DEF OwnedBy
<1>8. UdpBy(s, r)
  <2> SUFFICES ASSUME ~crossed', NEW w \in UdpObjects, _sock'[w] = s PROVE FALSE
    BY DEF UdpBy
  <2>1. ~crossed /\ chip[s].use = mine[u] /\ w # u /\ _sock[w] = s /\ w \in Objects
    BY <1>1, <1>4, Distinct
  <2> QED
    BY <1>1, <1>4, <2>1 DEF OwnersInv, UdpOwned
<1> QED
  BY <1>3, <1>4, <1>5, <1>6, <1>7, <1>8, OneMoves

LEMMA UdpStopStep ==
    ASSUME EthernetInv, NEW u \in UdpObjects, udpStop(u)
    PROVE  EthernetInv'
<1>1. ~crossed' => chip[_sock[u]].use = mine[u]
  BY ViaIsMine DEF udpStop
<1>2. OwnersInv'
  BY <1>1, UdpCloseKeeps, ViaCrosses DEF EthernetInv, OwnersInv, SocketTypes, udpStop
<1>3. CallTypes' /\ CallKnows'
  BY EnterIdle, Distinct DEF udpStop
<1> QED
  BY <1>2, <1>3 DEF EthernetInv, OwnersInv

(* DNSClient works on its own socket: it closes it before it returns.      *)
LEMMA DnsIsMine ==
    ASSUME EthernetInv, call.op \in {"query", "querying", "answer"}
    PROVE  /\ _sock[Dns] # MAX_SOCK_NUM /\ _sock[Dns] \in Sockets /\ OwnersInv /\ call.next = "idle"
           /\ ~crossed => chip[_sock[Dns]].use = mine[Dns]
  BY SockIs, Distinct DEF EthernetInv, OwnersInv, CallKnows, UdpOwned

LEMMA QueriedStep ==
    ASSUME EthernetInv, Queried
    PROVE  EthernetInv'
<1>1. PICK s \in Sockets : s = _sock[Dns]
  BY DnsIsMine DEF Queried
<1>2. OwnersInv /\ UNCHANGED <<_remaining, mine, uses, queries, crossed>> /\ call.next = "idle" /\ s # MAX_SOCK_NUM
  BY <1>1, DnsIsMine DEF Queried
<1>3. CASE /\ chip' = [chip EXCEPT ![s].ir = {}] /\ call' = [call EXCEPT !.op = "answer"]
           /\ UNCHANGED <<ended, _server_port, _sock>>
  <2>1. OwnersInv'
    <3>1. {} \in SUBSET {"SEND_OK", "TIMEOUT"}
      OBVIOUS
    <3> QED
      BY <1>2, <1>3, <3>1, IrIsCalm, CalmKeeps
  <2>2. call' = [op |-> "answer", h |-> call.h, s |-> call.s, next |-> call.next, listening |-> call.listening, n |-> call.n]
    BY <1>3 DEF EthernetInv, CallTypes
  <2>3. CallTypes' /\ CallKnows'
    BY <1>1, <1>2, <1>3, <2>2 DEF EthernetInv, CallTypes, CallKnows, Ops, Queried
  <2> QED
    BY <2>1, <2>3 DEF EthernetInv, OwnersInv
<1>4. CASE UdpClose(Dns, chip) /\ Return
  <2>1. OwnersInv'
    BY <1>1, <1>2, <1>4, DnsIsMine, UdpCloseKeeps, Distinct DEF Queried, OwnersInv, SocketTypes
  <2>2. CallTypes' /\ CallKnows'
    BY <1>2, <1>4, Returned DEF EthernetInv
  <2> QED
    BY <2>1, <2>2 DEF EthernetInv, OwnersInv
<1> QED
  BY <1>1, <1>3, <1>4 DEF Queried

LEMMA NoAnswerStep ==
    ASSUME EthernetInv, NoAnswer
    PROVE  EthernetInv'
<1>1. /\ OwnersInv /\ UNCHANGED <<_remaining, mine, uses, queries, crossed>> /\ call.next = "idle"
      /\ _sock[Dns] # MAX_SOCK_NUM /\ (~crossed => chip[_sock[Dns]].use = mine[Dns])
  BY DnsIsMine DEF NoAnswer
<1>2. CASE call' = [call EXCEPT !.n = @ + 1] /\ UNCHANGED <<chip, ended, _server_port, _sock>>
  <2>1. OwnersInv'
    BY <1>1, <1>2, IdleChipIsCalm, CalmKeeps
  <2>2. call' = [op |-> "answer", h |-> call.h, s |-> call.s, next |-> "idle", listening |-> call.listening, n |-> call.n + 1]
    BY <1>1, <1>2 DEF EthernetInv, CallTypes, NoAnswer
  <2>3. CallTypes' /\ CallKnows'
    BY <1>1, <1>2, <2>2 DEF EthernetInv, CallTypes, CallKnows, Ops
  <2> QED
    BY <2>1, <2>3 DEF EthernetInv, OwnersInv
<1>3. CASE UdpClose(Dns, chip) /\ Return
  <2>1. OwnersInv'
    BY <1>1, <1>3, UdpCloseKeeps, Distinct DEF OwnersInv, SocketTypes
  <2>2. CallTypes' /\ CallKnows'
    BY <1>1, <1>3, Returned DEF EthernetInv
  <2> QED
    BY <2>1, <2>2 DEF EthernetInv, OwnersInv
<1> QED
  BY <1>2, <1>3 DEF NoAnswer

LEMMA AnswerStep ==
    ASSUME EthernetInv, Answer
    PROVE  EthernetInv'
<1>1. /\ OwnersInv /\ UNCHANGED <<mine, uses, queries, crossed>> /\ call.next = "idle" /\ _sock[Dns] # MAX_SOCK_NUM
      /\ _sock[Dns] \in Sockets /\ UdpClose(Dns, chip) /\ Return /\ (~crossed => chip[_sock[Dns]].use = mine[Dns])
  BY DnsIsMine DEF Answer
<1>2. _remaining' \in [UdpObjects -> Nat] /\ \A w \in UdpObjects \ {Dns} : _remaining'[w] = _remaining[w]
  <2> DEFINE rx == chip[_sock[Dns]].rx
  <2>1. rx \in Seq(Unit) /\ rx # <<>>
    BY <1>1, SockIs DEF OwnersInv, Answer
  <2>2. Head(rx).len \in Nat
    <3> HIDE DEF rx
    <3> QED
      BY <2>1, UnitIs
  <2>3. PICK k \in Nat : _remaining' = [_remaining EXCEPT ![Dns] = k]
    <3>1. CASE Accepted(Head(rx))
      BY <3>1 DEF Answer
    <3>2. CASE ~Accepted(Head(rx))
      BY <2>2, <3>2 DEF Answer
    <3> QED
      BY <3>1, <3>2
  <2> QED
    BY <2>3, <1>1 DEF OwnersInv, SocketTypes
<1>3. OwnersInv'
  BY <1>1, <1>2, UdpCloseKeeps, Distinct
<1>4. CallTypes' /\ CallKnows'
  BY <1>1, Returned DEF EthernetInv
<1> QED
  BY <1>3, <1>4 DEF EthernetInv, OwnersInv

(* What a socket has received is of its use.                               *)
LEMMA UnitsAreOwned ==
    ASSUME OwnersInv, NEW s \in Sockets
    PROVE  /\ chip[s].st = "LISTEN" => chip[s].rx = <<>>
           /\ \A i \in 1 .. Len(chip[s].rx) : chip[s].rx[i].of = chip[s].use
<1>1. SocketsOwned /\ chip[s].rx \in Seq(Unit)
  BY SockIs DEF OwnersInv
<1>2. Len(chip[s].rx) \in Nat
  BY <1>1
<1>3. chip[s].st = "LISTEN" => chip[s].rx = <<>>
  BY <1>1 DEF SocketsOwned
<1>4. \A i \in Nat : i \in 1 .. Len(chip[s].rx) => chip[s].rx[i].of = chip[s].use
  BY <1>1 DEF SocketsOwned
<1> QED
  BY <1>2, <1>3, <1>4

(* The first units of a UDP object's datagrams are taken.                  *)
LEMMA TakenKeeps ==
    ASSUME OwnersInv, NEW u \in UdpObjects, NEW s \in Sockets, _sock[u] = s,
           NEW k \in 0 .. Len(chip[s].rx), NEW x \in Seq(Unit), Len(x) = Len(chip[s].rx) - k,
           \A i \in 1 .. Len(x) : x[i] = chip[s].rx[k + i], NEW left \in Nat,
           Framed(chip[s].rx, _remaining[u]) => Framed(x, left),
           chip' = [chip EXCEPT ![s].rx = x], _remaining' = [_remaining EXCEPT ![u] = left],
           UNCHANGED <<_server_port, _sock, mine, ended, uses, queries>>, crossed => crossed'
    PROVE  OwnersInv'
<1> DEFINE r == [chip[s] EXCEPT !.rx = x]
           q == chip[s].rx
<1>1. q \in Seq(Unit) /\ chip[s] \in Socket /\ s # MAX_SOCK_NUM /\ u \in Objects /\ Len(q) \in Nat
  BY SockIs, Distinct DEF OwnersInv
<1>2. chip' = [chip EXCEPT ![s] = r] /\ r \in Socket /\ r.st = chip[s].st /\ r.use = chip[s].use /\ r.rx = x
  BY <1>1 DEF Socket
<1>3. \A i \in Nat : i \in 1 .. Len(x) => x[i].of = chip[s].use
  <2> SUFFICES ASSUME NEW i \in 1 .. Len(x) PROVE x[i].of = chip[s].use
    OBVIOUS
  <2>1. k + i \in 1 .. Len(q) /\ x[i] = q[k + i]
    BY <1>1
  <2>2. \A j \in 1 .. Len(q) : q[j].of = chip[s].use
    BY <1>1, UnitsAreOwned
  <2> HIDE DEF q
  <2> QED
    BY <2>1, <2>2
<1>4. chip[s].st = "LISTEN" => x = <<>>
  <2> HAVE chip[s].st = "LISTEN"
  <2>1. q = <<>>
    BY UnitsAreOwned
  <2>2. Len(x) = 0
    BY <1>1, <2>1
  <2> QED
    BY <2>2, EmptySeq
<1> HIDE DEF r, q
<1>5. MovesOne(s, r, u)
  <2>1. mine[u] <= uses /\ uses \in Nat /\ uses <= uses
    BY <1>1 DEF OwnersInv, UdpOwned, SocketTypes
  <2>2. _remaining' \in [UdpObjects -> Nat] /\ \A w \in UdpObjects : _sock'[w] \notin {s, MAX_SOCK_NUM} => _remaining'[w] = _remaining[w]
    BY DEF OwnersInv, SocketTypes
  <2> QED
    BY <1>2, <2>1, <2>2 DEF MovesOne, OwnersInv, SocketTypes
<1>6. HeldBy(s, r)
  BY <1>2 DEF HeldBy, OwnersInv, SocketsHeld
<1>7. OwnedBy(s, r)
  <2>1. /\ r.use <= uses' /\ (r.st = "CLOSE_WAIT" => r.use \in ended') /\ (r.st = "LISTEN" => r.rx = <<>>)
        /\ \A i \in Nat : i \in 1 .. Len(r.rx) => r.rx[i].of = r.use
    BY <1>2, <1>3, <1>4 DEF OwnersInv, SocketsOwned, UdpOwned
  <2>2. ASSUME NEW h \in Objects, _sock[h] = s
        PROVE  mine[h] \in ended \/ (r.use = mine[h] /\ r.st \in {"SYNSENT", "ESTABLISHED", "UDP"})
    <3>1. mine[h] \in ended \/ Mine(h)
      BY <1>1, <2>2 DEF OwnersInv, SocketsOwned
    <3> QED
      BY <1>2, <2>2, <3>1 DEF Mine
  <2> QED
    BY <2>1, <2>2 DEF OwnedBy
<1>8. UdpBy(s, r)
  <2> SUFFICES ASSUME ~crossed', NEW w \in UdpObjects, _sock[w] = s
               PROVE  /\ r.st = "UDP" /\ r.use = mine[w] /\ Framed(r.rx, _remaining'[w])
                      /\ \A h \in Objects : h # w /\ _sock[h] = s => mine[h] # mine[w]
    BY DEF UdpBy
  <2>1. /\ r.st = "UDP" /\ r.use = mine[w] /\ r.use = mine[u] /\ Framed(chip[s].rx, _remaining[u])
        /\ \A h \in Objects : h # w /\ _sock[h] = s => mine[h] # mine[w]
    BY <1>1, <1>2 DEF OwnersInv, UdpOwned, Frames
  <2>2. w = u
    BY <1>1, <2>1
  <2>3. _remaining'[u] = left
    BY DEF OwnersInv, SocketTypes
  <2> QED
    BY <1>2, <2>1, <2>2, <2>3
<1> QED
  BY <1>1, <1>2, <1>5, <1>6, <1>7, <1>8, OneMoves

LEMMA UdpReadStep ==
    ASSUME EthernetInv, NEW u \in UdpObjects, NEW n \in 1 .. 2, udpRead(u, n)
    PROVE  EthernetInv'
<1>1. PICK s \in Sockets : s = _sock[u]
  BY SockIs, Distinct DEF EthernetInv, udpRead
<1>2. OwnersInv /\ chip[s].rx \in Seq(Unit) /\ _remaining[u] \in Nat /\ Len(chip[s].rx) \in Nat
  BY SockIs DEF EthernetInv, OwnersInv
<1> DEFINE got == Min({n, _remaining[u], Len(chip[s].rx)})
           x == SubSeq(chip[s].rx, got + 1, Len(chip[s].rx))
<1>3. got \in 0 .. Len(chip[s].rx) /\ got \in 0 .. _remaining[u]
  <2> DEFINE S == {n, _remaining[u], Len(chip[s].rx)}
  <2>0. S \in SUBSET Nat /\ S # {} /\ Len(chip[s].rx) \in S /\ _remaining[u] \in S
    BY <1>2
  <2>1. Min(S) \in S /\ Min(S) <= Len(chip[s].rx) /\ Min(S) <= _remaining[u] /\ S \in SUBSET Nat
    <3> HIDE DEF S
    <3> QED
      BY <2>0, LeastIs
  <2> HIDE DEF S
  <2>2. Min(S) \in Nat
    BY <2>1
  <2>3. got = Min(S)
    BY DEF S
  <2> HIDE DEF got
  <2> QED
    BY <1>2, <2>1, <2>2, <2>3
<1>4. chip' = [chip EXCEPT ![s].rx = x] /\ _remaining' = [_remaining EXCEPT ![u] = _remaining[u] - got]
  BY <1>1 DEF udpRead, recv
<1> HIDE DEF got
<1>5. x \in Seq(Unit) /\ Len(x) = Len(chip[s].rx) - got /\ \A i \in 1 .. Len(x) : x[i] = chip[s].rx[got + i]
  BY <1>2, <1>3, Dropped
<1> HIDE DEF x
<1>6. Framed(chip[s].rx, _remaining[u]) => Framed(x, _remaining[u] - got)
  BY <1>2, <1>3, <1>5, FramedRead
<1>7. _remaining[u] - got \in Nat
  BY <1>2, <1>3
<1>8. UNCHANGED <<_server_port, _sock, mine, ended, uses, queries>> /\ (crossed => crossed')
  BY ViaCrosses DEF udpRead
<1>9. OwnersInv'
  BY <1>1, <1>2, <1>3, <1>4, <1>5, <1>6, <1>7, <1>8, TakenKeeps
<1>10. CallTypes' /\ CallKnows'
  BY EnterIdle, Distinct DEF udpRead
<1> QED
  BY <1>9, <1>10 DEF EthernetInv, OwnersInv

LEMMA ParseStep ==
    ASSUME EthernetInv, Parse
    PROVE  EthernetInv'
<1>1. PICK s \in Sockets, u \in UdpObjects : s = call.s /\ u = call.h /\ _sock[u] = s
  BY Distinct DEF EthernetInv, CallTypes, CallKnows, Parse
<1> DEFINE q == chip[s].rx
           left == _remaining[u]
           rx == SubSeq(q, left + 1, Len(q))
<1>2. OwnersInv /\ q \in Seq(Unit) /\ left \in Nat /\ left \in 0 .. Len(q) /\ Len(q) \in Nat
  BY <1>1, SockIs DEF EthernetInv, OwnersInv, Parse
<1>3. /\ chip' = [chip EXCEPT ![s].rx = IF rx = <<>> THEN rx ELSE Tail(rx)]
      /\ _remaining' = [_remaining EXCEPT ![u] = IF rx = <<>> THEN 0 ELSE Head(rx).len]
  BY <1>1 DEF Parse, Discard
<1>0. UNCHANGED <<_server_port, _sock, mine, ended, uses, queries>> /\ (crossed => crossed')
  BY DEF Parse
<1> HIDE DEF q, left
<1>4. rx \in Seq(Unit) /\ Len(rx) = Len(q) - left /\ \A i \in 1 .. Len(rx) : rx[i] = q[left + i]
  BY <1>2, Dropped
<1> HIDE DEF rx
<1>5. OwnersInv'
  <2>1. CASE rx = <<>>
    <3>1. Len(q) = left /\ Len(rx) = 0
      BY <1>2, <1>4, <2>1
    <3>2. Framed(rx, 0)
      BY <2>1, FramedEmpty
    <3>3. PICK x \in Seq(Unit), k \in 0 .. Len(chip[s].rx), l \in Nat :
              /\ Len(x) = Len(chip[s].rx) - k /\ \A i \in 1 .. Len(x) : x[i] = chip[s].rx[k + i]
              /\ Framed(chip[s].rx, _remaining[u]) => Framed(x, l)
              /\ chip' = [chip EXCEPT ![s].rx = x] /\ _remaining' = [_remaining EXCEPT ![u] = l]
      BY <1>2, <1>3, <1>4, <2>1, <3>1, <3>2 DEF q, left
    <3> QED
      BY <1>0, <1>1, <1>2, <3>3, TakenKeeps
  <2>2. CASE rx # <<>>
    <3>1. /\ Tail(rx) \in Seq(Unit) /\ Len(Tail(rx)) = Len(rx) - 1 /\ Len(rx) \in Nat /\ Len(rx) > 0
          /\ \A i \in 1 .. Len(Tail(rx)) : Tail(rx)[i] = rx[i + 1]
      BY <1>4, <2>2, HeadTailProperties, EmptySeq
    <3>2. left + 1 \in 0 .. Len(q) /\ Len(q) > left /\ Len(Tail(rx)) = Len(q) - (left + 1) /\ Len(Tail(rx)) = Len(q) - left - 1
      BY <1>2, <1>4, <3>1
    <3>3. \A i \in 1 .. Len(Tail(rx)) : Tail(rx)[i] = q[left + 1 + i]
      <4> TAKE i \in 1 .. Len(Tail(rx))
      <4>1. i + 1 \in 1 .. Len(rx) /\ left + (i + 1) = left + 1 + i
        BY <1>2, <3>1
      <4> QED
        BY <1>4, <3>1, <4>1
    <3>4. Head(rx) = q[left + 1]
      <4>1. Head(rx) = rx[1] /\ 1 \in 1 .. Len(rx)
        BY <1>4, <2>2, <3>1, HeadTailProperties
      <4> QED
        BY <1>4, <4>1
    <3>5. Framed(q, left) => Framed(Tail(rx), Head(rx).len)
      BY <1>2, <3>1, <3>2, <3>3, <3>4, FramedNext
    <3>6. Head(rx).len \in Nat
      <4>1. left + 1 \in 1 .. Len(q)
        BY <1>2, <3>2
      <4> QED
        BY <1>2, <3>4, <4>1, UnitIs
    <3>7. chip' = [chip EXCEPT ![s].rx = Tail(rx)] /\ _remaining' = [_remaining EXCEPT ![u] = Head(rx).len]
      BY <1>3, <2>2
    <3>8. PICK x \in Seq(Unit), k \in 0 .. Len(chip[s].rx), l \in Nat :
              /\ Len(x) = Len(chip[s].rx) - k /\ \A i \in 1 .. Len(x) : x[i] = chip[s].rx[k + i]
              /\ Framed(chip[s].rx, _remaining[u]) => Framed(x, l)
              /\ chip' = [chip EXCEPT ![s].rx = x] /\ _remaining' = [_remaining EXCEPT ![u] = l]
      BY <3>1, <3>2, <3>3, <3>5, <3>6, <3>7 DEF q, left
    <3> QED
      BY <1>0, <1>1, <1>2, <3>8, TakenKeeps
  <2> QED
    BY <2>1, <2>2
<1>6. CallTypes' /\ CallKnows'
  <2>1. call.next = "idle"
    BY DEF EthernetInv, CallKnows, Parse
  <2> QED
    BY <2>1, Returned DEF EthernetInv, Parse
<1> QED
  BY <1>5, <1>6 DEF EthernetInv, OwnersInv

(* A name that is not there is skipped for ever: the whole datagram is     *)
(* read, and the next one is left alone.                                   *)
LEMMA SkipStep ==
    ASSUME EthernetInv, Skip
    PROVE  EthernetInv'
<1>1. PICK s \in Sockets : s = _sock[Dns]
  BY DnsIsMine DEF Skip
<1> DEFINE q == chip[s].rx
           y == SubSeq(q, 1 + 1, Len(q))
           x == SubSeq(q, 2 + 1, Len(q))
<1>2. OwnersInv /\ q \in Seq(Unit) /\ Len(q) \in Nat /\ Len(q) > 1 /\ Dns \in UdpObjects /\ _remaining[Dns] = 0
      /\ call.op = "answer" /\ call.next = "idle" /\ Head(q).len = 1
  BY <1>1, SockIs, Distinct, DnsIsMine DEF EthernetInv, OwnersInv, CallKnows, Skip, Cut
<1>3. chip' = [chip EXCEPT ![s].rx = x] /\ _remaining' = [_remaining EXCEPT ![Dns] = 0]
  BY <1>1 DEF Skip, recv
<1>4. UNCHANGED <<_server_port, _sock, mine, ended, uses, queries>> /\ (crossed => crossed')
  BY DEF Skip
<1> HIDE DEF q
<1>5. /\ y \in Seq(Unit) /\ Len(y) = Len(q) - 0 - 1 /\ \A i \in 1 .. Len(y) : y[i] = q[0 + 1 + i]
      /\ x \in Seq(Unit) /\ Len(x) = Len(q) - 2 /\ \A i \in 1 .. Len(x) : x[i] = q[2 + i]
  <2>1. 1 \in 0 .. Len(q) /\ 2 \in 0 .. Len(q)
    BY <1>2
  <2>2. y \in Seq(Unit) /\ Len(y) = Len(q) - 1 /\ \A i \in 1 .. Len(y) : y[i] = q[1 + i]
    BY <1>2, <2>1, Dropped
  <2>3. x \in Seq(Unit) /\ Len(x) = Len(q) - 2 /\ \A i \in 1 .. Len(x) : x[i] = q[2 + i]
    BY <1>2, <2>1, Dropped
  <2> HIDE DEF x, y
  <2> QED
    BY <1>2, <2>2, <2>3
<1> HIDE DEF x, y
<1>6. q[1].len = 1
  BY <1>2, HeadTailProperties
<1>7. Framed(q, _remaining[Dns]) => Framed(x, 0)
  <2> HAVE Framed(q, _remaining[Dns])
  <2>1. PICK left \in Nat, one \in 0 .. 1 : left = _remaining[Dns] /\ left = 0 /\ one = 1
    BY <1>2
  <2>2. /\ Framed(q, left) /\ Len(q) > left /\ Len(y) = Len(q) - left - 1
        /\ \A i \in 1 .. Len(y) : y[i] = q[left + 1 + i]
    BY <1>2, <1>5, <2>1
  <2>3. Framed(y, q[left + 1].len)
    BY <1>2, <1>5, <2>2, FramedNext
  <2>4. q[left + 1].len = one /\ one \in 0 .. one /\ one - one = 0 /\ one \in Nat
    BY <1>6, <2>1
  <2>5. Len(x) = Len(y) - one /\ \A i \in 1 .. Len(x) : x[i] = y[one + i]
    <3>1. Len(x) = Len(y) - one
      BY <1>2, <1>5, <2>1
    <3>2. ASSUME NEW i \in 1 .. Len(x) PROVE x[i] = y[one + i]
      <4>1. 1 + i \in 1 .. Len(y) /\ 0 + 1 + (1 + i) = 2 + i
        BY <1>2, <1>5, <3>2
      <4> QED
        BY <1>5, <2>1, <4>1
    <3> QED
      BY <3>1, <3>2
  <2>6. Framed(y, one)
    BY <2>3, <2>4
  <2>7. Framed(x, one - one)
    BY <1>5, <2>4, <2>5, <2>6, FramedRead
  <2> QED
    BY <2>4, <2>7
<1>8. OwnersInv'
  <2>1. PICK z \in Seq(Unit), k \in 0 .. Len(chip[s].rx), left \in Nat, u \in UdpObjects :
            /\ Len(z) = Len(chip[s].rx) - k /\ \A i \in 1 .. Len(z) : z[i] = chip[s].rx[k + i]
            /\ Framed(chip[s].rx, _remaining[u]) => Framed(z, left)
            /\ chip' = [chip EXCEPT ![s].rx = z] /\ _remaining' = [_remaining EXCEPT ![u] = left]
            /\ _sock[u] = s
    <3>1. 2 \in 0 .. Len(q) /\ 0 \in Nat
      BY <1>2
    <3> QED
      BY <1>1, <1>2, <1>3, <1>5, <1>7, <3>1 DEF q
  <2>2. OwnersInv /\ s \in Sockets
    BY <1>2
  <2>3. UNCHANGED <<_server_port, _sock, mine, ended, uses, queries>>
    BY <1>4
  <2>4. crossed => crossed'
    BY <1>4
  <2> QED
    BY <2>1, <2>2, <2>3, <2>4, TakenKeeps
<1>9. CallTypes' /\ CallKnows'
  <2>1. call' = [op |-> "skip", h |-> call.h, s |-> call.s, next |-> "idle", listening |-> call.listening, n |-> call.n]
    BY <1>2 DEF EthernetInv, CallTypes, Skip
  <2> QED
    BY <2>1, Distinct DEF EthernetInv, CallTypes, CallKnows, Ops
<1> QED
  BY <1>8, <1>9 DEF EthernetInv, OwnersInv

------------------------------------------------------------------------------
(* The chip and the network: no call moves on.                             *)
LEMMA NetKeeps ==
    ASSUME EthernetInv, NEW s \in Sockets, NEW r \in Socket, ChipStep(s, [chip EXCEPT ![s] = r]),
           uses' \in Nat, uses <= uses', HeldBy(s, r), OwnedBy(s, r), UdpBy(s, r)
    PROVE  EthernetInv'
<1>1. OwnersInv /\ chip' = [chip EXCEPT ![s] = r] /\ UNCHANGED <<_server_port, _sock, _remaining, mine, queries>>
  BY DEF EthernetInv, OwnersInv, ChipStep
<1>2. ended \subseteq ended' /\ call' = call
  BY DEF ChipStep
<1>3. crossed => crossed'
  BY DEF ChipStep
<1>4. MovesOne(s, r, Guest)
  BY <1>1, <1>2, <1>3, ChipMoves
<1>5. OwnersInv'
  BY <1>1, <1>4, Distinct, OneMoves
<1>6. CallTypes'
  BY <1>2 DEF EthernetInv, CallTypes
<1>7. CallKnows'
  <2>1. \A t : Over(t) => Over(t)'
    BY <1>1, <1>2 DEF Over
  <2>2. \A t : NoUdp(t) => NoUdp(t)'
    BY <1>1, <1>3 DEF NoUdp
  <2> QED
    BY <1>1, <1>2, <2>1, <2>2 DEF EthernetInv, CallKnows
<1> QED
  BY <1>5, <1>6, <1>7 DEF EthernetInv, OwnersInv

(* What the chip notes of a step of a socket.                              *)
LEMMA ChipNotes ==
    ASSUME OwnersInv, NEW s \in Sockets, NEW r \in Socket, ChipStep(s, [chip EXCEPT ![s] = r])
    PROVE  /\ ended' = ended \cup IF r.st \in {"CLOSED", "CLOSE_WAIT"} THEN {r.use} ELSE {}
           /\ UNCHANGED <<_server_port, _sock, _remaining, mine>>
           /\ crossed => crossed'
<1>1. [chip EXCEPT ![s] = r][s] = r
  BY DEF OwnersInv, SocketTypes
<1> QED
  BY <1>1 DEF ChipStep

(* A connection is made, goes on or ends.                                  *)
LEMMA TcpKeeps ==
    ASSUME EthernetInv, NEW s \in Sockets, NEW r \in Socket, ChipStep(s, [chip EXCEPT ![s] = r]), UNCHANGED uses,
           St(s) \in {"SYNSENT", "ESTABLISHED", "FIN_WAIT", "CLOSE_WAIT", "LAST_ACK"},
           r.use = chip[s].use, r.st \in {"ESTABLISHED", "CLOSE_WAIT", "CLOSED"},
           r.st = "ESTABLISHED" => St(s) \in {"SYNSENT", "ESTABLISHED"},
           \A i \in Nat : i \in 1 .. Len(r.rx) => r.rx[i].of = r.use
    PROVE  EthernetInv'
<1>1. /\ OwnersInv /\ uses' \in Nat /\ uses <= uses' /\ s # MAX_SOCK_NUM
      /\ UNCHANGED <<_server_port, _sock, _remaining, mine>> /\ (crossed => crossed')
      /\ ended' = ended \cup IF r.st \in {"CLOSED", "CLOSE_WAIT"} THEN {r.use} ELSE {}
  <2>1. OwnersInv /\ uses' \in Nat /\ uses <= uses' /\ s # MAX_SOCK_NUM
    BY Distinct DEF EthernetInv, OwnersInv, SocketTypes
  <2> QED
    BY <2>1, ChipNotes
<1>2. HeldBy(s, r)
  BY <1>1 DEF HeldBy, OwnersInv, SocketsHeld, St
<1>3. OwnedBy(s, r)
  <2>1. r.use <= uses'
    BY <1>1 DEF OwnersInv, UdpOwned
  <2>2. ASSUME NEW h \in Objects, _sock[h] = s
        PROVE  mine[h] \in ended' \/ (r.use = mine[h] /\ r.st \in {"SYNSENT", "ESTABLISHED", "UDP"})
    <3>1. mine[h] \in ended \/ Mine(h)
      BY <1>1, <2>2 DEF OwnersInv, SocketsOwned
    <3> QED
      BY <1>1, <2>2, <3>1 DEF Mine
  <2> QED
    BY <1>1, <2>1, <2>2 DEF OwnedBy
<1>4. UdpBy(s, r)
  <2>1. ASSUME ~crossed', NEW u \in UdpObjects, _sock[u] = s PROVE FALSE
    BY <1>1, <2>1 DEF OwnersInv, UdpOwned, St
  <2> QED
    BY <1>1, <2>1 DEF UdpBy
<1> QED
  BY <1>1, <1>2, <1>3, <1>4, NetKeeps

(* The units of a socket's RX memory are those of its use.                 *)
LEMMA UnitsOf ==
    ASSUME OwnersInv, NEW s \in Sockets
    PROVE  \A i \in Nat : i \in 1 .. Len(chip[s].rx) => chip[s].rx[i].of = chip[s].use
  BY DEF OwnersInv, SocketsOwned

LEMMA PeerConnectsStep ==
    ASSUME EthernetInv, NEW s \in Sockets, PeerConnects(s)
    PROVE  EthernetInv'
<1> DEFINE r == [chip[s] EXCEPT !.st = "ESTABLISHED", !.use = uses + 1]
<1>1. OwnersInv /\ chip[s] \in Socket /\ uses \in Nat /\ uses' = uses + 1 /\ uses <= uses' /\ uses' \in Nat /\ chip[s].rx = <<>>
  BY SockIs DEF EthernetInv, OwnersInv, SocketTypes, SocketsOwned, PeerConnects, St
<1>2. [chip EXCEPT ![s].st = "ESTABLISHED", ![s].use = uses + 1] = [chip EXCEPT ![s] = r]
  BY <1>1 DEF OwnersInv, SocketTypes, Socket
<1>3. r \in Socket /\ r.st = "ESTABLISHED" /\ r.use = uses' /\ r.rx = <<>>
  BY <1>1 DEF Socket, SocketStates, Room
<1>4. ChipStep(s, [chip EXCEPT ![s] = r])
  BY <1>2 DEF PeerConnects
<1> HIDE DEF r
<1>5. Over(s) /\ NoUdp(s) /\ UNCHANGED <<_server_port, _sock, mine>> /\ ended \subseteq ended' /\ (crossed => crossed')
  BY <1>1, <1>3, <1>4, OverOrMine, ChipNotes DEF PeerConnects
<1>6. HeldBy(s, r)
  BY <1>1, <1>5 DEF HeldBy, OwnersInv, SocketsHeld, PeerConnects, St
<1>7. OwnedBy(s, r) /\ UdpBy(s, r)
  BY <1>1, <1>3, <1>5 DEF OwnedBy, UdpBy, Over, NoUdp
<1> QED
  BY <1>1, <1>3, <1>4, <1>6, <1>7, NetKeeps

LEMMA HandshakeStep ==
    ASSUME EthernetInv, NEW s \in Sockets, Handshake(s)
    PROVE  EthernetInv'
<1>1. PICK st \in {"ESTABLISHED", "CLOSED"} : ChipStep(s, [chip EXCEPT ![s].st = st])
  BY DEF Handshake
<1> DEFINE r == [chip[s] EXCEPT !.st = st]
<1>2. OwnersInv /\ chip[s] \in Socket
  BY SockIs DEF EthernetInv, OwnersInv
<1>3. r \in Socket /\ r.st = st /\ r.use = chip[s].use /\ r.rx = chip[s].rx /\ ChipStep(s, [chip EXCEPT ![s] = r])
  BY <1>1, <1>2 DEF Socket, SocketStates, Room
<1> HIDE DEF r
<1>4. \A i \in Nat : i \in 1 .. Len(r.rx) => r.rx[i].of = r.use
  BY <1>2, <1>3, UnitsOf
<1> QED
  BY <1>3, <1>4, TcpKeeps DEF Handshake

LEMMA PeerSendsStep ==
    ASSUME EthernetInv, NEW s \in Sockets, PeerSends(s)
    PROVE  EthernetInv'
<1>1. OwnersInv /\ chip[s] \in Socket /\ chip[s].rx \in Seq(Unit) /\ chip[s].use \in Nat
  BY SockIs DEF EthernetInv, OwnersInv
<1> DEFINE b == Byte(chip[s].use)
           x == Append(chip[s].rx, b)
           r == [chip[s] EXCEPT !.rx = x]
<1>2. b \in Unit /\ b.of = chip[s].use
  BY <1>1 DEF Byte, Unit
<1>3. ChipStep(s, [chip EXCEPT ![s] = r])
  BY DEF PeerSends
<1> HIDE DEF b
<1>4. x \in Seq(Unit) /\ Len(x) = Len(chip[s].rx) + 1 /\ Len(chip[s].rx) \in Nat
      /\ \A i \in 1 .. Len(x) : x[i] = IF i <= Len(chip[s].rx) THEN chip[s].rx[i] ELSE b
  BY <1>1, <1>2, AppendProperties
<1> HIDE DEF x
<1>5. r \in Socket /\ r.st = chip[s].st /\ r.use = chip[s].use /\ r.rx = x
  BY <1>1, <1>4 DEF Socket
<1>6. \A i \in Nat : i \in 1 .. Len(x) => x[i].of = chip[s].use
  BY <1>1, <1>2, <1>4, UnitsOf
<1> HIDE DEF r
<1> QED
  BY <1>3, <1>5, <1>6, TcpKeeps DEF PeerSends, St

LEMMA PeerClosesStep ==
    ASSUME EthernetInv, NEW s \in Sockets, PeerCloses(s)
    PROVE  EthernetInv'
<1>1. OwnersInv /\ chip[s] \in Socket
  BY SockIs DEF EthernetInv, OwnersInv
<1>2. PICK st \in {"CLOSE_WAIT", "CLOSED"} : ChipStep(s, [chip EXCEPT ![s].st = st])
  BY DEF PeerCloses
<1> DEFINE r == [chip[s] EXCEPT !.st = st]
<1>3. r \in Socket /\ r.st = st /\ r.use = chip[s].use /\ r.rx = chip[s].rx /\ ChipStep(s, [chip EXCEPT ![s] = r])
  BY <1>1, <1>2 DEF Socket, SocketStates, Room
<1> HIDE DEF r
<1>4. \A i \in Nat : i \in 1 .. Len(r.rx) => r.rx[i].of = r.use
  BY <1>1, <1>3, UnitsOf
<1> QED
  BY <1>3, <1>4, TcpKeeps DEF PeerCloses

LEMMA EndsStep ==
    ASSUME EthernetInv, NEW s \in Sockets, Ends(s)
    PROVE  EthernetInv'
<1> DEFINE r == [chip[s] EXCEPT !.st = "CLOSED", !.tx = "room"]
<1>1. OwnersInv /\ chip[s] \in Socket
  BY SockIs DEF EthernetInv, OwnersInv
<1>2. [chip EXCEPT ![s].st = "CLOSED", ![s].tx = "room"] = [chip EXCEPT ![s] = r]
  BY <1>1 DEF OwnersInv, SocketTypes, Socket
<1>3. r \in Socket /\ r.st = "CLOSED" /\ r.use = chip[s].use /\ r.rx = chip[s].rx /\ ChipStep(s, [chip EXCEPT ![s] = r])
  BY <1>1, <1>2 DEF Socket, SocketStates, Room, Ends
<1> HIDE DEF r
<1>4. \A i \in Nat : i \in 1 .. Len(r.rx) => r.rx[i].of = r.use
  BY <1>1, <1>3, UnitsOf
<1> QED
  BY <1>3, <1>4, TcpKeeps DEF Ends

(* A socket goes on as what it is; at most units come in.                  *)
LEMMA StaysKeeps ==
    ASSUME EthernetInv, NEW s \in Sockets, NEW r \in Socket, ChipStep(s, [chip EXCEPT ![s] = r]), UNCHANGED uses,
           r.st = chip[s].st, r.use = chip[s].use, r.rx = chip[s].rx \/ r.st # "LISTEN",
           \A i \in Nat : i \in 1 .. Len(r.rx) => r.rx[i].of = r.use,
           \A u \in UdpObjects : Framed(chip[s].rx, _remaining[u]) => Framed(r.rx, _remaining[u])
    PROVE  EthernetInv'
<1>1. OwnersInv /\ uses' \in Nat /\ uses <= uses' /\ s # MAX_SOCK_NUM
  BY Distinct DEF EthernetInv, OwnersInv, SocketTypes
<1>2. UNCHANGED <<_server_port, _sock, _remaining, mine>> /\ (crossed => crossed') /\ ended \subseteq ended'
  BY <1>1, ChipNotes
<1>3. HeldBy(s, r)
  BY <1>1, <1>2 DEF HeldBy, OwnersInv, SocketsHeld
<1>4. OwnedBy(s, r)
  <2>1. r.use <= uses' /\ (r.st = "CLOSE_WAIT" => r.use \in ended') /\ (r.st = "LISTEN" => r.rx = <<>>)
    BY <1>1, <1>2 DEF OwnersInv, SocketsOwned, UdpOwned
  <2>2. ASSUME NEW h \in Objects, _sock[h] = s
        PROVE  mine[h] \in ended' \/ (r.use = mine[h] /\ r.st \in {"SYNSENT", "ESTABLISHED", "UDP"})
    <3>1. mine[h] \in ended \/ Mine(h)
      BY <1>1, <2>2 DEF OwnersInv, SocketsOwned
    <3> QED
      BY <1>2, <2>2, <3>1 DEF Mine
  <2> QED
    BY <1>2, <2>1, <2>2 DEF OwnedBy
<1>5. UdpBy(s, r)
  <2> SUFFICES ASSUME ~crossed', NEW u \in UdpObjects, _sock'[u] = s
               PROVE  /\ r.st = "UDP" /\ r.use = mine'[u] /\ Framed(r.rx, _remaining'[u])
                      /\ \A h \in Objects : h # u /\ _sock'[h] = s => mine'[h] # mine'[u]
    BY DEF UdpBy
  <2>1. ~crossed /\ _sock[u] = s
    BY <1>2
  <2>2. /\ chip[s].st = "UDP" /\ chip[s].use = mine[u] /\ Framed(chip[s].rx, _remaining[u])
        /\ \A h \in Objects : h # u /\ _sock[h] = s => mine[h] # mine[u]
    BY <1>1, <2>1 DEF OwnersInv, UdpOwned, Frames
  <2> QED
    BY <1>2, <2>2
<1> QED
  BY <1>1, <1>3, <1>4, <1>5, NetKeeps

LEMMA SentStep ==
    ASSUME EthernetInv, NEW s \in Sockets, Sent(s)
    PROVE  EthernetInv'
<1>1. PICK ir \in {"SEND_OK", "TIMEOUT"}, tx \in {"room", "full"} :
          ChipStep(s, [chip EXCEPT ![s].tx = tx, ![s].ir = @ \cup {ir}])
  BY DEF Sent
<1> DEFINE r == [chip[s] EXCEPT !.tx = tx, !.ir = @ \cup {ir}]
<1>2. OwnersInv /\ chip[s] \in Socket
  BY SockIs DEF EthernetInv, OwnersInv
<1>3. [chip EXCEPT ![s].tx = tx, ![s].ir = @ \cup {ir}] = [chip EXCEPT ![s] = r]
  BY <1>2 DEF OwnersInv, SocketTypes, Socket
<1>4. chip[s].ir \cup {ir} \in SUBSET {"SEND_OK", "TIMEOUT"}
  BY <1>2 DEF Socket
<1>5. r \in Socket /\ r.st = chip[s].st /\ r.use = chip[s].use /\ r.rx = chip[s].rx
  BY <1>2, <1>4 DEF Socket, Room
<1> HIDE DEF r
<1>6. \A i \in Nat : i \in 1 .. Len(r.rx) => r.rx[i].of = r.use
  BY <1>2, <1>5, UnitsOf
<1> QED
  BY <1>1, <1>3, <1>5, <1>6, StaysKeeps DEF Sent

LEMMA PeerTakesStep ==
    ASSUME EthernetInv, NEW s \in Sockets, PeerTakes(s)
    PROVE  EthernetInv'
<1> DEFINE r == [chip[s] EXCEPT !.tx = "room"]
<1>1. OwnersInv /\ chip[s] \in Socket
  BY SockIs DEF EthernetInv, OwnersInv
<1>2. ChipStep(s, [chip EXCEPT ![s] = r])
  BY DEF PeerTakes
<1>3. r \in Socket /\ r.st = chip[s].st /\ r.use = chip[s].use /\ r.rx = chip[s].rx
  BY <1>1 DEF Socket, Room
<1> HIDE DEF r
<1>4. \A i \in Nat : i \in 1 .. Len(r.rx) => r.rx[i].of = r.use
  BY <1>1, <1>3, UnitsOf
<1> QED
  BY <1>2, <1>3, <1>4, StaysKeeps DEF PeerTakes

LEMMA DatagramArrivesStep ==
    ASSUME EthernetInv, NEW s \in Sockets, DatagramArrives(s)
    PROVE  EthernetInv'
<1>1. OwnersInv /\ chip[s] \in Socket /\ chip[s].rx \in Seq(Unit) /\ chip[s].use \in Nat /\ queries \in Nat /\ Len(chip[s].rx) \in Nat
  BY SockIs DEF EthernetInv, OwnersInv, SocketTypes
<1>2. PICK len \in 1 .. 2, from \in {"peer", "dns"}, q \in 0 .. queries :
          ChipStep(s, [chip EXCEPT ![s].rx = @ \o Datagram(chip[s].use, len, from, q)])
  BY DEF DatagramArrives
<1> DEFINE d == Datagram(chip[s].use, len, from, q)
           x == chip[s].rx \o d
           r == [chip[s] EXCEPT !.rx = x]
<1>3. len \in Nat /\ q \in Nat /\ len + 1 \in Nat
  BY <1>1
<1>4. d \in Seq(Unit) /\ Len(d) = len + 1 /\ \A i \in 1 .. len + 1 : d[i].of = chip[s].use /\ d[i].n = i - 1 /\ d[i].len = len
  <2>1. d = [i \in 1 .. len + 1 |-> [of |-> chip[s].use, n |-> i - 1, len |-> len, from |-> from, q |-> q]]
    BY DEF Datagram
  <2>2. \A i \in 1 .. len + 1 : [of |-> chip[s].use, n |-> i - 1, len |-> len, from |-> from, q |-> q] \in Unit
    BY <1>1, <1>3 DEF Unit
  <2> HIDE DEF d
  <2>3. d \in [1 .. len + 1 -> Unit]
    BY <2>1, <2>2
  <2>4. d \in Seq(Unit) /\ Len(d) = len + 1
    BY <1>3, <2>3
  <2>5. \A i \in 1 .. len + 1 : d[i].of = chip[s].use /\ d[i].n = i - 1 /\ d[i].len = len
    BY <2>1
  <2> QED
    BY <2>4, <2>5
<1>5. ChipStep(s, [chip EXCEPT ![s] = r])
  BY <1>2
<1> HIDE DEF d
<1>6. /\ x \in Seq(Unit) /\ Len(x) = Len(chip[s].rx) + Len(d)
      /\ \A i \in 1 .. Len(chip[s].rx) + Len(d) : x[i] = IF i <= Len(chip[s].rx) THEN chip[s].rx[i] ELSE d[i - Len(chip[s].rx)]
  BY <1>1, <1>4, ConcatProperties
<1> DEFINE N == Len(chip[s].rx)
<1>7. N \in Nat /\ Len(x) = N + len + 1 /\ \A i \in 1 .. N + (len + 1) : x[i] = IF i <= N THEN chip[s].rx[i] ELSE d[i - N]
  <2> HIDE DEF x
  <2>1. Len(d) = len + 1 /\ N + Len(d) = N + (len + 1)
    BY <1>4
  <2>2. Len(x) = N + Len(d) /\ \A i \in 1 .. N + Len(d) : x[i] = IF i <= N THEN chip[s].rx[i] ELSE d[i - N]
    BY <1>6
  <2>3. N \in Nat
    BY <1>1
  <2> HIDE DEF N
  <2>5. N + (len + 1) = N + len + 1
    BY <1>3, <2>3
  <2>4. \A i \in 1 .. N + (len + 1) : x[i] = IF i <= N THEN chip[s].rx[i] ELSE d[i - N]
    BY <2>1, <2>2, Zenon
  <2> QED
    BY <2>1, <2>2, <2>3, <2>4, <2>5
<1> HIDE DEF N, x
<1>8. \A i \in 1 .. N : x[i] = chip[s].rx[i]
  BY <1>3, <1>7
<1>9. \A i \in 1 .. len + 1 : x[N + i] = d[i]
  <2> TAKE i \in 1 .. len + 1
  <2>1. N + i \in 1 .. N + (len + 1) /\ ~(N + i <= N) /\ (N + i) - N = i
    BY <1>3, <1>7
  <2> QED
    BY <1>7, <2>1
<1>10. \A i \in Nat : i \in 1 .. Len(x) => x[i].of = chip[s].use
  <2> SUFFICES ASSUME NEW i \in 1 .. Len(x) PROVE x[i].of = chip[s].use
    OBVIOUS
  <2>1. CASE i <= N
    <3>1. i \in 1 .. N /\ i \in Nat
      BY <1>7, <2>1
    <3>2. chip[s].rx[i].of = chip[s].use
      BY <1>1, <3>1, UnitsOf DEF N
    <3> QED
      BY <1>8, <3>1, <3>2
  <2>2. CASE i > N
    <3>1. i - N \in 1 .. len + 1 /\ N + (i - N) = i
      BY <1>3, <1>7, <2>2
    <3> QED
      BY <1>4, <1>9, <3>1
  <2> QED
    BY <1>7, <2>1, <2>2
<1>11. \A u \in UdpObjects : Framed(chip[s].rx, _remaining[u]) => Framed(x, _remaining[u])
  <2> TAKE u \in UdpObjects
  <2> HAVE Framed(chip[s].rx, _remaining[u])
  <2>1. _remaining[u] \in Nat
    BY <1>1, SockIs DEF OwnersInv
  <2>2. \A i \in 1 .. len + 1 : x[Len(chip[s].rx) + i].n = i - 1 /\ x[Len(chip[s].rx) + i].len = len
    BY <1>4, <1>9 DEF N
  <2>3. Len(x) = Len(chip[s].rx) + len + 1 /\ \A i \in 1 .. Len(chip[s].rx) : x[i] = chip[s].rx[i]
    BY <1>7, <1>8 DEF N
  <2> QED
    BY <1>1, <1>3, <1>6, <2>1, <2>2, <2>3, FramedMore
<1>12. r \in Socket /\ r.st = chip[s].st /\ r.use = chip[s].use /\ r.rx = x
  BY <1>1, <1>6 DEF Socket
<1> HIDE DEF r
<1>13. r.st # "LISTEN" /\ UNCHANGED uses
  BY <1>12 DEF DatagramArrives, St
<1> QED
  BY <1>5, <1>10, <1>11, <1>12, <1>13, StaysKeeps

LEMMA EthernetNextKeeps ==
    ASSUME EthernetInv, [EthernetNext]_vars
    PROVE  EthernetInv'
<1>1. ASSUME NEW c \in Clients, connect(c) PROVE EthernetInv'
  BY <1>1, ConnectStep
<1>2. ASSUME NEW c \in Holders, write(c) \/ stop(c) \/ \E n \in 1 .. MaxBytes : read(c, n) PROVE EthernetInv'
  BY <1>2, WriteStep, StopStep, ReadStep
<1>3. ASSUME serverBegin \/ \E next \in {"available", "serverWrite"} : serverCall(next) PROVE EthernetInv'
  BY <1>3, ServerBeginStep, ServerCallStep
<1>4. ASSUME NEW u \in UdpObjects, udpBegin(u) \/ udpStop(u) \/ sendPacket(u) \/ parsePacket(u) PROVE EthernetInv'
  BY <1>4, UdpBeginStep, UdpStopStep, SendPacketStep, ParsePacketStep
<1>5. ASSUME NEW u \in UdpObjects, NEW n \in 1 .. 2, udpRead(u, n) PROVE EthernetInv'
  BY <1>5, UdpReadStep
<1>6. CASE Sketch
  BY <1>1, <1>2, <1>3, <1>4, <1>5, <1>6, GetHostByNameStep, Distinct DEF Sketch, Holders, UdpObjects
<1>7. CASE Library
  BY <1>7, ConnectedStep, SendStartStep, SendEndStep, StopEndStep, AcceptSocketStep, AcceptEndStep, AvailableStep,
     ServerWriteStep, ServerSentStep, PacketSentStep, ParseStep, QueryStep, QueriedStep, AnswerStep, SkipStep,
     NoAnswerStep DEF Library
<1>8. CASE Network
  BY <1>8, PeerConnectsStep, HandshakeStep, PeerSendsStep, PeerClosesStep, EndsStep, SentStep, PeerTakesStep,
     DatagramArrivesStep DEF Network
<1>9. CASE UNCHANGED vars
  BY <1>9 DEF vars, EthernetInv, SocketTypes, CallTypes, CallKnows, Over, NoUdp, SocketsHeld, SocketsOwned, Mine, UdpOwned, Frames
<1> QED
  BY <1>6, <1>7, <1>8, <1>9 DEF EthernetNext

------------------------------------------------------------------------------
(* What a call returns.                                                    *)
Returns == OwnConnection /\ AnswerIsOurs

LEMMA NothingReturned ==
    ASSUME ret' = NoRet
    PROVE  Returns'
  BY DEF Returns, OwnConnection, AnswerIsOurs, NoRet

(* Bytes of the socket an object holds are those of its own use, unless    *)
(* that one is over.                                                       *)
LEMMA OwnReturned ==
    ASSUME EthernetInv, NEW h \in Objects, _sock[h] # MAX_SOCK_NUM, NEW of,
           of \subseteq {chip[_sock[h]].use}, ret' = [NoRet EXCEPT !.own = mine[h], !.of = of], UNCHANGED ended
    PROVE  Returns'
<1>1. ret' = [own |-> mine[h], of |-> of, asked |-> 0, addr |-> 0]
  BY DEF NoRet
<1>2. mine[h] \in ended \/ chip[_sock[h]].use = mine[h]
  BY DEF EthernetInv, SocketsOwned, Mine
<1>3. ret'.own = mine[h] /\ ret'.of = of /\ ret'.asked = 0 /\ ret'.addr = 0
  BY ONLY <1>1
<1>4. ret'.own \in ended' \/ ret'.of \subseteq {ret'.own}
  BY <1>2, <1>3
<1> QED
  BY <1>3, <1>4 DEF Returns, OwnConnection, AnswerIsOurs

LEMMA UnitsReturned ==
    ASSUME EthernetInv, NEW h \in Objects, _sock[h] # MAX_SOCK_NUM, NEW got \in 0 .. Len(chip[_sock[h]].rx)
    PROVE  {chip[_sock[h]].rx[i].of : i \in 1 .. got} \subseteq {chip[_sock[h]].use}
<1>1. PICK s \in Sockets : s = _sock[h]
  BY SockIs DEF EthernetInv
<1>2. OwnersInv /\ Len(chip[s].rx) \in Nat
  BY SockIs DEF EthernetInv, OwnersInv
<1>3. \A i \in 1 .. got : i \in Nat /\ i \in 1 .. Len(chip[s].rx)
  BY <1>1, <1>2
<1> QED
  BY <1>1, <1>2, <1>3, UnitsOf

LEMMA ReadReturns ==
    ASSUME EthernetInv, NEW c \in Holders, NEW n \in 1 .. MaxBytes, read(c, n)
    PROVE  Returns'
<1> DEFINE S == {n, Len(chip[_sock[c]].rx)}
           of == {chip[_sock[c]].rx[i].of : i \in 1 .. Min(S)}
<1>1. c \in Objects /\ _sock[c] # MAX_SOCK_NUM /\ Len(chip[_sock[c]].rx) \in Nat
  BY Distinct, SockIs DEF EthernetInv, read
<1>2. n \in Nat
  BY EthernetAssumption DEF EthernetAssumption
<1>3. ret' = [NoRet EXCEPT !.own = mine[c], !.of = of] /\ UNCHANGED ended
  BY DEF read, ownVars
<1>4. Min(S) \in 0 .. Len(chip[_sock[c]].rx)
  BY <1>1, <1>2, LeastIsBelow
<1> HIDE DEF S
<1>5. of \subseteq {chip[_sock[c]].use}
  BY <1>1, <1>4, UnitsReturned
<1> HIDE DEF of
<1> QED
  BY <1>1, <1>3, <1>5, OwnReturned

LEMMA UdpReadReturns ==
    ASSUME EthernetInv, NEW u \in UdpObjects, NEW n \in 1 .. 2, udpRead(u, n)
    PROVE  Returns'
<1> DEFINE S == {n, _remaining[u], Len(chip[_sock[u]].rx)}
           of == {chip[_sock[u]].rx[i].of : i \in 1 .. Min(S)}
<1>1. u \in Objects /\ _sock[u] # MAX_SOCK_NUM /\ Len(chip[_sock[u]].rx) \in Nat /\ _remaining[u] \in Nat
  BY Distinct, SockIs DEF EthernetInv, udpRead
<1>3. ret' = [NoRet EXCEPT !.own = mine[u], !.of = of] /\ UNCHANGED ended
  BY DEF udpRead
<1>4. Min(S) \in 0 .. Len(chip[_sock[u]].rx)
  BY <1>1, LeastIsBelow
<1> HIDE DEF S
<1>5. of \subseteq {chip[_sock[u]].use}
  BY <1>1, <1>4, UnitsReturned
<1> HIDE DEF of
<1> QED
  BY <1>1, <1>3, <1>5, OwnReturned

LEMMA SendReturns ==
    ASSUME EthernetInv, SendEnd
    PROVE  Returns'
<1>1. CASE ret' = NoRet
  BY <1>1, NothingReturned
<1>2. CASE ret' = [NoRet EXCEPT !.own = mine[call.h], !.of = {chip[call.s].use}] /\ call.next = "idle"
  <2>1. _sock[call.h] = call.s /\ call.h \in Objects /\ call.s # MAX_SOCK_NUM /\ UNCHANGED ended
    BY <1>2 DEF EthernetInv, CallTypes, CallKnows, SendEnd, ownVars
  <2> QED
    BY <1>2, <2>1, OwnReturned
<1> QED
  BY <1>1, <1>2 DEF SendEnd

LEMMA AnswerReturns ==
    ASSUME Answer
    PROVE  Returns'
<1> DEFINE d == Head(chip[_sock[Dns]].rx)
<1>1. PICK o \in Outcomes(d) : ret' = o
  BY DEF Answer
<1>2. CASE o = NoRet
  BY <1>1, <1>2, NothingReturned
<1>3. CASE o # NoRet
  <2>1. PICK a \in {queries, Chance} : ret' = [own |-> 0, of |-> {}, asked |-> queries, addr |-> a]
    BY <1>1, <1>3 DEF Outcomes, Accepted, NoRet
  <2> HIDE DEF d
  <2> QED
    BY <2>1 DEF Returns, OwnConnection, AnswerIsOurs
<1> QED
  BY <1>2, <1>3

LEMMA NextReturns ==
    ASSUME EthernetInv, Returns, [EthernetNext]_vars
    PROVE  Returns'
<1>1. CASE Sketch
  <2>1. ASSUME NEW c \in Clients, connect(c) PROVE ret' = NoRet
    BY <2>1 DEF connect
  <2>2. ASSUME NEW c \in Holders, write(c) \/ stop(c) PROVE ret' = NoRet
    BY <2>2 DEF write, stop
  <2>3. ASSUME serverBegin \/ (\E next \in {"available", "serverWrite"} : serverCall(next)) \/ getHostByName PROVE ret' = NoRet
    BY <2>3 DEF serverBegin, serverCall, getHostByName
  <2>4. ASSUME NEW u \in UdpObjects, udpBegin(u) \/ udpStop(u) \/ sendPacket(u) \/ parsePacket(u) PROVE ret' = NoRet
    BY <2>4 DEF udpBegin, udpStop, sendPacket, parsePacket
  <2> QED
    BY <1>1, <2>1, <2>2, <2>3, <2>4, NothingReturned, ReadReturns, UdpReadReturns, Distinct DEF Sketch, Holders, UdpObjects
<1>2. CASE Library
  <2>1. ASSUME Connected \/ SendStart \/ StopEnd \/ AcceptSocket \/ AcceptEnd \/ available \/ serverWrite \/ serverSent
        PROVE  ret' = NoRet
    BY <2>1 DEF Connected, SendStart, StopEnd, AcceptSocket, AcceptEnd, available, serverWrite, serverSent
  <2>2. ASSUME PacketSent \/ Parse \/ Query \/ Queried \/ Skip \/ NoAnswer PROVE ret' = NoRet
    BY <2>2 DEF PacketSent, Parse, Query, Queried, Skip, NoAnswer
  <2> QED
    BY <1>2, <2>1, <2>2, NothingReturned, SendReturns, AnswerReturns DEF Library
<1>3. CASE Network
  <2>1. PICK s \in Sockets : PeerConnects(s) \/ Handshake(s) \/ PeerSends(s) \/ PeerCloses(s) \/ Ends(s) \/ Sent(s) \/ PeerTakes(s) \/ DatagramArrives(s)
    BY <1>3 DEF Network
  <2>2. ret' = NoRet
    BY <2>1 DEF PeerConnects, Handshake, PeerSends, PeerCloses, Ends, Sent, PeerTakes, DatagramArrives, ChipStep
  <2> QED
    BY <2>2, NothingReturned
<1>4. CASE UNCHANGED vars
  BY <1>4 DEF vars, Returns, OwnConnection, AnswerIsOurs
<1> QED
  BY <1>1, <1>2, <1>3, <1>4 DEF EthernetNext

------------------------------------------------------------------------------
(* Who holds a socket, what its use is and what lies in its RX memory, at  *)
(* every step of every call and of the chip.                               *)
THEOREM EthernetInvariant == EthernetSpec => []EthernetInv
<1>1. EthernetInit => EthernetInv
  BY EthernetInitially
<1>2. EthernetInv /\ [EthernetNext]_vars => EthernetInv'
  BY EthernetNextKeeps
<1> QED
  BY <1>1, <1>2, PTL DEF EthernetSpec

(* No socket of the chip is lost, however the calls of clients, server, UDP *)
(* and DNS that open, hand out and close them mix: one that is not closed  *)
(* is held by an object or is the server's.                                *)
THEOREM SocketsAreNotLost == EthernetSpec => []NoSocketLost
<1>1. EthernetInv => NoSocketLost
  BY DEF EthernetInv, SocketsHeld, NoSocketLost, St
<1> QED
  BY <1>1, EthernetInvariant, PTL

(* What read() and write() deal with is of the connection the object was   *)
(* given its socket for, unless that one is over.                          *)
THEOREM ReadsOwnConnection == EthernetSpec => []OwnConnection
<1>1. EthernetInit => Returns
  BY DEF EthernetInit, NoRet, Returns, OwnConnection, AnswerIsOurs
<1>2. EthernetInv /\ Returns /\ [EthernetNext]_vars => Returns'
  BY NextReturns
<1>3. Returns => OwnConnection
  BY DEF Returns
<1> QED
  BY <1>1, <1>2, <1>3, EthernetInvariant, PTL DEF EthernetSpec

(* parsePacket() and read() keep to the frames of the datagrams, whatever  *)
(* part of one is left unread and whatever comes in meanwhile; a name is   *)
(* resolved to an answer to this very query.                               *)
THEOREM DatagramsAreKept == EthernetSpec => []DatagramsKept
<1>1. EthernetInit => Returns
  BY DEF EthernetInit, NoRet, Returns, OwnConnection, AnswerIsOurs
<1>2. EthernetInv /\ Returns /\ [EthernetNext]_vars => Returns'
  BY NextReturns
<1>3. EthernetInv /\ Returns => DatagramsKept
  BY DEF EthernetInv, Frames, Framed, Returns, FrameKept, DatagramsKept
<1> QED
  BY <1>1, <1>2, <1>3, EthernetInvariant, PTL DEF EthernetSpec

------------------------------------------------------------------------------
(* The DHCP client.                                                        *)

(***************************************************************************)
(* LeaseFromServer is not inductive: ReceiveAck takes the address of any   *)
(* ACK in flight.  NetInv says why that is the right one: within a call    *)
(* the server identifier is set once, so every request that a server can   *)
(* answer names that server, and every ACK in flight is from it.  A new    *)
(* call starts with nothing in flight.                                     *)
(***************************************************************************)
MessageInv(m) ==
    /\ m.type \in {"OFFER", "ACK", "NAK"} => m.server \in Servers
    /\ m.type = "ACK" => m.server \in granted /\ m.server = _dhcpDhcpServerIp
    /\ m.type = "REQUEST" => m.server \in {_dhcpDhcpServerIp, None}

NetInv == \A m \in net : MessageInv(m)

ClientInv ==
    /\ _dhcp_state = "LEASED" =>
           /\ pc = "sketch"
           /\ _dhcpLocalIp = _dhcpDhcpServerIp /\ _dhcpLocalIp \in granted
           /\ chipIp = _dhcpLocalIp
    /\ chipIp \in granted \cup {None}

DhcpInv == NetInv /\ ClientInv

(* What is in flight stays right when the server identifier is taken and   *)
(* the request for it goes out.                                            *)
LEMMA SentIsRight ==
    ASSUME NetInv, NEW type \in {"DISCOVER", "REQUEST"}, NEW id, Send(type, id),
           granted' = granted,
           _dhcpDhcpServerIp' = _dhcpDhcpServerIp \/ _dhcpDhcpServerIp = None
    PROVE  NetInv'
<1>1. PICK new : /\ net' = net \cup {new}
                 /\ new.type = type
                 /\ new.server = IF type = "REQUEST" THEN _dhcpDhcpServerIp' ELSE None
  <2>1. PICK server, ip :
            /\ net' = net \cup {[type |-> type, xid |-> id, server |-> server, ip |-> ip]}
            /\ server = IF type = "REQUEST" THEN _dhcpDhcpServerIp' ELSE None
    BY Zenon DEF Send
  <2> WITNESS [type |-> type, xid |-> id, server |-> server, ip |-> ip]
  <2> QED
    BY <2>1
<1>2. \A m \in net : MessageInv(m)'
  BY DhcpAssumption DEF DhcpAssumption, NetInv, MessageInv
<1>3. MessageInv(new)'
  BY <1>1 DEF MessageInv
<1> QED
  BY <1>1, <1>2, <1>3 DEF NetInv

(* A reply is from the server that was asked.                              *)
LEMMA ReplyIsRight ==
    ASSUME NetInv, NEW s \in Servers, NEW type \in {"OFFER", "ACK", "NAK"}, NEW id,
           Reply(s, type, id), granted \subseteq granted',
           type = "ACK" => s \in granted' /\ s = _dhcpDhcpServerIp
    PROVE  NetInv'
<1> DEFINE new == [type |-> type, xid |-> id, server |-> s]
<1>1. net' = net \cup {new} /\ UNCHANGED _dhcpDhcpServerIp
  BY DEF Reply, requestVars
<1>2. \A m \in net : MessageInv(m)'
  BY <1>1 DEF NetInv, MessageInv
<1>3. MessageInv(new)'
  BY <1>1 DEF MessageInv
<1> QED
  BY <1>1, <1>2, <1>3 DEF NetInv

(* Looking into a reply takes the server identifier at most once.          *)
LEMMA ParsedOnce ==
    ASSUME NEW m, parseDHCPResponse(m)
    PROVE  _dhcpDhcpServerIp' = _dhcpDhcpServerIp \/ _dhcpDhcpServerIp = None
BY DEF parseDHCPResponse

LEMMA DhcpStep == DhcpInv /\ [DhcpNext]_dhcpVars => DhcpInv'
<1> SUFFICES ASSUME DhcpInv, [DhcpNext]_dhcpVars
             PROVE  DhcpInv'
  OBVIOUS
<1> USE DEF DhcpInv, ClientInv, requestVars, worldVars
<1>1. ASSUME net' = {} PROVE NetInv'
  BY <1>1 DEF NetInv
<1>2. ASSUME UNCHANGED <<net, granted>>,
             _dhcpDhcpServerIp' = _dhcpDhcpServerIp \/ _dhcpDhcpServerIp = None
      PROVE  NetInv'
  BY <1>2, DhcpAssumption DEF DhcpAssumption, NetInv, MessageInv
<1>3. CASE begin \/ Renew \/ Rebind
  BY <1>1, <1>3 DEF begin, Renew, Rebind, Request
<1>4. CASE SendDiscover \/ SendRerequest
  <2>1. NetInv'
    BY <1>4, SentIsRight DEF SendDiscover, SendRerequest
  <2> QED
    BY <1>4, <2>1 DEF SendDiscover, SendRerequest
<1>5. CASE \E s \in Servers : ReceiveOffer(s)
  <2>1. PICK m \in net : parseDHCPResponse(m) /\ Send("REQUEST", m.xid)
    BY <1>5 DEF ReceiveOffer
  <2>2. NetInv'
    BY <1>5, <2>1, ParsedOnce, SentIsRight DEF ReceiveOffer
  <2> QED
    BY <1>5, <2>2 DEF ReceiveOffer
<1>6. CASE \E s \in Servers : ReceiveAck(s)
  <2>1. PICK m \in net : m.type = "ACK" /\ parseDHCPResponse(m)
    BY <1>6 DEF ReceiveAck
  <2>2. m.server \in granted /\ m.server = _dhcpDhcpServerIp /\ m.server \in Servers
    BY <2>1 DEF NetInv, MessageInv
  <2>3. _dhcpLocalIp' = m.server /\ _dhcpDhcpServerIp' = m.server
    BY <2>1, <2>2 DEF parseDHCPResponse, YourIp
  <2> QED
    BY <1>1, <1>6, <2>2, <2>3 DEF ReceiveAck, Leave, SetAddress
<1>7. CASE \E s \in Servers : ReceiveNak(s)
  <2>1. PICK m \in net : parseDHCPResponse(m)
    BY <1>7 DEF ReceiveNak
  <2> QED
    BY <1>2, <1>7, <2>1, ParsedOnce DEF ReceiveNak
<1>8. CASE ReceiveOther
  <2>1. PICK m \in net : parseDHCPResponse(m)
    BY <1>8 DEF ReceiveOther
  <2> QED
    BY <1>2, <1>8, <2>1, ParsedOnce DEF ReceiveOther, Waiting
<1>9. CASE ResponseTimeout
  BY <1>2, <1>9 DEF ResponseTimeout, AfterTimeout
<1>10. CASE GiveUp
  BY <1>1, <1>10 DEF GiveUp, Leave, SetAddress, Waiting
<1>11. CASE \E s \in Servers : Offer(s) \/ Ack(s) \/ Nak(s)
  <2>1. PICK s \in Servers : Offer(s) \/ Ack(s) \/ Nak(s)
    BY <1>11
  <2>2. granted \subseteq granted'
        /\ UNCHANGED <<pc, _dhcp_state, _dhcpLocalIp, _dhcpDhcpServerIp, chipIp>>
    BY <2>1 DEF Offer, Ack, Nak, Reply
  <2>3. CASE Offer(s)
    BY <2>2, <2>3, ReplyIsRight DEF Offer
  <2>4. CASE Nak(s)
    BY <2>2, <2>4, ReplyIsRight DEF Nak
  <2>5. CASE Ack(s)
    <3>1. PICK m \in net : m.type = "REQUEST" /\ m.server = s /\ Reply(s, "ACK", m.xid)
      BY <2>5 DEF Ack
    <3>2. s \in granted' /\ s = _dhcpDhcpServerIp
      BY <2>5, <3>1, DhcpAssumption DEF DhcpAssumption, Ack, NetInv, MessageInv
    <3> QED
      BY <2>2, <3>1, <3>2, ReplyIsRight
  <2> QED
    BY <2>1, <2>3, <2>4, <2>5
<1>12. CASE Lose \/ Die
  <2>1. NetInv'
    BY <1>12 DEF Lose, Die, NetInv, MessageInv
  <2> QED
    BY <1>12, <2>1 DEF Lose, Die
<1>13. CASE UNCHANGED dhcpVars
  BY <1>2, <1>13 DEF dhcpVars
<1> QED
  BY <1>3, <1>4, <1>5, <1>6, <1>7, <1>8, <1>9, <1>10, <1>11, <1>12, <1>13 DEF DhcpNext, Client

(* The lease is from the server that renewal will ask, and the chip uses   *)
(* no address that was not granted, for every set of servers, whatever the *)
(* network loses, repeats, delays and reorders.                            *)
THEOREM LeaseIsOwn == DhcpSpec => []LeaseFromServer
<1>1. DhcpInit => DhcpInv
  BY DEF DhcpInit, DhcpInv, NetInv, ClientInv
<1>2. DhcpInv => LeaseFromServer
  BY DEF DhcpInv, ClientInv, LeaseFromServer
<1> QED
  BY <1>1, <1>2, DhcpStep, PTL DEF DhcpSpec
==============================================================================
