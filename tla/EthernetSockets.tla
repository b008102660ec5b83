-------------------------- MODULE EthernetSockets --------------------------
(***************************************************************************)
(* EthernetClient, EthernetServer, EthernetUDP and DNSClient over the      *)
(* sockets of a W5100, whose state changes by itself between two accesses. *)
(*                                                                         *)
(* The library keeps a socket number per object (_sock), one server port   *)
(* per socket and what is left of a datagram; all else is in the chip.     *)
(* Whatever finds a socket free takes it, so an object may hold the number *)
(* of a socket that by now belongs to another.  To tell whose a socket is, *)
(* every connection and every opened UDP socket gets a number, its use.    *)
(*                                                                         *)
(* A call that does not wait is one step: the chip changes one socket at a *)
(* time, and what it does between the looks at two sockets it might as     *)
(* well have done before or after the call.  A call that waits, or looks   *)
(* at a socket twice, is one step for each.  The sketch does not call      *)
(* read(), peek() or parsePacket() on an object that holds no socket,      *)
(* which would address a fifth socket of the chip.                         *)
(***************************************************************************)
EXTENDS Integers, Sequences, FiniteSetsExt

CONSTANTS
    MAX_SOCK_NUM,
    Clients,        \* the client objects that call connect()
    Guest,          \* the client object that server.available() is assigned to
    Udps,           \* the sketch's UDP objects
    Dns,            \* iUdp of the DNSClient
    Sketches,       \* bound: the parts of the library that one sketch uses
    MaxUses,        \* bound: connections and opened UDP sockets
    MaxBytes,       \* bound: unread bytes of a TCP socket
    MaxRx,          \* bound: unread units of a UDP socket (bytes and headers)
    MaxCalls        \* bound: calls of the sketch

ASSUME EthernetAssumption ==
    /\ MAX_SOCK_NUM \in Nat \ {0}
    /\ MaxBytes \in Nat
    /\ Guest \notin Clients /\ Dns \notin Udps /\ (Clients \cup {Guest}) \cap (Udps \cup {Dns}) = {}

VARIABLES
    sketch,         \* one of Sketches
    chip,           \* per socket: SnSR, the use it is for, RX memory, SnIR, and TX memory (see Room)
    _server_port,   \* EthernetClass::_server_port[s] is the port of the server
    _sock,          \* per object
    _remaining,     \* per UDP object
    call,           \* the call at work
    calls, uses, queries,   \* counters; the last query's number is iRequestId
    ended,          \* history: the uses one of the two sides has ended
    mine,           \* history: the use an object got its socket for
    crossed,        \* history: a call went to a socket that was somebody else's by then
    ret             \* history: what the last read, write or query dealt with

vars == <<sketch, ended, chip, _server_port, _sock, _remaining, call, calls, uses, queries, mine, crossed, ret>>
ownVars == <<sketch, ended, _server_port, _sock, _remaining, mine>>

Sockets == 0 .. MAX_SOCK_NUM - 1
UdpObjects == Udps \cup {Dns}
Objects == Clients \cup {Guest} \cup UdpObjects

\* What send() sees of a socket's TX memory: there is room, a SEND is at work,
\* or the peer takes nothing and there is too little room for what comes next.
Room == {"room", "sending", "full"}

NoCall == [op |-> "idle", h |-> Guest, s |-> 0, next |-> "idle", listening |-> FALSE, n |-> 0]
NoRet == [own |-> 0, of |-> {}, asked |-> 0, addr |-> 0]
Chance == -1    \* as an address: what nobody answered

\* A byte of a TCP stream is a unit of its use.  A datagram is a header unit,
\* n = 0, and data units.  One of the DNS server answers query q, or fails
\* it or is shorter than its header if q = 0; one data unit is the header of
\* the answer alone, cut off before its records, two are all of it.
Byte(use) == [of |-> use, n |-> 1, len |-> 1, from |-> "peer", q |-> 0]
Datagram(use, len, from, q) == [i \in 1 .. len + 1 |-> [of |-> use, n |-> i - 1, len |-> len, from |-> from, q |-> q]]

EthernetInit ==
    /\ sketch \in Sketches
    /\ chip = [s \in Sockets |-> [st |-> "CLOSED", use |-> 0, rx |-> <<>>, ir |-> {}, tx |-> "room"]]
    /\ _server_port = [s \in Sockets |-> FALSE]
    /\ _sock = [h \in Objects |-> MAX_SOCK_NUM]
    /\ _remaining = [u \in UdpObjects |-> 0]
    /\ call = NoCall /\ calls = 0 /\ uses = 0 /\ queries = 0
    /\ mine = [h \in Objects |-> 0] /\ crossed = FALSE /\ ret = NoRet /\ ended = {}

St(s) == chip[s].st

------------------------------------------------------------------------------
\* Forms an error could give the operators below; no action uses them.
TakeWhatIsNotListening == {s \in Sockets : St(s) # "LISTEN"}
KeepRemaining(u) == UNCHANGED _remaining
AnyAnswer(d) == d.from = "dns" /\ d.q # 0
NeverForced == FALSE
ForgetSocket(u, c) ==
    /\ chip' = c
    /\ _server_port' = [_server_port EXCEPT ![_sock[u]] = FALSE]
    /\ _sock' = [_sock EXCEPT ![u] = MAX_SOCK_NUM]
    /\ ended' = ended \cup {chip[_sock[u]].use}

------------------------------------------------------------------------------
\* The functions of socket.cpp, on a chip c.
close(c, s) == [c EXCEPT ![s].st = "CLOSED", ![s].ir = {}, ![s].tx = "room"]

socket(c, s, st, use) == [c EXCEPT ![s] = [st |-> st, use |-> use, rx |-> <<>>, ir |-> {}, tx |-> "room"]]

\* listen() wants INIT, which socket() has just brought about
listen(c, s) == [c EXCEPT ![s].st = IF @ = "INIT" THEN "LISTEN" ELSE @]

disconnect(c, s) ==
    [c EXCEPT ![s].st = CASE @ = "ESTABLISHED" -> "FIN_WAIT" [] @ = "CLOSE_WAIT" -> "LAST_ACK" [] OTHER -> @]

recv(c, s, n) == [c EXCEPT ![s].rx = SubSeq(@, n + 1, Len(@))]

First(S) == Min(S)
Via(h) == crossed' = (crossed \/ chip[_sock[h]].use # mine[h])

Enter(op, h, s) ==
    /\ call.op = "idle" /\ calls < MaxCalls /\ calls' = calls + 1
    /\ call' = [NoCall EXCEPT !.op = op, !.h = h, !.s = s]

Return == call' = [NoCall EXCEPT !.op = call.next, !.s = call.s, !.next = "idle"]

------------------------------------------------------------------------------
\* EthernetClient
ConnectTakes == {s \in Sockets : St(s) \in {"CLOSED", "FIN_WAIT", "CLOSE_WAIT"}}

\* an address or port of zeros makes ::connect() fail: the object lets go of a
\* socket that it has opened
connect(c) ==
    /\ _sock[c] = MAX_SOCK_NUM /\ ConnectTakes # {} /\ uses < MaxUses
    /\ uses' = uses + 1
    /\ LET s == First(ConnectTakes)
       IN \/ /\ Enter("connect", c, s)
             /\ chip' = socket(chip, s, "SYNSENT", uses + 1)
             /\ _sock' = [_sock EXCEPT ![c] = s] /\ mine' = [mine EXCEPT ![c] = uses + 1]
          \/ /\ Enter("idle", c, s)
             /\ chip' = socket(chip, s, "INIT", uses + 1)
             /\ UNCHANGED <<_sock, mine>>
    /\ ret' = NoRet /\ UNCHANGED <<sketch, ended, _server_port, _remaining, queries, crossed>>

Connected ==
    /\ call.op = "connect" /\ St(call.s) \in {"ESTABLISHED", "CLOSED"}
    /\ _sock' = [_sock EXCEPT ![call.h] = IF St(call.s) = "CLOSED" THEN MAX_SOCK_NUM ELSE @]
    /\ Return
    /\ ret' = NoRet /\ UNCHANGED <<sketch, ended, chip, _server_port, _remaining, calls, uses, queries, mine, crossed>>

write(c) ==
    /\ _sock[c] # MAX_SOCK_NUM /\ Enter("send", c, _sock[c]) /\ Via(c)
    /\ ret' = NoRet /\ UNCHANGED <<chip, ownVars, uses, queries>>

\* send() waits for room as long as there is a connection; SEND is given in any
\* case, and the chip acts on it if there is somebody to send to
IsUp(s) == St(s) \in {"ESTABLISHED", "CLOSE_WAIT"}
NoRoom == call.op = "send" /\ IsUp(call.s) /\ chip[call.s].tx = "full"

SendStart ==
    /\ call.op = "send" /\ ~NoRoom
    /\ chip' = [chip EXCEPT ![call.s].tx = IF IsUp(call.s) \/ St(call.s) = "UDP" THEN "sending" ELSE "room"]
    /\ call' = [call EXCEPT !.op = "sending", !.n = IF IsUp(call.s) THEN 1 ELSE 0]
    /\ ret' = NoRet /\ UNCHANGED <<ownVars, calls, uses, queries, crossed>>

SendEnd ==
    /\ call.op = "sending"
    /\ \/ "SEND_OK" \in chip[call.s].ir /\ chip' = [chip EXCEPT ![call.s].ir = @ \ {"SEND_OK"}]
       \/ "SEND_OK" \notin chip[call.s].ir /\ St(call.s) = "CLOSED" /\ chip' = close(chip, call.s)
    /\ ret' = IF call.n > 0 /\ "SEND_OK" \in chip[call.s].ir /\ call.next = "idle"
              THEN [NoRet EXCEPT !.own = mine[call.h], !.of = {chip[call.s].use}] ELSE NoRet
    /\ Return
    /\ UNCHANGED <<ownVars, calls, uses, queries, crossed>>

\* read(), read(buf, n), and available() and peek() as far as they see what read() takes
read(c, n) ==
    /\ _sock[c] # MAX_SOCK_NUM /\ Enter("idle", c, 0) /\ Via(c)
    /\ LET s == _sock[c]
           got == Min({n, Len(chip[s].rx)})
       IN /\ chip' = recv(chip, s, got)
          /\ ret' = [NoRet EXCEPT !.own = mine[c], !.of = {chip[s].rx[i].of : i \in 1 .. got}]
    /\ UNCHANGED <<ownVars, uses, queries>>

stop(c) ==
    /\ _sock[c] # MAX_SOCK_NUM /\ Enter("stop", c, _sock[c]) /\ Via(c)
    /\ chip' = disconnect(chip, _sock[c]) /\ ended' = ended \cup {chip[_sock[c]].use}
    /\ ret' = NoRet /\ UNCHANGED <<sketch, _server_port, _sock, _remaining, mine, uses, queries>>

\* the second that stop() waits for the connection to close may be over
Forced == TRUE

StopEnd ==
    /\ call.op \in {"stop", "acceptStop"} /\ (St(call.s) = "CLOSED" \/ Forced)
    /\ chip' = IF St(call.s) = "CLOSED" THEN chip ELSE close(chip, call.s)
    /\ _server_port' = [_server_port EXCEPT ![call.s] = FALSE]
    /\ IF call.op = "stop"
       THEN Return /\ _sock' = [_sock EXCEPT ![call.h] = MAX_SOCK_NUM]
       ELSE call' = [call EXCEPT !.op = "accept", !.s = @ + 1] /\ UNCHANGED _sock
    /\ ret' = NoRet /\ UNCHANGED <<sketch, ended, _remaining, calls, uses, queries, mine, crossed>>

------------------------------------------------------------------------------
\* EthernetServer.  The chip gives the connection its use when a peer calls.
Begin ==
    LET free == {s \in Sockets : St(s) = "CLOSED"}
        s == First(free)
    IN IF free = {} THEN UNCHANGED <<chip, _server_port>>
       ELSE /\ chip' = listen(socket(chip, s, "INIT", 0), s)
            /\ _server_port' = [_server_port EXCEPT ![s] = TRUE]

serverBegin ==
    /\ Enter("idle", Guest, 0) /\ Begin
    /\ ret' = NoRet /\ UNCHANGED <<sketch, ended, _sock, _remaining, uses, queries, mine, crossed>>

\* available() and write() both begin with accept()
serverCall(next) ==
    /\ call.op = "idle" /\ calls < MaxCalls /\ calls' = calls + 1
    /\ call' = [NoCall EXCEPT !.op = "accept", !.next = next]
    /\ ret' = NoRet /\ UNCHANGED <<chip, ownVars, uses, queries, crossed>>

AcceptSocket ==
    LET s == call.s
    IN /\ call.op = "accept" /\ s < MAX_SOCK_NUM
       /\ IF _server_port[s] /\ St(s) = "CLOSE_WAIT" /\ chip[s].rx = <<>>
          THEN chip' = disconnect(chip, s) /\ call' = [call EXCEPT !.op = "acceptStop"]
          ELSE /\ call' = [call EXCEPT !.s = @ + 1, !.listening = @ \/ (_server_port[s] /\ St(s) = "LISTEN")]
               /\ UNCHANGED chip
       /\ ret' = NoRet /\ UNCHANGED <<ownVars, calls, uses, queries, crossed>>

AcceptEnd ==
    /\ call.op = "accept" /\ call.s = MAX_SOCK_NUM
    /\ IF call.listening THEN UNCHANGED <<chip, _server_port>> ELSE Begin
    /\ call' = [NoCall EXCEPT !.op = call.next]
    /\ ret' = NoRet /\ UNCHANGED <<sketch, ended, _sock, _remaining, calls, uses, queries, mine, crossed>>

available ==
    LET ready == {s \in Sockets : /\ _server_port[s] /\ St(s) \in {"ESTABLISHED", "CLOSE_WAIT"}
                                  /\ chip[s].rx # <<>>}
        s == First(ready)
    IN /\ call.op = "available"
       /\ _sock' = [_sock EXCEPT ![Guest] = IF ready = {} THEN MAX_SOCK_NUM ELSE s]
       /\ mine' = [mine EXCEPT ![Guest] = IF ready = {} THEN 0 ELSE chip[s].use]
       /\ call' = NoCall
       /\ ret' = NoRet /\ UNCHANGED <<sketch, ended, chip, _server_port, _remaining, calls, uses, queries, crossed>>

serverWrite ==
    LET s == call.s
    IN /\ call.op = "serverWrite"
       /\ call' = CASE s = MAX_SOCK_NUM -> NoCall
                    [] s < MAX_SOCK_NUM /\ _server_port[s] /\ St(s) = "ESTABLISHED" ->
                          [NoCall EXCEPT !.op = "send", !.s = s, !.next = "serverSent"]
                    [] OTHER -> [call EXCEPT !.s = @ + 1]
       /\ ret' = NoRet /\ UNCHANGED <<chip, ownVars, calls, uses, queries, crossed>>

serverSent ==
    /\ call.op = "serverSent" /\ call' = [call EXCEPT !.op = "serverWrite", !.s = @ + 1]
    /\ ret' = NoRet /\ UNCHANGED <<chip, ownVars, calls, uses, queries, crossed>>

------------------------------------------------------------------------------
\* EthernetUDP
UdpTakes == {s \in Sockets : St(s) \in {"CLOSED", "FIN_WAIT"}}

ResetRemaining(u) == _remaining' = [_remaining EXCEPT ![u] = 0]

\* begin() and beginMulticast(), which opens the socket in another mode
UdpOpen(u) ==
    /\ _sock[u] = MAX_SOCK_NUM /\ UdpTakes # {} /\ uses < MaxUses /\ uses' = uses + 1
    /\ chip' = socket(chip, First(UdpTakes), "UDP", uses + 1)
    /\ _sock' = [_sock EXCEPT ![u] = First(UdpTakes)] /\ mine' = [mine EXCEPT ![u] = uses + 1]
    /\ ResetRemaining(u) /\ UNCHANGED _server_port

udpBegin(u) == Enter("idle", u, 0) /\ UdpOpen(u) /\ ret' = NoRet /\ UNCHANGED <<sketch, ended, queries, crossed>>

\* stop() on a chip c
UdpClose(u, c) ==
    /\ chip' = close(c, _sock[u])
    /\ _server_port' = [_server_port EXCEPT ![_sock[u]] = FALSE]
    /\ _sock' = [_sock EXCEPT ![u] = MAX_SOCK_NUM]
    /\ ended' = ended \cup {chip[_sock[u]].use}

udpStop(u) ==
    /\ _sock[u] # MAX_SOCK_NUM /\ Enter("idle", u, 0) /\ Via(u) /\ UdpClose(u, chip)
    /\ ret' = NoRet /\ UNCHANGED <<sketch, _remaining, uses, queries, mine>>

\* beginPacket(), write() and endPacket()
sendPacket(u) ==
    /\ _sock[u] # MAX_SOCK_NUM /\ Enter("packet", u, _sock[u]) /\ Via(u)
    /\ chip' = [chip EXCEPT ![_sock[u]].tx = IF St(_sock[u]) = "UDP" THEN "sending" ELSE @]
    /\ ret' = NoRet /\ UNCHANGED <<ownVars, uses, queries>>

PacketSent ==
    /\ call.op = "packet" /\ chip[call.s].ir # {}
    /\ chip' = [chip EXCEPT ![call.s].ir = {}] /\ Return
    /\ ret' = NoRet /\ UNCHANGED <<ownVars, calls, uses, queries, crossed>>

\* parsePacket(): what is left is read away, and if there are not that many
\* bytes the call goes on asking for them
Discard(rx, u) == SubSeq(rx, _remaining[u] + 1, Len(rx))

parsePacket(u) ==
    /\ _sock[u] # MAX_SOCK_NUM /\ Enter("parse", u, _sock[u]) /\ Via(u)
    /\ ret' = NoRet /\ UNCHANGED <<chip, ownVars, uses, queries>>

Parse ==
    LET rx == Discard(chip[call.s].rx, call.h)
    IN /\ call.op = "parse" /\ Len(chip[call.s].rx) >= _remaining[call.h]
       /\ chip' = [chip EXCEPT ![call.s].rx = IF rx = <<>> THEN rx ELSE Tail(rx)]
       /\ _remaining' = [_remaining EXCEPT ![call.h] = IF rx = <<>> THEN 0 ELSE Head(rx).len]
       /\ Return
       /\ ret' = NoRet /\ UNCHANGED <<sketch, ended, _server_port, _sock, calls, uses, queries, mine, crossed>>

\* read() is read(buf, 1)
udpRead(u, n) ==
    /\ _sock[u] # MAX_SOCK_NUM /\ _remaining[u] > 0 /\ Enter("idle", u, 0) /\ Via(u)
    /\ LET s == _sock[u]
           got == Min({n, _remaining[u], Len(chip[s].rx)})
       IN /\ chip' = recv(chip, s, got)
          /\ _remaining' = [_remaining EXCEPT ![u] = @ - got]
          /\ ret' = [NoRet EXCEPT !.own = mine[u], !.of = {chip[s].rx[i].of : i \in 1 .. got}]
    /\ UNCHANGED <<sketch, ended, _server_port, _sock, mine, uses, queries>>

------------------------------------------------------------------------------
\* DNSClient: getHostByName() of a name that is no number, up to the request
getHostByName ==
    /\ Enter("query", Dns, 0) /\ UdpOpen(Dns) /\ queries' = queries + 1
    /\ ret' = NoRet /\ UNCHANGED <<sketch, ended, crossed>>

\* BuildRequest() and endPacket(); a packet that times out ends the call
Query ==
    /\ call.op = "query"
    /\ chip' = [chip EXCEPT ![_sock[Dns]].tx = "sending"]
    /\ call' = [call EXCEPT !.op = "querying"]
    /\ ret' = NoRet /\ UNCHANGED <<ownVars, calls, uses, queries, crossed>>

Queried ==
    /\ call.op = "querying" /\ chip[_sock[Dns]].ir # {}
    /\ \/ /\ "SEND_OK" \in chip[_sock[Dns]].ir
          /\ chip' = [chip EXCEPT ![_sock[Dns]].ir = {}]
          /\ call' = [call EXCEPT !.op = "answer"]
          /\ UNCHANGED <<ended, _server_port, _sock>>
       \/ /\ "SEND_OK" \notin chip[_sock[Dns]].ir
          /\ UdpClose(Dns, chip) /\ Return
    /\ ret' = NoRet /\ UNCHANGED <<sketch, _remaining, mine, calls, uses, queries, crossed>>

\* ProcessResponse() of a datagram up to its records: from the server, of this
\* query, free of errors
Accepted(d) == d.from = "dns" /\ d.q = queries
Cut(d) == d.len = 1

\* It may hold no address.  What is read of records that are not there is left
\* over from before, and may pass for none or for an address as well.
Outcomes(d) ==
    {NoRet} \cup IF Accepted(d) THEN {[NoRet EXCEPT !.asked = queries, !.addr = IF Cut(d) THEN Chance ELSE d.q]} ELSE {}

\* Any answer but none at all ends the wait, the first datagram whatever it is.
Answer ==
    LET d == Head(chip[_sock[Dns]].rx)
    IN /\ call.op = "answer" /\ chip[_sock[Dns]].rx # <<>>
       /\ ret' \in Outcomes(d)
       /\ _remaining' = [_remaining EXCEPT ![Dns] = IF Accepted(d) THEN 0 ELSE d.len]
       /\ UdpClose(Dns, chip) /\ Return
       /\ UNCHANGED <<sketch, mine, calls, uses, queries, crossed>>

\* Or the skipping of a name that is not there never meets the byte 0 it ends
\* with: while(len--) leaves 255, and nothing is left to read that changes it.
Skip ==
    LET s == _sock[Dns]
        rx == chip[s].rx
    IN /\ call.op = "answer" /\ Len(rx) > 1 /\ Accepted(Head(rx)) /\ Cut(Head(rx))
       /\ chip' = recv(chip, s, 2)
       /\ _remaining' = [_remaining EXCEPT ![Dns] = 0]
       /\ call' = [call EXCEPT !.op = "skip"]
       /\ ret' = NoRet /\ UNCHANGED <<sketch, ended, _server_port, _sock, mine, calls, uses, queries, crossed>>

\* three waits of five seconds
NoAnswer ==
    /\ call.op = "answer" /\ chip[_sock[Dns]].rx = <<>>
    /\ IF call.n < 2
       THEN call' = [call EXCEPT !.n = @ + 1] /\ UNCHANGED <<chip, ended, _server_port, _sock>>
       ELSE UdpClose(Dns, chip) /\ Return
    /\ ret' = NoRet /\ UNCHANGED <<sketch, _remaining, mine, calls, uses, queries, crossed>>

------------------------------------------------------------------------------
\* The chip and the network
ChipStep(s, c) ==
    /\ chip' = c /\ ret' = NoRet
    /\ ended' = ended \cup IF c[s].st \in {"CLOSED", "CLOSE_WAIT"} THEN {c[s].use} ELSE {}
    /\ UNCHANGED <<sketch, _server_port, _sock, _remaining, mine, call, calls, queries, crossed>>

PeerConnects(s) ==
    /\ St(s) = "LISTEN" /\ uses < MaxUses /\ uses' = uses + 1
    /\ ChipStep(s, [chip EXCEPT ![s].st = "ESTABLISHED", ![s].use = uses + 1])

\* a connection is made, refused or gets no answer
Handshake(s) ==
    /\ St(s) = "SYNSENT" /\ UNCHANGED uses
    /\ \E st \in {"ESTABLISHED", "CLOSED"} : ChipStep(s, [chip EXCEPT ![s].st = st])

PeerSends(s) ==
    /\ St(s) = "ESTABLISHED" /\ Len(chip[s].rx) < MaxBytes /\ UNCHANGED uses
    /\ ChipStep(s, [chip EXCEPT ![s].rx = Append(@, Byte(chip[s].use))])

PeerCloses(s) ==
    /\ St(s) \in {"ESTABLISHED", "FIN_WAIT"} /\ UNCHANGED uses
    /\ ChipStep(s, [chip EXCEPT ![s].st = IF @ = "ESTABLISHED" THEN "CLOSE_WAIT" ELSE "CLOSED"])

\* a reset by the peer, a retransmission given up, or the last ACK
Ends(s) ==
    /\ St(s) \in {"ESTABLISHED", "FIN_WAIT", "CLOSE_WAIT", "LAST_ACK"} /\ UNCHANGED uses
    /\ ChipStep(s, [chip EXCEPT ![s].st = "CLOSED", ![s].tx = "room"])

\* what is sent leaves room for more, or none in a connection whose peer takes
\* nothing for the time being
Sent(s) ==
    /\ chip[s].tx = "sending" /\ UNCHANGED uses
    /\ \E ir \in {"SEND_OK"} \cup IF St(s) = "UDP" THEN {"TIMEOUT"} ELSE {},
          tx \in {"room"} \cup IF IsUp(s) THEN {"full"} ELSE {} :
          ChipStep(s, [chip EXCEPT ![s].tx = tx, ![s].ir = @ \cup {ir}])

\* the peer's window opens again, or never does: this step is not fair
PeerTakes(s) ==
    /\ chip[s].tx = "full" /\ UNCHANGED uses
    /\ ChipStep(s, [chip EXCEPT ![s].tx = "room"])

\* answers of the DNS server to any query so far, late or not, and anything else
DatagramArrives(s) ==
    /\ St(s) = "UDP" /\ UNCHANGED uses
    /\ \E len \in 1 .. 2, from \in {"peer", "dns"}, q \in 0 .. queries :
          /\ from = "peer" => q = 0
          /\ from = "dns" => call.op \in {"answer", "querying"} /\ s = _sock[Dns]
          /\ Len(chip[s].rx) + len < MaxRx
          /\ ChipStep(s, [chip EXCEPT ![s].rx = @ \o Datagram(chip[s].use, len, from, q)])

Sketch ==
    \/ "client" \in sketch /\ \E c \in Clients : connect(c) \/ write(c) \/ stop(c) \/ \E n \in 1 .. MaxBytes : read(c, n)
    \/ "server" \in sketch /\ (serverBegin \/ write(Guest) \/ stop(Guest) \/ \E n \in 1 .. MaxBytes : read(Guest, n))
    \/ "server" \in sketch /\ \E next \in {"available", "serverWrite"} : serverCall(next)
    \/ "udp" \in sketch /\ \E u \in Udps : udpBegin(u) \/ udpStop(u) \/ sendPacket(u) \/ parsePacket(u)
    \/ "udp" \in sketch /\ \E u \in Udps, n \in 1 .. 2 : udpRead(u, n)
    \/ "dns" \in sketch /\ getHostByName

Library ==
    \/ Connected \/ SendStart \/ SendEnd \/ StopEnd
    \/ AcceptSocket \/ AcceptEnd \/ available \/ serverWrite \/ serverSent
    \/ PacketSent \/ Parse \/ Query \/ Queried \/ Answer \/ Skip \/ NoAnswer

Network == \E s \in Sockets :
    PeerConnects(s) \/ Handshake(s) \/ PeerSends(s) \/ PeerCloses(s) \/ Ends(s)
    \/ Sent(s) \/ PeerTakes(s) \/ DatagramArrives(s)

EthernetNext == Sketch \/ Library \/ Network

EthernetSpec == EthernetInit /\ [][EthernetNext]_vars

\* The main line goes on; the chip gives up a handshake and a SEND in the end.
EthernetFairSpec ==
    /\ EthernetSpec /\ WF_vars(Library)
    /\ \A s \in Sockets : WF_vars(Handshake(s)) /\ WF_vars(Sent(s))

------------------------------------------------------------------------------
\* Bytes are read from, and written to, the connection or UDP socket the object
\* got its socket for, unless that one is over: nothing takes the socket of a
\* connection that goes on, although connect(), begin() and accept() look at
\* the state of the chip only and not at who holds the number.
OwnConnection == ret.of \subseteq {ret.own} \/ ret.own \in ended

\* No socket is lost: one that is not closed is held by an object or is the
\* server's, which frees it when its peer has gone.  The chip has four, nothing
\* else gives one back, and connect(), getHostByName() and stop() have many ends.
\* Except that connect() to an address or port of zeros leaves its socket in
\* INIT, where nothing ever finds it.
NoSocketLost ==
    \A s \in Sockets : St(s) \in {"CLOSED", "INIT"} \/ _server_port[s] \/ \E h \in Objects : _sock[h] = s

\* What is left of the datagram, _remaining, is what the RX memory begins with;
\* else the next parsePacket() takes data for a header.
FrameKept ==
    \A u \in UdpObjects :
        ~crossed /\ _sock[u] # MAX_SOCK_NUM =>
            LET rx == chip[_sock[u]].rx
                left == _remaining[u]
            IN /\ left <= Len(rx)
               /\ \A i \in 1 .. left : rx[i].n = rx[i].len - left + i
               /\ Len(rx) > left => rx[left + 1].n = 0

\* A name is only resolved to what the DNS server answered to this query, not to
\* what comes late for an earlier one or from somebody else.  Except that an
\* answer of its server that is cut off leaves the address to chance.
AnswerIsOurs == ret.addr \in {ret.asked, Chance}

\* UDP hands out datagrams from their first byte on, and DNS its own answer.
DatagramsKept == FrameKept /\ AnswerIsOurs

\* Every call returns: the chip ends each wait or a deadline does.  There are
\* four exceptions.  connect() misses the connection if the peer closes it
\* between two polls.  A call goes to a socket that somebody else has by then.
\* send() waits for room as long as the connection stands and its peer takes
\* nothing.  getHostByName() stays in an answer that is cut off.
Missed == call.op = "connect" /\ St(call.s) = "CLOSE_WAIT"
Skipping == call.op = "skip"
EthernetReturns == (call.op # "idle") ~> (call.op = "idle" \/ Missed \/ crossed \/ NoRoom \/ Skipping)
=============================================================================
