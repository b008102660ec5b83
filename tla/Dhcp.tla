-------------------------------- MODULE Dhcp --------------------------------
(***************************************************************************)
(* request_DHCP_lease() of Dhcp.cpp, and checkLease() and Ethernet.begin() *)
(* and maintain() around it, over a network that loses, duplicates, delays *)
(* and reorders messages, with servers that refuse, fall silent or die.    *)
(*                                                                         *)
(* When a lease is due for renewal or rebinding is the subject of module   *)
(* DhcpLease; here it may be due whenever the sketch calls maintain().     *)
(*                                                                         *)
(* A server has one address for this client, and the address is written as *)
(* the name of the server.  Transaction ids count from the initial id of   *)
(* the call; replies to an earlier call carry ids of another range, and    *)
(* parseDHCPResponse() drops them.                                         *)
(***************************************************************************)
EXTENDS Naturals

CONSTANTS
    Servers,    \* the DHCP servers on the network
    None,       \* the address 0.0.0.0
    Tries,      \* bound: transactions that fit into _timeout (60 s / 4 s in the code)
    LateBreak,  \* TRUE if _timeout may pass while a reply is being handled
    Busy        \* TRUE if all sockets of the chip may be in use

ASSUME DhcpAssumption ==
    /\ None \notin Servers /\ Tries \in Nat \ {0}
    /\ LateBreak \in BOOLEAN /\ Busy \in BOOLEAN

VARIABLES
    pc,                 \* "none" before begin(), "sketch", or "loop" inside a request
    _dhcp_state,
    _dhcpLocalIp, _dhcpDhcpServerIp,
    _dhcpTransactionId, \* counted from _dhcpInitialTransactionId
    tries,              \* transactions of this call that have failed
    chipIp,             \* the address the W5100 uses
    net,                \* messages in flight; reading one leaves a duplicate
    alive,              \* servers still running
    granted             \* history: servers that have sent an ACK

requestVars == <<_dhcpLocalIp, _dhcpDhcpServerIp, _dhcpTransactionId>>
worldVars == <<alive, granted>>
dhcpVars == <<pc, _dhcp_state, requestVars, tries, chipIp, net, worldVars>>

Address == Servers \cup {None}

Message ==
    [type : {"DISCOVER", "REQUEST"}, xid : Nat, server : Address, ip : Address]
        \cup [type : {"OFFER", "ACK", "NAK"}, xid : Nat, server : Servers]

DhcpInit ==
    /\ pc = "none" /\ _dhcp_state = "START"
    /\ _dhcpLocalIp = None /\ _dhcpDhcpServerIp = None /\ _dhcpTransactionId = 0
    /\ tries = 0 /\ chipIp = None
    /\ net = {} /\ alive = Servers /\ granted = {}

------------------------------------------------------------------------------
\* Forms an error could give the operators below; no action uses them.
KeepsServer == _dhcpLocalIp' = None /\ UNCHANGED _dhcpDhcpServerIp
OfferedOnly(m) == IF m.type = "OFFER" THEN m.server ELSE _dhcpLocalIp
AnyResult(rc) == chipIp' = _dhcpLocalIp'

\* reset_DHCP_lease()
reset_DHCP_lease == _dhcpLocalIp' = None /\ _dhcpDhcpServerIp' = None

\* What begin() and maintain() do with the result of a request.
SetAddress(rc) == chipIp' = IF rc = 1 THEN _dhcpLocalIp' ELSE chipIp

(* request_DHCP_lease() up to its loop: without a free socket it returns 0. *)
Request ==
    /\ pc' \in {"loop"} \cup (IF Busy THEN {"sketch"} ELSE {})
    /\ _dhcpTransactionId' = 0 /\ tries' = 0 /\ net' = {}
    /\ UNCHANGED worldVars

\* Ethernet.begin(mac)
begin ==
    /\ pc \in {"none", "sketch"}
    /\ reset_DHCP_lease /\ _dhcp_state' = "START" /\ chipIp' = None
    /\ Request

\* checkLease(), renewal ...
Renew ==
    /\ pc = "sketch" /\ _dhcp_state = "LEASED"
    /\ _dhcp_state' = "REREQUEST"
    /\ Request
    /\ UNCHANGED <<_dhcpLocalIp, _dhcpDhcpServerIp, chipIp>>

\* ... and rebinding: "this should basically restart completely".
Rebind ==
    /\ pc = "sketch" /\ _dhcp_state \in {"LEASED", "START"}
    /\ _dhcp_state' = "START" /\ reset_DHCP_lease
    /\ Request
    /\ UNCHANGED chipIp

\* The request returns; what is still in flight will find no socket open.
Leave(rc) ==
    /\ pc' = "sketch" /\ SetAddress(rc)
    /\ net' = {} /\ _dhcpTransactionId' = 0 /\ tries' = 0

Send(type, id) ==
    net' = net \cup {[type |-> type, xid |-> id,
                      server |-> IF type = "REQUEST" THEN _dhcpDhcpServerIp' ELSE None,
                      ip |-> IF type = "REQUEST" THEN _dhcpLocalIp' ELSE None]}

SendDiscover ==
    /\ pc = "loop" /\ _dhcp_state = "START" /\ tries < Tries
    /\ _dhcpTransactionId' = _dhcpTransactionId + 1
    /\ _dhcp_state' = "DISCOVER"
    /\ UNCHANGED <<pc, _dhcpLocalIp, _dhcpDhcpServerIp, tries, chipIp, worldVars>>
    /\ Send("DISCOVER", _dhcpTransactionId')

SendRerequest ==
    /\ pc = "loop" /\ _dhcp_state = "REREQUEST"
    /\ _dhcpTransactionId' = _dhcpTransactionId + 1
    /\ _dhcp_state' = "REQUEST"
    /\ UNCHANGED <<pc, _dhcpLocalIp, _dhcpDhcpServerIp, tries, chipIp, worldVars>>
    /\ Send("REQUEST", _dhcpTransactionId')

\* The replies of this call that parseDHCPResponse() looks into.
InRange(id) == id \in 0 .. _dhcpTransactionId

\* yiaddr, copied from every reply; a NAK has none.
YourIp(m) == IF m.type = "NAK" THEN None ELSE m.server

\* The server identifier is taken once and then belongs to that server.
parseDHCPResponse(m) ==
    /\ InRange(m.xid)
    /\ _dhcpLocalIp' = YourIp(m)
    /\ _dhcpDhcpServerIp' =
          IF _dhcpDhcpServerIp = None THEN m.server ELSE _dhcpDhcpServerIp

Waiting == pc = "loop" /\ _dhcp_state \in {"DISCOVER", "REQUEST"}

\* An OFFER while one is wanted: the request goes out under the id of the offer.
ReceiveOffer(s) ==
    /\ Waiting /\ _dhcp_state = "DISCOVER"
    /\ \E m \in net :
          /\ m.type = "OFFER" /\ m.server = s
          /\ parseDHCPResponse(m)
          /\ _dhcpTransactionId' = m.xid
          /\ Send("REQUEST", m.xid)
    /\ _dhcp_state' = "REQUEST"
    /\ UNCHANGED <<pc, tries, chipIp, worldVars>>

ReceiveAck(s) ==
    /\ Waiting /\ _dhcp_state = "REQUEST"
    /\ \E m \in net : m.type = "ACK" /\ m.server = s /\ parseDHCPResponse(m)
    /\ _dhcp_state' = "LEASED"
    /\ Leave(1)
    /\ UNCHANGED worldVars

ReceiveNak(s) ==
    /\ Waiting /\ _dhcp_state = "REQUEST"
    /\ \E m \in net : m.type = "NAK" /\ m.server = s /\ parseDHCPResponse(m)
    /\ _dhcp_state' = "START" /\ tries' = tries + 1
    /\ UNCHANGED <<pc, _dhcpTransactionId, chipIp, net, worldVars>>

\* Any other reply of this call still leaves its address and server behind.
ReceiveOther ==
    /\ Waiting
    /\ \E m \in net :
          /\ m.type \in (IF _dhcp_state = "DISCOVER" THEN {"ACK", "NAK"} ELSE {"OFFER"})
          /\ parseDHCPResponse(m)
    /\ UNCHANGED <<pc, _dhcp_state, _dhcpTransactionId, tries, chipIp, net, worldVars>>

AfterTimeout == _dhcp_state' = "START"

\* No reply for _responseTimeout: parseDHCPResponse() returns 255.
ResponseTimeout ==
    /\ Waiting
    /\ AfterTimeout /\ tries' = tries + 1
    /\ UNCHANGED <<pc, requestVars, chipIp, net, worldVars>>

\* _timeout has passed: seen when a transaction has failed, or after any reply.
GiveUp ==
    /\ pc = "loop"
    /\ \/ _dhcp_state = "START" /\ tries > 0
       \/ LateBreak /\ Waiting
    /\ UNCHANGED <<_dhcp_state, _dhcpLocalIp, _dhcpDhcpServerIp, worldVars>>
    /\ Leave(0)

------------------------------------------------------------------------------
\* The network and the servers.
Reply(s, type, id) ==
    /\ net' = net \cup {[type |-> type, xid |-> id, server |-> s]}
    /\ UNCHANGED <<pc, _dhcp_state, requestVars, tries, chipIp, alive>>

Offer(s) ==
    /\ s \in alive
    /\ \E m \in net : m.type = "DISCOVER" /\ Reply(s, "OFFER", m.xid)
    /\ UNCHANGED granted

Ack(s) ==
    /\ s \in alive
    /\ \E m \in net :
          m.type = "REQUEST" /\ m.server = s /\ m.ip = s /\ Reply(s, "ACK", m.xid)
    /\ granted' = granted \cup {s}

\* A server refuses any address but its own, and may refuse that one too.
Nak(s) ==
    /\ s \in alive
    /\ \E m \in net : m.type = "REQUEST" /\ m.server = s /\ Reply(s, "NAK", m.xid)
    /\ UNCHANGED granted

Lose ==
    /\ \E m \in net : net' = net \ {m}
    /\ UNCHANGED <<pc, _dhcp_state, requestVars, tries, chipIp, worldVars>>

Die ==
    /\ \E s \in alive : alive' = alive \ {s} /\ alive' # {}
    /\ UNCHANGED <<pc, _dhcp_state, requestVars, tries, chipIp, net, granted>>

Client ==
    \/ SendDiscover \/ SendRerequest
    \/ \E s \in Servers : ReceiveOffer(s) \/ ReceiveAck(s) \/ ReceiveNak(s)
    \/ ReceiveOther \/ ResponseTimeout \/ GiveUp

DhcpNext ==
    \/ begin \/ Renew \/ Rebind \/ Client
    \/ \E s \in Servers : Offer(s) \/ Ack(s) \/ Nak(s)
    \/ Lose \/ Die

(* The client runs on and the sketch keeps calling maintain().  What is    *)
(* sent again and again gets through now and then, in time, to a server    *)
(* that is alive and from it.                                              *)
DhcpFairness ==
    /\ WF_dhcpVars(SendDiscover \/ SendRerequest \/ GiveUp)
    /\ WF_dhcpVars(ResponseTimeout)
    /\ WF_dhcpVars(Renew \/ Rebind)
    /\ \A s \in Servers :
          /\ SF_dhcpVars(_dhcp_state = "DISCOVER" /\ Offer(s))
          /\ SF_dhcpVars(ReceiveOffer(s))
          /\ SF_dhcpVars(_dhcp_state = "REQUEST" /\ Ack(s))
          /\ SF_dhcpVars(ReceiveAck(s))

DhcpSpec == DhcpInit /\ [][DhcpNext]_dhcpVars /\ DhcpFairness

------------------------------------------------------------------------------
\* The server that renewal will be asked of is the one that granted the lease,
\* whatever offers and refusals of others came in between; the chip never uses an
\* address that no server has granted, and with a lease it uses that of the lease.
LeaseFromServer ==
    /\ _dhcp_state = "LEASED" =>
           _dhcpLocalIp = _dhcpDhcpServerIp /\ _dhcpLocalIp \in granted /\ chipIp = _dhcpLocalIp
    /\ chipIp \in granted \cup {None}

\* checkLease() only acts on LEASED and START: a request that returned in any other
\* state is never made again, until begin() is called.
Stuck == pc = "sketch" /\ _dhcp_state \notin {"LEASED", "START"}

\* After begin() the client gets a lease as long as some server is left, unless it gets
\* stuck: a request that failed otherwise is made again, and in the end not of a server
\* that has died.
Served == pc # "none" ~> _dhcp_state = "LEASED" \/ Stuck

\* A renewal that failed "will retry" (Ethernet.cpp:97) and succeeds in the end.
RenewalRetried == _dhcp_state = "REREQUEST" ~> _dhcp_state = "LEASED"
==============================================================================
