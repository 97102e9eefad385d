------------------------------- MODULE Router -------------------------------
(***************************************************************************)
(* The router of Tema1: the tables of router.c, the receive queues of its  *)
(* four sockets and one action per branch of its loop.  A packet that has  *)
(* to wait for an ARP reply is put in a queue of pointers, but every       *)
(* pointer is to the one buffer m_aux of main(), so that the queue amounts *)
(* to that buffer and a count.                                             *)
(*                                                                         *)
(* Addresses, cards and packets are model values.  RouteOf stands for      *)
(* get_best_route() on a parsed and sorted table (RouteSearch.tla is about *)
(* that); log records what was sent for each packet, for the properties.   *)
(***************************************************************************)
EXTENDS Integers, Sequences, FiniteSets

CONSTANTS
    Hosts,      \* hosts, by their addresses
    RouterIps,  \* addresses of the router's interfaces
    Elsewhere,  \* other addresses packets are sent to
    Ifaces,     \* the router's interfaces, numbers as in skel.c
    HostIf,     \* the interface each host is attached to
    IpOf,       \* the address of each interface
    Macs,       \* cards
    Cards,      \* the cards each host may answer with
    RouteOf,    \* the best route to each destination, or NoRoute
    Packets,    \* IP packets, each sent once
    Header,     \* source, destination, TTL and "checksum is right" of a packet
    Chatter,    \* hosts that send ARP replies nobody asked for
    Lossy,      \* TRUE: ARP requests may be lost
    Paced,      \* TRUE: one packet at a time waits for an ARP reply
    RxCap,      \* frames an interface's receive queue holds in this model
    NoMac, NoRoute, None

Dests == Hosts \cup RouterIps \cup Elsewhere
Routes == [interface : Ifaces, next_hop : Dests]

ASSUME RouterAssumption ==
    /\ Ifaces \subseteq Nat
    /\ HostIf \in [Hosts -> Ifaces]
    /\ IpOf \in [Ifaces -> RouterIps]
    /\ Cards \in [Hosts -> SUBSET Macs]
    /\ RouteOf \in [Dests -> Routes \cup {NoRoute}]
    /\ NoRoute \notin Routes
    /\ Header \in [Packets -> [src : Hosts, dst : Dests, ttl : 0..255, ok : BOOLEAN]]
    /\ Hosts \cap RouterIps = {}
    /\ NoMac \notin Macs
    /\ None \notin Packets
    /\ RxCap \in Nat \ {0}

\* The table sends what is for an attached host to that host, as rtable.txt does.
ASSUME DirectRoutes ==
    \A h \in Hosts : RouteOf[h] = [interface |-> HostIf[h], next_hop |-> h]

VARIABLES
    arp,       \* arp[] by address: the card, or NoMac when there is no entry
    m_aux,     \* the buffer every queued pointer points to
    queued,    \* the number of pointers in q
    rx,        \* frames received on each interface and not read
    requests,  \* ARP requests on the wire to each host, not answered yet
    known,     \* hosts that have the router's card from an ARP reply
    unsent,    \* packets not sent yet
    log        \* what the router sent or decided for each packet (history)

router == <<arp, m_aux, queued>>
vars == <<arp, m_aux, queued, rx, requests, known, unsent, log>>

Requests == [kind : {"request"}, from : Hosts]
Replies == [kind : {"reply"}, spa : Hosts, sha : Macs]
Datagrams == [kind : {"ip"}, packet : Packets]
Frames == Requests \cup Replies \cup Datagrams

Forwarded == [what : {"forwarded"}, interface : Ifaces, mac : Macs, ttl : 0..255]
Answers == [what : {"echo", "unreachable", "exceeded"}, interface : Ifaces]
Dropped == [what |-> "dropped"]
Outcomes == Forwarded \cup Answers \cup {Dropped}

Init ==
    /\ arp = [d \in Dests |-> NoMac]
    /\ m_aux = None
    /\ queued = 0
    /\ rx = [i \in Ifaces |-> <<>>]
    /\ requests = [h \in Hosts |-> 0]
    /\ known = {}
    /\ unsent = Packets
    /\ log = [p \in Packets |-> <<>>]

\* Mutant: the highest ready interface is served.
GetPacketHighest(i) ==
    /\ rx[i] # <<>>
    /\ \A j \in Ifaces : j > i => rx[j] = <<>>
    /\ rx' = [rx EXCEPT ![i] = Tail(@)]

\* get_packet() reads from the lowest ready interface.
GetPacket(i) ==
    /\ rx[i] # <<>>
    /\ \A j \in Ifaces : j < i => rx[j] = <<>>
    /\ rx' = [rx EXCEPT ![i] = Tail(@)]

Answer(p, what, i) == log' = [log EXCEPT ![p] = Append(@, [what |-> what, interface |-> i])]

\* Mutant: the TTL is not written back.
TtlUnchanged(p, k) == Header[p].ttl

\* Mutant: the TTL is wider than the byte of struct iphdr.
TtlWide(p, k) == Header[p].ttl - k

\* The k-th decrement of a TTL that is one byte wide.
TtlAfter(p, k) == (Header[p].ttl - k) % 256

\* Mutant: the checksum is not looked at.
ChecksumIgnored(p) == TRUE

ChecksumRight(p) == Header[p].ok

\* The first card learned for an address stays.
UpdateArp(spa, sha) ==
    arp' = [arp EXCEPT ![spa] = IF @ = NoMac THEN sha ELSE @]

HandleArpRequest(i) ==
    /\ GetPacket(i)
    /\ Head(rx[i]).kind = "request"
    /\ known' = known \cup {Head(rx[i]).from}
    /\ UNCHANGED <<arp, m_aux, queued, requests, unsent, log>>

\* Mutant: whatever waits is taken to be for the sender of the reply.
DueAny(spa) == queued > 0

\* What the queued pointers point to is for the sender of the reply.
Due(spa) == queued > 0 /\ Header[m_aux].dst = spa

\* Mutant: the loop over the queue stops one short.
EmptyQueueButOne == queued' = 1

EmptyQueue == queued' = 0

\* Each pointer in the queue sends the buffer again, one TTL lower.
Release(i, spa, sha) ==
    /\ Due(spa)
    /\ ChecksumRight(m_aux)
    /\ log' = [log EXCEPT ![m_aux] = @ \o
                [k \in 1..queued |-> [what |-> "forwarded", interface |-> i,
                                      mac |-> sha, ttl |-> TtlAfter(m_aux, k)]]]
    /\ EmptyQueue

Discard(spa) ==
    /\ Due(spa)
    /\ ~ChecksumRight(m_aux)
    /\ log' = [log EXCEPT ![m_aux] = Append(@, Dropped)]
    /\ EmptyQueue

\* Packets for other hosts are taken out and put back in the same order.
PutBack(spa) ==
    /\ ~Due(spa)
    /\ UNCHANGED <<queued, log>>

HandleArpReply(i) ==
    LET reply == Head(rx[i]) IN
    /\ GetPacket(i)
    /\ reply.kind = "reply"
    /\ UpdateArp(reply.spa, reply.sha)
    /\ \/ Release(i, reply.spa, reply.sha)
       \/ Discard(reply.spa)
       \/ PutBack(reply.spa)
    /\ UNCHANGED <<m_aux, requests, known, unsent>>

\* A packet has been read from interface i, and it is p.
Received(i, p) ==
    /\ GetPacket(i)
    /\ Head(rx[i]).kind = "ip"
    /\ Head(rx[i]).packet = p

ToRouter(i, p) == Header[p].dst = IpOf[i]
Unreachable(p) == RouteOf[Header[p].dst] = NoRoute
Expired(p) == Header[p].ttl <= 1

Echo(i, p) ==
    /\ Received(i, p)
    /\ ToRouter(i, p)
    /\ Answer(p, "echo", i)
    /\ UNCHANGED <<arp, m_aux, queued, requests, known, unsent>>

HostUnreachable(i, p) ==
    /\ Received(i, p)
    /\ ~ToRouter(i, p)
    /\ Unreachable(p)
    /\ Answer(p, "unreachable", i)
    /\ UNCHANGED <<arp, m_aux, queued, requests, known, unsent>>

TimeExceeded(i, p) ==
    /\ Received(i, p)
    /\ ~ToRouter(i, p)
    /\ ~Unreachable(p)
    /\ Expired(p)
    /\ Answer(p, "exceeded", i)
    /\ UNCHANGED <<arp, m_aux, queued, requests, known, unsent>>

\* None of the three answers was due.
Forwardable(i, p) ==
    /\ Received(i, p)
    /\ ~ToRouter(i, p)
    /\ ~Unreachable(p)
    /\ ~Expired(p)

\* Mutant: the request goes to no one.
SendArpRequestNowhere(route) == UNCHANGED requests

\* A broadcast on the route's interface reaches the next hop if it is there.
SendArpRequest(route) ==
    requests' = [h \in Hosts |->
      IF h = route.next_hop /\ HostIf[h] = route.interface
      THEN requests[h] + 1 ELSE requests[h]]

\* The table is searched for the destination, the question is for the next hop.
Enqueue(i, p) ==
    /\ Forwardable(i, p)
    /\ arp[Header[p].dst] = NoMac
    /\ m_aux' = p
    /\ queued' = queued + 1
    /\ SendArpRequest(RouteOf[Header[p].dst])
    /\ UNCHANGED <<arp, known, unsent, log>>

Forward(i, p) ==
    /\ Forwardable(i, p)
    /\ arp[Header[p].dst] # NoMac
    /\ log' = [log EXCEPT ![p] = Append(@,
                IF ChecksumRight(p)
                THEN [what |-> "forwarded", interface |-> RouteOf[Header[p].dst].interface,
                      mac |-> arp[Header[p].dst], ttl |-> TtlAfter(p, 1)]
                ELSE Dropped)]
    /\ UNCHANGED <<arp, m_aux, queued, requests, known, unsent>>

HandleIp(i, p) ==
    \/ Echo(i, p)
    \/ HostUnreachable(i, p)
    \/ TimeExceeded(i, p)
    \/ Enqueue(i, p)
    \/ Forward(i, p)

RouterStep ==
    \E i \in Ifaces :
      \/ HandleArpRequest(i)
      \/ HandleArpReply(i)
      \/ \E p \in Packets : HandleIp(i, p)
=============================================================================
