--------------------------- MODULE RoutedNetwork ---------------------------
(***************************************************************************)
(* The router of Tema1 between the hosts of topo.py: hosts ask for the     *)
(* router's card, send packets and answer ARP requests; the router handles *)
(* what its four sockets have received, one frame at a time.               *)
(***************************************************************************)
EXTENDS Router

Sent == Packets \ unsent
Settled(p) == log[p] # <<>>

\* Where a packet may be: received and not read, or in the buffer of the queue.
IpFrame(p) == [kind |-> "ip", packet |-> p]
OnWire(p) == \E i \in Ifaces : \E k \in 1..Len(rx[i]) : rx[i][k] = IpFrame(p)
Waits(p) == queued > 0 /\ m_aux = p

\* Packets of which nothing is left: another was copied over them in m_aux.
Overwritten == {p \in Sent : ~OnWire(p) /\ ~Waits(p) /\ ~Settled(p)}

\* p, handled now, would have to wait for an ARP reply.
NeedsArp(p) ==
    /\ Header[p].dst # IpOf[HostIf[Header[p].src]]
    /\ ~Unreachable(p)
    /\ ~Expired(p)
    /\ arp[Header[p].dst] = NoMac

Room(i) == Len(rx[i]) < RxCap
Receive(i, frame) == rx' = [rx EXCEPT ![i] = Append(@, frame)]

\* A host looks for the card of its default gateway.
AskRouter(h) ==
    LET frame == [kind |-> "request", from |-> h] IN
    /\ h \notin known
    /\ \E p \in unsent : Header[p].src = h
    /\ \A k \in 1..Len(rx[HostIf[h]]) : rx[HostIf[h]][k] # frame
    /\ Room(HostIf[h])
    /\ Receive(HostIf[h], frame)
    /\ UNCHANGED <<router, requests, known, unsent, log>>

\* When Paced, a packet that needs ARP is held back while another one does.
SendPacket(p) ==
    LET i == HostIf[Header[p].src] IN
    /\ p \in unsent
    /\ Header[p].src \in known
    /\ (Paced /\ NeedsArp(p)) => \A q \in Sent : NeedsArp(q) => Settled(q)
    /\ Room(i)
    /\ Receive(i, IpFrame(p))
    /\ unsent' = unsent \ {p}
    /\ UNCHANGED <<router, requests, known, log>>

AnswerRequest(h, c) ==
    /\ requests[h] > 0
    /\ c \in Cards[h]
    /\ Room(HostIf[h])
    /\ Receive(HostIf[h], [kind |-> "reply", spa |-> h, sha |-> c])
    /\ requests' = [requests EXCEPT ![h] = @ - 1]
    /\ UNCHANGED <<router, known, unsent, log>>

LoseRequest(h) ==
    /\ Lossy
    /\ requests[h] > 0
    /\ requests' = [requests EXCEPT ![h] = @ - 1]
    /\ UNCHANGED <<router, rx, known, unsent, log>>

\* An unsolicited reply; in this model only when nothing else is waiting there.
Announce(h, c) ==
    /\ h \in Chatter
    /\ c \in Cards[h]
    /\ rx[HostIf[h]] = <<>>
    /\ Receive(HostIf[h], [kind |-> "reply", spa |-> h, sha |-> c])
    /\ UNCHANGED <<router, requests, known, unsent, log>>

HostStep ==
    \/ \E h \in Hosts :
         \/ AskRouter(h)
         \/ LoseRequest(h)
         \/ \E c \in Cards[h] : AnswerRequest(h, c) \/ Announce(h, c)
    \/ \E p \in Packets : SendPacket(p)

Next == RouterStep \/ HostStep

Spec == Init /\ [][Next]_vars

\* The router's loop does not stop; hosts ask, send and answer in the end.
FairSpec ==
    /\ Spec
    /\ WF_vars(RouterStep)
    /\ \A h \in Hosts : WF_vars(AskRouter(h))
    /\ \A h \in Hosts : WF_vars(\E c \in Cards[h] : AnswerRequest(h, c))
    /\ \A p \in Packets : WF_vars(SendPacket(p))
-----------------------------------------------------------------------------
(* Properties *)

\* Every variable keeps its type.
TypeOK ==
    /\ arp \in [Dests -> Macs \cup {NoMac}]
    /\ m_aux \in Packets \cup {None}
    /\ queued \in Nat
    /\ rx \in [Ifaces -> Seq(Frames)]
    /\ requests \in [Hosts -> Nat]
    /\ known \subseteq Hosts
    /\ unsent \subseteq Packets
    /\ log \in [Packets -> Seq(Outcomes)]

\* Nothing waits for an address that is known: whatever order replies and
\* packets arrive in, a reply leaves no packet for its sender behind
\* (router.c:58-95), and none is queued afterwards.
QueueUnresolved ==
    queued > 0 => /\ m_aux # None
                  /\ arp[Header[m_aux].dst] = NoMac

\* A copy of a packet that leaves does so on the interface of its route, to a
\* card of the host it is for, although released packets take both from the
\* reply (router.c:88-94) and the others from the tables.
AddressedRight ==
    \A p \in Packets : \A k \in 1..Len(log[p]) :
      log[p][k].what = "forwarded" =>
        /\ Header[p].dst \in Hosts
        /\ log[p][k].interface = RouteOf[Header[p].dst].interface
        /\ log[p][k].mac \in Cards[Header[p].dst]

\* Only a packet with a right checksum, time to live and a route is passed on;
\* queued packets are checked late, when the reply arrives (router.c:75-79).
ForwardedFit ==
    \A p \in Packets : \A k \in 1..Len(log[p]) :
      log[p][k].what = "forwarded" =>
        Header[p].ok /\ Header[p].ttl > 1 /\ RouteOf[Header[p].dst] # NoRoute

\* A packet leaves with its TTL one lower, as tests.py:263 asks.  Every pointer
\* of the queue sends the one buffer again and counts it down again
\* (router.c:81), below zero and round the byte if the queue is long: the k-th
\* time a packet leaves its TTL is k lower.
TtlCounted ==
    \A p \in Packets : \A k \in 1..Len(log[p]) :
      log[p][k].what = "forwarded" => log[p][k].ttl = (Header[p].ttl - k) % 256

\* The router makes no packets: one leaves again only in place of another that
\* it was copied over in m_aux (router.c:143).
CopiesReplace == \A p \in Packets : Len(log[p]) <= 1 + Cardinality(Overwritten)

\* What the router promises of a packet that leaves, at once or after waiting:
\* it was fit to, it leaves where it is to go, its TTL tells how often it has
\* left, and it leaves more than once only for packets that were overwritten.
\* That no packet is overwritten is not promised (AtRestSettled).
ForwardedRight == AddressedRight /\ ForwardedFit /\ TtlCounted /\ CopiesReplace

\* With one packet at a time waiting for ARP the router is the abstract one:
\* every packet gets one outcome, and the right one.
Outcome(p) ==
    IF log[p] = <<>> THEN None ELSE IF Len(log[p]) = 1 THEN log[p][1]
    ELSE [what |-> "repeated"]

Promise == INSTANCE Forwarding WITH
    outcome <- [p \in Packets |-> Outcome(p)], Pending <- None
ImplementsForwarding == Promise!Spec

\* Every packet is sent and gets its outcome, also while a host on a higher
\* interface floods the router with replies.
AllSettled == <>(\A p \in Packets : Settled(p))

\* Tema1/README:16-18: the packet is queued and, when the reply comes, taken
\* out and sent.  So when no frame and no request is left, no packet is.  The
\* code loses it: the buffer it waits in is the next packet's as well, which
\* leaves in its place, once more and with a lower TTL.
AtRestSettled ==
    ((\A i \in Ifaces : rx[i] = <<>>) /\ (\A h \in Hosts : requests[h] = 0))
      => \A p \in Sent : Settled(p)
=============================================================================
