---------------------------- MODULE RouterProofs ----------------------------
(***************************************************************************)
(* The safety of the router for any number of hosts, interfaces, packets   *)
(* and frames, whatever the hosts send: no pacing, lost requests and       *)
(* unsolicited replies included.  What is in a queue is described by the   *)
(* set its elements are in, so that the proof never counts positions.      *)
(***************************************************************************)
EXTENDS RoutedNetwork, SequenceTheorems, FiniteSetTheorems, TLAPS

(* The inductive invariant *)

\* A frame on interface i comes from a host attached there, with its card.
FramesAt(i) ==
    Requests \cup Datagrams \cup
    {r \in Replies : HostIf[r.spa] = i /\ r.sha \in Cards[r.spa]}

ReceivedHonest == \A i \in Ifaces : rx[i] \in Seq(FramesAt(i))

\* The table holds only addresses of hosts, each with a card of that host.
TableHonest ==
    \A d \in Dests : arp[d] # NoMac => d \in Hosts /\ arp[d] \in Cards[d]

\* What waits has passed the tests made before it was queued.
WaitingFit ==
    queued > 0 => Header[m_aux].ttl > 1 /\ RouteOf[Header[m_aux].dst] # NoRoute

\* What may be sent or decided for p.
Allowed(p) ==
    {e \in Outcomes :
       e.what = "forwarded" =>
         /\ Header[p].ok
         /\ Header[p].ttl > 1
         /\ Header[p].dst \in Hosts
         /\ RouteOf[Header[p].dst] # NoRoute
         /\ e.interface = RouteOf[Header[p].dst].interface
         /\ e.mac \in Cards[Header[p].dst]}

LogsAllowed == \A p \in Packets : log[p] \in Seq(Allowed(p))

Inv ==
    /\ TypeOK
    /\ ReceivedHonest
    /\ TableHonest
    /\ QueueUnresolved
    /\ WaitingFit
    /\ LogsAllowed
-----------------------------------------------------------------------------
(* Lemmas on sequences over a set *)

LEMMA AppendStays ==
    ASSUME NEW S, NEW s \in Seq(S), NEW e \in S
    PROVE  Append(s, e) \in Seq(S)
  OBVIOUS

LEMMA ConcatStays ==
    ASSUME NEW S, NEW s \in Seq(S), NEW t \in Seq(S)
    PROVE  s \o t \in Seq(S)
  BY ConcatProperties

LEMMA ElementsOf ==
    ASSUME NEW S, NEW s \in Seq(S), NEW k \in 1..Len(s)
    PROVE  s[k] \in S
  OBVIOUS

LEMMA HeadTailStay ==
    ASSUME NEW S, NEW s \in Seq(S), s # <<>>
    PROVE  Head(s) \in S /\ Tail(s) \in Seq(S)
  BY HeadTailProperties
-----------------------------------------------------------------------------
(* Lemmas on the parts of the actions *)

\* Every TTL that is sent fits its byte.
LEMMA TtlFits ==
    ASSUME NEW p \in Packets, NEW k \in Nat
    PROVE  TtlAfter(p, k) \in 0..255
<1>1. Header[p].ttl - k \in Int
  BY RouterAssumption
<1>2. \A n \in Int : n % 256 \in 0..255
  OBVIOUS
<1> QED
  BY <1>1, <1>2 DEF TtlAfter

\* Reading a frame keeps what is known of the frames behind it.
LEMMA GetPacketHonest ==
    ASSUME Inv, NEW i \in Ifaces, GetPacket(i)
    PROVE  /\ rx' \in [Ifaces -> Seq(Frames)]
           /\ ReceivedHonest'
           /\ Head(rx[i]) \in FramesAt(i)
<1>1. /\ rx[i] # <<>>
      /\ rx' = [rx EXCEPT ![i] = Tail(@)]
      /\ rx \in [Ifaces -> Seq(Frames)]
      /\ \A j \in Ifaces : rx[j] \in Seq(FramesAt(j))
  BY DEF Inv, TypeOK, ReceivedHonest, GetPacket
<1>2. Tail(rx[i]) \in Seq(Frames) /\ Tail(rx[i]) \in Seq(FramesAt(i))
  BY <1>1, HeadTailStay
<1>3. Head(rx[i]) \in FramesAt(i)
  BY <1>1, HeadTailStay
<1>4. rx' \in [Ifaces -> Seq(Frames)]
  BY <1>1, <1>2
<1>5. ReceivedHonest'
  BY <1>1, <1>2 DEF ReceivedHonest, FramesAt
<1> QED
  BY <1>3, <1>4, <1>5

\* So does receiving one that the sender is honest about.
LEMMA ReceiveHonest ==
    ASSUME Inv, NEW i \in Ifaces, NEW f \in FramesAt(i), Receive(i, f)
    PROVE  /\ rx' \in [Ifaces -> Seq(Frames)]
           /\ ReceivedHonest'
<1>1. /\ rx' = [rx EXCEPT ![i] = Append(@, f)]
      /\ rx \in [Ifaces -> Seq(Frames)]
      /\ \A j \in Ifaces : rx[j] \in Seq(FramesAt(j))
  BY DEF Inv, TypeOK, ReceivedHonest, Receive
<1>2. f \in Frames
  BY DEF FramesAt, Frames
<1>3. Append(rx[i], f) \in Seq(Frames) /\ Append(rx[i], f) \in Seq(FramesAt(i))
  BY <1>1, <1>2, AppendStays
<1>4. rx' \in [Ifaces -> Seq(Frames)]
  BY <1>1, <1>3
<1>5. ReceivedHonest'
  BY <1>1, <1>3 DEF ReceivedHonest, FramesAt
<1> QED
  BY <1>4, <1>5

\* A log grows by allowed entries only.
LEMMA LogGrows ==
    ASSUME Inv, NEW p \in Packets, NEW t \in Seq(Allowed(p)),
           log' = [log EXCEPT ![p] = @ \o t]
    PROVE  /\ log' \in [Packets -> Seq(Outcomes)]
           /\ LogsAllowed'
<1>1. /\ log \in [Packets -> Seq(Outcomes)]
      /\ \A q \in Packets : log[q] \in Seq(Allowed(q))
  BY DEF Inv, TypeOK, LogsAllowed
<1>2. Allowed(p) \subseteq Outcomes
  BY DEF Allowed
<1>3. t \in Seq(Outcomes)
  BY <1>2
<1>4. log[p] \o t \in Seq(Outcomes) /\ log[p] \o t \in Seq(Allowed(p))
  BY <1>1, <1>3, ConcatStays
<1>5. log' \in [Packets -> Seq(Outcomes)]
  BY <1>1, <1>4
<1>6. LogsAllowed'
  BY <1>1, <1>4 DEF LogsAllowed, Allowed
<1> QED
  BY <1>5, <1>6

LEMMA LogAppends ==
    ASSUME Inv, NEW p \in Packets, NEW e \in Allowed(p),
           log' = [log EXCEPT ![p] = Append(@, e)]
    PROVE  /\ log' \in [Packets -> Seq(Outcomes)]
           /\ LogsAllowed'
<1>1. /\ log \in [Packets -> Seq(Outcomes)]
      /\ \A q \in Packets : log[q] \in Seq(Allowed(q))
  BY DEF Inv, TypeOK, LogsAllowed
<1>2. e \in Outcomes
  BY DEF Allowed
<1>3. Append(log[p], e) \in Seq(Outcomes) /\ Append(log[p], e) \in Seq(Allowed(p))
  BY <1>1, <1>2, AppendStays
<1>4. log' \in [Packets -> Seq(Outcomes)]
  BY <1>1, <1>3
<1>5. LogsAllowed'
  BY <1>1, <1>3 DEF LogsAllowed, Allowed
<1> QED
  BY <1>4, <1>5

\* The three answers and the drop are allowed for every packet.
LEMMA AnswersAllowed ==
    ASSUME NEW p \in Packets, NEW i \in Ifaces
    PROVE  /\ \A w \in {"echo", "unreachable", "exceeded"} :
                [what |-> w, interface |-> i] \in Allowed(p)
           /\ Dropped \in Allowed(p)
  BY DEF Allowed, Outcomes, Answers, Dropped, Forwarded
-----------------------------------------------------------------------------
(* The steps of the router *)

LEMMA ArpRequestStep ==
    ASSUME Inv, NEW i \in Ifaces, HandleArpRequest(i)
    PROVE  Inv'
<1>1. GetPacket(i) /\ Head(rx[i]).kind = "request"
  BY DEF HandleArpRequest
<1>2. rx' \in [Ifaces -> Seq(Frames)] /\ ReceivedHonest' /\ Head(rx[i]) \in FramesAt(i)
  BY <1>1, GetPacketHonest
<1>3. Head(rx[i]).from \in Hosts
  BY <1>1, <1>2 DEF FramesAt, Requests, Replies, Datagrams
<1> QED
  BY <1>2, <1>3 DEF Inv, TypeOK, TableHonest, QueueUnresolved, WaitingFit,
     LogsAllowed, Allowed, HandleArpRequest

\* The copies a reply releases are allowed for the packet that waited.
LEMMA ReleasedAllowed ==
    ASSUME Inv, NEW i \in Ifaces, NEW spa \in Hosts, NEW sha \in Cards[spa],
           HostIf[spa] = i, Due(spa), ChecksumRight(m_aux)
    PROVE  /\ m_aux \in Packets
           /\ [k \in 1..queued |-> [what |-> "forwarded", interface |-> i,
                 mac |-> sha, ttl |-> TtlAfter(m_aux, k)]] \in Seq(Allowed(m_aux))
<1>1. /\ queued \in Nat
      /\ m_aux \in Packets
      /\ Header[m_aux].dst = spa
      /\ Header[m_aux].ok
      /\ Header[m_aux].ttl > 1
      /\ RouteOf[spa] # NoRoute
  BY DEF Inv, TypeOK, QueueUnresolved, WaitingFit, Due, ChecksumRight
<1>2. RouteOf[spa].interface = i
  <2>1. RouteOf[spa] = [interface |-> HostIf[spa], next_hop |-> spa]
    BY DirectRoutes
  <2>2. [interface |-> HostIf[spa], next_hop |-> spa].interface = HostIf[spa]
    OBVIOUS
  <2> QED
    BY <2>1, <2>2
<1>3. sha \in Macs
  BY RouterAssumption
<1>4. ASSUME NEW k \in 1..queued
      PROVE  [what |-> "forwarded", interface |-> i,
              mac |-> sha, ttl |-> TtlAfter(m_aux, k)] \in Allowed(m_aux)
  <2>1. TtlAfter(m_aux, k) \in 0..255
    BY <1>1, TtlFits
  <2> QED
    BY <1>1, <1>2, <1>3, <2>1 DEF Allowed, Outcomes, Forwarded
<1>5. [k \in 1..queued |-> [what |-> "forwarded", interface |-> i,
         mac |-> sha, ttl |-> TtlAfter(m_aux, k)]] \in [1..queued -> Allowed(m_aux)]
  BY <1>4
<1> QED
  BY <1>1, <1>5

LEMMA ArpReplyStep ==
    ASSUME Inv, NEW i \in Ifaces, HandleArpReply(i)
    PROVE  Inv'
<1> DEFINE spa == Head(rx[i]).spa
           sha == Head(rx[i]).sha
<1>1. /\ GetPacket(i)
      /\ Head(rx[i]).kind = "reply"
      /\ UpdateArp(spa, sha)
      /\ Release(i, spa, sha) \/ Discard(spa) \/ PutBack(spa)
      /\ UNCHANGED <<m_aux, requests, known, unsent>>
  BY DEF HandleArpReply
<1>2. rx' \in [Ifaces -> Seq(Frames)] /\ ReceivedHonest' /\ Head(rx[i]) \in FramesAt(i)
  BY <1>1, GetPacketHonest
<1>3. spa \in Hosts /\ HostIf[spa] = i /\ sha \in Cards[spa] /\ sha \in Macs
  BY <1>1, <1>2 DEF FramesAt, Requests, Replies, Datagrams
<1> HIDE DEF spa, sha
<1>4. /\ arp' = [arp EXCEPT ![spa] = IF @ = NoMac THEN sha ELSE @]
      /\ arp \in [Dests -> Macs \cup {NoMac}]
      /\ spa \in Dests
  BY <1>1, <1>3 DEF UpdateArp, Inv, TypeOK, Dests
<1>5. arp' \in [Dests -> Macs \cup {NoMac}]
  BY <1>3, <1>4
<1>6. TableHonest'
  BY <1>3, <1>4 DEF Inv, TableHonest
<1>7. /\ log' \in [Packets -> Seq(Outcomes)]
      /\ LogsAllowed'
      /\ queued' \in Nat
      /\ queued' > 0 => /\ queued > 0
                        /\ Header[m_aux].dst # spa
  <2>1. CASE Release(i, spa, sha)
    <3>1. Due(spa) /\ ChecksumRight(m_aux) /\ queued' = 0
      BY <2>1 DEF Release, EmptyQueue
    <3> DEFINE t == [k \in 1..queued |-> [what |-> "forwarded", interface |-> i,
                       mac |-> sha, ttl |-> TtlAfter(m_aux, k)]]
    <3>2. m_aux \in Packets /\ t \in Seq(Allowed(m_aux))
      BY <1>3, <3>1, ReleasedAllowed
    <3>3. log' = [log EXCEPT ![m_aux] = @ \o t]
      BY <2>1 DEF Release
    <3> HIDE DEF t
    <3>4. log' \in [Packets -> Seq(Outcomes)] /\ LogsAllowed'
      BY <3>2, <3>3, LogGrows
    <3> QED
      BY <3>1, <3>4
  <2>2. CASE Discard(spa)
    <3>1. Due(spa) /\ queued' = 0 /\ log' = [log EXCEPT ![m_aux] = Append(@, Dropped)]
      BY <2>2 DEF Discard, EmptyQueue
    <3>2. m_aux \in Packets
      BY <3>1 DEF Inv, TypeOK, QueueUnresolved, Due
    <3>3. Dropped \in Allowed(m_aux)
      BY <3>2, AnswersAllowed
    <3>4. log' \in [Packets -> Seq(Outcomes)] /\ LogsAllowed'
      BY <3>1, <3>2, <3>3, LogAppends
    <3> QED
      BY <3>1, <3>4
  <2>3. CASE PutBack(spa)
    BY <2>3 DEF PutBack, Due, Inv, TypeOK, LogsAllowed, Allowed
  <2> QED
    BY <1>1, <2>1, <2>2, <2>3
<1>8. QueueUnresolved' /\ WaitingFit'
  <2>1. m_aux' = m_aux
    BY <1>1
  <2>2. SUFFICES ASSUME queued' > 0
                 PROVE  /\ m_aux # None
                        /\ arp'[Header[m_aux].dst] = NoMac
                        /\ Header[m_aux].ttl > 1
                        /\ RouteOf[Header[m_aux].dst] # NoRoute
    BY <2>1 DEF QueueUnresolved, WaitingFit
  <2>3. queued > 0 /\ Header[m_aux].dst # spa
    BY <1>7, <2>2
  <2>4. /\ m_aux # None
        /\ m_aux \in Packets
        /\ arp[Header[m_aux].dst] = NoMac
        /\ Header[m_aux].ttl > 1
        /\ RouteOf[Header[m_aux].dst] # NoRoute
    BY <2>3 DEF Inv, TypeOK, QueueUnresolved, WaitingFit
  <2>5. Header[m_aux].dst \in Dests
    BY <2>4, RouterAssumption
  <2> QED
    BY <1>4, <2>3, <2>4, <2>5
<1> QED
  BY <1>1, <1>2, <1>5, <1>6, <1>7, <1>8 DEF Inv, TypeOK

\* The three branches that answer the sender.
LEMMA AnswerStep ==
    ASSUME Inv, NEW i \in Ifaces, NEW p \in Packets,
           Echo(i, p) \/ HostUnreachable(i, p) \/ TimeExceeded(i, p)
    PROVE  Inv'
<1>1. PICK w \in {"echo", "unreachable", "exceeded"} : Answer(p, w, i)
  BY DEF Echo, HostUnreachable, TimeExceeded
<1>2. [what |-> w, interface |-> i] \in Allowed(p)
  BY AnswersAllowed
<1>3. log' \in [Packets -> Seq(Outcomes)] /\ LogsAllowed'
  BY <1>1, <1>2, LogAppends DEF Answer
<1>4. GetPacket(i) /\ UNCHANGED <<arp, m_aux, queued, requests, known, unsent>>
  BY DEF Echo, HostUnreachable, TimeExceeded, Received
<1>5. rx' \in [Ifaces -> Seq(Frames)] /\ ReceivedHonest'
  BY <1>4, GetPacketHonest
<1> QED
  BY <1>3, <1>4, <1>5 DEF Inv, TypeOK, TableHonest, QueueUnresolved, WaitingFit

LEMMA EnqueueStep ==
    ASSUME Inv, NEW i \in Ifaces, NEW p \in Packets, Enqueue(i, p)
    PROVE  Inv'
<1>1. /\ Forwardable(i, p)
      /\ arp[Header[p].dst] = NoMac
      /\ m_aux' = p
      /\ queued' = queued + 1
      /\ SendArpRequest(RouteOf[Header[p].dst])
      /\ UNCHANGED <<arp, known, unsent, log>>
  BY DEF Enqueue
<1>2. /\ GetPacket(i)
      /\ RouteOf[Header[p].dst] # NoRoute
      /\ ~(Header[p].ttl <= 1)
  BY <1>1 DEF Forwardable, Received, Unreachable, Expired
<1>3. rx' \in [Ifaces -> Seq(Frames)] /\ ReceivedHonest'
  BY <1>2, GetPacketHonest
<1>4. Header[p].ttl > 1 /\ Header[p].dst \in Dests
  BY <1>2, RouterAssumption
<1>5. requests' \in [Hosts -> Nat]
  BY <1>1 DEF SendArpRequest, Inv, TypeOK
<1>6. QueueUnresolved' /\ WaitingFit'
  BY <1>1, <1>2, <1>4, RouterAssumption DEF QueueUnresolved, WaitingFit
<1> QED
  BY <1>1, <1>3, <1>5, <1>6 DEF Inv, TypeOK, TableHonest, LogsAllowed, Allowed

LEMMA ForwardStep ==
    ASSUME Inv, NEW i \in Ifaces, NEW p \in Packets, Forward(i, p)
    PROVE  Inv'
<1> DEFINE sent == [what |-> "forwarded", interface |-> RouteOf[Header[p].dst].interface,
                    mac |-> arp[Header[p].dst], ttl |-> TtlAfter(p, 1)]
           e == IF Header[p].ok THEN sent ELSE Dropped
<1>1. /\ Forwardable(i, p)
      /\ arp[Header[p].dst] # NoMac
      /\ log' = [log EXCEPT ![p] = Append(@, e)]
      /\ UNCHANGED <<arp, m_aux, queued, requests, known, unsent>>
  BY DEF Forward, ChecksumRight
<1>2. /\ GetPacket(i)
      /\ RouteOf[Header[p].dst] # NoRoute
      /\ ~(Header[p].ttl <= 1)
  BY <1>1 DEF Forwardable, Received, Unreachable, Expired
<1>3. rx' \in [Ifaces -> Seq(Frames)] /\ ReceivedHonest'
  BY <1>2, GetPacketHonest
<1>4. /\ Header[p].ttl > 1
      /\ Header[p].dst \in Dests
      /\ RouteOf[Header[p].dst].interface \in Ifaces
  BY <1>2, RouterAssumption DEF Routes
<1>5. Header[p].dst \in Hosts /\ arp[Header[p].dst] \in Cards[Header[p].dst]
  BY <1>1, <1>4 DEF Inv, TableHonest
<1>6. arp[Header[p].dst] \in Macs
  BY <1>5, RouterAssumption
<1>7. TtlAfter(p, 1) \in 0..255
  BY TtlFits
<1>8. e \in Allowed(p)
  <2>1. Header[p].ok => sent \in Allowed(p)
    BY <1>2, <1>4, <1>5, <1>6, <1>7 DEF Allowed, Outcomes, Forwarded
  <2>2. Dropped \in Allowed(p)
    BY AnswersAllowed
  <2> QED
    BY <2>1, <2>2
<1> HIDE DEF e
<1>9. log' \in [Packets -> Seq(Outcomes)] /\ LogsAllowed'
  BY <1>1, <1>8, LogAppends
<1> QED
  BY <1>1, <1>3, <1>9 DEF Inv, TypeOK, TableHonest, QueueUnresolved, WaitingFit

LEMMA RouterStepKeepsInv ==
    ASSUME Inv, RouterStep
    PROVE  Inv'
<1>1. PICK i \in Ifaces : \/ HandleArpRequest(i)
                          \/ HandleArpReply(i)
                          \/ \E p \in Packets : HandleIp(i, p)
  BY DEF RouterStep
<1>2. CASE HandleArpRequest(i)
  BY <1>2, ArpRequestStep
<1>3. CASE HandleArpReply(i)
  BY <1>3, ArpReplyStep
<1>4. CASE \E p \in Packets : HandleIp(i, p)
  <2>1. PICK p \in Packets : HandleIp(i, p)
    BY <1>4
  <2> QED
    BY <2>1, AnswerStep, EnqueueStep, ForwardStep DEF HandleIp
<1> QED
  BY <1>1, <1>2, <1>3, <1>4
-----------------------------------------------------------------------------
(* The steps of the hosts *)

LEMMA HostStepKeepsInv ==
    ASSUME Inv, HostStep
    PROVE  Inv'
<1>1. ASSUME NEW h \in Hosts, AskRouter(h)
      PROVE  Inv'
  <2>1. [kind |-> "request", from |-> h] \in FramesAt(HostIf[h]) /\ HostIf[h] \in Ifaces
    BY RouterAssumption DEF FramesAt, Requests
  <2>2. rx' \in [Ifaces -> Seq(Frames)] /\ ReceivedHonest'
    BY <1>1, <2>1, ReceiveHonest DEF AskRouter
  <2> QED
    BY <1>1, <2>2 DEF Inv, TypeOK, TableHonest, QueueUnresolved, WaitingFit,
       LogsAllowed, Allowed, AskRouter, router
<1>2. ASSUME NEW h \in Hosts, LoseRequest(h)
      PROVE  Inv'
  <2>1. requests' \in [Hosts -> Nat]
    BY <1>2 DEF LoseRequest, Inv, TypeOK
  <2> QED
    BY <1>2, <2>1 DEF Inv, TypeOK, ReceivedHonest, FramesAt, TableHonest,
       QueueUnresolved, WaitingFit, LogsAllowed, Allowed, LoseRequest, router
<1>3. ASSUME NEW h \in Hosts, NEW c \in Cards[h], AnswerRequest(h, c)
      PROVE  Inv'
  <2>1. [kind |-> "reply", spa |-> h, sha |-> c] \in FramesAt(HostIf[h]) /\ HostIf[h] \in Ifaces
    BY RouterAssumption DEF FramesAt, Replies
  <2>2. rx' \in [Ifaces -> Seq(Frames)] /\ ReceivedHonest'
    BY <1>3, <2>1, ReceiveHonest DEF AnswerRequest
  <2>3. requests' \in [Hosts -> Nat]
    BY <1>3 DEF AnswerRequest, Inv, TypeOK
  <2> QED
    BY <1>3, <2>2, <2>3 DEF Inv, TypeOK, TableHonest, QueueUnresolved, WaitingFit,
       LogsAllowed, Allowed, AnswerRequest, router
<1>4. ASSUME NEW h \in Hosts, NEW c \in Cards[h], Announce(h, c)
      PROVE  Inv'
  <2>1. [kind |-> "reply", spa |-> h, sha |-> c] \in FramesAt(HostIf[h]) /\ HostIf[h] \in Ifaces
    BY RouterAssumption DEF FramesAt, Replies
  <2>2. rx' \in [Ifaces -> Seq(Frames)] /\ ReceivedHonest'
    BY <1>4, <2>1, ReceiveHonest DEF Announce
  <2> QED
    BY <1>4, <2>2 DEF Inv, TypeOK, TableHonest, QueueUnresolved, WaitingFit,
       LogsAllowed, Allowed, Announce, router
<1>5. ASSUME NEW p \in Packets, SendPacket(p)
      PROVE  Inv'
  <2>1. /\ [kind |-> "ip", packet |-> p] \in FramesAt(HostIf[Header[p].src])
        /\ HostIf[Header[p].src] \in Ifaces
    BY RouterAssumption DEF FramesAt, Datagrams
  <2>2. rx' \in [Ifaces -> Seq(Frames)] /\ ReceivedHonest'
    BY <1>5, <2>1, ReceiveHonest DEF SendPacket, IpFrame
  <2> QED
    BY <1>5, <2>2 DEF Inv, TypeOK, TableHonest, QueueUnresolved, WaitingFit,
       LogsAllowed, Allowed, SendPacket, router
<1> QED
  BY <1>1, <1>2, <1>3, <1>4, <1>5 DEF HostStep
-----------------------------------------------------------------------------
(* Theorems *)

LEMMA InitInv == Init => Inv
  BY RouterAssumption DEF Init, Inv, TypeOK, ReceivedHonest, TableHonest,
     QueueUnresolved, WaitingFit, LogsAllowed, FramesAt, Allowed

LEMMA NextInv == Inv /\ [Next]_vars => Inv'
<1> SUFFICES ASSUME Inv, [Next]_vars
             PROVE  Inv'
  OBVIOUS
<1>1. CASE Next
  BY <1>1, RouterStepKeepsInv, HostStepKeepsInv DEF Next
<1>2. CASE UNCHANGED vars
  BY <1>2 DEF vars, Inv, TypeOK, ReceivedHonest, FramesAt, TableHonest,
     QueueUnresolved, WaitingFit, LogsAllowed, Allowed
<1> QED
  BY <1>1, <1>2

\* The invariant holds in every state of every behaviour of router and hosts.
THEOREM RouterInvariance == Spec => []Inv
  BY InitInv, NextInv, PTL DEF Spec

\* Every variable of the router and its network keeps its type; in particular
\* no TTL leaves its byte.
THEOREM RouterTypeCorrect == Spec => []TypeOK
<1>1. Inv => TypeOK
  BY DEF Inv
<1> QED
  BY <1>1, RouterInvariance, PTL

\* For any hosts, packets and order of frames: nothing waits in the queue for
\* an address the ARP table has (router.c:53-98, 139-146).
THEOREM NothingWaitsResolved == Spec => []QueueUnresolved
<1>1. Inv => QueueUnresolved
  BY DEF Inv
<1> QED
  BY <1>1, RouterInvariance, PTL

\* Every copy that leaves is on its route's interface and for a card of its
\* destination, also when the queue was overwritten or replies are unasked for.
THEOREM ForwardsToDestination == Spec => []AddressedRight
<1>1. Inv => AddressedRight
  <2> SUFFICES ASSUME Inv, NEW p \in Packets, NEW k \in 1..Len(log[p]),
                      log[p][k].what = "forwarded"
               PROVE  /\ Header[p].dst \in Hosts
                      /\ log[p][k].interface = RouteOf[Header[p].dst].interface
                      /\ log[p][k].mac \in Cards[Header[p].dst]
    BY DEF AddressedRight
  <2>1. log[p] \in Seq(Allowed(p))
    BY DEF Inv, LogsAllowed
  <2>2. log[p][k] \in Allowed(p)
    BY <2>1, ElementsOf
  <2> QED
    BY <2>2 DEF Allowed
<1> QED
  BY <1>1, RouterInvariance, PTL

\* Only packets with a right checksum, time to live and a route are passed on,
\* although those that waited are checked only when the reply arrives.
THEOREM ForwardsOnlyFit == Spec => []ForwardedFit
<1>1. Inv => ForwardedFit
  <2> SUFFICES ASSUME Inv, NEW p \in Packets, NEW k \in 1..Len(log[p]),
                      log[p][k].what = "forwarded"
               PROVE  Header[p].ok /\ Header[p].ttl > 1 /\ RouteOf[Header[p].dst] # NoRoute
    BY DEF ForwardedFit
  <2>1. log[p] \in Seq(Allowed(p))
    BY DEF Inv, LogsAllowed
  <2>2. log[p][k] \in Allowed(p)
    BY <2>1, ElementsOf
  <2> QED
    BY <2>2 DEF Allowed
<1> QED
  BY <1>1, RouterInvariance, PTL

-----------------------------------------------------------------------------
(* A packet is in one place, and what is sent twice stands for what was lost *)

\* A packet arrives once, where its sender is attached.
WireOnce ==
    \A i \in Ifaces : \A k, l \in 1..Len(rx[i]) : \A p \in Packets :
        rx[i][k] = IpFrame(p) =>
            /\ HostIf[Header[p].src] = i
            /\ rx[i][l] = IpFrame(p) => k = l

\* A packet is at its sender, received, in the queue, or has its outcome.
OnePlace ==
    \A p \in Packets :
        /\ p \in unsent => ~OnWire(p) /\ ~Waits(p) /\ ~Settled(p)
        /\ OnWire(p) => ~Waits(p) /\ ~Settled(p)
        /\ Waits(p) => ~Settled(p)

\* All pointers of the queue but one were queued for packets now overwritten.
QueueReplaces == queued <= 1 + Cardinality(Overwritten)

CopiesInv ==
    /\ WireOnce
    /\ OnePlace
    /\ IsFiniteSet(Sent)
    /\ QueueReplaces
    /\ TtlCounted
    /\ CopiesReplace

\* Reading a frame takes its packet off the wire, and no other.
LEMMA GetPacketWire ==
    ASSUME Inv, WireOnce, NEW i \in Ifaces, GetPacket(i)
    PROVE  /\ WireOnce'
           /\ \A q \in Packets : OnWire(q)' => OnWire(q)
           /\ \A p \in Packets :
                Head(rx[i]) = IpFrame(p) =>
                    OnWire(p) /\ ~OnWire(p)' /\ HostIf[Header[p].src] = i
<1>1. /\ rx[i] # <<>>
      /\ rx[i] \in Seq(Frames)
      /\ rx' = [rx EXCEPT ![i] = Tail(@)]
      /\ rx \in [Ifaces -> Seq(Frames)]
  BY DEF Inv, TypeOK, GetPacket
<1>2. /\ rx'[i] = Tail(rx[i])
      /\ \A j \in Ifaces \ {i} : rx'[j] = rx[j]
  BY <1>1
<1>3. /\ Head(rx[i]) = rx[i][1]
      /\ 1 \in 1..Len(rx[i])
      /\ \A k \in 1..Len(rx'[i]) : /\ k + 1 \in 1..Len(rx[i])
                                   /\ k + 1 # 1
                                   /\ rx'[i][k] = rx[i][k + 1]
  BY <1>1, <1>2
<1>4. ASSUME NEW q \in Packets, OnWire(q)'
      PROVE  OnWire(q)
  <2>1. PICK j \in Ifaces : \E k \in 1..Len(rx'[j]) : rx'[j][k] = IpFrame(q)
    BY <1>4 DEF OnWire, IpFrame
  <2>2. CASE j = i
    BY <1>3, <2>1, <2>2 DEF OnWire
  <2>3. CASE j # i
    BY <1>2, <2>1, <2>3 DEF OnWire
  <2> QED
    BY <2>2, <2>3
<1>5. ASSUME NEW j \in Ifaces, NEW k \in 1..Len(rx'[j]), NEW l \in 1..Len(rx'[j]),
             NEW p \in Packets, rx'[j][k] = IpFrame(p)
      PROVE  HostIf[Header[p].src] = j /\ (rx'[j][l] = IpFrame(p) => k = l)
  <2>1. CASE j = i
    <3>1. /\ k + 1 \in 1..Len(rx[i]) /\ rx[i][k + 1] = IpFrame(p)
          /\ l + 1 \in 1..Len(rx[i]) /\ rx'[i][l] = rx[i][l + 1]
      BY <1>3, <1>5, <2>1
    <3>2. HostIf[Header[p].src] = i /\ (rx[i][l + 1] = IpFrame(p) => k + 1 = l + 1)
      BY <3>1 DEF WireOnce
    <3>3. k \in Int /\ l \in Int
      OBVIOUS
    <3> QED
      BY <2>1, <3>1, <3>2, <3>3
  <2>2. CASE j # i
    BY <1>2, <1>5, <2>2 DEF WireOnce
  <2> QED
    BY <2>1, <2>2
<1>6. WireOnce'
  BY <1>5 DEF WireOnce, IpFrame
<1>7. ASSUME NEW p \in Packets, Head(rx[i]) = IpFrame(p)
      PROVE  OnWire(p) /\ ~OnWire(p)' /\ HostIf[Header[p].src] = i
  <2>1. rx[i][1] = IpFrame(p)
    BY <1>3, <1>7
  <2>2. OnWire(p) /\ HostIf[Header[p].src] = i
    BY <1>3, <2>1 DEF OnWire, WireOnce
  <2>3. SUFFICES ASSUME NEW j \in Ifaces, NEW k \in 1..Len(rx'[j]), rx'[j][k] = IpFrame(p)
                 PROVE  FALSE
    BY <2>2 DEF OnWire, IpFrame
  <2>4. j = i
    BY <1>6, <2>2, <2>3 DEF WireOnce, IpFrame
  <2>5. k + 1 \in 1..Len(rx[i]) /\ k + 1 # 1 /\ rx[i][k + 1] = IpFrame(p)
    BY <1>3, <2>3, <2>4
  <2> QED
    BY <1>3, <2>1, <2>5 DEF WireOnce
<1> QED
  BY <1>4, <1>6, <1>7

\* Receiving a frame puts at most its own packet on the wire.
LEMMA ReceiveWire ==
    ASSUME Inv, WireOnce, NEW i \in Ifaces, NEW f \in Frames, Receive(i, f),
           \A p \in Packets : f = IpFrame(p) => ~OnWire(p) /\ HostIf[Header[p].src] = i
    PROVE  /\ WireOnce'
           /\ \A q \in Packets : OnWire(q)' => OnWire(q) \/ f = IpFrame(q)
<1>1. /\ rx[i] \in Seq(Frames)
      /\ rx' = [rx EXCEPT ![i] = Append(@, f)]
      /\ rx \in [Ifaces -> Seq(Frames)]
  BY DEF Inv, TypeOK, Receive
<1>2. /\ rx'[i] = Append(rx[i], f)
      /\ \A j \in Ifaces \ {i} : rx'[j] = rx[j]
  BY <1>1
<1>3. \A k \in 1..Len(rx'[i]) : \/ k \in 1..Len(rx[i]) /\ rx'[i][k] = rx[i][k]
                                \/ k = Len(rx[i]) + 1 /\ rx'[i][k] = f
  BY <1>1, <1>2
<1>4. ASSUME NEW q \in Packets, OnWire(q)'
      PROVE  OnWire(q) \/ f = IpFrame(q)
  <2>1. PICK j \in Ifaces : \E k \in 1..Len(rx'[j]) : rx'[j][k] = IpFrame(q)
    BY <1>4 DEF OnWire, IpFrame
  <2>2. CASE j = i
    BY <1>3, <2>1, <2>2 DEF OnWire
  <2>3. CASE j # i
    BY <1>2, <2>1, <2>3 DEF OnWire
  <2> QED
    BY <2>2, <2>3
<1>5. ASSUME NEW j \in Ifaces, NEW k \in 1..Len(rx'[j]), NEW l \in 1..Len(rx'[j]),
             NEW p \in Packets, rx'[j][k] = IpFrame(p)
      PROVE  HostIf[Header[p].src] = j /\ (rx'[j][l] = IpFrame(p) => k = l)
  <2>1. CASE j # i
    BY <1>2, <1>5, <2>1 DEF WireOnce
  <2>2. CASE j = i /\ f = IpFrame(p)
    <3>1. \A m \in 1..Len(rx[i]) : rx[i][m] # IpFrame(p)
      BY <2>2 DEF OnWire
    <3> QED
      BY <1>3, <1>5, <2>2, <3>1
  <2>3. CASE j = i /\ f # IpFrame(p)
    BY <1>3, <1>5, <2>3 DEF WireOnce
  <2> QED
    BY <2>1, <2>2, <2>3
<1>6. WireOnce'
  BY <1>5 DEF WireOnce, IpFrame
<1> QED
  BY <1>4, <1>6

\* The first entry of a log.
LEMMA FirstEntry ==
    ASSUME Inv, NEW p \in Packets, log[p] = <<>>, NEW e
    PROVE  [log EXCEPT ![p] = Append(@, e)] = [log EXCEPT ![p] = <<e>>]
<1>1. Append(<<>>, e) = <<e>>
  OBVIOUS
<1> QED
  BY <1>1

\* Only packets that were sent are lost, so that they can be counted.
LEMMA OverwrittenFinite ==
    ASSUME CopiesInv
    PROVE  IsFiniteSet(Overwritten) /\ Cardinality(Overwritten) \in Nat
<1>1. Overwritten \in SUBSET Sent
  BY DEF Overwritten
<1> QED
  BY <1>1, FS_Subset, FS_CardinalityType DEF CopiesInv

\* What is overwritten stays so unless a step brings it back.
LEMMA OverwrittenGrows ==
    ASSUME CopiesInv, IsFiniteSet(Sent'), NEW S, S \subseteq Overwritten',
           Overwritten \subseteq S
    PROVE  /\ Cardinality(Overwritten) \in Nat
           /\ Cardinality(S) \in Nat
           /\ Cardinality(Overwritten') \in Nat
           /\ Cardinality(Overwritten) <= Cardinality(S)
           /\ Cardinality(S) <= Cardinality(Overwritten')
<1>1. Overwritten' \in SUBSET Sent'
  BY DEF Overwritten
<1>2. IsFiniteSet(Overwritten')
  BY <1>1, FS_Subset
<1>3. S \in SUBSET Overwritten' /\ Overwritten \in SUBSET S
  OBVIOUS
<1>4. IsFiniteSet(S) /\ Cardinality(S) <= Cardinality(Overwritten')
  BY <1>2, <1>3, FS_Subset
<1>5. Cardinality(Overwritten) <= Cardinality(S)
  BY <1>3, <1>4, FS_Subset
<1> QED
  BY <1>2, <1>4, <1>5, OverwrittenFinite, FS_CardinalityType

\* The counts when the logs stay and no packet is brought back.
LEMMA CountsStay ==
    ASSUME Inv, CopiesInv, IsFiniteSet(Sent'), Overwritten \subseteq Overwritten',
           UNCHANGED log
    PROVE  /\ TtlCounted' /\ CopiesReplace'
           /\ queued' = queued => QueueReplaces'
<1>1. /\ Cardinality(Overwritten) \in Nat
      /\ Cardinality(Overwritten') \in Nat
      /\ Cardinality(Overwritten) <= Cardinality(Overwritten')
  BY OverwrittenGrows
<1>2. TtlCounted'
  BY DEF CopiesInv, TtlCounted
<1>3. ASSUME NEW p \in Packets
      PROVE  Len(log'[p]) <= 1 + Cardinality(Overwritten')
  <2>1. Len(log[p]) \in Nat /\ Len(log[p]) <= 1 + Cardinality(Overwritten)
    BY DEF Inv, TypeOK, CopiesInv, CopiesReplace
  <2> QED
    BY <1>1, <2>1
<1>4. CopiesReplace'
  BY <1>3 DEF CopiesReplace
<1>5. queued \in Nat /\ queued <= 1 + Cardinality(Overwritten)
  BY DEF Inv, TypeOK, CopiesInv, QueueReplaces
<1>6. queued' = queued => QueueReplaces'
  BY <1>1, <1>5 DEF QueueReplaces
<1> QED
  BY <1>2, <1>4, <1>6

\* A step that settles nothing, queues nothing and sends no packet.
LEMMA CopiesQuiet ==
    ASSUME Inv, CopiesInv, WireOnce', \A q \in Packets : OnWire(q)' => OnWire(q),
           UNCHANGED <<m_aux, queued, unsent, log>>
    PROVE  CopiesInv'
<1>1. IsFiniteSet(Sent')
  BY DEF CopiesInv, Sent
<1>2. Overwritten \subseteq Overwritten'
  BY DEF Overwritten, Sent, Waits, Settled
<1>3. OnePlace'
  BY DEF CopiesInv, OnePlace, Waits, Settled
<1> QED
  BY <1>1, <1>2, <1>3, CountsStay DEF CopiesInv

\* A step that settles p, which arrived or waited, with the entries of s.
LEMMA CopiesSettle ==
    ASSUME Inv, CopiesInv, WireOnce', \A q \in Packets : OnWire(q)' => OnWire(q),
           NEW p \in Packets, NEW s, log' = [log EXCEPT ![p] = s], s # <<>>,
           Len(s) \in Nat, Len(s) <= 1 + Cardinality(Overwritten),
           \A k \in 1..Len(s) : s[k].what = "forwarded" => s[k].ttl = TtlAfter(p, k),
           ~OnWire(p)', UNCHANGED <<m_aux, unsent>>,
           \/ OnWire(p) /\ UNCHANGED queued
           \/ Waits(p) /\ queued' = 0
    PROVE  CopiesInv'
<1>1. /\ ~Settled(p) /\ p \notin unsent /\ (OnWire(p) => ~Waits(p))
      /\ OnWire(p) \/ Waits(p)
  BY DEF CopiesInv, OnePlace
<1>2. /\ log'[p] = s
      /\ \A q \in Packets \ {p} : log'[q] = log[q]
  BY DEF Inv, TypeOK
<1>3. \A q \in Packets : Waits(q)' => Waits(q) /\ q # p
  BY <1>1 DEF Waits
<1>4. ASSUME NEW q \in Overwritten
      PROVE  q \in Overwritten'
  <2>1. q \in Packets /\ q \in Sent /\ ~OnWire(q) /\ ~Waits(q) /\ ~Settled(q) /\ q # p
    BY <1>1 DEF Overwritten, Sent
  <2>2. ~Settled(q)'
    BY <1>2, <2>1 DEF Settled
  <2> QED
    BY <1>3, <2>1, <2>2 DEF Overwritten, Sent
<1>5. IsFiniteSet(Sent')
  BY DEF CopiesInv, Sent
<1>6. /\ Cardinality(Overwritten) \in Nat
      /\ Cardinality(Overwritten') \in Nat
      /\ Cardinality(Overwritten) <= Cardinality(Overwritten')
  BY <1>4, <1>5, OverwrittenGrows
<1>7. OnePlace'
  <2>1. p \notin unsent' /\ ~OnWire(p)' /\ ~Waits(p)'
    BY <1>1, <1>3
  <2>2. ASSUME NEW q \in Packets, q # p
        PROVE  /\ q \in unsent' => ~OnWire(q)' /\ ~Waits(q)' /\ ~Settled(q)'
               /\ OnWire(q)' => ~Waits(q)' /\ ~Settled(q)'
               /\ Waits(q)' => ~Settled(q)'
    <3>1. Settled(q)' = Settled(q)
      BY <1>2, <2>2 DEF Settled
    <3> QED
      BY <1>3, <3>1 DEF CopiesInv, OnePlace
  <2> QED
    BY <2>1, <2>2 DEF OnePlace
<1>8. QueueReplaces'
  <2>1. queued \in Nat /\ queued <= 1 + Cardinality(Overwritten)
    BY DEF Inv, TypeOK, CopiesInv, QueueReplaces
  <2>2. queued' = queued \/ queued' = 0
    OBVIOUS
  <2> QED
    BY <1>6, <2>1, <2>2 DEF QueueReplaces
<1>9. TtlCounted'
  <2>1. ASSUME NEW q \in Packets, NEW k \in 1..Len(log'[q]), log'[q][k].what = "forwarded"
        PROVE  log'[q][k].ttl = (Header[q].ttl - k) % 256
    <3>1. CASE q = p
      BY <1>2, <2>1, <3>1 DEF TtlAfter
    <3>2. CASE q # p
      BY <1>2, <2>1, <3>2 DEF CopiesInv, TtlCounted
    <3> QED
      BY <3>1, <3>2
  <2> QED
    BY <2>1 DEF TtlCounted
<1>10. ASSUME NEW q \in Packets
       PROVE  Len(log'[q]) <= 1 + Cardinality(Overwritten')
  <2>1. CASE q = p
    BY <1>2, <1>6, <2>1
  <2>2. CASE q # p
    <3>1. Len(log[q]) \in Nat /\ Len(log[q]) <= 1 + Cardinality(Overwritten)
      BY DEF Inv, TypeOK, CopiesInv, CopiesReplace
    <3> QED
      BY <1>2, <1>6, <2>2, <3>1
  <2> QED
    BY <2>1, <2>2
<1>11. CopiesReplace'
  BY <1>10 DEF CopiesReplace
<1> QED
  BY <1>5, <1>7, <1>8, <1>9, <1>11 DEF CopiesInv

\* The frame that was read is the IP frame of its packet.
LEMMA ReadFrame ==
    ASSUME Inv, CopiesInv, NEW i \in Ifaces, NEW p \in Packets, Received(i, p)
    PROVE  /\ WireOnce'
           /\ \A q \in Packets : OnWire(q)' => OnWire(q)
           /\ OnWire(p) /\ ~OnWire(p)' /\ HostIf[Header[p].src] = i
<1>1. GetPacket(i) /\ Head(rx[i]).kind = "ip" /\ Head(rx[i]).packet = p
  BY DEF Received
<1>2. Head(rx[i]) = IpFrame(p)
  BY <1>1, GetPacketHonest DEF FramesAt, Requests, Replies, Datagrams, IpFrame
<1> QED
  BY <1>1, <1>2, GetPacketWire DEF CopiesInv

\* A packet copied over one that waits: one pointer more, one packet less.
LEMMA CopiesEnqueue ==
    ASSUME Inv, CopiesInv, NEW i \in Ifaces, NEW p \in Packets, Enqueue(i, p)
    PROVE  CopiesInv'
<1>1. /\ Received(i, p)
      /\ m_aux' = p
      /\ queued' = queued + 1
      /\ UNCHANGED <<unsent, log>>
  BY DEF Enqueue, Forwardable
<1>2. /\ WireOnce'
      /\ \A q \in Packets : OnWire(q)' => OnWire(q)
      /\ OnWire(p) /\ ~OnWire(p)'
  BY <1>1, ReadFrame
<1>3. ~Waits(p) /\ ~Settled(p) /\ p \notin unsent
  BY <1>2 DEF CopiesInv, OnePlace
<1>4. queued \in Nat /\ queued <= 1 + Cardinality(Overwritten)
  BY DEF Inv, TypeOK, CopiesInv, QueueReplaces
<1>5. \A q \in Packets : Waits(q)' => q = p
  BY <1>1 DEF Waits
<1>6. OnePlace'
  BY <1>1, <1>2, <1>3, <1>5 DEF CopiesInv, OnePlace, Settled
<1>7. IsFiniteSet(Sent')
  BY <1>1 DEF CopiesInv, Sent
<1>8. Overwritten \subseteq Overwritten'
  BY <1>1, <1>2, <1>5 DEF Overwritten, Sent, Settled
<1>9. QueueReplaces'
  <2>1. CASE queued = 0
    BY <1>1, <1>7, <1>8, <2>1, OverwrittenGrows DEF QueueReplaces
  <2>2. CASE queued > 0
    <3>1. m_aux \in Packets /\ Waits(m_aux) /\ m_aux # p
      BY <1>3, <2>2 DEF Waits, Inv, TypeOK, QueueUnresolved
    <3>2. m_aux \notin unsent /\ ~OnWire(m_aux) /\ ~Settled(m_aux)
      BY <3>1 DEF CopiesInv, OnePlace
    <3>3. m_aux \in Overwritten' /\ m_aux \notin Overwritten
      BY <1>1, <1>2, <1>5, <3>1, <3>2 DEF Overwritten, Sent, Settled
    <3> DEFINE S == Overwritten \cup {m_aux}
    <3>4. Cardinality(S) = Cardinality(Overwritten) + 1
      BY <3>3, OverwrittenFinite, FS_AddElement
    <3>5. S \subseteq Overwritten' /\ Overwritten \subseteq S
      BY <1>8, <3>3
    <3> HIDE DEF S
    <3>6. /\ Cardinality(Overwritten) \in Nat
          /\ Cardinality(Overwritten') \in Nat
          /\ Cardinality(S) <= Cardinality(Overwritten')
      BY <1>7, <3>5, OverwrittenGrows
    <3> QED
      BY <1>1, <1>4, <3>4, <3>6 DEF QueueReplaces
  <2> QED
    BY <1>4, <2>1, <2>2
<1> QED
  BY <1>1, <1>2, <1>6, <1>7, <1>8, <1>9, CountsStay DEF CopiesInv

LEMMA CopiesSend ==
    ASSUME Inv, CopiesInv, NEW p \in Packets, SendPacket(p)
    PROVE  CopiesInv'
<1> DEFINE i == HostIf[Header[p].src]
<1>1. /\ p \in unsent
      /\ Receive(i, IpFrame(p))
      /\ unsent' = unsent \ {p}
      /\ UNCHANGED <<m_aux, queued, log>>
      /\ unsent \subseteq Packets
  BY DEF SendPacket, router, Inv, TypeOK
<1>2. ~OnWire(p) /\ ~Waits(p) /\ ~Settled(p)
  BY <1>1 DEF CopiesInv, OnePlace
<1>3. IpFrame(p) \in Frames /\ i \in Ifaces
  BY RouterAssumption DEF IpFrame, Frames, Datagrams
<1>4. \A q \in Packets : IpFrame(p) = IpFrame(q) => p = q
  BY DEF IpFrame
<1>5. /\ WireOnce'
      /\ \A q \in Packets : OnWire(q)' => OnWire(q) \/ q = p
  BY <1>1, <1>2, <1>3, <1>4, ReceiveWire DEF CopiesInv
<1>6. \A q \in Packets : (Settled(q)' <=> Settled(q)) /\ (Waits(q)' <=> Waits(q))
  BY <1>1 DEF Settled, Waits
<1>7. OnePlace'
  BY <1>1, <1>2, <1>5, <1>6 DEF CopiesInv, OnePlace
<1>8. IsFiniteSet(Sent')
  <2>1. Sent' = Sent \cup {p}
    BY <1>1 DEF Sent
  <2> QED
    BY <2>1, FS_AddElement DEF CopiesInv
<1>9. Overwritten \subseteq Overwritten'
  BY <1>1, <1>5, <1>6 DEF Overwritten, Sent
<1> QED
  BY <1>1, <1>5, <1>7, <1>8, <1>9, CountsStay DEF CopiesInv

\* The frames that carry no packet.
LEMMA CopiesOtherFrames ==
    ASSUME Inv, CopiesInv, NEW i \in Ifaces, NEW f \in Requests \cup Replies,
           Receive(i, f), UNCHANGED <<m_aux, queued, unsent, log>>
    PROVE  CopiesInv'
<1>1. f \in Frames /\ \A p \in Packets : f # IpFrame(p)
  BY DEF Frames, Requests, Replies, IpFrame
<1>2. WireOnce' /\ \A q \in Packets : OnWire(q)' => OnWire(q)
  BY <1>1, ReceiveWire DEF CopiesInv
<1> QED
  BY <1>2, CopiesQuiet

LEMMA CopiesHosts ==
    ASSUME Inv, CopiesInv, HostStep
    PROVE  CopiesInv'
<1>1. ASSUME NEW h \in Hosts, AskRouter(h)
      PROVE  CopiesInv'
  <2>1. [kind |-> "request", from |-> h] \in Requests /\ HostIf[h] \in Ifaces
    BY RouterAssumption DEF Requests
  <2> QED
    BY <1>1, <2>1, CopiesOtherFrames DEF AskRouter, router
<1>2. ASSUME NEW h \in Hosts, NEW c \in Cards[h], AnswerRequest(h, c) \/ Announce(h, c)
      PROVE  CopiesInv'
  <2>1. [kind |-> "reply", spa |-> h, sha |-> c] \in Replies /\ HostIf[h] \in Ifaces
    BY RouterAssumption DEF Replies
  <2> QED
    BY <1>2, <2>1, CopiesOtherFrames DEF AnswerRequest, Announce, router
<1>3. ASSUME NEW h \in Hosts, LoseRequest(h)
      PROVE  CopiesInv'
  <2>1. UNCHANGED <<m_aux, queued, rx, unsent, log>>
    BY <1>3 DEF LoseRequest, router
  <2>2. WireOnce' /\ \A q \in Packets : OnWire(q)' => OnWire(q)
    BY <2>1 DEF CopiesInv, WireOnce, OnWire, IpFrame
  <2> QED
    BY <2>1, <2>2, CopiesQuiet
<1>4. ASSUME NEW p \in Packets, SendPacket(p)
      PROVE  CopiesInv'
  BY <1>4, CopiesSend
<1> QED
  BY <1>1, <1>2, <1>3, <1>4 DEF HostStep

LEMMA CopiesReply ==
    ASSUME Inv, CopiesInv, NEW i \in Ifaces, HandleArpReply(i)
    PROVE  CopiesInv'
<1>1. PICK spa, sha :
        /\ GetPacket(i)
        /\ Release(i, spa, sha) \/ Discard(spa) \/ PutBack(spa)
        /\ UNCHANGED <<m_aux, unsent>>
  BY DEF HandleArpReply
<1>2. WireOnce' /\ \A q \in Packets : OnWire(q)' => OnWire(q)
  BY <1>1, GetPacketWire DEF CopiesInv
<1>3. CASE PutBack(spa)
  BY <1>1, <1>2, <1>3, CopiesQuiet DEF PutBack
<1>4. ASSUME Due(spa), queued' = 0, NEW s, log' = [log EXCEPT ![m_aux] = @ \o s],
             <<>> \o s = s, s # <<>>, Len(s) \in Nat, Len(s) <= queued,
             \A k \in 1..Len(s) : s[k].what = "forwarded" => s[k].ttl = TtlAfter(m_aux, k)
      PROVE  CopiesInv'
  <2>1. PICK p \in Packets : p = m_aux /\ Waits(p)
    BY <1>4 DEF Due, Waits, Inv, TypeOK, QueueUnresolved
  <2>2. log[p] = <<>> /\ ~OnWire(p)
    BY <2>1 DEF CopiesInv, OnePlace, Settled
  <2>3. log' = [log EXCEPT ![p] = s]
    BY <1>4, <2>1, <2>2
  <2>4. Len(s) \in Nat /\ Len(s) <= 1 + Cardinality(Overwritten)
    BY <1>4, OverwrittenFinite DEF Inv, TypeOK, CopiesInv, QueueReplaces
  <2>5. ~OnWire(p)'
    BY <1>2, <2>2
  <2> QED
    BY <1>1, <1>2, <1>4, <2>1, <2>3, <2>4, <2>5, CopiesSettle
<1>5. CASE Release(i, spa, sha)
  <2> DEFINE s == [k \in 1..queued |-> [what |-> "forwarded", interface |-> i,
                                        mac |-> sha, ttl |-> TtlAfter(m_aux, k)]]
  <2>1. Due(spa) /\ queued' = 0 /\ log' = [log EXCEPT ![m_aux] = @ \o s]
    BY <1>5 DEF Release, EmptyQueue
  <2>2. queued \in Nat /\ queued > 0
    BY <2>1 DEF Due, Inv, TypeOK
  <2>3. Len(s) = queued /\ s # <<>> /\ \A k \in 1..Len(s) : s[k].ttl = TtlAfter(m_aux, k)
    BY <2>2
  <2>4. <<>> \o s = s /\ Len(s) \in Nat /\ Len(s) <= queued
    BY <2>2, <2>3
  <2> HIDE DEF s
  <2> QED
    BY <1>4, <2>1, <2>3, <2>4
<1>6. CASE Discard(spa)
  <2>1. Due(spa) /\ queued' = 0 /\ log' = [log EXCEPT ![m_aux] = Append(@, Dropped)]
    BY <1>6 DEF Discard, EmptyQueue
  <2>2. /\ m_aux \in Packets /\ log[m_aux] \in Seq(Outcomes) /\ Dropped \in Outcomes
        /\ queued \in Nat /\ queued > 0
    BY <2>1 DEF Due, Inv, TypeOK, QueueUnresolved, Outcomes
  <2>3. Append(log[m_aux], Dropped) = log[m_aux] \o <<Dropped>>
    BY <2>2, AppendIsConcat
  <2>4. log' = [log EXCEPT ![m_aux] = @ \o <<Dropped>>]
    BY <2>1, <2>3
  <2> DEFINE s == <<Dropped>>
  <2>5. /\ <<>> \o s = s /\ s # <<>>
        /\ Len(s) \in Nat /\ Len(s) <= queued
        /\ \A k \in 1..Len(s) : s[k].what # "forwarded"
    BY <2>2 DEF Dropped
  <2>6. log' = [log EXCEPT ![m_aux] = @ \o s]
    BY <2>4
  <2> HIDE DEF s
  <2> QED
    BY <1>4, <2>1, <2>5, <2>6
<1> QED
  BY <1>1, <1>3, <1>5, <1>6

LEMMA CopiesAnswer ==
    ASSUME Inv, CopiesInv, NEW i \in Ifaces, NEW p \in Packets,
           Echo(i, p) \/ HostUnreachable(i, p) \/ TimeExceeded(i, p) \/ Forward(i, p)
    PROVE  CopiesInv'
<1>1. Received(i, p) /\ UNCHANGED <<m_aux, queued, unsent>>
  BY DEF Echo, HostUnreachable, TimeExceeded, Forward, Forwardable
<1>2. /\ WireOnce' /\ \A q \in Packets : OnWire(q)' => OnWire(q)
      /\ OnWire(p) /\ ~OnWire(p)'
  BY <1>1, ReadFrame
<1>3. PICK e : /\ log' = [log EXCEPT ![p] = Append(@, e)]
               /\ e.what = "forwarded" => e.ttl = TtlAfter(p, 1)
  <2>1. CASE Echo(i, p) \/ HostUnreachable(i, p) \/ TimeExceeded(i, p)
    <3>1. PICK w \in {"echo", "unreachable", "exceeded"} : Answer(p, w, i)
      BY <2>1 DEF Echo, HostUnreachable, TimeExceeded
    <3> DEFINE e == [what |-> w, interface |-> i]
    <3>2. log' = [log EXCEPT ![p] = Append(@, e)] /\ e.what # "forwarded"
      BY <3>1 DEF Answer
    <3> HIDE DEF e
    <3> QED
      BY <3>2
  <2>2. CASE Forward(i, p)
    <3> DEFINE sent == [what |-> "forwarded", interface |-> RouteOf[Header[p].dst].interface,
                        mac |-> arp[Header[p].dst], ttl |-> TtlAfter(p, 1)]
               e == IF ChecksumRight(p) THEN sent ELSE Dropped
    <3>1. log' = [log EXCEPT ![p] = Append(@, e)]
      BY <2>2 DEF Forward
    <3>2. e.what = "forwarded" => e.ttl = TtlAfter(p, 1)
      BY DEF Dropped
    <3> HIDE DEF e
    <3> QED
      BY <3>1, <3>2
  <2> QED
    BY <2>1, <2>2
<1>4. log[p] = <<>>
  BY <1>2 DEF CopiesInv, OnePlace, Settled
<1>5. log' = [log EXCEPT ![p] = <<e>>]
  BY <1>3, <1>4, FirstEntry
<1> DEFINE s == <<e>>
<1>6. /\ s # <<>> /\ Len(s) = 1
      /\ \A k \in 1..Len(s) : s[k].what = "forwarded" => s[k].ttl = TtlAfter(p, k)
  BY <1>3
<1>7. Len(s) \in Nat /\ Len(s) <= 1 + Cardinality(Overwritten)
  BY <1>6, OverwrittenFinite
<1> HIDE DEF s
<1>8. log' = [log EXCEPT ![p] = s]
  BY <1>5 DEF s
<1> QED
  BY <1>1, <1>2, <1>6, <1>7, <1>8, CopiesSettle

LEMMA CopiesRouter ==
    ASSUME Inv, CopiesInv, RouterStep
    PROVE  CopiesInv'
<1>1. ASSUME NEW i \in Ifaces, HandleArpRequest(i)
      PROVE  CopiesInv'
  <2>1. GetPacket(i) /\ UNCHANGED <<m_aux, queued, unsent, log>>
    BY <1>1 DEF HandleArpRequest
  <2>2. WireOnce' /\ \A q \in Packets : OnWire(q)' => OnWire(q)
    BY <2>1, GetPacketWire DEF CopiesInv
  <2> QED
    BY <2>1, <2>2, CopiesQuiet
<1>2. ASSUME NEW i \in Ifaces, HandleArpReply(i)
      PROVE  CopiesInv'
  BY <1>2, CopiesReply
<1>3. ASSUME NEW i \in Ifaces, NEW p \in Packets, HandleIp(i, p)
      PROVE  CopiesInv'
  BY <1>3, CopiesEnqueue, CopiesAnswer DEF HandleIp
<1> QED
  BY <1>1, <1>2, <1>3 DEF RouterStep

LEMMA CopiesInit == Init => CopiesInv
<1> SUFFICES ASSUME Init PROVE CopiesInv
  OBVIOUS
<1>1. \A p \in Packets : ~OnWire(p) /\ ~Waits(p) /\ ~Settled(p) /\ Len(log[p]) = 0
  BY Len(<<>>) = 0 DEF Init, OnWire, Waits, Settled
<1>2. WireOnce
  BY Len(<<>>) = 0 DEF Init, WireOnce
<1>3. Sent = {} /\ Overwritten = {} /\ queued = 0
  BY DEF Init, Sent, Overwritten
<1>4. IsFiniteSet(Sent) /\ Cardinality(Overwritten) = 0
  BY <1>3, FS_EmptySet
<1>5. TtlCounted
  BY <1>1 DEF TtlCounted
<1> QED
  BY <1>1, <1>2, <1>3, <1>4, <1>5 DEF CopiesInv, OnePlace, QueueReplaces, CopiesReplace

LEMMA CopiesNext == Inv /\ CopiesInv /\ [Next]_vars => CopiesInv'
<1> SUFFICES ASSUME Inv, CopiesInv, [Next]_vars
             PROVE  CopiesInv'
  OBVIOUS
<1>1. CASE Next
  BY <1>1, CopiesHosts, CopiesRouter DEF Next
<1>2. CASE UNCHANGED vars
  <2>1. WireOnce' /\ \A q \in Packets : OnWire(q)' => OnWire(q)
    BY <1>2 DEF vars, CopiesInv, WireOnce, OnWire, IpFrame
  <2> QED
    BY <1>2, <2>1, CopiesQuiet DEF vars
<1> QED
  BY <1>1, <1>2

\* A packet is in one place, and pointers and copies stand for packets lost.
THEOREM CopiesInvariance == Spec => []CopiesInv
  BY CopiesInit, CopiesNext, RouterInvariance, PTL DEF Spec

\* Whether a packet waited or not, it leaves only if it may, where it is to go,
\* with a TTL lower by the number of times it has left, and again only in place
\* of packets the router overwrote.
THEOREM ForwardsRightly == Spec => []ForwardedRight
<1>1. CopiesInv => TtlCounted /\ CopiesReplace
  BY DEF CopiesInv
<1> QED
  BY <1>1, ForwardsToDestination, ForwardsOnlyFit, CopiesInvariance, PTL DEF ForwardedRight

-----------------------------------------------------------------------------
(* One packet at a time waits for an ARP reply: every packet gets one outcome *)

\* The packets for the router are for the address a sender has as its gateway;
\* for another of its addresses the router looks for a route.
OwnGateway ==
    \A p \in Packets :
        Header[p].dst \in RouterIps => Header[p].dst = IpOf[HostIf[Header[p].src]]

OneOutcome == \A p \in Packets : Settled(p) => Len(log[p]) = 1

\* The queue holds one pointer at most: what waits is the one packet sent and
\* not settled that needs ARP.
Needy(p) == p \in Packets \ unsent /\ ~Settled(p) /\ NeedsArp(p)
OneNeedy == \A p, q : Needy(p) /\ Needy(q) => p = q
WaitingNeedy ==
    /\ queued <= 1
    /\ queued > 0 => Needy(m_aux)

PacedInv == OneOutcome /\ OneNeedy /\ WaitingNeedy

\* The router never forgets a card.
Learns == \A d \in Dests : arp[d] # NoMac => arp'[d] # NoMac

LEMMA NeedsLess ==
    ASSUME Learns, NEW p \in Packets, NeedsArp(p)'
    PROVE  NeedsArp(p)
<1>1. Header[p].dst \in Dests
  BY RouterAssumption
<1> QED
  BY <1>1 DEF NeedsArp, Learns, Unreachable, Expired

\* A step that settles nothing and queues nothing.
LEMMA PacedQuiet ==
    ASSUME Inv', PacedInv, Learns, UNCHANGED <<m_aux, queued, unsent, log>>
    PROVE  PacedInv'
<1>1. ASSUME NEW p, Needy(p)'
      PROVE  Needy(p)
  BY <1>1, NeedsLess DEF Needy, Settled
<1>2. OneNeedy'
  BY <1>1 DEF PacedInv, OneNeedy
<1>3. WaitingNeedy'
  BY DEF Inv, QueueUnresolved, PacedInv, WaitingNeedy, Needy, NeedsArp, Settled,
     Unreachable, Expired
<1>4. OneOutcome'
  BY DEF PacedInv, OneOutcome, Settled
<1> QED
  BY <1>2, <1>3, <1>4 DEF PacedInv

\* A step that settles p, which arrived or waited, with outcome e.
LEMMA PacedSettle ==
    ASSUME Inv, Inv', CopiesInv, PacedInv, Learns, NEW p \in Packets, NEW e,
           log' = [log EXCEPT ![p] = <<e>>], UNCHANGED <<m_aux, unsent>>,
           \/ OnWire(p) /\ UNCHANGED queued
           \/ Waits(p) /\ queued' = 0
    PROVE  PacedInv' /\ log[p] = <<>>
<1>1. log[p] = <<>> /\ p \notin unsent /\ (OnWire(p) => ~Waits(p))
  BY DEF CopiesInv, OnePlace, Settled
<1>2. /\ log'[p] = <<e>>
      /\ \A q \in Packets \ {p} : log'[q] = log[q]
      /\ <<e>> # <<>>
      /\ Len(<<e>>) = 1
  BY DEF Inv, TypeOK
<1>3. ASSUME NEW q, Needy(q)'
      PROVE  Needy(q)
  BY <1>2, <1>3, NeedsLess DEF Needy, Settled
<1>4. OneNeedy'
  BY <1>3 DEF PacedInv, OneNeedy
<1>5. WaitingNeedy'
  <2>1. CASE queued' = 0
    BY <2>1 DEF WaitingNeedy
  <2>2. CASE UNCHANGED queued /\ ~Waits(p)
    <3>1. SUFFICES ASSUME queued > 0 PROVE queued <= 1 /\ Needy(m_aux)'
      BY <2>2, <3>1 DEF PacedInv, WaitingNeedy
    <3>2. Needy(m_aux) /\ m_aux # p /\ arp'[Header[m_aux].dst] = NoMac
      BY <2>2, <3>1 DEF Inv, QueueUnresolved, PacedInv, WaitingNeedy, Waits
    <3>3. Needy(m_aux)'
      BY <1>2, <3>2 DEF Needy, NeedsArp, Settled, Unreachable, Expired
    <3> QED
      BY <3>3 DEF PacedInv, WaitingNeedy
  <2> QED
    BY <1>1, <2>1, <2>2
<1>6. OneOutcome'
  BY <1>2 DEF PacedInv, OneOutcome, Settled
<1> QED
  BY <1>1, <1>4, <1>5, <1>6 DEF PacedInv

\* A packet that the router cannot send on yet is the only one.
LEMMA PacedEnqueue ==
    ASSUME Inv, CopiesInv, PacedInv, NEW i \in Ifaces, NEW p \in Packets, Enqueue(i, p)
    PROVE  PacedInv'
<1>1. /\ Received(i, p)
      /\ ~ToRouter(i, p) /\ ~Unreachable(p) /\ ~Expired(p)
      /\ arp[Header[p].dst] = NoMac
      /\ m_aux' = p
      /\ queued' = queued + 1
      /\ UNCHANGED <<arp, unsent, log>>
  BY DEF Enqueue, Forwardable
<1>2. OnWire(p) /\ HostIf[Header[p].src] = i
  BY <1>1, ReadFrame
<1>3. ~Waits(p) /\ ~Settled(p) /\ p \notin unsent
  BY <1>2 DEF CopiesInv, OnePlace
<1>4. Needy(p)
  BY <1>1, <1>2, <1>3 DEF Needy, NeedsArp, ToRouter
<1>5. queued = 0
  <2>1. ~(queued > 0)
    BY <1>3, <1>4 DEF PacedInv, WaitingNeedy, OneNeedy, Waits
  <2> QED
    BY <2>1 DEF Inv, TypeOK
<1>6. \A q : Needy(q)' <=> Needy(q)
  BY <1>1 DEF Needy, NeedsArp, Settled, Unreachable, Expired
<1>7. OneNeedy' /\ WaitingNeedy'
  BY <1>1, <1>4, <1>5, <1>6 DEF PacedInv, OneNeedy, WaitingNeedy
<1>8. OneOutcome'
  BY <1>1 DEF PacedInv, OneOutcome, Settled
<1> QED
  BY <1>7, <1>8 DEF PacedInv

\* The rule of the pace: a packet that would have to wait is sent when no other does.
LEMMA PacedSendPacket ==
    ASSUME Paced, Inv, CopiesInv, PacedInv, NEW p \in Packets, SendPacket(p)
    PROVE  PacedInv'
<1>1. /\ p \in unsent
      /\ NeedsArp(p) => \A q \in Sent : NeedsArp(q) => Settled(q)
      /\ unsent' = unsent \ {p}
      /\ UNCHANGED <<arp, m_aux, queued, log>>
  BY DEF SendPacket, router
<1>2. ~Waits(p)
  BY <1>1 DEF CopiesInv, OnePlace
<1>3. OneOutcome'
  BY <1>1 DEF PacedInv, OneOutcome, Settled
<1>4. \A q \in Packets : (NeedsArp(q)' <=> NeedsArp(q)) /\ (Settled(q)' <=> Settled(q))
  BY <1>1 DEF NeedsArp, Unreachable, Expired, Settled
<1>5. ASSUME NEW q, Needy(q)'
      PROVE  Needy(q) \/ (q = p /\ NeedsArp(p))
  BY <1>1, <1>4, <1>5 DEF Needy
<1>6. NeedsArp(p) => \A q : ~Needy(q)
  BY <1>1 DEF Needy, Sent
<1>7. OneNeedy'
  BY <1>5, <1>6 DEF PacedInv, OneNeedy
<1>8. WaitingNeedy'
  BY <1>1, <1>2 DEF PacedInv, WaitingNeedy, Needy, NeedsArp, Settled, Waits,
     Unreachable, Expired
<1> QED
  BY <1>3, <1>7, <1>8 DEF PacedInv

\* What Forwarding sees of the logs.
Results == [p \in Packets |-> Outcome(p)]

LEMMA Settles ==
    ASSUME Inv, NEW p \in Packets, NEW e, e \in Promise!Owed(p), log[p] = <<>>,
           log' = [log EXCEPT ![p] = <<e>>]
    PROVE  Promise!Next
<1>1. /\ log'[p] = <<e>>
      /\ \A q \in Packets \ {p} : log'[q] = log[q]
  BY DEF Inv, TypeOK
<1>2. Outcome(p) = None
  BY DEF Outcome
<1>3. Len(<<e>>) = 1 /\ <<e>>[1] = e /\ <<e>> # <<>>
  OBVIOUS
<1>4. Outcome(p)' = e
  BY <1>1, <1>3 DEF Outcome
<1>5. \A q \in Packets \ {p} : Outcome(q)' = Outcome(q)
  BY <1>1 DEF Outcome
<1> QED
  BY <1>2, <1>4, <1>5 DEF Promise!Next, Promise!Settle

\* One decrement of a TTL above 1 stays in its byte.
LEMMA TtlOnce ==
    ASSUME NEW p \in Packets, Header[p].ttl > 1
    PROVE  TtlAfter(p, 1) = Header[p].ttl - 1
<1>1. Header[p].ttl \in 0..255
  BY RouterAssumption
<1>2. \A n \in 0..255 : n > 1 => (n - 1) % 256 = n - 1
  OBVIOUS
<1> QED
  BY <1>1, <1>2 DEF TtlAfter

\* What is owed to a packet that may be passed on, or fails only the checksum.
LEMMA OwedForward ==
    ASSUME OwnGateway, NEW p \in Packets, ~(Header[p].ttl <= 1), Header[p].dst \in Hosts,
           NEW c \in Cards[Header[p].dst]
    PROVE  /\ Header[p].ok =>
                [what |-> "forwarded", interface |-> RouteOf[Header[p].dst].interface,
                 mac |-> c, ttl |-> TtlAfter(p, 1)] \in Promise!Owed(p)
           /\ ~Header[p].ok => Dropped \in Promise!Owed(p)
<1> DEFINE h == Header[p].dst
<1>1. RouteOf[h] = [interface |-> HostIf[h], next_hop |-> h]
  BY DirectRoutes
<1>2. RouteOf[h].next_hop = h
  BY <1>1
<1>3. [interface |-> HostIf[h], next_hop |-> h] \in Routes
  BY RouterAssumption DEF Routes, Dests
<1>4. RouteOf[h] # NoRoute /\ h \notin RouterIps
  BY <1>1, <1>3, RouterAssumption
<1>5. TtlAfter(p, 1) = Header[p].ttl - 1
  <2>1. Header[p].ttl \in 0..255
    BY RouterAssumption
  <2>2. Header[p].ttl > 1
    BY <2>1
  <2> QED
    BY <2>2, TtlOnce
<1> QED
  BY <1>2, <1>4, <1>5 DEF Promise!Owed, Dropped

\* A packet that was read is settled by one step of Forwarding.
LEMMA MapAnswer ==
    ASSUME OwnGateway, Inv, Inv', CopiesInv, PacedInv, NEW i \in Ifaces, NEW p \in Packets,
           Echo(i, p) \/ HostUnreachable(i, p) \/ TimeExceeded(i, p) \/ Forward(i, p)
    PROVE  PacedInv' /\ Promise!Next
<1>1. Received(i, p) /\ UNCHANGED <<arp, m_aux, queued, unsent>>
  BY DEF Echo, HostUnreachable, TimeExceeded, Forward, Forwardable
<1>2. OnWire(p) /\ HostIf[Header[p].src] = i
  BY <1>1, ReadFrame
<1>3. log[p] = <<>>
  BY <1>2 DEF CopiesInv, OnePlace, Settled
<1>4. Learns
  BY <1>1 DEF Learns
<1>5. Header[p].dst \in RouterIps => ToRouter(i, p)
  BY <1>2 DEF OwnGateway, ToRouter
<1>6. ToRouter(i, p) => Header[p].dst \in RouterIps
  BY RouterAssumption DEF ToRouter
<1>7. \E e \in Promise!Owed(p) : log' = [log EXCEPT ![p] = Append(@, e)]
  <2>1. CASE Echo(i, p)
    BY <1>2, <1>6, <2>1 DEF Echo, Answer, Promise!Owed
  <2>2. CASE HostUnreachable(i, p)
    BY <1>2, <1>5, <2>2 DEF HostUnreachable, Unreachable, Answer, Promise!Owed
  <2>3. CASE TimeExceeded(i, p)
    BY <1>2, <1>5, <2>3 DEF TimeExceeded, Unreachable, Expired, Answer, Promise!Owed
  <2>4. CASE Forward(i, p)
    <3>1. /\ arp[Header[p].dst] # NoMac
          /\ ~(Header[p].ttl <= 1)
          /\ Header[p].dst \in Dests
      BY <2>4, RouterAssumption DEF Forward, Forwardable, Expired
    <3>2. Header[p].dst \in Hosts /\ arp[Header[p].dst] \in Cards[Header[p].dst]
      BY <3>1 DEF Inv, TableHonest
    <3> QED
      BY <2>4, <3>1, <3>2, OwedForward DEF Forward, ChecksumRight
  <2> QED
    BY <2>1, <2>2, <2>3, <2>4
<1>8. PICK e \in Promise!Owed(p) : log' = [log EXCEPT ![p] = <<e>>]
  BY <1>3, <1>7, FirstEntry
<1>9. PacedInv'
  BY <1>1, <1>2, <1>4, <1>8, PacedSettle
<1>10. Promise!Next
  BY <1>3, <1>8, Settles
<1> QED
  BY <1>9, <1>10

\* A reply settles the packet that waited for it, if there is one.
LEMMA MapReply ==
    ASSUME OwnGateway, Inv, Inv', CopiesInv, PacedInv, NEW i \in Ifaces, HandleArpReply(i)
    PROVE  PacedInv' /\ (Promise!Next \/ UNCHANGED log)
<1>1. PICK spa, sha :
        /\ GetPacket(i)
        /\ Head(rx[i]).kind = "reply" /\ Head(rx[i]).spa = spa /\ Head(rx[i]).sha = sha
        /\ UpdateArp(spa, sha)
        /\ Release(i, spa, sha) \/ Discard(spa) \/ PutBack(spa)
        /\ UNCHANGED <<m_aux, unsent>>
  BY DEF HandleArpReply
<1>2. spa \in Hosts /\ HostIf[spa] = i /\ sha \in Cards[spa]
  BY <1>1, GetPacketHonest DEF FramesAt, Requests, Replies, Datagrams
<1>3. Learns
  BY <1>1, <1>2, RouterAssumption DEF Learns, UpdateArp, Inv, TypeOK
<1>4. CASE PutBack(spa)
  BY <1>1, <1>3, <1>4, PacedQuiet DEF PutBack
<1>5. ASSUME Due(spa), queued' = 0,
             NEW e, log' = [log EXCEPT ![m_aux] = @ \o <<e>>],
             Header[m_aux].ok => e = [what |-> "forwarded", interface |-> i, mac |-> sha,
                                      ttl |-> TtlAfter(m_aux, 1)],
             ~Header[m_aux].ok => e = Dropped
      PROVE  PacedInv' /\ Promise!Next
  <2>1. m_aux \in Packets /\ Waits(m_aux) /\ Header[m_aux].dst = spa /\ ~(Header[m_aux].ttl <= 1)
    <3>1. m_aux \in Packets /\ Waits(m_aux) /\ Header[m_aux].dst = spa /\ Header[m_aux].ttl > 1
      BY <1>5 DEF Due, Waits, Inv, TypeOK, QueueUnresolved, WaitingFit
    <3>2. Header[m_aux].ttl \in 0..255
      BY <3>1, RouterAssumption
    <3> QED
      BY <3>1, <3>2
  <2>2. log[m_aux] = <<>>
    BY <2>1 DEF CopiesInv, OnePlace, Settled
  <2>3. <<>> \o <<e>> = <<e>>
    OBVIOUS
  <2>4. log' = [log EXCEPT ![m_aux] = <<e>>]
    BY <1>5, <2>2, <2>3
  <2>5. RouteOf[spa].interface = i
    <3>1. RouteOf[spa] = [interface |-> HostIf[spa], next_hop |-> spa]
      BY <1>2, DirectRoutes
    <3>2. RouteOf[spa].interface = HostIf[spa]
      BY <3>1
    <3> QED
      BY <1>2, <3>2
  <2>6. e \in Promise!Owed(m_aux)
    BY <1>2, <1>5, <2>1, <2>5, OwedForward
  <2>7. PICK p \in Packets : p = m_aux
    BY <2>1
  <2>8. PacedInv'
    BY <1>1, <1>3, <1>5, <2>1, <2>4, <2>7, PacedSettle
  <2>9. Promise!Next
    BY <2>2, <2>4, <2>6, <2>7, Settles
  <2> QED
    BY <2>8, <2>9
<1>6. CASE Release(i, spa, sha)
  <2>1. /\ Due(spa) /\ Header[m_aux].ok
        /\ queued' = 0
        /\ log' = [log EXCEPT ![m_aux] = @ \o
                [k \in 1..queued |-> [what |-> "forwarded", interface |-> i,
                                      mac |-> sha, ttl |-> TtlAfter(m_aux, k)]]]
    BY <1>6 DEF Release, ChecksumRight, EmptyQueue
  <2>2. queued = 1
    BY <2>1 DEF Due, PacedInv, WaitingNeedy, Inv, TypeOK
  <2> DEFINE E(k) == [what |-> "forwarded", interface |-> i, mac |-> sha,
                      ttl |-> TtlAfter(m_aux, k)]
  <2>3. [k \in 1..1 |-> E(k)] = <<E(1)>>
    <3> HIDE DEF E
    <3> QED
      OBVIOUS
  <2>4. log' = [log EXCEPT ![m_aux] = @ \o <<E(1)>>]
    BY <2>1, <2>2, <2>3
  <2> QED
    BY <1>5, <2>1, <2>4
<1>7. CASE Discard(spa)
  <2>1. /\ Due(spa) /\ ~Header[m_aux].ok
        /\ queued' = 0
        /\ log' = [log EXCEPT ![m_aux] = Append(@, Dropped)]
    BY <1>7 DEF Discard, ChecksumRight, EmptyQueue
  <2>2. m_aux \in Packets /\ log[m_aux] \in Seq(Outcomes) /\ Dropped \in Outcomes
    BY <2>1 DEF Due, Inv, TypeOK, QueueUnresolved, Outcomes
  <2>3. Append(log[m_aux], Dropped) = log[m_aux] \o <<Dropped>>
    BY <2>2, AppendIsConcat
  <2>4. log' = [log EXCEPT ![m_aux] = @ \o <<Dropped>>]
    BY <2>1, <2>3
  <2> QED
    BY <1>5, <2>1, <2>4
<1> QED
  BY <1>1, <1>4, <1>5, <1>6, <1>7 DEF PutBack

LEMMA MapHosts ==
    ASSUME Paced, Inv, Inv', CopiesInv, PacedInv, HostStep
    PROVE  PacedInv' /\ UNCHANGED log
<1>1. CASE UNCHANGED <<arp, m_aux, queued, unsent, log>>
  BY <1>1, PacedQuiet DEF Learns
<1>2. CASE \E p \in Packets : SendPacket(p)
  BY <1>2, PacedSendPacket DEF SendPacket
<1> QED
  BY <1>1, <1>2 DEF HostStep, AskRouter, LoseRequest, AnswerRequest, Announce, router

LEMMA MapRouter ==
    ASSUME OwnGateway, Inv, Inv', CopiesInv, PacedInv, RouterStep
    PROVE  PacedInv' /\ (Promise!Next \/ UNCHANGED log)
<1>1. ASSUME NEW i \in Ifaces, HandleArpRequest(i)
      PROVE  PacedInv' /\ UNCHANGED log
  BY <1>1, PacedQuiet DEF HandleArpRequest, Learns
<1>2. ASSUME NEW i \in Ifaces, HandleArpReply(i)
      PROVE  PacedInv' /\ (Promise!Next \/ UNCHANGED log)
  BY <1>2, MapReply
<1>3. ASSUME NEW i \in Ifaces, NEW p \in Packets, HandleIp(i, p)
      PROVE  PacedInv' /\ (Promise!Next \/ UNCHANGED log)
  <2>1. CASE Enqueue(i, p)
    BY <2>1, PacedEnqueue DEF Enqueue
  <2>2. CASE Echo(i, p) \/ HostUnreachable(i, p) \/ TimeExceeded(i, p) \/ Forward(i, p)
    BY <2>2, MapAnswer
  <2> QED
    BY <1>3, <2>1, <2>2 DEF HandleIp
<1> QED
  BY <1>1, <1>2, <1>3 DEF RouterStep

LEMMA ForwardingInit == Init => PacedInv /\ Promise!Init
<1> SUFFICES ASSUME Init PROVE PacedInv /\ Promise!Init
  OBVIOUS
<1>1. \A p \in Packets : ~Settled(p) /\ Outcome(p) = None
  BY DEF Init, Settled, Outcome
<1>2. \A p : ~Needy(p)
  BY DEF Init, Needy
<1>3. queued = 0
  BY DEF Init
<1> QED
  BY <1>1, <1>2, <1>3 DEF PacedInv, OneOutcome, OneNeedy, WaitingNeedy, Promise!Init

LEMMA ForwardingNext ==
    Paced /\ OwnGateway /\ Inv /\ Inv' /\ CopiesInv /\ PacedInv /\ [Next]_vars =>
        PacedInv' /\ [Promise!Next]_Results
<1> SUFFICES ASSUME Paced, OwnGateway, Inv, Inv', CopiesInv, PacedInv, [Next]_vars
             PROVE  PacedInv' /\ [Promise!Next]_Results
  OBVIOUS
<1>1. ASSUME UNCHANGED log
      PROVE  UNCHANGED Results
  BY <1>1 DEF Results, Outcome
<1>2. CASE Next
  BY <1>1, <1>2, MapHosts, MapRouter DEF Next
<1>3. CASE UNCHANGED vars
  BY <1>1, <1>3, PacedQuiet DEF vars, Learns
<1> QED
  BY <1>2, <1>3

\* When one packet at a time waits for an ARP reply, router.c with its queue,
\* its ARP table and its late checks does what Forwarding owes every packet:
\* one outcome, the right one, whatever order replies, losses and packets come in.
THEOREM PacedImplementsForwarding ==
    Paced /\ OwnGateway => (Spec => ImplementsForwarding)
<1> SUFFICES ASSUME Paced, OwnGateway PROVE Spec => ImplementsForwarding
  OBVIOUS
<1>1. Init => PacedInv /\ Promise!Init
  BY ForwardingInit
<1>2. Inv /\ Inv' /\ CopiesInv /\ PacedInv /\ [Next]_vars => PacedInv' /\ [Promise!Next]_Results
  BY ForwardingNext
<1> QED
  BY <1>1, <1>2, RouterInvariance, CopiesInvariance, PTL
     DEF Spec, ImplementsForwarding, Promise!Spec, Results
=============================================================================
