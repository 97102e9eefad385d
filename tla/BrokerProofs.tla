---------------------------- MODULE BrokerProofs ----------------------------
(***************************************************************************)
(* Proofs about Broker, for any number of processes, IDs, topics and       *)
(* descriptors and any capacities.                                         *)
(***************************************************************************)
EXTENDS Broker, SequenceTheorems, TLAPS

InBacklog(s) == \E i \in 1 .. Len(backlog) : backlog[i] = s
Accepted(s) == \E f \in Fds : peer[f] = s

\* A process has at most one connection, waiting or accepted, and none before
\* it connects.
PeersDistinct ==
    \A f, g \in Fds : peer[f] = peer[g] /\ peer[f] # None => f = g
BacklogDistinct ==
    \A i, j \in 1 .. Len(backlog) : backlog[i] = backlog[j] => i = j
WaitingNotAccepted ==
    \A i \in 1 .. Len(backlog) : ~Accepted(backlog[i])
NewUnseen ==
    \A s \in Subscribers :
        state[s] = "new" => toServer[s] = <<>> /\ ~Accepted(s) /\ ~InBacklog(s)

ConnInv == PeersDistinct /\ BacklogDistinct /\ WaitingNotAccepted /\ NewUnseen

\* Only an open socket carries an ID.
RegisteredOpen == \A f \in Fds : clients[f] # NoId => peer[f] # None

Inv == TypeOK /\ ConnInv /\ SnapshotValid /\ RegisteredOpen /\ OneRegistrationPerId

\* With users that wait, a pipe holds nothing, or the ID of a process that is
\* not accepted yet, or one command of a registered one.
Paced == ~Eager

LiveOpen ==
    \A s \in Subscribers : state[s] \in {"connected", "running"} => link[s] = "open"
ConnectedSilent ==
    \A s \in Subscribers :
        state[s] = "connected" => toServer[s] = <<>> /\ ~Accepted(s)
PipeShort ==
    \A s \in Subscribers :
        \/ toServer[s] = <<>>
        \/ Len(toServer[s]) = 1 /\ toServer[s][1] = Hello /\ ~Accepted(s)
        \/ Len(toServer[s]) = 1 /\ toServer[s][1] # Hello /\ Registered(s)

PacedInv ==
    /\ LiveOpen
    /\ ConnectedSilent
    /\ PipeShort
    /\ SubscribersRegistered

-----------------------------------------------------------------------------
\* The part of TypeOK that handlers change, by the operator that changes it.

LEMMA ConsumeType ==
    ASSUME NEW s, NEW n \in Nat, TypeOK, Consume(s, n)
    PROVE  toServer' \in [Subscribers -> Seq(Commands \cup {Hello})]
<1>1. CASE s \in Subscribers
  <2>1. toServer[s] \in Seq(Commands \cup {Hello})
    BY <1>1 DEF TypeOK
  <2>2. SubSeq(toServer[s], n + 1, Len(toServer[s])) \in Seq(Commands \cup {Hello})
    BY <2>1, SubSeqProperties
  <2>3. QED
    BY <1>1, <2>2 DEF TypeOK, Consume
<1>2. CASE s \notin Subscribers
  BY <1>2 DEF TypeOK, Consume
<1>3. QED
  BY <1>1, <1>2

LEMMA DeliverType ==
    ASSUME NEW s, NEW m \in Topics \cup {Warning}, TypeOK, Deliver(s, m)
    PROVE  /\ toClient' \in [Subscribers -> Seq(Topics \cup {Warning})]
           /\ link' \in [Subscribers -> {"closed", "open", "fin", "reset", "broken"}]
<1>1. CASE s \in Subscribers
  <2>1. toClient[s] \in Seq(Topics \cup {Warning})
    BY <1>1 DEF TypeOK
  <2>2. Append(toClient[s], m) \in Seq(Topics \cup {Warning})
    BY <2>1
  <2>3. QED
    BY <1>1, <2>2 DEF TypeOK, Deliver
<1>2. CASE s \notin Subscribers
  BY <1>2 DEF TypeOK, Deliver
<1>3. QED
  BY <1>1, <1>2

LEMMA CloseType ==
    ASSUME NEW s, NEW rest, TypeOK, Close(s, rest)
    PROVE  /\ state' \in [Subscribers -> {"new", "connected", "running", "done"}]
           /\ link' \in [Subscribers -> {"closed", "open", "fin", "reset", "broken"}]
           /\ toClient' \in [Subscribers -> Seq(Topics \cup {Warning})]
           /\ view' \in [Subscribers -> SUBSET Topics]
<1>1. <<>> \in Seq(Topics \cup {Warning})
  OBVIOUS
<1>2. QED
  BY <1>1 DEF TypeOK, Close

\* The listeners are no client descriptors.
LEMMA FdFacts ==
    /\ Stdin \notin Fds /\ UdpSock \notin Fds /\ TcpSock \notin Fds
    /\ Fds \subseteq Int
<1>1. Fds \subseteq {n \in Nat : n >= 5}
  BY BrokerAssumption
<1>2. QED
  BY <1>1 DEF Stdin, UdpSock, TcpSock

LEMMA TypeInit == Init => TypeOK
<1>1. /\ <<>> \in Seq(Subscribers)
      /\ <<>> \in Seq(Datagrams)
      /\ <<>> \in Seq(Commands \cup {Hello})
      /\ <<>> \in Seq(Topics \cup {Warning})
  OBVIOUS
<1>2. ASSUME Init
      PROVE  /\ toServer \in [Subscribers -> Seq(Commands \cup {Hello})]
             /\ toClient \in [Subscribers -> Seq(Topics \cup {Warning})]
             /\ backlog \in Seq(Subscribers)
             /\ udp \in Seq(Datagrams)
  BY <1>1, <1>2 DEF Init
<1>3. ASSUME Init
      PROVE  /\ clients \in [Fds -> Registrable \cup {NoId}]
             /\ online \in [Topics -> SUBSET Fds]
             /\ peer \in [Fds -> Subscribers \cup {None}]
             /\ link \in [Subscribers -> {"closed", "open", "fin", "reset", "broken"}]
             /\ state \in [Subscribers -> {"new", "connected", "running", "done"}]
             /\ view \in [Subscribers -> SUBSET Topics]
  BY <1>3 DEF Init
<1>4. ASSUME Init
      PROVE  /\ status \in {"running", "exited", "died"}
             /\ read_fds \subseteq Listeners \cup Fds
             /\ tmp_fds \subseteq Listeners \cup Fds
             /\ buf \in BOOLEAN
             /\ outgoing \subseteq Topics \X Fds
             /\ stdin \in Lines \cup {"none"}
  BY <1>4 DEF Init
<1>5. QED
  BY <1>2, <1>3, <1>4 DEF TypeOK

LEMMA SnapshotFacts ==
    ASSUME TypeOK, SnapshotValid
    PROVE  /\ At(UdpSock) => /\ udp # <<>>
                             /\ Head(udp) \in Datagrams
                             /\ Tail(udp) \in Seq(Datagrams)
           /\ At(TcpSock) => /\ backlog # <<>>
                             /\ Head(backlog) \in Subscribers
                             /\ Tail(backlog) \in Seq(Subscribers)
           /\ \A f \in Fds :
                At(f) => /\ peer[f] \in Subscribers
                         /\ toServer[peer[f]] # <<>> \/ link[peer[f]] # "open"
<1>1. At(UdpSock) => udp # <<>>
  BY FdFacts DEF SnapshotValid, At, Ready, Stdin, UdpSock, TcpSock
<1>2. At(TcpSock) => backlog # <<>>
  BY FdFacts DEF SnapshotValid, At, Ready, Stdin, UdpSock, TcpSock
<1>3. ASSUME NEW f \in Fds, At(f)
      PROVE  /\ peer[f] # None
             /\ toServer[peer[f]] # <<>> \/ link[peer[f]] # "open"
  BY <1>3, FdFacts DEF SnapshotValid, At, Ready
<1>4. QED
  BY <1>1, <1>2, <1>3 DEF TypeOK

LEMMA TypeNext == TypeOK /\ SnapshotValid /\ [Next]_vars => TypeOK'
<1> SUFFICES ASSUME TypeOK, SnapshotValid, [Next]_vars
             PROVE  TypeOK'
  OBVIOUS
<1> USE DEF serverVars, netVars, clientVars
<1>1. CASE Select
  BY <1>1 DEF TypeOK, Select
<1>2. CASE HandleStdin
  BY <1>2 DEF TypeOK, HandleStdin, Done
<1>3. CASE HandleUdp
  <2>1. udp' \in Seq(Datagrams)
    BY <1>3, SnapshotFacts DEF HandleUdp
  <2>2. outgoing' \subseteq Topics \X Fds
    <3>1. Head(udp).topic \in Topics
      BY <1>3, SnapshotFacts, BrokerAssumption DEF HandleUdp
    <3>2. QED
      BY <1>3, <3>1 DEF TypeOK, HandleUdp, Recipients
  <2>3. QED
    BY <1>3, <2>1, <2>2 DEF TypeOK, HandleUdp, Done
<1>4. ASSUME NEW t \in Topics, NEW f \in Fds, SendOne(t, f)
      PROVE  TypeOK'
  <2>1. CASE Die
    BY <2>1 DEF TypeOK, Die
  <2>2. CASE Deliver(peer[f], t) /\ outgoing' = outgoing \ {<<t, f>>}
             /\ UNCHANGED <<status, read_fds, tmp_fds, clients, online, buf>>
             /\ UNCHANGED <<peer, backlog, udp, stdin, toServer, clientVars>>
    BY <2>2, DeliverType DEF TypeOK
  <2>3. QED
    BY <1>4, <2>1, <2>2 DEF SendOne
<1>5. CASE AcceptFails
  BY <1>5 DEF TypeOK, AcceptFails, Die
<1>6. ASSUME NEW f \in Fds, Accept(f)
       PROVE  TypeOK'
  <2> DEFINE s == Head(backlog)
  <2>1. s \in Subscribers /\ Tail(backlog) \in Seq(Subscribers)
    BY <1>6, SnapshotFacts DEF Accept
  <2>2. toServer' \in [Subscribers -> Seq(Commands \cup {Hello})]
    BY <1>6, ConsumeType DEF Accept
  <2>3. /\ toClient' \in [Subscribers -> Seq(Topics \cup {Warning})]
        /\ link' \in [Subscribers -> {"closed", "open", "fin", "reset", "broken"}]
    BY <1>6, DeliverType DEF Accept, Admit, TypeOK
  <2>4. ReceivedIds(s) \subseteq Registrable \cup {NoId}
    BY <2>1, BrokerAssumption DEF ReceivedIds, Registrable
  <2>5. clients' \in [Fds -> Registrable \cup {NoId}]
    BY <1>6, <2>4 DEF Accept, Admit, TypeOK
  <2>6. QED
    BY <1>6, <2>1, <2>2, <2>3, <2>5 DEF Accept, TypeOK, Watch, Done
<1>7. ASSUME NEW f \in Fds, HandleCommand(f)
      PROVE  TypeOK'
  <2>1. toServer' \in [Subscribers -> Seq(Commands \cup {Hello})]
    BY <1>7, ConsumeType DEF HandleCommand
  <2>2. online' \in [Topics -> SUBSET Fds]
    BY <1>7 DEF TypeOK, HandleCommand, Subscribe, Unsubscribe
  <2>3. QED
    BY <1>7, <2>1, <2>2 DEF TypeOK, HandleCommand, Done
<1>8. ASSUME NEW f \in Fds, HandleHangUp(f)
      PROVE  TypeOK'
  <2>1. online' \in [Topics -> SUBSET Fds]
    BY <1>8 DEF TypeOK, HandleHangUp, Forget, Offline
  <2>2. clients' \in [Fds -> Registrable \cup {NoId}]
    BY <1>8 DEF TypeOK, HandleHangUp, Forget
  <2>3. QED
    BY <1>8, <2>1, <2>2 DEF TypeOK, HandleHangUp, CloseSocket, Done
<1>9. ASSUME NEW f \in Fds, HandleReset(f)
      PROVE  TypeOK'
  BY <1>9 DEF TypeOK, HandleReset, Die
<1>10. ASSUME NEW s \in Subscribers, Connect(s)
      PROVE  TypeOK'
  BY <1>10 DEF TypeOK, Connect
<1>11. ASSUME NEW s \in Subscribers, SendId(s)
       PROVE  TypeOK'
  BY <1>11 DEF TypeOK, SendId
<1>12. ASSUME NEW s \in Subscribers, NEW com \in Commands, Command(s, com)
       PROVE  TypeOK'
  BY <1>12 DEF TypeOK, Command, ViewAfter, Commands
<1>13. ASSUME NEW s \in Subscribers, Recv(s)
       PROVE  TypeOK'
  <2>1. CASE Close(s, Tail(toClient[s]))
             /\ UNCHANGED <<serverVars, peer, backlog, udp, stdin, toServer>>
    BY <2>1, CloseType DEF TypeOK
  <2>2. CASE toClient' = [toClient EXCEPT ![s] = Tail(@)]
             /\ UNCHANGED <<state, link, view>>
             /\ UNCHANGED <<serverVars, peer, backlog, udp, stdin, toServer>>
    BY <1>13, <2>2 DEF TypeOK, Recv
  <2>3. QED
    BY <1>13, <2>1, <2>2 DEF Recv
<1>14. ASSUME NEW s \in Subscribers, ServerGone(s)
       PROVE  TypeOK'
  BY <1>14, CloseType DEF TypeOK, ServerGone
<1>15. ASSUME NEW s \in Subscribers, Exit(s)
       PROVE  TypeOK'
  BY <1>15, CloseType DEF TypeOK, Exit
<1>16. ASSUME NEW d \in Datagrams, Publish(d)
       PROVE  TypeOK'
  BY <1>16 DEF TypeOK, Publish
<1>17. ASSUME NEW l \in Lines, TypeLine(l)
       PROVE  TypeOK'
  BY <1>17 DEF TypeOK, TypeLine
<1>18. CASE UNCHANGED vars
  BY <1>18 DEF TypeOK, vars
<1>19. QED
  BY <1>1, <1>2, <1>3, <1>4, <1>5, <1>6, <1>7, <1>8, <1>9, <1>10, <1>11, <1>12,
     <1>13, <1>14, <1>15, <1>16, <1>17, <1>18
     DEF Next, ServerStep, HandleClient, SubscriberStep, HandleAccept

-----------------------------------------------------------------------------
\* Steps that touch neither connections nor pipes.
LEMMA ConnFrame ==
    ConnInv /\ UNCHANGED <<peer, backlog, state, toServer>> => ConnInv'
BY DEF ConnInv, PeersDistinct, BacklogDistinct, WaitingNotAccepted, NewUnseen,
       Accepted, InBacklog

\* A process that is not new stays so, and may send.
LEMMA ConnSend ==
    ASSUME TypeOK, ConnInv, NEW s \in Subscribers, state[s] # "new",
           UNCHANGED <<peer, backlog>>,
           NEW st \in {"connected", "running", "done"},
           state' = [state EXCEPT ![s] = st] \/ UNCHANGED state,
           NEW pipe,
           toServer' = [toServer EXCEPT ![s] = pipe] \/ UNCHANGED toServer
    PROVE  ConnInv'
<1>1. ASSUME NEW r \in Subscribers, state'[r] = "new"
      PROVE  r # s /\ state[r] = "new" /\ toServer'[r] = toServer[r]
  BY <1>1 DEF TypeOK
<1>2. NewUnseen'
  BY <1>1 DEF ConnInv, NewUnseen, Accepted, InBacklog
<1>3. QED
  BY <1>2 DEF ConnInv, PeersDistinct, BacklogDistinct, WaitingNotAccepted,
              Accepted

LEMMA ConnAccept ==
    ASSUME TypeOK, SnapshotValid, ConnInv, NEW f \in Fds, Accept(f)
    PROVE  ConnInv'
<1> DEFINE s == Head(backlog)
<1>1. /\ s \in Subscribers
      /\ backlog \in Seq(Subscribers)
      /\ backlog # <<>>
  BY SnapshotFacts DEF Accept, TypeOK
<1>2. s = backlog[1] /\ 1 \in 1 .. Len(backlog)
  BY <1>1
<1>3. /\ Len(backlog') = Len(backlog) - 1
      /\ \A i \in 1 .. Len(backlog') :
            i + 1 \in 1 .. Len(backlog) /\ backlog'[i] = backlog[i + 1]
  BY <1>1 DEF Accept
<1>4. ~Accepted(s) /\ state[s] # "new"
  BY <1>1, <1>2 DEF ConnInv, WaitingNotAccepted, NewUnseen, InBacklog
<1>5. peer' = [peer EXCEPT ![f] = s] /\ UNCHANGED state
  BY DEF Accept, clientVars
<1>6. \A r \in Subscribers : Accepted(r)' => Accepted(r) \/ r = s
  BY <1>5 DEF Accepted, TypeOK
<1>7. PeersDistinct'
  BY <1>4, <1>5 DEF ConnInv, PeersDistinct, Accepted, TypeOK
<1>8. BacklogDistinct'
  <2> SUFFICES ASSUME NEW i \in 1 .. Len(backlog'), NEW j \in 1 .. Len(backlog'),
                      backlog'[i] = backlog'[j]
               PROVE  i = j
    BY DEF BacklogDistinct
  <2>1. i + 1 = j + 1
    BY <1>3 DEF ConnInv, BacklogDistinct
  <2>2. i \in Int /\ j \in Int
    OBVIOUS
  <2>3. QED
    BY <2>1, <2>2
<1>9. WaitingNotAccepted'
  <2> SUFFICES ASSUME NEW i \in 1 .. Len(backlog')
               PROVE  ~Accepted(backlog[i])'
    BY DEF WaitingNotAccepted
  <2>1. i + 1 \in 1 .. Len(backlog) /\ backlog'[i] = backlog[i + 1]
    BY <1>3
  <2>2. backlog[i + 1] # s
    BY <1>2, <2>1 DEF ConnInv, BacklogDistinct
  <2>3. ~Accepted(backlog[i + 1])
    BY <2>1 DEF ConnInv, WaitingNotAccepted
  <2>4. backlog[i + 1] \in Subscribers
    BY <2>1, <1>1
  <2>5. \A g \in Fds : peer'[g] # backlog[i + 1]
    BY <1>5, <2>2, <2>3 DEF Accepted, TypeOK
  <2>6. QED
    BY <2>1, <2>5 DEF Accepted
<1>10. NewUnseen'
  <2> SUFFICES ASSUME NEW r \in Subscribers, state'[r] = "new"
               PROVE  toServer'[r] = <<>> /\ ~Accepted(r)' /\ ~InBacklog(r)'
    BY DEF NewUnseen
  <2>1. r # s /\ toServer[r] = <<>> /\ ~Accepted(r) /\ ~InBacklog(r)
    BY <1>4, <1>5 DEF ConnInv, NewUnseen
  <2>2. toServer'[r] = toServer[r]
    BY <2>1 DEF Accept, Consume, TypeOK
  <2>3. ~InBacklog(r)'
    BY <1>3, <2>1 DEF InBacklog
  <2>4. QED
    BY <1>6, <2>1, <2>2, <2>3
<1>11. QED
  BY <1>7, <1>8, <1>9, <1>10 DEF ConnInv

LEMMA ConnConnect ==
    ASSUME TypeOK, ConnInv, NEW s \in Subscribers, Connect(s)
    PROVE  ConnInv'
<1>1. /\ backlog' = Append(backlog, s)
      /\ backlog \in Seq(Subscribers)
      /\ state' = [state EXCEPT ![s] = "connected"]
      /\ UNCHANGED <<peer, toServer>>
  BY DEF Connect, TypeOK
<1>2. /\ Len(backlog') = Len(backlog) + 1
      /\ Len(backlog) \in Nat
      /\ backlog'[Len(backlog) + 1] = s
      /\ \A i \in 1 .. Len(backlog) : backlog'[i] = backlog[i]
  BY <1>1
<1>3. ~Accepted(s) /\ \A i \in 1 .. Len(backlog) : backlog[i] # s
  BY DEF Connect, ConnInv, NewUnseen, InBacklog
<1>4. \A i \in 1 .. Len(backlog') : i \in 1 .. Len(backlog) \/ i = Len(backlog) + 1
  BY <1>2
<1>5. BacklogDistinct'
  BY <1>2, <1>3, <1>4 DEF ConnInv, BacklogDistinct
<1>6. WaitingNotAccepted'
  <2> SUFFICES ASSUME NEW i \in 1 .. Len(backlog')
               PROVE  ~Accepted(backlog[i])'
    BY DEF WaitingNotAccepted
  <2>1. ~Accepted(backlog'[i])
    BY <1>2, <1>3, <1>4 DEF ConnInv, WaitingNotAccepted
  <2>2. QED
    BY <1>1, <2>1 DEF Accepted
<1>7. PeersDistinct'
  BY <1>1 DEF ConnInv, PeersDistinct
<1>8. NewUnseen'
  <2> SUFFICES ASSUME NEW r \in Subscribers, state'[r] = "new"
               PROVE  toServer'[r] = <<>> /\ ~Accepted(r)' /\ ~InBacklog(r)'
    BY DEF NewUnseen
  <2>1. r # s /\ state[r] = "new"
    BY <1>1 DEF TypeOK
  <2>2. toServer[r] = <<>> /\ ~Accepted(r) /\ ~InBacklog(r)
    BY <2>1 DEF ConnInv, NewUnseen
  <2>3. ~InBacklog(r)'
    BY <1>2, <1>4, <2>1, <2>2 DEF InBacklog
  <2>4. QED
    BY <1>1, <2>2, <2>3 DEF Accepted
<1>9. QED
  BY <1>5, <1>6, <1>7, <1>8 DEF ConnInv

LEMMA ConnHangUp ==
    ASSUME TypeOK, ConnInv, NEW f \in Fds, HandleHangUp(f)
    PROVE  ConnInv'
<1>1. /\ peer' = [peer EXCEPT ![f] = None]
      /\ UNCHANGED <<backlog, state, toServer>>
  BY DEF HandleHangUp, CloseSocket, clientVars
<1>2. \A r \in Subscribers : Accepted(r)' => Accepted(r)
  BY <1>1, BrokerAssumption DEF Accepted, TypeOK
<1>3. PeersDistinct'
  BY <1>1 DEF ConnInv, PeersDistinct, TypeOK
<1>4. WaitingNotAccepted'
  <2>1. \A i \in 1 .. Len(backlog) : backlog[i] \in Subscribers
    BY DEF TypeOK
  <2> SUFFICES ASSUME NEW i \in 1 .. Len(backlog')
               PROVE  ~Accepted(backlog[i])'
    BY DEF WaitingNotAccepted
  <2>2. ~Accepted(backlog[i]) /\ backlog[i] \in Subscribers /\ backlog'[i] = backlog[i]
    BY <1>1, <2>1 DEF ConnInv, WaitingNotAccepted
  <2>3. \A g \in Fds : peer'[g] # backlog[i]
    BY <1>2, <2>2 DEF Accepted
  <2>4. QED
    BY <2>2, <2>3 DEF Accepted
<1>5. BacklogDistinct'
  BY <1>1 DEF ConnInv, BacklogDistinct
<1>6. NewUnseen'
  BY <1>1, <1>2 DEF ConnInv, NewUnseen, InBacklog
<1>7. QED
  BY <1>3, <1>4, <1>5, <1>6 DEF ConnInv

LEMMA ConnNext == TypeOK /\ SnapshotValid /\ ConnInv /\ [Next]_vars => ConnInv'
<1> SUFFICES ASSUME TypeOK, SnapshotValid, ConnInv, [Next]_vars
             PROVE  ConnInv'
  OBVIOUS
<1> USE DEF serverVars, netVars, clientVars
<1>1. CASE Select \/ HandleStdin \/ HandleUdp \/ AcceptFails \/ UNCHANGED vars
  BY <1>1, ConnFrame DEF Select, HandleStdin, HandleUdp, AcceptFails, Die, vars
<1>2. ASSUME NEW t \in Topics, NEW f \in Fds, SendOne(t, f)
      PROVE  ConnInv'
  BY <1>2, ConnFrame DEF SendOne, Die
<1>3. ASSUME NEW f \in Fds, Accept(f)
      PROVE  ConnInv'
  BY <1>3, ConnAccept
<1>4. ASSUME NEW f \in Fds, HandleCommand(f)
      PROVE  ConnInv'
  <2>1. peer[f] \in Subscribers
    BY <1>4, SnapshotFacts DEF HandleCommand
  <2>2. state[peer[f]] # "new"
    BY <2>1 DEF ConnInv, NewUnseen, Accepted
  <2>3. state[peer[f]] \in {"connected", "running", "done"}
    BY <2>1, <2>2 DEF TypeOK
  <2>4. QED
    BY <1>4, <2>1, <2>2, <2>3, ConnSend DEF HandleCommand, Consume
<1>5. ASSUME NEW f \in Fds, HandleHangUp(f)
      PROVE  ConnInv'
  BY <1>5, ConnHangUp
<1>6. ASSUME NEW f \in Fds, HandleReset(f)
      PROVE  ConnInv'
  BY <1>6, ConnFrame DEF HandleReset, Die
<1>7. ASSUME NEW s \in Subscribers, Connect(s)
      PROVE  ConnInv'
  BY <1>7, ConnConnect
<1>8. ASSUME NEW s \in Subscribers, SendId(s)
      PROVE  ConnInv'
  BY <1>8, ConnSend DEF SendId
<1>9. ASSUME NEW s \in Subscribers, NEW com \in Commands, Command(s, com)
      PROVE  ConnInv'
  BY <1>9, ConnSend DEF Command
<1>10. ASSUME NEW s \in Subscribers, Recv(s) \/ ServerGone(s) \/ Exit(s)
       PROVE  ConnInv'
  BY <1>10, ConnSend DEF Recv, ServerGone, Exit, Close
<1>11. ASSUME NEW d \in Datagrams, Publish(d)
       PROVE  ConnInv'
  BY <1>11, ConnFrame DEF Publish
<1>12. ASSUME NEW l \in Lines, TypeLine(l)
       PROVE  ConnInv'
  BY <1>12, ConnFrame DEF TypeLine
<1>13. QED
  BY <1>1, <1>2, <1>3, <1>4, <1>5, <1>6, <1>7, <1>8, <1>9, <1>10, <1>11, <1>12
     DEF Next, ServerStep, HandleClient, SubscriberStep, HandleAccept

-----------------------------------------------------------------------------
\* An accepted process that has something for the server to read keeps it so
\* until the server reads from it: a pipe only grows, and only a process that
\* has no connection yet opens its link.
LEMMA ReadyKept ==
    ASSUME TypeOK, SnapshotValid, ConnInv, [Next]_vars,
           NEW r \in Subscribers, Accepted(r),
           toServer[r] # <<>> \/ link[r] # "open",
           \A f \in Fds : HandleCommand(f) => peer[f] # r
    PROVE  toServer'[r] # <<>> \/ link'[r] # "open"
<1> USE DEF serverVars, netVars, clientVars
<1>1. state[r] # "new" /\ \A i \in 1 .. Len(backlog) : backlog[i] # r
  BY DEF ConnInv, NewUnseen, WaitingNotAccepted
<1>2. toServer \in [Subscribers -> Seq(Commands \cup {Hello})]
  BY DEF TypeOK
<1>3. CASE UNCHANGED <<link, toServer>>
  BY <1>3
<1>4. ASSUME NEW t \in Topics, NEW f \in Fds, SendOne(t, f)
      PROVE  toServer'[r] # <<>> \/ link'[r] # "open"
  BY <1>4 DEF SendOne, Die, Deliver, TypeOK
<1>5. ASSUME NEW f \in Fds, Accept(f)
      PROVE  toServer'[r] # <<>> \/ link'[r] # "open"
  <2>1. backlog # <<>> /\ backlog \in Seq(Subscribers)
    BY <1>5, SnapshotFacts DEF Accept, TypeOK
  <2>2. Head(backlog) # r
    BY <1>1, <2>1
  <2>3. toServer'[r] = toServer[r] /\ link'[r] = link[r]
    BY <1>5, <2>2 DEF Accept, Consume, Admit, Deliver, TypeOK
  <2>4. QED
    BY <2>3
<1>6. ASSUME NEW f \in Fds, HandleCommand(f)
      PROVE  toServer'[r] # <<>> \/ link'[r] # "open"
  BY <1>6 DEF HandleCommand, Consume, TypeOK
<1>7. ASSUME NEW s \in Subscribers, Connect(s)
      PROVE  toServer'[r] # <<>> \/ link'[r] # "open"
  BY <1>1, <1>7 DEF Connect, TypeOK
<1>8. ASSUME NEW s \in Subscribers, NEW m \in Commands \cup {Hello},
             toServer' = [toServer EXCEPT ![s] = Append(@, m)], UNCHANGED link
      PROVE  toServer'[r] # <<>> \/ link'[r] # "open"
  BY <1>2, <1>8
<1>9. ASSUME NEW s \in Subscribers, NEW rest, Close(s, rest), UNCHANGED toServer
      PROVE  toServer'[r] # <<>> \/ link'[r] # "open"
  BY <1>9 DEF Close, TypeOK
<1>10. CASE \/ Select \/ HandleStdin \/ HandleUdp \/ AcceptFails \/ UNCHANGED vars
            \/ \E f \in Fds : HandleHangUp(f) \/ HandleReset(f)
            \/ \E d \in Datagrams : Publish(d)
            \/ \E l \in Lines : TypeLine(l)
  BY <1>3, <1>10 DEF Select, HandleStdin, HandleUdp, AcceptFails, Die, vars,
                     HandleHangUp, HandleReset, Publish, TypeLine
<1>11. ASSUME NEW s \in Subscribers, SubscriberStep(s)
       PROVE  toServer'[r] # <<>> \/ link'[r] # "open"
  <2>1. CASE Connect(s)
    BY <1>7, <2>1
  <2>2. CASE SendId(s)
    BY <1>8, <2>2 DEF SendId
  <2>3. CASE \E com \in Commands : Command(s, com)
    BY <1>8, <2>3 DEF Command
  <2>4. CASE Recv(s)
    BY <1>3, <1>9, <2>4 DEF Recv
  <2>5. CASE ServerGone(s) \/ Exit(s)
    BY <1>9, <2>5 DEF ServerGone, Exit
  <2>6. QED
    BY <1>11, <2>1, <2>2, <2>3, <2>4, <2>5 DEF SubscriberStep
<1>12. QED
  BY <1>4, <1>5, <1>6, <1>10, <1>11 DEF Next, ServerStep, HandleClient, HandleAccept

\* What is watched is what is open.
LEMMA WatchedNext ==
    TypeOK /\ SnapshotValid /\ [Next]_vars =>
        read_fds' = Listeners \cup {f \in Fds : peer'[f] # None}
<1> SUFFICES ASSUME TypeOK, SnapshotValid, [Next]_vars
             PROVE  read_fds' = Listeners \cup {f \in Fds : peer'[f] # None}
  OBVIOUS
<1> USE DEF serverVars, netVars, clientVars
<1>1. read_fds = Listeners \cup {f \in Fds : peer[f] # None}
  BY DEF SnapshotValid
<1>2. CASE UNCHANGED <<read_fds, peer>>
  BY <1>1, <1>2
<1>3. ASSUME NEW f \in Fds, Accept(f)
      PROVE  read_fds' = Listeners \cup {g \in Fds : peer'[g] # None}
  <2>1. Head(backlog) # None
    BY <1>3, SnapshotFacts, BrokerAssumption DEF Accept
  <2>2. peer' = [peer EXCEPT ![f] = Head(backlog)] /\ read_fds' = read_fds \cup {f}
    BY <1>3 DEF Accept, Watch
  <2>3. QED
    BY <1>1, <2>1, <2>2 DEF TypeOK
<1>4. ASSUME NEW f \in Fds, HandleHangUp(f)
      PROVE  read_fds' = Listeners \cup {g \in Fds : peer'[g] # None}
  <2>1. peer' = [peer EXCEPT ![f] = None] /\ read_fds' = read_fds \ {f}
    BY <1>4 DEF HandleHangUp, CloseSocket
  <2>2. f \notin Listeners
    BY FdFacts DEF Listeners
  <2>3. QED
    BY <1>1, <2>1, <2>2 DEF TypeOK
<1>5. CASE \/ Select \/ HandleStdin \/ HandleUdp \/ AcceptFails \/ UNCHANGED vars
           \/ \E t \in Topics, f \in Fds : SendOne(t, f)
           \/ \E f \in Fds : HandleCommand(f) \/ HandleReset(f)
  BY <1>2, <1>5 DEF Select, HandleStdin, HandleUdp, AcceptFails, Die, vars,
                    SendOne, HandleCommand, HandleReset
<1>6. CASE \/ \E s \in Subscribers : SubscriberStep(s)
           \/ \E d \in Datagrams : Publish(d)
           \/ \E l \in Lines : TypeLine(l)
  BY <1>2, <1>6 DEF SubscriberStep, Connect, SendId, Command, Recv, ServerGone,
                    Exit, Publish, TypeLine
<1>7. QED
  BY <1>3, <1>4, <1>5, <1>6 DEF Next, ServerStep, HandleClient, HandleAccept

\* During a round the snapshot only shrinks, by the descriptor just handled.
LEMMA RoundShrinks ==
    ASSUME TypeOK, [Next]_vars, ~Select
    PROVE  /\ tmp_fds' \subseteq tmp_fds
           /\ status' = "running" => status = "running"
           /\ status' = "running" /\ HandleStdin => Stdin \notin tmp_fds'
           /\ status' = "running" /\ HandleUdp => UdpSock \notin tmp_fds'
           /\ \A f \in Fds : Accept(f) => TcpSock \notin tmp_fds'
           /\ \A f \in Fds :
                HandleCommand(f) \/ HandleHangUp(f) => f \notin tmp_fds'
<1> USE DEF serverVars, netVars, clientVars
<1>1. /\ status' = "running" /\ HandleStdin => Stdin \notin tmp_fds'
      /\ status' = "running" /\ HandleUdp => UdpSock \notin tmp_fds'
      /\ \A f \in Fds : Accept(f) => TcpSock \notin tmp_fds'
      /\ \A f \in Fds : HandleCommand(f) \/ HandleHangUp(f) => f \notin tmp_fds'
  BY DEF HandleStdin, HandleUdp, Accept, HandleCommand, HandleHangUp, Done
<1>2. CASE \/ HandleStdin \/ HandleUdp \/ AcceptFails \/ UNCHANGED vars
           \/ \E f \in Fds : HandleClient(f)
  <2>1. tmp_fds' \subseteq tmp_fds /\ (status' = "running" => status = "running")
    BY <1>2 DEF HandleStdin, HandleUdp, AcceptFails, Die, vars, At, Done,
                HandleClient, HandleCommand, HandleHangUp, HandleReset
  <2>2. QED
    BY <1>1, <2>1
<1>3. CASE \/ \E f \in Fds : Accept(f)
           \/ \E t \in Topics, f \in Fds : SendOne(t, f)
  <2>1. tmp_fds' \subseteq tmp_fds /\ (status' = "running" => status = "running")
    BY <1>3 DEF Accept, SendOne, Die, Done
  <2>2. QED
    BY <1>1, <2>1
<1>4. CASE \/ \E s \in Subscribers : SubscriberStep(s)
           \/ \E d \in Datagrams : Publish(d)
           \/ \E l \in Lines : TypeLine(l)
  <2>1. UNCHANGED <<tmp_fds, status>>
    BY <1>4 DEF SubscriberStep, Connect, SendId, Command, Recv, ServerGone, Exit,
                Publish, TypeLine
  <2>2. QED
    BY <1>1, <2>1
<1>5. QED
  BY <1>2, <1>3, <1>4 DEF Next, ServerStep, HandleAccept

\* Only the handler of a listener's events uses them up.
LEMMA ListenersReady ==
    ASSUME TypeOK, SnapshotValid, [Next]_vars, ~Select, status' = "running",
           NEW k \in Listeners, k \in tmp_fds'
    PROVE  Ready(k)'
<1> USE DEF serverVars, netVars, clientVars
<1>1. k \in tmp_fds /\ status = "running"
  BY RoundShrinks
<1>2. Ready(k) /\ k \notin Fds
  BY <1>1, FdFacts DEF SnapshotValid, Listeners
<1>3. CASE k = Stdin
  <2>1. ~HandleStdin /\ stdin # "none"
    BY <1>2, <1>3, RoundShrinks, FdFacts DEF Ready, Stdin, UdpSock, TcpSock
  <2>2. stdin' = stdin
    BY <2>1 DEF Next, ServerStep, HandleClient, HandleAccept, SubscriberStep, vars,
       Select, HandleUdp, SendOne, AcceptFails, Accept, Die, HandleCommand,
       HandleHangUp, HandleReset, Connect, SendId, Command, Recv, ServerGone, Exit,
       Publish, TypeLine
  <2>3. QED
    BY <1>3, <2>1, <2>2 DEF Ready
<1>4. CASE k = UdpSock
  <2>1. ~HandleUdp /\ udp # <<>> /\ udp \in Seq(Datagrams)
    BY <1>2, <1>4, RoundShrinks, FdFacts DEF Ready, Stdin, UdpSock, TcpSock, TypeOK
  <2>2. udp' = udp \/ \E d \in Datagrams : udp' = Append(udp, d)
    BY <2>1 DEF Next, ServerStep, HandleClient, HandleAccept, SubscriberStep, vars,
       Select, HandleStdin, SendOne, AcceptFails, Accept, Die, HandleCommand,
       HandleHangUp, HandleReset, Connect, SendId, Command, Recv, ServerGone, Exit,
       Publish, TypeLine
  <2>3. udp' # <<>>
    BY <2>1, <2>2
  <2>4. QED
    BY <1>4, <2>3 DEF Ready
<1>5. CASE k = TcpSock
  <2>1. /\ \A f \in Fds : ~Accept(f)
        /\ backlog # <<>>
        /\ backlog \in Seq(Subscribers)
    BY <1>2, <1>5, RoundShrinks, FdFacts DEF Ready, Stdin, UdpSock, TcpSock, TypeOK
  <2>2. backlog' = backlog \/ \E s \in Subscribers : backlog' = Append(backlog, s)
    BY <2>1 DEF Next, ServerStep, HandleClient, HandleAccept, SubscriberStep, vars,
       Select, HandleStdin, HandleUdp, SendOne, AcceptFails, Die, HandleCommand,
       HandleHangUp, HandleReset, Connect, SendId, Command, Recv, ServerGone, Exit,
       Publish, TypeLine
  <2>3. backlog' # <<>>
    BY <2>1, <2>2
  <2>4. QED
    BY <1>5, <2>3 DEF Ready
<1>6. QED
  BY <1>3, <1>4, <1>5 DEF Listeners

\* A descriptor of the snapshot other than the one handled stays with its process.
LEMMA PeerKept ==
    ASSUME TypeOK, SnapshotValid, [Next]_vars, ~Select, status' = "running",
           NEW k \in Fds, k \in tmp_fds'
    PROVE  peer'[k] = peer[k] /\ peer[k] \in Subscribers
<1> USE DEF serverVars, netVars, clientVars
<1>1. k \in tmp_fds /\ ~HandleHangUp(k)
  BY RoundShrinks
<1>2. peer[k] # None
  BY <1>1, FdFacts DEF SnapshotValid, Listeners
<1>3. ASSUME NEW f \in Fds, Accept(f)
      PROVE  peer'[k] = peer[k]
  BY <1>2, <1>3 DEF Accept, LowestFree, TypeOK
<1>4. ASSUME NEW f \in Fds, HandleHangUp(f)
      PROVE  peer'[k] = peer[k]
  BY <1>1, <1>4 DEF HandleHangUp, CloseSocket, TypeOK
<1>5. ASSUME \A f \in Fds : ~Accept(f) /\ ~HandleHangUp(f)
      PROVE  peer'[k] = peer[k]
  BY <1>5 DEF Next, ServerStep, HandleClient, HandleAccept, SubscriberStep, vars,
     Select, HandleStdin, HandleUdp, SendOne, AcceptFails, Die, HandleCommand,
     HandleReset, Connect, SendId, Command, Recv, ServerGone, Exit, Publish, TypeLine
<1>6. QED
  BY <1>2, <1>3, <1>4, <1>5 DEF TypeOK

LEMMA SnapshotNext ==
    TypeOK /\ ConnInv /\ SnapshotValid /\ [Next]_vars => SnapshotValid'
<1> SUFFICES ASSUME TypeOK, ConnInv, SnapshotValid, [Next]_vars
             PROVE  SnapshotValid'
  OBVIOUS
<1>1. read_fds' = Listeners \cup {f \in Fds : peer'[f] # None}
  BY WatchedNext
<1>2. CASE Select
  <2>1. tmp_fds' = {i \in read_fds : Ready(i)} /\ UNCHANGED <<status, read_fds, netVars>>
    BY <1>2 DEF Select
  <2>2. \A i \in tmp_fds' : Ready(i)'
    BY <2>1 DEF Ready, netVars
  <2>3. QED
    BY <1>1, <2>1, <2>2 DEF SnapshotValid
<1>3. CASE ~Select /\ status' # "running"
  <2>1. \A f \in Fds : ~HandleHangUp(f)
    BY <1>3 DEF HandleHangUp, At
  <2>2. read_fds \subseteq read_fds'
    BY <1>1, <2>1 DEF Next, ServerStep, HandleClient, HandleAccept, SubscriberStep, vars,
       serverVars, Select, HandleStdin, HandleUdp, SendOne, Accept, Watch, AcceptFails,
       Die, HandleCommand, HandleReset, Connect, SendId, Command, Recv, ServerGone, Exit,
       Publish, TypeLine
  <2>3. QED
    BY <1>1, <1>3, <2>2, RoundShrinks DEF SnapshotValid
<1>4. CASE ~Select /\ status' = "running"
  <2>1. ASSUME NEW k \in tmp_fds'
        PROVE  k \in read_fds' /\ Ready(k)'
    <3>1. k \in tmp_fds /\ status = "running"
      BY <1>4, <2>1, RoundShrinks
    <3>2. CASE k \in Listeners
      BY <1>1, <1>4, <2>1, <3>2, ListenersReady
    <3>3. CASE k \in Fds
      <4>1. peer'[k] = peer[k] /\ peer[k] \in Subscribers
        BY <1>4, <2>1, <3>3, PeerKept
      <4>2. toServer[peer[k]] # <<>> \/ link[peer[k]] # "open"
        BY <3>1, <3>3, FdFacts DEF SnapshotValid, Ready
      <4>3. ASSUME NEW f \in Fds, HandleCommand(f)
            PROVE  peer[f] # peer[k]
        <5>1. f # k
          BY <1>4, <2>1, <4>3, RoundShrinks
        <5>2. QED
          BY <3>3, <4>1, <5>1, BrokerAssumption DEF ConnInv, PeersDistinct
      <4>4. toServer'[peer[k]] # <<>> \/ link'[peer[k]] # "open"
        BY <3>3, <4>1, <4>2, <4>3, ReadyKept DEF Accepted
      <4>5. peer[k] # None
        BY <4>1, BrokerAssumption
      <4>6. QED
        BY <1>1, <3>3, <4>1, <4>4, <4>5 DEF Ready
    <3>4. QED
      BY <3>1, <3>2, <3>3 DEF TypeOK
  <2>2. QED
    BY <1>1, <2>1 DEF SnapshotValid
<1>5. QED
  BY <1>2, <1>3, <1>4

-----------------------------------------------------------------------------
\* The tables of the server: an ID enters on a free descriptor when no socket
\* holds it, and leaves when its descriptor closes.
LEMMA TablesNext ==
    ASSUME TypeOK, SnapshotValid, RegisteredOpen, OneRegistrationPerId, [Next]_vars
    PROVE  RegisteredOpen' /\ OneRegistrationPerId'
<1> USE DEF serverVars, netVars, clientVars
<1>1. ASSUME NEW f \in Fds, Accept(f)
      PROVE  RegisteredOpen' /\ OneRegistrationPerId'
  <2> DEFINE s == Head(backlog)
  <2>1. s # None /\ peer' = [peer EXCEPT ![f] = s]
    BY <1>1, SnapshotFacts, BrokerAssumption DEF Accept
  <2>2. CASE UNCHANGED clients
    BY <2>1, <2>2 DEF RegisteredOpen, OneRegistrationPerId, TypeOK
  <2>3. ASSUME NEW id \in ReceivedIds(s), ~Connected(id),
               clients' = [clients EXCEPT ![f] = id]
        PROVE  RegisteredOpen' /\ OneRegistrationPerId'
    <3>1. \A g \in Fds : clients[g] # id
      BY <2>3 DEF Connected
    <3>2. OneRegistrationPerId'
      BY <2>3, <3>1 DEF OneRegistrationPerId, TypeOK
    <3>3. RegisteredOpen'
      BY <2>1, <2>3 DEF RegisteredOpen, TypeOK
    <3>4. QED
      BY <3>2, <3>3
  <2>4. QED
    BY <1>1, <2>2, <2>3 DEF Accept, Admit
<1>2. ASSUME NEW f \in Fds, HandleHangUp(f)
      PROVE  RegisteredOpen' /\ OneRegistrationPerId'
  <2>1. /\ peer' = [peer EXCEPT ![f] = None]
        /\ \/ clients' = [clients EXCEPT ![f] = NoId]
           \/ clients[f] = NoId /\ UNCHANGED clients
    BY <1>2 DEF HandleHangUp, CloseSocket, Forget
  <2>2. QED
    BY <2>1 DEF RegisteredOpen, OneRegistrationPerId, TypeOK
<1>3. CASE UNCHANGED <<clients, peer>>
  BY <1>3 DEF RegisteredOpen, OneRegistrationPerId
<1>4. ASSUME \A f \in Fds : ~Accept(f) /\ ~HandleHangUp(f)
      PROVE  UNCHANGED <<clients, peer>>
  BY <1>4 DEF Next, ServerStep, HandleClient, HandleAccept, SubscriberStep, vars,
     Select, HandleStdin, HandleUdp, SendOne, AcceptFails, Die, HandleCommand,
     HandleReset, Connect, SendId, Command, Recv, ServerGone, Exit, Publish, TypeLine
<1>5. QED
  BY <1>1, <1>2, <1>3, <1>4

LEMMA InvInit == Init => Inv
<1> SUFFICES ASSUME Init PROVE Inv
  OBVIOUS
<1>1. TypeOK
  BY TypeInit
<1>2. ConnInv
  <2>1. 1 .. Len(backlog) = {} /\ \A s \in Subscribers : ~Accepted(s)
    BY BrokerAssumption DEF Init, Accepted
  <2>2. QED
    BY <2>1 DEF Init, ConnInv, PeersDistinct, BacklogDistinct, WaitingNotAccepted,
                NewUnseen, InBacklog
<1>3. SnapshotValid /\ RegisteredOpen /\ OneRegistrationPerId
  BY DEF Init, SnapshotValid, RegisteredOpen, OneRegistrationPerId
<1>4. QED
  BY <1>1, <1>2, <1>3 DEF Inv

LEMMA InvNext == Inv /\ [Next]_vars => Inv'
BY TypeNext, ConnNext, SnapshotNext, TablesNext DEF Inv

THEOREM Invariance == Spec => []Inv
BY InvInit, InvNext, PTL DEF Spec

\* Every variable keeps its type, whatever the users, publishers and processes
\* of server.c and subscriber.c do.
THEOREM TypeCorrect == Spec => []TypeOK
<1>1. Inv => TypeOK
  BY DEF Inv
<1>2. QED
  BY <1>1, Invariance, PTL

\* The select() loop of server.c never handles a descriptor that a handler
\* earlier in the round closed or drained, even though descriptors are closed
\* and reused and peers come and go during the round.
THEOREM SnapshotStaysValid == Spec => []SnapshotValid
<1>1. Inv => SnapshotValid
  BY DEF Inv
<1>2. QED
  BY <1>1, Invariance, PTL

\* connected() and the clients[] table of server.c never let two sockets be
\* registered under one ID.
THEOREM UniqueRegistration == Spec => []OneRegistrationPerId
<1>1. Inv => OneRegistrationPerId
  BY DEF Inv
<1>2. QED
  BY <1>1, Invariance, PTL

-----------------------------------------------------------------------------
\* A warning in a process's queue was sent when its connection was accepted
\* without an ID, and the process has no other connection.
HasWarning(s) == \E i \in 1 .. Len(toClient[s]) : toClient[s][i] = Warning
WarnedOnce ==
    \A s \in Subscribers :
        HasWarning(s) => ~Registered(s) /\ ~InBacklog(s) /\ state[s] # "new"

\* A step that warns nobody and gives no process a connection or an ID.
LEMMA WarnedFrame ==
    ASSUME WarnedOnce,
           \A s \in Subscribers :
              /\ HasWarning(s)' => HasWarning(s)
              /\ Registered(s)' => Registered(s)
              /\ InBacklog(s)' => InBacklog(s)
              /\ state'[s] = "new" => state[s] = "new"
    PROVE  WarnedOnce'
BY DEF WarnedOnce

\* What a process is sent from a topic's vector is no warning.
LEMMA TopicNoWarning ==
    ASSUME TypeOK, NEW s \in Subscribers, NEW m \in Topics, Deliver(s, m)
    PROVE  \A r \in Subscribers : HasWarning(r)' => HasWarning(r)
<1>1. CASE UNCHANGED toClient
  BY <1>1 DEF HasWarning
<1>2. CASE toClient' = [toClient EXCEPT ![s] = Append(@, m)]
  <2> SUFFICES ASSUME NEW r \in Subscribers, NEW i \in 1 .. Len(toClient'[r]),
                      toClient'[r][i] = Warning
               PROVE  \E j \in 1 .. Len(toClient[r]) : toClient[r][j] = Warning
    BY DEF HasWarning
  <2>1. CASE r # s
    BY <1>2, <2>1 DEF TypeOK
  <2>2. CASE r = s
    <3>1. toClient[s] \in Seq(Topics \cup {Warning})
      BY DEF TypeOK
    <3>2. toClient'[s] = Append(toClient[s], m) /\ m # Warning
      BY <1>2, BrokerAssumption DEF TypeOK
    <3>3. /\ Len(toClient'[s]) = Len(toClient[s]) + 1
          /\ \A j \in 1 .. Len(toClient[s]) : toClient'[s][j] = toClient[s][j]
          /\ toClient'[s][Len(toClient[s]) + 1] = m
      BY <3>1, <3>2
    <3>4. i \in 1 .. Len(toClient[s]) \/ i = Len(toClient[s]) + 1
      BY <2>2, <3>1, <3>3
    <3>5. QED
      BY <2>2, <3>2, <3>3, <3>4
  <2>3. QED
    BY <2>1, <2>2
<1>3. QED
  BY <1>1, <1>2 DEF Deliver

\* Reading from a queue, or closing it, leaves no warning that was not there.
LEMMA ReadNoWarning ==
    ASSUME TypeOK, NEW s \in Subscribers,
           \/ toClient' = [toClient EXCEPT ![s] = <<>>]
           \/ toClient[s] # <<>> /\ toClient' = [toClient EXCEPT ![s] = Tail(@)]
    PROVE  \A r \in Subscribers : HasWarning(r)' => HasWarning(r)
<1> SUFFICES ASSUME NEW r \in Subscribers, NEW i \in 1 .. Len(toClient'[r]),
                    toClient'[r][i] = Warning
             PROVE  \E j \in 1 .. Len(toClient[r]) : toClient[r][j] = Warning
  BY DEF HasWarning
<1>1. toClient[s] \in Seq(Topics \cup {Warning})
  BY DEF TypeOK
<1>2. CASE r # s
  BY <1>2 DEF TypeOK
<1>3. CASE r = s /\ toClient' = [toClient EXCEPT ![s] = <<>>]
  BY <1>3, Len(<<>>) = 0 DEF TypeOK
<1>4. CASE r = s /\ toClient[s] # <<>> /\ toClient' = [toClient EXCEPT ![s] = Tail(@)]
  <2>1. toClient'[s] = Tail(toClient[s])
    BY <1>4 DEF TypeOK
  <2>2. i \in 1 .. Len(Tail(toClient[s]))
    BY <1>4, <2>1
  <2>3. /\ i + 1 \in 1 .. Len(toClient[s])
        /\ Tail(toClient[s])[i] = toClient[s][i + 1]
    BY <1>1, <1>4, <2>2
  <2>4. QED
    BY <1>4, <2>1, <2>3
<1>5. QED
  BY <1>2, <1>3, <1>4

LEMMA WarnedAccept ==
    ASSUME Inv, WarnedOnce, NEW f \in Fds, Accept(f), NEW s, s = Head(backlog)
    PROVE  WarnedOnce'
<1> USE DEF Inv
<1>1. s \in Subscribers /\ backlog # <<>> /\ s = backlog[1] /\ 1 \in 1 .. Len(backlog)
  BY SnapshotFacts DEF Accept, TypeOK
<1>2. ~Accepted(s) /\ InBacklog(s) /\ state[s] # "new"
  BY <1>1 DEF ConnInv, WaitingNotAccepted, NewUnseen, InBacklog
<1>3. ~HasWarning(s)
  BY <1>1, <1>2 DEF WarnedOnce
<1>4. /\ peer[f] = None
      /\ peer' = [peer EXCEPT ![f] = s]
      /\ backlog' = Tail(backlog)
      /\ UNCHANGED state
  BY DEF Accept, LowestFree, clientVars
<1>5. \A r \in Subscribers \ {s} :
        /\ Registered(r)' => Registered(r)
        /\ toClient'[r] = toClient[r]
  BY <1>4 DEF Accept, Admit, Deliver, Registered, TypeOK
<1>6. \A r \in Subscribers : InBacklog(r)' => InBacklog(r)
  BY <1>1, <1>4 DEF InBacklog, TypeOK
<1>7. ~InBacklog(s)'
  <2> SUFFICES ASSUME NEW i \in 1 .. Len(backlog'), backlog'[i] = s PROVE FALSE
    BY DEF InBacklog
  <2>1. backlog \in Seq(Subscribers)
    BY DEF TypeOK
  <2>2. /\ i + 1 \in 1 .. Len(backlog)
        /\ backlog'[i] = backlog[i + 1]
        /\ i + 1 # 1
    BY <1>1, <1>4, <2>1
  <2>3. QED
    BY <1>1, <2>2 DEF ConnInv, BacklogDistinct
<1>8. CASE UNCHANGED clients
  <2>1. clients[f] = NoId
    BY <1>4 DEF RegisteredOpen
  <2>2. IdOf[s] # NoId
    BY <1>1, BrokerAssumption DEF Registrable
  <2>3. \A g \in Fds : peer'[g] = s => g = f
    BY <1>2, <1>4 DEF Accepted, TypeOK
  <2>4. ~Registered(s)'
    BY <1>8, <2>1, <2>2, <2>3 DEF Registered
  <2>5. \A r \in Subscribers \ {s} : HasWarning(r)' => HasWarning(r)
    BY <1>5 DEF HasWarning
  <2>6. QED
    BY <1>2, <1>4, <1>5, <1>6, <1>7, <2>4, <2>5 DEF WarnedOnce
<1>9. CASE UNCHANGED toClient
  BY <1>3, <1>4, <1>5, <1>6, <1>9 DEF WarnedOnce, HasWarning
<1>10. QED
  BY <1>8, <1>9 DEF Accept, Admit

LEMMA WarnedNext == Inv /\ WarnedOnce /\ [Next]_vars => WarnedOnce'
<1> SUFFICES ASSUME Inv, WarnedOnce, [Next]_vars
             PROVE  WarnedOnce'
  OBVIOUS
<1> USE DEF serverVars, netVars, clientVars, Inv
<1>1. CASE \/ Select \/ HandleStdin \/ HandleUdp \/ AcceptFails \/ UNCHANGED vars
           \/ \E f \in Fds : HandleCommand(f) \/ HandleReset(f)
           \/ \E d \in Datagrams : Publish(d)
           \/ \E l \in Lines : TypeLine(l)
  <2>1. UNCHANGED <<clients, peer, backlog, toClient, state>>
    BY <1>1 DEF Select, HandleStdin, HandleUdp, AcceptFails, Die, vars,
                HandleCommand, HandleReset, Publish, TypeLine
  <2>2. QED
    BY <2>1 DEF WarnedOnce, HasWarning, Registered, InBacklog
<1>2. ASSUME NEW t \in Topics, NEW f \in Fds, SendOne(t, f)
      PROVE  WarnedOnce'
  <2>1. CASE Die
    BY <2>1 DEF Die, WarnedOnce, HasWarning, Registered, InBacklog
  <2>2. CASE peer[f] # None /\ Deliver(peer[f], t)
             /\ UNCHANGED <<clients, peer, backlog, state>>
    <3>1. peer[f] \in Subscribers
      BY <2>2 DEF TypeOK
    <3>2. \A r \in Subscribers : HasWarning(r)' => HasWarning(r)
      BY <2>2, <3>1, TopicNoWarning
    <3>3. QED
      BY <2>2, <3>2, WarnedFrame DEF Registered, InBacklog
  <2>3. QED
    BY <1>2, <2>1, <2>2 DEF SendOne
<1>3. ASSUME NEW f \in Fds, Accept(f)
      PROVE  WarnedOnce'
  BY <1>3, WarnedAccept
<1>4. ASSUME NEW f \in Fds, HandleHangUp(f)
      PROVE  WarnedOnce'
  <2>1. /\ peer' = [peer EXCEPT ![f] = None]
        /\ UNCHANGED clients \/ clients' = [clients EXCEPT ![f] = NoId]
        /\ UNCHANGED <<backlog, toClient, state>>
    BY <1>4 DEF HandleHangUp, CloseSocket, Forget
  <2>2. \A r \in Subscribers : Registered(r)' => Registered(r)
    BY <2>1, BrokerAssumption DEF Registered, TypeOK
  <2>3. QED
    BY <2>1, <2>2, WarnedFrame DEF HasWarning, InBacklog
<1>5. ASSUME NEW s \in Subscribers, Connect(s)
      PROVE  WarnedOnce'
  <2>1. ~HasWarning(s)
    BY <1>5 DEF Connect, WarnedOnce
  <2>2. \A r \in Subscribers \ {s} : InBacklog(r)' => InBacklog(r)
    <3>1. backlog \in Seq(Subscribers) /\ backlog' = Append(backlog, s)
      BY <1>5 DEF Connect, TypeOK
    <3>2. QED
      BY <3>1 DEF InBacklog
  <2>3. /\ UNCHANGED <<clients, peer, toClient>>
        /\ state' = [state EXCEPT ![s] = "connected"]
    BY <1>5 DEF Connect
  <2>4. QED
    BY <2>1, <2>2, <2>3 DEF WarnedOnce, HasWarning, Registered, TypeOK
<1>6. ASSUME NEW s \in Subscribers, SendId(s) \/ \E com \in Commands : Command(s, com)
      PROVE  WarnedOnce'
  <2>1. /\ UNCHANGED <<clients, peer, backlog, toClient>>
        /\ \A r \in Subscribers : state'[r] = "new" => state[r] = "new"
    BY <1>6 DEF SendId, Command, TypeOK
  <2>2. QED
    BY <2>1, WarnedFrame DEF HasWarning, Registered, InBacklog
<1>7. ASSUME NEW s \in Subscribers, Recv(s) \/ ServerGone(s) \/ Exit(s)
      PROVE  WarnedOnce'
  <2>1. /\ UNCHANGED <<clients, peer, backlog>>
        /\ \A r \in Subscribers : state'[r] = "new" => state[r] = "new"
    BY <1>7 DEF Recv, ServerGone, Exit, Close, TypeOK
  <2>2. \/ toClient' = [toClient EXCEPT ![s] = <<>>]
        \/ toClient[s] # <<>> /\ toClient' = [toClient EXCEPT ![s] = Tail(@)]
    BY <1>7 DEF Recv, ServerGone, Exit, Close
  <2>3. \A r \in Subscribers : HasWarning(r)' => HasWarning(r)
    BY <2>2, ReadNoWarning
  <2>4. QED
    BY <2>1, <2>3, WarnedFrame DEF Registered, InBacklog
<1>8. QED
  BY <1>1, <1>2, <1>3, <1>4, <1>5, <1>6, <1>7
     DEF Next, ServerStep, HandleClient, SubscriberStep, HandleAccept

\* A process of subscriber.c that is registered in clients[] of server.c has no
\* warning to read, even when it types commands ahead, is given a reused
\* descriptor, or dies before it sends its ID and is admitted under whatever
\* text of the round is left in buf, be that its own ID or another's.
THEOREM RegisteredNeverWarned == Spec => []RegisteredNotWarned
<1>1. Init => WarnedOnce
  BY Len(<<>>) = 0 DEF Init, WarnedOnce, HasWarning
<1>2. Inv /\ WarnedOnce /\ [Next]_vars => WarnedOnce'
  BY WarnedNext
<1>3. WarnedOnce => RegisteredNotWarned
  BY DEF WarnedOnce, HasWarning, RegisteredNotWarned
<1>4. QED
  BY <1>1, <1>2, <1>3, Invariance, PTL DEF Spec

-----------------------------------------------------------------------------
\* Users that wait.

\* The ID and the socket of a process are what its connection has; both stay
\* while another descriptor is accepted or closed.
LEMMA RegisteredKept ==
    ASSUME Inv, [Next]_vars, NEW r \in Subscribers,
           \A f \in Fds : HandleHangUp(f) => peer[f] # r,
           \A f \in Fds : Accept(f) => Head(backlog) # r
    PROVE  /\ Registered(r) => Registered(r)'
           /\ ~Accepted(r) => ~Accepted(r)'
<1> USE DEF serverVars, netVars, clientVars, Inv
<1>1. r # None
  BY BrokerAssumption
<1>2. ASSUME NEW f \in Fds, Accept(f)
      PROVE  /\ Registered(r) => Registered(r)'
             /\ ~Accepted(r) => ~Accepted(r)'
  <2>1. /\ peer[f] = None
        /\ peer' = [peer EXCEPT ![f] = Head(backlog)]
        /\ UNCHANGED clients \/ \E id : clients' = [clients EXCEPT ![f] = id]
    BY <1>2 DEF Accept, LowestFree, Admit
  <2>2. Head(backlog) # r
    BY <1>2
  <2>3. ASSUME NEW g \in Fds, peer[g] = r
        PROVE  peer'[g] = r /\ clients'[g] = clients[g]
    BY <1>1, <2>1, <2>3 DEF TypeOK
  <2>4. QED
    BY <2>1, <2>2, <2>3 DEF Registered, Accepted, TypeOK
<1>3. ASSUME NEW f \in Fds, HandleHangUp(f)
      PROVE  /\ Registered(r) => Registered(r)'
             /\ ~Accepted(r) => ~Accepted(r)'
  <2>1. /\ peer' = [peer EXCEPT ![f] = None]
        /\ UNCHANGED clients \/ clients' = [clients EXCEPT ![f] = NoId]
    BY <1>3 DEF HandleHangUp, CloseSocket, Forget
  <2>2. peer[f] # r
    BY <1>3
  <2>3. QED
    BY <1>1, <2>1, <2>2 DEF Registered, Accepted, TypeOK
<1>4. ASSUME \A f \in Fds : ~Accept(f) /\ ~HandleHangUp(f)
      PROVE  UNCHANGED <<clients, peer>>
  BY <1>4 DEF Next, ServerStep, HandleClient, HandleAccept, SubscriberStep, vars,
     Select, HandleStdin, HandleUdp, SendOne, AcceptFails, Die, HandleCommand,
     HandleReset, Connect, SendId, Command, Recv, ServerGone, Exit, Publish, TypeLine
<1>5. QED
  BY <1>2, <1>3, <1>4 DEF Registered, Accepted

\* Reading all of a pipe leaves it empty.
LEMMA ConsumeAll ==
    ASSUME TypeOK, NEW s \in Subscribers, NEW n, n = Len(toServer[s]), Consume(s, n)
    PROVE  toServer' = [toServer EXCEPT ![s] = <<>>]
<1>1. toServer[s] \in Seq(Commands \cup {Hello})
  BY DEF TypeOK
<1>2. SubSeq(toServer[s], n + 1, Len(toServer[s])) = <<>>
  BY <1>1
<1>3. QED
  BY <1>2 DEF Consume

LEMMA PacedAccept ==
    ASSUME Inv, PacedInv, NEW f \in Fds, Accept(f), [Next]_vars
    PROVE  PacedInv'
<1> USE DEF Inv
<1> DEFINE s == Head(backlog)
<1>1. s \in Subscribers /\ backlog # <<>> /\ s = backlog[1] /\ 1 \in 1 .. Len(backlog)
  BY SnapshotFacts DEF Accept, TypeOK
<1>2. ~Accepted(s) /\ ~Registered(s)
  BY <1>1 DEF ConnInv, WaitingNotAccepted, Accepted, Registered
<1>3. toServer' = [toServer EXCEPT ![s] = <<>>]
  <2>1. toServer[s] = <<>> \/ (Len(toServer[s]) = 1 /\ toServer[s] # <<>>)
    BY <1>1, <1>2, Len(<<>>) = 0 DEF PacedInv, PipeShort
  <2>2. PICK n \in 0 .. Len(toServer[s]) :
            (n = 0 <=> toServer[s] = <<>>) /\ Consume(s, n)
    BY DEF Accept
  <2>3. n = Len(toServer[s])
    <3>1. CASE toServer[s] = <<>>
      BY <2>2, <3>1, Len(<<>>) = 0
    <3>2. CASE Len(toServer[s]) = 1 /\ toServer[s] # <<>>
      <4>1. n \in 0 .. 1 /\ n # 0
        BY <2>2, <3>2
      <4>2. QED
        BY <3>2, <4>1
    <3>3. QED
      BY <2>1, <3>1, <3>2
  <2>4. QED
    BY <1>1, <2>2, <2>3, ConsumeAll
<1>4. UNCHANGED state /\ (\A r \in Subscribers : link[r] = "open" => link'[r] = "open")
  BY DEF Accept, Admit, Deliver, clientVars, TypeOK
<1>5. state[s] # "connected"
  BY <1>1 DEF Accept, PacedInv, ConnectedSilent, LiveOpen
<1>6. \A r \in Subscribers \ {s} :
        /\ toServer'[r] = toServer[r]
        /\ Registered(r) => Registered(r)'
        /\ ~Accepted(r) => ~Accepted(r)'
  <2> SUFFICES ASSUME NEW r \in Subscribers \ {s}
               PROVE  /\ toServer'[r] = toServer[r]
                      /\ Registered(r) => Registered(r)'
                      /\ ~Accepted(r) => ~Accepted(r)'
    OBVIOUS
  <2>1. \A g \in Fds : HandleHangUp(g) => peer[g] # r
    BY FdFacts DEF HandleHangUp, Accept, At, TcpSock
  <2>2. QED
    BY <1>3, <2>1, RegisteredKept DEF TypeOK
<1>7. LiveOpen'
  BY <1>4 DEF PacedInv, LiveOpen
<1>8. ConnectedSilent'
  BY <1>4, <1>5, <1>6 DEF PacedInv, ConnectedSilent
<1>9. PipeShort'
  BY <1>1, <1>3, <1>6 DEF PacedInv, PipeShort, TypeOK
<1>10. SubscribersRegistered'
  <2>1. UNCHANGED online /\ peer[f] = None
        /\ \A g \in Fds \ {f} : peer'[g] = peer[g] /\ clients'[g] = clients[g]
    BY DEF Accept, LowestFree, Admit, TypeOK
  <2>2. QED
    BY <2>1 DEF PacedInv, SubscribersRegistered, TypeOK
<1>11. QED
  BY <1>7, <1>8, <1>9, <1>10 DEF PacedInv

LEMMA PacedHangUp ==
    ASSUME Inv, PacedInv, NEW f \in Fds, HandleHangUp(f), [Next]_vars
    PROVE  PacedInv'
<1> USE DEF Inv
<1> DEFINE s == peer[f]
<1>1. /\ s \in Subscribers
      /\ toServer[s] = <<>>
      /\ peer' = [peer EXCEPT ![f] = None]
      /\ UNCHANGED <<link, toServer, state>>
  BY SnapshotFacts DEF HandleHangUp, CloseSocket, clientVars
<1>2. \A r \in Subscribers \ {s} :
        /\ Registered(r) => Registered(r)'
        /\ ~Accepted(r) => ~Accepted(r)'
  <2> SUFFICES ASSUME NEW r \in Subscribers \ {s}
               PROVE  /\ Registered(r) => Registered(r)'
                      /\ ~Accepted(r) => ~Accepted(r)'
    OBVIOUS
  <2>1. \A g \in Fds : HandleHangUp(g) => g = f
    <3> SUFFICES ASSUME NEW g \in Fds, HandleHangUp(g) PROVE g = f
      OBVIOUS
    <3>1. f <= g /\ g <= f
      BY DEF HandleHangUp, At
    <3>2. QED
      BY <3>1, FdFacts
  <2>2. \A g \in Fds : ~Accept(g)
    <3> SUFFICES ASSUME NEW g \in Fds, Accept(g) PROVE FALSE
      OBVIOUS
    <3>1. TcpSock <= f /\ f <= TcpSock
      BY DEF HandleHangUp, Accept, At
    <3>2. QED
      BY <3>1, FdFacts DEF TcpSock
  <2>3. QED
    BY <2>1, <2>2, RegisteredKept
<1>3. LiveOpen'
  BY <1>1 DEF PacedInv, LiveOpen
<1>4. ConnectedSilent'
  <2> SUFFICES ASSUME NEW r \in Subscribers, state'[r] = "connected"
               PROVE  toServer'[r] = <<>> /\ ~Accepted(r)'
    BY DEF ConnectedSilent
  <2>1. toServer[r] = <<>> /\ ~Accepted(r)
    BY <1>1 DEF PacedInv, ConnectedSilent
  <2>2. r # s
    BY <2>1 DEF Accepted
  <2>3. QED
    BY <1>1, <1>2, <2>1, <2>2
<1>5. PipeShort'
  BY <1>1, <1>2 DEF PacedInv, PipeShort
<1>6. SubscribersRegistered'
  <2>1. \A t \in Topics : f \notin online'[t] /\ online'[t] \subseteq online[t]
    <3>1. CASE clients[f] = NoId /\ UNCHANGED online
      <4>1. IdOf[s] # NoId
        BY <1>1, BrokerAssumption DEF Registrable
      <4>2. QED
        BY <3>1, <4>1 DEF PacedInv, SubscribersRegistered
    <3>2. CASE online' = Offline(f)
      BY <3>2 DEF Offline
    <3>3. QED
      BY <3>1, <3>2 DEF HandleHangUp, Forget
  <2>2. \A g \in Fds \ {f} : peer'[g] = peer[g] /\ clients'[g] = clients[g]
    BY <1>1 DEF HandleHangUp, Forget, TypeOK
  <2>3. QED
    BY <2>1, <2>2 DEF PacedInv, SubscribersRegistered, TypeOK
<1>7. QED
  BY <1>3, <1>4, <1>5, <1>6 DEF PacedInv

LEMMA PacedHandleCommand ==
    ASSUME Inv, PacedInv, NEW f \in Fds, HandleCommand(f)
    PROVE  PacedInv'
<1> USE DEF Inv
<1> DEFINE s == peer[f]
<1>1. /\ s \in Subscribers
      /\ toServer[s] # <<>>
      /\ UNCHANGED <<link, state, peer, clients>>
  BY SnapshotFacts DEF HandleCommand, clientVars
<1>2. Accepted(s)
  BY DEF Accepted
<1>3. Len(toServer[s]) = 1 /\ Registered(s)
  BY <1>1, <1>2 DEF PacedInv, PipeShort
<1>4. clients[f] = IdOf[s]
  BY <1>1, <1>3, BrokerAssumption DEF ConnInv, PeersDistinct, Registered
<1>5. toServer' = [toServer EXCEPT ![s] = <<>>]
  <2>1. PICK n \in 1 .. Len(toServer[s]) : Consume(s, n)
    BY DEF HandleCommand
  <2>2. n = Len(toServer[s])
    BY <1>3, <2>1
  <2>3. QED
    BY <1>1, <2>1, <2>2, ConsumeAll
<1>6. \A r \in Subscribers :
        (Registered(r)' <=> Registered(r)) /\ (Accepted(r)' <=> Accepted(r))
  BY <1>1 DEF Registered, Accepted
<1>7. LiveOpen'
  BY <1>1 DEF PacedInv, LiveOpen
<1>8. ConnectedSilent'
  BY <1>1, <1>5, <1>6 DEF PacedInv, ConnectedSilent, TypeOK
<1>9. PipeShort'
  BY <1>1, <1>5, <1>6 DEF PacedInv, PipeShort, TypeOK
<1>10. SubscribersRegistered'
  <2>1. \A t \in Topics : online'[t] \subseteq online[t] \cup {f}
    BY DEF HandleCommand, Subscribe, Unsubscribe, TypeOK
  <2>2. s # None
    BY <1>1, BrokerAssumption
  <2>3. QED
    BY <1>1, <1>4, <2>1, <2>2 DEF PacedInv, SubscribersRegistered
<1>11. QED
  BY <1>7, <1>8, <1>9, <1>10 DEF PacedInv

\* A step of a process or of the server that leaves tables and pipes alone.
LEMMA PacedFrame ==
    ASSUME PacedInv, UNCHANGED <<clients, online, peer, toServer>>,
           \A s \in Subscribers :
              /\ state'[s] = "connected" => state[s] = "connected"
              /\ state'[s] \in {"connected", "running"} => link'[s] = "open"
    PROVE  PacedInv'
BY DEF PacedInv, LiveOpen, ConnectedSilent, PipeShort, SubscribersRegistered,
       Registered, Accepted

LEMMA PacedConnect ==
    ASSUME Inv, PacedInv, NEW s \in Subscribers, Connect(s)
    PROVE  PacedInv'
<1>1. /\ state' = [state EXCEPT ![s] = "connected"]
      /\ link' = [link EXCEPT ![s] = "open"]
      /\ UNCHANGED <<clients, online, peer, toServer>>
      /\ toServer[s] = <<>>
      /\ ~Accepted(s)
  BY DEF Connect, serverVars, Inv, ConnInv, NewUnseen
<1>2. LiveOpen'
  BY <1>1 DEF Inv, TypeOK, PacedInv, LiveOpen
<1>3. ConnectedSilent'
  BY <1>1 DEF Inv, TypeOK, PacedInv, ConnectedSilent, Accepted
<1>4. PipeShort' /\ SubscribersRegistered'
  BY <1>1 DEF PacedInv, PipeShort, SubscribersRegistered, Registered, Accepted
<1>5. QED
  BY <1>2, <1>3, <1>4 DEF PacedInv

\* What a process sends in turn: its ID once, then a command when it is
\* registered and the last one was read.
LEMMA PacedSend ==
    ASSUME Inv, PacedInv, NEW s \in Subscribers, NEW m \in Commands \cup {Hello},
           toServer[s] = <<>>,
           toServer' = [toServer EXCEPT ![s] = Append(@, m)],
           UNCHANGED <<clients, online, peer, link>>,
           state[s] \in {"connected", "running"},
           state' = [state EXCEPT ![s] = "running"],
           \/ m = Hello /\ ~Accepted(s)
           \/ m # Hello /\ Registered(s)
    PROVE  PacedInv'
<1>1. Len(Append(toServer[s], m)) = 1 /\ Append(toServer[s], m)[1] = m
  OBVIOUS
<1>2. Len(toServer'[s]) = 1 /\ toServer'[s][1] = m
  BY <1>1 DEF Inv, TypeOK
<1>3. /\ \A r \in Subscribers \ {s} : toServer'[r] = toServer[r]
      /\ \A r \in Subscribers :
            state'[r] = IF r = s THEN "running" ELSE state[r]
  BY DEF Inv, TypeOK
<1>4. LiveOpen' /\ ConnectedSilent'
  BY <1>3 DEF PacedInv, LiveOpen, ConnectedSilent, Accepted
<1>5. PipeShort'
  BY <1>2, <1>3 DEF PacedInv, PipeShort, Registered, Accepted
<1>6. SubscribersRegistered'
  BY DEF PacedInv, SubscribersRegistered
<1>7. QED
  BY <1>4, <1>5, <1>6 DEF PacedInv

LEMMA PacedNext == Paced /\ Inv /\ PacedInv /\ [Next]_vars => PacedInv'
<1> SUFFICES ASSUME Paced, Inv, PacedInv, [Next]_vars
             PROVE  PacedInv'
  OBVIOUS
<1> USE DEF serverVars, netVars, clientVars, Inv
<1>1. ASSUME UNCHANGED <<clients, online, peer, toServer, state>>,
             \A s \in Subscribers : link[s] = "open" => link'[s] = "open"
      PROVE  PacedInv'
  BY <1>1, PacedFrame DEF PacedInv, LiveOpen
<1>2. CASE \/ Select \/ HandleStdin \/ HandleUdp \/ AcceptFails \/ UNCHANGED vars
           \/ \E f \in Fds : HandleReset(f)
           \/ \E d \in Datagrams : Publish(d)
           \/ \E l \in Lines : TypeLine(l)
  BY <1>1, <1>2 DEF Select, HandleStdin, HandleUdp, AcceptFails, Die, vars,
                    HandleReset, Publish, TypeLine
<1>3. ASSUME NEW t \in Topics, NEW f \in Fds, SendOne(t, f)
      PROVE  PacedInv'
  BY <1>1, <1>3 DEF SendOne, Die, Deliver, TypeOK
<1>4. ASSUME NEW f \in Fds, Accept(f) \/ HandleClient(f)
      PROVE  PacedInv'
  BY <1>1, <1>4, PacedAccept, PacedHandleCommand, PacedHangUp
     DEF HandleClient, HandleReset, Die
<1>5. ASSUME NEW s \in Subscribers, SubscriberStep(s)
      PROVE  PacedInv'
  <2>1. CASE Connect(s)
    BY <2>1, PacedConnect
  <2>2. CASE SendId(s)
    <3>1. toServer[s] = <<>> /\ ~Accepted(s)
      BY <2>2 DEF SendId, PacedInv, ConnectedSilent
    <3>2. QED
      BY <2>2, <3>1, PacedSend DEF SendId
  <2>3. ASSUME NEW com \in Commands, Command(s, com)
        PROVE  PacedInv'
    <3>1. Registered(s) /\ toServer[s] = <<>> /\ com # Hello
      BY <2>3, BrokerAssumption DEF Command, MayType, Paced
    <3>2. state' = [state EXCEPT ![s] = "running"]
      BY <2>3 DEF Command, TypeOK
    <3>3. QED
      BY <2>3, <3>1, <3>2, PacedSend DEF Command
  <2>4. ASSUME NEW rest, Close(s, rest), UNCHANGED <<serverVars, peer, toServer>>
        PROVE  PacedInv'
    <3>1. \A r \in Subscribers :
            /\ state'[r] = "connected" => state[r] = "connected"
            /\ state'[r] \in {"connected", "running"} => link'[r] = "open"
      BY <2>4 DEF Close, TypeOK, PacedInv, LiveOpen
    <3>2. QED
      BY <2>4, <3>1, PacedFrame
  <2>5. CASE Recv(s)
    BY <1>1, <2>4, <2>5 DEF Recv
  <2>6. CASE ServerGone(s) \/ Exit(s)
    BY <2>4, <2>6 DEF ServerGone, Exit
  <2>7. QED
    BY <1>5, <2>1, <2>2, <2>3, <2>5, <2>6 DEF SubscriberStep
<1>6. QED
  BY <1>2, <1>3, <1>4, <1>5 DEF Next, ServerStep, HandleAccept

LEMMA PacedInit == Init => PacedInv
BY DEF Init, PacedInv, LiveOpen, ConnectedSilent, PipeShort, SubscribersRegistered

\* When users wait for the server, the sockets in a topic's vector of server.c
\* are open and belong to the clients that subscribed: offline() runs whenever
\* it must, although it is skipped for sockets without an ID.
THEOREM PacedSubscribersRegistered == Paced => (Spec => []SubscribersRegistered)
<1> SUFFICES ASSUME Paced PROVE Spec => []SubscribersRegistered
  OBVIOUS
<1>1. Inv /\ PacedInv /\ [Next]_vars => PacedInv'
  BY PacedNext
<1>2. PacedInv => SubscribersRegistered
  BY DEF PacedInv
<1>3. QED
  BY <1>1, <1>2, PacedInit, Invariance, PTL DEF Spec

\* The publication loop only has sockets of the topic's vector ahead of it: the
\* vectors do not change before it ends.
Sending == \A p \in outgoing : p[1] \in Topics /\ p[2] \in online[p[1]]

LEMMA SendingNext == Inv /\ Sending /\ [Next]_vars => Sending'
<1> SUFFICES ASSUME Inv, Sending, [Next]_vars
             PROVE  Sending'
  OBVIOUS
<1> USE DEF serverVars, netVars, clientVars, Inv
<1>1. CASE HandleUdp
  <2>1. Head(udp).topic \in Topics
    BY <1>1, SnapshotFacts, BrokerAssumption DEF HandleUdp
  <2>2. outgoing' = {} \/ outgoing' = Recipients(Head(udp).topic)
    BY <1>1 DEF HandleUdp, At
  <2>3. UNCHANGED online
    BY <1>1 DEF HandleUdp
  <2>4. QED
    BY <2>1, <2>2, <2>3 DEF Sending, Recipients
<1>2. CASE outgoing' \subseteq outgoing /\ UNCHANGED online
  BY <1>2 DEF Sending
<1>3. CASE outgoing' = {}
  BY <1>3 DEF Sending
<1>4. CASE \/ Select \/ HandleStdin \/ AcceptFails \/ UNCHANGED vars
           \/ \E t \in Topics, f \in Fds : SendOne(t, f)
           \/ \E f \in Fds : Accept(f) \/ HandleReset(f)
  BY <1>2, <1>4 DEF Select, HandleStdin, AcceptFails, Die, vars, SendOne, Accept,
                    HandleReset
<1>5. CASE \E f \in Fds : HandleCommand(f) \/ HandleHangUp(f)
  BY <1>3, <1>5 DEF HandleCommand, HandleHangUp, At
<1>6. CASE \/ \E s \in Subscribers : SubscriberStep(s)
           \/ \E d \in Datagrams : Publish(d)
           \/ \E l \in Lines : TypeLine(l)
  BY <1>2, <1>6 DEF SubscriberStep, Connect, SendId, Command, Recv, ServerGone,
                    Exit, Publish, TypeLine
<1>7. QED
  BY <1>1, <1>4, <1>5, <1>6 DEF Next, ServerStep, HandleClient, HandleAccept

LEMMA Exclusive ==
    ASSUME Inv, Sending, SubscribersRegistered PROVE ExclusiveDelivery
<1> DEFINE Fed(s) == Interest(s) # {} \/ \E p \in outgoing : peer[p[2]] = s
<1>1. ASSUME NEW s \in Subscribers, Fed(s)
      PROVE  \E f \in Fds : peer[f] = s /\ clients[f] = IdOf[s]
  <2>1. PICK t \in Topics : \E f \in online[t] : peer[f] = s
    BY <1>1 DEF Interest, Sending
  <2>2. online[t] \subseteq Fds
    BY <2>1 DEF Inv, TypeOK
  <2>3. QED
    BY <2>1, <2>2 DEF SubscribersRegistered
<1>2. ASSUME NEW r \in Subscribers, NEW s \in Subscribers, Fed(r), Fed(s), IdOf[r] = IdOf[s]
      PROVE  r = s
  <2>1. PICK f \in Fds : peer[f] = r /\ clients[f] = IdOf[r]
    BY <1>1, <1>2
  <2>2. PICK g \in Fds : peer[g] = s /\ clients[g] = IdOf[s]
    BY <1>1, <1>2
  <2>3. IdOf[r] # NoId
    BY BrokerAssumption DEF Registrable
  <2>4. f = g
    BY <1>2, <2>1, <2>2, <2>3 DEF Inv, OneRegistrationPerId
  <2>5. QED
    BY <2>1, <2>2, <2>4
<1>3. QED
  BY <1>2 DEF ExclusiveDelivery

\* When users wait for the server, of the processes of server.c and subscriber.c
\* that share an ID, duplicates and restarts included, at most one at a time is
\* subscribed or has publications on their way to it.
THEOREM PacedExclusiveDelivery == Paced => (Spec => []ExclusiveDelivery)
<1> SUFFICES ASSUME Paced PROVE Spec => []ExclusiveDelivery
  OBVIOUS
<1>1. Init => Sending
  BY DEF Init, Sending
<1>2. Inv /\ Sending /\ [Next]_vars => Sending'
  BY SendingNext
<1>3. Spec => []SubscribersRegistered
  BY PacedSubscribersRegistered
<1>4. Inv /\ Sending /\ SubscribersRegistered => ExclusiveDelivery
  BY Exclusive
<1>5. QED
  BY <1>1, <1>2, <1>3, <1>4, Invariance, PTL DEF Spec

-----------------------------------------------------------------------------
\* What a user was told is what the server will hold once it has read what is
\* in the pipe: nothing before the process is registered, or one command.
After(topics, com) ==
    IF com.type = "s" THEN topics \cup {com.topic} ELSE topics \ {com.topic}
Told(s) ==
    /\ toServer[s] = <<>> => view[s] = Interest(s)
    /\ toServer[s] # <<>> /\ toServer[s][1] = Hello => view[s] = {} /\ Interest(s) = {}
    /\ toServer[s] # <<>> /\ toServer[s][1] # Hello =>
          view[s] = After(Interest(s), toServer[s][1])
ViewInv ==
    \A s \in Subscribers :
        /\ state[s] = "running" => Told(s)
        /\ state[s] # "running" => view[s] = {}

\* A process without a connection is in no topic's vector.
LEMMA NoInterest ==
    ASSUME TypeOK, NEW s \in Subscribers, ~Accepted(s)
    PROVE  Interest(s) = {}
BY DEF TypeOK, Interest, Accepted

\* A handler leaves a process alone when its pipe, its connection and its
\* entries in the vectors stay.
LEMMA ToldFrame ==
    ASSUME ViewInv, NEW s \in Subscribers, UNCHANGED <<state, view>>,
           toServer'[s] = toServer[s], Interest(s)' = Interest(s)
    PROVE  /\ state'[s] = "running" => Told(s)'
           /\ state'[s] # "running" => view'[s] = {}
BY DEF ViewInv, Told

LEMMA ViewAccept ==
    ASSUME Inv, PacedInv, ViewInv, NEW f \in Fds, Accept(f), NEW s, s = Head(backlog)
    PROVE  ViewInv'
<1> USE DEF Inv
<1>1. s \in Subscribers /\ backlog # <<>> /\ s = backlog[1] /\ 1 \in 1 .. Len(backlog)
  BY SnapshotFacts DEF Accept, TypeOK
<1>2. ~Accepted(s) /\ ~Registered(s)
  BY <1>1 DEF ConnInv, WaitingNotAccepted, Accepted, Registered
<1>3. /\ peer[f] = None
      /\ peer' = [peer EXCEPT ![f] = s]
      /\ UNCHANGED <<online, state, view>>
      /\ toServer[s] # <<>> \/ link[s] = "fin"
      /\ \E n \in 0 .. Len(toServer[s]) :
            (n = 0 <=> toServer[s] = <<>>) /\ Consume(s, n)
  BY DEF Accept, LowestFree, clientVars
<1>4. \A t \in Topics : f \notin online[t]
  BY <1>3 DEF PacedInv, SubscribersRegistered
<1>5. ASSUME NEW r \in Subscribers
      PROVE  Interest(r)' = Interest(r)
  BY <1>3, <1>4 DEF Interest, TypeOK
<1>6. ASSUME NEW r \in Subscribers \ {s}
      PROVE  toServer'[r] = toServer[r]
  BY <1>3 DEF Consume, TypeOK
<1>7. ASSUME state[s] = "running"
      PROVE  toServer'[s] = <<>> /\ view[s] = {} /\ Interest(s) = {}
  <2>1. toServer[s] # <<>>
    BY <1>1, <1>3, <1>7 DEF PacedInv, LiveOpen
  <2>2. Len(toServer[s]) = 1 /\ toServer[s][1] = Hello
    BY <1>1, <1>2, <2>1 DEF PacedInv, PipeShort
  <2>3. PICK n \in 0 .. Len(toServer[s]) :
            (n = 0 <=> toServer[s] = <<>>) /\ Consume(s, n)
    BY <1>3
  <2>4. n = Len(toServer[s])
    BY <2>1, <2>2, <2>3
  <2>5. toServer'[s] = <<>>
    BY <1>1, <2>3, <2>4, ConsumeAll DEF TypeOK
  <2>6. QED
    BY <1>1, <1>7, <2>1, <2>2, <2>5 DEF ViewInv, Told
<1>8. /\ state'[s] = "running" => Told(s)'
      /\ state'[s] # "running" => view'[s] = {}
  BY <1>1, <1>3, <1>5, <1>7 DEF ViewInv, Told
<1>9. QED
  BY <1>3, <1>5, <1>6, <1>8, ToldFrame DEF ViewInv

LEMMA ViewHandleCommand ==
    ASSUME Inv, PacedInv, ViewInv, NEW f \in Fds, HandleCommand(f),
           NEW s, s = peer[f]
    PROVE  ViewInv'
<1> USE DEF Inv
<1>1. /\ s \in Subscribers
      /\ toServer[s] # <<>>
      /\ UNCHANGED <<state, view, peer, clients>>
  BY SnapshotFacts DEF HandleCommand, clientVars
<1>2. Len(toServer[s]) = 1 /\ toServer[s][1] # Hello /\ toServer[s][1] = Head(toServer[s])
  BY <1>1 DEF PacedInv, PipeShort, Accepted
<1>3. toServer' = [toServer EXCEPT ![s] = <<>>]
  <2>1. PICK n \in 1 .. Len(toServer[s]) : Consume(s, n)
    BY DEF HandleCommand
  <2>2. n = Len(toServer[s])
    BY <1>2, <2>1
  <2>3. QED
    BY <1>1, <2>1, <2>2, ConsumeAll
<1>4. \A g \in Fds : peer[g] = s => g = f
  BY <1>1, BrokerAssumption DEF ConnInv, PeersDistinct
<1>5. PICK com \in Commands :
        /\ com = toServer[s][1]
        /\ online' = IF com.type = "s" THEN Subscribe(f, com.topic)
                                       ELSE Unsubscribe(f, com.topic)
  <2>1. toServer[s] \in Seq(Commands \cup {Hello})
    BY <1>1 DEF TypeOK
  <2>2. toServer[s][1] \in Commands
    BY <1>2, <2>1
  <2>3. QED
    BY <1>2, <2>2 DEF HandleCommand
<1>6. \A t \in Topics :
        /\ \A g \in Fds \ {f} : g \in online'[t] <=> g \in online[t]
        /\ f \in online'[t] <=>
              IF com.type = "s" THEN f \in online[t] \/ t = com.topic
                                ELSE f \in online[t] /\ t # com.topic
  BY <1>5 DEF Subscribe, Unsubscribe, TypeOK
<1>7. \A t \in Topics : online[t] \subseteq Fds /\ online'[t] \subseteq Fds
  BY <1>5 DEF Subscribe, Unsubscribe, TypeOK
<1>8. ASSUME NEW r \in Subscribers \ {s}
      PROVE  Interest(r)' = Interest(r) /\ toServer'[r] = toServer[r]
  BY <1>1, <1>3, <1>6, <1>7, <1>8 DEF Interest, TypeOK
<1>9. Interest(s) = {t \in Topics : f \in online[t]}
  BY <1>4, <1>7 DEF Interest
<1>10. Interest(s)' = {t \in Topics : f \in online'[t]}
  BY <1>1, <1>4, <1>7 DEF Interest
<1>11. Interest(s)' = After(Interest(s), com)
  BY <1>5, <1>6, <1>9, <1>10 DEF After, Commands
<1>12. toServer'[s] = <<>>
  BY <1>1, <1>3 DEF TypeOK
<1>13. /\ state'[s] = "running" => Told(s)'
       /\ state'[s] # "running" => view'[s] = {}
  BY <1>1, <1>2, <1>5, <1>11, <1>12 DEF ViewInv, Told
<1>14. QED
  BY <1>1, <1>8, <1>13, ToldFrame DEF ViewInv

LEMMA ViewHangUp ==
    ASSUME Inv, PacedInv, ViewInv, NEW f \in Fds, HandleHangUp(f),
           NEW s, s = peer[f]
    PROVE  ViewInv'
<1> USE DEF Inv
<1>1. /\ s \in Subscribers
      /\ link[s] # "open"
      /\ peer' = [peer EXCEPT ![f] = None]
      /\ UNCHANGED online \/ online' = Offline(f)
      /\ UNCHANGED <<state, view, toServer>>
  BY SnapshotFacts DEF HandleHangUp, CloseSocket, Forget, clientVars
<1>2. state[s] # "running"
  BY <1>1 DEF PacedInv, LiveOpen
<1>3. \A t \in Topics :
        /\ online[t] \subseteq Fds /\ online'[t] \subseteq Fds
        /\ \A g \in Fds \ {f} : g \in online'[t] <=> g \in online[t]
  BY <1>1 DEF Offline, TypeOK
<1>4. ASSUME NEW r \in Subscribers \ {s}
      PROVE  Interest(r)' = Interest(r)
  <2>1. \A g \in Fds : (peer'[g] = r <=> peer[g] = r) /\ (peer[g] = r => g # f)
    BY <1>1, BrokerAssumption DEF TypeOK
  <2>2. QED
    BY <1>3, <2>1 DEF Interest
<1>5. QED
  BY <1>1, <1>2, <1>4, ToldFrame DEF ViewInv

LEMMA ViewNext == Paced /\ Inv /\ PacedInv /\ ViewInv /\ [Next]_vars => ViewInv'
<1> SUFFICES ASSUME Paced, Inv, PacedInv, ViewInv, [Next]_vars
             PROVE  ViewInv'
  OBVIOUS
<1> USE DEF serverVars, netVars, clientVars, Inv
<1>1. CASE UNCHANGED <<online, peer, toServer, state, view>>
  <2>1. \A s \in Subscribers : Interest(s)' = Interest(s)
    BY <1>1 DEF Interest
  <2>2. QED
    BY <1>1, <2>1, ToldFrame DEF ViewInv
<1>2. CASE \/ Select \/ HandleStdin \/ HandleUdp \/ AcceptFails \/ UNCHANGED vars
           \/ \E t \in Topics, f \in Fds : SendOne(t, f)
           \/ \E f \in Fds : HandleReset(f)
           \/ \E d \in Datagrams : Publish(d)
           \/ \E l \in Lines : TypeLine(l)
  BY <1>1, <1>2 DEF Select, HandleStdin, HandleUdp, AcceptFails, Die, vars, SendOne,
                    HandleReset, Publish, TypeLine
<1>3. ASSUME NEW f \in Fds, Accept(f) \/ HandleCommand(f) \/ HandleHangUp(f)
      PROVE  ViewInv'
  BY <1>3, ViewAccept, ViewHandleCommand, ViewHangUp
<1>4. ASSUME NEW s \in Subscribers, SubscriberStep(s)
      PROVE  ViewInv'
  <2>1. CASE Connect(s)
    <3>1. /\ state' = [state EXCEPT ![s] = "connected"]
          /\ state[s] = "new"
          /\ UNCHANGED <<online, peer, toServer, view>>
      BY <2>1 DEF Connect
    <3>2. /\ state'[s] # "running"
          /\ \A r \in Subscribers \ {s} : state'[r] = state[r]
          /\ \A r \in Subscribers : Interest(r)' = Interest(r)
      BY <3>1 DEF Interest, TypeOK
    <3>3. QED
      BY <3>1, <3>2 DEF ViewInv, Told
  <2>2. CASE SendId(s)
    <3>1. /\ state' = [state EXCEPT ![s] = "running"]
          /\ state[s] = "connected"
          /\ toServer' = [toServer EXCEPT ![s] = Append(@, Hello)]
          /\ UNCHANGED <<online, peer, view>>
      BY <2>2 DEF SendId
    <3>2. toServer[s] = <<>> /\ Interest(s) = {} /\ view[s] = {}
      BY <3>1, NoInterest DEF PacedInv, ConnectedSilent, ViewInv
    <3>3. toServer'[s] # <<>> /\ toServer'[s][1] = Hello
      BY <3>1, <3>2 DEF TypeOK
    <3>4. \A r \in Subscribers \ {s} : toServer'[r] = toServer[r] /\ state'[r] = state[r]
      BY <3>1 DEF TypeOK
    <3>5. \A r \in Subscribers : Interest(r)' = Interest(r)
      BY <3>1 DEF Interest
    <3>6. state'[s] = "running"
      BY <3>1 DEF TypeOK
    <3>7. Told(s)'
      BY <3>1, <3>2, <3>3, <3>5 DEF Told
    <3>8. QED
      BY <3>1, <3>4, <3>5, <3>6, <3>7 DEF ViewInv, Told
  <2>3. ASSUME NEW com \in Commands, Command(s, com)
        PROVE  ViewInv'
    <3>1. /\ state[s] = "running"
          /\ toServer[s] = <<>>
          /\ toServer' = [toServer EXCEPT ![s] = Append(@, com)]
          /\ view' = [view EXCEPT ![s] = ViewAfter(s, com)]
          /\ UNCHANGED <<online, peer, state>>
      BY <2>3 DEF Command, MayType, Paced
    <3>2. view[s] = Interest(s)
      BY <3>1 DEF ViewInv, Told
    <3>3. toServer'[s] # <<>> /\ toServer'[s][1] = com
      BY <3>1 DEF TypeOK
    <3>4. view'[s] = After(Interest(s), com)
      BY <3>1, <3>2 DEF ViewAfter, After, TypeOK
    <3>5. \A r \in Subscribers \ {s} : toServer'[r] = toServer[r] /\ view'[r] = view[r]
      BY <3>1 DEF TypeOK
    <3>6. \A r \in Subscribers : Interest(r)' = Interest(r)
      BY <3>1 DEF Interest
    <3>7. com # Hello
      BY BrokerAssumption
    <3>8. QED
      BY <3>1, <3>3, <3>4, <3>5, <3>6, <3>7 DEF ViewInv, Told
  <2>4. ASSUME NEW rest, Close(s, rest), UNCHANGED <<online, peer, toServer>>
        PROVE  ViewInv'
    <3>1. state'[s] = "done" /\ view'[s] = {}
      BY <2>4 DEF Close, TypeOK
    <3>2. \A r \in Subscribers \ {s} : state'[r] = state[r] /\ view'[r] = view[r]
      BY <2>4 DEF Close, TypeOK
    <3>3. \A r \in Subscribers : Interest(r)' = Interest(r)
      BY <2>4 DEF Interest
    <3>4. QED
      BY <2>4, <3>1, <3>2, <3>3 DEF ViewInv, Told
  <2>5. CASE Recv(s)
    BY <1>1, <2>4, <2>5 DEF Recv
  <2>6. CASE ServerGone(s) \/ Exit(s)
    BY <2>4, <2>6 DEF ServerGone, Exit
  <2>7. QED
    BY <1>4, <2>1, <2>2, <2>3, <2>5, <2>6 DEF SubscriberStep
<1>5. QED
  BY <1>2, <1>3, <1>4 DEF Next, ServerStep, HandleClient, HandleAccept

LEMMA ViewInit == Init => ViewInv
BY DEF Init, ViewInv

\* When users wait for the server, the "subscribed" and "unsubscribed" that
\* subscriber.c printed are what the vectors of server.c hold once the server
\* has read what the process sent.
THEOREM PacedViewAgrees == Paced => (Spec => []ViewAgrees)
<1> SUFFICES ASSUME Paced PROVE Spec => []ViewAgrees
  OBVIOUS
<1>1. Inv /\ PacedInv /\ [Next]_vars => PacedInv'
  BY PacedNext
<1>2. Inv /\ PacedInv /\ ViewInv /\ [Next]_vars => ViewInv'
  BY ViewNext
<1>3. ViewInv => ViewAgrees
  BY DEF ViewInv, Told, ViewAgrees
<1>4. QED
  BY <1>1, <1>2, <1>3, PacedInit, ViewInit, Invariance, PTL DEF Spec
=============================================================================
