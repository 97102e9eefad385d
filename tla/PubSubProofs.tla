---------------------------- MODULE PubSubProofs ----------------------------
(***************************************************************************)
(* Broker implements PubSub when users wait for the server and no process  *)
(* is killed before it has sent its ID, for any number of processes, IDs,  *)
(* topics and descriptors and any capacities: under the mapping of Broker  *)
(* every step of the sockets, rounds and partial publications is one step  *)
(* of the abstract broker or none.  A process killed that early can leave  *)
(* the ID of another in the table, and PubSub refuses nobody whose ID no   *)
(* member holds.                                                           *)
(***************************************************************************)
EXTENDS BrokerProofs

\* A publication loop sends one topic.
OneTopic == \A p, q \in outgoing : p[1] = q[1]

\* A process that waits for accept() and is past its connect() has sent its ID.
IdSent ==
    status = "running" =>
        \A s \in Subscribers :
            InBacklog(s) /\ state[s] \in {"running", "done"} => toServer[s] # <<>>

\* The ID in a slot is the one of the process at the other end.
OwnId == \A f \in Fds : clients[f] \in {NoId, IdOf[peer[f]]}

MapInv == Inv /\ PacedInv /\ Sending /\ OneTopic /\ IdSent /\ OwnId

\* What the mapping takes for the inbox of a process, and the members.
Box(s) == IF state[s] = "done" THEN <<>> ELSE toClient[s] \o Coming(s)
Member == {s \in Subscribers : Registered(s)}
Gone == {s \in Subscribers : state[s] = "done"}

\* Nothing a step of PubSub sees has changed.
Unseen ==
    /\ (status = "running") = (status = "running")'
    /\ Member' = Member
    /\ \A s \in Subscribers : Interest(s)' = Interest(s) /\ Box(s)' = Box(s)
    /\ Gone' = Gone

-----------------------------------------------------------------------------
\* The mapping in terms of Box, Member and Gone.

LEMMA ComingNone ==
    ASSUME NEW s, \A p \in outgoing : peer[p[2]] # s
    PROVE  Coming(s) = <<>>
BY DEF Coming

LEMMA ComingOne ==
    ASSUME OneTopic, NEW s, NEW p \in outgoing, peer[p[2]] = s
    PROVE  Coming(s) = <<p[1]>>
<1>1. PICK q \in outgoing : peer[q[2]] = s /\ Coming(s) = <<q[1]>>
  BY DEF Coming
<1>2. QED
  BY <1>1 DEF OneTopic

LEMMA ComingKept ==
    ASSUME UNCHANGED <<outgoing, peer>>, NEW s
    PROVE  Coming(s)' = Coming(s)
BY DEF Coming

LEMMA Stutters ==
    ASSUME Unseen PROVE UNCHANGED PS!vars
BY DEF Unseen, Member, Gone, Box, PS!vars

LEMMA Stops ==
    ASSUME status = "running", status' # "running",
           Member' = Member, Gone' = Gone,
           \A s \in Subscribers : Interest(s)' = Interest(s) /\ Box(s)' = Box(s)
    PROVE  PS!Next
BY DEF Member, Gone, Box, PS!Next, PS!Stop

LEMMA Joins ==
    ASSUME NEW s \in Subscribers, status = "running", status' = status,
           \A m \in Member : IdOf[m] # IdOf[s],
           Member' = Member \cup {s}, Gone' = Gone,
           \A r \in Subscribers : Interest(r)' = Interest(r) /\ Box(r)' = Box(r)
    PROVE  PS!Next
BY DEF Member, Gone, Box, PS!Next, PS!Join, PS!Taken

LEMMA Refuses ==
    ASSUME NEW s \in Subscribers, status = "running", status' = status,
           \E m \in Member : IdOf[m] = IdOf[s],
           Member' = Member, Gone' = Gone,
           \A r \in Subscribers : Interest(r)' = Interest(r),
           \A r \in Subscribers :
              Box(r)' = IF r = s /\ r \notin Gone THEN Append(Box(r), Warning) ELSE Box(r)
    PROVE  PS!Next
BY DEF Member, Gone, Box, PS!Next, PS!Refuse, PS!Taken, PS!Put

LEMMA Sets ==
    ASSUME NEW s \in Member, NEW t \in Topics, NEW topics,
           topics \in {Interest(s) \cup {t}, Interest(s) \ {t}},
           status = "running", status' = status,
           Member' = Member, Gone' = Gone,
           \A r \in Subscribers :
              /\ Interest(r)' = IF r = s THEN topics ELSE Interest(r)
              /\ Box(r)' = Box(r)
    PROVE  PS!Next
BY DEF Member, Gone, Box, PS!Next, PS!SetInterest

LEMMA Publishes ==
    ASSUME NEW t \in Topics, status = "running", status' = status,
           Member' = Member, Gone' = Gone,
           \A r \in Subscribers : Interest(r)' = Interest(r),
           \A r \in Subscribers :
              Box(r)' = IF r \in Member \ Gone /\ t \in Interest(r)
                        THEN Append(Box(r), t) ELSE Box(r)
    PROVE  PS!Next
BY DEF Member, Gone, Box, PS!Next, PS!Publish, PS!Put

LEMMA Leaves ==
    ASSUME NEW s \in Subscribers, status' = status,
           Member' = Member, Gone' = Gone \cup {s},
           \A r \in Subscribers : Interest(r)' = Interest(r),
           \A r \in Subscribers : Box(r)' = IF r = s THEN <<>> ELSE Box(r)
    PROVE  PS!Next
BY DEF Member, Gone, Box, PS!Next, PS!Leave

LEMMA Reads ==
    ASSUME NEW s \in Subscribers \ Gone, status' = status, Box(s) # <<>>,
           Head(Box(s)) # Warning,
           Member' = Member, Gone' = Gone,
           \A r \in Subscribers : Interest(r)' = Interest(r),
           \A r \in Subscribers : Box(r)' = IF r = s THEN Tail(Box(s)) ELSE Box(r)
    PROVE  PS!Next
BY DEF Member, Gone, Box, PS!Next, PS!Read

LEMMA HangsUp ==
    ASSUME NEW s \in Member \cap Gone, status = "running", status' = status,
           Member' = Member \ {s}, Gone' = Gone,
           \A r \in Subscribers :
              /\ Interest(r)' = IF r = s THEN {} ELSE Interest(r)
              /\ Box(r)' = Box(r)
    PROVE  PS!Next
BY DEF Member, Gone, Box, PS!Next, PS!HangUp

-----------------------------------------------------------------------------
\* The invariants the mapping adds.

LEMMA OneTopicNext == OneTopic /\ [Next]_vars => OneTopic'
<1> SUFFICES ASSUME OneTopic, [Next]_vars
             PROVE  OneTopic'
  OBVIOUS
<1> USE DEF serverVars, netVars, clientVars
<1>1. CASE HandleUdp
  <2>1. outgoing' = {} \/ outgoing' = Recipients(Head(udp).topic)
    BY <1>1 DEF HandleUdp, At
  <2>2. QED
    BY <2>1 DEF OneTopic, Recipients
<1>2. CASE ~HandleUdp
  <2>1. outgoing' \subseteq outgoing
    BY <1>2 DEF Next, ServerStep, HandleClient, HandleAccept, SubscriberStep, vars,
       Select, HandleStdin, SendOne, Accept, AcceptFails, Die, HandleCommand,
       HandleHangUp, HandleReset, Connect, SendId, Command, Recv, ServerGone, Exit,
       Publish, TypeLine
  <2>2. QED
    BY <2>1 DEF OneTopic
<1>3. QED
  BY <1>1, <1>2

LEMMA IdSentAccept ==
    ASSUME Inv, IdSent, NEW f \in Fds, Accept(f)
    PROVE  IdSent'
<1> USE DEF Inv
<1> DEFINE s == Head(backlog)
<1>1. s \in Subscribers /\ backlog # <<>> /\ s = backlog[1] /\ 1 \in 1 .. Len(backlog)
  BY SnapshotFacts DEF Accept, TypeOK
<1>2. backlog' = Tail(backlog) /\ UNCHANGED <<status, state>>
  BY DEF Accept, clientVars
<1>3. \A r \in Subscribers \ {s} : toServer'[r] = toServer[r]
  BY DEF Accept, Consume, TypeOK
<1>4. ASSUME NEW i \in 1 .. Len(backlog')
      PROVE  i + 1 \in 1 .. Len(backlog) /\ backlog'[i] = backlog[i + 1] /\ i + 1 # 1
  <2>1. backlog \in Seq(Subscribers)
    BY DEF TypeOK
  <2>2. QED
    BY <1>1, <1>2, <1>4, <2>1
<1>5. \A r \in Subscribers : InBacklog(r)' => InBacklog(r) /\ r # s
  BY <1>1, <1>4 DEF InBacklog, ConnInv, BacklogDistinct
<1>6. QED
  BY <1>2, <1>3, <1>5 DEF IdSent

LEMMA IdSentNext == ~Abrupt /\ Inv /\ IdSent /\ [Next]_vars => IdSent'
<1> SUFFICES ASSUME ~Abrupt, Inv, IdSent, [Next]_vars
             PROVE  IdSent'
  OBVIOUS
<1> USE DEF serverVars, netVars, clientVars, Inv
<1>1. ASSUME NEW f \in Fds, HandleCommand(f)
      PROVE  IdSent'
  <2>1. ~InBacklog(peer[f])
    BY <1>1, SnapshotFacts DEF HandleCommand, ConnInv, WaitingNotAccepted, Accepted, InBacklog
  <2>2. /\ UNCHANGED <<status, state, backlog>>
        /\ \A r \in Subscribers \ {peer[f]} : toServer'[r] = toServer[r]
    BY <1>1 DEF HandleCommand, Consume, TypeOK
  <2>3. QED
    BY <2>1, <2>2 DEF IdSent, InBacklog
<1>2. ASSUME NEW s \in Subscribers, Connect(s)
      PROVE  IdSent'
  <2>1. /\ state' = [state EXCEPT ![s] = "connected"]
        /\ backlog' = Append(backlog, s)
        /\ UNCHANGED <<status, toServer>>
    BY <1>2 DEF Connect
  <2>2. \A r \in Subscribers \ {s} : InBacklog(r)' => InBacklog(r)
    <3>1. backlog \in Seq(Subscribers)
      BY DEF TypeOK
    <3>2. \A i \in 1 .. Len(backlog') :
            (i \in 1 .. Len(backlog) /\ backlog'[i] = backlog[i]) \/ backlog'[i] = s
      BY <2>1, <3>1
    <3>3. QED
      BY <3>2 DEF InBacklog
  <2>3. state'[s] = "connected" /\ \A r \in Subscribers \ {s} : state'[r] = state[r]
    BY <2>1 DEF TypeOK
  <2>4. QED
    BY <2>1, <2>2, <2>3 DEF IdSent
<1>3. ASSUME NEW s \in Subscribers, NEW m \in Commands \cup {Hello},
             toServer' = [toServer EXCEPT ![s] = Append(@, m)],
             UNCHANGED <<status, backlog>>,
             \A r \in Subscribers \ {s} : state'[r] = state[r]
      PROVE  IdSent'
  <2>1. toServer[s] \in Seq(Commands \cup {Hello})
    BY DEF TypeOK
  <2>2. Append(toServer[s], m) # <<>>
    BY <2>1
  <2>3. /\ toServer'[s] = Append(toServer[s], m)
        /\ \A r \in Subscribers \ {s} : toServer'[r] = toServer[r]
    BY <1>3 DEF TypeOK
  <2>4. QED
    BY <1>3, <2>2, <2>3 DEF IdSent, InBacklog
<1>4. ASSUME NEW s \in Subscribers, NEW rest, Close(s, rest),
             state[s] = "running" \/ status # "running",
             UNCHANGED <<status, backlog, toServer>>
      PROVE  IdSent'
  <2>1. \A r \in Subscribers \ {s} : state'[r] = state[r]
    BY <1>4 DEF Close, TypeOK
  <2>2. QED
    BY <1>4, <2>1 DEF IdSent, InBacklog
<1>5. ASSUME NEW s \in Subscribers, SubscriberStep(s)
      PROVE  IdSent'
  <2>1. CASE SendId(s) \/ \E com \in Commands : Command(s, com)
    BY <1>3, <2>1 DEF SendId, Command, TypeOK
  <2>2. CASE Recv(s)
    <3>1. CASE Close(s, Tail(toClient[s]))
      BY <1>4, <2>2, <3>1 DEF Recv
    <3>2. CASE UNCHANGED state
      BY <2>2, <3>2 DEF Recv, IdSent, InBacklog
    <3>3. QED
      BY <2>2, <3>1, <3>2 DEF Recv
  <2>3. CASE ServerGone(s)
    BY <1>4, <2>3 DEF ServerGone
  <2>4. CASE Exit(s)
    BY <1>4, <2>4 DEF Exit
  <2>5. QED
    BY <1>2, <1>5, <2>1, <2>2, <2>3, <2>4 DEF SubscriberStep
<1>6. ASSUME \A f \in Fds : ~Accept(f) /\ ~HandleCommand(f),
             \A s \in Subscribers : ~SubscriberStep(s)
      PROVE  IdSent'
  <2>1. UNCHANGED <<state, backlog, toServer>> /\ (status' = "running" => status = "running")
    BY <1>6 DEF Next, ServerStep, HandleClient, HandleAccept, vars, Select, HandleStdin,
       HandleUdp, SendOne, AcceptFails, Die, HandleHangUp, HandleReset, Publish, TypeLine, At
  <2>2. QED
    BY <2>1 DEF IdSent, InBacklog
<1>7. QED
  BY <1>1, <1>5, <1>6, IdSentAccept

\* The server takes the ID a waiting process sent for it.
LEMMA IdReceived ==
    ASSUME Inv, PacedInv, IdSent, NEW f \in Fds, Accept(f), NEW s, s = Head(backlog)
    PROVE  ReceivedIds(s) = {IdOf[s]}
<1> USE DEF Inv
<1>1. s \in Subscribers /\ backlog # <<>> /\ s = backlog[1] /\ 1 \in 1 .. Len(backlog)
  BY SnapshotFacts DEF Accept, TypeOK
<1>2. InBacklog(s) /\ status = "running" /\ (toServer[s] # <<>> \/ link[s] = "fin")
  BY <1>1 DEF InBacklog, Accept, At
<1>3. link[s] = "fin" => state[s] = "done"
  <2>1. state[s] # "new"
    BY <1>1, <1>2 DEF ConnInv, NewUnseen
  <2>2. QED
    BY <1>1, <2>1 DEF PacedInv, LiveOpen, TypeOK
<1>4. toServer[s] # <<>>
  BY <1>1, <1>2, <1>3 DEF IdSent
<1>5. QED
  BY <1>4 DEF ReceivedIds

LEMMA OwnIdNext == Inv /\ PacedInv /\ IdSent /\ OwnId /\ [Next]_vars => OwnId'
<1> SUFFICES ASSUME Inv, PacedInv, IdSent, OwnId, [Next]_vars
             PROVE  OwnId'
  OBVIOUS
<1> USE DEF serverVars, netVars, clientVars, Inv
<1>1. ASSUME NEW f \in Fds, Accept(f), NEW s, s = Head(backlog)
      PROVE  OwnId'
  <2>1. /\ peer[f] = None
        /\ peer' = [peer EXCEPT ![f] = s]
        /\ UNCHANGED clients \/ clients' = [clients EXCEPT ![f] = IdOf[s]]
    BY <1>1, IdReceived DEF Accept, LowestFree, Admit
  <2>2. clients[f] = NoId
    BY <2>1 DEF RegisteredOpen
  <2>3. QED
    BY <2>1, <2>2 DEF OwnId, TypeOK
<1>2. ASSUME NEW f \in Fds, HandleHangUp(f)
      PROVE  OwnId'
  <2>1. /\ peer' = [peer EXCEPT ![f] = None]
        /\ \/ clients' = [clients EXCEPT ![f] = NoId]
           \/ clients[f] = NoId /\ UNCHANGED clients
    BY <1>2 DEF HandleHangUp, CloseSocket, Forget
  <2>2. QED
    BY <2>1 DEF OwnId, TypeOK
<1>3. ASSUME \A f \in Fds : ~Accept(f) /\ ~HandleHangUp(f)
      PROVE  OwnId'
  <2>1. UNCHANGED <<clients, peer>>
    BY <1>3 DEF Next, ServerStep, HandleClient, HandleAccept, SubscriberStep, vars,
     Select, HandleStdin, HandleUdp, SendOne, AcceptFails, Die, HandleCommand,
     HandleReset, Connect, SendId, Command, Recv, ServerGone, Exit, Publish, TypeLine
  <2>2. QED
    BY <2>1 DEF OwnId
<1>4. QED
  BY <1>1, <1>2, <1>3

LEMMA MapInvInit == Init => MapInv
BY InvInit, PacedInit DEF Init, MapInv, Sending, OneTopic, IdSent, OwnId

LEMMA MapInvNext == Paced /\ ~Abrupt /\ MapInv /\ [Next]_vars => MapInv'
BY InvNext, PacedNext, SendingNext, OneTopicNext, IdSentNext, OwnIdNext DEF MapInv

-----------------------------------------------------------------------------
\* The steps of the server.

\* A process whose connection is no longer open, once it had one, has ended.
LEMMA Ended ==
    ASSUME MapInv, NEW s \in Subscribers, Accepted(s) \/ InBacklog(s),
           link[s] # "open"
    PROVE  state[s] = "done"
<1>1. state[s] # "new"
  BY DEF MapInv, Inv, ConnInv, NewUnseen
<1>2. state[s] \notin {"connected", "running"}
  BY DEF MapInv, PacedInv, LiveOpen
<1>3. QED
  BY <1>1, <1>2 DEF MapInv, Inv, TypeOK

LEMMA MapFrame ==
    ASSUME UNCHANGED <<clients, peer, online, outgoing, toClient, state>>
    PROVE  /\ Member' = Member /\ Gone' = Gone
           /\ \A s \in Subscribers : Interest(s)' = Interest(s) /\ Box(s)' = Box(s)
<1>1. \A s \in Subscribers : Coming(s)' = Coming(s)
  BY ComingKept
<1>2. QED
  BY <1>1 DEF Member, Gone, Box, Interest, Registered

LEMMA MapDie ==
    ASSUME status = "running", Die PROVE PS!Next
<1>1. /\ UNCHANGED <<clients, peer, online, outgoing, toClient, state>>
      /\ status' # "running"
  BY DEF Die, netVars, clientVars
<1>2. QED
  BY <1>1, MapFrame, Stops

LEMMA MapUdp ==
    ASSUME MapInv, HandleUdp PROVE PS!Next
<1> USE DEF MapInv, Inv
<1> DEFINE d == Head(udp)
<1>1. /\ status = "running"
      /\ outgoing = {}
      /\ UNCHANGED <<clients, peer, online, toClient, state>>
      /\ d.topic \in Topics
  BY SnapshotFacts, BrokerAssumption DEF HandleUdp, At, clientVars
<1>2. CASE status' = "died" /\ UNCHANGED outgoing
  BY <1>1, <1>2, MapFrame, Stops
<1>3. CASE outgoing' = Recipients(d.topic) /\ UNCHANGED status
  <2>1. PICK t \in Topics : t = d.topic
    BY <1>1
  <2>2. outgoing' = {<<t, f>> : f \in online[t]} /\ online[t] \subseteq Fds
    BY <1>3, <2>1 DEF Recipients, TypeOK
  <2>3. /\ Member' = Member /\ Gone' = Gone
        /\ \A r \in Subscribers : Interest(r)' = Interest(r)
    BY <1>1 DEF Member, Gone, Interest, Registered
  <2>4. ASSUME NEW r \in Subscribers, t \in Interest(r)
        PROVE  r \in Member /\ Coming(r)' = <<t>>
    <3>1. PICK f \in online[t] : peer[f] = r
      BY <2>4 DEF Interest
    <3>2. f \in Fds /\ clients[f] = IdOf[r]
      BY <2>2, <3>1 DEF PacedInv, SubscribersRegistered
    <3>3. <<t, f>> \in outgoing' /\ peer'[f] = r
      BY <1>1, <2>2, <3>1
    <3>4. \A p \in outgoing' : p[1] = t
      BY <2>2
    <3>5. Coming(r)' = <<t>>
      BY <3>3, <3>4 DEF Coming
    <3>6. QED
      BY <3>1, <3>2, <3>5 DEF Member, Registered
  <2>5. ASSUME NEW r \in Subscribers, t \notin Interest(r)
        PROVE  Coming(r)' = <<>>
    <3>1. \A p \in outgoing' : peer'[p[2]] # r
      BY <1>1, <2>2, <2>5 DEF Interest
    <3>2. QED
      BY <3>1 DEF Coming
  <2>6. \A r \in Subscribers : Coming(r) = <<>>
    BY <1>1, ComingNone
  <2>7. ASSUME NEW r \in Subscribers
        PROVE  Box(r)' = IF r \in Member \ Gone /\ t \in Interest(r)
                         THEN Append(Box(r), t) ELSE Box(r)
    <3>1. toClient[r] \in Seq(Topics \cup {Warning})
      BY DEF TypeOK
    <3>2. toClient[r] \o <<>> = toClient[r] /\ toClient[r] \o <<t>> = Append(toClient[r], t)
      BY <3>1
    <3>3. QED
      BY <1>1, <2>4, <2>5, <2>6, <3>2 DEF Box, Gone
  <2>8. QED
    BY <1>1, <1>3, <2>3, <2>7, Publishes
<1>4. QED
  BY <1>2, <1>3 DEF HandleUdp

LEMMA MapSend ==
    ASSUME MapInv, NEW t \in Topics, NEW f \in Fds, SendOne(t, f)
    PROVE  [PS!Next]_PS!vars
<1> USE DEF MapInv, Inv
<1>1. CASE Die
  BY <1>1, MapDie DEF SendOne
<1>2. CASE /\ peer[f] # None
           /\ Deliver(peer[f], t)
           /\ outgoing' = outgoing \ {<<t, f>>}
           /\ UNCHANGED <<status, clients, online, peer, state>>
  <2>1. PICK s \in Subscribers : s = peer[f]
    BY <1>2 DEF TypeOK
  <2>2. <<t, f>> \in outgoing
    BY DEF SendOne
  <2>3. Coming(s) = <<t>>
    BY <2>1, <2>2, ComingOne
  <2>4. \A p \in outgoing : peer[p[2]] = s => p = <<t, f>>
    <3> SUFFICES ASSUME NEW p \in outgoing, peer[p[2]] = s
                 PROVE  p = <<t, f>>
      OBVIOUS
    <3>1. p = <<p[1], p[2]>> /\ p[2] \in Fds
      BY DEF TypeOK
    <3>2. p[2] = f
      BY <2>1, <3>1, BrokerAssumption DEF ConnInv, PeersDistinct
    <3>3. p[1] = t
      BY <2>2 DEF OneTopic
    <3>4. QED
      BY <3>1, <3>2, <3>3
  <2>5. Coming(s)' = <<>>
    <3>1. \A p \in outgoing' : peer'[p[2]] # s
      BY <1>2, <2>4
    <3>2. QED
      BY <3>1 DEF Coming
  <2>6. Box(s)' = Box(s)
    <3>1. toClient[s] \in Seq(Topics \cup {Warning})
      BY DEF TypeOK
    <3>2. CASE link[s] = "open" /\ toClient' = [toClient EXCEPT ![s] = Append(@, t)]
      <4>1. toClient'[s] = Append(toClient[s], t)
        BY <3>2 DEF TypeOK
      <4>2. Append(toClient[s], t) \o <<>> = toClient[s] \o <<t>>
        BY <3>1
      <4>3. QED
        BY <1>2, <2>3, <2>5, <4>1, <4>2 DEF Box
    <3>3. CASE link[s] = "fin"
      <4>1. state[s] = "done"
        BY <2>1, <3>3, Ended DEF Accepted
      <4>2. QED
        BY <1>2, <4>1 DEF Box
    <3>4. QED
      BY <1>2, <2>1, <3>2, <3>3 DEF Deliver
  <2>7. ASSUME NEW r \in Subscribers \ {s}
        PROVE  Box(r)' = Box(r)
    <3>1. Coming(r)' = Coming(r)
      <4>1. CASE \E p \in outgoing : peer[p[2]] = r
        <5>1. PICK p \in outgoing : peer[p[2]] = r
          BY <4>1
        <5>2. p \in outgoing' /\ peer'[p[2]] = r
          BY <1>2, <2>1, <5>1
        <5>3. OneTopic'
          BY <1>2 DEF OneTopic
        <5>4. Coming(r)' = <<p[1]>>
          BY <5>2, <5>3 DEF Coming, OneTopic
        <5>5. QED
          BY <5>1, <5>4, ComingOne
      <4>2. CASE \A p \in outgoing : peer[p[2]] # r
        <5>1. \A p \in outgoing' : peer'[p[2]] # r
          BY <1>2, <4>2
        <5>2. QED
          BY <4>2, <5>1, ComingNone DEF Coming
      <4>3. QED
        BY <4>1, <4>2
    <3>2. toClient'[r] = toClient[r]
      BY <1>2, <2>1 DEF Deliver, TypeOK
    <3>3. QED
      BY <1>2, <3>1, <3>2 DEF Box
  <2>8. /\ Member' = Member /\ Gone' = Gone
        /\ \A r \in Subscribers : Interest(r)' = Interest(r)
    BY <1>2 DEF Member, Gone, Interest, Registered
  <2>9. QED
    BY <1>2, <2>6, <2>7, <2>8, Stutters DEF Unseen
<1>3. QED
  BY <1>1, <1>2 DEF SendOne, clientVars

LEMMA MapAccept ==
    ASSUME MapInv, NEW f \in Fds, Accept(f), NEW s, s = Head(backlog)
    PROVE  [PS!Next]_PS!vars
<1> USE DEF MapInv, Inv
<1>1. s \in Subscribers /\ backlog # <<>> /\ s = backlog[1] /\ 1 \in 1 .. Len(backlog)
  BY SnapshotFacts DEF Accept, TypeOK
<1>2. ~Accepted(s) /\ InBacklog(s) /\ ~Registered(s)
  BY <1>1 DEF ConnInv, WaitingNotAccepted, Accepted, InBacklog, Registered
<1>3. /\ status = "running"
      /\ outgoing = {}
      /\ peer[f] = None
      /\ clients[f] = NoId
      /\ peer' = [peer EXCEPT ![f] = s]
      /\ toServer[s] # <<>> \/ link[s] = "fin"
      /\ UNCHANGED <<status, online, outgoing, state>>
  BY DEF Accept, At, LowestFree, clientVars, RegisteredOpen
<1>4. \A r \in Subscribers : Coming(r) = <<>> /\ Coming(r)' = <<>>
  BY <1>3 DEF Coming
<1>5. \A r \in Subscribers : Interest(r)' = Interest(r)
  <2>1. \A t \in Topics : f \notin online[t]
    BY <1>3 DEF PacedInv, SubscribersRegistered
  <2>2. QED
    BY <1>3, <2>1 DEF Interest, TypeOK
<1>6. Gone' = Gone
  BY <1>3 DEF Gone
<1>7. ReceivedIds(s) = {IdOf[s]} /\ IdOf[s] # NoId
  BY <1>1, IdReceived, BrokerAssumption DEF Registrable
<1>8. \A r \in Subscribers \ {s} : Registered(r)' <=> Registered(r)
  <2>1. \A g \in Fds : clients'[g] = clients[g] \/ g = f
    BY DEF Accept, Admit, TypeOK
  <2>2. \A g \in Fds : (g # f => peer'[g] = peer[g]) /\ peer'[f] = s
    BY <1>3 DEF TypeOK
  <2>3. \A r \in Subscribers : r # None
    BY BrokerAssumption
  <2>4. QED
    BY <1>3, <2>1, <2>2, <2>3 DEF Registered
<1>9. \A g \in Fds : peer'[g] = s <=> g = f
  BY <1>2, <1>3 DEF Accepted, TypeOK
<1>10. CASE ~Connected(IdOf[s]) /\ clients' = [clients EXCEPT ![f] = IdOf[s]]
            /\ UNCHANGED toClient
  <2>1. \A r \in Subscribers : Box(r)' = Box(r)
    BY <1>3, <1>4, <1>10 DEF Box
  <2>2. Member' = Member \cup {s}
    <3>1. Registered(s)'
      BY <1>9, <1>10 DEF Registered, TypeOK
    <3>2. QED
      BY <1>1, <1>8, <3>1 DEF Member
  <2>3. \A m \in Member : IdOf[m] # IdOf[s]
    BY <1>10 DEF Member, Registered, Connected
  <2>4. QED
    BY <1>1, <1>3, <1>5, <1>6, <2>1, <2>2, <2>3, Joins
<1>11. CASE Connected(IdOf[s]) /\ Deliver(s, Warning) /\ UNCHANGED clients
  <2>1. Member' = Member
    <3>1. ~Registered(s)'
      BY <1>3, <1>7, <1>9, <1>11 DEF Registered
    <3>2. QED
      BY <1>2, <1>8, <3>1 DEF Member
  <2>2. \A r \in Subscribers :
          Box(r)' = IF r = s /\ r \notin Gone THEN Append(Box(r), Warning) ELSE Box(r)
    <3>1. toClient[s] \in Seq(Topics \cup {Warning})
      BY <1>1 DEF TypeOK
    <3>2. /\ toClient[s] \o <<>> = toClient[s]
          /\ Append(toClient[s], Warning) \o <<>> = Append(toClient[s], Warning)
      BY <3>1
    <3>3. \A r \in Subscribers \ {s} : toClient'[r] = toClient[r]
      BY <1>1, <1>11 DEF Deliver, TypeOK
    <3>4. s \notin Gone => toClient'[s] = Append(toClient[s], Warning)
      BY <1>1, <1>2, <1>11, Ended DEF Deliver, TypeOK, Gone
    <3>5. \A r \in Subscribers \ {s} : Box(r)' = Box(r)
      BY <1>3, <1>4, <3>3 DEF Box
    <3>6. Box(s)' = IF s \notin Gone THEN Append(Box(s), Warning) ELSE Box(s)
      BY <1>1, <1>3, <1>4, <3>2, <3>4 DEF Box, Gone
    <3>7. QED
      BY <3>5, <3>6
  <2>3. PICK g \in Fds : clients[g] = IdOf[s]
    BY <1>7, <1>11 DEF Connected
  <2>4. peer[g] \in Subscribers /\ clients[g] = IdOf[peer[g]]
    BY <1>7, <2>3 DEF OwnId, RegisteredOpen, TypeOK
  <2>5. peer[g] \in Member /\ IdOf[peer[g]] = IdOf[s]
    BY <2>3, <2>4 DEF Member, Registered
  <2>6. QED
    BY <1>1, <1>3, <1>5, <1>6, <2>1, <2>2, <2>5, Refuses
<1>12. QED
  BY <1>7, <1>10, <1>11 DEF Accept, Admit

LEMMA MapCommand ==
    ASSUME MapInv, NEW f \in Fds, HandleCommand(f), NEW s, s = peer[f]
    PROVE  PS!Next
<1> USE DEF MapInv, Inv
<1>1. /\ s \in Subscribers
      /\ toServer[s] # <<>>
      /\ status = "running"
      /\ UNCHANGED <<status, peer, clients, outgoing, toClient, state>>
  BY SnapshotFacts DEF HandleCommand, At, clientVars
<1>2. toServer[s][1] # Hello /\ Registered(s)
  BY <1>1 DEF PacedInv, PipeShort, Accepted
<1>3. PICK com \in Commands :
        online' = IF com.type = "s" THEN Subscribe(f, com.topic)
                                    ELSE Unsubscribe(f, com.topic)
  <2>1. toServer[s] \in Seq(Commands \cup {Hello}) /\ Head(toServer[s]) = toServer[s][1]
    BY <1>1 DEF TypeOK
  <2>2. Head(toServer[s]) \in Commands
    BY <1>1, <1>2, <2>1
  <2>3. QED
    BY <2>2 DEF HandleCommand
<1>4. \A g \in Fds : peer[g] = s <=> g = f
  BY <1>1, BrokerAssumption DEF ConnInv, PeersDistinct
<1>5. PICK t \in Topics : t = com.topic
  BY DEF Commands
<1>6. \A u \in Topics :
        /\ online[u] \subseteq Fds /\ online'[u] \subseteq Fds
        /\ \A g \in Fds \ {f} : g \in online'[u] <=> g \in online[u]
        /\ f \in online'[u] <=> IF com.type = "s" THEN f \in online[u] \/ u = t
                                                  ELSE f \in online[u] /\ u # t
  BY <1>3, <1>5 DEF Subscribe, Unsubscribe, TypeOK
<1>7. Interest(s) = {u \in Topics : f \in online[u]}
  BY <1>4, <1>6 DEF Interest
<1>8. Interest(s)' = {u \in Topics : f \in online'[u]}
  BY <1>1, <1>4, <1>6 DEF Interest
<1>9. Interest(s)' \in {Interest(s) \cup {t}, Interest(s) \ {t}}
  BY <1>6, <1>7, <1>8
<1>10. \A r \in Subscribers \ {s} : Interest(r)' = Interest(r)
  BY <1>1, <1>4, <1>6 DEF Interest
<1>11. /\ Member' = Member /\ Gone' = Gone
       /\ \A r \in Subscribers : Box(r)' = Box(r)
  <2>1. \A r \in Subscribers : Coming(r)' = Coming(r)
    BY <1>1, ComingKept
  <2>2. QED
    BY <1>1, <2>1 DEF Member, Gone, Box, Registered
<1>12. s \in Member
  BY <1>1, <1>2 DEF Member
<1>13. QED
  BY <1>1, <1>9, <1>10, <1>11, <1>12, Sets

LEMMA MapHangUp ==
    ASSUME MapInv, NEW f \in Fds, HandleHangUp(f), NEW s, s = peer[f]
    PROVE  [PS!Next]_PS!vars
<1> USE DEF MapInv, Inv
<1>1. /\ s \in Subscribers
      /\ link[s] # "open"
      /\ status = "running"
      /\ outgoing = {}
      /\ peer' = [peer EXCEPT ![f] = None]
      /\ \/ clients[f] # NoId /\ online' = Offline(f) /\ clients' = [clients EXCEPT ![f] = NoId]
         \/ clients[f] = NoId /\ UNCHANGED <<online, clients>>
      /\ UNCHANGED <<status, outgoing, state, toClient>>
  BY SnapshotFacts DEF HandleHangUp, CloseSocket, Forget, At, clientVars
<1>2. s \in Gone
  BY <1>1, Ended DEF Gone, Accepted
<1>3. Gone' = Gone /\ \A r \in Subscribers : Box(r)' = Box(r)
  <2>1. \A r \in Subscribers : Coming(r)' = <<>> /\ Coming(r) = <<>>
    BY <1>1 DEF Coming
  <2>2. QED
    BY <1>1, <2>1 DEF Gone, Box
<1>4. \A g \in Fds : peer[g] = s <=> g = f
  BY <1>1, BrokerAssumption DEF ConnInv, PeersDistinct
<1>5. \A g \in Fds : peer'[g] # s /\ (g # f => peer'[g] = peer[g] /\ clients'[g] = clients[g])
  BY <1>1, <1>4, BrokerAssumption DEF TypeOK
<1>6. peer'[f] = None /\ \A r \in Subscribers : r # None
  BY <1>1, BrokerAssumption DEF TypeOK
<1>7. Member' = Member \ {s}
  <2>1. ~Registered(s)'
    BY <1>5 DEF Registered
  <2>2. \A r \in Subscribers \ {s} : Registered(r)' <=> Registered(r)
    BY <1>4, <1>5, <1>6 DEF Registered
  <2>3. QED
    BY <2>1, <2>2 DEF Member
<1>8. \A t \in Topics :
        /\ online[t] \subseteq Fds /\ online'[t] \subseteq Fds
        /\ \A g \in Fds \ {f} : g \in online'[t] <=> g \in online[t]
  BY <1>1 DEF Offline, TypeOK
<1>9. Interest(s)' = {}
  BY <1>5, <1>8 DEF Interest
<1>10. \A r \in Subscribers \ {s} : Interest(r)' = Interest(r)
  BY <1>4, <1>5, <1>6, <1>8 DEF Interest
<1>11. CASE s \in Member
  BY <1>1, <1>2, <1>3, <1>7, <1>9, <1>10, <1>11, HangsUp
<1>12. CASE s \notin Member
  <2>1. Interest(s) = {}
    BY <1>1, <1>8, <1>12 DEF Interest, Member, Registered, PacedInv, SubscribersRegistered
  <2>2. QED
    BY <1>1, <1>3, <1>7, <1>9, <1>10, <1>12, <2>1, Stutters DEF Unseen
<1>13. QED
  BY <1>11, <1>12

-----------------------------------------------------------------------------
\* The steps of a process.

\* Its end, whatever it had yet to read.
LEMMA MapClose ==
    ASSUME TypeOK, NEW s \in Subscribers, NEW rest, Close(s, rest),
           UNCHANGED <<status, clients, peer, online, outgoing>>
    PROVE  /\ Member' = Member /\ Gone' = Gone \cup {s}
           /\ \A r \in Subscribers :
                /\ Interest(r)' = Interest(r)
                /\ Box(r)' = IF r = s THEN <<>> ELSE Box(r)
<1>1. /\ state'[s] = "done"
      /\ \A r \in Subscribers \ {s} : state'[r] = state[r] /\ toClient'[r] = toClient[r]
  BY DEF Close, TypeOK
<1>2. \A r \in Subscribers : Coming(r)' = Coming(r)
  BY ComingKept
<1>3. QED
  BY <1>1, <1>2 DEF Member, Gone, Box, Interest, Registered

LEMMA MapRecv ==
    ASSUME MapInv, NEW s \in Subscribers, Recv(s)
    PROVE  PS!Next
<1> USE DEF MapInv, Inv
<1>1. /\ state[s] = "running"
      /\ toClient[s] # <<>>
      /\ UNCHANGED <<status, clients, peer, online, outgoing>>
  BY DEF Recv, serverVars
<1>2. CASE Close(s, Tail(toClient[s]))
  BY <1>1, <1>2, MapClose, Leaves
<1>3. CASE /\ Head(toClient[s]) # Warning
           /\ toClient' = [toClient EXCEPT ![s] = Tail(@)]
           /\ UNCHANGED state
  <2>1. \A r \in Subscribers : Coming(r)' = Coming(r)
    BY <1>1, ComingKept
  <2>2. Coming(s) = <<>> \/ \E t \in Topics : Coming(s) = <<t>>
    <3>1. \A p \in outgoing : p[1] \in Topics
      BY DEF Sending
    <3>2. QED
      BY <3>1, ComingNone, ComingOne
  <2>3. PICK q \in Seq(Topics \cup {Warning}) : q = toClient[s] /\ q # <<>>
    BY <1>1 DEF TypeOK
  <2>4. /\ q \o Coming(s) # <<>>
        /\ Head(q \o Coming(s)) = Head(q)
        /\ Tail(q \o Coming(s)) = Tail(q) \o Coming(s)
    <3>1. CASE Coming(s) = <<>>
      <4>1. Tail(q) \in Seq(Topics \cup {Warning})
        BY <2>3
      <4>2. QED
        BY <2>3, <3>1, <4>1, ConcatEmptySeq
    <3>2. ASSUME NEW t \in Topics, Coming(s) = <<t>>
          PROVE  /\ q \o <<t>> # <<>>
                 /\ Head(q \o <<t>>) = Head(q)
                 /\ Tail(q \o <<t>>) = Tail(q) \o <<t>>
      <4>1. Tail(q) \in Seq(Topics \cup {Warning})
        BY <2>3
      <4>2. q \o <<t>> = Append(q, t) /\ Tail(q) \o <<t>> = Append(Tail(q), t)
        BY <4>1, AppendIsConcat
      <4>3. /\ Head(Append(q, t)) = Head(q)
            /\ Tail(Append(q, t)) = Append(Tail(q), t)
        BY <2>3, HeadTailAppend
      <4>4. Append(q, t) # <<>>
        BY <2>3
      <4>5. QED
        BY <4>2, <4>3, <4>4
    <3>3. QED
      BY <2>2, <3>1, <3>2
  <2>5. PICK tl : tl = Tail(q)
    OBVIOUS
  <2>6. /\ Box(s) = q \o Coming(s)
        /\ Box(s)' = tl \o Coming(s)
    BY <1>1, <1>3, <2>1, <2>3, <2>5 DEF Box, TypeOK
  <2>7. \A r \in Subscribers \ {s} : Box(r)' = Box(r)
    BY <1>3, <2>1 DEF Box, TypeOK
  <2>8. /\ Member' = Member /\ Gone' = Gone
        /\ \A r \in Subscribers : Interest(r)' = Interest(r)
    BY <1>1, <1>3 DEF Member, Gone, Interest, Registered
  <2>9. s \in Subscribers \ Gone
    BY <1>1 DEF Gone
  <2>10. QED
    BY <1>1, <1>3, <2>3, <2>4, <2>5, <2>6, <2>7, <2>8, <2>9, Reads
<1>4. QED
  BY <1>2, <1>3 DEF Recv

LEMMA MapSubscriber ==
    ASSUME MapInv, NEW s \in Subscribers, SubscriberStep(s)
    PROVE  [PS!Next]_PS!vars
<1> USE DEF serverVars, MapInv, Inv
<1>1. ASSUME UNCHANGED <<status, clients, peer, online, outgoing, toClient>>,
             Gone' = Gone
      PROVE  UNCHANGED PS!vars
  <2>1. \A r \in Subscribers : Coming(r)' = Coming(r)
    BY <1>1, ComingKept
  <2>2. \A r \in Subscribers : state'[r] = "done" <=> state[r] = "done"
    BY <1>1 DEF Gone
  <2>3. QED
    BY <1>1, <2>1, <2>2, Stutters DEF Unseen, Member, Box, Interest, Registered
<1>2. CASE Connect(s) \/ SendId(s)
  <2>1. Gone' = Gone
    BY <1>2 DEF Connect, SendId, Gone, TypeOK
  <2>2. QED
    BY <1>1, <1>2, <2>1 DEF Connect, SendId
<1>3. CASE \E com \in Commands : Command(s, com)
  BY <1>1, <1>3 DEF Command, Gone
<1>4. CASE Recv(s)
  BY <1>4, MapRecv
<1>5. CASE ServerGone(s) \/ Exit(s)
  BY <1>5, MapClose, Leaves DEF ServerGone, Exit
<1>6. QED
  BY <1>2, <1>3, <1>4, <1>5 DEF SubscriberStep

LEMMA MapInit == Init => PS!Init
<1> SUFFICES ASSUME Init PROVE PS!Init
  OBVIOUS
<1>1. \A s \in Subscribers : Coming(s) = <<>> /\ ~Registered(s) /\ Interest(s) = {}
  BY BrokerAssumption DEF Init, Coming, Registered, Interest
<1>2. <<>> \o <<>> = <<>>
  OBVIOUS
<1>3. QED
  BY <1>1, <1>2 DEF Init, PS!Init

LEMMA MapNext == MapInv /\ [Next]_vars => [PS!Next]_PS!vars
<1> SUFFICES ASSUME MapInv, [Next]_vars
             PROVE  [PS!Next]_PS!vars
  OBVIOUS
<1> USE DEF serverVars, netVars, clientVars
<1>1. ASSUME UNCHANGED <<status, clients, peer, online, outgoing, toClient, state>>
      PROVE  UNCHANGED PS!vars
  BY <1>1, MapFrame, Stutters DEF Unseen
<1>2. CASE \/ Select \/ UNCHANGED vars
           \/ \E d \in Datagrams : Publish(d)
           \/ \E l \in Lines : TypeLine(l)
  BY <1>1, <1>2 DEF Select, Publish, TypeLine, vars
<1>3. CASE HandleStdin
  <2>1. /\ status = "running"
        /\ status' = "exited" \/ UNCHANGED status
        /\ UNCHANGED <<clients, peer, online, outgoing, toClient, state>>
    BY <1>3 DEF HandleStdin, At
  <2>2. QED
    BY <1>1, <2>1, MapFrame, Stops
<1>4. CASE HandleUdp
  BY <1>4, MapUdp
<1>5. ASSUME NEW t \in Topics, NEW f \in Fds, SendOne(t, f)
      PROVE  [PS!Next]_PS!vars
  BY <1>5, MapSend
<1>6. CASE AcceptFails \/ \E f \in Fds : HandleReset(f)
  BY <1>6, MapDie DEF AcceptFails, HandleReset, At
<1>7. ASSUME NEW f \in Fds, Accept(f) \/ HandleCommand(f) \/ HandleHangUp(f)
      PROVE  [PS!Next]_PS!vars
  BY <1>7, MapAccept, MapCommand, MapHangUp
<1>8. ASSUME NEW s \in Subscribers, SubscriberStep(s)
      PROVE  [PS!Next]_PS!vars
  BY <1>8, MapSubscriber
<1>9. QED
  BY <1>2, <1>3, <1>4, <1>5, <1>6, <1>7, <1>8
     DEF Next, ServerStep, HandleClient, HandleAccept

\* When users wait for the server and no process is killed before it sends its
\* ID, server.c with its sockets, rounds of select() and partial publication
\* loops implements the broker of PubSub:
\* publications reach the members interested at one instant and in one order,
\* one member per ID, and a refused process gets the warning and nothing else.
THEOREM PacedImplementsPubSub == Paced /\ ~Abrupt => (Spec => ImplementsPubSub)
<1> SUFFICES ASSUME Paced, ~Abrupt PROVE Spec => ImplementsPubSub
  OBVIOUS
<1>1. Init => MapInv /\ PS!Init
  BY MapInvInit, MapInit
<1>2. MapInv /\ [Next]_vars => MapInv'
  BY MapInvNext
<1>3. MapInv /\ [Next]_vars => [PS!Next]_PS!vars
  BY MapNext
<1>4. QED
  BY <1>1, <1>2, <1>3, PTL DEF Spec, ImplementsPubSub, PS!Spec
=============================================================================
