------------------------------- MODULE Server -------------------------------
(***************************************************************************)
(* Tema2/server.c: one thread, one select() loop.  A round takes a         *)
(* snapshot of the ready descriptors (Select) and then handles them in     *)
(* ascending order: standard input, the UDP socket, the listening socket,  *)
(* the clients.  Each handler is an action; only the publication loop is   *)
(* several steps (SendOne), since each send() may block or kill the        *)
(* server half way.                                                        *)
(***************************************************************************)
EXTENDS BrokerNet

\* Mutant: the test misses the ID.
ConnectedNever(id) == id = NoId

\* connected(): some slot holds id.  Most of the 495 slots are never used and
\* hold "", so the empty ID always counts as connected.
Connected(id) == id = NoId \/ \E f \in Fds : clients[f] = id

\* Mutant: the subscriptions of a leaving client are kept.
OfflineNothing(f) == online

\* offline(): the socket leaves every topic.
Offline(f) == [t \in Topics |-> online[t] \ {f}]

Subscribe(f, t) == [online EXCEPT ![t] = @ \cup {f}]

\* Mutant: the entry is left in place.
UnsubscribeNothing(f, t) == online

Unsubscribe(f, t) == [online EXCEPT ![t] = @ \ {f}]

-----------------------------------------------------------------------------
\* The loop stands at descriptor i.
At(i) ==
    /\ status = "running"
    /\ outgoing = {}
    /\ i \in tmp_fds
    /\ \A k \in tmp_fds : i <= k

Done(i) == tmp_fds' = tmp_fds \ {i}

\* A failed call ends the process where it stands: DIE, or SIGPIPE.
Die ==
    /\ status' = "died"
    /\ UNCHANGED <<read_fds, tmp_fds, clients, online, buf, outgoing>>
    /\ UNCHANGED <<netVars, clientVars>>

\* A round starts: buf is cleared, then select() waits for something ready.
Select ==
    /\ status = "running"
    /\ outgoing = {}
    /\ tmp_fds = {}
    /\ tmp_fds' = {i \in read_fds : Ready(i)}
    /\ tmp_fds' # {}
    /\ buf' = FALSE
    /\ UNCHANGED <<status, read_fds, clients, online, outgoing>>
    /\ UNCHANGED <<netVars, clientVars>>

HandleStdin ==
    /\ At(Stdin)
    /\ stdin' = "none"
    /\ buf' = TRUE
    /\ \/ /\ stdin = "exit"
          /\ status' = "exited"
          /\ UNCHANGED tmp_fds
       \/ /\ stdin # "exit"
          /\ Done(Stdin)
          /\ UNCHANGED status
    /\ UNCHANGED <<read_fds, clients, online, outgoing>>
    /\ UNCHANGED <<peer, backlog, udp, link, toServer, toClient, clientVars>>

\* Mutant: the loop stops after its first send().
RecipientsFirst(t) ==
    {<<t, f>> : f \in {g \in online[t] : \A h \in online[t] : g <= h}}

\* The entries of the topic's socket vector the publication loop visits.
Recipients(t) == {<<t, f>> : f \in online[t]}

\* A datagram: a bad sign byte kills the server inside message_type(), a good
\* one sets up the publication loop.
HandleUdp ==
    /\ At(UdpSock)
    /\ udp' = Tail(udp)
    /\ buf' = TRUE
    /\ \/ /\ ~Head(udp).signOk
          /\ status' = "died"
          /\ UNCHANGED <<tmp_fds, outgoing>>
       \/ /\ Head(udp).signOk
          /\ outgoing' = Recipients(Head(udp).topic)
          /\ Done(UdpSock)
          /\ UNCHANGED status
    /\ UNCHANGED <<read_fds, clients, online>>
    /\ UNCHANGED <<peer, backlog, stdin, link, toServer, toClient, clientVars>>

\* One send() of the publication loop, in ascending order of sockets.  It
\* fails on a descriptor that is not open and on a connection that got RST.
SendOne(t, f) ==
    /\ status = "running"
    /\ <<t, f>> \in outgoing
    /\ \A p \in outgoing : f <= p[2]
    /\ \/ /\ peer[f] # None => link[peer[f]] \in {"reset", "broken"}
          /\ Die
       \/ /\ peer[f] # None
          /\ link[peer[f]] = "open" => Len(toClient[peer[f]]) < InboxCap
          /\ Deliver(peer[f], t)
          /\ outgoing' = outgoing \ {<<t, f>>}
          /\ UNCHANGED <<status, read_fds, tmp_fds, clients, online, buf>>
          /\ UNCHANGED <<peer, backlog, udp, stdin, toServer, clientVars>>

-----------------------------------------------------------------------------
\* What recv() may leave in buf as the ID of process s: its ID, or, when it
\* closed without sending one, the text buf already held.  That is a line or a
\* datagram of this round, which may begin with the ID of any process.
ReceivedIds(s) ==
    IF toServer[s] # <<>> THEN {IdOf[s]} ELSE IF buf THEN Registrable ELSE {NoId}

\* Mutant: the new socket is not added to the watched set.
WatchNothing(f) == UNCHANGED read_fds

\* Mutant: the descriptor after it is added.
WatchNext(f) == read_fds' = read_fds \cup {f + 1}

Watch(f) == read_fds' = read_fds \cup {f}

\* Mutant: the client is registered after the warning too.
AdmitAll(s, f) ==
    \E id \in ReceivedIds(s) :
      /\ clients' = [clients EXCEPT ![f] = id]
      /\ \/ Connected(id) /\ Deliver(s, Warning)
         \/ ~Connected(id) /\ UNCHANGED <<link, toClient>>

\* The client is warned, or registered on its socket.
Admit(s, f) ==
    \E id \in ReceivedIds(s) :
      \/ /\ Connected(id)
         /\ Deliver(s, Warning)
         /\ UNCHANGED clients
      \/ /\ ~Connected(id)
         /\ clients' = [clients EXCEPT ![f] = id]
         /\ UNCHANGED <<link, toClient>>

\* accept() fails: no descriptor is left.
AcceptFails ==
    /\ At(TcpSock)
    /\ \A f \in Fds : peer[f] # None
    /\ Die

\* A connection is accepted on f.  The server then blocks until the ID (and
\* any commands behind it) or the end of the connection arrives, and registers
\* the client or warns it.  A warned client keeps its socket, watched and
\* without an ID.
Accept(f) ==
    LET s == Head(backlog) IN
    /\ At(TcpSock)
    /\ LowestFree(f)
    /\ toServer[s] # <<>> \/ link[s] = "fin"
    /\ peer' = [peer EXCEPT ![f] = s]
    /\ backlog' = Tail(backlog)
    /\ Watch(f)
    /\ Done(TcpSock)
    /\ buf' = TRUE
    /\ \E n \in 0 .. Len(toServer[s]) :
         (n = 0 <=> toServer[s] = <<>>) /\ Consume(s, n)
    /\ Admit(s, f)
    /\ UNCHANGED <<status, online, outgoing, udp, stdin, clientVars>>

HandleAccept == AcceptFails \/ \E f \in Fds : Accept(f)

\* The bookkeeping for a closed connection; a socket without an ID has none.
Forget(f) ==
    \/ /\ clients[f] # NoId
       /\ online' = Offline(f)
       /\ clients' = [clients EXCEPT ![f] = NoId]
    \/ /\ clients[f] = NoId
       /\ UNCHANGED <<online, clients>>

\* One recv() from a client.  However many commands it returns, the first is
\* the one carried out.
HandleCommand(f) ==
    LET s == peer[f] IN
    /\ At(f)
    /\ toServer[s] # <<>>
    /\ \E n \in 1 .. Len(toServer[s]) : Consume(s, n)
    /\ LET com == Head(toServer[s]) IN
       online' = IF com.type = "s" THEN Subscribe(f, com.topic)
                                   ELSE Unsubscribe(f, com.topic)
    /\ buf' = TRUE
    /\ Done(f)
    /\ UNCHANGED <<status, read_fds, clients, outgoing>>
    /\ UNCHANGED <<peer, backlog, udp, stdin, link, toClient, clientVars>>

\* Mutant: the socket is no longer watched but stays open.
CloseSocketNot(f) ==
    /\ read_fds' = read_fds \ {f}
    /\ UNCHANGED peer

CloseSocket(f) ==
    /\ read_fds' = read_fds \ {f}
    /\ peer' = [peer EXCEPT ![f] = None]

\* recv() returns 0: the client's data is used up and it has closed.
HandleHangUp(f) ==
    LET s == peer[f] IN
    /\ At(f)
    /\ toServer[s] = <<>>
    /\ link[s] \in {"fin", "broken"}
    /\ Forget(f)
    /\ CloseSocket(f)
    /\ Done(f)
    /\ UNCHANGED <<status, buf, outgoing>>
    /\ UNCHANGED <<backlog, udp, stdin, link, toServer, toClient, clientVars>>

\* recv() fails with ECONNRESET: the client left data unread.
HandleReset(f) ==
    LET s == peer[f] IN
    /\ At(f)
    /\ toServer[s] = <<>>
    /\ link[s] = "reset"
    /\ Die

HandleClient(f) == HandleCommand(f) \/ HandleHangUp(f) \/ HandleReset(f)

ServerStep ==
    \/ Select
    \/ HandleStdin
    \/ HandleUdp
    \/ \E t \in Topics, f \in Fds : SendOne(t, f)
    \/ HandleAccept
    \/ \E f \in Fds : HandleClient(f)
=============================================================================
