------------------------------- MODULE Broker -------------------------------
(***************************************************************************)
(* The whole of Tema2: the server, its subscribers, the publishers of      *)
(* udp_client.py and the operator's terminal.                              *)
(***************************************************************************)
EXTENDS Server, Subscriber

\* udp_client.py sends one datagram; a full socket drops it, which is a stutter.
Publish(d) ==
    /\ status = "running"
    /\ Len(udp) < UdpCap
    /\ udp' = Append(udp, d)
    /\ UNCHANGED <<serverVars, peer, backlog, stdin, link, toServer, toClient, clientVars>>

\* A line is typed at the server.
TypeLine(l) ==
    /\ status = "running"
    /\ stdin = "none"
    /\ stdin' = l
    /\ UNCHANGED <<serverVars, peer, backlog, udp, link, toServer, toClient, clientVars>>

Next ==
    \/ ServerStep
    \/ \E s \in Subscribers : SubscriberStep(s)
    \/ \E d \in Datagrams : Publish(d)
    \/ \E l \in Lines : TypeLine(l)

Spec == Init /\ [][Next]_vars

\* The server thread and the subscriber processes are scheduled; users, the
\* operator and the publishers act when they please.
Fairness ==
    /\ WF_vars(ServerStep)
    /\ \A s \in Subscribers :
         /\ WF_vars(SendId(s))
         /\ WF_vars(Recv(s))

FairSpec == Spec /\ Fairness

-----------------------------------------------------------------------------
\* No two sockets are registered under one ID, however connections, exits and
\* reuse of descriptors interleave (server.c, connected()).
OneRegistrationPerId ==
    \A f, g \in Fds : clients[f] = clients[g] /\ clients[f] # NoId => f = g

\* The server watches its listeners and exactly the open descriptors, and a
\* descriptor that select() reported stays open and ready until its turn in the
\* round, whatever the handlers before it and the other processes do: no
\* handler's first read blocks or meets a closed descriptor.
SnapshotValid ==
    /\ read_fds = Listeners \cup {f \in Fds : peer[f] # None}
    /\ tmp_fds \subseteq read_fds
    /\ status = "running" => \A i \in tmp_fds : Ready(i)

\* With users that wait for the server: every socket in a topic's vector is
\* open and belongs to the process registered on it, so that no publication
\* reaches a stranger who was given a reused descriptor.
SubscribersRegistered ==
    \A t \in Topics : \A f \in online[t] :
        peer[f] # None /\ clients[f] = IdOf[peer[f]]

\* A process is registered or warned, never both, even when it types commands
\* ahead, is given a reused descriptor, or dies before it sends its ID and is
\* admitted under whatever text is left in buf.
RegisteredNotWarned ==
    \A s \in Subscribers :
        Registered(s) => \A i \in 1 .. Len(toClient[s]) : toClient[s][i] # Warning

\* With users that wait: of the processes started under one ID, at most one at
\* a time is subscribed to anything or has publications on their way to it.
ExclusiveDelivery ==
    \A r, s \in Subscribers :
        /\ Interest(r) # {} \/ \E p \in outgoing : peer[p[2]] = r
        /\ Interest(s) # {} \/ \E p \in outgoing : peer[p[2]] = s
        /\ IdOf[r] = IdOf[s]
        => r = s

\* What a user was told ("subscribed", "unsubscribed") is what the server
\* holds once it has read all the process sent.
ViewAgrees ==
    status = "running" =>
        \A s \in Subscribers :
            state[s] = "running" /\ toServer[s] = <<>> => Interest(s) = view[s]

-----------------------------------------------------------------------------
Down == status # "running"

\* A connection is accepted.
PendingAccepted ==
    \A s \in Subscribers :
        (\E i \in 1 .. Len(backlog) : backlog[i] = s)
            ~> (Down \/ \A i \in 1 .. Len(backlog) : backlog[i] # s)

\* The socket and the ID of a process that has ended are given back.
DeadPeerForgotten ==
    \A s \in Subscribers :
        (state[s] = "done" /\ \E f \in Fds : peer[f] = s)
            ~> (Down \/ \A f \in Fds : peer[f] # s)

\* What a process sends is read.
CommandsRead ==
    \A s \in Subscribers : toServer[s] # <<>> ~> (Down \/ toServer[s] = <<>>)

\* Whatever the traffic on the other sockets, the one thread of server.c serves
\* everyone, until the server stops.
ServesAll == PendingAccepted /\ DeadPeerForgotten /\ CommandsRead

-----------------------------------------------------------------------------
\* The rest of a publication loop, as seen by process s.
Coming(s) ==
    IF \E p \in outgoing : peer[p[2]] = s
    THEN <<(CHOOSE p \in outgoing : peer[p[2]] = s)[1]>>
    ELSE <<>>

PS == INSTANCE PubSub WITH
    up <- status = "running",
    members <- {s \in Subscribers : Registered(s)},
    interest <- [s \in Subscribers |-> Interest(s)],
    inbox <- [s \in Subscribers |->
                IF state[s] = "done" THEN <<>> ELSE toClient[s] \o Coming(s)],
    gone <- {s \in Subscribers : state[s] = "done"}

\* With users that wait and no process killed before it sends its ID, the
\* sockets, rounds and partial publications of the server amount to the abstract broker: publications are atomic and ordered
\* and reach the members interested at one instant.
ImplementsPubSub == PS!Spec
=============================================================================
