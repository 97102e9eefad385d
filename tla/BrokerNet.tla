------------------------------ MODULE BrokerNet ------------------------------
(***************************************************************************)
(* The state shared by the publish/subscribe broker of Tema2: the tables   *)
(* of server.c, the two fields of each subscriber.c process that matter,   *)
(* and between them the part of the kernel both programs reach through     *)
(* sockets.  Server.tla and Subscriber.tla add the actions of the two      *)
(* programs, Broker.tla composes them.                                     *)
(*                                                                         *)
(* All processes run on one host (README: 127.0.0.1), so what one end      *)
(* sends is in the other end's receive queue at once.  TCP is a byte       *)
(* stream: recv() may return several queued items together, never one      *)
(* half, which holds while fewer than 28 commands are queued (BUFLEN).     *)
(***************************************************************************)
EXTENDS Integers, Sequences, FiniteSets

CONSTANTS
    Subscribers,  \* subscriber processes; each connects at most once, a
                  \* restart is another process with the same ID
    Ids,          \* the IDs given on their command lines, argv[1]
    IdOf,         \* the ID of each process
    Topics,       \* topics that are subscribed to or published on
    Fds,          \* descriptors accept() can return, the numbers from 5 on
    Datagrams,    \* what udp_client.py may send: a topic and a valid sign byte
    Lines,        \* what is typed at the server: "exit" or another line
    InboxCap,     \* items a subscriber's receive queue holds before send() blocks
    PipeCap,      \* items the server's receive queue of one client holds
    UdpCap,       \* datagrams the UDP socket holds
    Eager,        \* TRUE: commands are typed before the last one was handled
    Abrupt,       \* TRUE: a process may be killed between connect() and its ID
    None,         \* no process
    NoId,         \* the empty string in clients[].id
    Garbage,      \* a text that no process has as its ID
    Hello,        \* the ID string in flight
    Warning       \* "You are already connected." in flight

Stdin == 0
UdpSock == 3
TcpSock == 4

\* Mutant: the listening socket is left out of the watched set.
ListenersNoTcp == {Stdin, UdpSock}

Listeners == {Stdin, UdpSock, TcpSock}

Commands == [type : {"s", "u"}, topic : Topics]
Registrable == Ids \cup {Garbage}

ASSUME BrokerAssumption ==
    /\ IdOf \in [Subscribers -> Ids]
    /\ Fds \subseteq {n \in Nat : n >= 5}
    /\ Datagrams \subseteq [topic : Topics, signOk : BOOLEAN]
    /\ Lines \subseteq {"exit", "other"}
    /\ InboxCap \in Nat \ {0}
    /\ PipeCap \in Nat \ {0}
    /\ UdpCap \in Nat \ {0}
    /\ Eager \in BOOLEAN
    /\ Abrupt \in BOOLEAN
    /\ None \notin Subscribers
    /\ NoId \notin Registrable
    /\ Hello \notin Commands
    /\ Warning \notin Topics

VARIABLES
    \* server.c
    status,    \* "running", "exited" by command, or "died" in DIE or of SIGPIPE
    read_fds,  \* the descriptors the server watches
    tmp_fds,   \* the ready descriptors this round of select() has yet to handle
    clients,   \* clients[fd].id
    online,    \* topic -> the sockets subscribed to it
    buf,       \* TRUE when buf holds text since it was last cleared
    outgoing,  \* <<topic, fd>> the publication loop has yet to send
    \* kernel
    peer,      \* the process at the other end of an open descriptor, or None
    backlog,   \* connections waiting for accept()
    udp,       \* datagrams waiting for recvfrom()
    stdin,     \* the line waiting at the server's terminal, "none" if there is none
    link,      \* each process's connection, as the server's kernel sees it
    toServer,  \* bytes received from a process and not read yet
    toClient,  \* bytes sent to a process and not read yet
    \* subscriber.c
    state,     \* where each process stands
    view       \* the topics its user was told it is subscribed to

serverVars == <<status, read_fds, tmp_fds, clients, online, buf, outgoing>>
netVars == <<peer, backlog, udp, stdin, link, toServer, toClient>>
clientVars == <<state, view>>
vars == <<serverVars, netVars, clientVars>>

(***************************************************************************)
(* link[s] is "open" while the process holds its socket, then "fin" when   *)
(* it closed with nothing unread, "reset" when it closed with unread data  *)
(* (the kernel then sends RST), and "broken" once the server has sent to   *)
(* a "fin" connection and got RST back.                                    *)
(***************************************************************************)
TypeOK ==
    /\ status \in {"running", "exited", "died"}
    /\ read_fds \subseteq Listeners \cup Fds
    /\ tmp_fds \subseteq Listeners \cup Fds
    /\ clients \in [Fds -> Registrable \cup {NoId}]
    /\ online \in [Topics -> SUBSET Fds]
    /\ buf \in BOOLEAN
    /\ outgoing \subseteq Topics \X Fds
    /\ peer \in [Fds -> Subscribers \cup {None}]
    /\ backlog \in Seq(Subscribers)
    /\ udp \in Seq(Datagrams)
    /\ stdin \in Lines \cup {"none"}
    /\ link \in [Subscribers -> {"closed", "open", "fin", "reset", "broken"}]
    /\ toServer \in [Subscribers -> Seq(Commands \cup {Hello})]
    /\ toClient \in [Subscribers -> Seq(Topics \cup {Warning})]
    /\ state \in [Subscribers -> {"new", "connected", "running", "done"}]
    /\ view \in [Subscribers -> SUBSET Topics]

Init ==
    /\ status = "running"
    /\ read_fds = Listeners
    /\ tmp_fds = {}
    /\ clients = [f \in Fds |-> NoId]
    /\ online = [t \in Topics |-> {}]
    /\ buf = FALSE
    /\ outgoing = {}
    /\ peer = [f \in Fds |-> None]
    /\ backlog = <<>>
    /\ udp = <<>>
    /\ stdin = "none"
    /\ link = [s \in Subscribers |-> "closed"]
    /\ toServer = [s \in Subscribers |-> <<>>]
    /\ toClient = [s \in Subscribers |-> <<>>]
    /\ state = [s \in Subscribers |-> "new"]
    /\ view = [s \in Subscribers |-> {}]

-----------------------------------------------------------------------------
\* What select() reports: a descriptor on which a read would not block.
Ready(i) ==
    \/ i = Stdin /\ stdin # "none"
    \/ i = UdpSock /\ udp # <<>>
    \/ i = TcpSock /\ backlog # <<>>
    \/ /\ i \in Fds
       /\ peer[i] # None
       /\ toServer[peer[i]] # <<>> \/ link[peer[i]] # "open"

\* The descriptor accept() returns: the lowest one not in use.
LowestFree(f) ==
    /\ peer[f] = None
    /\ \A g \in Fds : g < f => peer[g] # None

\* recv() takes the first n queued items of process s.
Consume(s, n) ==
    toServer' = [toServer EXCEPT ![s] = SubSeq(@, n + 1, Len(@))]

\* send() to a process that may have closed; the caller excludes the links
\* on which send() fails and a full queue, on which it blocks.
Deliver(s, m) ==
    \/ /\ link[s] = "open"
       /\ toClient' = [toClient EXCEPT ![s] = Append(@, m)]
       /\ UNCHANGED link
    \/ /\ link[s] = "fin"
       /\ link' = [link EXCEPT ![s] = "broken"]
       /\ UNCHANGED toClient

\* close() or the end of process s, with the items in rest still unread.
Close(s, rest) ==
    /\ state' = [state EXCEPT ![s] = "done"]
    /\ link' = [link EXCEPT ![s] = IF rest = <<>> THEN "fin" ELSE "reset"]
    /\ toClient' = [toClient EXCEPT ![s] = <<>>]
    /\ view' = [view EXCEPT ![s] = {}]

\* Process s is a registered client: the server holds its ID on its socket.
Registered(s) == \E f \in Fds : peer[f] = s /\ clients[f] = IdOf[s]

\* The topics the server holds for process s.
Interest(s) == {t \in Topics : \E f \in online[t] : peer[f] = s}
=============================================================================
