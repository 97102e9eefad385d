-------------------------------- MODULE Chat --------------------------------
(***************************************************************************)
(* Lab8: server.c tells its clients who comes and who leaves, by the       *)
(* number of the descriptor, and relays a text to the descriptor that the  *)
(* text begins with.  client.c prints what it is sent and sends what is    *)
(* typed; its user is in the model.  The kernel is that of BrokerNet: one  *)
(* host, what is sent has arrived, and send() to a client whose queue is   *)
(* full waits until it reads or leaves.                                    *)
(***************************************************************************)
EXTENDS Integers, FiniteSets, SequencesExt

CONSTANTS
    Population,  \* users, who come in the order of their numbers, once each
    Pasts,       \* how many others may have come and left, one after the other
    Ahead,       \* texts that a user types before the server has read one
    QueueCap     \* messages a client's receive queue holds before send() blocks

\* int clients[10]
ASSUME ChatAssumption ==
    /\ Population \in Nat \ {0}
    /\ Pasts # {} /\ Pasts \subseteq {n \in Nat : n + Population <= 10}
    /\ Ahead \in Nat \ {0}
    /\ QueueCap \in Nat \ {0}

Users == 1..Population
Nobody == 0
Unlisted == -1
Unsaid == -2

sockfd == 3
Fds == sockfd + 1 .. sockfd + Population

\* A text, with the descriptor it begins with and the user that is meant by it.
Texts == [dest : Fds, meant : Users \cup {Nobody}]

\* What is sent to a descriptor: what it tells of each number, if anything, and
\* the users that its texts are meant for.
Messages == [to : Fds,
             news : [Fds -> Users \cup {Nobody, Unlisted, Unsaid}],
             meant : SUBSET (Users \cup {Nobody})]

VARIABLES
    \* server.c
    alive,    \* not ended by DIE or SIGPIPE
    tmp_fds,  \* what the round has yet to handle
    clients,  \* the descriptors of all connections so far, clients[0] first
    outgoing, \* what the handler has yet to send
    \* kernel
    peer,     \* who is at the other end of a descriptor
    backlog,  \* connections waiting for accept()
    link,     \* each user's connection, as in BrokerNet
    lines,    \* texts the server has not read
    unread,   \* how many messages each client has not read
    \* what the users know of the descriptors
    told,     \* from all that was sent to them
    seen      \* from what was printed

serverVars == <<alive, tmp_fds, clients, outgoing>>
vars == <<serverVars, peer, backlog, link, lines, unread, told, seen>>

Nothing == [f \in Fds |-> Unlisted]

Init ==
    /\ alive = TRUE
    /\ tmp_fds = {}
    /\ \E n \in Pasts : clients = [k \in 1..n |-> sockfd + 1]
    /\ outgoing = <<>>
    /\ peer = [f \in Fds |-> Nobody]
    /\ backlog = <<>>
    /\ link = [u \in Users |-> "away"]
    /\ lines = [u \in Users |-> <<>>]
    /\ unread = [u \in Users |-> 0]
    /\ told = [u \in Users |-> Nothing]
    /\ seen = [u \in Users |-> Nothing]

Open == {f \in Fds : peer[f] # Nobody}
-----------------------------------------------------------------------------
(* client.c *)

Connect(u) ==
    /\ alive
    /\ link[u] = "away"
    /\ \A v \in Users : v < u => link[v] # "away"
    /\ link' = [link EXCEPT ![u] = "open"]
    /\ backlog' = Append(backlog, u)
    /\ UNCHANGED <<serverVars, peer, lines, unread, told, seen>>

Type(u, f) ==
    /\ link[u] = "open"
    /\ seen[u][f] # Unlisted
    /\ Len(lines[u]) < Ahead
    /\ lines' = [lines EXCEPT ![u] = Append(@, [dest |-> f, meant |-> seen[u][f]])]
    /\ UNCHANGED <<serverVars, peer, backlog, link, unread, told, seen>>

Show(u) ==
    /\ link[u] = "open"
    /\ unread[u] > 0
    /\ unread' = [unread EXCEPT ![u] = 0]
    /\ seen' = [seen EXCEPT ![u] = told[u]]
    /\ UNCHANGED <<serverVars, peer, backlog, link, lines, told>>

\* close() with something unread resets the connection.
Exit(u) ==
    /\ link[u] = "open"
    /\ link' = [link EXCEPT ![u] = IF unread[u] > 0 THEN "reset" ELSE "fin"]
    /\ unread' = [unread EXCEPT ![u] = 0]
    /\ told' = [told EXCEPT ![u] = Nothing]
    /\ seen' = [seen EXCEPT ![u] = Nothing]
    /\ UNCHANGED <<serverVars, peer, backlog, lines>>
-----------------------------------------------------------------------------
(* server.c *)

\* Mutant: the loop starts again after the first descriptor it handled.
RoundFirst(ready) == {Min(ready)}

Round(ready) == ready

Ready(f) ==
    \/ f = sockfd /\ backlog # <<>>
    \/ f \in Open /\ (lines[peer[f]] # <<>> \/ link[peer[f]] # "open")

Select ==
    /\ alive
    /\ outgoing = <<>>
    /\ tmp_fds = {}
    /\ LET ready == {f \in {sockfd} \cup Open : Ready(f)}
       IN  ready # {} /\ tmp_fds' = Round(ready)
    /\ UNCHANGED <<alive, clients, outgoing, peer, backlog, link, lines, unread, told, seen>>

\* The loop, in ascending order, has come to descriptor f.
At(f) ==
    /\ alive
    /\ outgoing = <<>>
    /\ f \in tmp_fds
    /\ \A g \in tmp_fds : f <= g

Handled(f) == tmp_fds' = tmp_fds \ {f}

Reachable(u) == link[u] = "open"

\* A message is in the queue of user u.
Arrives(u, message) ==
    /\ unread' = [unread EXCEPT ![u] = @ + 1]
    /\ told' = [told EXCEPT ![u] = [g \in Fds |->
                  IF message.news[g] = Unsaid THEN told[u][g] ELSE message.news[g]]]
    /\ UNCHANGED <<alive, link>>

\* One send(): nothing happens on a closed descriptor; on a full queue it waits;
\* the first to a user that has left draws a reset or reports it, the next is
\* SIGPIPE.
Send ==
    /\ alive
    /\ outgoing # <<>>
    /\ LET u == peer[Head(outgoing).to]
       IN  \/ /\ u = Nobody
              /\ UNCHANGED <<alive, link, unread, told>>
           \/ /\ u # Nobody /\ Reachable(u)
              /\ unread[u] < QueueCap
              /\ Arrives(u, Head(outgoing))
           \/ /\ u # Nobody /\ link[u] \in {"fin", "reset"}
              /\ link' = [link EXCEPT ![u] = "broken"]
              /\ UNCHANGED <<alive, unread, told>>
           \/ /\ u # Nobody /\ link[u] = "broken"
              /\ alive' = FALSE
              /\ UNCHANGED <<link, unread, told>>
    /\ outgoing' = Tail(outgoing)
    /\ UNCHANGED <<tmp_fds, clients, peer, backlog, lines, seen>>

\* That number f is user u's, or nobody's any more.
NewsOf(f, u) == [g \in Fds |-> IF g = f THEN u ELSE Unsaid]

\* One message, once for each descriptor of fds.
ToEach(fds, news) == [k \in 1..Len(fds) |-> [to |-> fds[k], news |-> news, meant |-> {}]]

\* The descriptor accept() returns.
LowestFree == Min(Fds \ Open)

\* Mutant: the listening socket is listed.
ListedListener(f) == Append(clients, sockfd)

Listed(f) == Append(clients, f)

\* The newcomer is sent the list after the others were told of it.
Accept ==
    /\ At(sockfd)
    /\ Handled(sockfd)
    /\ LET u == Head(backlog)
           f == LowestFree
           list == [g \in Fds |-> IF g \in Range(clients) THEN peer'[g] ELSE Unlisted]
       IN  /\ backlog' = Tail(backlog)
           /\ peer' = [peer EXCEPT ![f] = u]
           /\ clients' = Listed(f)
           /\ outgoing' = ToEach(clients, NewsOf(f, u))
                            \o (IF clients = <<>> THEN <<>> ELSE ToEach(<<f>>, list))
    /\ UNCHANGED <<alive, link, lines, unread, told, seen>>

\* Mutant: the loop ends before the newest client, as the one of Accept does.
OthersButLast(f) == Front(clients)

\* The index of an entry is compared with the descriptor that was closed.
Others(f) == [k \in 1..Len(clients) |-> IF k - 1 = f THEN f ELSE clients[k]]

HangUp(f) ==
    /\ At(f) /\ f \in Open
    /\ lines[peer[f]] = <<>>
    /\ link[peer[f]] # "reset"
    /\ Handled(f)
    /\ peer' = [peer EXCEPT ![f] = Nobody]
    /\ outgoing' = ToEach(Others(f), NewsOf(f, Unlisted))
    /\ UNCHANGED <<alive, clients, backlog, link, lines, unread, told, seen>>

\* recv() reports the reset: DIE.
Die(f) ==
    /\ At(f) /\ f \in Open
    /\ lines[peer[f]] = <<>>
    /\ link[peer[f]] = "reset"
    /\ alive' = FALSE
    /\ UNCHANGED <<tmp_fds, clients, outgoing, peer, backlog, link, lines, unread, told, seen>>

\* Mutant: the number is taken for an index of the list.
DestinationListed(texts) == clients[texts[1].dest - sockfd]

\* All that recv() returns goes where its first text says.
Destination(texts) == texts[1].dest

Relay(f) ==
    /\ At(f) /\ f \in Open
    /\ lines[peer[f]] # <<>>
    /\ Handled(f)
    /\ LET texts == lines[peer[f]]
       IN  outgoing' = <<[to |-> Destination(texts),
                          news |-> [g \in Fds |-> Unsaid],
                          meant |-> {t.meant : t \in Range(texts)}]>>
    /\ lines' = [lines EXCEPT ![peer[f]] = <<>>]
    /\ UNCHANGED <<alive, clients, peer, backlog, link, unread, told, seen>>

ServerStep == Select \/ Send \/ Accept \/ \E f \in Fds : HangUp(f) \/ Die(f) \/ Relay(f)

Next ==
    \/ \E u \in Users : Connect(u) \/ Show(u) \/ Exit(u) \/ \E f \in Fds : Type(u, f)
    \/ ServerStep

Spec == Init /\ [][Next]_vars

\* The server runs, and a client in the end reads what it is sent (it does so
\* whenever no line is typed); the users do as they like.
FairSpec == Spec /\ WF_vars(ServerStep) /\ \A u \in Users : WF_vars(Show(u))
-----------------------------------------------------------------------------
(* Properties *)

\* Every variable keeps its type.
TypeOK ==
    /\ alive \in BOOLEAN
    /\ tmp_fds \subseteq {sockfd} \cup Fds
    /\ clients \in Seq(Fds) /\ Len(clients) <= 10
    /\ outgoing \in Seq(Messages)
    /\ peer \in [Fds -> Users \cup {Nobody}]
    /\ backlog \in Seq(Users)
    /\ link \in [Users -> {"away", "open", "fin", "reset", "broken"}]
    /\ lines \in [Users -> Seq(Texts)]
    /\ unread \in [Users -> 0..QueueCap]
    /\ told \in [Users -> [Fds -> Users \cup {Nobody, Unlisted}]]
    /\ seen \in [Users -> [Fds -> Users \cup {Nobody, Unlisted}]]

\* Whoever comes and leaves and however descriptors are used again, and whatever
\* waits on full queues meanwhile, a connected user was told rightly of every
\* other's number once all is sent; only the user whose place in the list is the
\* number that was closed is not told that it was.
Skipped(f, g) == g < Len(clients) /\ clients[g + 1] = f
KnowEachOther ==
    alive /\ outgoing = <<>> =>
      \A f \in Open, g \in Fds :
        Reachable(peer[f]) /\ f # g =>
          \/ told[peer[f]][g] = peer[g]
          \/ peer[g] = Nobody /\ (told[peer[f]][g] = Unlisted \/ Skipped(f, g))

\* A text goes to the user that it was meant for when it was typed, whoever came,
\* left and was given a number since, unless that user has left.
OnlyMeant ==
    \A k \in 1..Len(outgoing) :
      \A u \in outgoing[k].meant \ {Nobody, peer[outgoing[k].to]} : ~Reachable(u)

\* Where every client in the end reads or leaves, every connection is accepted,
\* every text read and every departure noticed, however much the others type and
\* whoever's queue was full, or the server has ended.
Waits(u) ==
    \/ \E k \in 1..Len(backlog) : backlog[k] = u
    \/ \E f \in Open : peer[f] = u /\ (lines[u] # <<>> \/ link[u] # "open")
Served == \A u \in Users : []<>(~Waits(u) \/ ~alive)
=============================================================================
