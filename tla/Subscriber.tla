----------------------------- MODULE Subscriber -----------------------------
(***************************************************************************)
(* Tema2/subscriber.c: connect, send the ID, then serve the terminal and   *)
(* the socket until "exit", the server's warning or the server's end.      *)
(***************************************************************************)
EXTENDS BrokerNet

\* connect(): the kernel completes it before the server calls accept().
Connect(s) ==
    /\ state[s] = "new"
    /\ status = "running"
    /\ state' = [state EXCEPT ![s] = "connected"]
    /\ link' = [link EXCEPT ![s] = "open"]
    /\ backlog' = Append(backlog, s)
    /\ UNCHANGED <<serverVars, peer, udp, stdin, toServer, toClient, view>>

SendId(s) ==
    /\ state[s] = "connected"
    /\ status = "running"
    /\ state' = [state EXCEPT ![s] = "running"]
    /\ toServer' = [toServer EXCEPT ![s] = Append(@, Hello)]
    /\ UNCHANGED <<serverVars, peer, backlog, udp, stdin, link, toClient, view>>

\* The user waits for the server to have read everything typed so far, or not.
MayType(s) == Eager \/ (Registered(s) /\ toServer[s] = <<>>)

\* What the user is told, subscriber.c's printed "subscribed" and "unsubscribed".
ViewAfter(s, com) ==
    IF com.type = "s" THEN view[s] \cup {com.topic} ELSE view[s] \ {com.topic}

\* (un)subscribe typed at the terminal: sent, and reported as done.
Command(s, com) ==
    /\ state[s] = "running"
    /\ status = "running"
    /\ MayType(s)
    /\ Len(toServer[s]) < PipeCap
    /\ toServer' = [toServer EXCEPT ![s] = Append(@, com)]
    /\ view' = [view EXCEPT ![s] = ViewAfter(s, com)]
    /\ UNCHANGED <<serverVars, peer, backlog, udp, stdin, link, toClient, state>>

\* recv() from the server: a message is printed, the warning ends the process.
Recv(s) ==
    /\ state[s] = "running"
    /\ toClient[s] # <<>>
    /\ \/ /\ Head(toClient[s]) = Warning
          /\ Close(s, Tail(toClient[s]))
       \/ /\ Head(toClient[s]) # Warning
          /\ toClient' = [toClient EXCEPT ![s] = Tail(@)]
          /\ UNCHANGED <<state, link, view>>
    /\ UNCHANGED <<serverVars, peer, backlog, udp, stdin, toServer>>

\* recv() returns 0, or a call fails, because the server process is gone.
ServerGone(s) ==
    /\ state[s] \in {"connected", "running"}
    /\ status # "running"
    /\ toClient[s] = <<>>
    /\ Close(s, <<>>)
    /\ UNCHANGED <<serverVars, peer, backlog, udp, stdin, toServer>>

\* "exit" at the terminal, or the process is killed.
Exit(s) ==
    /\ state[s] = "running" \/ (Abrupt /\ state[s] = "connected")
    /\ Close(s, toClient[s])
    /\ UNCHANGED <<serverVars, peer, backlog, udp, stdin, toServer>>

SubscriberStep(s) ==
    \/ Connect(s)
    \/ SendId(s)
    \/ \E com \in Commands : Command(s, com)
    \/ Recv(s)
    \/ ServerGone(s)
    \/ Exit(s)
=============================================================================
