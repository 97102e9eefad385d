------------------------------ MODULE LabLink ------------------------------
(***************************************************************************)
(* What is between the programs of Lab2, Lab3 and Lab6.  In Lab2 and Lab3: *)
(* lib.c at both ends and link.c, whole messages at a time.  LinkEmulator  *)
(* has its threads, and implements Pipe, which takes the steps that the    *)
(* line takes here.  In Lab6 there is only UDP.                            *)
(*                                                                         *)
(* A message is the payload up to its length, a sequence of units; what a  *)
(* message is for, its place in the dialogue says and nothing else.        *)
(***************************************************************************)
EXTENDS Integers, Sequences

CONSTANTS
    Garbage  \* what a corrupted unit of Lab2 may become

ASSUME LabLinkAssumption == Garbage \subseteq Int

VARIABLES
    lab,            \* whose programs run: "Lab2", "Lab3" or "Lab6"
    loss, corrupt,  \* the emulator's parameters, TRUE when not 0
    pc,             \* where each program is
    sock,           \* sent by each program, not read by the emulator
    link_up,        \* the emulator has heard of each program
    line,           \* accepted for the receiver: buffer and in_flight
    inbox,          \* sent to each program and not read
    lost,           \* number of messages lost on the way to the receiver
    alive           \* there is an emulator and no assertion has ended it

parameters == <<lab, loss, corrupt>>
emulator == <<link_up, line, lost, alive>>
linkVars == <<parameters, pc, sock, inbox, emulator>>

Labs == {"Lab2", "Lab3", "Lab6"}
Ends == {"send", "recv"}
Message == Seq(Int)
Hello == <<>>

LinkInit ==
    /\ lab \in Labs
    /\ loss \in BOOLEAN
    /\ corrupt \in {FALSE, lab # "Lab6"}
    /\ pc = [e \in Ends |-> "off"]
    /\ sock = [e \in Ends |-> <<>>]
    /\ link_up = [e \in Ends |-> FALSE]
    /\ line = <<>>
    /\ inbox = [e \in Ends |-> <<>>]
    /\ lost = 0
    /\ alive = (lab # "Lab6")

(* lib.c: what the programs do with it *)
SendAll(e, messages) == sock' = [sock EXCEPT ![e] = @ \o messages]
send_message(e, m) == SendAll(e, <<m>>)
recv_message(e) == inbox[e] # <<>> /\ inbox' = [inbox EXCEPT ![e] = Tail(@)]
Goto(e, place) == pc' = [pc EXCEPT ![e] = place]
-----------------------------------------------------------------------------
(* link.c *)

\* The first message of a program, from init(), only tells its address.
Meet(e) ==
    /\ alive
    /\ ~link_up[e]
    /\ sock[e] # <<>>
    /\ sock' = [sock EXCEPT ![e] = Tail(@)]
    /\ link_up' = [link_up EXCEPT ![e] = TRUE]
    /\ UNCHANGED <<parameters, pc, inbox, line, lost, alive>>

\* Lab2 writes a random byte, Lab3 flips a bit.
Noise(unit) == IF lab = "Lab2" THEN Garbage ELSE {1 - unit}

Corrupted(m) ==
    {m} \cup (IF corrupt THEN UNION {{[m EXCEPT ![k] = u] : u \in Noise(m[k])} : k \in 1..Len(m)}
                         ELSE {})

Forward ==
    /\ alive
    /\ link_up["send"]
    /\ sock["send"] # <<>>
    /\ sock' = [sock EXCEPT !["send"] = Tail(@)]
    /\ \/ /\ loss
          /\ lost' = lost + 1
          /\ UNCHANGED line
       \/ /\ \E m \in Corrupted(Head(sock["send"])) : line' = Append(line, m)
          /\ UNCHANGED lost
    /\ UNCHANGED <<parameters, pc, inbox, link_up, alive>>

\* A message for a receiver not heard of goes nowhere.
Deliver ==
    /\ alive
    /\ line # <<>>
    /\ line' = Tail(line)
    /\ IF link_up["recv"]
       THEN /\ inbox' = [inbox EXCEPT !["recv"] = Append(@, Head(line))]
            /\ UNCHANGED lost
       ELSE /\ lost' = lost + 1
            /\ UNCHANGED inbox
    /\ UNCHANGED <<parameters, pc, sock, link_up, alive>>

BringBack ==
    /\ alive
    /\ link_up["recv"]
    /\ sock["recv"] # <<>>
    /\ sock' = [sock EXCEPT !["recv"] = Tail(@)]
    /\ inbox' = [inbox EXCEPT !["send"] = IF link_up["send"] THEN Append(@, Head(sock["recv"])) ELSE @]
    /\ UNCHANGED <<parameters, pc, emulator>>

\* assert(!buffer->size) can fail while a message waits in the buffer.
Abort ==
    /\ alive
    /\ line # <<>>
    /\ alive' = FALSE
    /\ UNCHANGED <<parameters, pc, sock, inbox, link_up, line, lost>>

LinkStep == (\E e \in Ends : Meet(e)) \/ Forward \/ Deliver \/ BringBack

\* UDP, in Lab6: a datagram for a port that is not bound is lost, and so is one
\* that finds the receiver's queue full.
Carry ==
    /\ lab = "Lab6"
    /\ sock["send"] # <<>>
    /\ sock' = [sock EXCEPT !["send"] = Tail(@)]
    /\ \/ /\ loss \/ pc["recv"] = "off"
          /\ lost' = lost + 1
          /\ UNCHANGED inbox
       \/ /\ pc["recv"] # "off"
          /\ inbox' = [inbox EXCEPT !["recv"] = Append(@, Head(sock["send"]))]
          /\ UNCHANGED lost
    /\ UNCHANGED <<parameters, pc, link_up, line, alive>>
-----------------------------------------------------------------------------
\* On the way to the emulator, the message of init() apart.
Underway(e) == Len(sock[e]) - (IF pc[e] # "off" /\ ~link_up[e] THEN 1 ELSE 0)

\* Messages and replies that no program has read.
Unread == Underway("send") + Len(line) + Len(inbox["recv"])
            + Underway("recv") + Len(inbox["send"])
=============================================================================
