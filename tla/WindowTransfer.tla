--------------------------- MODULE WindowTransfer ---------------------------
(***************************************************************************)
(* Lab3: send.c sends count messages with at most a window of them not     *)
(* acknowledged; recv.c checks each and acknowledges it.                   *)
(***************************************************************************)
EXTENDS LabLink

CONSTANTS
    count,  \* 500 in the code
    BDPs,   \* second arguments of send
    Tails   \* what the stack holds after the check of the text

ASSUME WindowAssumption ==
    /\ count \in Nat \ {0}
    /\ BDPs \subseteq Nat
    /\ Tails \subseteq Seq({0, 1})

VARIABLES
    window_size, space, i,  \* of send.c; i counts what is sent
    j,                      \* of recv.c
    checked, verdict        \* the last message recv.c checked, and "E BUN"

windowVars == <<window_size, space, i, j, checked, verdict>>

\* "Hello world!", one bit of each letter; verificare() takes their XOR.
Hello_world == <<1, 0, 0>>

\* Mutant: the loop is one letter short.
verificareShort(msg) == (msg[1] + msg[2]) % 2

verificare(msg) == (msg[1] + msg[2] + msg[3]) % 2
Sealed == Append(Hello_world, verificare(Hello_world))

\* No text ends after the check, so that the length takes in what follows.
Greetings == {Sealed \o tail : tail \in Tails}

WindowInit ==
    /\ \E BDP \in (IF lab = "Lab3" THEN BDPs ELSE {0}) : window_size = (BDP * 1000) \div (200 * 8)
    /\ space = window_size
    /\ i = 0 /\ j = 0
    /\ checked = Sealed /\ verdict = TRUE

(* send.c *)

StartWindow ==
    /\ lab = "Lab3" /\ pc["send"] = "off"
    /\ SendAll("send", <<Hello>>)
    /\ Goto("send", "loop")
    /\ UNCHANGED <<parameters, inbox, emulator, windowVars>>

\* Mutant: a message more than the window is sent.
HasSpaceLate == space + 1 # 0

HasSpace == space # 0

SendNext ==
    /\ pc["send"] = "loop" /\ i < count
    /\ HasSpace
    /\ \E m \in Greetings : send_message("send", m)
    /\ space' = space - 1
    /\ i' = i + 1
    /\ Goto("send", IF i' = count THEN "drain" ELSE "loop")
    /\ UNCHANGED <<parameters, inbox, emulator, window_size, j, checked, verdict>>

\* i-- undoes the i++ of the loop.
AwaitSpace ==
    /\ pc["send"] = "loop" /\ i < count
    /\ ~HasSpace
    /\ recv_message("send")
    /\ space' = space + 1
    /\ UNCHANGED <<parameters, pc, sock, emulator, window_size, i, j, checked, verdict>>

Drain ==
    /\ pc["send"] = "drain"
    /\ recv_message("send")
    /\ space' = space + 1
    /\ Goto("send", IF space' = window_size THEN "done" ELSE "drain")
    /\ UNCHANGED <<parameters, sock, emulator, window_size, i, j, checked, verdict>>

(* recv.c *)

StartCheck ==
    /\ lab = "Lab3" /\ pc["recv"] = "off"
    /\ SendAll("recv", <<Hello>>)
    /\ Goto("recv", "loop")
    /\ UNCHANGED <<parameters, inbox, emulator, windowVars>>

CheckAndAck ==
    /\ pc["recv"] = "loop" /\ j < count
    /\ recv_message("recv")
    /\ checked' = Head(inbox["recv"])
    /\ verdict' = (verificare(checked') = checked'[4])
    /\ send_message("recv", <<j>>)
    /\ j' = j + 1
    /\ Goto("recv", IF j' = count THEN "done" ELSE "loop")
    /\ UNCHANGED <<parameters, emulator, window_size, space, i>>

WindowSendStep == StartWindow \/ SendNext \/ AwaitSpace \/ Drain
WindowRecvStep == StartCheck \/ CheckAndAck
-----------------------------------------------------------------------------
(* Properties *)

\* The room taken in the window is what is not acknowledged: every message is on
\* its way, or its acknowledgement is, or it was lost; and the window holds.
Accounted ==
    lab = "Lab3" =>
      /\ window_size - space = Unread + lost
      /\ space \in 0..window_size
      /\ pc["send"] = "done" => j = count /\ lost = 0

\* A flipped bit in the text or its check is found, and nothing else is: not one
\* in what the stack holds after them, which is sent along.
Flagged == verdict <=> SubSeq(checked, 1, 4) = Sealed
=============================================================================
