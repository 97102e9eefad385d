---------------------------- MODULE FileTransfer ----------------------------
(***************************************************************************)
(* Lab2: send.c copies a file to recv.c over the link, one block at a time *)
(* and waiting for the reply to each message.                              *)
(***************************************************************************)
EXTENDS LabLink, FiniteSetsExt

CONSTANTS
    Files,    \* the files to copy, each a sequence of units
    MAX_LEN   \* one more than a block may hold

ASSUME FileAssumption ==
    /\ Files \subseteq Seq(Int)
    /\ MAX_LEN \in Nat /\ MAX_LEN > 1

VARIABLES
    file,    \* the file that is copied
    offset,  \* where send.c reads the file
    rest,    \* what recv.c still expects
    written  \* what recv.c has written

fileVars == <<file, offset, rest, written>>

\* What is said besides the size and the blocks.
Name == <<-1>>
Note == <<-1>>

FileInit ==
    /\ file \in (IF lab = "Lab3" THEN {<<>>} ELSE Files)
    /\ offset = 0 /\ rest = 0 /\ written = <<>>

(* send.c *)

StartSend ==
    /\ lab = "Lab2" /\ pc["send"] = "off"
    /\ SendAll("send", <<Hello, Name>>)
    /\ Goto("send", "name")
    /\ UNCHANGED <<parameters, inbox, emulator, fileVars>>

SendSize ==
    /\ pc["send"] = "name"
    /\ recv_message("send")
    /\ send_message("send", <<Len(file)>>)
    /\ Goto("send", "copy")
    /\ UNCHANGED <<parameters, emulator, fileVars>>

\* Mutant: the file is not rewound after its size is taken.
BlockAtEnd == <<>>

Block == SubSeq(file, offset + 1, Min({offset + MAX_LEN - 1, Len(file)}))

SendBlock ==
    /\ pc["send"] = "copy"
    /\ recv_message("send")
    /\ Block # <<>>
    /\ send_message("send", Block)
    /\ offset' = offset + Len(Block)
    /\ UNCHANGED <<parameters, pc, emulator, file, rest, written>>

EndSend ==
    /\ pc["send"] = "copy"
    /\ recv_message("send")
    /\ Block = <<>>
    /\ Goto("send", "done")
    /\ UNCHANGED <<parameters, sock, emulator, fileVars>>

(* recv.c *)

StartRecv ==
    /\ lab = "Lab2" /\ pc["recv"] = "off"
    /\ SendAll("recv", <<Hello>>)
    /\ Goto("recv", "name")
    /\ UNCHANGED <<parameters, inbox, emulator, fileVars>>

\* The first message is the name of the file that is written.
ReceiveName ==
    /\ pc["recv"] = "name"
    /\ recv_message("recv")
    /\ send_message("recv", Note)
    /\ Goto("recv", "size")
    /\ UNCHANGED <<parameters, emulator, fileVars>>

ReceiveSize ==
    /\ pc["recv"] = "size"
    /\ recv_message("recv")
    /\ send_message("recv", Note)
    /\ rest' = Head(inbox["recv"])[1]
    /\ Goto("recv", IF rest' = 0 THEN "done" ELSE "copy")
    /\ UNCHANGED <<parameters, emulator, file, offset, written>>

\* Mutant: while (rest >= 0) for while (rest).
EndsLate(r) == r < 0

\* The loop ends at 0 and at nothing else.
EndsAt(r) == r = 0

\* Mutant: the block is acknowledged twice.
EchoTwice(m) == SendAll("recv", <<m, m>>)

Echo(m) == send_message("recv", m)

ReceiveBlock ==
    /\ pc["recv"] = "copy"
    /\ recv_message("recv")
    /\ LET r == Head(inbox["recv"])
       IN  /\ written' = written \o r
           /\ Echo(r)
           /\ rest' = rest - Len(r)
    /\ Goto("recv", IF EndsAt(rest') THEN "done" ELSE "copy")
    /\ UNCHANGED <<parameters, emulator, file, offset>>

FileSendStep == StartSend \/ SendSize \/ SendBlock \/ EndSend
FileRecvStep == StartRecv \/ ReceiveName \/ ReceiveSize \/ ReceiveBlock
-----------------------------------------------------------------------------
(* Properties *)

\* Stop and wait: of the messages of send.c and the replies to them at most one
\* is anywhere, whatever is lost, corrupted or comes before the other end.
LockStep == lab = "Lab2" => Unread <= 1

\* If nothing is corrupted recv.c has a prefix of the file, and the whole file
\* when either program ends; recv.c expects what it has not got.
FileWhole ==
    (lab = "Lab2" /\ ~corrupt) =>
      /\ written = SubSeq(file, 1, Len(written))
      /\ pc["recv"] = "copy" => rest = Len(file) - Len(written)
      /\ pc["recv"] = "done" => written = file
      /\ pc["send"] = "done" => pc["recv"] = "done"
=============================================================================
