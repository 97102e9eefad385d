------------------------------- MODULE Backup -------------------------------
(***************************************************************************)
(* Lab6: client.c sends a file to server.c over UDP, one datagram after    *)
(* the other, and nothing is answered.                                     *)
(***************************************************************************)
EXTENDS FileTransfer, SequencesExt

\* What the server takes for the end.
FINISH == <<-2>>

\* A C string ends at its first zero.
CString(m) ==
    LET zeros == {k \in 1..Len(m) : m[k] = 0}
    IN  IF zeros = {} THEN m ELSE SubSeq(m, 1, Min(zeros) - 1)

(* client.c *)

SendFileName ==
    /\ lab = "Lab6" /\ pc["send"] = "off"
    /\ send_message("send", Name)
    /\ Goto("send", "blocks")
    /\ UNCHANGED <<parameters, inbox, emulator, fileVars>>

SendDatagram ==
    /\ pc["send"] = "blocks"
    /\ Block # <<>>
    /\ send_message("send", Block)
    /\ offset' = offset + Len(Block)
    /\ UNCHANGED <<parameters, pc, inbox, emulator, file, rest, written>>

SendFinish ==
    /\ pc["send"] = "blocks"
    /\ Block = <<>>
    /\ send_message("send", FINISH)
    /\ Goto("send", "done")
    /\ UNCHANGED <<parameters, inbox, emulator, fileVars>>

(* server.c *)

Bind ==
    /\ lab = "Lab6" /\ pc["recv"] = "off"
    /\ Goto("recv", "first")
    /\ UNCHANGED <<parameters, sock, inbox, emulator, fileVars>>

\* The first datagram, the name, only makes the server open its own file.
TakeName ==
    /\ pc["recv"] = "first"
    /\ recv_message("recv")
    /\ Goto("recv", "write")
    /\ UNCHANGED <<parameters, sock, emulator, fileVars>>

\* Mutant: every datagram is written, and the end is never seen.
FinishedNever(m) == FALSE

Finished(m) == CString(m) = FINISH

Write ==
    /\ pc["recv"] = "write"
    /\ recv_message("recv")
    /\ LET m == Head(inbox["recv"])
       IN  IF Finished(m)
           THEN Goto("recv", "done") /\ UNCHANGED written
           ELSE written' = written \o CString(m) /\ UNCHANGED pc
    /\ UNCHANGED <<parameters, sock, emulator, file, offset, rest>>

BackupSendStep == SendFileName \/ SendDatagram \/ SendFinish
BackupRecvStep == Bind \/ TakeName \/ Write
-----------------------------------------------------------------------------
(* Properties *)

Blocks == (Len(file) + MAX_LEN - 2) \div (MAX_LEN - 1)
BlockAt(k) == SubSeq(file, (k - 1) * (MAX_LEN - 1) + 1, Min({k * (MAX_LEN - 1), Len(file)}))

\* Each block up to its first zero: all the server ever writes of it.
WithBlocks(kept) ==
    FlattenSeq([k \in 1..Blocks |-> IF k \in kept THEN CString(BlockAt(k)) ELSE <<>>])

\* A block that reads FINISH up to its first zero is taken for the end.
Readable == {k \in 1..Blocks : ~Finished(BlockAt(k))}
BeforeFinish == {k \in Readable : 1..k \subseteq Readable}

\* What is written is some of the blocks in the order of the file, each of them
\* up to its first zero and none that reads FINISH.  If nothing was lost it is
\* all blocks up to the first that does, which is the file if it has neither.
BackupWhole ==
    lab = "Lab6" =>
      /\ \E kept \in SUBSET Readable : written = WithBlocks(kept)
      /\ pc["recv"] = "done" /\ lost = 0 =>
           /\ written = WithBlocks(BeforeFinish)
           /\ (\A k \in 1..Len(file) : file[k] \notin {0, -2}) => written = file
=============================================================================
