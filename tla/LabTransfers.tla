---------------------------- MODULE LabTransfers ----------------------------
(***************************************************************************)
(* A pair of programs of Lab2, Lab3 or Lab6 and what is between them: what *)
(* run_experiment.sh or make run_server and run_client start.              *)
(***************************************************************************)
EXTENDS Backup, WindowTransfer

vars == <<linkVars, fileVars, windowVars>>

Init == LinkInit /\ FileInit /\ WindowInit

Link == (LinkStep \/ Carry) /\ UNCHANGED <<fileVars, windowVars>>
Breaks == Abort /\ UNCHANGED <<fileVars, windowVars>>

SendStep ==
    \/ (FileSendStep \/ BackupSendStep) /\ UNCHANGED windowVars
    \/ WindowSendStep /\ UNCHANGED fileVars
RecvStep ==
    \/ (FileRecvStep \/ BackupRecvStep) /\ UNCHANGED windowVars
    \/ WindowRecvStep /\ UNCHANGED fileVars

Next == Link \/ Breaks \/ SendStep \/ RecvStep

Spec == Init /\ [][Next]_vars

\* Both programs are started; they, the threads of the emulator and the network run.
FairSpec ==
    /\ Spec
    /\ \A e \in Ends : WF_vars(Meet(e) /\ UNCHANGED <<fileVars, windowVars>>)
    /\ WF_vars((Forward \/ Carry) /\ UNCHANGED <<fileVars, windowVars>>)
    /\ WF_vars(Deliver /\ UNCHANGED <<fileVars, windowVars>>)
    /\ WF_vars(BringBack /\ UNCHANGED <<fileVars, windowVars>>)
    /\ WF_vars(SendStep)
    /\ WF_vars(RecvStep)
-----------------------------------------------------------------------------
(* Properties *)

\* Every variable keeps its type.
TypeOK ==
    /\ lab \in Labs /\ loss \in BOOLEAN /\ corrupt \in BOOLEAN /\ alive \in BOOLEAN
    /\ pc \in [Ends -> {"off", "name", "size", "copy", "blocks", "first", "write",
                        "loop", "drain", "done"}]
    /\ sock \in [Ends -> Seq(Message)] /\ inbox \in [Ends -> Seq(Message)]
    /\ line \in Seq(Message)
    /\ link_up \in [Ends -> BOOLEAN]
    /\ lost \in Nat
    /\ file \in Message /\ offset \in Nat /\ rest \in Int /\ written \in Message
    /\ window_size \in Nat /\ space \in Nat /\ i \in Nat /\ j \in Nat
    /\ checked \in Message /\ verdict \in BOOLEAN

\* Each receiver has what it can have of what was sent: recv.c of Lab2 if nothing
\* is corrupted, server.c of Lab6 less what is lost or not text, and recv.c of
\* Lab3 takes for good exactly the messages whose text and check are unchanged.
Whole == FileWhole /\ BackupWhole /\ Flagged

\* Both programs end, unless a message was lost (by the link, or because its
\* receiver was started too late), the emulator ended, the size of the file may
\* be corrupted, or the window is empty: nothing is sent again.
Done == \A e \in Ends : pc[e] = "done"
Ended == <>(\/ Done \/ lost > 0
            \/ lab # "Lab6" /\ ~alive
            \/ lab = "Lab2" /\ corrupt
            \/ lab = "Lab3" /\ window_size = 0)
=============================================================================
