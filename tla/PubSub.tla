------------------------------- MODULE PubSub -------------------------------
(***************************************************************************)
(* What the broker promises, without sockets, rounds, buffers or partial   *)
(* publications: at most one member per ID, a publication that reaches     *)
(* every interested member at one instant and in the same order for all,   *)
(* inboxes read in order, and nothing for a process that is not a member   *)
(* except the warning it is refused with.  The broker may stop at any      *)
(* time; from then on only what is already in the inboxes is read.         *)
(***************************************************************************)
EXTENDS Sequences

CONSTANTS Subscribers, IdOf, Topics, Warning

VARIABLES
    up,        \* the broker runs
    members,   \* processes whose connection was accepted under their ID
    interest,  \* the topics of each member
    inbox,     \* what each process has yet to read
    gone       \* processes that have ended

vars == <<up, members, interest, inbox, gone>>

Init ==
    /\ up = TRUE
    /\ members = {}
    /\ interest = [s \in Subscribers |-> {}]
    /\ inbox = [s \in Subscribers |-> <<>>]
    /\ gone = {}

Taken(s) == \E m \in members : IdOf[m] = IdOf[s]

\* A process that has ended receives nothing.
Put(who, m) ==
    inbox' = [s \in Subscribers |->
                IF s \in who \ gone THEN Append(inbox[s], m) ELSE inbox[s]]

Join(s) ==
    /\ up
    /\ ~Taken(s)
    /\ members' = members \cup {s}
    /\ UNCHANGED <<up, interest, inbox, gone>>

Refuse(s) ==
    /\ up
    /\ Taken(s)
    /\ Put({s}, Warning)
    /\ UNCHANGED <<up, members, interest, gone>>

SetInterest(s, topics) ==
    /\ up
    /\ s \in members
    /\ interest' = [interest EXCEPT ![s] = topics]
    /\ UNCHANGED <<up, members, inbox, gone>>

Publish(t) ==
    /\ up
    /\ Put({m \in members : t \in interest[m]}, t)
    /\ UNCHANGED <<up, members, interest, gone>>

\* Reading the warning ends the process.
Read(s) ==
    /\ s \notin gone
    /\ inbox[s] # <<>>
    /\ \/ /\ Head(inbox[s]) = Warning
          /\ gone' = gone \cup {s}
          /\ inbox' = [inbox EXCEPT ![s] = <<>>]
       \/ /\ Head(inbox[s]) # Warning
          /\ inbox' = [inbox EXCEPT ![s] = Tail(@)]
          /\ UNCHANGED gone
    /\ UNCHANGED <<up, members, interest>>

Leave(s) ==
    /\ gone' = gone \cup {s}
    /\ inbox' = [inbox EXCEPT ![s] = <<>>]
    /\ UNCHANGED <<up, members, interest>>

\* Only the membership of a process that has ended is dropped.
HangUp(s) ==
    /\ up
    /\ s \in members \cap gone
    /\ members' = members \ {s}
    /\ interest' = [interest EXCEPT ![s] = {}]
    /\ UNCHANGED <<up, inbox, gone>>

Stop ==
    /\ up
    /\ up' = FALSE
    /\ UNCHANGED <<members, interest, inbox, gone>>

Next ==
    \/ \E s \in Subscribers :
         \/ Join(s)
         \/ Refuse(s)
         \/ \E t \in Topics : SetInterest(s, interest[s] \cup {t})
         \/ \E t \in Topics : SetInterest(s, interest[s] \ {t})
         \/ Read(s)
         \/ Leave(s)
         \/ HangUp(s)
    \/ \E t \in Topics : Publish(t)
    \/ Stop

Spec == Init /\ [][Next]_vars
=============================================================================
