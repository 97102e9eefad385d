--------------------------- MODULE LibrarySession ---------------------------
(***************************************************************************)
(* The session as its user sees it: in or out, with or without access to   *)
(* the library, and each session used once.                                *)
(***************************************************************************)
EXTENDS Integers

CONSTANT Sessions

VARIABLES
    inside,  \* the session the user is logged in to, or 0
    access,  \* the session that gives access to the library, or 0
    state    \* "fresh", "open", "over" (by a logout)

vars == <<inside, access, state>>

Init ==
    /\ inside = 0
    /\ access = 0
    /\ state = [s \in Sessions |-> "fresh"]

\* The service opens a session; its user may never hear of it.
Open(s) ==
    /\ state[s] = "fresh"
    /\ state' = [state EXCEPT ![s] = "open"]
    /\ UNCHANGED <<inside, access>>

Enter(s) ==
    /\ inside = 0
    /\ state[s] = "open"
    /\ inside' = s
    /\ UNCHANGED <<access, state>>

\* Access is given by the session the user is in, or lost.
Access ==
    /\ inside # 0
    /\ access' \in {0, inside}
    /\ UNCHANGED <<inside, state>>

\* A logout ends the session the user is in, then the user leaves it.
End ==
    /\ inside # 0
    /\ state[inside] = "open"
    /\ state' = [state EXCEPT ![inside] = "over"]
    /\ UNCHANGED <<inside, access>>

Leave ==
    /\ inside' = 0
    /\ access' = 0
    /\ UNCHANGED state

Next == (\E s \in Sessions : Open(s) \/ Enter(s)) \/ Access \/ End \/ Leave

Spec == Init /\ [][Next]_vars
=============================================================================
