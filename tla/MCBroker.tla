------------------------------ MODULE MCBroker ------------------------------
(***************************************************************************)
(* Instances of Broker for TLC: a process a1, another one a2 started under *)
(* the same ID (a duplicate or a restart), and a process b1 of its own.    *)
(***************************************************************************)
EXTENDS Broker, TLC

CONSTANTS a1, a2, b1, A, B, t1, t2

MCIdOf == (a1 :> A) @@ (a2 :> A) @@ (b1 :> B)
OneIdOf == a1 :> A
TwoIdOf == (a1 :> A) @@ (a2 :> A)

\* a1 and a2 differ in nothing but their names.
Symmetry == Permutations({a1, a2})

MCFds == {5, 6, 7}
FewFds == {5, 6}

Good == {[topic |-> t, signOk |-> TRUE] : t \in Topics}
GoodAndBad == Good \cup {[topic |-> t1, signOk |-> FALSE]}
=============================================================================
