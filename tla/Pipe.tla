-------------------------------- MODULE Pipe --------------------------------
(***************************************************************************)
(* The link as its two programs see it: what is accepted comes out in      *)
(* order, once, if the far end has been heard of; the pipe forgets nothing *)
(* it accepted.  Replies come back at once.                                *)
(***************************************************************************)
EXTENDS Sequences

CONSTANT Packets

VARIABLES
    pipe,  \* accepted and not delivered
    far,   \* the far end has been heard of
    out    \* what the far end was sent

vars == <<pipe, far, out>>

Init == pipe = <<>> /\ far = FALSE /\ out = <<>>

Accept(p) ==
    /\ pipe' = Append(pipe, p)
    /\ UNCHANGED <<far, out>>

Deliver ==
    /\ pipe # <<>>
    /\ pipe' = Tail(pipe)
    /\ out' = IF far THEN Append(out, Head(pipe)) ELSE out
    /\ UNCHANGED far

Hear ==
    /\ far' = TRUE
    /\ UNCHANGED <<pipe, out>>

Next == (\E p \in Packets : Accept(p)) \/ Deliver \/ Hear

Spec == Init /\ [][Next]_vars
=============================================================================
