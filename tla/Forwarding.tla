----------------------------- MODULE Forwarding -----------------------------
(***************************************************************************)
(* What a router owes each packet it is sent, without tables, queues or    *)
(* ARP: exactly one outcome, the right one.  A packet for the router is    *)
(* echoed, one without a route or without time to live is answered, one    *)
(* with a wrong checksum is dropped, and every other is handed to a card   *)
(* of the next hop, one TTL lower.  Packets do not affect one another.      *)
(***************************************************************************)
EXTENDS Integers

CONSTANTS Packets, Header, RouterIps, HostIf, Cards, RouteOf, NoRoute, Pending

VARIABLE outcome

Init == outcome = [p \in Packets |-> Pending]

Owed(p) ==
    LET hdr == Header[p]
        answer(what) == {[what |-> what, interface |-> HostIf[hdr.src]]}
    IN  IF hdr.dst \in RouterIps THEN answer("echo")
        ELSE IF RouteOf[hdr.dst] = NoRoute THEN answer("unreachable")
        ELSE IF hdr.ttl <= 1 THEN answer("exceeded")
        ELSE IF ~hdr.ok THEN {[what |-> "dropped"]}
        ELSE {[what |-> "forwarded", interface |-> RouteOf[hdr.dst].interface,
               mac |-> c, ttl |-> hdr.ttl - 1] : c \in Cards[RouteOf[hdr.dst].next_hop]}

Settle(p) ==
    /\ outcome[p] = Pending
    /\ \E o \in Owed(p) : outcome' = [outcome EXCEPT ![p] = o]

Next == \E p \in Packets : Settle(p)

Spec == Init /\ [][Next]_outcome
=============================================================================
