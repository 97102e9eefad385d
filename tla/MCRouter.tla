------------------------------ MODULE MCRouter ------------------------------
(***************************************************************************)
(* Three hosts on the first three interfaces of topo.py, and the packets   *)
(* the runs choose from.  "far" is reached through h1, as 192.168.0.8 is   *)
(* through 192.168.1.2 in rtable.txt; "nowhere" has no route, as 10.0.0.1  *)
(* in tests.py.                                                            *)
(***************************************************************************)
EXTENDS RoutedNetwork, TLC

MCHosts == {"h0", "h1", "h2"}
MCIfaces == 0..2
MCRouterIps == {"r0", "r1", "r2"}
MCElsewhere == {"far", "nowhere"}
MCMacs == {"m0", "m1", "m1b", "m2"}
MCHostIf == "h0" :> 0 @@ "h1" :> 1 @@ "h2" :> 2
MCIpOf == 0 :> "r0" @@ 1 :> "r1" @@ 2 :> "r2"

\* h1's card is replaced in one run.
MCCards == "h0" :> {"m0"} @@ "h1" :> {"m1"} @@ "h2" :> {"m2"}
MCCardsReplaced == "h0" :> {"m0"} @@ "h1" :> {"m1", "m1b"} @@ "h2" :> {"m2"}

via(i, h) == [interface |-> i, next_hop |-> h]
MCRouteOf ==
    "h0" :> via(0, "h0") @@ "h1" :> via(1, "h1") @@ "h2" :> via(2, "h2") @@
    "r0" :> via(0, "h0") @@ "r1" :> via(1, "h1") @@ "r2" :> via(2, "h2") @@
    "far" :> via(1, "h1") @@ "nowhere" :> NoRoute

hdr(src, dst, ttl, ok) == [src |-> src, dst |-> dst, ttl |-> ttl, ok |-> ok]
AllHeaders ==
    "toH1" :> hdr("h0", "h1", 64, TRUE) @@ "toH1again" :> hdr("h0", "h1", 64, TRUE) @@
    "toH2" :> hdr("h0", "h2", 2, TRUE) @@ "h1toH2" :> hdr("h1", "h2", 64, TRUE) @@
    "broken" :> hdr("h0", "h1", 64, FALSE) @@ "expired" :> hdr("h1", "h2", 1, TRUE) @@
    "echo" :> hdr("h0", "r0", 64, TRUE) @@ "echoOther" :> hdr("h0", "r1", 64, TRUE) @@
    "lost" :> hdr("h1", "nowhere", 64, TRUE) @@ "toFar" :> hdr("h0", "far", 64, TRUE)
MCHeader == [p \in Packets |-> AllHeaders[p]]
=============================================================================
