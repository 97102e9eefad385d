--------------------------- MODULE MCRouteSearch ---------------------------
(***************************************************************************)
(* All tables of a few routes over addresses of a few bits.                *)
(***************************************************************************)
EXTENDS RouteSearch, FiniteSetsExt

Block(r) == 2^W - r.mask
Aligned == {r \in [prefix : Addresses, mask : Masks] : r.prefix % Block(r) = 0}
UpTo(n, S) == UNION {kSubset(k, S) : k \in 1..n}

\* Prefixes less than half the address space apart, as the 192.x.x.x of
\* rtable.txt, nested or not, at most four.
NearRoutes == UpTo(4, {r \in Aligned : r.prefix < 2^(W - 1) /\ r.mask > 0})

\* Tables of up to three routes anywhere, a default route among them or not.
FarRoutes == NearRoutes \cup {{p, q, r} : p, q, r \in Aligned}
=============================================================================
