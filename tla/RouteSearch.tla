---------------------------- MODULE RouteSearch ----------------------------
(***************************************************************************)
(* get_best_route() of Tema1/router.c on a table sorted by comparator():   *)
(* the binary search, one iteration per step, and the choice among the     *)
(* matches it met.  Addresses are W bits wide (32 in the code); a mask has *)
(* its ones on the left, so that ANDing with it rounds down to a multiple  *)
(* of 2^W - mask.                                                          *)
(***************************************************************************)
EXTENDS Integers, Sequences, FiniteSets

CONSTANTS
    W,          \* bits of an address
    RouteSets,  \* sets of routes a table may be read from
    None        \* NULL

Addresses == 0 .. 2^W - 1
Masks == {2^W - 2^n : n \in 0..W}
Entries == [prefix : Addresses, mask : Addresses]

ASSUME RouteAssumption ==
    /\ W \in Nat \ {0}
    /\ \A S \in RouteSets : S \subseteq Entries /\ IsFiniteSet(S)
    /\ None \notin Entries

ASSUME MaskAssumption ==
    \A S \in RouteSets : \A r \in S : r.mask \in Masks /\ r.prefix % (2^W - r.mask) = 0

VARIABLES
    table,        \* routes[], sorted
    dest,         \* dest_ip
    left, right,  \* as in the code, from 0
    aux,          \* the matches met, in order
    route,        \* the result
    pc            \* "search", "choose" or "done"

vars == <<table, dest, left, right, aux, route, pc>>

\* dest_ip & mask
Masked(d, mask) == d - (d % (2^W - mask))
Matches(r, d) == Masked(d, r.mask) = r.prefix

\* A difference of two unsigned numbers returned as an int.
AsInt(n) == LET u == n % 2^W IN IF u < 2^(W - 1) THEN u ELSE u - 2^W

\* Mutant: routes with one prefix are sorted from the longest to the shortest.
ComparatorMasksDown(p, q) ==
    IF p.prefix = q.prefix THEN AsInt(q.mask - p.mask) ELSE AsInt(p.prefix - q.prefix)

Comparator(p, q) ==
    IF p.prefix = q.prefix THEN AsInt(p.mask - q.mask) ELSE AsInt(p.prefix - q.prefix)

Arrangements(S) ==
    {t \in [1..Cardinality(S) -> S] : \A i, j \in DOMAIN t : i < j => t[i] # t[j]}
Ordered(t) == \A i, j \in DOMAIN t : i < j => Comparator(t[i], t[j]) <= 0

\* What qsort() makes of S; it promises nothing where the comparator, whose
\* differences overflow, runs in a circle.
Sorted(S) ==
    IF \E t \in Arrangements(S) : Ordered(t)
    THEN {t \in Arrangements(S) : Ordered(t)} ELSE Arrangements(S)

Init ==
    /\ \E S \in RouteSets : table \in Sorted(S)
    /\ dest \in Addresses
    /\ left = 0
    /\ right = Len(table) - 1
    /\ aux = <<>>
    /\ route = None
    /\ pc = "search"

mid == left + (right - left) \div 2

\* Mutant: the left bound is set to the middle itself.
GoOnStuck(r) ==
    IF Masked(dest, r.mask) >= r.prefix
    THEN left' = mid /\ right' = right
    ELSE left' = left /\ right' = mid - 1

\* Mutant: an entry is skipped.
GoOnSkip(r) ==
    IF Masked(dest, r.mask) >= r.prefix
    THEN left' = mid + 2 /\ right' = right
    ELSE left' = left /\ right' = mid - 1

\* Mutant: a match ends the search to its right.
GoOnLeft(r) ==
    IF Masked(dest, r.mask) > r.prefix
    THEN left' = mid + 1 /\ right' = right
    ELSE left' = left /\ right' = mid - 1

GoOn(r) ==
    IF Masked(dest, r.mask) >= r.prefix
    THEN left' = mid + 1 /\ right' = right
    ELSE left' = left /\ right' = mid - 1

\* Mutant: a route that is below the destination counts as a match.
CollectBelow(r) == aux' = IF r.prefix <= dest THEN Append(aux, r) ELSE aux

Collect(r) == aux' = IF Matches(r, dest) THEN Append(aux, r) ELSE aux

Search ==
    /\ pc = "search"
    /\ left <= right
    /\ Collect(table[mid + 1])
    /\ GoOn(table[mid + 1])
    /\ UNCHANGED <<table, dest, route, pc>>

EndSearch ==
    /\ pc = "search"
    /\ left > right
    /\ pc' = "choose"
    /\ UNCHANGED <<table, dest, left, right, aux, route>>

\* The first of the longest masks; a mask of zero is never above max.
Best(k) ==
    /\ k \in 1..Len(aux)
    /\ aux[k].mask > 0
    /\ \A j \in 1..Len(aux) : aux[j].mask <= aux[k].mask
    /\ \A j \in 1..k - 1 : aux[j].mask < aux[k].mask

ChooseRoute ==
    /\ pc = "choose"
    /\ \E k \in 1..Len(aux) : Best(k) /\ route' = aux[k]
    /\ pc' = "done"
    /\ UNCHANGED <<table, dest, left, right, aux>>

NoRouteFound ==
    /\ pc = "choose"
    /\ \A k \in 1..Len(aux) : ~Best(k)
    /\ pc' = "done"
    /\ UNCHANGED <<table, dest, left, right, aux, route>>

Next == Search \/ EndSearch \/ ChooseRoute \/ NoRouteFound

Spec == Init /\ [][Next]_vars

\* The loop runs on until it ends.
FairSpec == Spec /\ WF_vars(Next)
-----------------------------------------------------------------------------
(* Properties *)

\* Every variable keeps its type; the bounds stay on the table.
TypeOK ==
    /\ table \in Seq(Entries)
    /\ dest \in Addresses
    /\ left \in 0..Len(table)
    /\ right \in -1..Len(table) - 1
    /\ aux \in Seq(Entries)
    /\ route \in Entries \cup {None}
    /\ pc \in {"search", "choose", "done"}

\* The result is a route of the table that contains the destination.
ResultMatches ==
    route # None => /\ \E i \in 1..Len(table) : table[i] = route
                    /\ Matches(route, dest)

\* No two prefixes and no two masks are so far apart that their difference is
\* not an int.
Comparable ==
    \A i, j \in 1..Len(table) : /\ table[i].prefix - table[j].prefix < 2^(W - 1)
                                /\ table[i].mask - table[j].mask < 2^(W - 1)

\* If the last route at or below the destination contains it, it is the
\* result, whatever nesting is before it: so the hosts of rtable.txt are found.
FindsNearest ==
    pc = "done" /\ Comparable =>
      \A k \in 1..Len(table) :
        /\ table[k].prefix <= dest
        /\ \A i \in 1..Len(table) : i > k => table[i].prefix > dest
        /\ Matches(table[k], dest)
        /\ table[k].mask > 0
        => route = table[k]

\* The search ends: the bounds approach each other in every iteration.
SearchEnds == <>(pc = "done")

\* README:22-23: of the routes that contain the destination, the one with the
\* longest mask is the result.
FindsLongest ==
    pc = "done" =>
      \A i \in 1..Len(table) :
        Matches(table[i], dest) /\ table[i].mask > 0 =>
          route # None /\ route.mask >= table[i].mask
=============================================================================
