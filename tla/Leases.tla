-------------------------------- MODULE Leases --------------------------------
(***************************************************************************)
(* The lease table of the probe fence (crates/controller/src/fence.rs):    *)
(* what one lock section of Fence does to the table.  A table maps a link  *)
(* id to the token of the lease held on it, or to NoToken; the holder and  *)
(* the two nodes a lease occupies follow from the link.  The clock is      *)
(* abstracted to `lapsed`, the tokens whose time to live has passed.       *)
(***************************************************************************)
CONSTANT NoToken

\* The table of a new fence.
NoLeases(links) == [l \in links |-> NoToken]

\* Lease::occupies: a test on l2 would share a node with a lease on l1.
\* Nodes are compared by the names the two links carry.
Occupies(l1, l2) == {l1.from, l1.to} \cap {l2.from, l2.to} # {}

\* The leases that an acquire leaves in the table.
Retain(leases, lapsed) ==
    [l \in DOMAIN leases |->
        IF leases[l] \in lapsed THEN NoToken ELSE leases[l]]

\* Mutant: only a lease on the link itself blocks it.
GrantableByLink(leases, lapsed, link) ==
    leases[link] = NoToken \/ leases[link] \in lapsed

\* No live lease occupies a node of the link.
Grantable(leases, lapsed, link) ==
    \A l \in DOMAIN leases :
        leases[l] # NoToken /\ leases[l] \notin lapsed => ~Occupies(l, link)

\* A granted acquire; a refused one leaves Retain(leases, lapsed).
Acquire(leases, lapsed, link, tok) ==
    [Retain(leases, lapsed) EXCEPT ![link] = tok]

\* Mutants: whoever knows the link releases its lease; nobody does.
ReleaseAny(leases, link, tok) == [leases EXCEPT ![link] = NoToken]

ReleaseNothing(leases, link, tok) == leases

\* Only the holder of the token releases a lease.
Release(leases, link, tok) ==
    IF leases[link] = tok THEN [leases EXCEPT ![link] = NoToken] ELSE leases

Held(leases) == {leases[l] : l \in DOMAIN leases} \ {NoToken}
=============================================================================
