---------------------------- MODULE LicencePool ----------------------------
(***************************************************************************)
(* What a rental register promises, without slots or flags: a stock of     *)
(* copies per id that only grows, at most one lease per user, and never    *)
(* more leases on an id than copies of it.  RentalContract implements it.  *)
(***************************************************************************)
EXTENDS Integers, FiniteSets

CONSTANTS Users, NftIds

VARIABLES
    stock,   \* copies per id
    lease,   \* the lease of each user, a set of at most one element
    clock    \* time leases are stamped with

poolVars == <<stock, lease, clock>>

Holders(n) == {u \in Users : \E l \in lease[u] : l.nft = n}

Init ==
    /\ stock = [n \in NftIds |-> 0]
    /\ lease = [u \in Users |-> {}]
    /\ clock = 0

AddCopy(n) ==
    /\ stock' = [stock EXCEPT ![n] = @ + 1]
    /\ UNCHANGED <<lease, clock>>

Grant(u, n) ==
    /\ lease[u] = {}
    /\ Cardinality(Holders(n)) < stock[n]
    /\ lease' = [lease EXCEPT ![u] = {[nft |-> n, since |-> clock]}]
    /\ UNCHANGED <<stock, clock>>

Return(u) ==
    /\ lease[u] # {}
    /\ lease' = [lease EXCEPT ![u] = {}]
    /\ UNCHANGED <<stock, clock>>

Advance ==
    /\ clock' = clock + 1
    /\ UNCHANGED <<stock, lease>>

Next ==
    \/ \E n \in NftIds : AddCopy(n)
    \/ \E u \in Users, n \in NftIds : Grant(u, n)
    \/ \E u \in Users : Return(u)
    \/ Advance

Spec == Init /\ [][Next]_poolVars
============================================================================
