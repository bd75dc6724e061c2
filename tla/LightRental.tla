---------------------------- MODULE LightRental ----------------------------
(***************************************************************************)
(* The first rental contract, smart_contract/rent_contract/rent_contract.sol:*)
(* one record per address, no stock of copies and no expiry.  The records  *)
(* of its successor evolve in the same way (RentalContractRefinement).     *)
(***************************************************************************)
EXTENDS Integers

CONSTANTS
    Users,           \* addresses that call the contract
    GameIds,         \* ids passed to rentGame
    MaxTime          \* bound: last block timestamp

VARIABLES
    rentals,   \* mapping(address => Rental) rentals
    now        \* block.timestamp

lightVars == <<rentals, now>>

NoRental == [gameId |-> 0, startTime |-> 0, active |-> FALSE]

Init ==
    /\ rentals = [u \in Users |-> NoRental]
    /\ now = 0

RentGame(u, g) ==
    /\ ~rentals[u].active
    /\ rentals' = [rentals EXCEPT ![u] =
                     [gameId |-> g, startTime |-> now, active |-> TRUE]]
    /\ UNCHANGED now

EndRental(u) ==
    /\ rentals[u].active
    /\ rentals' = [rentals EXCEPT ![u].active = FALSE]
    /\ UNCHANGED now

\* The record alone decides; the time since it began does not.
CheckAccess(u) == IF rentals[u].active THEN rentals[u].gameId ELSE 0

Tick ==
    /\ now < MaxTime
    /\ now' = now + 1
    /\ UNCHANGED rentals

Next ==
    \/ \E u \in Users, g \in GameIds : RentGame(u, g)
    \/ \E u \in Users : EndRental(u)
    \/ Tick

Spec == Init /\ [][Next]_lightVars
============================================================================
