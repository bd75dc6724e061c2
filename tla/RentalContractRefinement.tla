----------------------- MODULE RentalContractRefinement -----------------------
(***************************************************************************)
(* RentalContract implements two simpler specifications: the LicencePool it*)
(* promises to be, and, on the rentals mapping alone, LightRental, the     *)
(* contract it replaced.                                                   *)
(***************************************************************************)
EXTENDS RentalContract

\* A copy is in stock from store on, rented or not; a lease is an active record.
Stock == [n \in NftIds |-> Cardinality(SlotsOf(n))]
Lease == [u \in Users |->
            IF rentals[u].active
            THEN {[nft |-> rentals[u].nftId, since |-> rentals[u].startTime]}
            ELSE {}]

Pool == INSTANCE LicencePool WITH stock <- Stock, lease <- Lease, clock <- now

\* The record of the first contract calls the rented id gameId.
LightRentals == [u \in Users |-> [gameId    |-> rentals[u].nftId,
                                  startTime |-> rentals[u].startTime,
                                  active    |-> rentals[u].active]]

Light == INSTANCE LightRental WITH
            rentals <- LightRentals, GameIds <- NftIds

\* rentNft and endRental, with their loops over the copies, grant and return
\* leases the way LicencePool says: never a second lease to a user, never more
\* leases on an id than it has copies, stamped with the time of the call.
ImplementsPool == Pool!Spec

\* Adding the stock of copies changed nothing in how a user's record evolves: it
\* still is a behaviour of the first contract.
ImplementsLightRental == Light!Spec
============================================================================
