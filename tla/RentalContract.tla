--------------------------- MODULE RentalContract ---------------------------
(***************************************************************************)
(* The rental contract of the game,                                        *)
(* smart_contract/rent_contract/rent_contract_RL_attempt.sol: an array of  *)
(* rentable copies (slots) that anybody may extend, and one rental record  *)
(* per address.  A call runs to its end or reverts, so each public function*)
(* is one action; the block timestamp advances between calls.              *)
(***************************************************************************)
EXTENDS Integers, Sequences, FiniteSets

CONSTANTS
    Users,           \* addresses that call the contract
    NftIds,          \* ids passed to store and rentNft; 0 is a legal one
    RentalDuration,  \* rentalDuration, in units of the clock
    MaxSlots,        \* bound: copies ever stored
    MaxTime          \* bound: last block timestamp

ASSUME UsersAssumption == IsFiniteSet(Users)
ASSUME NftIdsAssumption == NftIds \subseteq Nat
ASSUME DurationAssumption == RentalDuration \in Nat
ASSUME BoundsAssumption == MaxSlots \in Nat /\ MaxTime \in Nat

VARIABLES
    availableNfts,   \* NFT[] availableNfts
    rentals,         \* mapping(address => Rental) rentals
    now              \* block.timestamp

contractVars == <<availableNfts, rentals, now>>

NFT == [id : NftIds, isRented : BOOLEAN]
Rental == [nftId : NftIds \cup {0}, startTime : 0 .. MaxTime, active : BOOLEAN]

\* The value every key of a Solidity mapping has until it is written.
NoRental == [nftId |-> 0, startTime |-> 0, active |-> FALSE]

----------------------------------------------------------------------------
(* What the loops of the contract look for.                                *)

Slots == DOMAIN availableNfts
SlotsOf(n) == {i \in Slots : availableNfts[i].id = n}
RentedSlots(n) == {i \in SlotsOf(n) : availableNfts[i].isRented}
FreeSlots(n) == SlotsOf(n) \ RentedSlots(n)
ActiveRenters(n) == {u \in Users : rentals[u].active /\ rentals[u].nftId = n}

\* The index a loop that breaks on its first match stops at.
IsFirst(i, S) == i \in S /\ \A j \in S : i <= j

\* block.timestamp > startTime + rentalDuration
TimeIsUp(u) == now > rentals[u].startTime + RentalDuration

----------------------------------------------------------------------------
(* The views.  Definitions called Fault_... are plausible slips in the     *)
(* definition that follows them; no specification uses them.               *)

\* The counting pass sizes the result, the second pass fills it: result[idx++].
Fault_CountAll == Cardinality(Slots)

CountAvailable == Cardinality({i \in Slots : ~availableNfts[i].isRented})

FillPass ==
    LET pass[k \in 0 .. Len(availableNfts)] ==
          IF k = 0 THEN [idx |-> 0, result |-> [j \in 1 .. CountAvailable |-> 0]]
          ELSE LET p == pass[k - 1] IN
               IF availableNfts[k].isRented THEN p
               ELSE [idx |-> p.idx + 1,
                     result |-> [p.result EXCEPT ![p.idx + 1] = availableNfts[k].id]]
    IN  pass[Len(availableNfts)]

GetAvailableNfts == FillPass.result

CheckAccess(u) ==
    IF ~rentals[u].active \/ TimeIsUp(u) THEN 0 ELSE rentals[u].nftId

GetUserNfts(u) ==
    IF rentals[u].active /\ ~TimeIsUp(u) THEN rentals[u].nftId ELSE 0

GetUserStartTime(u) == rentals[u].startTime

----------------------------------------------------------------------------
(* The transactions.                                                       *)

\* now counts from the deployment of the contract.
Init ==
    /\ availableNfts = <<>>
    /\ rentals = [u \in Users |-> NoRental]
    /\ now = 0

\* isRented = r in the first slot of S, and nothing if the loop finds none.
MarkFirst(S, r) ==
    [i \in Slots |-> IF IsFirst(i, S)
                     THEN [availableNfts[i] EXCEPT !.isRented = r]
                     ELSE availableNfts[i]]

\* store: no owner check and no check that the id is new.
Store(n) ==
    /\ Len(availableNfts) < MaxSlots
    /\ availableNfts' = Append(availableNfts, [id |-> n, isRented |-> FALSE])
    /\ UNCHANGED <<rentals, now>>

\* The two require()s of rentNft.
Fault_CanRentTakenCopy(u, n) == ~rentals[u].active /\ SlotsOf(n) # {}
Fault_CanRentTwice(u, n) == FreeSlots(n) # {}

CanRent(u, n) == ~rentals[u].active /\ FreeSlots(n) # {}

Fault_RentForgetsRecord(u, n) ==
    /\ CanRent(u, n)
    /\ availableNfts' = MarkFirst(FreeSlots(n), TRUE)
    /\ UNCHANGED <<rentals, now>>

Fault_RentStoresEndTime(u, n) ==
    /\ CanRent(u, n)
    /\ availableNfts' = MarkFirst(FreeSlots(n), TRUE)
    /\ rentals' = [rentals EXCEPT ![u] =
                     [nftId |-> n, startTime |-> now + RentalDuration, active |-> TRUE]]
    /\ UNCHANGED now

RentNft(u, n) ==
    /\ CanRent(u, n)
    /\ availableNfts' = MarkFirst(FreeSlots(n), TRUE)
    /\ rentals' = [rentals EXCEPT ![u] =
                     [nftId |-> n, startTime |-> now, active |-> TRUE]]
    /\ UNCHANGED now

\* endRental clears isRented in the first slot with the id, whichever slot the
\* rental had taken, and leaves nftId and startTime in the record.
Fault_EndWithoutRental(u) ==
    /\ availableNfts' = MarkFirst(SlotsOf(rentals[u].nftId), FALSE)
    /\ rentals' = [rentals EXCEPT ![u].active = FALSE]
    /\ UNCHANGED now

Fault_EndKeepsSlot(u) ==
    /\ rentals[u].active
    /\ rentals' = [rentals EXCEPT ![u].active = FALSE]
    /\ UNCHANGED <<availableNfts, now>>

EndRental(u) ==
    /\ rentals[u].active
    /\ availableNfts' = MarkFirst(SlotsOf(rentals[u].nftId), FALSE)
    /\ rentals' = [rentals EXCEPT ![u].active = FALSE]
    /\ UNCHANGED now

\* A call whose require() fails reverts: it costs a transaction, not state.
RevertedCall(u) ==
    /\ ~rentals[u].active \/ \E n \in NftIds : ~CanRent(u, n)
    /\ UNCHANGED contractVars

Tick ==
    /\ now < MaxTime
    /\ now' = now + 1
    /\ UNCHANGED <<availableNfts, rentals>>

Next ==
    \/ \E n \in NftIds : Store(n)
    \/ \E u \in Users, n \in NftIds : RentNft(u, n)
    \/ \E u \in Users : EndRental(u)
    \/ \E u \in Users : RevertedCall(u)
    \/ Tick

Spec == Init /\ [][Next]_contractVars

----------------------------------------------------------------------------
(* Properties.                                                             *)

\* Type invariant: the array holds copies of known ids within the bound, and
\* a rental record never starts in the future.
TypeOK ==
    /\ availableNfts \in Seq(NFT)
    /\ Len(availableNfts) <= MaxSlots
    /\ rentals \in [Users -> Rental]
    /\ now \in 0 .. MaxTime
    /\ \A u \in Users : rentals[u].startTime <= now

\* No id is rented to more users than it has copies marked as rented: rentNft
\* and endRental keep the array and the mapping in step, whichever copy
\* endRental gives back.
NoOversubscription ==
    \A n \in NftIds :
        Cardinality(ActiveRenters(n)) <= Cardinality(RentedSlots(n))

\* An id stored once is marked as rented exactly while somebody rents it.  (With
\* several copies it is not so: see EndedRentalFreesItsNft.)
SingleCopyExact ==
    \A n \in NftIds :
        Cardinality(SlotsOf(n)) = 1 =>
            Cardinality(ActiveRenters(n)) = Cardinality(RentedSlots(n))

\* However many copies endRental loses, an id nobody rents can be rented: its
\* first copy is never lost.
IdleNftIsRentable ==
    \A n \in NftIds :
        SlotsOf(n) # {} /\ ActiveRenters(n) = {} => FreeSlots(n) # {}

\* The inductive invariant of the proofs: as long as nobody rents an id, its
\* first copy is the one that is surely free, because every endRental clears it.
FirstCopyKept ==
    \A n \in NftIds : ActiveRenters(n) = {} =>
        \A i \in SlotsOf(n) : IsFirst(i, SlotsOf(n)) => i \in FreeSlots(n)

CopiesInv == TypeOK /\ NoOversubscription /\ SingleCopyExact /\ FirstCopyKept

\* getAvailableNfts lists an id once for each copy rentNft would accept, and has
\* no entry that its second pass left unwritten.
OffersMatchFreeCopies ==
    /\ Len(GetAvailableNfts) = FillPass.idx
    /\ \A n \in NftIds :
          Cardinality({k \in DOMAIN GetAvailableNfts : GetAvailableNfts[k] = n})
            = Cardinality(FreeSlots(n))

\* A user comes to have access only in a step in which an idle user rents, and
\* both views and the start time then report that rental; lapsed access does
\* not come back by itself.
AccessStep ==
    \A u \in Users :
        CheckAccess(u)' \notin {0, CheckAccess(u)} =>
            /\ ~rentals[u].active /\ rentals'[u].active
            /\ GetUserNfts(u)' = CheckAccess(u)'
            /\ GetUserStartTime(u)' = now

AccessOnlyByRent == [][AccessStep]_contractVars

\* A copy is never removed or renamed, and it becomes free only in a step in
\* which a user who was renting its id stops renting.
SlotStep ==
    \A i \in Slots :
        /\ i \in Slots' /\ availableNfts'[i].id = availableNfts[i].id
        /\ availableNfts[i].isRented /\ ~availableNfts'[i].isRented =>
              \E u \in ActiveRenters(availableNfts[i].id) : ~rentals'[u].active

SlotReleasedOnlyByItsRenter == [][SlotStep]_contractVars

----------------------------------------------------------------------------
(* What the comments of the contract say, against what it does.            *)

\* Line 97, "Mark NFT as available again": ending a rental makes one more copy
\* of the rented id available.
EndedRentalFreesItsNft ==
    [][\A u \in Users, n \in NftIds :
          u \in ActiveRenters(n) /\ ~rentals'[u].active =>
              Cardinality(FreeSlots(n)') = Cardinality(FreeSlots(n)) + 1
      ]_contractVars
============================================================================
