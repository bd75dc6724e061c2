------------------------ MODULE RentalContractProofs ------------------------
(***************************************************************************)
(* Proofs about RentalContract, for any set of addresses and ids, any      *)
(* duration and any bounds.                                                *)
(***************************************************************************)
EXTENDS RentalContractRefinement, FiniteSetTheorems, WellFoundedInduction, TLAPS

USE UsersAssumption, NftIdsAssumption, DurationAssumption, BoundsAssumption

----------------------------------------------------------------------------
(* The array and its loops.                                                *)

\* A loop that breaks on its first match stops at exactly one index, if any
\* index matches.
LEMMA FirstExists ==
    ASSUME NEW S \in SUBSET Nat, S # {}
    PROVE  \E i \in S : IsFirst(i, S)
<1>1. PICK i \in S : \A j \in S : ~(<<j, i>> \in OpToRel(<, Nat))
  BY NatLessThanWellFounded, WFMin
<1>2. \A j, k \in Nat : j < k => <<j, k>> \in OpToRel(<, Nat)
  BY DEF OpToRel
<1>3. \A j \in S : ~(j < i)
  BY <1>1, <1>2
<1>4. \A j \in S : i <= j
  BY <1>3
<1> QED
  BY <1>4 DEF IsFirst

\* The sets of slots are finite sets of naturals.
LEMMA SlotFacts ==
    ASSUME TypeOK, NEW n
    PROVE  /\ Slots = 1 .. Len(availableNfts)
           /\ IsFiniteSet(SlotsOf(n)) /\ SlotsOf(n) \subseteq Slots
           /\ IsFiniteSet(RentedSlots(n)) /\ RentedSlots(n) \subseteq SlotsOf(n)
           /\ FreeSlots(n) \in SUBSET Nat /\ SlotsOf(n) \in SUBSET Nat
<1>1. Slots = 1 .. Len(availableNfts) /\ Len(availableNfts) \in Nat
  BY DEF TypeOK, Slots
<1>2. IsFiniteSet(Slots)
  BY <1>1, FS_Interval
<1>3. SlotsOf(n) \subseteq Slots /\ RentedSlots(n) \subseteq SlotsOf(n)
      /\ FreeSlots(n) \subseteq SlotsOf(n)
  BY DEF SlotsOf, RentedSlots, FreeSlots
<1> QED
  BY <1>1, <1>2, <1>3, FS_Subset

\* Subsets count no more, and one more element counts at most one more.
LEMMA FewerElements ==
    ASSUME NEW L, NEW D, IsFiniteSet(L), IsFiniteSet(D),
           NEW K \in SUBSET L, NEW E \in SUBSET D
    PROVE  /\ IsFiniteSet(K) /\ IsFiniteSet(E)
           /\ Cardinality(K) \in Nat /\ Cardinality(E) \in Nat
           /\ Cardinality(L) \in Nat /\ Cardinality(D) \in Nat
           /\ Cardinality(K) <= Cardinality(L) /\ Cardinality(E) <= Cardinality(D)
BY FS_Subset, FS_CardinalityType

LEMMA OneMoreElement ==
    ASSUME NEW L, IsFiniteSet(L), NEW x, NEW K \in SUBSET (L \cup {x})
    PROVE  /\ IsFiniteSet(K) /\ Cardinality(K) \in Nat /\ Cardinality(L) \in Nat
           /\ Cardinality(K) <= Cardinality(L) + 1
<1>1. IsFiniteSet(L \cup {x}) /\ Cardinality(L \cup {x}) <= Cardinality(L) + 1
      /\ Cardinality(L) \in Nat /\ Cardinality(L \cup {x}) \in Nat
  <2>1. Cardinality(L) \in Nat
    BY FS_CardinalityType
  <2>2. /\ IsFiniteSet(L \cup {x})
        /\ Cardinality(L \cup {x}) \in {Cardinality(L), Cardinality(L) + 1}
    BY Zenon, FS_AddElement
  <2> QED
    BY <2>1, <2>2
<1>2. IsFiniteSet(K) /\ Cardinality(K) <= Cardinality(L \cup {x}) /\ Cardinality(K) \in Nat
  BY <1>1, FS_Subset, FS_CardinalityType
<1> QED
  BY <1>1, <1>2

\* The rentals of the ids of N that pages have recorded: per page a list, told apart
\* by its place, of which some set is looked at.
Claims(records, pages, places, N) ==
    {c \in pages \X places :
        c[2] \in DOMAIN records[c[1]] /\ records[c[1]][c[2]].id \in N}

\* From f to g, page t has appended e to its list and the others have kept theirs.
Appends(f, g, T, E, t, e) ==
    /\ t \in T /\ e \in E
    /\ f \in [T -> Seq(E)]
    /\ g = [f EXCEPT ![t] = Append(@, e)]

\* Appending to one page's list claims its id once more.
LEMMA AppendedClaim ==
    ASSUME NEW f, NEW g, NEW T, NEW E, NEW t, NEW e, Appends(f, g, T, E, t, e), NEW P, NEW N
    PROVE  /\ Claims(g, T, P, N) \subseteq Claims(f, T, P, N) \cup {<<t, Len(f[t]) + 1>>}
           /\ e.id \notin N => Claims(g, T, P, N) \subseteq Claims(f, T, P, N)
           /\ g \in [T -> Seq(E)]
<1> DEFINE k == Len(f[t])
<1>1. f[t] \in Seq(E) /\ k \in Nat /\ DOMAIN f[t] = 1 .. k
  BY DEF Appends
<1>2. /\ g[t] = Append(f[t], e) /\ g[t] \in Seq(E) /\ g \in [T -> Seq(E)]
      /\ \A s \in T \ {t} : g[s] = f[s]
      /\ t \in T /\ e \in E
  BY DEF Appends
<1>3. /\ DOMAIN g[t] = 1 .. k + 1 /\ g[t][k + 1] = e
      /\ \A i \in 1 .. k : g[t][i] = f[t][i]
  BY <1>1, <1>2
<1>4. ASSUME NEW c \in Claims(g, T, P, N)
      PROVE  c \in Claims(f, T, P, N) \/ (c = <<t, k + 1>> /\ e.id \in N)
  <2>1. PICK s \in T, i \in P : c = <<s, i>>
    BY <1>4 DEF Claims
  <2>2. i \in DOMAIN g[s] /\ g[s][i].id \in N
    BY <1>4, <2>1 DEF Claims
  <2>3. CASE s # t
    BY <1>2, <2>1, <2>2, <2>3 DEF Claims
  <2>4. CASE s = t /\ i \in 1 .. k
    BY <1>1, <1>3, <2>1, <2>2, <2>4 DEF Claims
  <2>5. CASE s = t /\ i = k + 1
    BY <1>3, <2>1, <2>2, <2>5
  <2> QED
    BY <1>1, <1>3, <2>2, <2>3, <2>4, <2>5
<1> QED
  BY <1>2, <1>4

LEMMA RenterFacts ==
    ASSUME NEW n
    PROVE  IsFiniteSet(ActiveRenters(n)) /\ ActiveRenters(n) \subseteq Users
BY FS_Subset DEF ActiveRenters

\* Writing a flag changes neither the length of the array nor an id.
LEMMA MarkFirstFacts ==
    ASSUME TypeOK, NEW S, NEW r \in BOOLEAN, availableNfts' = MarkFirst(S, r)
    PROVE  /\ availableNfts' \in Seq(NFT)
           /\ Len(availableNfts') = Len(availableNfts)
           /\ Slots' = Slots
           /\ \A n : SlotsOf(n)' = SlotsOf(n)
           /\ \A i \in Slots : availableNfts'[i].isRented =
                 IF IsFirst(i, S) THEN r ELSE availableNfts[i].isRented
<1>1. Slots = 1 .. Len(availableNfts) /\ Len(availableNfts) \in Nat
  BY DEF TypeOK, Slots
<1>2. \A i \in Slots : availableNfts[i] \in NFT
  BY <1>1 DEF TypeOK
<1>3. \A i \in Slots :
        /\ availableNfts'[i] \in NFT
        /\ availableNfts'[i].id = availableNfts[i].id
        /\ availableNfts'[i].isRented =
              IF IsFirst(i, S) THEN r ELSE availableNfts[i].isRented
  BY <1>2 DEF MarkFirst, NFT
<1>4. availableNfts' \in [1 .. Len(availableNfts) -> NFT]
  BY <1>1, <1>3 DEF MarkFirst
<1>5. availableNfts' \in Seq(NFT) /\ Len(availableNfts') = Len(availableNfts)
  BY <1>1, <1>4
<1>6. Slots' = Slots
  BY <1>1, <1>4 DEF Slots
<1>7. \A n : SlotsOf(n)' = SlotsOf(n)
  BY <1>3, <1>6 DEF SlotsOf
<1> QED
  BY <1>3, <1>5, <1>6, <1>7

----------------------------------------------------------------------------
(* What each transaction does to the sets the invariants count.            *)

LEMMA StoreEffect ==
    ASSUME TypeOK, NEW n \in NftIds, Store(n)
    PROVE  /\ TypeOK'
           /\ \A m : /\ RentedSlots(m)' = RentedSlots(m)
                     /\ ActiveRenters(m)' = ActiveRenters(m)
                     /\ SlotsOf(m) \subseteq SlotsOf(m)'
           /\ \A m : m # n => SlotsOf(m)' = SlotsOf(m)
           /\ \E i \in Nat : i \notin Slots /\ SlotsOf(n)' = SlotsOf(n) \cup {i}
<1> DEFINE L == Len(availableNfts)
<1>1. L \in Nat /\ Slots = 1 .. L /\ Slots' = 1 .. L + 1
  BY DEF TypeOK, Store, Slots
<1>2. /\ availableNfts' \in Seq(NFT) /\ Len(availableNfts') = L + 1
      /\ availableNfts'[L + 1] = [id |-> n, isRented |-> FALSE]
      /\ \A i \in Slots : availableNfts'[i] = availableNfts[i]
  BY <1>1 DEF TypeOK, Store, NFT
<1>3. TypeOK'
  BY <1>1, <1>2 DEF TypeOK, Store
<1>4. \A m : SlotsOf(m)' = IF m = n THEN SlotsOf(m) \cup {L + 1} ELSE SlotsOf(m)
  BY <1>1, <1>2 DEF SlotsOf
<1>5. \A m : RentedSlots(m)' = RentedSlots(m)
  BY <1>1, <1>2, <1>4 DEF RentedSlots, SlotsOf
<1>6. \A m : ActiveRenters(m)' = ActiveRenters(m)
  BY DEF ActiveRenters, Store
<1>7. L + 1 \in Nat /\ L + 1 \notin Slots
  BY <1>1
<1> QED
  BY <1>3, <1>4, <1>5, <1>6, <1>7

LEMMA RentEffect ==
    ASSUME TypeOK, NEW u \in Users, NEW n \in NftIds, RentNft(u, n)
    PROVE  /\ TypeOK'
           /\ \A m : SlotsOf(m)' = SlotsOf(m)
           /\ \E i \in FreeSlots(n) : RentedSlots(n)' = RentedSlots(n) \cup {i}
           /\ u \notin ActiveRenters(n)
           /\ ActiveRenters(n)' = ActiveRenters(n) \cup {u}
           /\ \A m : m # n => /\ RentedSlots(m)' = RentedSlots(m)
                              /\ ActiveRenters(m)' = ActiveRenters(m)
<1>1. FreeSlots(n) # {} /\ FreeSlots(n) \in SUBSET Nat /\ ~rentals[u].active
  BY SlotFacts DEF RentNft, CanRent
<1>2. PICK i \in FreeSlots(n) : IsFirst(i, FreeSlots(n))
  BY <1>1, FirstExists
<1>3. /\ availableNfts' \in Seq(NFT)
      /\ Len(availableNfts') = Len(availableNfts)
      /\ Slots' = Slots
      /\ \A m : SlotsOf(m)' = SlotsOf(m)
      /\ \A j \in Slots : availableNfts'[j].isRented =
            IF IsFirst(j, FreeSlots(n)) THEN TRUE ELSE availableNfts[j].isRented
  BY MarkFirstFacts DEF RentNft
<1>4. \A j \in Slots : IsFirst(j, FreeSlots(n)) <=> j = i
  BY <1>1, <1>2 DEF IsFirst
<1>5. /\ rentals' \in [Users -> Rental] /\ now' = now
      /\ rentals' = [rentals EXCEPT ![u] =
                       [nftId |-> n, startTime |-> now, active |-> TRUE]]
  BY DEF TypeOK, RentNft, Rental
<1>6. TypeOK'
  BY <1>3, <1>5 DEF TypeOK
<1>7. RentedSlots(n)' = RentedSlots(n) \cup {i}
  BY <1>2, <1>3, <1>4 DEF RentedSlots, SlotsOf, FreeSlots
<1>8. ASSUME NEW m, m # n
      PROVE  RentedSlots(m)' = RentedSlots(m)
  <2>1. i \in SlotsOf(n) /\ i \notin SlotsOf(m)
    BY <1>2, <1>8 DEF FreeSlots, SlotsOf
  <2>2. \A j \in SlotsOf(m) : availableNfts'[j].isRented = availableNfts[j].isRented
    BY <1>3, <1>4, <2>1 DEF SlotsOf
  <2> QED
    BY <1>3, <2>2 DEF RentedSlots
<1>9. u \notin ActiveRenters(n) /\ ActiveRenters(n)' = ActiveRenters(n) \cup {u}
  BY <1>1, <1>5 DEF TypeOK, ActiveRenters
<1>10. \A m : m # n => ActiveRenters(m)' = ActiveRenters(m)
  BY <1>1, <1>5 DEF TypeOK, ActiveRenters
<1> QED
  BY <1>3, <1>6, <1>7, <1>8, <1>9, <1>10

LEMMA EndEffect ==
    ASSUME TypeOK, NEW u \in Users, EndRental(u), NEW n, n = rentals[u].nftId
    PROVE  /\ TypeOK'
           /\ \A m : SlotsOf(m)' = SlotsOf(m)
           /\ u \in ActiveRenters(n)
           /\ ActiveRenters(n)' = ActiveRenters(n) \ {u}
           /\ SlotsOf(n) # {} =>
                \E i \in SlotsOf(n) : /\ IsFirst(i, SlotsOf(n))
                                      /\ RentedSlots(n)' = RentedSlots(n) \ {i}
           /\ \A m : m # n => /\ RentedSlots(m)' = RentedSlots(m)
                              /\ ActiveRenters(m)' = ActiveRenters(m)
<1>1. SlotsOf(n) \in SUBSET Nat /\ rentals[u].active
  BY SlotFacts DEF EndRental
<1>2. /\ availableNfts' \in Seq(NFT)
      /\ Len(availableNfts') = Len(availableNfts)
      /\ Slots' = Slots
      /\ \A m : SlotsOf(m)' = SlotsOf(m)
      /\ \A j \in Slots : availableNfts'[j].isRented =
            IF IsFirst(j, SlotsOf(n)) THEN FALSE ELSE availableNfts[j].isRented
  BY MarkFirstFacts DEF EndRental
<1>3. /\ rentals' \in [Users -> Rental] /\ now' = now
      /\ rentals' = [rentals EXCEPT ![u].active = FALSE]
      /\ \A v \in Users : rentals'[v].startTime = rentals[v].startTime
  BY DEF TypeOK, EndRental, Rental
<1>4. TypeOK'
  BY <1>2, <1>3 DEF TypeOK
<1>5. u \in ActiveRenters(n) /\ ActiveRenters(n)' = ActiveRenters(n) \ {u}
  BY <1>1, <1>3 DEF TypeOK, ActiveRenters, Rental
<1>6. \A m : m # n => ActiveRenters(m)' = ActiveRenters(m)
  BY <1>1, <1>3 DEF TypeOK, ActiveRenters, Rental
<1>7. \A m : m # n => RentedSlots(m)' = RentedSlots(m)
  BY <1>2 DEF RentedSlots, SlotsOf, IsFirst
<1>8. ASSUME SlotsOf(n) # {}
      PROVE  \E i \in SlotsOf(n) : /\ IsFirst(i, SlotsOf(n))
                                   /\ RentedSlots(n)' = RentedSlots(n) \ {i}
  <2>1. PICK i \in SlotsOf(n) : IsFirst(i, SlotsOf(n))
    BY <1>1, <1>8, FirstExists
  <2>2. \A j \in Slots : IsFirst(j, SlotsOf(n)) <=> j = i
    BY <1>1, <2>1 DEF IsFirst
  <2>3. \A j \in SlotsOf(n) :
           availableNfts'[j].isRented <=> j # i /\ availableNfts[j].isRented
    BY <1>2, <2>2 DEF SlotsOf
  <2>4. RentedSlots(n)' = {j \in SlotsOf(n) : availableNfts'[j].isRented}
    BY <1>2 DEF RentedSlots
  <2>5. RentedSlots(n)' = RentedSlots(n) \ {i}
    BY <2>3, <2>4 DEF RentedSlots
  <2> QED
    BY <2>1, <2>5
<1> QED
  BY <1>2, <1>4, <1>5, <1>6, <1>7, <1>8

\* Time and reverted calls leave array and mapping alone.
LEMMA QuietEffect ==
    ASSUME TypeOK, Tick \/ (\E u \in Users : RevertedCall(u)) \/ UNCHANGED contractVars
    PROVE  /\ TypeOK'
           /\ \A m : /\ SlotsOf(m)' = SlotsOf(m)
                     /\ RentedSlots(m)' = RentedSlots(m)
                     /\ ActiveRenters(m)' = ActiveRenters(m)
<1>1. UNCHANGED <<availableNfts, rentals>> /\ (now' = now \/ Tick)
  BY DEF Tick, RevertedCall, contractVars
<1>2. TypeOK'
  <2>1. now' \in 0 .. MaxTime /\ now <= now'
    BY <1>1 DEF Tick, TypeOK
  <2>2. \A u \in Users : rentals[u].startTime \in Int
    BY DEF TypeOK, Rental
  <2> QED
    BY <1>1, <2>1, <2>2 DEF TypeOK
<1> QED
  BY <1>1, <1>2 DEF SlotsOf, RentedSlots, ActiveRenters, Slots

----------------------------------------------------------------------------
(* The inductive invariant.                                                *)

\* The cardinalities below are of finite sets, hence natural numbers.
LEMMA Counts ==
    ASSUME TypeOK, NEW n
    PROVE  /\ Cardinality(SlotsOf(n)) \in Nat
           /\ Cardinality(RentedSlots(n)) \in Nat
           /\ Cardinality(ActiveRenters(n)) \in Nat
BY SlotFacts, RenterFacts, FS_CardinalityType

LEMMA InitInv == Init => CopiesInv
<1> SUFFICES ASSUME Init PROVE CopiesInv
  OBVIOUS
<1>1. TypeOK
  BY DEF Init, TypeOK, Rental, NoRental
<1>2. \A n : SlotsOf(n) = {} /\ RentedSlots(n) = {} /\ ActiveRenters(n) = {}
  BY DEF Init, Slots, SlotsOf, RentedSlots, ActiveRenters, NoRental
<1> QED
  BY <1>1, <1>2, FS_EmptySet
     DEF CopiesInv, NoOversubscription, SingleCopyExact, FirstCopyKept

LEMMA StoreKeepsInv ==
    ASSUME CopiesInv, NEW n \in NftIds, Store(n)
    PROVE  CopiesInv'
<1>1. TypeOK /\ NoOversubscription /\ SingleCopyExact /\ FirstCopyKept
  BY DEF CopiesInv
<1>2. PICK i \in Nat : i \notin Slots /\ SlotsOf(n)' = SlotsOf(n) \cup {i}
  BY <1>1, StoreEffect
<1>3. /\ TypeOK'
      /\ \A m : RentedSlots(m)' = RentedSlots(m) /\ ActiveRenters(m)' = ActiveRenters(m)
      /\ \A m : m # n => SlotsOf(m)' = SlotsOf(m)
  BY <1>1, StoreEffect
<1>4. NoOversubscription'
  BY <1>1, <1>3 DEF NoOversubscription
<1>5. SingleCopyExact'
  <2>1. SUFFICES ASSUME Cardinality(SlotsOf(n)') = 1
                 PROVE  Cardinality(ActiveRenters(n)) = Cardinality(RentedSlots(n))
    BY <1>1, <1>3 DEF SingleCopyExact
  <2>2. i \notin SlotsOf(n) /\ IsFiniteSet(SlotsOf(n))
    BY <1>1, <1>2, SlotFacts
  <2>3. Cardinality(SlotsOf(n)) = 0
    <3>1. Cardinality(SlotsOf(n) \cup {i}) = Cardinality(SlotsOf(n)) + 1
      BY <2>2, FS_AddElement
    <3> QED
      BY <1>1, <1>2, <2>1, <3>1, Counts
  <2>4. RentedSlots(n) = {}
    BY <1>1, <2>2, <2>3, SlotFacts, FS_EmptySet
  <2>5. Cardinality(RentedSlots(n)) = 0
    BY <2>4, FS_EmptySet
  <2> QED
    BY <1>1, <2>5, Counts DEF NoOversubscription
<1>6. FirstCopyKept'
  <2> SUFFICES ASSUME NEW m \in NftIds, ActiveRenters(m)' = {},
                      NEW j \in SlotsOf(m)', IsFirst(j, SlotsOf(m)')
               PROVE  j \notin RentedSlots(m)
    BY <1>3 DEF FirstCopyKept, FreeSlots, IsFirst
  <2>1. CASE j \in SlotsOf(m)
    <3>1. SlotsOf(m) \subseteq SlotsOf(m)'
      BY <1>2, <1>3
    <3>2. IsFirst(j, SlotsOf(m))
      BY <2>1, <3>1 DEF IsFirst
    <3> QED
      BY <1>1, <1>3, <2>1, <3>2 DEF FirstCopyKept, FreeSlots
  <2>2. CASE j \notin SlotsOf(m)
    BY <2>2 DEF RentedSlots
  <2> QED
    BY <2>1, <2>2
<1> QED
  BY <1>3, <1>4, <1>5, <1>6 DEF CopiesInv

LEMMA RentKeepsInv ==
    ASSUME CopiesInv, NEW u \in Users, NEW n \in NftIds, RentNft(u, n)
    PROVE  CopiesInv'
<1>1. TypeOK /\ NoOversubscription /\ SingleCopyExact /\ FirstCopyKept
  BY DEF CopiesInv
<1>2. PICK i \in FreeSlots(n) : RentedSlots(n)' = RentedSlots(n) \cup {i}
  BY <1>1, RentEffect
<1>3. /\ TypeOK'
      /\ \A m : SlotsOf(m)' = SlotsOf(m)
      /\ u \notin ActiveRenters(n) /\ ActiveRenters(n)' = ActiveRenters(n) \cup {u}
      /\ \A m : m # n => /\ RentedSlots(m)' = RentedSlots(m)
                         /\ ActiveRenters(m)' = ActiveRenters(m)
  BY <1>1, RentEffect
<1>4. /\ Cardinality(RentedSlots(n)') = Cardinality(RentedSlots(n)) + 1
      /\ Cardinality(ActiveRenters(n)') = Cardinality(ActiveRenters(n)) + 1
  <2>1. i \notin RentedSlots(n) /\ IsFiniteSet(RentedSlots(n))
    BY <1>1, SlotFacts DEF FreeSlots
  <2>2. Cardinality(RentedSlots(n) \cup {i}) = Cardinality(RentedSlots(n)) + 1
    BY <2>1, FS_AddElement
  <2>3. Cardinality(ActiveRenters(n) \cup {u}) = Cardinality(ActiveRenters(n)) + 1
    BY <1>3, RenterFacts, FS_AddElement
  <2> QED
    BY <1>2, <1>3, <2>2, <2>3
<1>5. NoOversubscription'
  <2>1. ASSUME NEW m \in NftIds
        PROVE  Cardinality(ActiveRenters(m)') <= Cardinality(RentedSlots(m)')
    <3>1. Cardinality(ActiveRenters(m)) <= Cardinality(RentedSlots(m))
      BY <1>1 DEF NoOversubscription
    <3>2. CASE m = n
      BY <1>1, <1>4, <3>1, <3>2, Counts
    <3>3. CASE m # n
      BY <1>3, <3>1, <3>3
    <3> QED
      BY <3>2, <3>3
  <2> QED
    BY <2>1 DEF NoOversubscription
<1>6. SingleCopyExact'
  BY <1>1, <1>3, <1>4 DEF SingleCopyExact
<1>7. FirstCopyKept'
  <2>1. ActiveRenters(n)' # {}
    BY <1>3
  <2>2. ASSUME NEW m, m # n PROVE FreeSlots(m)' = FreeSlots(m)
    BY <1>3, <2>2 DEF FreeSlots
  <2> QED
    BY <1>1, <1>3, <2>1, <2>2 DEF FirstCopyKept
<1> QED
  BY <1>3, <1>5, <1>6, <1>7 DEF CopiesInv

LEMMA EndKeepsInv ==
    ASSUME CopiesInv, NEW u \in Users, EndRental(u)
    PROVE  CopiesInv'
<1>1. TypeOK /\ NoOversubscription /\ SingleCopyExact /\ FirstCopyKept
  BY DEF CopiesInv
<1>2. PICK n : n = rentals[u].nftId
  OBVIOUS
<1>3. /\ TypeOK'
      /\ \A m : SlotsOf(m)' = SlotsOf(m)
      /\ u \in ActiveRenters(n) /\ ActiveRenters(n)' = ActiveRenters(n) \ {u}
      /\ SlotsOf(n) # {} =>
           \E i \in SlotsOf(n) : /\ IsFirst(i, SlotsOf(n))
                                 /\ RentedSlots(n)' = RentedSlots(n) \ {i}
      /\ \A m : m # n => /\ RentedSlots(m)' = RentedSlots(m)
                         /\ ActiveRenters(m)' = ActiveRenters(m)
  BY <1>1, <1>2, EndEffect
<1>4. ASSUME n \in NftIds
      PROVE  \E i \in SlotsOf(n) : /\ IsFirst(i, SlotsOf(n))
                                   /\ RentedSlots(n)' = RentedSlots(n) \ {i}
  <2>1. Cardinality(ActiveRenters(n)) # 0
    BY <1>3, RenterFacts, FS_EmptySet
  <2>2. Cardinality(RentedSlots(n)) # 0
    BY <1>1, <1>4, <2>1, Counts DEF NoOversubscription
  <2>3. RentedSlots(n) # {}
    BY <2>2, FS_EmptySet
  <2> QED
    BY <1>1, <1>3, <2>3, SlotFacts
<1>5. Cardinality(ActiveRenters(n)') = Cardinality(ActiveRenters(n)) - 1
  BY <1>3, RenterFacts, FS_RemoveElement
<1>6. ASSUME n \in NftIds, NEW i \in SlotsOf(n),
             RentedSlots(n)' = RentedSlots(n) \ {i}
      PROVE  Cardinality(RentedSlots(n)') =
               IF i \in RentedSlots(n) THEN Cardinality(RentedSlots(n)) - 1
                                       ELSE Cardinality(RentedSlots(n))
  <2>1. CASE i \in RentedSlots(n)
    BY <1>1, <1>6, <2>1, SlotFacts, FS_RemoveElement
  <2>2. CASE i \notin RentedSlots(n)
    <3>1. RentedSlots(n)' = RentedSlots(n)
      BY <1>6, <2>2
    <3> QED
      BY <2>2, <3>1
  <2> QED
    BY <2>1, <2>2
<1>7. NoOversubscription'
  BY <1>1, <1>3, <1>4, <1>5, <1>6, Counts DEF NoOversubscription
<1>8. SingleCopyExact'
  <2>1. SUFFICES ASSUME n \in NftIds, Cardinality(SlotsOf(n)) = 1
                 PROVE  Cardinality(ActiveRenters(n)') = Cardinality(RentedSlots(n)')
    BY <1>1, <1>3 DEF SingleCopyExact
  <2>2. PICK i \in SlotsOf(n) : RentedSlots(n)' = RentedSlots(n) \ {i}
    BY <1>4, <2>1
  <2>3. Cardinality(SlotsOf(n) \ {i}) = 0 /\ IsFiniteSet(SlotsOf(n) \ {i})
    BY <1>1, <2>1, SlotFacts, FS_RemoveElement
  <2>4. SlotsOf(n) = {i}
    BY <2>3, FS_EmptySet
  <2>5. Cardinality(RentedSlots(n)) # 0
    BY <1>1, <1>3, <2>1, RenterFacts, FS_EmptySet DEF SingleCopyExact
  <2>6. i \in RentedSlots(n)
    BY <1>1, <2>4, <2>5, SlotFacts, FS_EmptySet
  <2> QED
    BY <1>1, <1>5, <1>6, <2>1, <2>2, <2>6 DEF SingleCopyExact
<1>9. FirstCopyKept'
  <2>1. ASSUME NEW m \in NftIds, m # n, ActiveRenters(m)' = {},
               NEW j \in SlotsOf(m)', IsFirst(j, SlotsOf(m))'
        PROVE  j \in FreeSlots(m)'
    BY <1>1, <1>3, <2>1 DEF FirstCopyKept, FreeSlots, IsFirst
  <2>2. ASSUME n \in NftIds, NEW j \in SlotsOf(n)', IsFirst(j, SlotsOf(n))'
        PROVE  j \in FreeSlots(n)'
    <3>1. PICK i \in SlotsOf(n) : /\ IsFirst(i, SlotsOf(n))
                                  /\ RentedSlots(n)' = RentedSlots(n) \ {i}
      BY <1>4, <2>2
    <3>2. i = j
      BY <1>1, <1>3, <2>2, <3>1, SlotFacts DEF IsFirst
    <3> QED
      BY <1>3, <2>2, <3>1, <3>2 DEF FreeSlots
  <2> QED
    BY <2>1, <2>2 DEF FirstCopyKept
<1> QED
  BY <1>3, <1>7, <1>8, <1>9 DEF CopiesInv

LEMMA QuietKeepsInv ==
    ASSUME CopiesInv,
           Tick \/ (\E u \in Users : RevertedCall(u)) \/ UNCHANGED contractVars
    PROVE  CopiesInv'
<1>1. TypeOK /\ NoOversubscription /\ SingleCopyExact /\ FirstCopyKept
  BY DEF CopiesInv
<1>2. /\ TypeOK'
      /\ \A m : /\ SlotsOf(m)' = SlotsOf(m)
                /\ RentedSlots(m)' = RentedSlots(m)
                /\ ActiveRenters(m)' = ActiveRenters(m)
  BY <1>1, QuietEffect
<1>3. NoOversubscription' /\ SingleCopyExact'
  BY <1>1, <1>2 DEF NoOversubscription, SingleCopyExact
<1>4. FirstCopyKept'
  BY <1>1, <1>2 DEF FirstCopyKept, FreeSlots, IsFirst
<1> QED
  BY <1>2, <1>3, <1>4 DEF CopiesInv

LEMMA NextKeepsInv == CopiesInv /\ [Next]_contractVars => CopiesInv'
BY StoreKeepsInv, RentKeepsInv, EndKeepsInv, QuietKeepsInv DEF Next

\* Every state the contract can reach satisfies the inductive invariant.
THEOREM Invariant == Spec => []CopiesInv
BY InitInv, NextKeepsInv, PTL DEF Spec

\* Array, records and clock keep their types, and no rental starts in the future.
THEOREM TypeCorrect == Spec => []TypeOK
BY Invariant, PTL DEF CopiesInv

\* An id is never rented to more users than it has copies marked as rented.
THEOREM NeverOversubscribed == Spec => []NoOversubscription
BY Invariant, PTL DEF CopiesInv

\* The flag of an id stored once says exactly whether somebody rents it.
THEOREM SingleCopyIsExact == Spec => []SingleCopyExact
BY Invariant, PTL DEF CopiesInv

\* An id that nobody rents can be rented, whatever copies endRental has lost.
THEOREM IdleIsRentable == Spec => []IdleNftIsRentable
<1>1. CopiesInv => IdleNftIsRentable
  <2> SUFFICES ASSUME CopiesInv, NEW n \in NftIds,
                      SlotsOf(n) # {}, ActiveRenters(n) = {}
               PROVE  FreeSlots(n) # {}
    BY DEF IdleNftIsRentable
  <2>1. PICK i \in SlotsOf(n) : IsFirst(i, SlotsOf(n))
    BY SlotFacts, FirstExists DEF CopiesInv
  <2> QED
    BY <2>1 DEF CopiesInv, FirstCopyKept
<1> QED
  BY <1>1, Invariant, PTL

----------------------------------------------------------------------------
(* getAvailableNfts: a pass that counts, and one that fills.               *)

\* One pass over a row of flags and ids writes the ids of those that are free, in
\* order, into a list that is long enough.
FreeUpTo(slots, k) == {i \in 1 .. k : ~slots[i].isRented}

Filled(slots, size, p, k) ==
    IF k = 0 THEN [idx |-> 0, result |-> [j \in 1 .. size |-> 0]]
    ELSE IF slots[k].isRented THEN p
    ELSE [idx |-> p.idx + 1, result |-> [p.result EXCEPT ![p.idx + 1] = slots[k].id]]

Fills(slots, size, pass) ==
    pass = [k \in 0 .. Len(slots) |-> Filled(slots, size, pass[k - 1], k)]

LEMMA PassFills ==
    FillPass = (CHOOSE pass : Fills(availableNfts, CountAvailable, pass))[Len(availableNfts)]
BY Zenon DEF FillPass, Fills, Filled

LEMMA PassExists ==
    ASSUME NEW slots, Len(slots) \in Nat, NEW size
    PROVE  \E pass : Fills(slots, size, pass)
<1> DEFINE Upto(m, f) == f = [k \in 0 .. m |-> Filled(slots, size, f[k - 1], k)]
           None == {m \in Nat : ~ \E f : Upto(m, f)}
<1>1. None = {}
  <2>1. None \in SUBSET Nat
    OBVIOUS
  <2> SUFFICES ASSUME None # {} PROVE FALSE
    OBVIOUS
  <2> HIDE DEF None
  <2>2. PICK m \in None : \A j \in None : m <= j
    BY <2>1, FirstExists DEF IsFirst
  <2>3. m # 0
    <3> DEFINE first == [idx |-> 0, result |-> [j \in 1 .. size |-> 0]]
    <3>1. \A k \in 0 .. 0 : \A p : Filled(slots, size, p, k) = first
      BY DEF Filled
    <3> HIDE DEF first
    <3>2. Upto(0, [k \in 0 .. 0 |-> first])
      BY <3>1
    <3> QED
      BY <3>2 DEF None
  <2>4. m \in Nat /\ m - 1 \in Nat /\ m - 1 \notin None
    <3>1. m \in Nat /\ m - 1 \in Nat /\ ~(m <= m - 1)
      BY <2>1, <2>2, <2>3
    <3> QED
      BY <2>2, <3>1
  <2>5. PICK f : Upto(m - 1, f)
    BY <2>4 DEF None
  <2> DEFINE g == [k \in 0 .. m |-> Filled(slots, size, f[k - 1], k)]
  <2>6. ASSUME NEW k \in 0 .. m
        PROVE  Filled(slots, size, f[k - 1], k) = Filled(slots, size, g[k - 1], k)
    <3>1. CASE k = 0
      BY <3>1 DEF Filled
    <3>2. CASE k # 0
      <4>1. k - 1 \in 0 .. m - 1 /\ k - 1 \in 0 .. m
        BY <2>4, <3>2
      <4>2. g[k - 1] = f[k - 1]
        BY <2>5, <4>1
      <4> QED
        BY <4>2
    <3> QED
      BY <3>1, <3>2
  <2>7. Upto(m, g)
    BY <2>6
  <2> QED
    BY <2>2, <2>7 DEF None
<1> QED
  BY <1>1 DEF Fills

\* How far the pass has come with the free slots, and with those of each id.
Written(slots, n, p, k) ==
    Cardinality({j \in 1 .. p.idx : p.result[j] = n})
        = Cardinality({i \in FreeUpTo(slots, k) : slots[i].id = n})

PassFine(slots, size, p, k) ==
    /\ p.idx = Cardinality(FreeUpTo(slots, k))
    /\ p.result \in [1 .. size -> NftIds \cup {0}]
    /\ \A j \in 1 .. p.idx : p.result[j] \in NftIds
    /\ \A n \in NftIds : Written(slots, n, p, k)

LEMMA FreeFacts ==
    ASSUME NEW slots, NEW k \in Nat
    PROVE  /\ IsFiniteSet(FreeUpTo(slots, k)) /\ Cardinality(FreeUpTo(slots, k)) \in Nat
           /\ \A n : IsFiniteSet({i \in FreeUpTo(slots, k) : slots[i].id = n})
<1>1. IsFiniteSet(1 .. k)
  BY FS_Interval
<1>2. IsFiniteSet(FreeUpTo(slots, k))
  BY <1>1, FS_Subset DEF FreeUpTo
<1>3. ASSUME NEW n PROVE IsFiniteSet({i \in FreeUpTo(slots, k) : slots[i].id = n})
  BY <1>2, FS_Subset
<1> QED
  BY <1>2, <1>3, FS_CardinalityType

LEMMA PassStaysFine ==
    ASSUME NEW slots \in Seq(NFT), NEW k \in 1 .. Len(slots), NEW p,
           NEW size, size = Cardinality(FreeUpTo(slots, Len(slots))),
           PassFine(slots, size, p, k - 1)
    PROVE  PassFine(slots, size, Filled(slots, size, p, k), k)
<1>1. k \in Nat /\ k - 1 \in Nat /\ Len(slots) \in Nat /\ slots[k] \in NFT
  OBVIOUS
<1>2. /\ IsFiniteSet(FreeUpTo(slots, k - 1)) /\ Cardinality(FreeUpTo(slots, k - 1)) \in Nat
      /\ IsFiniteSet(FreeUpTo(slots, k)) /\ Cardinality(FreeUpTo(slots, k)) \in Nat
      /\ IsFiniteSet(FreeUpTo(slots, Len(slots))) /\ size \in Nat
  BY <1>1, FreeFacts
<1>3. CASE slots[k].isRented
  <2>1. Filled(slots, size, p, k) = p
    BY <1>3 DEF Filled
  <2>2. FreeUpTo(slots, k) = FreeUpTo(slots, k - 1)
    BY <1>1, <1>3 DEF FreeUpTo
  <2> QED
    BY <2>1, <2>2 DEF PassFine, Written
<1>4. CASE ~slots[k].isRented
  <2> DEFINE c == p.idx
             id == slots[k].id
             q == Filled(slots, size, p, k)
  <2>1. q = [idx |-> c + 1, result |-> [p.result EXCEPT ![c + 1] = id]]
    BY <1>4 DEF Filled
  <2>2. FreeUpTo(slots, k) = FreeUpTo(slots, k - 1) \cup {k} /\ k \notin FreeUpTo(slots, k - 1)
    BY <1>1, <1>4 DEF FreeUpTo
  <2>3. Cardinality(FreeUpTo(slots, k)) = c + 1 /\ c \in Nat
    BY <1>2, <2>2, FS_AddElement DEF PassFine
  <2>4. c + 1 \in 1 .. size
    <3>1. FreeUpTo(slots, k) \subseteq FreeUpTo(slots, Len(slots))
      BY <1>1 DEF FreeUpTo
    <3>2. Cardinality(FreeUpTo(slots, k)) <= size
      BY <1>2, <3>1, FS_Subset
    <3> QED
      BY <1>2, <2>3, <3>2
  <2>5. id \in NftIds /\ p.result \in [1 .. size -> NftIds \cup {0}]
    BY <1>1 DEF NFT, PassFine
  <2>6. q.idx = c + 1 /\ q.result = [p.result EXCEPT ![c + 1] = id]
    BY <2>1
  <2> HIDE DEF q, c, id
  <2>7. q.result \in [1 .. size -> NftIds \cup {0}]
    BY <2>4, <2>5, <2>6
  <2>8. ASSUME NEW n \in NftIds PROVE Written(slots, n, q, k)
    <3> DEFINE V == {j \in 1 .. c : p.result[j] = n}
               W == {j \in 1 .. c + 1 : q.result[j] = n}
               F == {i \in FreeUpTo(slots, k - 1) : slots[i].id = n}
               G == {i \in FreeUpTo(slots, k) : slots[i].id = n}
    <3>1. Cardinality(V) = Cardinality(F)
      BY DEF PassFine, Written, c
    <3>2. IsFiniteSet(V) /\ IsFiniteSet(F)
      <4>1. IsFiniteSet(1 .. c)
        BY <2>3, FS_Interval
      <4> QED
        BY <1>1, <4>1, FS_Subset, FreeFacts
    <3>3. \A j \in 1 .. c : j \in 1 .. size /\ q.result[j] = p.result[j]
      BY <1>2, <2>3, <2>4, <2>5, <2>6
    <3>4. q.result[c + 1] = id
      BY <2>4, <2>5, <2>6
    <3>5. CASE id = n
      <4>1. W = V \cup {c + 1} /\ c + 1 \notin V
        BY <2>3, <3>3, <3>4, <3>5
      <4>2. G = F \cup {k} /\ k \notin F
        BY <2>2, <3>5 DEF id
      <4>3. Cardinality(W) = Cardinality(V) + 1 /\ Cardinality(G) = Cardinality(F) + 1
        <5> HIDE DEF V, W, F, G
        <5> QED
          BY <3>2, <4>1, <4>2, FS_AddElement
      <4> QED
        BY <2>6, <3>1, <4>3 DEF Written
    <3>6. CASE id # n
      <4>1. W = V
        BY <2>3, <3>3, <3>4, <3>6
      <4>2. G = F
        BY <2>2, <3>6 DEF id
      <4> QED
        BY <2>6, <3>1, <4>1, <4>2 DEF Written
    <3> QED
      BY <3>5, <3>6
  <2>9. ASSUME NEW j \in 1 .. c + 1 PROVE q.result[j] \in NftIds
    <3>1. CASE j = c + 1
      BY <2>4, <2>5, <2>6, <3>1
    <3>2. CASE j # c + 1
      <4>1. j \in 1 .. c
        BY <2>3, <3>2
      <4>2. p.result[j] \in NftIds
        BY <4>1 DEF PassFine, c
      <4> QED
        BY <2>3, <2>4, <2>5, <2>6, <3>2, <4>1, <4>2
    <3> QED
      BY <3>1, <3>2
  <2> QED
    BY <2>3, <2>6, <2>7, <2>8, <2>9 DEF PassFine, q
<1> QED
  BY <1>3, <1>4

LEMMA PassIsFine ==
    ASSUME NEW slots \in Seq(NFT), NEW pass,
           NEW size, size = Cardinality(FreeUpTo(slots, Len(slots))),
           Fills(slots, size, pass)
    PROVE  PassFine(slots, size, pass[Len(slots)], Len(slots))
<1> DEFINE Bad == {k \in 0 .. Len(slots) : ~PassFine(slots, size, pass[k], k)}
<1>1. Bad \in SUBSET Nat
  OBVIOUS
<1> SUFFICES ASSUME Bad # {} PROVE FALSE
  OBVIOUS
<1> HIDE DEF Bad
<1>2. PICK k \in Bad : \A j \in Bad : k <= j
  BY <1>1, FirstExists DEF IsFirst
<1>3. k \in 0 .. Len(slots) /\ ~PassFine(slots, size, pass[k], k) /\ Len(slots) \in Nat
  BY DEF Bad
<1>4. pass[k] = Filled(slots, size, pass[k - 1], k)
  BY <1>3 DEF Fills
<1>5. CASE k = 0
  <2> DEFINE p == [idx |-> 0, result |-> [j \in 1 .. size |-> 0]]
  <2>1. pass[k] = p
    BY <1>4, <1>5 DEF Filled
  <2>2. FreeUpTo(slots, 0) = {} /\ \A n : {i \in {} : slots[i].id = n} = {}
    BY DEF FreeUpTo
  <2>3. p.idx = 0 /\ p.result = [j \in 1 .. size |-> 0]
    OBVIOUS
  <2> HIDE DEF p
  <2>4. \A n : {j \in 1 .. p.idx : p.result[j] = n} = {}
    BY <2>3
  <2>5. p.result \in [1 .. size -> NftIds \cup {0}]
    BY <2>3
  <2>6. Cardinality({}) = 0
    BY FS_EmptySet
  <2>7. \A n \in NftIds : Written(slots, n, p, 0)
    BY <2>2, <2>4 DEF Written
  <2>8. PassFine(slots, size, p, 0)
    <3>1. \A j \in 1 .. p.idx : FALSE
      BY <2>3
    <3>2. p.idx = Cardinality(FreeUpTo(slots, 0))
      BY <2>2, <2>3, <2>6
    <3> QED
      BY <2>5, <2>7, <3>1, <3>2 DEF PassFine
  <2> QED
    BY <1>3, <1>5, <2>1, <2>8
<1>6. CASE k # 0
  <2>1. k \in 1 .. Len(slots) /\ k - 1 \in 0 .. Len(slots) /\ ~(k <= k - 1)
    BY <1>3, <1>6
  <2>2. PassFine(slots, size, pass[k - 1], k - 1)
    BY <1>2, <2>1 DEF Bad
  <2> QED
    BY <1>3, <1>4, <2>1, <2>2, PassStaysFine
<1> QED
  BY <1>5, <1>6

\* What the view returns: as many entries as its second pass has written, each an id.
LEMMA OffersFacts ==
    ASSUME TypeOK
    PROVE  OffersMatchFreeCopies /\ GetAvailableNfts \in Seq(NftIds)
<1> DEFINE L == Len(availableNfts)
           C == CountAvailable
<1>1. availableNfts \in Seq(NFT) /\ L \in Nat /\ Slots = 1 .. L
  BY DEF TypeOK, Slots
<1>2. C = Cardinality(FreeUpTo(availableNfts, L)) /\ C \in Nat
  BY <1>1, FreeFacts DEF CountAvailable, FreeUpTo
<1>3. PICK pass : Fills(availableNfts, C, pass) /\ FillPass = pass[L]
  <2> HIDE DEF C, L
  <2>1. \E pass : Fills(availableNfts, C, pass)
    BY <1>1, PassExists DEF L
  <2> QED
    BY <2>1, PassFills DEF L, C
<1> HIDE DEF C
<1>4. PassFine(availableNfts, C, FillPass, L)
  BY <1>1, <1>2, <1>3, PassIsFine
<1>5. /\ GetAvailableNfts = FillPass.result /\ FillPass.idx = C
      /\ GetAvailableNfts \in [1 .. C -> NftIds \cup {0}]
  BY <1>2, <1>4 DEF PassFine, GetAvailableNfts
<1>6. DOMAIN GetAvailableNfts = 1 .. C /\ Len(GetAvailableNfts) = C
  BY <1>2, <1>5
<1>7. ASSUME NEW n \in NftIds
      PROVE  Cardinality({k \in DOMAIN GetAvailableNfts : GetAvailableNfts[k] = n})
                = Cardinality(FreeSlots(n))
  <2>1. FreeSlots(n) = {i \in FreeUpTo(availableNfts, L) : availableNfts[i].id = n}
    BY <1>1 DEF FreeSlots, SlotsOf, RentedSlots, FreeUpTo
  <2> QED
    BY <1>4, <1>5, <1>6, <2>1 DEF PassFine, Written
<1>8. GetAvailableNfts \in Seq(NftIds)
  <2>1. \A k \in 1 .. C : GetAvailableNfts[k] \in NftIds
    BY <1>4, <1>5 DEF PassFine
  <2> QED
    BY <1>2, <1>5, <2>1
<1> QED
  BY <1>5, <1>6, <1>7, <1>8 DEF OffersMatchFreeCopies

\* getAvailableNfts lists every id as often as it has free copies, and leaves none of
\* its entries unwritten: its two passes agree on how many copies are free.
THEOREM OffersAreFreeCopies == Spec => []OffersMatchFreeCopies
BY OffersFacts, TypeCorrect, PTL

----------------------------------------------------------------------------
(* The action properties.                                                  *)

\* Access begins only with a rent call by a user who was not renting.
THEOREM AccessBeginsWithRent == Spec => AccessOnlyByRent
<1> USE DEF CheckAccess, GetUserNfts, GetUserStartTime, TimeIsUp
<1>1. ASSUME TypeOK, [Next]_contractVars PROVE [AccessStep]_contractVars
  <2> SUFFICES ASSUME NEW u \in Users, CheckAccess(u)' \notin {0, CheckAccess(u)}
               PROVE  /\ ~rentals[u].active /\ rentals'[u].active
                      /\ GetUserNfts(u)' = CheckAccess(u)'
                      /\ GetUserStartTime(u)' = now
    BY DEF AccessStep
  <2>1. ASSUME NEW n \in NftIds, Store(n) PROVE FALSE
    BY <2>1 DEF Store
  <2>2. ASSUME NEW v \in Users, NEW n \in NftIds, RentNft(v, n)
        PROVE  /\ ~rentals[u].active /\ rentals'[u].active
               /\ GetUserNfts(u)' = CheckAccess(u)'
               /\ GetUserStartTime(u)' = now
    <3>1. CASE v = u
      BY <1>1, <2>2, <3>1 DEF RentNft, CanRent, TypeOK
    <3>2. CASE v # u
      BY <1>1, <2>2, <3>2 DEF RentNft, TypeOK
    <3> QED
      BY <3>1, <3>2
  <2>3. ASSUME NEW v \in Users, EndRental(v) PROVE FALSE
    BY <1>1, <2>3 DEF EndRental, TypeOK, Rental
  <2>4. ASSUME Tick PROVE FALSE
    <3>1. rentals[u].startTime \in Int /\ now \in Int
      BY <1>1 DEF TypeOK, Rental
    <3> QED
      BY <2>4, <3>1 DEF Tick, TypeOK
  <2>5. ASSUME UNCHANGED contractVars PROVE FALSE
    BY <2>5 DEF contractVars
  <2>6. ASSUME NEW v \in Users, RevertedCall(v) PROVE FALSE
    BY <2>5, <2>6 DEF RevertedCall
  <2> QED
    BY <1>1, <2>1, <2>2, <2>3, <2>4, <2>5, <2>6 DEF Next
<1> QED
  BY <1>1, TypeCorrect, PTL DEF Spec, AccessOnlyByRent

\* Only a renter's endRental frees a copy, and only one of the id it rents.
THEOREM SlotsAreReleasedByRenters == Spec => SlotReleasedOnlyByItsRenter
<1>1. ASSUME TypeOK, [Next]_contractVars PROVE [SlotStep]_contractVars
  <2> SUFFICES ASSUME NEW i \in Slots
               PROVE  /\ i \in Slots' /\ availableNfts'[i].id = availableNfts[i].id
                      /\ availableNfts[i].isRented /\ ~availableNfts'[i].isRented =>
                            \E u \in ActiveRenters(availableNfts[i].id) :
                                ~rentals'[u].active
    BY DEF SlotStep
  <2>1. Slots = 1 .. Len(availableNfts) /\ Len(availableNfts) \in Nat
        /\ availableNfts[i] \in NFT
    BY <1>1 DEF TypeOK, Slots
  <2>2. ASSUME NEW n \in NftIds, Store(n)
        PROVE  i \in Slots' /\ availableNfts'[i] = availableNfts[i]
    BY <1>1, <2>1, <2>2 DEF Store, Slots, TypeOK
  <2>3. ASSUME NEW u \in Users, NEW n \in NftIds, RentNft(u, n)
        PROVE  /\ i \in Slots' /\ availableNfts'[i].id = availableNfts[i].id
               /\ availableNfts[i].isRented => availableNfts'[i].isRented
    BY <2>1, <2>3 DEF RentNft, MarkFirst, Slots, NFT
  <2>4. ASSUME NEW u \in Users, EndRental(u)
        PROVE  /\ i \in Slots' /\ availableNfts'[i].id = availableNfts[i].id
               /\ availableNfts[i].isRented /\ ~availableNfts'[i].isRented =>
                    u \in ActiveRenters(availableNfts[i].id) /\ ~rentals'[u].active
    <3>1. i \in Slots' /\ availableNfts'[i].id = availableNfts[i].id
      BY <2>1, <2>4 DEF EndRental, MarkFirst, Slots, NFT
    <3>2. ASSUME availableNfts[i].isRented, ~availableNfts'[i].isRented
          PROVE  availableNfts[i].id = rentals[u].nftId
      BY <2>1, <2>4, <3>2 DEF EndRental, MarkFirst, Slots, IsFirst, SlotsOf
    <3>3. rentals[u].active /\ ~rentals'[u].active
      BY <1>1, <2>4 DEF EndRental, TypeOK, Rental
    <3> QED
      BY <3>1, <3>2, <3>3 DEF ActiveRenters
  <2>5. ASSUME UNCHANGED <<availableNfts, rentals>>
        PROVE  i \in Slots' /\ availableNfts'[i] = availableNfts[i]
    BY <2>5 DEF Slots
  <2> QED
    BY <1>1, <2>2, <2>3, <2>4, <2>5 DEF Next, RevertedCall, Tick, contractVars
<1> QED
  BY <1>1, TypeCorrect, PTL DEF Spec, SlotReleasedOnlyByItsRenter

----------------------------------------------------------------------------
(* Refinement.                                                             *)

\* The mapped values change the way the actions of LicencePool change them.
LEMMA PoolHolders == \A n \in NftIds : Pool!Holders(n) = ActiveRenters(n)
<1>1. ASSUME NEW u \in Users, NEW n \in NftIds
      PROVE  (\E l \in Lease[u] : l.nft = n) <=> rentals[u].active /\ rentals[u].nftId = n
  <2>1. CASE rentals[u].active
    <3>1. Lease[u] = {[nft |-> rentals[u].nftId, since |-> rentals[u].startTime]}
      BY <2>1 DEF Lease
    <3> QED
      BY <2>1, <3>1
  <2>2. CASE ~rentals[u].active
    BY <2>2 DEF Lease
  <2> QED
    BY <2>1, <2>2
<1> QED
  BY <1>1 DEF Pool!Holders, ActiveRenters

\* INSTANCE brings its own copy of Cardinality.
LEMMA PoolCardinality == \A S : Pool!Cardinality(S) = Cardinality(S)
BY DEF Pool!Cardinality, Cardinality

LEMMA PoolStep ==
    ASSUME CopiesInv, [Next]_contractVars
    PROVE  [Pool!Next]_<<Stock, Lease, now>>
<1>1. TypeOK
  BY DEF CopiesInv
<1>2. ASSUME NEW n \in NftIds, Store(n)
      PROVE  Pool!AddCopy(n)
  <2>1. PICK i \in Nat : i \notin Slots /\ SlotsOf(n)' = SlotsOf(n) \cup {i}
    BY <1>1, <1>2, StoreEffect
  <2>2. i \notin SlotsOf(n) /\ IsFiniteSet(SlotsOf(n))
    BY <1>1, <2>1, SlotFacts
  <2>3. Cardinality(SlotsOf(n)') = Cardinality(SlotsOf(n)) + 1
    BY <2>1, <2>2, FS_AddElement
  <2>4. \A m : m # n => SlotsOf(m)' = SlotsOf(m)
    BY <1>1, <1>2, StoreEffect
  <2>5. Stock' = [Stock EXCEPT ![n] = @ + 1]
    BY <2>3, <2>4 DEF Stock
  <2>6. Lease' = Lease /\ now' = now
    BY <1>2 DEF Store, Lease
  <2> QED
    BY <2>5, <2>6 DEF Pool!AddCopy
<1>3. ASSUME NEW u \in Users, NEW n \in NftIds, RentNft(u, n)
      PROVE  Pool!Grant(u, n)
  <2>1. Lease[u] = {}
    BY <1>3 DEF Lease, RentNft, CanRent
  <2>2. Cardinality(ActiveRenters(n)) < Cardinality(SlotsOf(n))
    <3>1. PICK i \in FreeSlots(n) : TRUE
      BY <1>3 DEF RentNft, CanRent
    <3>2. i \notin RentedSlots(n) /\ RentedSlots(n) \cup {i} \subseteq SlotsOf(n)
      BY <1>1, SlotFacts DEF FreeSlots
    <3>3. Cardinality(RentedSlots(n) \cup {i}) = Cardinality(RentedSlots(n)) + 1
      BY <1>1, <3>2, SlotFacts, FS_AddElement
    <3>4. Cardinality(RentedSlots(n) \cup {i}) <= Cardinality(SlotsOf(n))
      BY <1>1, <3>2, SlotFacts, FS_Subset
    <3>5. Cardinality(ActiveRenters(n)) <= Cardinality(RentedSlots(n))
      BY DEF CopiesInv, NoOversubscription
    <3> QED
      BY <1>1, <3>3, <3>4, <3>5, Counts
  <2>3. Lease' = [Lease EXCEPT ![u] = {[nft |-> n, since |-> now]}]
    BY <1>1, <1>3 DEF Lease, RentNft, TypeOK
  <2>4. \A m : SlotsOf(m)' = SlotsOf(m)
    BY <1>1, <1>3, RentEffect
  <2>5. Stock' = Stock /\ now' = now
    BY <1>3, <2>4 DEF Stock, RentNft
  <2>6. Pool!Cardinality(Pool!Holders(n)) < Stock[n]
    BY <2>2, PoolHolders, PoolCardinality DEF Stock
  <2> QED
    BY <2>1, <2>3, <2>5, <2>6 DEF Pool!Grant
<1>4. ASSUME NEW u \in Users, EndRental(u)
      PROVE  Pool!Return(u)
  <2>1. Lease[u] # {}
    BY <1>4 DEF Lease, EndRental
  <2>2. Lease' = [Lease EXCEPT ![u] = {}]
    BY <1>1, <1>4 DEF Lease, EndRental, TypeOK, Rental
  <2>3. \A m : SlotsOf(m)' = SlotsOf(m)
    BY <1>1, <1>4, EndEffect
  <2>4. Stock' = Stock /\ now' = now
    BY <1>4, <2>3 DEF Stock, EndRental
  <2> QED
    BY <2>1, <2>2, <2>4 DEF Pool!Return
<1>5. ASSUME Tick
      PROVE  Pool!Advance
  BY <1>5 DEF Tick, Stock, Lease, SlotsOf, Slots, Pool!Advance
<1>6. ASSUME UNCHANGED contractVars
      PROVE  UNCHANGED <<Stock, Lease, now>>
  BY <1>6 DEF contractVars, Stock, Lease, SlotsOf, Slots
<1> QED
  BY <1>2, <1>3, <1>4, <1>5, <1>6 DEF Next, RevertedCall, Pool!Next

\* The contract is a pool of copies: one lease per user, no more leases on an id
\* than copies of it, whatever the loops do with the flags.
THEOREM ContractImplementsPool == Spec => ImplementsPool
<1>1. Init => Pool!Init
  <2> SUFFICES ASSUME Init PROVE Pool!Init
    OBVIOUS
  <2>1. \A n : SlotsOf(n) = {}
    BY DEF Init, SlotsOf, Slots
  <2>2. Stock = [n \in NftIds |-> 0]
    BY <2>1, FS_EmptySet DEF Stock
  <2>3. Lease = [u \in Users |-> {}]
    BY DEF Init, Lease, NoRental
  <2> QED
    BY <2>2, <2>3 DEF Init, Pool!Init
<1>2. CopiesInv /\ [Next]_contractVars => [Pool!Next]_Pool!poolVars
  BY PoolStep DEF Pool!poolVars
<1> QED
  BY <1>1, <1>2, Invariant, PTL DEF Spec, ImplementsPool, Pool!Spec

\* On its records the contract behaves like the one it replaced.
THEOREM ContractImplementsLightRental == Spec => ImplementsLightRental
<1>1. Init => Light!Init
  BY DEF Init, Light!Init, LightRentals, NoRental, Light!NoRental
<1>2. TypeOK /\ [Next]_contractVars => [Light!Next]_Light!lightVars
  <2> SUFFICES ASSUME TypeOK, [Next]_contractVars
               PROVE  [Light!Next]_<<LightRentals, now>>
    BY DEF Light!lightVars
  <2>1. ASSUME UNCHANGED <<rentals, now>>
        PROVE  UNCHANGED <<LightRentals, now>>
    BY <2>1 DEF LightRentals
  <2>2. ASSUME NEW u \in Users, NEW n \in NftIds, RentNft(u, n)
        PROVE  Light!RentGame(u, n)
    BY <2>2 DEF RentNft, CanRent, LightRentals, TypeOK, Light!RentGame
  <2>3. ASSUME NEW u \in Users, EndRental(u)
        PROVE  Light!EndRental(u)
    BY <2>3 DEF EndRental, LightRentals, TypeOK, Rental, Light!EndRental
  <2>4. ASSUME Tick
        PROVE  Light!Tick
    BY <2>4 DEF Tick, LightRentals, Light!Tick
  <2> QED
    BY <2>1, <2>2, <2>3, <2>4 DEF Next, Store, RevertedCall, contractVars, Light!Next
<1> QED
  BY <1>1, <1>2, TypeCorrect, PTL DEF Spec, ImplementsLightRental, Light!Spec
============================================================================
