-------------------------- MODULE RentalDAppProofs --------------------------
(***************************************************************************)
(* What the page and the wallets do to the contract is what the contract   *)
(* allows, so that its theorems hold behind any number of tabs; what tabs  *)
(* record and list is what the contract granted and offered.               *)
(***************************************************************************)
EXTENDS RentalDApp, RentalContractProofs

USE NoUserAssumption, RequestsAssumption

----------------------------------------------------------------------------
(* Requests.                                                               *)

LEMMA RequestPhases ==
    /\ Idle \notin Request
    /\ \A q \in Request, p \in {"prompt", "pending", "mined", "reverted"} :
          [q EXCEPT !.phase = p] \in Request
    /\ \A q \in Request : [q EXCEPT !.waiting = FALSE] \in Request
BY DEF Request, Idle

\* Handlers capture an account and an id that exist, and nothing changes them.
LEMMA RequestTyping == DAppSpec => []RequestsOK
<1>1. DAppInit => RequestsOK
  BY DEF DAppInit, RequestsOK
<1>2. ASSUME RequestsOK, [DAppNext]_dappVars PROVE RequestsOK'
  <2> USE <1>2 DEF RequestsOK
  <2>1. ASSUME NEW t \in Tabs, TabNext(t) PROVE RequestsOK'
    <3>1. CASE \E u \in Users : SelectAccount(t, u)
      BY <3>1 DEF SelectAccount
    <3>2. CASE Disconnect(t)
      BY <3>2 DEF Disconnect
    <3>3. CASE Reload(t)
      <4>1. ASSUME NEW r \in Requests, request[r] \in Request
            PROVE  [request[r] EXCEPT !.waiting = FALSE] \in Request
        BY <4>1, RequestPhases
      <4>2. ASSUME NEW r \in Requests PROVE request'[r] \in Request \cup {Idle}
        BY <3>3, <4>1 DEF Reload, GivenUp
      <4>3. account' \in [Tabs -> Users \cup {NoUser}]
        BY <3>3 DEF Reload
      <4> QED
        BY <3>3, <4>2, <4>3 DEF Reload
    <3>4. ASSUME NEW r \in Requests, NEW n \in NftIds, NEW kind \in {"mint", "rent"},
                 Send(t, r, kind, n)
          PROVE  RequestsOK'
      <4>1. account[t] \in Users
        BY <3>4 DEF Send
      <4>2. [phase |-> "prompt", kind |-> kind, tab |-> t,
             user |-> account[t], nft |-> n, waiting |-> TRUE] \in Request
        BY <4>1 DEF Request
      <4> QED
        BY <3>4, <4>2 DEF Send, tabVars
    <3>5. CASE Answer(t) \/ ReadFails(t)
      BY <3>5 DEF Answer, ReadFails, tabVars
    <3>6. CASE DeliverSome(t)
      BY <3>6 DEF DeliverSome, Deliver
    <3> QED
      BY <2>1, <3>1, <3>2, <3>3, <3>4, <3>5, <3>6 DEF TabNext, ClickMint, ClickRent
  <2>2. ASSUME NEW r \in Requests, RequestNext(r) PROVE RequestsOK'
    <3>1. CASE Confirm(r) \/ SendTimeout(r)
      <4>1. request[r] \in Request
        BY <3>1, RequestPhases DEF Confirm, SendTimeout, InPhase
      <4> QED
        BY <3>1, <4>1, RequestPhases DEF Confirm, SendTimeout, GivenUp, tabVars
    <3>2. CASE Mine(r)
      <4>1. request[r] \in Request
        BY <3>2, RequestPhases DEF Mine, InPhase
      <4> QED
        BY <3>2, <4>1, RequestPhases DEF Mine, tabVars
    <3>3. CASE Refuse(r) \/ RentReceipt(r) \/ MintReceipt(r) \/ RevertReceipt(r)
      BY <3>3 DEF Refuse, RentReceipt, MintReceipt, RevertReceipt, tabVars
    <3> QED
      BY <2>2, <3>1, <3>2, <3>3 DEF RequestNext
  <2>3. CASE AdvanceTime \/ UNCHANGED dappVars
    BY <2>3 DEF AdvanceTime, dappVars, tabVars
  <2> QED
    BY <1>2, <2>1, <2>2, <2>3 DEF DAppNext
<1> QED
  BY <1>1, <1>2, PTL DEF DAppSpec

----------------------------------------------------------------------------
(* The contract behind the page.                                           *)

\* A step of the page or of the chain changes the contract by a store, by a rent
\* or by the passing of time.
LEMMA ContractStep ==
    ASSUME RequestsOK, [DAppNext]_dappVars
    PROVE  \/ \E n \in NftIds : Store(n)
           \/ \E u \in Users, n \in NftIds : RentNft(u, n)
           \/ Tick
           \/ UNCHANGED contractVars
<1>1. ASSUME NEW t \in Tabs, TabNext(t)
      PROVE  UNCHANGED contractVars
  BY <1>1 DEF TabNext, SelectAccount, Disconnect, Reload, ClickMint, ClickRent,
              Send, Answer, ReadFails, DeliverSome, Deliver
<1>2. ASSUME NEW r \in Requests,
             Confirm(r) \/ Refuse(r) \/ SendTimeout(r) \/ ReceiptOf(r)
      PROVE  UNCHANGED contractVars
  BY <1>2 DEF Confirm, Refuse, SendTimeout, ReceiptOf, RentReceipt, MintReceipt,
              RevertReceipt
<1>3. ASSUME NEW r \in Requests, Mine(r)
      PROVE  \/ \E n \in NftIds : Store(n)
             \/ \E u \in Users, n \in NftIds : RentNft(u, n)
             \/ UNCHANGED contractVars
  <2>1. request[r] \in Request
    BY <1>3, RequestPhases DEF Mine, InPhase, RequestsOK
  <2>2. request[r].user \in Users /\ request[r].nft \in NftIds
    BY <2>1 DEF Request
  <2> QED
    BY <1>3, <2>2 DEF Mine
<1> QED
  BY <1>1, <1>2, <1>3 DEF DAppNext, RequestNext, ReceiptOf, AdvanceTime, dappVars

\* Every behaviour of the page, for any tabs, requests and bounds, is one of the
\* contract.
THEOREM DAppImplementsContract == DAppSpec => Spec
<1>1. DAppInit => Init
  BY DEF DAppInit
<1>2. RequestsOK /\ [DAppNext]_dappVars => [Next]_contractVars
  BY ContractStep DEF Next
<1> QED
  BY <1>1, <1>2, RequestTyping, PTL DEF DAppSpec, Spec

\* Since the page never calls endRental, flags and rentals count the same, even
\* for ids minted many times and however requests race.
THEOREM EachRentalTakesOne == DAppSpec => []EachRentalTakesOneCopy
<1>1. DAppInit => EachRentalTakesOneCopy
  <2> SUFFICES ASSUME Init, NEW n \in NftIds
               PROVE  Cardinality(RentedSlots(n)) = Cardinality(ActiveRenters(n))
    BY DEF DAppInit, EachRentalTakesOneCopy
  <2>1. RentedSlots(n) = {} /\ ActiveRenters(n) = {}
    BY DEF Init, Slots, SlotsOf, RentedSlots, ActiveRenters, NoRental
  <2> QED
    BY <2>1
<1>2. ASSUME TypeOK, RequestsOK, EachRentalTakesOneCopy, [DAppNext]_dappVars
      PROVE  EachRentalTakesOneCopy'
  <2>1. ASSUME NEW n \in NftIds, Store(n) PROVE EachRentalTakesOneCopy'
    BY <1>2, <2>1, StoreEffect DEF EachRentalTakesOneCopy
  <2>2. ASSUME NEW u \in Users, NEW n \in NftIds, RentNft(u, n)
        PROVE  EachRentalTakesOneCopy'
    <3>1. PICK i \in FreeSlots(n) : RentedSlots(n)' = RentedSlots(n) \cup {i}
      BY <1>2, <2>2, RentEffect
    <3>2. Cardinality(RentedSlots(n) \cup {i}) = Cardinality(RentedSlots(n)) + 1
      BY <1>2, SlotFacts, FS_AddElement DEF FreeSlots
    <3>3. /\ u \notin ActiveRenters(n)
          /\ ActiveRenters(n)' = ActiveRenters(n) \cup {u}
          /\ \A m : m # n => /\ RentedSlots(m)' = RentedSlots(m)
                             /\ ActiveRenters(m)' = ActiveRenters(m)
      BY <1>2, <2>2, RentEffect
    <3>4. Cardinality(ActiveRenters(n) \cup {u}) = Cardinality(ActiveRenters(n)) + 1
      BY <3>3, RenterFacts, FS_AddElement
    <3> QED
      BY <1>2, <3>1, <3>2, <3>3, <3>4 DEF EachRentalTakesOneCopy
  <2>3. CASE Tick \/ UNCHANGED contractVars
    BY <1>2, <2>3, QuietEffect DEF EachRentalTakesOneCopy
  <2> QED
    BY <1>2, <2>1, <2>2, <2>3, ContractStep
<1>3. DAppSpec => []TypeOK
  BY DAppImplementsContract, TypeCorrect, PTL
<1> QED
  BY <1>1, <1>2, <1>3, RequestTyping, PTL DEF DAppSpec

----------------------------------------------------------------------------
(* Records are backed by rentals.                                          *)

\* What tabs record, what handlers will record, and what the contract has granted,
\* of the ids of N.
Records(N) == Claims(rentedNfts, Tabs, Nat, N)

Due(N) ==
    {r \in Requests : /\ InPhase(r, "mined")
                      /\ request[r].kind = "rent" /\ request[r].nft \in N}

Renters(N) == {u \in Users : rentals[u].active /\ rentals[u].nftId \in N}

\* Records and receipts are counted together: a mined rent adds a receipt that is due
\* with its rental, and the handler turns the receipt into a record.
BackedFor(N) ==
    /\ IsFiniteSet(Records(N)) /\ IsFiniteSet(Due(N))
    /\ Cardinality(Records(N)) + Cardinality(Due(N)) <= Cardinality(Renters(N))

Backed ==
    /\ rentedNfts \in [Tabs -> Seq(Entry)]
    /\ \A N \in SUBSET NftIds : BackedFor(N)

LEMMA RentersAreFinite ==
    ASSUME NEW N
    PROVE  IsFiniteSet(Renters(N)) /\ Cardinality(Renters(N)) \in Nat
BY UsersAssumption, FS_Subset, FS_CardinalityType DEF Renters

\* With no rental ended and no claim made, what was backed stays backed.
LEMMA QuietIsBacked ==
    ASSUME Backed, rentedNfts' \in [Tabs -> Seq(Entry)],
           \A N \in SUBSET NftIds : /\ Records(N)' \subseteq Records(N)
                                    /\ Due(N)' \subseteq Due(N)
                                    /\ Renters(N)' = Renters(N)
    PROVE  Backed'
<1> SUFFICES ASSUME NEW N \in SUBSET NftIds
             PROVE  /\ IsFiniteSet(Records(N)') /\ IsFiniteSet(Due(N)')
                    /\ Cardinality(Records(N)') + Cardinality(Due(N)')
                          <= Cardinality(Renters(N)')
  BY DEF Backed, BackedFor
<1>1. /\ IsFiniteSet(Records(N)) /\ IsFiniteSet(Due(N))
      /\ Cardinality(Records(N)) + Cardinality(Due(N)) <= Cardinality(Renters(N))
      /\ Cardinality(Renters(N)) \in Nat
  BY RentersAreFinite DEF Backed, BackedFor
<1> QED
  BY <1>1, FewerElements

\* A step of one request puts no other one in claim.
LEMMA OtherReceipts ==
    ASSUME NEW r \in Requests, \A x \in Requests \ {r} : request'[x] = request[x], NEW N
    PROVE  /\ Due(N)' \subseteq Due(N) \cup {r}
           /\ ~(InPhase(r, "mined")' /\ request'[r].kind = "rent" /\ request'[r].nft \in N)
                 => Due(N)' \subseteq Due(N) \ {r}
BY DEF Due, InPhase

LEMMA BackedInitially == DAppInit => Backed
<1> SUFFICES ASSUME DAppInit PROVE Backed
  OBVIOUS
<1>1. rentedNfts = [t \in Tabs |-> <<>>]
  BY DEF DAppInit
<1>2. rentedNfts \in [Tabs -> Seq(Entry)]
  BY <1>1
<1>3. ASSUME NEW N \in SUBSET NftIds
      PROVE  Records(N) = {} /\ Due(N) = {} /\ Renters(N) = {}
  <2>1. \A t \in Tabs : DOMAIN rentedNfts[t] = {}
    BY <1>1
  <2> QED
    BY <2>1 DEF DAppInit, Init, Records, Claims, Due, Renters, InPhase, Idle, NoRental
<1>4. Cardinality({}) = 0 /\ IsFiniteSet({})
  BY FS_EmptySet
<1>5. \A N \in SUBSET NftIds :
         /\ IsFiniteSet(Records(N)) /\ IsFiniteSet(Due(N))
         /\ Cardinality(Records(N)) = 0 /\ Cardinality(Due(N)) = 0
         /\ Cardinality(Renters(N)) = 0
  BY <1>3, <1>4
<1> QED
  BY <1>2, <1>5 DEF Backed, BackedFor

\* Nothing that a tab does by itself claims a rental.
LEMMA TabKeepsBacked ==
    ASSUME TypeOK, RequestsOK, Backed, NEW t \in Tabs, TabNext(t)
    PROVE  Backed'
<1>1. \A N : Renters(N)' = Renters(N)
  BY DEF TabNext, SelectAccount, Disconnect, Reload, ClickMint, ClickRent, Send, Answer,
         ReadFails, DeliverSome, Deliver, contractVars, Renters
<1>2. CASE Reload(t)
  <2>1. rentedNfts \in [Tabs -> Seq(Entry)]
    BY DEF Backed
  <2>2. rentedNfts' \in [Tabs -> Seq(Entry)]
    BY <1>2, <2>1 DEF Reload
  <2>3. ASSUME NEW N \in SUBSET NftIds PROVE Records(N)' \subseteq Records(N)
    <3>1. rentedNfts'[t] = <<>> /\ \A s \in Tabs \ {t} : rentedNfts'[s] = rentedNfts[s]
      BY <1>2, <2>1 DEF Reload
    <3>2. DOMAIN rentedNfts'[t] = {}
      BY <3>1
    <3> QED
      BY <3>1, <3>2 DEF Records, Claims
  <2>4. ASSUME NEW N \in SUBSET NftIds PROVE Due(N)' \subseteq Due(N)
    <3>1. ASSUME NEW r \in Requests, request[r] # Idle, request[r].phase \in {"prompt", "pending"}
          PROVE  [request[r] EXCEPT !.waiting = FALSE].phase # "mined"
      BY <3>1, RequestPhases DEF RequestsOK, Request
    <3>2. ASSUME NEW r \in Due(N)' PROVE request'[r] = request[r]
      BY <1>2, <3>1, <3>2 DEF Reload, GivenUp, Due, InPhase
    <3> QED
      BY <3>2 DEF Due, InPhase
  <2> QED
    BY <1>1, <2>2, <2>3, <2>4, QuietIsBacked
<1>3. ASSUME NEW r \in Requests, NEW kind, NEW m, Send(t, r, kind, m) PROVE Backed'
  <2>1. rentedNfts' = rentedNfts /\ \A N : Records(N)' = Records(N)
    BY <1>3 DEF Send, tabVars, Records
  <2>2. /\ \A x \in Requests \ {r} : request'[x] = request[x]
        /\ request'[r] = [phase |-> "prompt", kind |-> kind, tab |-> t,
                          user |-> account[t], nft |-> m, waiting |-> TRUE]
    BY <1>3 DEF Send, RequestsOK
  <2>3. ~InPhase(r, "mined")'
    BY <2>2 DEF InPhase
  <2> QED
    BY <1>1, <2>1, <2>2, <2>3, OtherReceipts, QuietIsBacked DEF Backed
<1>4. CASE UNCHANGED <<rentedNfts, request>>
  BY <1>1, <1>4, QuietIsBacked DEF Records, Due, InPhase, Backed
<1> QED
  BY <1>2, <1>3, <1>4
     DEF TabNext, SelectAccount, Disconnect, ClickMint, ClickRent, Answer, ReadFails,
         DeliverSome, Deliver, tabVars

\* A mined rent makes a rental and at most one receipt; its handler records it.
LEMMA RequestKeepsBacked ==
    ASSUME TypeOK, RequestsOK, Backed, NEW r \in Requests, RequestNext(r)
    PROVE  Backed'
<1> DEFINE q == request[r]
<1>1. q \in Request /\ \A x \in Requests \ {r} : request'[x] = request[x]
  BY RequestPhases
     DEF RequestsOK, RequestNext, Confirm, Refuse, SendTimeout, Mine, RentReceipt,
         MintReceipt, RevertReceipt, InPhase
<1>2. q.tab \in Tabs /\ q.user \in Users /\ q.nft \in NftIds /\ r \in DOMAIN request
  BY <1>1 DEF Request, RequestsOK
<1>3. PICK t \in Tabs, u \in Users, m \in NftIds : q.tab = t /\ q.user = u /\ q.nft = m
  BY <1>2
<1>4. rentedNfts \in [Tabs -> Seq(Entry)]
  BY DEF Backed
<1>5. CASE Mine(r) /\ q.kind = "rent" /\ RentNft(u, m)
  <2>1. rentedNfts' = rentedNfts /\ \A N : Records(N)' = Records(N)
    BY <1>5 DEF Mine, tabVars, Records
  <2>2. request'[r] = Idle \/ request'[r].nft = m
    BY <1>1, <1>3, <1>5 DEF Mine, Request
  <2>3. ASSUME NEW N \in SUBSET NftIds, m \notin N
        PROVE  Due(N)' \subseteq Due(N)
    BY <1>1, <2>2, <2>3, OtherReceipts DEF InPhase
  <2>4. ASSUME NEW N \in SUBSET NftIds
        PROVE  /\ u \notin Renters(N)
               /\ Renters(N)' = IF m \in N THEN Renters(N) \cup {u} ELSE Renters(N)
    <3>1. /\ ~rentals[u].active /\ rentals \in [Users -> Rental]
          /\ rentals' = [rentals EXCEPT ![u] =
                           [nftId |-> m, startTime |-> now, active |-> TRUE]]
      BY <1>5 DEF RentNft, CanRent, TypeOK
    <3> QED
      BY <3>1 DEF Renters
  <2> SUFFICES ASSUME NEW N \in SUBSET NftIds
               PROVE  /\ IsFiniteSet(Records(N)') /\ IsFiniteSet(Due(N)')
                      /\ Cardinality(Records(N)') + Cardinality(Due(N)')
                            <= Cardinality(Renters(N)')
    BY <1>4, <2>1 DEF Backed, BackedFor
  <2>6. /\ IsFiniteSet(Records(N)) /\ IsFiniteSet(Due(N))
        /\ Cardinality(Records(N)) + Cardinality(Due(N))
              <= Cardinality(Renters(N))
        /\ Cardinality(Renters(N)) \in Nat /\ Cardinality(Records(N)) \in Nat
    BY RentersAreFinite, FS_CardinalityType DEF Backed, BackedFor
  <2>7. CASE m \in N
    <3>1. Due(N)' \in SUBSET (Due(N) \cup {r})
      BY <1>1, OtherReceipts
    <3>2. /\ IsFiniteSet(Due(N)')
          /\ Cardinality(Due(N)') \in Nat /\ Cardinality(Due(N)) \in Nat
          /\ Cardinality(Due(N)') <= Cardinality(Due(N)) + 1
      BY <2>6, <3>1, OneMoreElement
    <3>3. Records(N)' = Records(N)
          /\ Cardinality(Renters(N)') = Cardinality(Renters(N)) + 1
      <4>1. u \notin Renters(N) /\ Renters(N)' = Renters(N) \cup {u}
        BY <2>4, <2>7
      <4>2. Cardinality(Renters(N) \cup {u}) = Cardinality(Renters(N)) + 1
        BY <4>1, RentersAreFinite, FS_AddElement
      <4> QED
        BY <2>1, <4>1, <4>2
    <3> QED
      BY <2>6, <3>2, <3>3
  <2>8. CASE m \notin N
    BY <2>1, <2>3, <2>4, <2>6, <2>8, FewerElements
  <2> QED
    BY <2>7, <2>8
<1>6. CASE Mine(r) /\ ~(q.kind = "rent" /\ RentNft(u, m))
  <2>1. rentedNfts' = rentedNfts /\ \A N : Records(N)' = Records(N)
    BY <1>6 DEF Mine, tabVars, Records
  <2>2. q.kind = "mint" \/ ~CanRent(u, m)
    BY <1>3, <1>6 DEF Mine, Succeeds
  <2>3. ~(InPhase(r, "mined")' /\ request'[r].kind = "rent")
    BY <1>1, <1>3, <1>6, <2>2 DEF Mine, InPhase, Succeeds, Request
  <2>4. (\E n \in NftIds : Store(n)) \/ UNCHANGED contractVars
    BY <1>3, <1>6 DEF Mine
  <2>5. \A N : Renters(N)' = Renters(N)
    BY <2>4 DEF Store, contractVars, Renters
  <2> QED
    BY <1>1, <1>4, <2>1, <2>3, <2>5, OtherReceipts, QuietIsBacked
<1>7. CASE RentReceipt(r)
  <2> DEFINE e == [id |-> m, rentedAt |-> now]
  <2>1. e \in Entry
    BY <1>3 DEF Entry, TypeOK
  <2>2. rentedNfts' = [rentedNfts EXCEPT ![t] = Append(@, e)]
    BY <1>3, <1>7 DEF RentReceipt
  <2>3. \A N : m \in N => r \in Due(N)
    BY <1>3, <1>7 DEF RentReceipt, Due
  <2>4. ~InPhase(r, "mined")'
    BY <1>2, <1>7 DEF RentReceipt, InPhase
  <2>5. \A N : Due(N)' \subseteq Due(N) \ {r}
    BY <1>1, <2>4, OtherReceipts
  <2>6. /\ rentedNfts' \in [Tabs -> Seq(Entry)]
        /\ \A N : /\ Records(N)' \subseteq Records(N) \cup {<<t, Len(rentedNfts[t]) + 1>>}
                  /\ m \notin N => Records(N)' \subseteq Records(N)
    <3>1. e.id = m
      OBVIOUS
    <3>2. Appends(rentedNfts, rentedNfts', Tabs, Entry, t, e)
      BY <1>3, <1>4, <2>1, <2>2 DEF Appends
    <3> HIDE DEF e
    <3>3. ASSUME NEW N
          PROVE  /\ Claims(rentedNfts', Tabs, Nat, N)
                       \subseteq Claims(rentedNfts, Tabs, Nat, N) \cup {<<t, Len(rentedNfts[t]) + 1>>}
                 /\ e.id \notin N =>
                       Claims(rentedNfts', Tabs, Nat, N) \subseteq Claims(rentedNfts, Tabs, Nat, N)
                 /\ rentedNfts' \in [Tabs -> Seq(Entry)]
      BY <3>2, AppendedClaim
    <3> QED
      BY <3>1, <3>3 DEF Records
  <2>7. \A N : Renters(N)' = Renters(N)
    BY <1>7 DEF RentReceipt, contractVars, Renters
  <2> SUFFICES ASSUME NEW N \in SUBSET NftIds
               PROVE  /\ IsFiniteSet(Records(N)') /\ IsFiniteSet(Due(N)')
                      /\ Cardinality(Records(N)') + Cardinality(Due(N)')
                            <= Cardinality(Renters(N)')
    BY <2>6 DEF Backed, BackedFor
  <2>8. /\ IsFiniteSet(Records(N)) /\ IsFiniteSet(Due(N))
        /\ Cardinality(Records(N)) + Cardinality(Due(N))
              <= Cardinality(Renters(N))
        /\ Cardinality(Renters(N)) \in Nat
    BY RentersAreFinite DEF Backed, BackedFor
  <2>9. CASE m \in N
    <3>1. /\ IsFiniteSet(Due(N) \ {r})
          /\ Cardinality(Due(N) \ {r}) = Cardinality(Due(N)) - 1
      BY <2>3, <2>8, <2>9, FS_RemoveElement
    <3>2. /\ IsFiniteSet(Due(N)')
          /\ Cardinality(Due(N)') <= Cardinality(Due(N)) - 1
          /\ Cardinality(Due(N)') \in Nat /\ Cardinality(Due(N)) \in Nat
      BY <2>5, <2>8, <3>1, FS_Subset, FS_CardinalityType
    <3>3. /\ IsFiniteSet(Records(N)') /\ Cardinality(Records(N)') \in Nat
          /\ Cardinality(Records(N)') <= Cardinality(Records(N)) + 1
          /\ Cardinality(Records(N)) \in Nat
      <4>1. Records(N)' \in SUBSET
               (Records(N) \cup {<<t, Len(rentedNfts[t]) + 1>>})
        BY <2>6, <2>9
      <4> QED
        BY <2>8, <4>1, OneMoreElement
    <3> QED
      BY <2>7, <2>8, <3>2, <3>3
  <2>10. CASE m \notin N
    <3>1. Records(N)' \in SUBSET Records(N)
          /\ Due(N)' \in SUBSET Due(N)
      BY <2>5, <2>6, <2>10
    <3> QED
      BY <2>7, <2>8, <3>1, FewerElements
  <2> QED
    BY <2>9, <2>10
<1>8. CASE Confirm(r) \/ Refuse(r) \/ SendTimeout(r) \/ MintReceipt(r) \/ RevertReceipt(r)
  <2>1. UNCHANGED <<contractVars, rentedNfts>>
    BY <1>8 DEF Confirm, Refuse, SendTimeout, MintReceipt, RevertReceipt, tabVars
  <2>2. \A N : Records(N)' = Records(N) /\ Renters(N)' = Renters(N)
    BY <2>1 DEF Records, Renters, contractVars
  <2>3. ~InPhase(r, "mined")'
    BY <1>1, <1>2, <1>8
       DEF Confirm, Refuse, SendTimeout, GivenUp, MintReceipt, RevertReceipt, InPhase, Request
  <2> QED
    BY <1>1, <1>4, <2>1, <2>2, <2>3, OtherReceipts, QuietIsBacked
<1> QED
  BY <1>5, <1>6, <1>7, <1>8 DEF RequestNext

LEMMA BackedAlways == DAppSpec => []Backed
<1>1. ASSUME TypeOK, RequestsOK, Backed, [DAppNext]_dappVars PROVE Backed'
  <2>1. CASE AdvanceTime \/ UNCHANGED dappVars
    <3>1. UNCHANGED <<rentals, rentedNfts, request>>
      BY <2>1 DEF AdvanceTime, Tick, tabVars, dappVars, contractVars
    <3> QED
      BY <1>1, <3>1, QuietIsBacked DEF Records, Due, InPhase, Renters, Backed
  <2> QED
    BY <1>1, <2>1, TabKeepsBacked, RequestKeepsBacked DEF DAppNext
<1>2. DAppSpec => []TypeOK
  BY DAppImplementsContract, TypeCorrect, PTL
<1> QED
  BY <1>1, <1>2, BackedInitially, RequestTyping, PTL DEF DAppSpec

\* Clicks, tabs, timeouts and reloads, in any order and number, never make tabs
\* record more rentals of an id than the contract has granted.
THEOREM RecordsAreBacked == DAppSpec => []RecordsBackedByRentals
<1>1. ASSUME Backed, NEW n \in NftIds
      PROVE  Cardinality(LocalRecords(n)) + Cardinality(RentReceiptsDue(n))
                <= Cardinality(ActiveRenters(n))
  <2>1. BackedFor({n})
    BY <1>1 DEF Backed
  <2>2. Due({n}) = RentReceiptsDue(n) /\ Renters({n}) = ActiveRenters(n)
    BY DEF Due, RentReceiptsDue, Renters, ActiveRenters
  <2>3. LocalRecords(n) \in SUBSET Records({n})
    BY DEF LocalRecords, Records, Claims
  <2>4. /\ Cardinality(LocalRecords(n)) <= Cardinality(Records({n}))
        /\ Cardinality(LocalRecords(n)) \in Nat /\ Cardinality(Records({n})) \in Nat
        /\ Cardinality(Due({n})) \in Nat /\ Cardinality(Renters({n})) \in Nat
    BY <2>1, <2>3, FewerElements, RentersAreFinite DEF BackedFor
  <2> QED
    BY <2>1, <2>2, <2>4 DEF BackedFor
<1>2. Backed => RecordsBackedByRentals
  BY <1>1 DEF RecordsBackedByRentals
<1> QED
  BY <1>2, BackedAlways, PTL

\* No tab records more rentals than there are users, nor does it record anything but
\* an id with a time.
LEMMA RecordsAreFew ==
    ASSUME Backed, NEW t \in Tabs
    PROVE  rentedNfts[t] \in Seq(Entry) /\ Len(rentedNfts[t]) <= Cardinality(Users)
<1> DEFINE all == Records(NftIds)
           own == {t} \X (1 .. Len(rentedNfts[t]))
<1>1. /\ rentedNfts[t] \in Seq(Entry) /\ Len(rentedNfts[t]) \in Nat
      /\ DOMAIN rentedNfts[t] = 1 .. Len(rentedNfts[t])
      /\ \A i \in DOMAIN rentedNfts[t] : rentedNfts[t][i].id \in NftIds
  <2>1. rentedNfts[t] \in Seq(Entry)
    BY DEF Backed
  <2>2. \A i \in DOMAIN rentedNfts[t] : rentedNfts[t][i] \in Entry
    BY <2>1
  <2> QED
    BY <2>1, <2>2 DEF Entry
<1>2. BackedFor(NftIds)
  BY DEF Backed
<1>3. own \in SUBSET all
  BY <1>1 DEF Records, Claims
<1>4. IsFiniteSet(1 .. Len(rentedNfts[t])) /\ Cardinality(1 .. Len(rentedNfts[t])) = Len(rentedNfts[t])
  BY <1>1, FS_Interval
<1>5. IsFiniteSet({t}) /\ Cardinality({t}) = 1
  BY FS_Singleton
<1>6. Cardinality(own) = Cardinality({t}) * Cardinality(1 .. Len(rentedNfts[t]))
  BY <1>4, <1>5, FS_Product
<1>7. Cardinality(own) = Len(rentedNfts[t])
  BY <1>1, <1>4, <1>5, <1>6
<1>8. IsFiniteSet(Users) /\ Renters(NftIds) \in SUBSET Users
  BY UsersAssumption DEF Renters
<1>9. Cardinality(Renters(NftIds)) <= Cardinality(Users) /\ Cardinality(Users) \in Nat
      /\ Cardinality(Renters(NftIds)) \in Nat
  BY <1>8, FS_Subset, FS_CardinalityType
<1> HIDE DEF own, all
<1>10. /\ Cardinality(own) <= Cardinality(all) /\ Cardinality(own) \in Nat
       /\ Cardinality(all) \in Nat /\ Cardinality(Due(NftIds)) \in Nat
  <2>1. IsFiniteSet(all) /\ IsFiniteSet(Due(NftIds))
    BY <1>2 DEF BackedFor, all
  <2> QED
    BY <1>3, <2>1, FewerElements
<1>11. Cardinality(all) + Cardinality(Due(NftIds)) <= Cardinality(Renters(NftIds))
  BY <1>2 DEF BackedFor, all
<1> QED
  BY <1>1, <1>7, <1>9, <1>10, <1>11

----------------------------------------------------------------------------
(* Lists under way and on the screen.                                      *)

Bag == {B \in UNION {[S -> Nat \ {0}] : S \in SUBSET Seq(NftIds)} : IsFiniteSet(DOMAIN B)}

\* Bags of answers gain one and lose one.
Gained(B, list, more) ==
    /\ more \in Bag /\ DOMAIN more = DOMAIN B \cup {list}
    /\ more[list] = (IF list \in DOMAIN B THEN B[list] ELSE 0) + 1
    /\ \A x \in DOMAIN B \ {list} : more[x] = B[x]

Lost(B, list, less) ==
    /\ less \in Bag
    /\ DOMAIN less = IF B[list] = 1 THEN DOMAIN B \ {list} ELSE DOMAIN B
    /\ list \in DOMAIN less => less[list] = B[list] - 1
    /\ \A x \in DOMAIN B \ {list} : less[x] = B[x]

LEMMA BagGains ==
    ASSUME NEW B \in Bag, NEW list \in Seq(NftIds),
           NEW more, more = B (+) SetToBag({list})
    PROVE  Gained(B, list, more)
<1>1. /\ DOMAIN B \in SUBSET Seq(NftIds) /\ \A x \in DOMAIN B : B[x] \in Nat \ {0}
      /\ IsFiniteSet(DOMAIN B)
  BY DEF Bag
<1>2. more = [x \in DOMAIN B \cup {list} |->
                 (IF x \in DOMAIN B THEN B[x] ELSE 0) + (IF x \in {list} THEN 1 ELSE 0)]
  BY DEF (+), SetToBag
<1>3. ASSUME NEW x \in DOMAIN B \cup {list} PROVE more[x] \in Nat \ {0}
  <2>1. CASE x \in DOMAIN B
    <3>1. PICK k \in Nat \ {0} : k = B[x]
      BY <1>1, <2>1
    <3>2. more[x] = k + (IF x = list THEN 1 ELSE 0)
      BY <1>2, <2>1, <3>1
    <3> QED
      BY <3>2
  <2>2. CASE x \notin DOMAIN B
    <3>1. more[x] = 0 + 1
      BY <1>2, <2>2
    <3> QED
      BY <3>1
  <2> QED
    BY <2>1, <2>2
<1>4. DOMAIN more = DOMAIN B \cup {list} /\ IsFiniteSet(DOMAIN B \cup {list})
  BY <1>1, <1>2, FS_AddElement
<1>5. more \in [DOMAIN B \cup {list} -> Nat \ {0}]
  BY <1>2, <1>3
<1>6. more \in Bag
  BY <1>1, <1>4, <1>5 DEF Bag
<1>7. more[list] = (IF list \in DOMAIN B THEN B[list] ELSE 0) + 1
  BY <1>2
<1>8. ASSUME NEW x \in DOMAIN B \ {list} PROVE more[x] = B[x]
  <2>1. PICK k \in Nat : k = B[x]
    BY <1>1
  <2>2. more[x] = k + 0
    BY <1>2, <2>1
  <2> QED
    BY <2>1, <2>2
<1> QED
  BY <1>4, <1>6, <1>7, <1>8 DEF Gained

LEMMA BagLoses ==
    ASSUME NEW B \in Bag, NEW list \in DOMAIN B,
           NEW less, less = B (-) SetToBag({list})
    PROVE  Lost(B, list, less)
<1>1. /\ DOMAIN B \in SUBSET Seq(NftIds) /\ \A x \in DOMAIN B : B[x] \in Nat \ {0}
      /\ IsFiniteSet(DOMAIN B)
  BY DEF Bag
<1> DEFINE left == [x \in DOMAIN B |-> IF x \in {list} THEN B[x] - 1 ELSE B[x]]
<1>2. less = [x \in {y \in DOMAIN left : left[y] > 0} |-> left[x]]
  BY DEF (-), SetToBag
<1>3. {y \in DOMAIN left : left[y] > 0} = IF B[list] = 1 THEN DOMAIN B \ {list} ELSE DOMAIN B
  BY <1>1
<1>4. DOMAIN less = IF B[list] = 1 THEN DOMAIN B \ {list} ELSE DOMAIN B
  BY <1>2, <1>3
<1>5. ASSUME NEW x \in DOMAIN less PROVE less[x] = left[x] /\ less[x] \in Nat \ {0}
  <2>1. x \in DOMAIN B /\ less[x] = left[x] /\ left[x] > 0
    BY <1>2
  <2>2. PICK k \in Nat \ {0} : k = B[x]
    BY <1>1, <2>1
  <2>3. left[x] = IF x = list THEN k - 1 ELSE k
    BY <2>1, <2>2
  <2> HIDE DEF left
  <2> QED
    BY <2>1, <2>2, <2>3
<1>6. DOMAIN less \in SUBSET DOMAIN B /\ IsFiniteSet(DOMAIN less)
  BY <1>1, <1>4, FS_Subset
<1>7. less \in Bag
  <2>1. less \in [DOMAIN less -> Nat \ {0}]
    BY <1>2, <1>5
  <2> QED
    BY <1>1, <1>6, <2>1 DEF Bag
<1> QED
  BY <1>4, <1>5, <1>6, <1>7 DEF Lost

LEMMA NoAnswers == EmptyBag \in Bag /\ DOMAIN EmptyBag = {}
<1>1. DOMAIN EmptyBag = {} /\ EmptyBag \in [{} -> Nat \ {0}]
  BY DEF EmptyBag, SetToBag
<1> QED
  BY <1>1, FS_EmptySet DEF Bag

\* What an answer may still say, although copies have been taken since.
Sound(list) ==
    /\ list \in Seq(NftIds)
    /\ \A n \in NftIds :
          Offers(list, n) <= Cardinality(FreeSlots(n)) + Cardinality(ActiveRenters(n))

ListsOK ==
    /\ shownNfts \in [Tabs -> Seq(NftIds)] /\ answers \in [Tabs -> Bag]
    /\ asked \in [Tabs -> Nat]
    /\ \A t \in Tabs : Sound(shownNfts[t]) /\ \A list \in DOMAIN answers[t] : Sound(list)

LEMMA CopyFacts ==
    ASSUME TypeOK, NEW n
    PROVE  /\ Cardinality(FreeSlots(n)) \in Nat /\ IsFiniteSet(FreeSlots(n))
           /\ Cardinality(ActiveRenters(n)) \in Nat
<1>1. IsFiniteSet(FreeSlots(n))
  BY SlotFacts, FS_Subset DEF FreeSlots
<1> QED
  BY <1>1, RenterFacts, FS_CardinalityType

LEMMA FreshIsSound == TypeOK => Sound(GetAvailableNfts)
<1> SUFFICES ASSUME TypeOK, NEW n \in NftIds
             PROVE  Offers(GetAvailableNfts, n)
                       <= Cardinality(FreeSlots(n)) + Cardinality(ActiveRenters(n))
  BY OffersFacts DEF Sound
<1>1. Offers(GetAvailableNfts, n) = Cardinality(FreeSlots(n))
  BY OffersFacts DEF OffersMatchFreeCopies, Offers
<1> QED
  BY <1>1, CopyFacts

LEMMA NothingIsSound == TypeOK => Sound(<<>>)
<1> SUFFICES ASSUME TypeOK, NEW n \in NftIds
             PROVE  Offers(<<>>, n) <= Cardinality(FreeSlots(n)) + Cardinality(ActiveRenters(n))
  BY DEF Sound
<1>1. {k \in DOMAIN <<>> : <<>>[k] = n} = {}
  OBVIOUS
<1>2. Offers(<<>>, n) = 0
  BY <1>1, FS_EmptySet DEF Offers
<1> QED
  BY <1>2, CopyFacts

\* Nothing the chain does for the page takes back what an answer said: a copy stops
\* being free only for a renter, and renters stay.
LEMMA SoundStaysSound ==
    ASSUME TypeOK, RequestsOK, [DAppNext]_dappVars, NEW list, Sound(list)
    PROVE  /\ list \in Seq(NftIds)
           /\ \A n \in NftIds :
                 Offers(list, n) <= Cardinality(FreeSlots(n)') + Cardinality(ActiveRenters(n)')
<1> SUFFICES ASSUME NEW n \in NftIds
             PROVE  Cardinality(FreeSlots(n)) + Cardinality(ActiveRenters(n))
                       <= Cardinality(FreeSlots(n)') + Cardinality(ActiveRenters(n)')
                    /\ Cardinality(FreeSlots(n)') \in Nat /\ Cardinality(ActiveRenters(n)') \in Nat
  <2>1. ASSUME NEW k PROVE Offers(list, k) \in Nat
    <3>1. DOMAIN list = 1 .. Len(list) /\ Len(list) \in Nat
      BY DEF Sound
    <3>2. IsFiniteSet({i \in DOMAIN list : list[i] = k})
      <4>1. IsFiniteSet(DOMAIN list)
        BY <3>1, FS_Interval
      <4> QED
        BY <4>1, FS_Subset
    <3> QED
      BY <3>2, FS_CardinalityType DEF Offers
  <2> QED
    BY <2>1, CopyFacts DEF Sound
<1>0. TypeOK'
  BY ContractStep, StoreEffect, RentEffect, QuietEffect
<1>1. /\ IsFiniteSet(FreeSlots(n)') /\ Cardinality(FreeSlots(n)') \in Nat
      /\ Cardinality(ActiveRenters(n)') \in Nat
  <2>1. (TypeOK => /\ Cardinality(FreeSlots(n)) \in Nat /\ IsFiniteSet(FreeSlots(n))
                   /\ Cardinality(ActiveRenters(n)) \in Nat)'
    BY CopyFacts, PTL
  <2> QED
    BY <1>0, <2>1
<1>2. /\ Cardinality(FreeSlots(n)) \in Nat /\ IsFiniteSet(FreeSlots(n))
      /\ Cardinality(ActiveRenters(n)) \in Nat
  BY CopyFacts
<1>3. ASSUME FreeSlots(n) \subseteq FreeSlots(n)', ActiveRenters(n)' = ActiveRenters(n)
      PROVE  Cardinality(FreeSlots(n)) <= Cardinality(FreeSlots(n)')
  BY <1>1, <1>3, FS_Subset
<1>4. ASSUME NEW m \in NftIds, Store(m)
      PROVE  FreeSlots(n) \subseteq FreeSlots(n)' /\ ActiveRenters(n)' = ActiveRenters(n)
  BY <1>4, StoreEffect DEF FreeSlots
<1>5. ASSUME NEW u \in Users, NEW m \in NftIds, RentNft(u, m), m # n
      PROVE  FreeSlots(n) \subseteq FreeSlots(n)' /\ ActiveRenters(n)' = ActiveRenters(n)
  BY <1>5, RentEffect DEF FreeSlots
<1>6. ASSUME NEW u \in Users, RentNft(u, n)
      PROVE  /\ Cardinality(FreeSlots(n)') = Cardinality(FreeSlots(n)) - 1
             /\ Cardinality(ActiveRenters(n)') = Cardinality(ActiveRenters(n)) + 1
  <2>1. PICK i \in FreeSlots(n) : RentedSlots(n)' = RentedSlots(n) \cup {i}
    BY <1>6, RentEffect
  <2>2. /\ SlotsOf(n)' = SlotsOf(n)
        /\ u \notin ActiveRenters(n) /\ ActiveRenters(n)' = ActiveRenters(n) \cup {u}
    BY <1>6, RentEffect
  <2>3. FreeSlots(n)' = FreeSlots(n) \ {i}
    BY <2>1, <2>2 DEF FreeSlots
  <2> QED
    <3>1. Cardinality(FreeSlots(n) \ {i}) = Cardinality(FreeSlots(n)) - 1
      BY <1>2, <2>1, FS_RemoveElement
    <3>2. Cardinality(ActiveRenters(n) \cup {u}) = Cardinality(ActiveRenters(n)) + 1
      BY <2>2, RenterFacts, FS_AddElement
    <3> QED
      BY <2>2, <2>3, <3>1, <3>2
<1>7. ASSUME Tick \/ UNCHANGED contractVars
      PROVE  FreeSlots(n) \subseteq FreeSlots(n)' /\ ActiveRenters(n)' = ActiveRenters(n)
  BY <1>7, QuietEffect DEF FreeSlots
<1>8. CASE FreeSlots(n) \subseteq FreeSlots(n)' /\ ActiveRenters(n)' = ActiveRenters(n)
  BY <1>1, <1>2, <1>3, <1>8
<1>9. CASE \E u \in Users : RentNft(u, n)
  BY <1>1, <1>2, <1>6, <1>9
<1> QED
  BY <1>4, <1>5, <1>7, <1>8, <1>9, ContractStep

\* It is enough that the lists after a step were sound before it.
LEMMA SoundListsKept ==
    ASSUME TypeOK, RequestsOK, [DAppNext]_dappVars,
           shownNfts' \in [Tabs -> Seq(NftIds)], answers' \in [Tabs -> Bag],
           asked' \in [Tabs -> Nat],
           \A t \in Tabs : Sound(shownNfts'[t]) /\ \A list \in DOMAIN answers'[t] : Sound(list)
    PROVE  ListsOK'
<1>1. ASSUME NEW list, Sound(list)
      PROVE  /\ list \in Seq(NftIds)
             /\ \A n \in NftIds : Offers(list, n) <= Cardinality(FreeSlots(n)')
                                                        + Cardinality(ActiveRenters(n)')
  BY <1>1, SoundStaysSound
<1>2. ASSUME NEW t \in Tabs PROVE (Sound(shownNfts[t]))'
  <2>1. PICK list : list = shownNfts'[t]
    OBVIOUS
  <2>2. Sound(list)
    BY <2>1
  <2> QED
    BY <1>1, <2>1, <2>2 DEF Sound, Offers
<1>3. ASSUME NEW t \in Tabs PROVE \A list \in DOMAIN answers'[t] : (Sound(list))'
  BY <1>1 DEF Sound, Offers
<1> QED
  BY <1>2, <1>3 DEF ListsOK

LEMMA ListsOKInitially == TypeOK /\ DAppInit => ListsOK
<1> SUFFICES ASSUME TypeOK, DAppInit PROVE ListsOK
  OBVIOUS
<1>1. /\ shownNfts = [t \in Tabs |-> <<>>] /\ asked = [t \in Tabs |-> 0]
      /\ answers = [t \in Tabs |-> EmptyBag]
  BY DEF DAppInit
<1>2. /\ shownNfts \in [Tabs -> Seq(NftIds)] /\ asked \in [Tabs -> Nat]
      /\ answers \in [Tabs -> Bag]
  BY <1>1, NoAnswers
<1> QED
  BY <1>1, <1>2, NothingIsSound, NoAnswers DEF ListsOK

LEMMA TabKeepsLists ==
    ASSUME TypeOK, RequestsOK, ListsOK, NEW t \in Tabs, TabNext(t)
    PROVE  ListsOK'
<1>1. [DAppNext]_dappVars
  BY DEF DAppNext
<1>2. CASE UNCHANGED <<shownNfts, answers>> /\ asked' \in [Tabs -> Nat]
  BY <1>1, <1>2, SoundListsKept DEF ListsOK
<1>3. CASE Reload(t)
  <2>1. /\ shownNfts' = [shownNfts EXCEPT ![t] = <<>>]
        /\ answers' = [answers EXCEPT ![t] = EmptyBag] /\ asked' = [asked EXCEPT ![t] = 0]
    BY <1>3 DEF Reload
  <2>2. /\ shownNfts' \in [Tabs -> Seq(NftIds)] /\ answers' \in [Tabs -> Bag]
        /\ asked' \in [Tabs -> Nat]
    BY <2>1, NoAnswers DEF ListsOK
  <2>3. ASSUME NEW s \in Tabs
        PROVE  Sound(shownNfts'[s]) /\ \A list \in DOMAIN answers'[s] : Sound(list)
    <3>1. CASE s = t
      <4>1. shownNfts'[s] = <<>> /\ DOMAIN answers'[s] = {}
        BY <2>1, <3>1, NoAnswers DEF ListsOK
      <4> QED
        BY <4>1, NothingIsSound
    <3>2. CASE s # t
      BY <2>1, <3>2 DEF ListsOK
    <3> QED
      BY <3>1, <3>2
  <2> QED
    BY <1>1, <2>2, <2>3, SoundListsKept
<1>4. CASE Answer(t)
  <2>1. /\ shownNfts' = shownNfts /\ asked[t] > 0
        /\ asked' = [asked EXCEPT ![t] = asked[t] - 1]
        /\ answers' = [answers EXCEPT ![t] = answers[t] (+) SetToBag({GetAvailableNfts})]
    BY <1>4 DEF Answer, tabVars
  <2>2. PICK list, more : list = GetAvailableNfts /\ more = answers[t] (+) SetToBag({list})
    OBVIOUS
  <2>3. list \in Seq(NftIds) /\ Sound(list)
    BY <2>2, FreshIsSound, OffersFacts
  <2>4. more \in Bag /\ DOMAIN more = DOMAIN answers[t] \cup {list}
    BY <2>2, <2>3, BagGains DEF ListsOK, Gained
  <2>5. answers' = [answers EXCEPT ![t] = more]
    BY <2>1, <2>2
  <2>6. asked' \in [Tabs -> Nat] /\ answers' \in [Tabs -> Bag]
    <3>1. asked[t] - 1 \in Nat /\ asked \in [Tabs -> Nat]
      BY <2>1 DEF ListsOK
    <3>2. asked' \in [Tabs -> Nat]
      BY <2>1, <3>1
    <3>3. answers' \in [Tabs -> Bag]
      BY <2>4, <2>5 DEF ListsOK
    <3> QED
      BY <3>2, <3>3
  <2>7. ASSUME NEW s \in Tabs
        PROVE  Sound(shownNfts'[s]) /\ \A x \in DOMAIN answers'[s] : Sound(x)
    BY <2>1, <2>3, <2>4, <2>5 DEF ListsOK
  <2> QED
    BY <1>1, <2>1, <2>6, <2>7, SoundListsKept DEF ListsOK
<1>5. CASE DeliverSome(t)
  <2>1. PICK list \in DOMAIN answers[t] : Deliver(t, list)
    BY <1>5 DEF DeliverSome, BagToSet
  <2>2. PICK less : less = answers[t] (-) SetToBag({list})
    OBVIOUS
  <2>3. /\ shownNfts' = [shownNfts EXCEPT ![t] = list] /\ asked' = asked
        /\ answers' = [answers EXCEPT ![t] = less]
    BY <2>1, <2>2 DEF Deliver
  <2>4. less \in Bag /\ DOMAIN less \subseteq DOMAIN answers[t]
    <3>1. PICK B \in Bag : B = answers[t]
      BY DEF ListsOK
    <3>2. list \in DOMAIN B /\ less = B (-) SetToBag({list})
      BY <2>2, <3>1
    <3>3. less \in Bag /\ DOMAIN less = IF B[list] = 1 THEN DOMAIN B \ {list} ELSE DOMAIN B
      BY <3>2, BagLoses DEF Lost
    <3> QED
      BY <3>1, <3>3
  <2>5. Sound(list) /\ list \in Seq(NftIds)
    BY DEF ListsOK, Sound
  <2>6. shownNfts' \in [Tabs -> Seq(NftIds)] /\ answers' \in [Tabs -> Bag]
    BY <2>3, <2>4, <2>5 DEF ListsOK
  <2>7. ASSUME NEW s \in Tabs
        PROVE  Sound(shownNfts'[s]) /\ \A x \in DOMAIN answers'[s] : Sound(x)
    BY <2>3, <2>4, <2>5 DEF ListsOK
  <2> QED
    BY <1>1, <2>3, <2>6, <2>7, SoundListsKept DEF ListsOK
<1>6. ASSUME NEW u, SelectAccount(t, u)
      PROVE  UNCHANGED <<shownNfts, answers>> /\ asked' \in [Tabs -> Nat]
  BY <1>6 DEF SelectAccount, ListsOK
<1>7. ASSUME ReadFails(t)
      PROVE  UNCHANGED <<shownNfts, answers>> /\ asked' \in [Tabs -> Nat]
  BY <1>7 DEF ReadFails, ListsOK, tabVars
<1>8. ASSUME \/ Disconnect(t)
             \/ \E r \in Requests, n \in NftIds : ClickMint(t, r, n) \/ ClickRent(t, r, n)
      PROVE  UNCHANGED <<shownNfts, answers>> /\ asked' \in [Tabs -> Nat]
  <2>1. UNCHANGED <<shownNfts, answers, asked>>
    BY <1>8 DEF Disconnect, ClickMint, ClickRent, Send, tabVars, readVars
  <2> QED
    BY <2>1 DEF ListsOK
<1> QED
  BY <1>2, <1>3, <1>4, <1>5, <1>6, <1>7, <1>8 DEF TabNext

LEMMA RequestKeepsLists ==
    ASSUME TypeOK, RequestsOK, ListsOK, NEW r \in Requests, RequestNext(r)
    PROVE  ListsOK'
<1>1. [DAppNext]_dappVars
  BY DEF DAppNext
<1>2. UNCHANGED <<shownNfts, answers>>
  BY DEF RequestNext, Confirm, Refuse, SendTimeout, Mine, RentReceipt, MintReceipt,
         RevertReceipt, tabVars, readVars
<1>3. asked' \in [Tabs -> Nat]
  <2> PICK t : t = request[r].tab
    OBVIOUS
  <2>0. asked \in [Tabs -> Nat]
    BY DEF ListsOK
  <2>1. CASE RentReceipt(r)
    <3>1. asked' = [asked EXCEPT ![t] = asked[t] + 2] /\ request[r] # Idle
      BY <2>1 DEF RentReceipt, InPhase
    <3>2. t \in Tabs
      BY <3>1 DEF RequestsOK, Request
    <3> QED
      BY <2>0, <3>1, <3>2
  <2>2. CASE MintReceipt(r)
    <3>1. asked' = [asked EXCEPT ![t] = asked[t] + 1] /\ request[r] # Idle
      BY <2>2 DEF MintReceipt, InPhase
    <3>2. t \in Tabs
      BY <3>1 DEF RequestsOK, Request
    <3> QED
      BY <2>0, <3>1, <3>2
  <2>3. CASE asked' = asked
    BY <2>3 DEF ListsOK
  <2> QED
    BY <2>1, <2>2, <2>3
       DEF RequestNext, Confirm, Refuse, SendTimeout, Mine, RevertReceipt, readVars
<1> QED
  BY <1>1, <1>2, <1>3, SoundListsKept DEF ListsOK

LEMMA ListsTyping == DAppSpec => []ListsOK
<1>1. ASSUME TypeOK, RequestsOK, ListsOK, [DAppNext]_dappVars PROVE ListsOK'
  <2>1. CASE AdvanceTime \/ UNCHANGED dappVars
    <3>1. UNCHANGED <<shownNfts, answers, asked>>
      BY <2>1 DEF AdvanceTime, dappVars, tabVars, readVars
    <3> QED
      BY <1>1, <3>1, SoundListsKept DEF ListsOK
  <2> QED
    BY <1>1, <2>1, TabKeepsLists, RequestKeepsLists DEF DAppNext
<1>2. DAppSpec => []TypeOK
  BY DAppImplementsContract, TypeCorrect, PTL
<1> QED
  BY <1>1, <1>2, ListsOKInitially, RequestTyping, PTL DEF DAppSpec

\* However late an answer arrives, and in whichever order, an id it offers more often
\* than it has free copies was taken by that many renters: lists grow stale only by
\* rentals.
THEOREM StaleOffersAreRentals == DAppSpec => []StaleOffersWereTaken
<1>1. ListsOK => StaleOffersWereTaken
  BY DEF ListsOK, Sound, StaleOffersWereTaken, BagToSet
<1> QED
  BY <1>1, ListsTyping, PTL

----------------------------------------------------------------------------
(* Reads under way: what is asked, answered, or will be asked by a handler *)
(* that runs already.                                                      *)

\* What BagCardinality recurses with.
Totals(f, at) ==
    at = [S \in SUBSET DOMAIN f |->
            IF S = {} THEN 0 ELSE f[CHOOSE e \in S : TRUE] + at[S \ {CHOOSE e \in S : TRUE}]]

LEMMA CardinalityIsTotal ==
    ASSUME NEW B
    PROVE  BagCardinality(B) = (CHOOSE at : Totals(B, at))[DOMAIN B]
BY Zenon DEF BagCardinality, Totals

LEMMA SmallestSet ==
    ASSUME NEW S, IsFiniteSet(S), NEW F \in SUBSET (SUBSET S), F # {}
    PROVE  \E s \in F : \A x \in s : s \ {x} \notin F
<1>1. IsWellFoundedOn(StrictSubsetOrdering(S), SUBSET S)
  <2>1. FiniteSubsetsOf(S) = SUBSET S
    BY FS_FiniteSubsetsOfFinite
  <2>2. IsWellFoundedOn(StrictSubsetOrdering(S), FiniteSubsetsOf(S))
    BY FS_StrictSubsetOrderingWellFounded
  <2> QED
    BY <2>1, <2>2
<1>2. PICK s \in F : \A t \in F : <<t, s>> \notin StrictSubsetOrdering(S)
  BY <1>1, WFMin
<1>3. ASSUME NEW x \in s PROVE s \ {x} \notin F
  BY <1>2 DEF StrictSubsetOrdering
<1> QED
  BY <1>3

LEMMA TotalsExist ==
    ASSUME NEW f, IsFiniteSet(DOMAIN f)
    PROVE  \E at : Totals(f, at)
<1> DEFINE D == DOMAIN f
           some(s) == CHOOSE e \in s : TRUE
           next(at, s) == IF s = {} THEN 0 ELSE f[some(s)] + at[s \ {some(s)}]
           Upto(k) == {s \in SUBSET D : Cardinality(s) <= k}
           Is(k, at) == at = [s \in Upto(k) |-> next(at, s)]
           None == {k \in Nat : ~ \E at : Is(k, at)}
<1>1. /\ Cardinality(D) \in Nat
      /\ \A s \in SUBSET D : IsFiniteSet(s) /\ Cardinality(s) \in Nat
  BY FS_Subset, FS_CardinalityType
<1>2. None = {}
  <2>1. None \in SUBSET Nat
    OBVIOUS
  <2> SUFFICES ASSUME None # {} PROVE FALSE
    OBVIOUS
  <2> HIDE DEF None
  <2>2. PICK k \in None : \A j \in None : k <= j
    BY <2>1, FirstExists DEF IsFirst
  <2>3. k # 0
    <3>1. \A s \in Upto(0) : s = {}
      <4> SUFFICES ASSUME NEW s \in SUBSET D, Cardinality(s) <= 0 PROVE s = {}
        OBVIOUS
      <4>1. Cardinality(s) = 0
        BY <1>1
      <4> QED
        BY <1>1, <4>1, FS_EmptySet
    <3>2. \A at, s : s = {} => next(at, s) = 0
      OBVIOUS
    <3> HIDE DEF next, Upto
    <3>3. Is(0, [s \in Upto(0) |-> 0])
      BY <3>1, <3>2
    <3> QED
      BY <3>3 DEF None
  <2>4. k \in Nat /\ k - 1 \in Nat /\ k - 1 \notin None
    <3>1. k \in Nat /\ k - 1 \in Nat /\ ~(k <= k - 1)
      BY <2>1, <2>2, <2>3
    <3> QED
      BY <2>2, <3>1
  <2>5. PICK at : Is(k - 1, at)
    BY <2>4 DEF None
  <2> DEFINE at2 == [s \in Upto(k) |-> next(at, s)]
  <2>6. ASSUME NEW s \in Upto(k) PROVE next(at2, s) = next(at, s)
    <3>1. CASE s = {}
      BY <3>1
    <3>2. CASE s # {}
      <4>1. some(s) \in s
        BY <3>2
      <4>2. s \ {some(s)} \in Upto(k - 1) /\ s \ {some(s)} \in Upto(k)
        <5> HIDE DEF some
        <5>1. Cardinality(s \ {some(s)}) = Cardinality(s) - 1
          BY <1>1, <4>1, FS_RemoveElement
        <5> QED
          BY <1>1, <2>4, <4>1, <5>1
      <4> HIDE DEF some, Upto
      <4>3. at2[s \ {some(s)}] = next(at, s \ {some(s)})
        BY <4>2
      <4>4. at[s \ {some(s)}] = next(at, s \ {some(s)})
        BY <2>5, <4>2
      <4> QED
        BY <3>2, <4>3, <4>4
    <3> QED
      BY <3>1, <3>2
  <2> HIDE DEF next, Upto
  <2>7. Is(k, at2)
    BY <2>6
  <2> QED
    BY <2>2, <2>7 DEF None
<1>3. PICK at : Is(Cardinality(D), at)
  BY <1>1, <1>2
<1>4. Upto(Cardinality(D)) = SUBSET D
  BY <1>1, FS_Subset
<1>5. Totals(f, at)
  BY <1>3, <1>4 DEF Totals
<1> QED
  BY <1>5

\* at adds up f in whichever order.
AddsUp(f, at) ==
    /\ BagCardinality(f) = at[DOMAIN f] /\ at[{}] = 0
    /\ \A s \in SUBSET DOMAIN f : at[s] \in Nat
    /\ \A s \in SUBSET DOMAIN f : \A x \in s : at[s] = f[x] + at[s \ {x}]

LEMMA AnyOrder ==
    ASSUME NEW B \in Bag
    PROVE  \E at : AddsUp(B, at)
<1>0. IsFiniteSet(DOMAIN B) /\ \A x \in DOMAIN B : B[x] \in Nat
  BY DEF Bag
<1>1. PICK at : Totals(B, at) /\ BagCardinality(B) = at[DOMAIN B]
  BY <1>0, TotalsExist, CardinalityIsTotal
<1> DEFINE some(s) == CHOOSE x \in s : TRUE
           S == DOMAIN B
<1>2. at[{}] = 0
  BY <1>1 DEF Totals
<1>3. ASSUME NEW s \in SUBSET S, s # {}
      PROVE  some(s) \in s /\ at[s] = B[some(s)] + at[s \ {some(s)}]
  BY <1>1, <1>3 DEF Totals
<1> HIDE DEF some
<1>4. \A s \in SUBSET S : at[s] \in Nat
  <2> DEFINE Bad == {s \in SUBSET S : at[s] \notin Nat}
  <2> SUFFICES ASSUME Bad # {} PROVE FALSE
    OBVIOUS
  <2>1. Bad \in SUBSET (SUBSET S)
    OBVIOUS
  <2> HIDE DEF Bad
  <2>2. PICK s \in Bad : \A x \in s : s \ {x} \notin Bad
    BY <1>0, <2>1, SmallestSet
  <2>3. s \in SUBSET S /\ at[s] \notin Nat
    BY DEF Bad
  <2>4. some(s) \in s /\ at[s] = B[some(s)] + at[s \ {some(s)}]
    <3>1. s # {}
      BY <1>2, <2>3
    <3> QED
      BY <1>3, <2>3, <3>1
  <2>5. at[s \ {some(s)}] \in Nat
    BY <2>2, <2>3, <2>4 DEF Bad
  <2> QED
    BY <1>0, <2>3, <2>4, <2>5
<1>5. \A s \in SUBSET S : \A x \in s : at[s] = B[x] + at[s \ {x}]
  <2> DEFINE Good(s) == \A x \in s : at[s] = B[x] + at[s \ {x}]
             Bad == {s \in SUBSET S : ~Good(s)}
  <2> SUFFICES ASSUME Bad # {} PROVE FALSE
    OBVIOUS
  <2>1. Bad \in SUBSET (SUBSET S)
    OBVIOUS
  <2> HIDE DEF Bad, Good
  <2>2. PICK s \in Bad : \A x \in s : s \ {x} \notin Bad
    BY <1>0, <2>1, SmallestSet
  <2>3. s \in SUBSET S /\ ~Good(s)
    BY DEF Bad
  <2>4. PICK x \in s : at[s] # B[x] + at[s \ {x}]
    BY <2>3 DEF Good
  <2>5. PICK c \in s : c = some(s) /\ at[s] = B[c] + at[s \ {c}]
    BY <1>3, <2>3, <2>4
  <2>6. x # c
    BY <2>4, <2>5
  <2>7. Good(s \ {c}) /\ Good(s \ {x})
    BY <2>2, <2>3 DEF Bad
  <2>8. /\ at[s \ {c}] = B[x] + at[(s \ {c}) \ {x}]
        /\ at[s \ {x}] = B[c] + at[(s \ {x}) \ {c}]
    BY <2>6, <2>7 DEF Good
  <2>9. (s \ {c}) \ {x} = (s \ {x}) \ {c}
    OBVIOUS
  <2>10. PICK y \in Nat : y = at[(s \ {x}) \ {c}]
    BY <1>4, <2>3
  <2>11. at[s] = B[c] + (B[x] + y) /\ at[s \ {x}] = B[c] + y
    BY <2>5, <2>8, <2>9, <2>10
  <2>12. B[x] \in Nat /\ B[c] \in Nat
    BY <1>0, <2>3
  <2>13. B[c] + (B[x] + y) = B[x] + (B[c] + y)
    BY <2>10, <2>12
  <2> QED
    BY <2>4, <2>11, <2>13
<1> QED
  BY <1>1, <1>2, <1>4, <1>5 DEF AddsUp

\* Two bags that agree on a set count the same there.
Agree(B, C, S) == S \subseteq DOMAIN B \cap DOMAIN C /\ \A x \in S : B[x] = C[x]

LEMMA SameCount ==
    ASSUME NEW B \in Bag, NEW C \in Bag, NEW F, NEW G, AddsUp(B, F), AddsUp(C, G),
           NEW S, Agree(B, C, S)
    PROVE  F[S] = G[S]
<1> USE DEF Agree
<1> DEFINE Bad == {s \in SUBSET S : F[s] # G[s]}
<1> SUFFICES ASSUME Bad # {} PROVE FALSE
  OBVIOUS
<1>1. Bad \in SUBSET (SUBSET S) /\ IsFiniteSet(S)
  BY FS_Subset DEF Bag
<1> HIDE DEF Bad
<1>2. PICK s \in Bad : \A x \in s : s \ {x} \notin Bad
  BY <1>1, SmallestSet
<1>3. s \in SUBSET S /\ F[s] # G[s]
  BY DEF Bad
<1>4. PICK x \in s : TRUE
  BY <1>3 DEF AddsUp
<1>5. F[s \ {x}] = G[s \ {x}]
  BY <1>2, <1>3, <1>4 DEF Bad
<1>6. F[s] = B[x] + F[s \ {x}] /\ G[s] = C[x] + G[s \ {x}] /\ B[x] = C[x]
  BY <1>3, <1>4 DEF AddsUp
<1> QED
  BY <1>3, <1>5, <1>6

LEMMA CountOfEmpty == BagCardinality(EmptyBag) = 0
<1>1. PICK F : AddsUp(EmptyBag, F)
  BY NoAnswers, AnyOrder
<1> QED
  BY <1>1, NoAnswers DEF AddsUp

LEMMA CountOfGain ==
    ASSUME NEW B \in Bag, NEW list \in Seq(NftIds),
           NEW more, more = B (+) SetToBag({list})
    PROVE  BagCardinality(B) \in Nat /\ BagCardinality(more) = BagCardinality(B) + 1
<1>1. /\ more \in Bag /\ DOMAIN more = DOMAIN B \cup {list}
      /\ more[list] = (IF list \in DOMAIN B THEN B[list] ELSE 0) + 1
      /\ \A x \in DOMAIN B \ {list} : more[x] = B[x]
  <2>1. Gained(B, list, more)
    BY BagGains
  <2> QED
    BY <2>1 DEF Gained
<1>2. PICK F : AddsUp(B, F)
  BY AnyOrder
<1>3. PICK G : AddsUp(more, G)
  BY <1>1, AnyOrder
<1> DEFINE R == DOMAIN B \ {list}
<1>4. R \in SUBSET DOMAIN B /\ Agree(B, more, R)
  BY <1>1 DEF Agree
<1> HIDE DEF R
<1>5. F[R] = G[R] /\ F[R] \in Nat
  <2>1. F[R] = G[R]
    BY <1>1, <1>2, <1>3, <1>4, SameCount
  <2> QED
    BY <1>2, <1>4, <2>1 DEF AddsUp
<1>6. BagCardinality(more) = more[list] + G[R]
  <2>1. DOMAIN more \ {list} = R /\ list \in DOMAIN more
    BY <1>1 DEF R
  <2> QED
    BY <1>3, <2>1 DEF AddsUp
<1>7. CASE list \in DOMAIN B
  <2>1. BagCardinality(B) = B[list] + F[R]
    BY <1>2, <1>7 DEF AddsUp, R
  <2>2. B[list] \in Nat
    BY <1>7 DEF Bag
  <2> QED
    BY <1>1, <1>5, <1>6, <1>7, <2>1, <2>2
<1>8. CASE list \notin DOMAIN B
  <2>1. R = DOMAIN B
    BY <1>8 DEF R
  <2>2. BagCardinality(B) = F[R]
    BY <1>2, <2>1 DEF AddsUp
  <2> QED
    BY <1>1, <1>5, <1>6, <1>8, <2>2
<1> QED
  BY <1>7, <1>8

LEMMA CountOfLoss ==
    ASSUME NEW B \in Bag, NEW list \in DOMAIN B,
           NEW less, less = B (-) SetToBag({list})
    PROVE  BagCardinality(B) \in Nat /\ BagCardinality(less) = BagCardinality(B) - 1
<1>1. /\ less \in Bag
      /\ DOMAIN less = IF B[list] = 1 THEN DOMAIN B \ {list} ELSE DOMAIN B
      /\ list \in DOMAIN less => less[list] = B[list] - 1
      /\ \A x \in DOMAIN B \ {list} : less[x] = B[x]
  <2>1. Lost(B, list, less)
    BY BagLoses
  <2> QED
    BY <2>1 DEF Lost
<1>2. PICK F : AddsUp(B, F)
  BY AnyOrder
<1>3. PICK G : AddsUp(less, G)
  BY <1>1, AnyOrder
<1> DEFINE R == DOMAIN B \ {list}
<1>4. R \in SUBSET DOMAIN B /\ Agree(B, less, R)
  BY <1>1 DEF Agree
<1> HIDE DEF R
<1>5. F[R] = G[R] /\ F[R] \in Nat
  <2>1. F[R] = G[R]
    BY <1>1, <1>2, <1>3, <1>4, SameCount
  <2> QED
    BY <1>2, <1>4, <2>1 DEF AddsUp
<1>6. BagCardinality(B) = B[list] + F[R] /\ B[list] \in Nat
  <2>1. BagCardinality(B) = B[list] + F[R]
    BY <1>2 DEF AddsUp, R
  <2> QED
    BY <2>1 DEF Bag
<1>7. CASE B[list] = 1
  <2>1. DOMAIN less = R
    BY <1>1, <1>7 DEF R
  <2>2. BagCardinality(less) = G[R]
    BY <1>3, <2>1 DEF AddsUp
  <2> QED
    BY <1>5, <1>6, <1>7, <2>2
<1>8. CASE B[list] # 1
  <2>1. list \in DOMAIN less /\ DOMAIN less \ {list} = R
    BY <1>1, <1>8 DEF R
  <2>2. BagCardinality(less) = less[list] + G[R]
    BY <1>3, <2>1 DEF AddsUp
  <2> QED
    BY <1>1, <1>5, <1>6, <2>1, <2>2
<1> QED
  BY <1>7, <1>8

\* The reads a request will cause in tab t.
Debt(q, t) == IF q # Idle /\ q.tab = t THEN ReadsOf(q) ELSE 0

Owes(t, k) == {r \in Requests : Debt(request[r], t) >= k}

LEMMA DebtValues == \A q, t : Debt(q, t) \in {0, 1, 2}
BY DEF Debt, ReadsOf

ReservedIsOwed ==
    \A t : /\ Reserved(t) = Cardinality(Owes(t, 1)) + Cardinality(Owes(t, 2))
           /\ \A k \in {1, 2} : IsFiniteSet(Owes(t, k)) /\ Cardinality(Owes(t, k)) \in Nat

LEMMA ReservedIs == ReservedIsOwed
<1> SUFFICES ASSUME NEW t
             PROVE  /\ Reserved(t) = Cardinality(Owes(t, 1)) + Cardinality(Owes(t, 2))
                    /\ \A k \in {1, 2} : IsFiniteSet(Owes(t, k)) /\ Cardinality(Owes(t, k)) \in Nat
  BY DEF ReservedIsOwed
<1>1. ASSUME NEW k \in {1, 2} PROVE IsFiniteSet(Owes(t, k)) /\ Cardinality(Owes(t, k)) \in Nat
  BY FS_Subset, FS_CardinalityType DEF Owes
<1> DEFINE mine == {r \in Requests : request[r] # Idle /\ request[r].tab = t}
<1>2. ASSUME NEW r \in Requests
      PROVE  /\ Debt(request[r], t) >= 1 <=> r \in mine /\ ReadsOf(request[r]) >= 1
             /\ Debt(request[r], t) >= 2 <=> r \in mine /\ ReadsOf(request[r]) = 2
  BY DEF Debt, ReadsOf
<1>3. {r \in mine : ReadsOf(request[r]) >= 1} = Owes(t, 1)
  BY <1>2 DEF Owes
<1>4. {r \in mine : ReadsOf(request[r]) = 2} = Owes(t, 2)
  BY <1>2 DEF Owes
<1>5. Reserved(t) = Cardinality({r \in mine : ReadsOf(request[r]) >= 1})
                       + Cardinality({r \in mine : ReadsOf(request[r]) = 2})
  BY Zenon DEF Reserved
<1> QED
  BY <1>1, <1>3, <1>4, <1>5

\* One request changes: so does what its tab owes.
LEMMA ReservedChanges ==
    ASSUME NEW t, NEW r \in Requests, \A x \in Requests \ {r} : request'[x] = request[x]
    PROVE  /\ Reserved(t) \in Nat /\ Reserved(t)' \in Nat
           /\ Reserved(t)' + Debt(request[r], t) = Reserved(t) + Debt(request'[r], t)
<1>1. /\ Reserved(t) = Cardinality(Owes(t, 1)) + Cardinality(Owes(t, 2))
      /\ \A k \in {1, 2} : IsFiniteSet(Owes(t, k)) /\ Cardinality(Owes(t, k)) \in Nat
  BY ReservedIs DEF ReservedIsOwed
<1>2. /\ Reserved(t)' = Cardinality(Owes(t, 1)') + Cardinality(Owes(t, 2)')
      /\ \A k \in {1, 2} : IsFiniteSet(Owes(t, k)') /\ Cardinality(Owes(t, k)') \in Nat
  <2>1. ReservedIsOwed'
    BY ReservedIs, PTL
  <2> QED
    BY <2>1 DEF ReservedIsOwed
<1>3. PICK before \in {0, 1, 2}, after \in {0, 1, 2} :
         before = Debt(request[r], t) /\ after = Debt(request'[r], t)
  BY DebtValues
<1>4. ASSUME NEW k \in {1, 2}
      PROVE  \E c \in Nat :
                /\ Cardinality(Owes(t, k)) = c + (IF before >= k THEN 1 ELSE 0)
                /\ Cardinality(Owes(t, k)') = c + (IF after >= k THEN 1 ELSE 0)
  <2> DEFINE R == {x \in Requests \ {r} : Debt(request[x], t) >= k}
  <2>1. IsFiniteSet(R) /\ r \notin R /\ Cardinality(R) \in Nat
    BY FS_Subset, FS_CardinalityType
  <2>2. Owes(t, k) = IF before >= k THEN R \cup {r} ELSE R
    BY <1>3 DEF Owes
  <2>3. Owes(t, k)' = IF after >= k THEN R \cup {r} ELSE R
    BY <1>3 DEF Owes
  <2>4. Cardinality(R \cup {r}) = Cardinality(R) + 1
    <3> HIDE DEF R
    <3> QED
      BY <2>1, FS_AddElement
  <2> HIDE DEF R
  <2>5. Cardinality(Owes(t, k)) = Cardinality(R) + (IF before >= k THEN 1 ELSE 0)
    BY <2>1, <2>2, <2>4
  <2>6. Cardinality(Owes(t, k)') = Cardinality(R) + (IF after >= k THEN 1 ELSE 0)
    BY <2>1, <2>3, <2>4
  <2> QED
    BY <2>1, <2>5, <2>6
<1>5. PICK c \in Nat : /\ Cardinality(Owes(t, 1)) = c + (IF before >= 1 THEN 1 ELSE 0)
                       /\ Cardinality(Owes(t, 1)') = c + (IF after >= 1 THEN 1 ELSE 0)
  BY <1>4
<1>6. PICK d \in Nat : /\ Cardinality(Owes(t, 2)) = d + (IF before >= 2 THEN 1 ELSE 0)
                       /\ Cardinality(Owes(t, 2)') = d + (IF after >= 2 THEN 1 ELSE 0)
  BY <1>4
<1> QED
  BY <1>1, <1>2, <1>3, <1>5, <1>6

LEMMA ReservedFalls ==
    ASSUME NEW t, \A r \in Requests : Debt(request'[r], t) <= Debt(request[r], t)
    PROVE  /\ Reserved(t) \in Nat /\ Reserved(t)' \in Nat /\ Reserved(t)' <= Reserved(t)
<1>1. /\ Reserved(t) = Cardinality(Owes(t, 1)) + Cardinality(Owes(t, 2))
      /\ \A k \in {1, 2} : IsFiniteSet(Owes(t, k)) /\ Cardinality(Owes(t, k)) \in Nat
  BY ReservedIs DEF ReservedIsOwed
<1>2. Reserved(t)' = Cardinality(Owes(t, 1)') + Cardinality(Owes(t, 2)')
  <2>1. ReservedIsOwed'
    BY ReservedIs, PTL
  <2> QED
    BY <2>1 DEF ReservedIsOwed
<1>3. ASSUME NEW k \in {1, 2} PROVE Owes(t, k)' \subseteq Owes(t, k)
  <2>1. \A r \in Requests : /\ Debt(request[r], t) \in {0, 1, 2}
                            /\ Debt(request'[r], t) \in {0, 1, 2}
    BY DebtValues
  <2> QED
    BY <2>1 DEF Owes
<1>4. ASSUME NEW k \in {1, 2}
      PROVE  /\ Cardinality(Owes(t, k)') <= Cardinality(Owes(t, k))
             /\ Cardinality(Owes(t, k)') \in Nat
  BY <1>1, <1>3, FS_Subset, FS_CardinalityType
<1> QED
  BY <1>1, <1>2, <1>4

Load(t) == asked[t] + BagCardinality(answers[t]) + Reserved(t)

ReadsFit == \A t \in Tabs : Load(t) <= MaxReads

LEMMA LoadFacts ==
    ASSUME ListsOK, NEW t \in Tabs
    PROVE  /\ asked[t] \in Nat /\ BagCardinality(answers[t]) \in Nat /\ Reserved(t) \in Nat
           /\ \A k \in Nat : RoomForReads(t, k) <=> Load(t) + k <= MaxReads
<1>1. asked[t] \in Nat
  BY DEF ListsOK
<1>2. BagCardinality(answers[t]) \in Nat
  <2>1. PICK B \in Bag : B = answers[t]
    BY DEF ListsOK
  <2>2. PICK at : AddsUp(B, at)
    BY AnyOrder
  <2> QED
    BY <2>1, <2>2 DEF AddsUp
<1>3. Reserved(t) \in Nat
  BY ReservedIs DEF ReservedIsOwed
<1>4. Load(t) \in Nat
  BY <1>1, <1>2, <1>3 DEF Load
<1>5. \A k : RoomForReads(t, k) <=> Load(t) + k <= MaxReads
  BY Zenon DEF RoomForReads, Load
<1> QED
  BY <1>1, <1>2, <1>3, <1>5

\* A request that goes on costs no more reads than were set aside for it.
LEMMA RequestPays ==
    ASSUME RequestsOK, ListsOK, NEW r \in Requests, RequestNext(r), NEW t \in Tabs
    PROVE  /\ asked'[t] + Debt(request'[r], t) <= asked[t] + Debt(request[r], t)
           /\ answers' = answers /\ \A x \in Requests \ {r} : request'[x] = request[x]
<1> DEFINE q == request[r]
<1>1. /\ q \in Request /\ q # Idle /\ request' = [request EXCEPT ![r] = request'[r]]
      /\ request \in [Requests -> Request \cup {Idle}]
  BY RequestPhases
     DEF RequestsOK, RequestNext, Confirm, Refuse, SendTimeout, Mine, RentReceipt,
         MintReceipt, RevertReceipt, InPhase
<1>2. answers' = answers
  BY DEF RequestNext, Confirm, Refuse, SendTimeout, Mine, RentReceipt,
         MintReceipt, RevertReceipt, readVars
<1>3. /\ asked \in [Tabs -> Nat] /\ asked[t] \in Nat
      /\ Debt(request'[r], t) \in {0, 1, 2} /\ Debt(q, t) \in {0, 1, 2}
  BY DebtValues DEF ListsOK
<1>4. CASE Confirm(r) \/ SendTimeout(r)
  <2>1. asked' = asked
    BY <1>4 DEF Confirm, SendTimeout, readVars
  <2>2. \/ request'[r] = Idle
        \/ /\ q.phase \in {"prompt", "pending"}
           /\ request'[r] \in {[q EXCEPT !.phase = "pending"], [q EXCEPT !.waiting = FALSE]}
    BY <1>1, <1>4 DEF Confirm, SendTimeout, GivenUp, InPhase
  <2>3. CASE request'[r] = Idle
    <3>1. Debt(Idle, t) = 0
      BY DEF Debt
    <3> QED
      BY <1>1, <1>2, <1>3, <2>1, <2>3, <3>1
  <2>4. Debt(request'[r], t) <= Debt(q, t)
    BY <1>1, <1>3, <2>2, <2>3 DEF Debt, ReadsOf, Request
  <2> QED
    BY <1>1, <1>2, <1>3, <2>1, <2>4
<1>5. CASE Refuse(r) \/ RevertReceipt(r)
  <2>1. asked' = asked /\ request'[r] = Idle
    BY <1>1, <1>5 DEF Refuse, RevertReceipt, readVars
  <2>2. Debt(request'[r], t) = 0
    BY <2>1 DEF Debt
  <2> QED
    BY <1>1, <1>2, <1>3, <2>1, <2>2
<1>6. CASE Mine(r)
  <2>1. /\ asked' = asked /\ q.phase = "pending"
        /\ \/ request'[r] = Idle
           \/ \E p \in {"mined", "reverted"} : request'[r] = [q EXCEPT !.phase = p]
    BY <1>1, <1>6 DEF Mine, InPhase, readVars
  <2>2. Debt(request'[r], t) <= Debt(q, t)
    BY <1>1, <2>1 DEF Debt, ReadsOf, Request
  <2> QED
    BY <1>1, <1>2, <1>3, <2>1, <2>2
<1>7. CASE RentReceipt(r)
  <2>1. /\ q.phase = "mined" /\ q.kind = "rent" /\ request'[r] = Idle
        /\ asked' = [asked EXCEPT ![q.tab] = asked[q.tab] + 2]
    BY <1>1, <1>7 DEF RentReceipt, InPhase
  <2>2. Debt(request'[r], t) = 0 /\ Debt(q, t) = IF q.tab = t THEN 2 ELSE 0
    BY <1>1, <2>1 DEF Debt, ReadsOf
  <2>3. asked'[t] = IF q.tab = t THEN asked[t] + 2 ELSE asked[t]
    BY <1>3, <2>1
  <2>4. asked'[t] + Debt(request'[r], t) <= asked[t] + Debt(q, t)
    <3>1. CASE q.tab = t
      BY <1>3, <2>2, <2>3, <3>1
    <3>2. CASE q.tab # t
      BY <1>3, <2>2, <2>3, <3>2
    <3> QED
      BY <3>1, <3>2
  <2> QED
    BY <1>1, <1>2, <2>4
<1>8. CASE MintReceipt(r)
  <2>1. /\ q.phase = "mined" /\ q.kind = "mint" /\ request'[r] = Idle
        /\ asked' = [asked EXCEPT ![q.tab] = asked[q.tab] + 1]
    BY <1>1, <1>8 DEF MintReceipt, InPhase
  <2>2. Debt(request'[r], t) = 0 /\ Debt(q, t) = IF q.tab = t THEN 1 ELSE 0
    BY <1>1, <2>1 DEF Debt, ReadsOf
  <2>3. asked'[t] = IF q.tab = t THEN asked[t] + 1 ELSE asked[t]
    BY <1>3, <2>1
  <2>4. asked'[t] + Debt(request'[r], t) <= asked[t] + Debt(q, t)
    <3>1. CASE q.tab = t
      BY <1>3, <2>2, <2>3, <3>1
    <3>2. CASE q.tab # t
      BY <1>3, <2>2, <2>3, <3>2
    <3> QED
      BY <3>1, <3>2
  <2> QED
    BY <1>1, <1>2, <2>4
<1> QED
  BY <1>4, <1>5, <1>6, <1>7, <1>8 DEF RequestNext

LoadIsTyped ==
    ListsOK => \A t \in Tabs : /\ asked[t] \in Nat /\ BagCardinality(answers[t]) \in Nat
                               /\ Reserved(t) \in Nat

LEMMA LoadTyping == LoadIsTyped
BY LoadFacts DEF LoadIsTyped

\* A click sets aside the reads that its handler will ask for; whatever else a tab
\* does sets aside none.
LEMMA TabKeepsReads ==
    ASSUME TypeOK, RequestsOK, ListsOK, ListsOK', ReadsFit,
           NEW t \in Tabs, TabNext(t), NEW s \in Tabs
    PROVE  Load(s)' <= MaxReads
<1>1. PICK a \in Nat, b \in Nat, c \in Nat :
         a = asked[s] /\ b = BagCardinality(answers[s]) /\ c = Reserved(s)
  BY LoadFacts
<1>2. PICK a2 \in Nat, b2 \in Nat, c2 \in Nat :
         a2 = asked'[s] /\ b2 = BagCardinality(answers'[s]) /\ c2 = Reserved(s)'
  <2>1. LoadIsTyped'
    BY LoadTyping, PTL
  <2> QED
    BY <2>1 DEF LoadIsTyped
<1>3. Load(s) = a + b + c /\ Load(s)' = a2 + b2 + c2 /\ a + b + c <= MaxReads
  BY <1>1, <1>2 DEF Load, ReadsFit
<1>4. ASSUME NEW k \in Nat, RoomForReads(s, k) PROVE a + b + c + k <= MaxReads
  BY <1>3, <1>4, LoadFacts
<1>5. asked \in [Tabs -> Nat] /\ answers \in [Tabs -> Bag]
  BY DEF ListsOK
<1>6. ASSUME UNCHANGED request PROVE c2 <= c
  <2>1. \A r \in Requests : Debt(request'[r], s) <= Debt(request[r], s)
    BY <1>6, DebtValues
  <2> QED
    BY <1>1, <1>2, <2>1, ReservedFalls
<1>7. ASSUME NEW u, SelectAccount(t, u) PROVE Load(s)' <= MaxReads
  <2>1. answers' = answers /\ c2 <= c /\ asked' = [asked EXCEPT ![t] = asked[t] + 1]
    BY <1>6, <1>7 DEF SelectAccount
  <2>2. b2 = b
    BY <1>1, <1>2, <2>1
  <2>3. CASE s = t
    <3>1. a + b + c + 1 <= MaxReads
      BY <1>4, <1>7, <2>3 DEF SelectAccount
    <3>2. a2 = a + 1
      BY <1>1, <1>2, <1>5, <2>1, <2>3
    <3> QED
      BY <1>3, <2>1, <2>2, <3>1, <3>2
  <2>4. CASE s # t
    <3>1. a2 = a
      BY <1>1, <1>2, <1>5, <2>1, <2>4
    <3> QED
      BY <1>3, <2>1, <2>2, <3>1
  <2> QED
    BY <2>3, <2>4
<1>8. CASE Disconnect(t)
  <2>1. a2 = a /\ b2 = b /\ c2 <= c
    BY <1>1, <1>2, <1>6, <1>8 DEF Disconnect, readVars
  <2> QED
    BY <1>3, <2>1
<1>9. CASE Reload(t)
  <2>1. ASSUME NEW r \in Requests PROVE Debt(request'[r], s) <= Debt(request[r], s)
    <3>1. PICK q : q = request[r]
      OBVIOUS
    <3>2. q \in Request \cup {Idle}
      BY <3>1 DEF RequestsOK
    <3>3. request'[r] = IF q = Idle \/ q.tab # t THEN q
                        ELSE IF q.phase \in {"prompt", "pending"}
                             THEN [q EXCEPT !.waiting = FALSE] ELSE Idle
      BY <1>9, <3>1 DEF Reload, GivenUp
    <3>4. CASE request'[r] = q
      BY <3>1, <3>4, DebtValues
    <3>5. CASE request'[r] = Idle
      <4>1. Debt(Idle, s) = 0
        BY DEF Debt
      <4> QED
        BY <3>1, <3>5, <4>1, DebtValues
    <3>6. CASE q \in Request /\ request'[r] = [q EXCEPT !.waiting = FALSE]
      <4>1. [q EXCEPT !.waiting = FALSE] # Idle /\ q # Idle
        BY <3>6, RequestPhases
      <4>2. Debt(request'[r], s) = Debt(q, s)
        BY <3>6, <4>1 DEF Debt, ReadsOf, Request
      <4> QED
        BY <3>1, <4>2, DebtValues
    <3> QED
      BY <3>2, <3>3, <3>4, <3>5, <3>6
  <2>2. c2 <= c
    BY <1>1, <1>2, <2>1, ReservedFalls
  <2>3. /\ answers' = [answers EXCEPT ![t] = EmptyBag] /\ asked' = [asked EXCEPT ![t] = 0]
    BY <1>9 DEF Reload
  <2>4. CASE s = t
    <3>1. a2 = 0 /\ b2 = 0
      BY <1>2, <1>5, <2>3, <2>4, CountOfEmpty
    <3> QED
      BY <1>3, <2>2, <3>1
  <2>5. CASE s # t
    <3>1. a2 = a /\ b2 = b
      BY <1>1, <1>2, <1>5, <2>3, <2>5
    <3> QED
      BY <1>3, <2>2, <3>1
  <2> QED
    BY <2>4, <2>5
<1>10. ASSUME NEW r \in Requests, NEW kind \in {"mint", "rent"}, NEW n \in NftIds,
              Send(t, r, kind, n), RoomForReads(t, IF kind = "rent" THEN 2 ELSE 1)
       PROVE  Load(s)' <= MaxReads
  <2> PICK k \in {1, 2} : k = IF kind = "rent" THEN 2 ELSE 1
    OBVIOUS
  <2> DEFINE q == [phase |-> "prompt", kind |-> kind, tab |-> t,
                   user |-> account[t], nft |-> n, waiting |-> TRUE]
  <2>1. /\ \A x \in Requests \ {r} : request'[x] = request[x]
        /\ request'[r] = q /\ request[r] = Idle
    BY <1>10 DEF Send, RequestsOK
  <2>2. a2 = a /\ b2 = b
    BY <1>1, <1>2, <1>10 DEF Send, readVars
  <2>3. Debt(Idle, s) = 0 /\ Debt(q, s) = IF s = t THEN k ELSE 0
    <3>1. q # Idle
      <4>1. account[t] \in Users
        BY <1>10 DEF Send, RequestsOK
      <4>2. q \in Request
        BY <4>1 DEF Request
      <4> QED
        BY <4>2, RequestPhases
    <3> QED
      BY <3>1 DEF Debt, ReadsOf
  <2> HIDE DEF q
  <2>4. c2 + 0 = c + (IF s = t THEN k ELSE 0)
    BY <1>1, <1>2, <2>1, <2>3, ReservedChanges
  <2>5. CASE s = t
    <3>1. a + b + c + k <= MaxReads
      BY <1>4, <1>10, <2>5
    <3> QED
      BY <1>3, <2>2, <2>4, <2>5, <3>1
  <2>6. CASE s # t
    BY <1>3, <2>2, <2>4, <2>6
  <2> QED
    BY <2>5, <2>6
<1>11. CASE Answer(t)
  <2>1. /\ asked[t] > 0 /\ asked' = [asked EXCEPT ![t] = asked[t] - 1] /\ c2 <= c
        /\ answers' = [answers EXCEPT ![t] = answers[t] (+) SetToBag({GetAvailableNfts})]
    BY <1>6, <1>11 DEF Answer
  <2>2. CASE s = t
    <3>1. a2 = a - 1
      BY <1>1, <1>2, <1>5, <2>1, <2>2
    <3>2. b2 = b + 1
      <4>1. PICK B \in Bag : B = answers[t]
        BY <1>5
      <4>2. PICK list \in Seq(NftIds) : list = GetAvailableNfts
        BY OffersFacts
      <4>3. PICK more : more = B (+) SetToBag({list})
        OBVIOUS
      <4>4. BagCardinality(more) = BagCardinality(B) + 1
        BY <4>3, CountOfGain
      <4>5. answers'[t] = more
        BY <1>5, <2>1, <4>1, <4>2, <4>3
      <4> QED
        BY <1>1, <1>2, <2>2, <4>1, <4>4, <4>5
    <3> QED
      BY <1>3, <2>1, <3>1, <3>2
  <2>3. CASE s # t
    <3>1. a2 = a /\ b2 = b
      BY <1>1, <1>2, <1>5, <2>1, <2>3
    <3> QED
      BY <1>3, <2>1, <3>1
  <2> QED
    BY <2>2, <2>3
<1>12. CASE ReadFails(t)
  <2>1. asked' = [asked EXCEPT ![t] = asked[t] - 1] /\ c2 <= c /\ answers' = answers
    BY <1>6, <1>12 DEF ReadFails
  <2>2. a2 <= a /\ b2 = b
    BY <1>1, <1>2, <1>5, <2>1
  <2> QED
    BY <1>3, <2>1, <2>2
<1>13. CASE DeliverSome(t)
  <2>1. PICK list \in DOMAIN answers[t] : Deliver(t, list)
    BY <1>13 DEF DeliverSome, BagToSet
  <2>2. PICK B \in Bag : B = answers[t]
    BY <1>5
  <2>3. PICK less : less = B (-) SetToBag({list})
    OBVIOUS
  <2>4. asked' = asked /\ answers' = [answers EXCEPT ![t] = less] /\ c2 <= c
    BY <1>6, <2>1, <2>2, <2>3 DEF Deliver
  <2>5. a2 = a
    BY <1>1, <1>2, <2>4
  <2>6. b2 <= b
    <3>1. CASE s = t
      <4>1. BagCardinality(less) = BagCardinality(B) - 1
        BY <2>1, <2>2, <2>3, CountOfLoss
      <4>2. answers'[t] = less
        BY <1>5, <2>4
      <4> QED
        BY <1>1, <1>2, <2>2, <3>1, <4>1, <4>2
    <3>2. CASE s # t
      BY <1>1, <1>2, <1>5, <2>4, <3>2
    <3> QED
      BY <3>1, <3>2
  <2> QED
    BY <1>3, <2>4, <2>5, <2>6
<1>14. ASSUME NEW r \in Requests, NEW n \in NftIds, ClickMint(t, r, n) \/ ClickRent(t, r, n)
       PROVE  Load(s)' <= MaxReads
  BY <1>10, <1>14 DEF ClickMint, ClickRent
<1> QED
  BY <1>7, <1>8, <1>9, <1>11, <1>12, <1>13, <1>14 DEF TabNext

LEMMA ReadsKept ==
    ASSUME TypeOK, RequestsOK, ListsOK, ListsOK', ReadsFit, [DAppNext]_dappVars
    PROVE  ReadsFit'
<1> SUFFICES ASSUME NEW s \in Tabs PROVE Load(s)' <= MaxReads
  BY DEF ReadsFit
<1>1. PICK a \in Nat, b \in Nat, c \in Nat :
         a = asked[s] /\ b = BagCardinality(answers[s]) /\ c = Reserved(s)
  BY LoadFacts
<1>2. PICK a2 \in Nat, b2 \in Nat, c2 \in Nat :
         a2 = asked'[s] /\ b2 = BagCardinality(answers'[s]) /\ c2 = Reserved(s)'
  <2>1. LoadIsTyped'
    BY LoadTyping, PTL
  <2> QED
    BY <2>1 DEF LoadIsTyped
<1>3. Load(s) = a + b + c /\ Load(s)' = a2 + b2 + c2 /\ a + b + c <= MaxReads
  BY <1>1, <1>2 DEF Load, ReadsFit
<1>4. ASSUME NEW t \in Tabs, TabNext(t) PROVE Load(s)' <= MaxReads
  BY <1>4, TabKeepsReads
<1>5. ASSUME NEW r \in Requests, RequestNext(r) PROVE Load(s)' <= MaxReads
  <2>1. /\ asked'[s] + Debt(request'[r], s) <= asked[s] + Debt(request[r], s)
        /\ answers' = answers /\ \A x \in Requests \ {r} : request'[x] = request[x]
    BY <1>5, RequestPays
  <2>2. Reserved(s)' + Debt(request[r], s) = Reserved(s) + Debt(request'[r], s)
    BY <2>1, ReservedChanges
  <2>3. PICK d \in Nat, d2 \in Nat : d = Debt(request[r], s) /\ d2 = Debt(request'[r], s)
    <3>1. Debt(request[r], s) \in Nat /\ Debt(request'[r], s) \in Nat
      <4>1. \A q, t : Debt(q, t) \in Nat
        BY DebtValues
      <4> QED
        BY <4>1
    <3> QED
      BY <3>1
  <2>4. a2 + d2 <= a + d /\ c2 + d = c + d2 /\ b2 = b
    BY <1>1, <1>2, <2>1, <2>2, <2>3
  <2> QED
    BY <1>3, <2>4
<1>6. CASE AdvanceTime \/ UNCHANGED dappVars
  <2>1. UNCHANGED <<request, asked, answers>>
    BY <1>6 DEF AdvanceTime, dappVars, readVars
  <2>2. c2 <= c
    <3>1. \A r \in Requests : Debt(request'[r], s) <= Debt(request[r], s)
      BY <2>1, DebtValues
    <3> QED
      BY <1>1, <1>2, <3>1, ReservedFalls
  <2> QED
    BY <1>1, <1>2, <1>3, <2>1, <2>2
<1> QED
  BY <1>4, <1>5, <1>6 DEF DAppNext

LEMMA ReadsFitInitially == DAppInit /\ ListsOK => ReadsFit
<1> SUFFICES ASSUME DAppInit, ListsOK, NEW t \in Tabs PROVE Load(t) <= MaxReads
  BY DEF ReadsFit
<1>1. asked[t] = 0 /\ BagCardinality(answers[t]) = 0
  BY CountOfEmpty DEF DAppInit
<1>2. Reserved(t) = 0
  <2>1. \A r \in Requests : Debt(request[r], t) = 0
    BY DEF DAppInit, Debt
  <2>2. Owes(t, 1) = {} /\ Owes(t, 2) = {}
    BY <2>1 DEF Owes
  <2> QED
    BY <2>2, ReservedIs, FS_EmptySet DEF ReservedIsOwed
<1> QED
  BY <1>1, <1>2 DEF Load

\* A tab holds lists of ids and records of rentals, no more records than there are users,
\* and has at most MaxReads reads under way: the bound never holds back a handler.
THEOREM PageTypeCorrect == DAppSpec => []DAppTypeOK
<1>1. ASSUME TypeOK, RequestsOK, ListsOK, Backed, ReadsFit PROVE DAppTypeOK
  <2> SUFFICES ASSUME NEW t \in Tabs
               PROVE  /\ rentedNfts[t] \in Seq(Entry)
                      /\ Len(rentedNfts[t]) <= Cardinality(Users)
                      /\ shownNfts[t] \in Seq(NftIds)
                      /\ asked[t] \in Nat /\ IsABag(answers[t])
                      /\ RoomForReads(t, 0)
    BY <1>1 DEF DAppTypeOK
  <2>1. /\ rentedNfts[t] \in Seq(Entry) /\ Len(rentedNfts[t]) <= Cardinality(Users)
    BY <1>1, RecordsAreFew
  <2>2. shownNfts[t] \in Seq(NftIds) /\ asked[t] \in Nat /\ answers[t] \in Bag
    BY <1>1 DEF ListsOK
  <2>3. IsABag(answers[t])
    <3>1. PICK B \in Bag : B = answers[t]
      BY <2>2
    <3>2. PICK S : B \in [S -> Nat \ {0}]
      BY DEF Bag
    <3>3. B \in [DOMAIN B -> {n \in Nat : n > 0}]
      <4>1. \A n \in Nat \ {0} : n \in Nat /\ n > 0
        OBVIOUS
      <4> QED
        BY <3>2, <4>1
    <3> QED
      BY <3>1, <3>3 DEF IsABag
  <2>4. RoomForReads(t, 0)
    <3>1. Load(t) + 0 <= MaxReads
      <4>1. Load(t) \in Nat /\ Load(t) <= MaxReads
        <5>1. asked[t] \in Nat /\ BagCardinality(answers[t]) \in Nat /\ Reserved(t) \in Nat
          BY <1>1, LoadFacts
        <5> QED
          BY <1>1, <5>1 DEF Load, ReadsFit
      <4> QED
        BY <4>1
    <3> QED
      BY <1>1, <3>1, LoadFacts
  <2> QED
    BY <2>1, <2>2, <2>3, <2>4
<1>2. DAppSpec => []TypeOK
  BY DAppImplementsContract, TypeCorrect, PTL
<1>3. DAppSpec => []ReadsFit
  <2>1. TypeOK /\ RequestsOK /\ ListsOK /\ ListsOK' /\ ReadsFit /\ [DAppNext]_dappVars => ReadsFit'
    BY ReadsKept
  <2> QED
    BY <1>2, <2>1, ReadsFitInitially, RequestTyping, ListsTyping, PTL DEF DAppSpec
<1> QED
  BY <1>1, <1>2, <1>3, RequestTyping, ListsTyping, BackedAlways, PTL
============================================================================
