----------------------------- MODULE RentalDApp -----------------------------
(***************************************************************************)
(* The web page (front-end/v4) in several browser tabs, each with a wallet,*)
(* against one rental contract.  A click opens a wallet prompt; a confirmed*)
(* transaction waits in the mempool, is mined or reverts, and its receipt  *)
(* resumes the handler, which reads the list of available copies again.    *)
(* Reads are answered and delivered in any order.  A tab may be reloaded,  *)
(* change account, or give up waiting (web3's send timeout) at any moment. *)
(* The page never calls endRental, so only Store and RentNft are mined.    *)
(***************************************************************************)
EXTENDS RentalContract, Bags

CONSTANTS
    Tabs,       \* open pages
    Requests,   \* bound: transactions on their way at once
    MaxReads,   \* bound: reads of one tab on their way at once
    NoUser      \* null: no wallet account

ASSUME NoUserAssumption == NoUser \notin Users
\* Both are bounds.
ASSUME RequestsAssumption == IsFiniteSet(Requests) /\ MaxReads \in Nat

VARIABLES
    account,      \* App's account, per tab
    rentedNfts,   \* App's rentedNfts, per tab
    shownNfts,    \* App's availableNfts, per tab
    request,      \* one record per invocation of a handler that sends
    asked,        \* per tab, getAvailableNfts calls no node has answered yet
    answers       \* per tab, a bag of answers not yet delivered

tabVars == <<account, rentedNfts, shownNfts>>
readVars == <<asked, answers>>
dappVars == <<contractVars, tabVars, request, readVars>>

Idle == [phase |-> "idle"]
Request == [phase : {"prompt", "pending", "mined", "reverted"},
            kind : {"mint", "rent"}, tab : Tabs, user : Users, nft : NftIds,
            waiting : BOOLEAN]   \* the handler still awaits send()

Entry == [id : NftIds, rentedAt : 0 .. MaxTime]

----------------------------------------------------------------------------
(* Bounds.  A tab starts something only if the reads it will cause fit, so *)
(* that the bound never holds back a handler that is already running.      *)

ReadsOf(q) ==
    IF q = Idle \/ q.phase = "reverted" THEN 0 ELSE IF q.kind = "rent" THEN 2 ELSE 1

Reserved(t) ==
    LET mine == {r \in Requests : request[r] # Idle /\ request[r].tab = t}
    IN  Cardinality({r \in mine : ReadsOf(request[r]) >= 1})
          + Cardinality({r \in mine : ReadsOf(request[r]) = 2})

RoomForReads(t, k) ==
    asked[t] + BagCardinality(answers[t]) + Reserved(t) + k <= MaxReads

MintsUnderWay ==
    {r \in Requests : /\ request[r].phase \in {"prompt", "pending"}
                      /\ request[r].kind = "mint"}

RoomForMint == Len(availableNfts) + Cardinality(MintsUnderWay) < MaxSlots

----------------------------------------------------------------------------
(* The wallet and the account.                                             *)

DAppInit ==
    /\ Init
    /\ account = [t \in Tabs |-> NoUser]
    /\ rentedNfts = [t \in Tabs |-> <<>>]
    /\ shownNfts = [t \in Tabs |-> <<>>]
    /\ request = [r \in Requests |-> Idle]
    /\ asked = [t \in Tabs |-> 0]
    /\ answers = [t \in Tabs |-> EmptyBag]

\* eth_accounts on mount, eth_requestAccounts from the button, or an
\* accountsChanged event.  A new account makes a new contract object, and the
\* effect on it reads the list; rentedNfts is left as it is.
SelectAccount(t, u) ==
    /\ account[t] # u /\ RoomForReads(t, 1)
    /\ account' = [account EXCEPT ![t] = u]
    /\ asked' = [asked EXCEPT ![t] = @ + 1]
    /\ UNCHANGED <<contractVars, rentedNfts, shownNfts, request, answers>>

\* accountsChanged with an empty list.
Disconnect(t) ==
    /\ account[t] # NoUser
    /\ account' = [account EXCEPT ![t] = NoUser]
    /\ UNCHANGED <<contractVars, rentedNfts, shownNfts, request, readVars>>

\* A handler that no longer awaits q: what is in the wallet's prompt or in the
\* mempool stays there, and its outcome reaches nobody.
GivenUp(q) ==
    IF q.phase \in {"prompt", "pending"} THEN [q EXCEPT !.waiting = FALSE] ELSE Idle

\* Reloading the page drops what the tab knew and whom it awaited.
Reload(t) ==
    /\ account' = [account EXCEPT ![t] = NoUser]
    /\ rentedNfts' = [rentedNfts EXCEPT ![t] = <<>>]
    /\ shownNfts' = [shownNfts EXCEPT ![t] = <<>>]
    /\ request' = [r \in Requests |->
                     IF request[r] = Idle \/ request[r].tab # t THEN request[r]
                     ELSE GivenUp(request[r])]
    /\ asked' = [asked EXCEPT ![t] = 0]
    /\ answers' = [answers EXCEPT ![t] = EmptyBag]
    /\ UNCHANGED contractVars

----------------------------------------------------------------------------
(* Sending: mintNftHandler and rentNftHandler up to their first await.     *)

Send(t, r, kind, n) ==
    /\ account[t] # NoUser /\ request[r] = Idle
    /\ request' = [request EXCEPT ![r] =
                     [phase |-> "prompt", kind |-> kind, tab |-> t,
                      user |-> account[t], nft |-> n, waiting |-> TRUE]]
    /\ UNCHANGED <<contractVars, tabVars, readVars>>

\* The mint buttons are always there; a list entry has a Rent button.
ClickMint(t, r, n) ==
    /\ RoomForMint /\ RoomForReads(t, 1)
    /\ Send(t, r, "mint", n)

ClickRent(t, r, n) ==
    /\ \E k \in DOMAIN shownNfts[t] : shownNfts[t][k] = n
    /\ RoomForReads(t, 2)
    /\ Send(t, r, "rent", n)

InPhase(r, p) == request[r] # Idle /\ request[r].phase = p

Confirm(r) ==
    /\ InPhase(r, "prompt")
    /\ request' = [request EXCEPT ![r].phase = "pending"]
    /\ UNCHANGED <<contractVars, tabVars, readVars>>

\* The user refuses, or the simulation before sending says the call reverts:
\* send() throws and the handler's catch ends it.
Refuse(r) ==
    /\ InPhase(r, "prompt")
    /\ request' = [request EXCEPT ![r] = Idle]
    /\ UNCHANGED <<contractVars, tabVars, readVars>>

\* send() rejects before the receipt is there: the prompt was open too long, the
\* transaction too long in the mempool, or the receipt not found in time.  The
\* catch only logs, and nothing is recalled.
SendTimeout(r) ==
    /\ request[r] # Idle /\ request[r].waiting
    /\ request' = [request EXCEPT ![r] = GivenUp(@)]
    /\ UNCHANGED <<contractVars, tabVars, readVars>>

----------------------------------------------------------------------------
(* The chain.                                                              *)

\* The call of request r: its effect on the contract, or a revert.
Succeeds(q) == q.kind = "mint" \/ CanRent(q.user, q.nft)

Mine(r) ==
    LET q == request[r] IN
    /\ InPhase(r, "pending")
    /\ \/ q.kind = "mint" /\ Store(q.nft)
       \/ q.kind = "rent" /\ RentNft(q.user, q.nft)
       \/ ~Succeeds(q) /\ UNCHANGED contractVars
    /\ request' = [request EXCEPT ![r] =
                     IF ~q.waiting THEN Idle
                     ELSE [q EXCEPT !.phase =
                             IF Succeeds(q) THEN "mined" ELSE "reverted"]]
    /\ UNCHANGED <<tabVars, readVars>>

AdvanceTime == Tick /\ UNCHANGED <<tabVars, request, readVars>>

----------------------------------------------------------------------------
(* The handlers after send().                                              *)

\* rentNftHandler: append to rentedNfts, read the list; the effect on rentedNfts
\* reads it too.
Fault_RecordOnRevert(r) ==
    LET q == request[r] IN
    /\ InPhase(r, "mined") \/ InPhase(r, "reverted")
    /\ q.kind = "rent"
    /\ rentedNfts' = [rentedNfts EXCEPT ![q.tab] =
                        Append(@, [id |-> q.nft, rentedAt |-> now])]
    /\ asked' = [asked EXCEPT ![q.tab] = @ + 2]
    /\ request' = [request EXCEPT ![r] = Idle]
    /\ UNCHANGED <<contractVars, account, shownNfts, answers>>

RentReceipt(r) ==
    LET q == request[r] IN
    /\ InPhase(r, "mined") /\ q.kind = "rent"
    /\ rentedNfts' = [rentedNfts EXCEPT ![q.tab] =
                        Append(@, [id |-> q.nft, rentedAt |-> now])]
    /\ asked' = [asked EXCEPT ![q.tab] = @ + 2]
    /\ request' = [request EXCEPT ![r] = Idle]
    /\ UNCHANGED <<contractVars, account, shownNfts, answers>>

\* mintNftHandler: read the list.
MintReceipt(r) ==
    /\ InPhase(r, "mined") /\ request[r].kind = "mint"
    /\ asked' = [asked EXCEPT ![request[r].tab] = @ + 1]
    /\ request' = [request EXCEPT ![r] = Idle]
    /\ UNCHANGED <<contractVars, tabVars, answers>>

\* A reverted transaction makes send() throw; the catch only logs.
Fault_RevertNotReported(r) == InPhase(r, "reverted") /\ UNCHANGED dappVars

RevertReceipt(r) ==
    /\ InPhase(r, "reverted")
    /\ request' = [request EXCEPT ![r] = Idle]
    /\ UNCHANGED <<contractVars, tabVars, readVars>>

----------------------------------------------------------------------------
(* Reads of getAvailableNfts.                                              *)

\* A node executes the call on the state it has now.
Answer(t) ==
    /\ asked[t] > 0
    /\ asked' = [asked EXCEPT ![t] = @ - 1]
    /\ answers' = [answers EXCEPT ![t] = @ (+) SetToBag({GetAvailableNfts})]
    /\ UNCHANGED <<contractVars, tabVars, request>>

\* The call fails; the catch only logs.
ReadFails(t) ==
    /\ asked[t] > 0
    /\ asked' = [asked EXCEPT ![t] = @ - 1]
    /\ UNCHANGED <<contractVars, tabVars, request, answers>>

\* setAvailableNfts with whatever answer arrives, however old it is.
Deliver(t, list) ==
    /\ BagIn(list, answers[t])
    /\ answers' = [answers EXCEPT ![t] = @ (-) SetToBag({list})]
    /\ shownNfts' = [shownNfts EXCEPT ![t] = list]
    /\ UNCHANGED <<contractVars, account, rentedNfts, request, asked>>

DeliverSome(t) == \E list \in BagToSet(answers[t]) : Deliver(t, list)

ReceiptOf(r) == RentReceipt(r) \/ MintReceipt(r) \/ RevertReceipt(r)

ReadEnds(t) == Answer(t) \/ ReadFails(t)

----------------------------------------------------------------------------

TabNext(t) ==
    \/ \E u \in Users : SelectAccount(t, u)
    \/ Disconnect(t)
    \/ Reload(t)
    \/ \E r \in Requests, n \in NftIds : ClickMint(t, r, n)
    \/ \E r \in Requests, n \in NftIds : ClickRent(t, r, n)
    \/ Answer(t)
    \/ ReadFails(t)
    \/ DeliverSome(t)

RequestNext(r) ==
    \/ Confirm(r)
    \/ Refuse(r)
    \/ SendTimeout(r)
    \/ Mine(r)
    \/ RentReceipt(r)
    \/ MintReceipt(r)
    \/ RevertReceipt(r)

DAppNext ==
    \/ \E t \in Tabs : TabNext(t)
    \/ \E r \in Requests : RequestNext(r)
    \/ AdvanceTime

\* Blocks keep coming and include what is pending; receipts and answers arrive,
\* or the call fails.  Nobody has to click, confirm or keep the page open.
Fairness ==
    /\ \A r \in Requests :
          /\ WF_dappVars(Mine(r))
          /\ WF_dappVars(ReceiptOf(r))
    /\ \A t \in Tabs :
          /\ WF_dappVars(ReadEnds(t))
          /\ WF_dappVars(DeliverSome(t))

DAppSpec == DAppInit /\ [][DAppNext]_dappVars /\ Fairness

----------------------------------------------------------------------------
(* Properties.                                                             *)

LocalRecords(n) ==
    {e \in Tabs \X (1 .. Cardinality(Users)) :
        /\ e[2] \in DOMAIN rentedNfts[e[1]]
        /\ rentedNfts[e[1]][e[2]].id = n}

RentReceiptsDue(n) ==
    {r \in Requests : /\ InPhase(r, "mined")
                      /\ request[r].kind = "rent" /\ request[r].nft = n}

Offers(list, n) == Cardinality({k \in DOMAIN list : list[k] = n})

\* Every request names a tab, an account and an id that exist.
RequestsOK ==
    /\ account \in [Tabs -> Users \cup {NoUser}]
    /\ request \in [Requests -> Request \cup {Idle}]

\* Type invariant of the page; a tab records no more rentals than there are addresses.
DAppTypeOK ==
    /\ TypeOK /\ RequestsOK
    /\ \A t \in Tabs :
          /\ rentedNfts[t] \in Seq(Entry) /\ Len(rentedNfts[t]) <= Cardinality(Users)
          /\ shownNfts[t] \in Seq(NftIds)
          /\ asked[t] \in Nat /\ IsABag(answers[t])
          /\ RoomForReads(t, 0)

\* Clicking twice, clicking in two tabs, or clicking again after a timeout or a
\* reload never makes a tab record a rental that the contract did not grant:
\* records and receipts under way for an id are at most its active rentals.
RecordsBackedByRentals ==
    \A n \in NftIds :
        Cardinality(LocalRecords(n)) + Cardinality(RentReceiptsDue(n))
            <= Cardinality(ActiveRenters(n))

\* However transactions race, each rental takes one copy and no copy is taken
\* without a rental, even of an id minted several times.
EachRentalTakesOneCopy ==
    \A n \in NftIds : Cardinality(RentedSlots(n)) = Cardinality(ActiveRenters(n))

\* A list on the screen or on its way may be out of date, but in one direction
\* only: each offer of an id that is no longer free has been taken by a renter.
StaleOffersWereTaken ==
    \A t \in Tabs : \A list \in BagToSet(answers[t]) \cup {shownNfts[t]} :
        \A n \in NftIds :
            Offers(list, n) <= Cardinality(FreeSlots(n)) + Cardinality(ActiveRenters(n))

\* A transaction in the mempool is mined and its handler comes to an end,
\* whether it succeeds, reverts, times out or loses its page.
ConfirmedRequestsSettle ==
    \A r \in Requests : InPhase(r, "pending") ~> (request[r] = Idle)

----------------------------------------------------------------------------
(* What comments and documents say, against what the page does.            *)

\* README.md line 33: "Game clients (or backend servers) query our smart contract
\* directly to verify a player's NFT access pass".  A connected tab that awaits
\* nothing does not say "No access yet" to a user the contract gives access.
NothingUnderWay(t) ==
    /\ asked[t] = 0 /\ answers[t] = EmptyBag
    /\ \A r \in Requests : request[r] = Idle

AccessShownWhenGranted ==
    \A t \in Tabs :
        /\ account[t] # NoUser /\ NothingUnderWay(t)
        /\ CheckAccess(account[t]) # 0
        => rentedNfts[t] # <<>>

\* App.jsx line 108: "Fetch available NFTs after contract is ready or after
\* updates".  A list that is up to date is not replaced by an older one while
\* the contract does not change.
UpToDateListStays ==
    [][\A t \in Tabs :
          /\ shownNfts[t] = GetAvailableNfts /\ account'[t] # NoUser
          /\ UNCHANGED availableNfts
          => shownNfts'[t] = GetAvailableNfts]_dappVars
============================================================================
