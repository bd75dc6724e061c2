----------------------------- MODULE RentalPageV2 -----------------------------
(***************************************************************************)
(* The previous web page (front-end/v2) against the rental contract.  Here *)
(* the list component sends rentNft itself, from the account the wallet has*)
(* now, and when that transaction is mined it calls onRent, the handler of *)
(* the App that was rendered when the button was clicked, which sends      *)
(* rentNft a second time, from that App's account.  Only the second one    *)
(* records the rental.  The list is read once, when the component mounts.  *)
(***************************************************************************)
EXTENDS RentalContract

CONSTANTS
    Tabs,       \* open pages, each in a browser of its own
    Requests,   \* bound: handlers that run at once
    NoUser      \* null: no wallet account

ASSUME NoUserAssumption == NoUser \notin Users

VARIABLES
    wallet,       \* per tab, the account eth_accounts answers
    account,      \* App's account, per tab
    rentedNfts,   \* App's rentedNfts, per tab
    shownNfts,    \* RentNft's availableNfts, per tab
    reading,      \* per tab, RentNft's read of the list: none, asked, or an answer
    request       \* one record per invocation of a handler that sends

pageVars == <<wallet, account, rentedNfts, shownNfts, reading>>
v2Vars == <<contractVars, pageVars, request>>

Idle == [phase |-> "idle"]
NoRead == [step |-> "none"]
Asked == [step |-> "asked"]
Answered(list) == [step |-> "answered", list |-> list]

\* leg 1 is sent by RentNft, leg 2 by App; rentedBy is who sent leg 1, opener
\* the account of the App that was on the screen when the button was clicked.
Request == [phase : {"accounts", "prompt", "pending", "mined", "reverted"},
            kind : {"mint", "rent"}, leg : {1, 2}, tab : Tabs, opener : Users,
            rentedBy : Users \cup {NoUser}, nft : NftIds, waiting : BOOLEAN]

Sender(q) == IF q.kind = "rent" /\ q.leg = 1 THEN q.rentedBy ELSE q.opener

InPhase(r, p) == request[r] # Idle /\ request[r].phase = p
InLeg(r, p, leg) ==
    InPhase(r, p) /\ request[r].kind = "rent" /\ request[r].leg = leg

MintsUnderWay ==
    {r \in Requests : /\ request[r] # Idle /\ request[r].kind = "mint"
                      /\ request[r].phase \in {"prompt", "pending"}}

V2Init ==
    /\ Init
    /\ wallet = [t \in Tabs |-> NoUser]
    /\ account = [t \in Tabs |-> NoUser]
    /\ rentedNfts = [t \in Tabs |-> <<>>]
    /\ shownNfts = [t \in Tabs |-> <<>>]
    /\ reading = [t \in Tabs |-> NoRead]
    /\ request = [r \in Requests |-> Idle]

----------------------------------------------------------------------------
(* The wallet and the page.                                                *)

\* The user connects, picks another account or disconnects; the page hears of it
\* before the wallet changes again.
SwitchWallet(t, u) ==
    /\ wallet[t] = account[t] /\ wallet[t] # u
    /\ wallet' = [wallet EXCEPT ![t] = u]
    /\ UNCHANGED <<contractVars, account, rentedNfts, shownNfts, reading, request>>

\* accountsChanged.  RentNft is mounted while there is an account: it reads the
\* list when the first one arrives, keeps it when one account replaces another,
\* and loses it when there is none.
FollowWallet(t) ==
    /\ account[t] # wallet[t]
    /\ account' = [account EXCEPT ![t] = wallet[t]]
    /\ IF account[t] = NoUser THEN
          reading' = [reading EXCEPT ![t] = Asked] /\ UNCHANGED shownNfts
       ELSE IF wallet[t] = NoUser THEN
          /\ reading' = [reading EXCEPT ![t] = NoRead]
          /\ shownNfts' = [shownNfts EXCEPT ![t] = <<>>]
       ELSE UNCHANGED <<reading, shownNfts>>
    /\ UNCHANGED <<contractVars, wallet, rentedNfts, request>>

\* Nobody awaits q any more; prompts and the mempool stay.
GivenUp(q) ==
    IF q.phase \in {"prompt", "pending"} THEN [q EXCEPT !.waiting = FALSE] ELSE Idle

\* A reload drops everything but the wallet, its prompts, and the mempool.
Reload(t) ==
    /\ account' = [account EXCEPT ![t] = NoUser]
    /\ rentedNfts' = [rentedNfts EXCEPT ![t] = <<>>]
    /\ shownNfts' = [shownNfts EXCEPT ![t] = <<>>]
    /\ reading' = [reading EXCEPT ![t] = NoRead]
    /\ request' = [r \in Requests |->
                     IF request[r] = Idle \/ request[r].tab # t THEN request[r]
                     ELSE GivenUp(request[r])]
    /\ UNCHANGED <<contractVars, wallet>>

ListAnswered(t) ==
    /\ reading[t] = Asked
    /\ reading' = [reading EXCEPT ![t] = Answered(GetAvailableNfts)]
    /\ UNCHANGED <<contractVars, wallet, account, rentedNfts, shownNfts, request>>

ListArrives(t) ==
    /\ reading[t].step = "answered"
    /\ shownNfts' = [shownNfts EXCEPT ![t] = reading[t].list]
    /\ reading' = [reading EXCEPT ![t] = NoRead]
    /\ UNCHANGED <<contractVars, wallet, account, rentedNfts, request>>

\* Nobody catches it; the list stays empty.
ListFails(t) ==
    /\ reading[t] = Asked
    /\ reading' = [reading EXCEPT ![t] = NoRead]
    /\ UNCHANGED <<contractVars, wallet, account, rentedNfts, shownNfts, request>>

----------------------------------------------------------------------------
(* The handlers.                                                           *)

Open(t, r, kind, phase, n) ==
    /\ account[t] # NoUser /\ request[r] = Idle
    /\ request' = [request EXCEPT ![r] =
                     [phase |-> phase, kind |-> kind, leg |-> 1, tab |-> t,
                      opener |-> account[t], rentedBy |-> NoUser, nft |-> n,
                      waiting |-> TRUE]]
    /\ UNCHANGED <<contractVars, pageVars>>

ClickMint(t, r, n) ==
    /\ Len(availableNfts) + Cardinality(MintsUnderWay) < MaxSlots
    /\ Open(t, r, "mint", "prompt", n)

ClickRent(t, r, n) ==
    /\ \E k \in DOMAIN shownNfts[t] : shownNfts[t][k] = n
    /\ Open(t, r, "rent", "accounts", n)

\* getAccounts answers; without an account, send() throws.
GotAccounts(r) ==
    LET q == request[r] IN
    /\ InPhase(r, "accounts")
    /\ request' = [request EXCEPT ![r] =
                     IF wallet[q.tab] = NoUser THEN Idle
                     ELSE [q EXCEPT !.phase = "prompt", !.rentedBy = wallet[q.tab]]]
    /\ UNCHANGED <<contractVars, pageVars>>

Confirm(r) ==
    /\ InPhase(r, "prompt")
    /\ request' = [request EXCEPT ![r].phase = "pending"]
    /\ UNCHANGED <<contractVars, pageVars>>

\* Refused by the user, or by a simulation that reverts.
Refuse(r) ==
    /\ InPhase(r, "prompt")
    /\ request' = [request EXCEPT ![r] = Idle]
    /\ UNCHANGED <<contractVars, pageVars>>

\* send() rejects before the receipt is there; getAccounts has no such limit.
SendTimeout(r) ==
    /\ request[r] # Idle /\ request[r].phase # "accounts" /\ request[r].waiting
    /\ request' = [request EXCEPT ![r] = GivenUp(@)]
    /\ UNCHANGED <<contractVars, pageVars>>

Succeeds(q) == q.kind = "mint" \/ CanRent(Sender(q), q.nft)

Mine(r) ==
    LET q == request[r] IN
    /\ InPhase(r, "pending")
    /\ \/ q.kind = "mint" /\ Store(q.nft)
       \/ q.kind = "rent" /\ RentNft(Sender(q), q.nft)
       \/ ~Succeeds(q) /\ UNCHANGED contractVars
    /\ request' = [request EXCEPT ![r] =
                     IF ~q.waiting THEN Idle
                     ELSE [q EXCEPT !.phase =
                             IF Succeeds(q) THEN "mined" ELSE "reverted"]]
    /\ UNCHANGED pageVars

\* RentNft's rental is mined: onRent, and App's rentNftHandler sends again.
Fault_RecordAtOnce(r) ==
    LET q == request[r] IN
    /\ InLeg(r, "mined", 1)
    /\ rentedNfts' = [rentedNfts EXCEPT ![q.tab] =
                        Append(@, [id |-> q.nft, rentedAt |-> now])]
    /\ request' = [request EXCEPT ![r].phase = "prompt", ![r].leg = 2]
    /\ UNCHANGED <<contractVars, wallet, account, shownNfts, reading>>

OnRent(r) ==
    /\ InLeg(r, "mined", 1)
    /\ request' = [request EXCEPT ![r].phase = "prompt", ![r].leg = 2]
    /\ UNCHANGED <<contractVars, pageVars>>

\* App's rental is mined: it is recorded.
RentReceipt(r) ==
    LET q == request[r] IN
    /\ InLeg(r, "mined", 2)
    /\ rentedNfts' = [rentedNfts EXCEPT ![q.tab] =
                        Append(@, [id |-> q.nft, rentedAt |-> now])]
    /\ request' = [request EXCEPT ![r] = Idle]
    /\ UNCHANGED <<contractVars, wallet, account, shownNfts, reading>>

\* A mint is only logged, and so is a revert.
QuietEnd(r) ==
    /\ InPhase(r, "reverted") \/ (InPhase(r, "mined") /\ request[r].kind = "mint")
    /\ request' = [request EXCEPT ![r] = Idle]
    /\ UNCHANGED <<contractVars, pageVars>>

----------------------------------------------------------------------------

V2Next ==
    \/ \E t \in Tabs, u \in Users \cup {NoUser} : SwitchWallet(t, u)
    \/ \E t \in Tabs : FollowWallet(t)
    \/ \E t \in Tabs : Reload(t)
    \/ \E t \in Tabs : ListAnswered(t)
    \/ \E t \in Tabs : ListArrives(t)
    \/ \E t \in Tabs : ListFails(t)
    \/ \E t \in Tabs, r \in Requests, n \in NftIds : ClickMint(t, r, n)
    \/ \E t \in Tabs, r \in Requests, n \in NftIds : ClickRent(t, r, n)
    \/ \E r \in Requests : GotAccounts(r)
    \/ \E r \in Requests : Confirm(r)
    \/ \E r \in Requests : Refuse(r)
    \/ \E r \in Requests : SendTimeout(r)
    \/ \E r \in Requests : Mine(r)
    \/ \E r \in Requests : OnRent(r)
    \/ \E r \in Requests : RentReceipt(r)
    \/ \E r \in Requests : QuietEnd(r)
    \/ Tick /\ UNCHANGED <<pageVars, request>>

V2Spec == V2Init /\ [][V2Next]_v2Vars

----------------------------------------------------------------------------
(* Properties.                                                             *)

Records(n) ==
    {e \in Tabs \X (1 .. Cardinality(Users)) :
        e[2] \in DOMAIN rentedNfts[e[1]] /\ rentedNfts[e[1]][e[2]].id = n}

\* Rentals of n that a handler still at work has behind it: one from when its
\* first transaction succeeds, two from when its second does.
HalfDone(n) ==
    {r \in Requests : /\ request[r] # Idle /\ request[r].kind = "rent"
                      /\ request[r].nft = n
                      /\ request[r].leg = 2 \/ request[r].phase = "mined"}
AllDone(n) == {r \in HalfDone(n) : InLeg(r, "mined", 2)}

\* Every rental on the page has cost two rentals on the chain: one by the account
\* of the wallet, one by the account the page knew, and they were different ones.
RecordsCostTwoRentals ==
    \A n \in NftIds :
        2 * Cardinality(Records(n)) + Cardinality(HalfDone(n)) + Cardinality(AllDone(n))
            <= Cardinality(ActiveRenters(n))

\* The second transaction of a handler succeeds only if the wallet had another
\* account than the page when the button was clicked.
SecondRentIsAnothers ==
    \A r \in Requests :
        InLeg(r, "mined", 2) => request[r].rentedBy # request[r].opener
=============================================================================
