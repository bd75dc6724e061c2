------------------------- MODULE RentalPageV2Proofs --------------------------
(***************************************************************************)
(* What page v2 does to the contract is what the contract allows, each of  *)
(* its records costs two rentals, and two accounts.                        *)
(***************************************************************************)
EXTENDS RentalPageV2, RentalContractProofs

USE NoUserAssumption

----------------------------------------------------------------------------
(* Requests.                                                               *)

\* A rent knows who sends it as soon as the accounts are there.
RequestsOK ==
    /\ wallet \in [Tabs -> Users \cup {NoUser}]
    /\ account \in [Tabs -> Users \cup {NoUser}]
    /\ request \in [Requests -> Request \cup {Idle}]
    /\ \A r \in Requests :
          request[r] # Idle /\ request[r].kind = "rent" /\ request[r].phase # "accounts"
             => request[r].rentedBy \in Users
    /\ \A r \in Requests :
          request[r] # Idle /\ request[r].phase = "accounts" => request[r].leg = 1

LEMMA RequestForms ==
    /\ Idle \notin Request
    /\ \A q \in Request :
          /\ [q EXCEPT !.waiting = FALSE] \in Request
          /\ \A p \in {"accounts", "prompt", "pending", "mined", "reverted"} :
                [q EXCEPT !.phase = p] \in Request
          /\ [q EXCEPT !.phase = "prompt", !.leg = 2] \in Request
          /\ \A u \in Users : [q EXCEPT !.phase = "prompt", !.rentedBy = u] \in Request
BY DEF Request, Idle

LEMMA RequestFields ==
    ASSUME NEW q \in Request, NEW p
    PROVE  /\ LET o == [q EXCEPT !.phase = p]
              IN /\ o.kind = q.kind /\ o.rentedBy = q.rentedBy /\ o.opener = q.opener
                 /\ o.nft = q.nft /\ o.leg = q.leg /\ o.phase = p
           /\ LET o == [q EXCEPT !.waiting = FALSE]
              IN /\ o.kind = q.kind /\ o.rentedBy = q.rentedBy /\ o.opener = q.opener
                 /\ o.nft = q.nft /\ o.leg = q.leg /\ o.phase = q.phase
           /\ LET o == [q EXCEPT !.phase = "prompt", !.leg = 2]
              IN /\ o.kind = q.kind /\ o.rentedBy = q.rentedBy /\ o.opener = q.opener
                 /\ o.nft = q.nft /\ o.leg = 2 /\ o.phase = "prompt"
BY DEF Request

RequestStep(r) ==
    \/ GotAccounts(r) \/ Confirm(r) \/ Refuse(r) \/ SendTimeout(r) \/ Mine(r) \/ OnRent(r)
    \/ RentReceipt(r) \/ QuietEnd(r)

PageStep ==
    \/ \E t \in Tabs, u \in Users \cup {NoUser} : SwitchWallet(t, u)
    \/ \E t \in Tabs : FollowWallet(t) \/ ListAnswered(t) \/ ListArrives(t) \/ ListFails(t)
    \/ Tick /\ UNCHANGED <<pageVars, request>>
    \/ UNCHANGED v2Vars

LEMMA Steps ==
    ASSUME [V2Next]_v2Vars
    PROVE  \/ PageStep
           \/ \E t \in Tabs : Reload(t)
           \/ \E t \in Tabs, r \in Requests, kind \in {"mint", "rent"},
                 phase \in {"prompt", "accounts"}, n \in NftIds : Open(t, r, kind, phase, n)
           \/ \E r \in Requests : RequestStep(r)
BY DEF V2Next, PageStep, RequestStep, ClickMint, ClickRent

LEMMA OpenEffect ==
    ASSUME RequestsOK, NEW t \in Tabs, NEW r \in Requests, NEW kind \in {"mint", "rent"},
           NEW phase \in {"prompt", "accounts"}, NEW n \in NftIds, Open(t, r, kind, phase, n)
    PROVE  /\ request'[r] \in Request /\ request'[r].leg = 1 /\ request'[r].phase = phase
           /\ request'[r].kind = kind
           /\ \A x \in Requests \ {r} : request'[x] = request[x]
           /\ UNCHANGED <<contractVars, pageVars>>
<1> DEFINE q == [phase |-> phase, kind |-> kind, leg |-> 1, tab |-> t,
                 opener |-> account[t], rentedBy |-> NoUser, nft |-> n, waiting |-> TRUE]
<1>1. account[t] \in Users
  BY DEF Open, RequestsOK
<1>2. q \in Request
  BY <1>1 DEF Request
<1>3. request'[r] = q /\ \A x \in Requests \ {r} : request'[x] = request[x]
  BY DEF Open, RequestsOK
<1> QED
  BY <1>2, <1>3 DEF Open

LEMMA ReloadEffect ==
    ASSUME RequestsOK, NEW t \in Tabs, Reload(t), NEW r \in Requests
    PROVE  \/ request'[r] \in {request[r], Idle}
           \/ /\ request[r] \in Request /\ request'[r] \in Request
              /\ request'[r] = [request[r] EXCEPT !.waiting = FALSE]
BY RequestForms DEF Reload, GivenUp, RequestsOK

LEMMA TimeoutEffect ==
    ASSUME RequestsOK, NEW r \in Requests, SendTimeout(r)
    PROVE  \/ request'[r] = Idle
           \/ /\ request[r].phase \in {"prompt", "pending"}
              /\ request'[r] = [request[r] EXCEPT !.waiting = FALSE]
BY DEF SendTimeout, GivenUp, RequestsOK

LEMMA OneRequest ==
    ASSUME RequestsOK, NEW r \in Requests, RequestStep(r)
    PROVE  request[r] \in Request /\ \A x \in Requests \ {r} : request'[x] = request[x]
BY RequestForms
   DEF RequestsOK, RequestStep, GotAccounts, Confirm, Refuse, SendTimeout, Mine, OnRent,
       RentReceipt, QuietEnd, InPhase, InLeg

LEMMA RequestTyping == V2Spec => []RequestsOK
<1>1. V2Init => RequestsOK
  BY DEF V2Init, RequestsOK
<1>2. ASSUME RequestsOK, [V2Next]_v2Vars PROVE RequestsOK'
  <2> USE <1>2
  <2>1. CASE PageStep
    BY <2>1 DEF PageStep, SwitchWallet, FollowWallet, ListAnswered, ListArrives, ListFails,
       pageVars, v2Vars, RequestsOK
  <2>2. ASSUME NEW t \in Tabs, Reload(t) PROVE RequestsOK'
    <3>1. \A r \in Requests :
             request'[r] \in {request[r], Idle}
             \/ /\ request[r] \in Request /\ request'[r] \in Request
                /\ request'[r] = [request[r] EXCEPT !.waiting = FALSE]
      BY <2>2, ReloadEffect
    <3>2. \A q \in Request : LET p == [q EXCEPT !.waiting = FALSE]
                             IN p.kind = q.kind /\ p.phase = q.phase /\ p.rentedBy = q.rentedBy
      BY DEF Request
    <3>3. request' \in [Requests -> Request \cup {Idle}]
      BY <2>2, <3>1 DEF Reload, RequestsOK
    <3>4. \A r \in Requests :
             request'[r] # Idle /\ request'[r].kind = "rent" /\ request'[r].phase # "accounts"
                => request'[r].rentedBy \in Users
      BY <3>1, <3>2, RequestForms DEF RequestsOK
    <3>5. wallet' = wallet /\ account' = [account EXCEPT ![t] = NoUser]
      BY <2>2 DEF Reload
    <3>6. \A q \in Request : [q EXCEPT !.waiting = FALSE].leg = q.leg
      BY DEF Request
    <3>7. ASSUME NEW r \in Requests, request'[r] # Idle, request'[r].phase = "accounts"
          PROVE  request'[r].leg = 1
      <4>1. CASE request'[r] = request[r]
        BY <3>7, <4>1 DEF RequestsOK
      <4>2. CASE /\ request[r] \in Request
                 /\ request'[r] = [request[r] EXCEPT !.waiting = FALSE]
        <5>1. request[r] # Idle /\ request[r].phase = "accounts"
          BY <3>2, <3>7, <4>2, RequestForms
        <5> QED
          BY <3>6, <4>2, <5>1 DEF RequestsOK
      <4> QED
        BY <3>1, <3>7, <4>1, <4>2
    <3> QED
      BY <3>3, <3>4, <3>5, <3>7 DEF RequestsOK
  <2>3. ASSUME NEW t \in Tabs, NEW r \in Requests, NEW kind \in {"mint", "rent"},
               NEW phase \in {"prompt", "accounts"}, NEW n \in NftIds,
               Open(t, r, kind, phase, n), kind = "rent" => phase = "accounts"
        PROVE  RequestsOK'
    <3>1. request' \in [Requests -> Request \cup {Idle}]
      BY <2>3, OpenEffect DEF Open, RequestsOK
    <3> QED
      BY <2>3, <3>1, OpenEffect DEF pageVars, RequestsOK
  <2>4. ASSUME NEW r \in Requests, RequestStep(r) PROVE RequestsOK'
    <3>1. /\ request[r] \in Request /\ \A x \in Requests \ {r} : request'[x] = request[x]
          /\ request[r].tab \in Tabs
      BY <2>4, OneRequest DEF Request
    <3>2. UNCHANGED <<wallet, account>>
      BY <2>4 DEF RequestStep, GotAccounts, Confirm, Refuse, SendTimeout, Mine, OnRent,
         RentReceipt, QuietEnd, pageVars
    <3>3. /\ request'[r] \in Request \cup {Idle}
          /\ (request'[r] # Idle /\ request'[r].kind = "rent" /\ request'[r].phase # "accounts"
                => request'[r].rentedBy \in Users)
          /\ (request'[r] # Idle => request'[r].phase # "accounts")
      <4>1. CASE GotAccounts(r)
        <5>1. wallet[request[r].tab] \in Users \cup {NoUser}
          BY <3>1 DEF RequestsOK
        <5>2. request'[r] = IF wallet[request[r].tab] = NoUser THEN Idle
                ELSE [request[r] EXCEPT !.phase = "prompt", !.rentedBy = wallet[request[r].tab]]
          BY <4>1 DEF GotAccounts, RequestsOK
        <5>3. CASE wallet[request[r].tab] = NoUser
          BY <5>2, <5>3
        <5>4. CASE wallet[request[r].tab] # NoUser
          <6>1. [request[r] EXCEPT !.phase = "prompt", !.rentedBy = wallet[request[r].tab]].rentedBy
                  = wallet[request[r].tab]
            BY <3>1 DEF Request
          <6>2. [request[r] EXCEPT !.phase = "prompt", !.rentedBy = wallet[request[r].tab]].phase
                  = "prompt"
            BY <3>1 DEF Request
          <6> QED
            BY <3>1, <5>1, <5>2, <5>4, <6>1, <6>2, RequestForms
        <5> QED
          BY <5>3, <5>4
      <4>2. CASE Mine(r)
        <5>1. request'[r] = Idle
              \/ \E p \in {"mined", "reverted"} : request'[r] = [request[r] EXCEPT !.phase = p]
          BY <4>2 DEF Mine, RequestsOK
        <5>2. request[r].phase = "pending"
          BY <4>2 DEF Mine, InPhase
        <5>3. \A p \in {"mined", "reverted"} :
                 LET q == [request[r] EXCEPT !.phase = p]
                 IN /\ q \in Request /\ q.kind = request[r].kind
                    /\ q.rentedBy = request[r].rentedBy /\ q.phase = p
          BY <3>1, RequestForms, RequestFields
        <5>4. CASE request'[r] = Idle
          BY <5>4
        <5>5. ASSUME NEW p \in {"mined", "reverted"},
                     request'[r] = [request[r] EXCEPT !.phase = p]
              PROVE  /\ request'[r] \in Request /\ request'[r].kind = request[r].kind
                     /\ request'[r].rentedBy = request[r].rentedBy /\ request'[r].phase = p
          BY <5>3, <5>5
        <5> QED
          BY <3>1, <5>1, <5>2, <5>4, <5>5, RequestForms DEF RequestsOK
      <4>3. CASE Confirm(r) \/ OnRent(r) \/ (SendTimeout(r) /\ request'[r] # Idle)
        <5>1. \E q \in {[request[r] EXCEPT !.phase = "pending"],
                        [request[r] EXCEPT !.waiting = FALSE],
                        [request[r] EXCEPT !.phase = "prompt", !.leg = 2]} : request'[r] = q
          BY <4>3, TimeoutEffect DEF Confirm, OnRent, RequestsOK
        <5>2. request[r].phase \in {"prompt", "pending", "mined"}
          BY <4>3, TimeoutEffect DEF Confirm, OnRent, InPhase, InLeg
        <5>3. ASSUME NEW q \in {[request[r] EXCEPT !.phase = "pending"],
                               [request[r] EXCEPT !.waiting = FALSE],
                               [request[r] EXCEPT !.phase = "prompt", !.leg = 2]}
              PROVE  /\ q \in Request /\ q.kind = request[r].kind
                     /\ q.rentedBy = request[r].rentedBy
                     /\ q.phase \in {"pending", "prompt", request[r].phase}
          <6>1. CASE q = [request[r] EXCEPT !.phase = "pending"]
            BY <3>1, <6>1 DEF Request
          <6>2. CASE q = [request[r] EXCEPT !.waiting = FALSE]
            BY <3>1, <6>2 DEF Request
          <6>3. CASE q = [request[r] EXCEPT !.phase = "prompt", !.leg = 2]
            BY <3>1, <6>3 DEF Request
          <6> QED
            BY <5>3, <6>1, <6>2, <6>3
        <5> QED
          BY <3>1, <5>1, <5>2, <5>3, RequestForms DEF RequestsOK
      <4>4. CASE Refuse(r) \/ RentReceipt(r) \/ QuietEnd(r)
        BY <4>4 DEF Refuse, RentReceipt, QuietEnd, RequestsOK
      <4>5. CASE request'[r] = Idle
        BY <4>5
      <4> QED
        BY <2>4, <4>1, <4>2, <4>3, <4>4, <4>5 DEF RequestStep
    <3>4. request' \in [Requests -> Request \cup {Idle}]
      <4>1. request' = [request EXCEPT ![r] = request'[r]]
        BY <2>4 DEF RequestStep, GotAccounts, Confirm, Refuse, SendTimeout, Mine, OnRent,
           RentReceipt, QuietEnd, RequestsOK
      <4> QED
        BY <3>1, <3>3, <4>1 DEF RequestsOK
    <3>5. \A x \in Requests :
             request'[x] # Idle /\ request'[x].kind = "rent" /\ request'[x].phase # "accounts"
               => request'[x].rentedBy \in Users
      BY <3>1, <3>3 DEF RequestsOK
    <3>6. \A x \in Requests :
             request'[x] # Idle /\ request'[x].phase = "accounts" => request'[x].leg = 1
      BY <3>1, <3>3 DEF RequestsOK
    <3> QED
      BY <3>2, <3>4, <3>5, <3>6 DEF RequestsOK
  <2> QED
    BY <2>1, <2>2, <2>3, <2>4 DEF V2Next, PageStep, RequestStep, ClickMint, ClickRent
<1> QED
  BY <1>1, <1>2, PTL DEF V2Spec

----------------------------------------------------------------------------
(* The contract behind the page.                                           *)

LEMMA SendersAreUsers ==
    ASSUME RequestsOK, NEW r \in Requests, InPhase(r, "pending")
    PROVE  /\ request[r] \in Request /\ request[r].nft \in NftIds
           /\ request[r].kind = "rent" => Sender(request[r]) \in Users
<1>1. request[r] \in Request /\ request[r] # Idle /\ request[r].phase = "pending"
  BY DEF RequestsOK, InPhase
<1>2. request[r].opener \in Users /\ request[r].nft \in NftIds
  BY <1>1 DEF Request
<1>3. request[r].kind = "rent" => request[r].rentedBy \in Users
  BY <1>1 DEF RequestsOK
<1> QED
  BY <1>1, <1>2, <1>3 DEF Sender

LEMMA ContractStep ==
    ASSUME RequestsOK, [V2Next]_v2Vars
    PROVE  \/ \E n \in NftIds : Store(n)
           \/ \E u \in Users, n \in NftIds : RentNft(u, n)
           \/ Tick
           \/ UNCHANGED contractVars
<1>1. ASSUME NEW r \in Requests, Mine(r)
      PROVE  \/ \E n \in NftIds : Store(n)
             \/ \E u \in Users, n \in NftIds : RentNft(u, n)
             \/ UNCHANGED contractVars
  BY <1>1, SendersAreUsers DEF Mine
<1> QED
  BY <1>1, Steps
     DEF PageStep, SwitchWallet, FollowWallet, ListAnswered, ListArrives, ListFails, Reload,
         Open, RequestStep, GotAccounts, Confirm, Refuse, SendTimeout, OnRent, RentReceipt,
         QuietEnd, v2Vars

\* Every behaviour of the page is one of the contract, whose theorems hold of it.
THEOREM PageImplementsContract == V2Spec => Spec
<1>1. V2Init => Init
  BY DEF V2Init
<1>2. RequestsOK /\ [V2Next]_v2Vars => [Next]_contractVars
  BY ContractStep DEF Next
<1> QED
  BY <1>1, <1>2, RequestTyping, PTL DEF V2Spec, Spec

\* No step of the page ends a rental.
LEMMA RentalsGoOn ==
    ASSUME TypeOK, RequestsOK, [V2Next]_v2Vars, NEW u \in Users, rentals[u].active
    PROVE  rentals'[u].active
<1>1. rentals \in [Users -> Rental]
  BY DEF TypeOK
<1>2. ASSUME NEW v \in Users, NEW n \in NftIds, RentNft(v, n) PROVE rentals'[u].active
  BY <1>1, <1>2 DEF RentNft, CanRent
<1> QED
  BY <1>2, ContractStep DEF Store, Tick, contractVars

----------------------------------------------------------------------------
(* What a handler has behind it.                                           *)

Half(q) == q # Idle /\ q.kind = "rent" /\ (q.leg = 2 \/ q.phase = "mined")
Full(q) == q # Idle /\ q.kind = "rent" /\ q.leg = 2 /\ q.phase = "mined"

\* From q to p no transaction has succeeded.
Follows(p, q) ==
    /\ Half(p) => /\ Half(q) /\ q \in Request /\ p.nft = q.nft
                  /\ p.rentedBy = q.rentedBy /\ p.opener = q.opener
    /\ Full(p) => Full(q)

RentMined(r) ==
    Mine(r) /\ request[r].kind = "rent" /\ RentNft(Sender(request[r]), request[r].nft)

LEMMA KeptFields ==
    ASSUME NEW q \in Request, NEW p \in Request,
           p.kind = q.kind, p.nft = q.nft, p.rentedBy = q.rentedBy, p.opener = q.opener,
           p.leg = 2 \/ p.phase = "mined" => q.kind = "mint" \/ q.leg = 2 \/ q.phase = "mined",
           p.leg = 2 /\ p.phase = "mined"
             => q.kind = "mint" \/ (q.leg = 2 /\ q.phase = "mined")
    PROVE  Follows(p, q)
BY RequestForms DEF Follows, Half, Full

\* Only a rent that is mined moves a handler ahead.
LEMMA HandlersFollow ==
    ASSUME RequestsOK, [V2Next]_v2Vars
    PROVE  \/ \A r \in Requests : Follows(request'[r], request[r])
           \/ \E r \in Requests : RentMined(r)
<1>1. ASSUME NEW q \in Request \cup {Idle} PROVE Follows(q, q) /\ Follows(Idle, q)
  BY <1>1, RequestForms DEF Follows, Half, Full
<1>2. CASE PageStep
  <2>1. request' = request
    BY <1>2 DEF PageStep, SwitchWallet, FollowWallet, ListAnswered, ListArrives, ListFails,
       v2Vars
  <2> QED
    BY <1>1, <2>1 DEF RequestsOK
<1>3. ASSUME NEW t \in Tabs, Reload(t), NEW r \in Requests
      PROVE  Follows(request'[r], request[r])
  <2>1. CASE request'[r] \in {request[r], Idle}
    BY <1>1, <2>1 DEF RequestsOK
  <2>2. CASE /\ request[r] \in Request /\ request'[r] \in Request
             /\ request'[r] = [request[r] EXCEPT !.waiting = FALSE]
    <3>1. /\ request'[r].kind = request[r].kind /\ request'[r].nft = request[r].nft
          /\ request'[r].rentedBy = request[r].rentedBy
          /\ request'[r].opener = request[r].opener
          /\ request'[r].leg = request[r].leg /\ request'[r].phase = request[r].phase
      BY <2>2, RequestFields
    <3> QED
      BY <2>2, <3>1, KeptFields
  <2> QED
    BY <1>3, <2>1, <2>2, ReloadEffect
<1>4. ASSUME NEW t \in Tabs, NEW r \in Requests, NEW kind \in {"mint", "rent"},
             NEW phase \in {"prompt", "accounts"}, NEW n \in NftIds, Open(t, r, kind, phase, n),
             NEW x \in Requests
      PROVE  Follows(request'[x], request[x])
  BY <1>1, <1>4, OpenEffect DEF RequestsOK, Follows, Half, Full
<1>5. ASSUME NEW r \in Requests, RequestStep(r), ~RentMined(r)
      PROVE  Follows(request'[r], request[r])
  <2> DEFINE q == request[r]
  <2>1. q \in Request /\ q # Idle
    BY <1>5, OneRequest, RequestForms
  <2>2. CASE Refuse(r) \/ RentReceipt(r) \/ QuietEnd(r)
    <3>1. request'[r] = Idle
      BY <2>2 DEF Refuse, RentReceipt, QuietEnd, RequestsOK
    <3> QED
      BY <1>1, <2>1, <3>1
  <2>7. CASE request'[r] = Idle
    BY <1>1, <2>1, <2>7
  <2>3. CASE Confirm(r) \/ (SendTimeout(r) /\ request'[r] # Idle)
    <3>1. q.phase \in {"prompt", "pending"}
          /\ request'[r] \in {[q EXCEPT !.phase = "pending"], [q EXCEPT !.waiting = FALSE]}
      BY <2>3, TimeoutEffect DEF Confirm, InPhase, RequestsOK
    <3>2. /\ request'[r] \in Request /\ request'[r].kind = q.kind
          /\ request'[r].nft = q.nft /\ request'[r].rentedBy = q.rentedBy
          /\ request'[r].opener = q.opener /\ request'[r].leg = q.leg
          /\ request'[r].phase # "mined"
      <4>1. CASE request'[r] = [q EXCEPT !.phase = "pending"]
        BY <2>1, <4>1 DEF Request
      <4>2. CASE request'[r] = [q EXCEPT !.waiting = FALSE]
        BY <2>1, <3>1, <4>2 DEF Request
      <4> QED
        BY <3>1, <4>1, <4>2
    <3> QED
      BY <2>1, <3>2, KeptFields
  <2>4. CASE OnRent(r)
    <3>1. request'[r] = [q EXCEPT !.phase = "prompt", !.leg = 2] /\ Half(q)
      BY <2>4 DEF OnRent, InLeg, InPhase, Half, RequestsOK
    <3>2. /\ request'[r] \in Request /\ request'[r].kind = q.kind
          /\ request'[r].nft = q.nft /\ request'[r].rentedBy = q.rentedBy
          /\ request'[r].opener = q.opener /\ request'[r].phase = "prompt"
      BY <2>1, <3>1 DEF Request
    <3> QED
      BY <2>1, <3>1, <3>2 DEF Follows, Full
  <2>5. CASE GotAccounts(r)
    <3>1. /\ q.phase = "accounts"
          /\ \/ request'[r] = Idle
             \/ \E u : request'[r] = [q EXCEPT !.phase = "prompt", !.rentedBy = u]
      BY <2>5 DEF GotAccounts, InPhase, RequestsOK
    <3>2. \A u : [q EXCEPT !.phase = "prompt", !.rentedBy = u].leg = q.leg
                 /\ [q EXCEPT !.phase = "prompt", !.rentedBy = u].phase = "prompt"
      BY <2>1 DEF Request
    <3>3. q.leg = 1
      BY <2>1, <3>1 DEF RequestsOK
    <3>4. request'[r] = Idle \/ (request'[r].leg = 1 /\ request'[r].phase = "prompt")
      BY <3>1, <3>2, <3>3
    <3> QED
      BY <3>4 DEF Follows, Half, Full
  <2>6. CASE Mine(r)
    <3>1. q.phase = "pending" /\ (q.kind = "mint" \/ ~Succeeds(q))
      BY <1>5, <2>6 DEF Mine, RentMined, InPhase, Succeeds
    <3>2. \/ request'[r] = Idle
          \/ request'[r] = [q EXCEPT !.phase = "mined"] /\ q.kind = "mint"
          \/ request'[r] = [q EXCEPT !.phase = "reverted"]
      BY <2>6, <3>1 DEF Mine, Succeeds, RequestsOK
    <3>3. CASE request'[r] = Idle
      BY <1>1, <2>1, <3>3
    <3>4. CASE request'[r] = [q EXCEPT !.phase = "mined"] /\ q.kind = "mint"
      <4>1. request'[r].kind = "mint"
        BY <2>1, <3>4 DEF Request
      <4> QED
        BY <4>1 DEF Follows, Half, Full
    <3>5. CASE request'[r] = [q EXCEPT !.phase = "reverted"]
      <4>1. /\ request'[r] \in Request /\ request'[r].kind = q.kind
            /\ request'[r].nft = q.nft /\ request'[r].rentedBy = q.rentedBy
            /\ request'[r].opener = q.opener /\ request'[r].leg = q.leg
            /\ request'[r].phase = "reverted"
        BY <2>1, <3>5 DEF Request
      <4> QED
        BY <2>1, <4>1, KeptFields
    <3> QED
      BY <3>2, <3>3, <3>4, <3>5
  <2> QED
    BY <1>5, <2>2, <2>3, <2>4, <2>5, <2>6, <2>7 DEF RequestStep
<1>6. ASSUME NEW r \in Requests, RequestStep(r), ~RentMined(r), NEW x \in Requests
      PROVE  Follows(request'[x], request[x])
  BY <1>1, <1>5, <1>6, OneRequest DEF RequestsOK
<1> QED
  BY <1>2, <1>3, <1>4, <1>6, Steps

\* A rent that is mined leaves its handler one leg further, or nobody waits for it.
LEMMA MinedEffect ==
    ASSUME TypeOK, RequestsOK, NEW r \in Requests, RentMined(r)
    PROVE  \E u \in Users, n \in NftIds :
              /\ u = Sender(request[r]) /\ n = request[r].nft /\ RentNft(u, n)
              /\ request[r] \in Request /\ request[r].rentedBy \in Users
              /\ request[r].phase = "pending" /\ request[r].kind = "rent"
              /\ request'[r] = Idle \/ request'[r] = [request[r] EXCEPT !.phase = "mined"]
              /\ \A x \in Requests \ {r} : request'[x] = request[x]
              /\ rentedNfts' = rentedNfts
<1>1. Mine(r) /\ InPhase(r, "pending") /\ request[r].phase = "pending"
      /\ request[r].kind = "rent" /\ request[r] # Idle
  BY DEF RentMined, Mine, InPhase
<1>2. Sender(request[r]) \in Users /\ request[r].nft \in NftIds /\ request[r] \in Request
  BY <1>1, SendersAreUsers
<1>3. request[r].rentedBy \in Users
  BY <1>1 DEF RequestsOK
<1>4. CanRent(Sender(request[r]), request[r].nft)
  BY DEF RentMined, RentNft
<1>5. request'[r] = Idle \/ request'[r] = [request[r] EXCEPT !.phase = "mined"]
  BY <1>1, <1>4 DEF Mine, Succeeds, RequestsOK
<1>6. \A x \in Requests \ {r} : request'[x] = request[x]
  BY <1>1 DEF Mine, RequestsOK
<1> QED
  BY <1>1, <1>2, <1>3, <1>5, <1>6 DEF RentMined, Mine, pageVars

----------------------------------------------------------------------------
(* Two accounts.                                                           *)

\* Whoever sent the first rent has a rental from then on; that is why the second
\* rent reverts if it comes from the same account.
FirstRentStands ==
    \A r \in Requests :
       Half(request[r]) => request[r].rentedBy \in Users /\ rentals[request[r].rentedBy].active

TwoAccounts ==
    \A r \in Requests : Full(request[r]) => request[r].rentedBy # request[r].opener

LEMMA TwoAccountsKept ==
    ASSUME TypeOK, RequestsOK, FirstRentStands, TwoAccounts, [V2Next]_v2Vars
    PROVE  FirstRentStands' /\ TwoAccounts'
<1>1. ASSUME NEW x \in Requests, Follows(request'[x], request[x])
      PROVE  /\ Half(request'[x]) => /\ request'[x].rentedBy \in Users
                                     /\ rentals'[request'[x].rentedBy].active
             /\ Full(request'[x]) => request'[x].rentedBy # request'[x].opener
  <2>1. Full(request'[x]) => Half(request'[x])
    BY DEF Half, Full
  <2> QED
    BY <1>1, <2>1, RentalsGoOn DEF Follows, FirstRentStands, TwoAccounts
<1>2. ASSUME NEW r \in Requests, RentMined(r), NEW x \in Requests
      PROVE  /\ Half(request'[x]) => /\ request'[x].rentedBy \in Users
                                     /\ rentals'[request'[x].rentedBy].active
             /\ Full(request'[x]) => request'[x].rentedBy # request'[x].opener
  <2>1. PICK u \in Users, n \in NftIds :
              /\ u = Sender(request[r]) /\ n = request[r].nft /\ RentNft(u, n)
              /\ request[r] \in Request /\ request[r].rentedBy \in Users
              /\ request[r].phase = "pending" /\ request[r].kind = "rent"
              /\ request'[r] = Idle \/ request'[r] = [request[r] EXCEPT !.phase = "mined"]
              /\ \A y \in Requests \ {r} : request'[y] = request[y]
    BY <1>2, MinedEffect
  <2>2. CASE x # r
    <3>1. Follows(request'[x], request[x])
      BY <2>1, <2>2, RequestForms DEF Follows, Half, RequestsOK
    <3> QED
      BY <1>1, <3>1
  <2>3. CASE x = r /\ request'[r] = [request[r] EXCEPT !.phase = "mined"]
    <3>1. /\ request'[r].rentedBy = request[r].rentedBy /\ request'[r].leg = request[r].leg
          /\ request'[r].opener = request[r].opener
      BY <2>1, <2>3, RequestFields
    <3>2. rentals \in [Users -> Rental] /\ ~rentals[u].active /\ rentals'[u].active
      BY <2>1 DEF TypeOK, RentNft, CanRent
    <3>3. CASE request[r].leg = 1
      <4>1. u = request[r].rentedBy
        BY <2>1, <3>3 DEF Sender
      <4> QED
        BY <2>1, <2>3, <3>1, <3>2, <3>3, <4>1 DEF Full
    <3>4. CASE request[r].leg = 2
      <4>1. u = request[r].opener /\ request[r] # Idle
        <5>1. ~(request[r].leg = 1)
          BY <3>4
        <5> QED
          BY <2>1, <5>1, RequestForms DEF Sender
      <4>2. rentals[request[r].rentedBy].active
        BY <2>1, <3>4, <4>1 DEF FirstRentStands, Half
      <4> QED
        BY <2>1, <2>3, <3>1, <3>2, <4>1, <4>2, RentalsGoOn
    <3> QED
      BY <2>1, <3>3, <3>4 DEF Request
  <2>4. CASE x = r /\ request'[r] = Idle
    BY <2>4 DEF Half, Full
  <2> QED
    BY <2>1, <2>2, <2>3, <2>4
<1> QED
  BY <1>1, <1>2, HandlersFollow DEF FirstRentStands, TwoAccounts

\* A second rent succeeds only from another account than the first.
THEOREM SecondRentNeedsAnother == V2Spec => []SecondRentIsAnothers
<1>1. V2Init => FirstRentStands /\ TwoAccounts
  BY DEF V2Init, FirstRentStands, TwoAccounts, Half, Full
<1>2. TypeOK /\ RequestsOK /\ FirstRentStands /\ TwoAccounts /\ [V2Next]_v2Vars
        => FirstRentStands' /\ TwoAccounts'
  BY TwoAccountsKept
<1>3. TwoAccounts => SecondRentIsAnothers
  BY DEF TwoAccounts, SecondRentIsAnothers, Full, InLeg, InPhase
<1>4. V2Spec => []TypeOK
  BY PageImplementsContract, TypeCorrect, PTL
<1> QED
  BY <1>1, <1>2, <1>3, <1>4, RequestTyping, PTL DEF V2Spec

----------------------------------------------------------------------------
(* Two rentals.                                                            *)

\* R records, H handlers with a rental behind them, A of those with two, and N
\* accounts that rent.
Tally(R, H, A, N) ==
    /\ IsFiniteSet(R) /\ IsFiniteSet(H) /\ IsFiniteSet(A) /\ IsFiniteSet(N)
    /\ 2 * Cardinality(R) + Cardinality(H) + Cardinality(A) <= Cardinality(N)

OneMore(S1, S, x) == S1 \subseteq S \cup {x}
OneAhead(H1, H, A1, A, r) ==
    \/ OneMore(H1, H, r) /\ A1 \subseteq A
    \/ H1 \subseteq H /\ OneMore(A1, A, r)
OneLess(S1, S, x) == x \in S /\ S1 \subseteq S \ {x}

LEMMA TallyCounts ==
    ASSUME NEW R, NEW H, NEW A, NEW N, Tally(R, H, A, N)
    PROVE  /\ Cardinality(R) \in Nat /\ Cardinality(H) \in Nat
           /\ Cardinality(A) \in Nat /\ Cardinality(N) \in Nat
BY FS_CardinalityType DEF Tally

LEMMA TallyKept ==
    ASSUME NEW R, NEW H, NEW A, NEW N, Tally(R, H, A, N),
           NEW R1 \in SUBSET R, NEW H1 \in SUBSET H, NEW A1 \in SUBSET A,
           NEW N1, IsFiniteSet(N1), N \in SUBSET N1
    PROVE  Tally(R1, H1, A1, N1)
<1>1. /\ IsFiniteSet(R1) /\ Cardinality(R1) <= Cardinality(R) /\ Cardinality(R1) \in Nat
      /\ IsFiniteSet(H1) /\ Cardinality(H1) <= Cardinality(H) /\ Cardinality(H1) \in Nat
  BY FewerElements DEF Tally
<1>2. /\ IsFiniteSet(A1) /\ Cardinality(A1) <= Cardinality(A) /\ Cardinality(A1) \in Nat
      /\ Cardinality(N) <= Cardinality(N1) /\ Cardinality(N1) \in Nat
  BY FewerElements DEF Tally
<1> QED
  BY <1>1, <1>2, TallyCounts DEF Tally

LEMMA TallyMined ==
    ASSUME NEW R, NEW H, NEW A, NEW N, Tally(R, H, A, N), NEW u, u \notin N, NEW r,
           NEW H1, NEW A1, OneAhead(H1, H, A1, A, r)
    PROVE  Tally(R, H1, A1, N \cup {u})
<1>1. IsFiniteSet(N \cup {u}) /\ Cardinality(N \cup {u}) = Cardinality(N) + 1
  BY FS_AddElement DEF Tally
<1>2. CASE OneMore(H1, H, r) /\ A1 \subseteq A
  <2>1. /\ IsFiniteSet(H1) /\ Cardinality(H1) <= Cardinality(H) + 1 /\ Cardinality(H1) \in Nat
    BY <1>2, OneMoreElement DEF Tally, OneMore
  <2>2. /\ IsFiniteSet(A1) /\ Cardinality(A1) <= Cardinality(A) /\ Cardinality(A1) \in Nat
    BY <1>2, FS_Subset, FS_CardinalityType DEF Tally
  <2> QED
    BY <1>1, <2>1, <2>2, TallyCounts DEF Tally
<1>3. CASE H1 \subseteq H /\ OneMore(A1, A, r)
  <2>1. /\ IsFiniteSet(A1) /\ Cardinality(A1) <= Cardinality(A) + 1 /\ Cardinality(A1) \in Nat
    BY <1>3, OneMoreElement DEF Tally, OneMore
  <2>2. /\ IsFiniteSet(H1) /\ Cardinality(H1) <= Cardinality(H) /\ Cardinality(H1) \in Nat
    BY <1>3, FS_Subset, FS_CardinalityType DEF Tally
  <2> QED
    BY <1>1, <2>1, <2>2, TallyCounts DEF Tally
<1> QED
  BY <1>2, <1>3 DEF OneAhead

LEMMA TallyRecorded ==
    ASSUME NEW R, NEW H, NEW A, NEW N, Tally(R, H, A, N), NEW r, NEW x, NEW R1, NEW H1, NEW A1,
           OneMore(R1, R, x), OneLess(H1, H, r), OneLess(A1, A, r)
    PROVE  Tally(R1, H1, A1, N)
<1>1. /\ IsFiniteSet(R1) /\ Cardinality(R1) <= Cardinality(R) + 1 /\ Cardinality(R1) \in Nat
  BY OneMoreElement DEF Tally, OneMore
<1>2. /\ IsFiniteSet(H \ {r}) /\ Cardinality(H \ {r}) = Cardinality(H) - 1
      /\ IsFiniteSet(A \ {r}) /\ Cardinality(A \ {r}) = Cardinality(A) - 1
  BY FS_RemoveElement DEF Tally, OneLess
<1>3. /\ IsFiniteSet(H1) /\ Cardinality(H1) <= Cardinality(H \ {r}) /\ Cardinality(H1) \in Nat
      /\ IsFiniteSet(A1) /\ Cardinality(A1) <= Cardinality(A \ {r}) /\ Cardinality(A1) \in Nat
  BY <1>2, FewerElements DEF OneLess
<1> QED
  BY <1>1, <1>2, <1>3, TallyCounts DEF Tally

Entry == [id : NftIds, rentedAt : 0 .. MaxTime]

\* One rental of n for each handler that has one behind it, a second one for each
\* that has two, two for each record.
TwoEach ==
    /\ rentedNfts \in [Tabs -> Seq(Entry)]
    /\ \A n \in NftIds : Tally(Records(n), HalfDone(n), AllDone(n), ActiveRenters(n))

LEMMA HandlersDone ==
    \A n : /\ HalfDone(n) = {r \in Requests : Half(request[r]) /\ request[r].nft = n}
           /\ AllDone(n) = {r \in Requests : Full(request[r]) /\ request[r].nft = n}
BY DEF HalfDone, AllDone, Half, Full, InLeg, InPhase

LEMMA RentersStay ==
    ASSUME TypeOK, RequestsOK, [V2Next]_v2Vars, NEW n
    PROVE  ActiveRenters(n) \in SUBSET ActiveRenters(n)' /\ IsFiniteSet(ActiveRenters(n)')
<1>1. IsFiniteSet(ActiveRenters(n)')
  <2>1. ActiveRenters(n)' \in SUBSET Users
    BY DEF ActiveRenters
  <2> QED
    BY <2>1, UsersAssumption, FS_Subset
<1>2. ASSUME NEW u \in Users, NEW m \in NftIds, RentNft(u, m)
      PROVE  ActiveRenters(n) \subseteq ActiveRenters(n)'
  BY <1>2, RentEffect
<1>3. ASSUME NEW m \in NftIds, Store(m) PROVE ActiveRenters(n) \subseteq ActiveRenters(n)'
  BY <1>3, StoreEffect
<1>4. ASSUME Tick \/ UNCHANGED contractVars PROVE ActiveRenters(n) \subseteq ActiveRenters(n)'
  BY <1>4 DEF Tick, contractVars, ActiveRenters
<1> QED
  BY <1>1, <1>2, <1>3, <1>4, ContractStep

\* Only a second receipt adds a record.
LEMMA RecordsStep ==
    ASSUME RequestsOK, rentedNfts \in [Tabs -> Seq(Entry)], [V2Next]_v2Vars
    PROVE  \/ \E r \in Requests : RentReceipt(r)
           \/ /\ rentedNfts' \in [Tabs -> Seq(Entry)]
              /\ \A n : Records(n)' \subseteq Records(n)
<1>1. ASSUME NEW t \in Tabs, Reload(t)
      PROVE  /\ rentedNfts' \in [Tabs -> Seq(Entry)]
             /\ \A n : Records(n)' \subseteq Records(n)
  <2>1. /\ rentedNfts' \in [Tabs -> Seq(Entry)] /\ rentedNfts'[t] = <<>>
        /\ \A s \in Tabs \ {t} : rentedNfts'[s] = rentedNfts[s]
    BY <1>1 DEF Reload
  <2>2. DOMAIN rentedNfts'[t] = {}
    BY <2>1
  <2> QED
    BY <2>1, <2>2 DEF Records
<1>2. ASSUME rentedNfts' = rentedNfts PROVE \A n : Records(n)' \subseteq Records(n)
  BY <1>2 DEF Records
<1>3. \/ \E t \in Tabs : Reload(t)
      \/ \E r \in Requests : RentReceipt(r)
      \/ rentedNfts' = rentedNfts
  BY Steps
     DEF PageStep, SwitchWallet, FollowWallet, ListAnswered, ListArrives, ListFails, Open,
         RequestStep, GotAccounts, Confirm, Refuse, SendTimeout, Mine, OnRent, QuietEnd,
         v2Vars, pageVars
<1> QED
  BY <1>1, <1>2, <1>3

LEMMA ReceiptTally ==
    ASSUME TypeOK, RequestsOK, TwoEach, NEW r \in Requests, RentReceipt(r), [V2Next]_v2Vars
    PROVE  TwoEach'
<1>1. /\ request[r] \in Request /\ Full(request[r]) /\ Half(request[r])
  BY RequestForms DEF RentReceipt, InLeg, InPhase, RequestsOK, Full, Half
<1>2. PICK t \in Tabs, m \in NftIds : t = request[r].tab /\ m = request[r].nft
  BY <1>1 DEF Request
<1>3. PICK e : e = [id |-> m, rentedAt |-> now]
  OBVIOUS
<1>4. e \in Entry /\ e.id = m
  BY <1>3 DEF Entry, TypeOK
<1>5. rentedNfts' = [rentedNfts EXCEPT ![t] = Append(@, e)]
  BY <1>2, <1>3 DEF RentReceipt
<1>6. Appends(rentedNfts, rentedNfts', Tabs, Entry, t, e)
  BY <1>2, <1>4, <1>5 DEF Appends, TwoEach
<1>7. ASSUME NEW n
      PROVE  /\ Records(n)' \subseteq Records(n) \cup {<<t, Len(rentedNfts[t]) + 1>>}
             /\ m # n => Records(n)' \subseteq Records(n)
             /\ rentedNfts' \in [Tabs -> Seq(Entry)]
  <2>1. /\ Records(n) = Claims(rentedNfts, Tabs, 1 .. Cardinality(Users), {n})
        /\ Records(n)' = Claims(rentedNfts', Tabs, 1 .. Cardinality(Users), {n})
    BY DEF Records, Claims
  <2> QED
    BY <1>4, <1>6, <2>1, AppendedClaim
<1>8. /\ request'[r] = Idle /\ \A x \in Requests \ {r} : request'[x] = request[x]
  BY DEF RentReceipt, RequestsOK
<1>9. ~Half(request'[r]) /\ ~Full(request'[r])
  BY <1>8 DEF Half, Full
<1>10. ASSUME NEW n
       PROVE  /\ HalfDone(n)' \subseteq HalfDone(n) \ {r}
              /\ AllDone(n)' \subseteq AllDone(n) \ {r}
  <2>1. /\ HalfDone(n)' = {x \in Requests : Half(request'[x]) /\ request'[x].nft = n}
        /\ AllDone(n)' = {x \in Requests : Full(request'[x]) /\ request'[x].nft = n}
    BY DEF HalfDone, AllDone, Half, Full, InLeg, InPhase
  <2> QED
    BY <1>8, <1>9, <2>1, HandlersDone
<1>11. r \in HalfDone(m) /\ r \in AllDone(m)
  BY <1>1, <1>2, HandlersDone
<1>12. ActiveRenters(m)' = ActiveRenters(m) /\ \A n : ActiveRenters(n)' = ActiveRenters(n)
  BY DEF RentReceipt, contractVars, ActiveRenters
<1>13. ASSUME NEW n \in NftIds
       PROVE  Tally(Records(n)', HalfDone(n)', AllDone(n)', ActiveRenters(n)')
  <2>1. Tally(Records(n), HalfDone(n), AllDone(n), ActiveRenters(n))
    BY DEF TwoEach
  <2>2. CASE n = m
    <3>1. OneMore(Records(n)', Records(n), <<t, Len(rentedNfts[t]) + 1>>)
      BY <1>7 DEF OneMore
    <3>2. OneLess(HalfDone(n)', HalfDone(n), r) /\ OneLess(AllDone(n)', AllDone(n), r)
      BY <1>10, <1>11, <2>2 DEF OneLess
    <3>3. Tally(Records(n)', HalfDone(n)', AllDone(n)', ActiveRenters(n))
      BY <2>1, <3>1, <3>2, TallyRecorded
    <3> QED
      BY <1>12, <3>3
  <2>3. CASE n # m
    <3>1. /\ Records(n)' \in SUBSET Records(n) /\ HalfDone(n)' \in SUBSET HalfDone(n)
          /\ AllDone(n)' \in SUBSET AllDone(n)
      BY <1>7, <1>10, <2>3
    <3> QED
      BY <1>12, <2>1, <3>1, RentersStay, TallyKept
  <2> QED
    BY <2>2, <2>3
<1> QED
  BY <1>7, <1>13 DEF TwoEach

LEMMA MinedTally ==
    ASSUME TypeOK, RequestsOK, TwoEach, NEW r \in Requests, RentMined(r), [V2Next]_v2Vars
    PROVE  TwoEach'
<1>1. PICK u \in Users, m \in NftIds :
            /\ u = Sender(request[r]) /\ m = request[r].nft /\ RentNft(u, m)
            /\ request[r] \in Request /\ request[r].rentedBy \in Users
            /\ request[r].phase = "pending" /\ request[r].kind = "rent"
            /\ request'[r] = Idle \/ request'[r] = [request[r] EXCEPT !.phase = "mined"]
            /\ \A x \in Requests \ {r} : request'[x] = request[x]
            /\ rentedNfts' = rentedNfts
  BY MinedEffect
<1>2. /\ u \notin ActiveRenters(m) /\ ActiveRenters(m)' = ActiveRenters(m) \cup {u}
      /\ \A n : n # m => ActiveRenters(n)' = ActiveRenters(n)
  BY <1>1, RentEffect
<1>3. \A n : Records(n)' = Records(n)
  BY <1>1 DEF Records
<1>4. request'[r] = Idle \/ (request'[r].nft = m /\ request'[r].leg = request[r].leg)
  BY <1>1 DEF Request
<1>5. ASSUME NEW n
      PROVE  /\ HalfDone(n)' \subseteq HalfDone(n) \cup {r}
             /\ AllDone(n)' \subseteq AllDone(n) \cup {r}
             /\ n # m => r \notin HalfDone(n)' /\ r \notin AllDone(n)'
  <2>1. HalfDone(n)' = {x \in Requests : Half(request'[x]) /\ request'[x].nft = n}
        /\ AllDone(n)' = {x \in Requests : Full(request'[x]) /\ request'[x].nft = n}
    BY DEF HalfDone, AllDone, Half, Full, InLeg, InPhase
  <2>2. n # m => ~(Half(request'[r]) /\ request'[r].nft = n)
                 /\ ~(Full(request'[r]) /\ request'[r].nft = n)
    BY <1>4 DEF Half, Full
  <2> QED
    BY <1>1, <2>1, <2>2, HandlersDone
<1>6. request[r].leg = 1 => r \notin AllDone(m)'
  BY <1>4 DEF AllDone, InLeg, InPhase
<1>7. request[r].leg = 2 => r \in HalfDone(m)
  BY <1>1, RequestForms DEF HalfDone
<1>8. request[r].leg \in {1, 2}
  BY <1>1 DEF Request
<1>9. ASSUME NEW n \in NftIds
      PROVE  Tally(Records(n)', HalfDone(n)', AllDone(n)', ActiveRenters(n)')
  <2>1. Tally(Records(n), HalfDone(n), AllDone(n), ActiveRenters(n))
    BY DEF TwoEach
  <2>2. CASE n = m
    <3>1. OneAhead(HalfDone(n)', HalfDone(n), AllDone(n)', AllDone(n), r)
      BY <1>5, <1>6, <1>7, <1>8, <2>2 DEF OneAhead, OneMore
    <3>2. Tally(Records(n), HalfDone(n)', AllDone(n)', ActiveRenters(n) \cup {u})
      BY <1>2, <2>1, <2>2, <3>1, TallyMined
    <3> QED
      BY <1>2, <1>3, <2>2, <3>2
  <2>3. CASE n # m
    <3>1. /\ Records(n)' \in SUBSET Records(n) /\ HalfDone(n)' \in SUBSET HalfDone(n)
          /\ AllDone(n)' \in SUBSET AllDone(n)
      BY <1>3, <1>5, <2>3
    <3> QED
      BY <2>1, <3>1, RentersStay, TallyKept
  <2> QED
    BY <2>2, <2>3
<1> QED
  BY <1>1, <1>9 DEF TwoEach

LEMMA TwoEachKept ==
    ASSUME TypeOK, RequestsOK, TwoEach, [V2Next]_v2Vars
    PROVE  TwoEach'
<1>1. CASE /\ \A r \in Requests : Follows(request'[r], request[r])
           /\ rentedNfts' \in [Tabs -> Seq(Entry)]
           /\ \A n : Records(n)' \subseteq Records(n)
  <2>1. ASSUME NEW n
        PROVE  HalfDone(n)' \in SUBSET HalfDone(n) /\ AllDone(n)' \in SUBSET AllDone(n)
    <3>1. HalfDone(n)' = {x \in Requests : Half(request'[x]) /\ request'[x].nft = n}
          /\ AllDone(n)' = {x \in Requests : Full(request'[x]) /\ request'[x].nft = n}
      BY DEF HalfDone, AllDone, Half, Full, InLeg, InPhase
    <3>2. \A x \in Requests : Full(request'[x]) => Half(request'[x])
      BY DEF Full, Half
    <3> QED
      BY <1>1, <3>1, <3>2, HandlersDone DEF Follows
  <2>2. ASSUME NEW n \in NftIds
        PROVE  Tally(Records(n)', HalfDone(n)', AllDone(n)', ActiveRenters(n)')
    <3>1. Records(n)' \in SUBSET Records(n)
          /\ Tally(Records(n), HalfDone(n), AllDone(n), ActiveRenters(n))
      BY <1>1 DEF TwoEach
    <3> QED
      BY <2>1, <3>1, RentersStay, TallyKept
  <2> QED
    BY <1>1, <2>2 DEF TwoEach
<1> QED
  BY <1>1, HandlersFollow, RecordsStep, ReceiptTally, MinedTally DEF TwoEach

\* Whatever tabs, wallets and the network do, each record has cost two rentals.
THEOREM RecordsAreDoublePaid == V2Spec => []RecordsCostTwoRentals
<1>1. ASSUME V2Init PROVE TwoEach
  <2>1. rentedNfts = [t \in Tabs |-> <<>>] /\ rentedNfts \in [Tabs -> Seq(Entry)]
    BY <1>1 DEF V2Init
  <2>2. \A t \in Tabs : DOMAIN rentedNfts[t] = {}
    BY <2>1
  <2>3. \A n : Records(n) = {} /\ HalfDone(n) = {} /\ AllDone(n) = {} /\ ActiveRenters(n) = {}
    BY <1>1, <2>2
       DEF V2Init, Init, Records, HalfDone, AllDone, ActiveRenters, Idle, NoRental
  <2>4. IsFiniteSet({}) /\ Cardinality({}) = 0
    BY FS_EmptySet
  <2>5. Tally({}, {}, {}, {})
    BY <2>4 DEF Tally
  <2> QED
    BY <2>1, <2>3, <2>5 DEF TwoEach
<1>2. TwoEach => RecordsCostTwoRentals
  BY DEF TwoEach, Tally, RecordsCostTwoRentals
<1>3. V2Spec => []TypeOK
  BY PageImplementsContract, TypeCorrect, PTL
<1>4. TypeOK /\ RequestsOK /\ TwoEach /\ [V2Next]_v2Vars => TwoEach'
  BY TwoEachKept
<1> QED
  BY <1>1, <1>2, <1>3, <1>4, RequestTyping, PTL DEF V2Spec
=============================================================================
