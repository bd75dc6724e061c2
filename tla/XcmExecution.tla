----------------------------- MODULE XcmExecution -----------------------------
(***************************************************************************)
(* What a message from another chain may do (xcm_config.rs): the barrier   *)
(* decides whether it runs, the executor runs one instruction after the    *)
(* other and keeps what the earlier ones did when one fails, and Transact  *)
(* turns its origin into one of this chain.  Barriers, converters and the  *)
(* executor are polkadot-sdk's; which of them are used, in which order and *)
(* on which locations, is the configuration.  The only asset is the relay  *)
(* chain's, the one LocalAssetTransactor knows.                            *)
(***************************************************************************)
EXTENDS Integers, FiniteSetsExt, SequencesExt

CONSTANTS
    SelfPara,        \* parachain_id()
    Siblings,        \* other parachains
    Users,           \* account ids of this chain
    Amount,          \* what one instruction moves
    Cost,            \* price of a message's weight
    ExistentialDeposit, \* what an account of this chain holds at least
    ChainFunds,      \* bound: what the accounts of chains start with
    UserFunds,       \* bound: and those of users
    MaxInstructions, \* of a message that can be weighed
    MaxPrefixes,     \* leading instructions WithComputedOrigin looks through
    MaxLength,       \* bound: instructions of a message that arrives
    MaxMessages      \* bound: messages that arrive

ASSUME ParaAssumption == SelfPara \notin Siblings
\* Parachain ids are numbers of 32 bits, account ids of 32 bytes.
ASSUME FiniteAssumption == IsFiniteSet(Siblings) /\ IsFiniteSet(Users)
ASSUME AmountAssumption == Amount \in Nat /\ Cost \in 0 .. Amount
ASSUME EndowmentAssumption ==
    /\ ExistentialDeposit \in Nat \ {0}
    /\ \A e \in ChainFunds \cup UserFunds : e = 0 \/ (e \in Nat /\ e >= ExistentialDeposit)
ASSUME LimitsAssumption == {MaxInstructions, MaxPrefixes, MaxLength, MaxMessages} \subseteq Nat

VARIABLES
    balances,   \* of the accounts of this chain
    trapped,    \* assets that messages left in holding (PolkadotXcm)
    fees,       \* paid for weight, to the blocks' authors
    burnt,      \* dust, and fees that no author could take
    reserve,    \* what the relay chain keeps on behalf of this chain
    sender,     \* the chain the running message came from
    message,    \* its instructions still to run
    origin,     \* the origin register
    holding,    \* the holding register
    paid,       \* BuyExecution has run
    bought,     \* what the trader has taken for weight
    dispatched, \* the calls it made: its location, and the origin they got
    received    \* bound: messages received

ledger == <<balances, trapped, fees, burnt, reserve>>
registers == <<origin, holding, paid, bought, dispatched>>
xcmVars == <<ledger, sender, message, registers, received>>

----------------------------------------------------------------------------
(* Locations, accounts and the origins of calls.                           *)

Location(parents, interior) == [parents |-> parents, interior |-> interior]
Parachain(p) == <<"Parachain", p>>
AccountId32(u) == <<"AccountId32", u>>
Plurality(body) == <<"Plurality", body>>

RelayLocation == Location(1, <<>>)
UniversalLocation == <<Parachain(SelfPara)>>
SiblingLocation(p) == Location(1, <<Parachain(p)>>)
UserLocation(u) == Location(0, <<AccountId32(u)>>)
Senders == {RelayLocation} \cup {SiblingLocation(p) : p \in Siblings}
Nowhere == Location(0, <<<<"nowhere">>>>)  \* no origin, no sender, no account

Append_(l, junction) == Location(l.parents, Append(l.interior, junction))

\* A consensus system named from above, as seen from here.
RelativeTo(junction) ==
    IF UniversalLocation = <<junction>> THEN Location(0, <<>>) ELSE Location(1, <<junction>>)

Owners == {RelayLocation} \cup {SiblingLocation(p) : p \in Siblings}
             \cup {UserLocation(u) : u \in Users}

\* An account is named by the location that owns it.
Fault_LocationToAccountId(l) ==
    IF l \in Owners THEN l
    ELSE IF \E p \in Siblings : l.interior # <<>> /\ l.interior[1] = Parachain(p)
      THEN Location(1, <<l.interior[1]>>)
    ELSE Nowhere

\* ParentIsPreset, SiblingParachainConvertsVia, AccountId32Aliases.
LocationToAccountId(l) == IF l \in Owners THEN l ELSE Nowhere

Kinds == {"SovereignAccount", "Native", "Xcm", "Superuser"}
Signed(account) == <<"Signed", account>>
Relay == <<"Relay", RelayLocation>>
SiblingPara(l) == <<"SiblingPara", l>>
Xcm(l) == <<"Xcm", l>>

\* XcmOriginToTransactDispatchOrigin: at most one converter of the list takes a
\* location and a kind, and none makes it root.
DispatchOrigins(l, kind) ==
    UNION {
      IF kind = "SovereignAccount" /\ LocationToAccountId(l) # Nowhere
        THEN {Signed(LocationToAccountId(l))} ELSE {},
      IF kind = "Native" /\ l = RelayLocation THEN {Relay} ELSE {},
      IF kind = "Native" /\ \E p \in Siblings : l = SiblingLocation(p)
        THEN {SiblingPara(l)} ELSE {},
      IF kind = "Native" /\ \E u \in Users : l = UserLocation(u) THEN {Signed(l)} ELSE {},
      IF kind = "Xcm" THEN {Xcm(l)} ELSE {}}

\* IsVoiceOfBody<RelayLocation, StakingAdminBodyId>; root is out of a message's reach.
CollatorSelectionUpdateOrigin == {Xcm(Append_(RelayLocation, Plurality("Defense")))}

----------------------------------------------------------------------------
(* Messages and the barrier.                                               *)

Op(i) == i[1]
Arg(i) == i[2]

Instructions ==
    {<<op>> : op \in {"WithdrawAsset", "ReserveAssetDeposited", "ClearOrigin",
        "BuyExecution", "UnpaidExecution", "InitiateReserveWithdraw"}}
    \cup {<<"DescendOrigin", j>> :
            j \in {Plurality("Executive"), Plurality("Defense")} \cup {AccountId32(u) : u \in Users}}
    \cup {<<"UniversalOrigin", j>> :
            j \in {Plurality("Executive"), Plurality("Defense"), Parachain(SelfPara)}
                    \cup {Parachain(p) : p \in Siblings}}
    \cup {<<"AliasOrigin", RelayLocation>>}
    \cup {<<"Transact", kind>> : kind \in Kinds}
    \cup {<<"DepositAsset", UserLocation(u)>> : u \in Users}

\* Leading instructions the barrier skips to find on whose behalf a message comes.
PrefixLength(m) ==
    CHOOSE n \in 0 .. Min({Len(m), MaxPrefixes}) :
        /\ \A i \in 1 .. n : Op(m[i]) \in {"UniversalOrigin", "DescendOrigin"}
        /\ n < Min({Len(m), MaxPrefixes}) =>
             Op(m[n + 1]) \notin {"UniversalOrigin", "DescendOrigin"}

ComputedOrigin(l, prefix) ==
    FoldLeft(LAMBDA at, i : IF Op(i) = "UniversalOrigin" THEN RelativeTo(Arg(i))
                                                        ELSE Append_(at, Arg(i)), l, prefix)

\* AllowTopLevelPaidExecutionFrom<Everything> reads at most five instructions.
PaysFirst(m) ==
    /\ m # <<>> /\ Op(m[1]) \in {"WithdrawAsset", "ReserveAssetDeposited"}
    /\ \E k \in 2 .. Min({Len(m), 5}) :
         /\ Op(m[k]) = "BuyExecution"
         /\ \A i \in 2 .. k - 1 : Op(m[i]) \in {"ClearOrigin", "AliasOrigin", "DescendOrigin"}

ParentOrParentsExecutivePlurality ==
    {RelayLocation, Append_(RelayLocation, Plurality("Executive"))}

\* AllowExplicitUnpaidExecutionFrom.
MayGoUnpaid(l, m) ==
    l \in ParentOrParentsExecutivePlurality /\ m # <<>> /\ Op(m[1]) = "UnpaidExecution"

DenyReserveTransferToRelayChain(m) ==
    \E i \in 1 .. Len(m) : Op(m[i]) = "InitiateReserveWithdraw"

Fault_AnybodyUnpaid(l, m) ==
    LET n == PrefixLength(m)
        rest == SubSeq(m, n + 1, Len(m))
    IN \/ PaysFirst(rest)
       \/ rest # <<>> /\ Op(rest[1]) = "UnpaidExecution"

Barrier(l, m) ==
    LET n == PrefixLength(m)
        rest == SubSeq(m, n + 1, Len(m))
    IN /\ Len(m) <= MaxInstructions
       /\ ~DenyReserveTransferToRelayChain(m)
       /\ PaysFirst(rest) \/ MayGoUnpaid(ComputedOrigin(l, SubSeq(m, 1, n)), rest)

----------------------------------------------------------------------------
(* The executor.                                                           *)

Init ==
    /\ \E c \in ChainFunds, u \in UserFunds :
          balances = [a \in Owners |-> IF a \in Senders THEN c ELSE u]
    /\ reserve = FoldFunction(+, 0, balances)
    /\ trapped = 0 /\ fees = 0 /\ burnt = 0
    /\ sender = Nowhere /\ message = <<>> /\ origin = Nowhere
    /\ holding = 0 /\ paid = FALSE /\ bought = 0 /\ dispatched = {} /\ received = 0

\* ProcessXcmMessage: what the barrier refuses leaves no trace.
Receive ==
    /\ sender = Nowhere
    /\ received < MaxMessages
    /\ \E from \in Senders, m \in BoundedSeq(Instructions, MaxLength) :
         /\ Barrier(from, m)
         /\ sender' = from /\ origin' = from
         /\ message' = m
    /\ received' = received + 1
    /\ UNCHANGED <<ledger, holding, paid, bought, dispatched>>

\* NativeAsset: the asset's own chain, the relay chain, is its reserve.
Fault_EveryReserve(l) == TRUE
IsReserve(l) == l = RelayLocation

Fault_UniversalAliases(l, junction) == TRUE
UniversalAliases(l, junction) == FALSE  \* Nothing
Aliasers(l, target) == FALSE            \* Nothing

Fault_CanWithdraw(l) == LocationToAccountId(l) # Nowhere
CanWithdraw(l) ==
    LocationToAccountId(l) # Nowhere /\ balances[LocationToAccountId(l)] >= Amount

\* An account lives from the existential deposit on.
CanDeposit(account) == holding = 0 \/ balances[account] + holding >= ExistentialDeposit

\* Whether an instruction succeeds on the registers it finds.
Succeeds(i) ==
    /\ Op(i) = "WithdrawAsset" => CanWithdraw(origin)
    /\ Op(i) = "ReserveAssetDeposited" => IsReserve(origin)
    /\ Op(i) = "DescendOrigin" => origin # Nowhere
    /\ Op(i) = "UniversalOrigin" => UniversalAliases(origin, Arg(i))
    /\ Op(i) = "AliasOrigin" => Aliasers(origin, Arg(i))
    /\ Op(i) = "BuyExecution" => holding >= Cost
    /\ Op(i) = "DepositAsset" => CanDeposit(LocationToAccountId(Arg(i)))
    /\ Op(i) = "Transact" => origin # Nowhere /\ DispatchOrigins(origin, Arg(i)) # {}

\* The next instruction is one of these and succeeds.
Executes(ops) ==
    /\ message # <<>>
    /\ Op(message[1]) \in ops
    /\ Succeeds(message[1])
    /\ message' = Tail(message)
    /\ UNCHANGED <<sender, trapped, fees, received>>

\* A rest below the existential deposit is dust, and the account is gone.
WithdrawAsset ==
    /\ Executes({"WithdrawAsset"})
    /\ LET account == LocationToAccountId(origin)
           rest == balances[account] - Amount
           dust == IF rest < ExistentialDeposit THEN rest ELSE 0
       IN /\ balances' = [balances EXCEPT ![account] = rest - dust]
          /\ burnt' = burnt + dust
    /\ holding' = holding + Amount
    /\ UNCHANGED <<reserve, origin, paid, bought, dispatched>>

\* The sender says that its chain has put the assets aside for this one; the
\* relay chain, which alone can, has.
ReserveAssetDeposited ==
    /\ Executes({"ReserveAssetDeposited"})
    /\ holding' = holding + Amount
    /\ reserve' = reserve + (IF sender = RelayLocation THEN Amount ELSE 0)
    /\ UNCHANGED <<balances, burnt, origin, paid, bought, dispatched>>

ChangeOrigin ==
    /\ Executes({"ClearOrigin", "DescendOrigin", "UniversalOrigin", "AliasOrigin"})
    /\ LET i == message[1]
       IN origin' = CASE Op(i) = "ClearOrigin" -> Nowhere
                      [] Op(i) = "DescendOrigin" -> Append_(origin, Arg(i))
                      [] Op(i) = "UniversalOrigin" -> RelativeTo(Arg(i))
                      [] Op(i) = "AliasOrigin" -> Arg(i)
    /\ UNCHANGED <<balances, burnt, reserve, holding, paid, bought, dispatched>>

\* UsingComponents takes the weight's price.
BuyExecution ==
    /\ Executes({"BuyExecution"})
    /\ holding' = holding - Cost
    /\ bought' = bought + Cost
    /\ paid' = TRUE
    /\ UNCHANGED <<balances, burnt, reserve, origin, dispatched>>

UnpaidExecution ==
    /\ Executes({"UnpaidExecution"})
    /\ UNCHANGED <<balances, burnt, reserve, registers>>

Transact ==
    /\ Executes({"Transact"})
    /\ dispatched' = dispatched \cup
         {[at |-> origin, as |-> as] : as \in DispatchOrigins(origin, Arg(message[1]))}
    /\ UNCHANGED <<balances, burnt, reserve, origin, holding, paid, bought>>

DepositAsset ==
    /\ Executes({"DepositAsset"})
    /\ balances' = [balances EXCEPT ![LocationToAccountId(Arg(message[1]))] = @ + holding]
    /\ holding' = 0
    /\ UNCHANGED <<burnt, reserve, origin, paid, bought, dispatched>>

\* The error of an instruction skips the rest and undoes nothing before it.
Fail ==
    /\ message # <<>>
    /\ ~Succeeds(message[1])
    /\ message' = <<>>
    /\ UNCHANGED <<ledger, sender, registers, received>>

Clear ==
    /\ sender' = Nowhere /\ origin' = Nowhere
    /\ holding' = 0 /\ paid' = FALSE /\ bought' = 0 /\ dispatched' = {}
    /\ UNCHANGED <<balances, reserve, message, received>>

Fault_NoTrap ==
    /\ sender # Nowhere /\ message = <<>>
    /\ fees' = fees + bought
    /\ Clear
    /\ UNCHANGED <<trapped, burnt>>

\* post_process: the trader gives back what failures and calls have left of the
\* weight, and what is in holding is trapped, not lost.  ToAuthor drops the fee of a
\* block without an author, and one that does not make its account live.
Finish ==
    /\ sender # Nowhere /\ message = <<>>
    /\ \E refund \in 0 .. bought, credited \in BOOLEAN :
         /\ trapped' = trapped + holding + refund
         /\ fees' = fees + (IF credited THEN bought - refund ELSE 0)
         /\ burnt' = burnt + (IF credited THEN 0 ELSE bought - refund)
    /\ Clear

Next ==
    \/ Receive
    \/ WithdrawAsset \/ ReserveAssetDeposited \/ ChangeOrigin \/ BuyExecution
    \/ UnpaidExecution \/ Transact \/ DepositAsset
    \/ Fail \/ Finish

Spec == Init /\ [][Next]_xcmVars

----------------------------------------------------------------------------
(* Properties.                                                             *)

Within(l, outer) ==
    l.parents = outer.parents /\ IsPrefix(outer.interior, l.interior)

\* Type invariant; no register goes below zero, and no account lives on less than the
\* existential deposit.
TypeOK ==
    /\ balances \in [Owners -> {0} \cup {n \in Nat : n >= ExistentialDeposit}]
    /\ {trapped, fees, burnt, reserve, holding, bought} \subseteq Nat
    /\ sender \in Senders \cup {Nowhere}
    /\ \A i \in 1 .. Len(message) : message[i] \in Instructions
    /\ origin.parents \in {0, 1}
    /\ paid \in BOOLEAN
    /\ \A d \in dispatched : d.as \in UNION {DispatchOrigins(d.at, kind) : kind \in Kinds}
    /\ received \in 0 .. MaxMessages

\* Free execution is the relay chain's: the barrier believes any leading
\* UniversalOrigin or DescendOrigin (xcm_config.rs:100-116), and a sibling's message
\* it lets in that way makes no call that has not been paid for.
UnpaidOnlyFromRelay == dispatched # {} /\ ~paid => sender = RelayLocation

\* Whatever a message does to its origin first, its calls are made by the sender or
\* by a part of it: a signed call by the account of exactly the location that makes
\* it, and those that may rule the collators come from the relay chain.
ActsOnlyAsItself ==
    \A d \in dispatched :
        /\ Within(d.at, sender)
        /\ d.as[2] = d.at
        /\ d.as \in CollatorSelectionUpdateOrigin => sender = RelayLocation

\* Each unit on this chain is one the relay chain keeps for it, through failures half
\* way, refunds, and messages that leave something in holding: none is made, and none
\* goes but the dust of accounts and the fees that found no author.
FullyBacked ==
    reserve = FoldFunction(+, 0, balances) + holding + bought + trapped + fees + burnt
=============================================================================
