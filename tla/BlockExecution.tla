---------------------------- MODULE BlockExecution ----------------------------
(***************************************************************************)
(* From a signed transaction to a call of a pallet: the pool, the checks   *)
(* of TxExtension (nonce, weight, payment), the dispatch, and the block    *)
(* they happen in (polkadot-sdk/runtime).  Executive, the extensions and   *)
(* the pool are polkadot-sdk's, under the limits that the runtime sets.    *)
(* A weight has one dimension, a transaction is immortal, and amounts      *)
(* count existential deposits: fees leave one and a transfer takes all, so *)
(* that no less is ever left over.                                         *)
(***************************************************************************)
EXTENDS TemplatePallet, FiniteSetsExt, Functions

CONSTANTS
    SudoKey,            \* who may call sudo
    MaximumBlockWeight, \* 2 seconds in the code
    BaseBlock,          \* BlockExecutionWeight
    BaseExtrinsic,      \* ExtrinsicBaseWeight
    LengthFee,          \* of every transaction
    Funds,              \* balances at first
    MaxNonce,           \* bound: transactions of an account
    MaxPool             \* bound: transactions that wait

ASSUME SudoAssumption == SudoKey \in Accounts
ASSUME WeightAssumption ==
    MaximumBlockWeight \in Nat \ {0} /\ {BaseBlock, BaseExtrinsic, LengthFee} \subseteq Nat
ASSUME FundsAssumption == Funds \in [Accounts -> Nat]
ASSUME ChainBoundsAssumption == MaxNonce \in Nat /\ MaxPool \in Nat

VARIABLES
    balance, \* an account exists as long as it has an existential deposit
    nonce,   \* of the accounts that exist
    pool,    \* the transactions that wait
    used,    \* the weight of the current block, by class
    applied  \* the nonces an account has used since it exists, in order

accounts == <<balance, nonce, applied>>
chainVars == <<palletVars, accounts, pool, used>>

ExistentialDeposit == 1
Exists(a) == balance[a] >= ExistentialDeposit

\* `class' of a call; what hooks and inherents use is Mandatory.
Classes == {"Normal", "Operational", "Mandatory"}

----------------------------------------------------------------------------
(* Limits.                                                                 *)

Percent(n) == (n * MaximumBlockWeight) \div 100

NormalDispatchRatio == 75
AverageOnInitializeRatio == 5
MessageQueueServiceWeight == Percent(35)

\* The hooks leave room in a block.
ASSUME HooksAssumption == BaseBlock + MessageQueueServiceWeight <= MaximumBlockWeight

MaxTotal(class) ==
    IF class = "Normal" THEN Percent(NormalDispatchRatio) ELSE MaximumBlockWeight

Reserved(class) ==
    IF class = "Operational" THEN MaximumBlockWeight - Percent(NormalDispatchRatio) ELSE 0

Fault_IgnoresInitialization(class) == MaxTotal(class) - BaseExtrinsic
MaxExtrinsic(class) == MaxTotal(class) - Percent(AverageOnInitializeRatio) - BaseExtrinsic

Total(weights) == weights["Normal"] + weights["Operational"] + weights["Mandatory"]

\* CheckWeight: within the share of the class, and within the block or, above it,
\* within what is reserved for the class.
Fault_ReservedIsExtra(weights, class, w) ==
    LET after == [weights EXCEPT ![class] = @ + BaseExtrinsic + w]
    IN /\ after[class] <= MaxTotal(class)
       /\ Total(after) <= MaximumBlockWeight + Reserved(class)

Fits(weights, class, w) ==
    LET after == [weights EXCEPT ![class] = @ + BaseExtrinsic + w]
    IN /\ after[class] <= MaxTotal(class)
       /\ Total(after) > MaximumBlockWeight => after[class] <= Reserved(class)

\* WeightToFee: a full block costs about sixteen existential deposits.
WeightToFee(w) == (16 * w) \div MaximumBlockWeight
Fee(w) == LengthFee + WeightToFee(BaseExtrinsic + w)

----------------------------------------------------------------------------
(* Transactions.                                                           *)

\* What an account calls for itself, or the sudo key for root (Unsigned, by sudo) or
\* for any account (by sudo_as); and sudo_unchecked_weight around a call that leaves
\* this state alone.
PlainCalls ==
    {<<"do_something", bn>> : bn \in 0 .. MaxArgument}
    \cup {<<"cause_error">>}
    \cup {<<"transfer_all", a>> : a \in Accounts}

HeavyCalls ==
    {<<"sudo_unchecked_weight", "Normal", MaxExtrinsic("Normal")>>}
    \cup {<<"sudo_unchecked_weight", "Operational", w>> :
            w \in {Percent(100 - NormalDispatchRatio) - BaseExtrinsic,
                   MaxExtrinsic("Operational")}}

Calls ==
    PlainCalls \cup HeavyCalls
    \cup {<<"sudo", origin, call>> : origin \in Origins, call \in PlainCalls}

Class(call) == IF call \in HeavyCalls THEN call[2] ELSE "Normal"
Weight(call) == IF call \in HeavyCalls THEN call[3] ELSE 0

\* ChargeTransactionPayment keeps the account alive.
Fault_MayKill(a, fee) == balance[a] >= fee
Fault_PaysLater(a, fee) == TRUE
CanPay(a, fee) == balance[a] - fee >= ExistentialDeposit

\* validate_transaction: the nonce may be ahead, and the weight of the current
\* block does not count.
Valid(tx) ==
    /\ Exists(tx.signer)
    /\ tx.nonce >= nonce[tx.signer]
    /\ Weight(tx.call) <= MaxExtrinsic(Class(tx.call))
    /\ CanPay(tx.signer, Fee(Weight(tx.call)))

\* prepare: now the nonce is the account's, and the block has room.
Fault_AheadIsFine(tx) == Valid(tx) /\ Fits(used, Class(tx.call), Weight(tx.call))

Applicable(tx) ==
    /\ Valid(tx)
    /\ tx.nonce = nonce[tx.signer]
    /\ Fits(used, Class(tx.call), Weight(tx.call))

ChainInit ==
    /\ Init
    /\ balance = Funds
    /\ nonce = [a \in Accounts |-> 0]
    /\ applied = [a \in Accounts |-> <<>>]
    /\ pool = {}
    /\ used = [class \in Classes |-> IF class = "Mandatory" THEN BaseBlock ELSE 0]

Submit(a, n, call) ==
    LET tx == [signer |-> a, nonce |-> n, call |-> call]
    IN /\ Cardinality(pool) < MaxPool
       /\ Valid(tx)
       /\ pool' = pool \cup {tx}
       /\ UNCHANGED <<palletVars, accounts, used>>

\* The pool forgets a transaction: it is in a block, stale, or one too many.
Drop(tx) == pool' = pool \ {tx} /\ UNCHANGED <<palletVars, accounts, used>>

AfterFee(tx) == [balance EXCEPT ![tx.signer] = @ - Fee(Weight(tx.call))]

\* What a call leaves in the pallet, and of the balances b.  transfer_all does not keep
\* its account alive; to oneself it changes nothing, and root has no account.
Dispatch(call, origin) ==
    \/ \E bn \in 0 .. MaxArgument : call = <<"do_something", bn>> /\ DoSomething(origin, bn)
    \/ call = <<"cause_error">> /\ CauseError(origin)
    \/ (\E to \in Accounts : call = <<"transfer_all", to>>) /\ UNCHANGED palletVars

AfterCall(call, origin, b) ==
    IF call[1] = "transfer_all" /\ origin \in Accounts \ {call[2]}
    THEN [b EXCEPT ![origin] = 0, ![call[2]] = @ + b[origin]] ELSE b

\* The fee comes back only to an account that still exists.
Refunded(tx, b) ==
    IF b[tx.signer] = 0 THEN b ELSE [b EXCEPT ![tx.signer] = @ + Fee(Weight(tx.call))]

\* The nonce moved on before the call; an account that ended has lost it.
Leaves(tx, b) ==
    LET lost(a) == b[a] < ExistentialDeposit
    IN /\ balance' = b
       /\ nonce' = [a \in Accounts |->
             IF lost(a) THEN 0 ELSE IF a = tx.signer THEN tx.nonce + 1 ELSE nonce[a]]
       /\ applied' = [a \in Accounts |->
             IF lost(a) THEN <<>>
             ELSE IF a = tx.signer THEN Append(applied[a], tx.nonce) ELSE applied[a]]

\* Only for the key: nothing is paid, whatever the call inside returns.
Fault_SudoForAll(tx) ==
    \/ \E origin \in Origins, call \in PlainCalls :
          /\ tx.call = <<"sudo", origin, call>>
          /\ Dispatch(call, origin)
          /\ Leaves(tx, Refunded(tx, AfterCall(call, origin, AfterFee(tx))))
    \/ tx.call \in HeavyCalls /\ UNCHANGED palletVars /\ Leaves(tx, Refunded(tx, AfterFee(tx)))

Sudo(tx) ==
    \/ tx.signer # SudoKey /\ UNCHANGED palletVars /\ Leaves(tx, AfterFee(tx))
    \/ /\ tx.signer = SudoKey
       /\ \/ \E origin \in Origins, call \in PlainCalls :
                /\ tx.call = <<"sudo", origin, call>>
                /\ Dispatch(call, origin)
                /\ Leaves(tx, Refunded(tx, AfterCall(call, origin, AfterFee(tx))))
          \/ /\ tx.call \in HeavyCalls
             /\ UNCHANGED palletVars
             /\ Leaves(tx, Refunded(tx, AfterFee(tx)))

\* apply_extrinsic; a call that fails has been paid for.  The pool still holds the
\* transaction until it hears of the block.
Apply(tx) ==
    /\ Applicable(tx)
    /\ used' = [used EXCEPT ![Class(tx.call)] = @ + BaseExtrinsic + Weight(tx.call)]
    /\ \/ /\ tx.call \in PlainCalls
          /\ Dispatch(tx.call, tx.signer)
          /\ Leaves(tx, AfterCall(tx.call, tx.signer, AfterFee(tx)))
       \/ tx.call \notin PlainCalls /\ Sudo(tx)
    /\ UNCHANGED pool

\* The next block: its hooks and inherents have run.
NewBlock(mandatory) ==
    /\ NextBlock
    /\ used' = [class \in Classes |-> IF class = "Mandatory" THEN BaseBlock + mandatory ELSE 0]
    /\ UNCHANGED <<accounts, pool>>

ChainNext ==
    \/ \E a \in Accounts : \E n \in nonce[a] .. MaxNonce, call \in Calls : Submit(a, n, call)
    \/ \E tx \in pool : Apply(tx) \/ Drop(tx)
    \/ \E mandatory \in {0, MessageQueueServiceWeight} : NewBlock(mandatory)

ChainSpec == ChainInit /\ [][ChainNext]_chainVars

----------------------------------------------------------------------------
(* Properties.                                                             *)

Transactions == [signer : Accounts, nonce : 0 .. MaxNonce, call : Calls]

\* Type invariant.
ChainTypeOK ==
    /\ balance \in [Accounts -> Nat]
    /\ nonce \in [Accounts -> 0 .. MaxNonce + 1]
    /\ applied \in [Accounts -> Seq(0 .. MaxNonce)]
    /\ pool \subseteq Transactions
    /\ used \in [Classes -> Nat]

\* An account's transactions are applied in the order of their nonces and none of
\* them twice, as long as the account exists: transactions that the pool still holds
\* or holds again change nothing (TxExtension, CheckNonce).
AppliedInOrder ==
    \A a \in Accounts :
        /\ Len(applied[a]) = nonce[a]
        /\ \A i \in 1 .. Len(applied[a]) : applied[a][i] = i - 1

\* A block ends above its maximum only by operational calls, and by no more than the
\* share reserved for them; normal calls stay within 75 % (configs/mod.rs:82-91).
BlockBounded ==
    /\ used["Normal"] <= Percent(NormalDispatchRatio)
    /\ Total(used) > MaximumBlockWeight =>
         /\ used["Operational"] <= Reserved("Operational")
         /\ Total(used) - used["Operational"] <= MaximumBlockWeight

\* What the pool accepts is not too heavy for a block that holds nothing else, as
\* long as the block itself, its hooks and inherents keep to the 5 % that are assumed
\* of them (lib.rs:205-207).
AcceptedFitsEmptyBlock ==
    used["Mandatory"] <= Percent(AverageOnInitializeRatio)
    /\ used["Normal"] + used["Operational"] = 0
        => \A tx \in pool : Fits(used, Class(tx.call), Weight(tx.call))

\* Made in the name of a: signed by it, or by the sudo key as it.
MadeFor(a, tx, call) ==
    /\ tx.nonce = nonce[tx.signer]
    /\ \/ tx.signer = a /\ tx.call = call
       \/ tx.signer = SudoKey /\ tx.call = <<"sudo", a, call>>

\* An account goes out of existence only by sending everything to another: no fee and
\* no refund takes its existential deposit, and with it its nonce.
OnlyTransferKills ==
    [][\A a \in Accounts :
         Exists(a) /\ ~Exists(a)' =>
            \E tx \in pool, to \in Accounts \ {a} :
                MadeFor(a, tx, <<"transfer_all", to>>)]_chainVars

\* Nobody pays, uses up a nonce or appears in an event but by a transaction it signed,
\* or by one the sudo key made as it: what a transfer, a refund or an account that ends
\* does to others never costs them anything.
ActsForItselfStep ==
    \A a \in Accounts :
        (\/ balance'[a] < balance[a]
         \/ nonce'[a] # nonce[a]
         \/ Len(events') > Len(events) /\ events'[Len(events')].who = a) =>
            \E tx \in pool, call \in Calls : MadeFor(a, tx, call)

ActsForItself == [][ActsForItselfStep]_chainVars
=============================================================================
