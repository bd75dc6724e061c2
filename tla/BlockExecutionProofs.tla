------------------------- MODULE BlockExecutionProofs -------------------------
(***************************************************************************)
(* Transactions count once, stay within the block, take from nobody but    *)
(* those they are made for and never cost an account its existence, for    *)
(* any accounts, limits and prices.                                        *)
(***************************************************************************)
EXTENDS BlockExecution, TLAPS

----------------------------------------------------------------------------
(* The pallet by itself, whoever calls it.                                 *)

\* What deposit_event does to the events.
LEMMA Appending ==
  ASSUME NEW S, NEW s \in Seq(S), NEW e \in S
  PROVE  /\ Append(s, e) \in Seq(S)
         /\ Len(Append(s, e)) = Len(s) + 1
         /\ Append(s, e)[Len(s) + 1] = e
OBVIOUS

\* None is no stored number.
LEMMA SomeIsNotNone == \A b : Some(b) # None
BY DEF Some, None

\* What a call leaves in storage: what it found, or a number within the width.
LEMMA CallsStoreNumbers ==
  ASSUME TypeOK, NEW origin \in Origins,
         CauseError(origin) \/ \E bn \in 0 .. MaxArgument : DoSomething(origin, bn)
  PROVE  \/ UNCHANGED <<something, events>>
         \/ /\ \E b \in Numbers : something' = Some(b)
            /\ outcome' = "Ok"
<1>1. CASE \E bn \in 0 .. MaxArgument : DoSomething(origin, bn)
  BY <1>1, NumberAssumption DEF DoSomething, Fails, Numbers
<1>2. CASE CauseError(origin)
  <2>1. CASE something' = Some(something.block_number + 1) /\ outcome' = "Ok"
                /\ something # None /\ something.block_number # MaxNumber
    <3>1. PICK b \in Numbers : something = Some(b)
      BY <2>1 DEF TypeOK
    <3>2. something.block_number = b /\ b + 1 \in Numbers
      BY <3>1, <2>1, NumberAssumption DEF Some, Numbers
    <3> QED
      BY <2>1, <3>2
  <2> QED
    BY <1>2, <2>1 DEF CauseError, Fails
<1> QED
  BY <1>1, <1>2

\* Neither call takes the stored number above its width, whatever its argument.
THEOREM PalletTypeCorrect == Spec => []TypeOK
<1>1. Init => TypeOK
  BY EventsAssumption DEF Init, TypeOK, Outcomes
<1>2. ASSUME TypeOK, [Next]_palletVars PROVE TypeOK'
  <2>1. ASSUME NEW origin \in Origins, NEW bn \in 0 .. MaxArgument,
               DoSomething(origin, bn)
        PROVE  TypeOK'
    <3>1. CASE origin = Unsigned
      BY <1>2, <2>1, <3>1 DEF DoSomething, Fails, TypeOK, Outcomes
    <3>2. CASE origin # Unsigned
      <4>1. SomethingStored(bn, origin) \in [block_number : Numbers, who : Accounts]
        BY <3>2, NumberAssumption DEF SomethingStored, Numbers, Origins
      <4>2. /\ events' = Append(events, SomethingStored(bn, origin))
            /\ Len(events) < MaxEvents /\ Len(events) \in Nat
            /\ events \in Seq([block_number : Numbers, who : Accounts])
        BY <1>2, <2>1, <3>2 DEF DoSomething, TypeOK
      <4>3. /\ events' \in Seq([block_number : Numbers, who : Accounts])
            /\ Len(events') = Len(events) + 1
        BY <4>1, <4>2, Appending
      <4>4. Len(events') <= MaxEvents
        BY <4>2, <4>3, EventsAssumption
      <4> QED
        BY <2>1, <3>2, <4>3, <4>4, NumberAssumption
          DEF DoSomething, TypeOK, Numbers, Outcomes
    <3> QED
      BY <3>1, <3>2
  <2>2. ASSUME NEW origin \in Origins, CauseError(origin) PROVE TypeOK'
    <3>1. events' = events /\ outcome' \in Outcomes
      BY <2>2 DEF CauseError, Fails, Outcomes
    <3> QED
      BY <1>2, <2>2, <3>1, CallsStoreNumbers DEF TypeOK
  <2>3. CASE NextBlock
    BY <1>2, <2>3, EventsAssumption DEF NextBlock, TypeOK
  <2>4. CASE UNCHANGED palletVars
    BY <1>2, <2>4 DEF palletVars, TypeOK
  <2> QED
    BY <1>2, <2>1, <2>2, <2>3, <2>4 DEF Next
<1> QED
  BY <1>1, <1>2, PTL DEF Spec

\* cause_error at the greatest block number fails; it never starts over at zero.
THEOREM NumberNeverWraps == Spec => NeverWraps
<1>1. ASSUME TypeOK, [Next]_palletVars PROVE [NeverWrapsStep]_palletVars
  <2>1. ASSUME NEW origin \in Origins, NEW bn \in 0 .. MaxArgument,
               DoSomething(origin, bn)
        PROVE  NeverWrapsStep
    <3>1. CASE origin = Unsigned
      BY <2>1, <3>1 DEF DoSomething, Fails, NeverWrapsStep
    <3>2. CASE origin # Unsigned
      <4>1. /\ events' = Append(events, SomethingStored(bn, origin))
            /\ something' = Some(bn)
        BY <2>1, <3>2 DEF DoSomething
      <4>2. /\ Len(events') = Len(events) + 1
            /\ events'[Len(events')] = SomethingStored(bn, origin)
        BY <1>1, <4>1 DEF TypeOK
      <4> QED
        BY <4>1, <4>2 DEF SomethingStored, NeverWrapsStep
    <3> QED
      BY <3>1, <3>2
  <2>2. ASSUME NEW origin \in Origins, CauseError(origin) PROVE NeverWrapsStep
    BY <2>2, SomeIsNotNone DEF CauseError, Fails, NeverWrapsStep, Some
  <2>3. CASE NextBlock \/ UNCHANGED palletVars
    BY <2>3 DEF NextBlock, NeverWrapsStep, palletVars
  <2> QED
    BY <1>1, <2>1, <2>2, <2>3 DEF Next
<1> QED
  BY <1>1, PalletTypeCorrect, PTL DEF Spec, NeverWraps

\* An error leaves the state that explains it, until a call succeeds.
THEOREM ErrorsAreTrue == Spec => []ErrorsTellWhy
<1>1. Init => ErrorsTellWhy
  BY DEF Init, ErrorsTellWhy
<1>2. ASSUME TypeOK, ErrorsTellWhy, [Next]_palletVars PROVE ErrorsTellWhy'
  <2>1. ASSUME NEW origin \in Origins, NEW bn \in 0 .. MaxArgument,
               DoSomething(origin, bn)
        PROVE  ErrorsTellWhy'
    BY <2>1 DEF DoSomething, Fails, ErrorsTellWhy
  <2>2. ASSUME NEW origin \in Origins, CauseError(origin) PROVE ErrorsTellWhy'
    <3>1. something # None => something = Some(something.block_number)
      BY <1>2 DEF TypeOK, Some
    <3> QED
      BY <2>2, <3>1 DEF CauseError, Fails, ErrorsTellWhy
  <2>3. CASE NextBlock \/ UNCHANGED palletVars
    BY <1>2, <2>3 DEF NextBlock, palletVars, ErrorsTellWhy
  <2> QED
    BY <1>2, <2>1, <2>2, <2>3 DEF Next
<1> QED
  BY <1>1, <1>2, PalletTypeCorrect, PTL DEF Spec

----------------------------------------------------------------------------
(* The chain around the pallet.                                            *)

USE SudoAssumption, WeightAssumption, FundsAssumption, ChainBoundsAssumption

----------------------------------------------------------------------------
(* Limits, weights and fees.                                               *)

LEMMA Shares ==
    /\ Percent(5) \in Nat /\ Percent(25) \in Nat /\ Percent(75) \in Nat
    /\ Percent(5) <= Percent(75) /\ Percent(75) <= MaximumBlockWeight
    /\ Percent(5) <= MaximumBlockWeight
    /\ MessageQueueServiceWeight \in Nat
BY DEF Percent, MessageQueueServiceWeight

\* With its base weight, no call weighs less than nothing.
LEMMA CallWeights ==
  ASSUME NEW call \in Calls
  PROVE  /\ Class(call) \in {"Normal", "Operational"}
         /\ Weight(call) \in Int
         /\ BaseExtrinsic + Weight(call) \in Nat
<1>1. CASE call \notin HeavyCalls
  BY <1>1 DEF Class, Weight
<1>2. CASE call = <<"sudo_unchecked_weight", "Normal", MaxExtrinsic("Normal")>>
  <2>1. call \in HeavyCalls
    BY <1>2 DEF HeavyCalls
  <2> QED
    BY <1>2, <2>1, Shares DEF Class, Weight, MaxExtrinsic, MaxTotal, NormalDispatchRatio,
       AverageOnInitializeRatio
<1>3. CASE \E w \in {Percent(100 - NormalDispatchRatio) - BaseExtrinsic,
                     MaxExtrinsic("Operational")} :
              call = <<"sudo_unchecked_weight", "Operational", w>>
  <2>1. Percent(100 - NormalDispatchRatio) = Percent(25)
    BY DEF NormalDispatchRatio
  <2>2. call \in HeavyCalls
    BY <1>3 DEF HeavyCalls
  <2> QED
    BY <1>3, <2>1, <2>2, Shares DEF Class, Weight, MaxExtrinsic, MaxTotal, AverageOnInitializeRatio
<1> QED
  BY <1>1, <1>2, <1>3 DEF HeavyCalls

LEMMA Quotients == ASSUME NEW n \in Nat, NEW d \in Nat \ {0} PROVE n \div d \in Nat
OBVIOUS

LEMMA FeesAreNatural == ASSUME NEW call \in Calls PROVE Fee(Weight(call)) \in Nat
<1>1. 16 * (BaseExtrinsic + Weight(call)) \in Nat
  BY CallWeights
<1>2. (16 * (BaseExtrinsic + Weight(call))) \div MaximumBlockWeight \in Nat
  BY <1>1, Quotients
<1> QED
  BY <1>2 DEF Fee, WeightToFee

----------------------------------------------------------------------------
(* What a transaction does.                                                *)

LEMMA AppendKeepsType ==
  ASSUME NEW S, NEW q \in Seq(S), NEW e \in S
  PROVE  /\ Append(q, e) \in Seq(S) /\ Len(Append(q, e)) = Len(q) + 1
         /\ \A i \in 1 .. Len(q) : Append(q, e)[i] = q[i]
         /\ Append(q, e)[Len(q) + 1] = e
OBVIOUS

LEMMA NextNonce == ASSUME NEW n \in 0 .. MaxNonce PROVE n + 1 \in 0 .. MaxNonce + 1
OBVIOUS

LEMMA Sums == ASSUME NEW m \in Nat, NEW n \in Nat PROVE m + n \in Nat /\ m + n >= m /\ m + n >= n
OBVIOUS

LEMMA FeesLeaveDeposits ==
  ASSUME balance \in [Accounts -> Nat], NEW tx, tx.signer \in Accounts,
         Fee(Weight(tx.call)) \in Nat,
         balance[tx.signer] - Fee(Weight(tx.call)) >= ExistentialDeposit
  PROVE  /\ AfterFee(tx) \in [Accounts -> Nat]
         /\ \A a \in Accounts : balance[a] >= 1 => AfterFee(tx)[a] >= 1
<1>1. balance[tx.signer] - Fee(Weight(tx.call)) \in Nat
  BY DEF ExistentialDeposit
<1>2. balance[tx.signer] - Fee(Weight(tx.call)) >= 1
  BY DEF ExistentialDeposit
<1> QED
  BY <1>1, <1>2 DEF AfterFee

\* A call takes from nobody but an account that it makes send everything.
LEMMA CallsTakeFromTheirOrigin ==
  ASSUME NEW b \in [Accounts -> Nat], NEW call \in PlainCalls, NEW origin \in Origins
  PROVE  /\ AfterCall(call, origin, b) \in [Accounts -> Nat]
         /\ \A a \in Accounts : AfterCall(call, origin, b)[a] < b[a] =>
               a = origin /\ \E to \in Accounts \ {a} : call = <<"transfer_all", to>>
<1>1. CASE call[1] = "transfer_all" /\ origin \in Accounts \ {call[2]}
  <2>1. PICK to \in Accounts : call = <<"transfer_all", to>>
    BY <1>1 DEF PlainCalls
  <2>2. AfterCall(call, origin, b) = [b EXCEPT ![origin] = 0, ![to] = @ + b[origin]]
        /\ origin \in Accounts \ {to}
    BY <1>1, <2>1 DEF AfterCall
  <2>3. b[to] + b[origin] \in Nat /\ b[to] + b[origin] >= b[to] /\ b[origin] \in Nat
    BY <2>2, Sums
  <2>4. AfterCall(call, origin, b) \in [Accounts -> Nat]
    BY <2>2, <2>3
  <2>5. ASSUME NEW a \in Accounts, AfterCall(call, origin, b)[a] < b[a] PROVE a = origin
    <3>1. CASE a = to
      <4>1. AfterCall(call, origin, b)[a] = b[to] + b[origin]
        BY <2>2, <3>1
      <4> QED
        BY <2>3, <2>5, <3>1, <4>1
    <3>2. CASE a \notin {to, origin}
      <4>1. AfterCall(call, origin, b)[a] = b[a] /\ b[a] \in Nat
        BY <2>2, <3>2
      <4> QED
        BY <2>5, <4>1
    <3> QED
      BY <3>1, <3>2
  <2> QED
    BY <2>1, <2>2, <2>4, <2>5
<1>2. CASE ~(call[1] = "transfer_all" /\ origin \in Accounts \ {call[2]})
  <2>1. AfterCall(call, origin, b) = b /\ \A a \in Accounts : b[a] \in Nat
    BY <1>2 DEF AfterCall
  <2> QED
    BY <2>1
<1> QED
  BY <1>1, <1>2

LEMMA RefundsTakeNothing ==
  ASSUME NEW tx, tx.signer \in Accounts, Fee(Weight(tx.call)) \in Nat,
         NEW b \in [Accounts -> Nat]
  PROVE  /\ Refunded(tx, b) \in [Accounts -> Nat]
         /\ \A a \in Accounts : Refunded(tx, b)[a] >= b[a]
<1>1. /\ b[tx.signer] + Fee(Weight(tx.call)) \in Nat
      /\ b[tx.signer] + Fee(Weight(tx.call)) >= b[tx.signer]
  BY Sums
<1>2. \A a \in Accounts : b[a] \in Nat /\ b[a] >= b[a]
  OBVIOUS
<1> QED
  BY <1>1, <1>2 DEF Refunded

\* What a call in its signer's name, or one that the sudo key makes, leaves of balances.
Ends(tx, b) ==
    /\ b \in [Accounts -> Nat] /\ Leaves(tx, b)
    /\ \A a \in Accounts :
          /\ b[a] < balance[a] =>
                a = tx.signer \/ \E to \in Accounts \ {a} : MadeFor(a, tx, <<"transfer_all", to>>)
          /\ balance[a] >= 1 /\ b[a] < 1 =>
                \E to \in Accounts \ {a} : MadeFor(a, tx, <<"transfer_all", to>>)

LEMMA SomethingIsLeft ==
  ASSUME balance \in [Accounts -> Nat], NEW tx, tx.signer \in Accounts,
         AfterFee(tx) \in [Accounts -> Nat],
         \A a \in Accounts : balance[a] >= 1 => AfterFee(tx)[a] >= 1,
         NEW b \in [Accounts -> Nat], Leaves(tx, b),
         \A a \in Accounts : b[a] < AfterFee(tx)[a] =>
            \E to \in Accounts \ {a} : MadeFor(a, tx, <<"transfer_all", to>>)
  PROVE  Ends(tx, b)
<1> SUFFICES ASSUME NEW a \in Accounts,
                    ~ \E to \in Accounts \ {a} : MadeFor(a, tx, <<"transfer_all", to>>)
             PROVE  /\ b[a] < balance[a] => a = tx.signer
                    /\ ~(balance[a] >= 1 /\ b[a] < 1)
  BY DEF Ends
<1>1. /\ b[a] \in Nat /\ balance[a] \in Nat /\ AfterFee(tx)[a] \in Nat
      /\ b[a] >= AfterFee(tx)[a]
  <2>1. b[a] \in Nat /\ balance[a] \in Nat /\ AfterFee(tx)[a] \in Nat
    OBVIOUS
  <2>2. ~(b[a] < AfterFee(tx)[a])
    OBVIOUS
  <2> QED
    BY <2>1, <2>2
<1>2. a # tx.signer => AfterFee(tx)[a] = balance[a]
  BY DEF AfterFee
<1> QED
  BY <1>1, <1>2

\* Its fee can be paid, its nonce is next, and nobody loses anything to it but those it
\* is made for.
LEMMA Applying ==
  ASSUME ChainTypeOK, NEW tx \in pool, Apply(tx)
  PROVE  /\ tx.signer \in Accounts /\ tx.call \in Calls /\ tx.nonce \in 0 .. MaxNonce
         /\ nonce[tx.signer] = tx.nonce
         /\ Fits(used, Class(tx.call), Weight(tx.call))
         /\ used' = [used EXCEPT ![Class(tx.call)] = @ + BaseExtrinsic + Weight(tx.call)]
         /\ pool' = pool
         /\ \E b : Ends(tx, b)
<1>1. tx \in Transactions
  BY DEF ChainTypeOK
<1>2. tx.signer \in Accounts /\ tx.call \in Calls /\ tx.nonce \in 0 .. MaxNonce
  BY <1>1 DEF Transactions
<1>3. balance \in [Accounts -> Nat]
  BY DEF ChainTypeOK
<1>4. Fee(Weight(tx.call)) \in Nat
  BY <1>2, FeesAreNatural
<1>5. /\ balance[tx.signer] - Fee(Weight(tx.call)) >= ExistentialDeposit
      /\ nonce[tx.signer] = tx.nonce
  BY DEF Apply, Applicable, Valid, CanPay
<1>6. AfterFee(tx) \in [Accounts -> Nat]
      /\ \A a \in Accounts : balance[a] >= 1 => AfterFee(tx)[a] >= 1
  BY <1>2, <1>3, <1>4, <1>5, FeesLeaveDeposits
<1>7. \A a \in Accounts : AfterFee(tx)[a] \in Nat
  BY <1>6
<1>8. ASSUME tx.call \in PlainCalls,
             Leaves(tx, AfterCall(tx.call, tx.signer, AfterFee(tx)))
      PROVE  \E b : Ends(tx, b)
  <2> DEFINE b == AfterCall(tx.call, tx.signer, AfterFee(tx))
  <2>1. /\ b \in [Accounts -> Nat]
        /\ \A a \in Accounts : b[a] < AfterFee(tx)[a] =>
              a = tx.signer /\ \E to \in Accounts \ {a} : tx.call = <<"transfer_all", to>>
    BY <1>2, <1>6, <1>8, CallsTakeFromTheirOrigin DEF Origins
  <2>2. \A a \in Accounts : b[a] < AfterFee(tx)[a] =>
            \E to \in Accounts \ {a} : MadeFor(a, tx, <<"transfer_all", to>>)
    BY <1>5, <2>1 DEF MadeFor
  <2> QED
    BY <1>2, <1>3, <1>6, <1>8, <2>1, <2>2, SomethingIsLeft
<1>9. ASSUME Leaves(tx, AfterFee(tx)) \/ Leaves(tx, Refunded(tx, AfterFee(tx)))
      PROVE  \E b : Ends(tx, b)
  <2>1. /\ Refunded(tx, AfterFee(tx)) \in [Accounts -> Nat]
        /\ \A a \in Accounts : Refunded(tx, AfterFee(tx))[a] >= AfterFee(tx)[a]
    BY <1>2, <1>4, <1>6, RefundsTakeNothing
  <2>2. ASSUME NEW b \in {AfterFee(tx), Refunded(tx, AfterFee(tx))}, Leaves(tx, b)
        PROVE  Ends(tx, b)
    <3>1. b \in [Accounts -> Nat] /\ \A a \in Accounts : ~(b[a] < AfterFee(tx)[a])
      <4>1. ASSUME NEW a \in Accounts PROVE ~(b[a] < AfterFee(tx)[a])
        <5>1. AfterFee(tx)[a] \in Nat /\ Refunded(tx, AfterFee(tx))[a] \in Nat
              /\ Refunded(tx, AfterFee(tx))[a] >= AfterFee(tx)[a]
          BY <1>6, <2>1
        <5> QED
          BY <5>1
      <4> QED
        BY <1>6, <2>1, <4>1
    <3> QED
      BY <1>2, <1>3, <1>6, <2>2, <3>1, SomethingIsLeft
  <2> QED
    BY <1>9, <2>2
<1>10. ASSUME tx.signer = SudoKey,
              \E origin \in Origins, call \in PlainCalls :
                 /\ tx.call = <<"sudo", origin, call>>
                 /\ Leaves(tx, Refunded(tx, AfterCall(call, origin, AfterFee(tx))))
       PROVE  \E b : Ends(tx, b)
  <2>1. PICK origin \in Origins, call \in PlainCalls :
           /\ tx.call = <<"sudo", origin, call>>
           /\ Leaves(tx, Refunded(tx, AfterCall(call, origin, AfterFee(tx))))
    BY <1>10
  <2> DEFINE b == AfterCall(call, origin, AfterFee(tx))
             c == Refunded(tx, b)
  <2>2. /\ b \in [Accounts -> Nat]
        /\ \A a \in Accounts : b[a] < AfterFee(tx)[a] =>
              a = origin /\ \E to \in Accounts \ {a} : call = <<"transfer_all", to>>
    BY <1>6, CallsTakeFromTheirOrigin
  <2> HIDE DEF b
  <2>3. c \in [Accounts -> Nat] /\ \A a \in Accounts : c[a] >= b[a]
    BY <1>2, <1>4, <2>2, RefundsTakeNothing
  <2> HIDE DEF c
  <2>4. ASSUME NEW a \in Accounts, c[a] < AfterFee(tx)[a]
        PROVE  \E to \in Accounts \ {a} : MadeFor(a, tx, <<"transfer_all", to>>)
    <3>1. c[a] \in Nat /\ b[a] \in Nat /\ AfterFee(tx)[a] \in Nat /\ c[a] >= b[a]
      BY <1>7, <2>2, <2>3
    <3>2. b[a] < AfterFee(tx)[a]
      BY <2>4, <3>1
    <3> QED
      BY <1>5, <1>10, <2>1, <2>2, <3>2 DEF MadeFor
  <2>5. Leaves(tx, c)
    BY <2>1 DEF b, c
  <2> QED
    BY <1>2, <1>3, <1>6, <2>3, <2>4, <2>5, SomethingIsLeft
<1>11. \E b : Ends(tx, b)
  BY <1>8, <1>9, <1>10 DEF Apply, Sudo
<1> QED
  BY <1>2, <1>5, <1>11 DEF Apply, Applicable

\* No fee and no transfer takes a balance below zero, and a block's weights stay in their
\* ranges.
THEOREM ChainTypeCorrect == ChainSpec => []ChainTypeOK
<1>1. ChainInit => ChainTypeOK
  BY DEF ChainInit, ChainTypeOK, Classes
<1>2. ASSUME ChainTypeOK, [ChainNext]_chainVars PROVE ChainTypeOK'
  <2> USE <1>2
  <2>1. ASSUME NEW a \in Accounts, NEW n \in nonce[a] .. MaxNonce, NEW call \in Calls,
               Submit(a, n, call)
        PROVE  ChainTypeOK'
    <3>1. [signer |-> a, nonce |-> n, call |-> call] \in Transactions
      BY DEF ChainTypeOK, Transactions
    <3> QED
      BY <2>1, <3>1 DEF ChainTypeOK, Submit, accounts
  <2>2. ASSUME NEW tx \in pool, Apply(tx) PROVE ChainTypeOK'
    <3>1. used' \in [Classes -> Nat]
      <4>1. used[Class(tx.call)] \in Nat
        BY <2>2, Applying, CallWeights DEF ChainTypeOK, Classes
      <4>2. used[Class(tx.call)] + BaseExtrinsic + Weight(tx.call) \in Nat
        BY <2>2, <4>1, Applying, CallWeights
      <4> QED
        BY <2>2, <4>2, Applying DEF ChainTypeOK
    <3>2. /\ tx.signer \in Accounts /\ tx.nonce \in 0 .. MaxNonce
          /\ nonce \in [Accounts -> 0 .. MaxNonce + 1]
          /\ applied \in [Accounts -> Seq(0 .. MaxNonce)]
      BY <2>2, Applying DEF ChainTypeOK
    <3>3. PICK b : b \in [Accounts -> Nat] /\ Leaves(tx, b)
      BY <2>2, Applying DEF Ends
    <3>4. nonce' \in [Accounts -> 0 .. MaxNonce + 1]
      <4>1. tx.nonce + 1 \in 0 .. MaxNonce + 1 /\ 0 \in 0 .. MaxNonce + 1
        BY <3>2, NextNonce
      <4> QED
        BY <3>2, <3>3, <4>1 DEF Leaves
    <3>5. applied' \in [Accounts -> Seq(0 .. MaxNonce)]
      <4>1. /\ <<>> \in Seq(0 .. MaxNonce)
            /\ \A a \in Accounts : Append(applied[a], tx.nonce) \in Seq(0 .. MaxNonce)
        BY <3>2, AppendKeepsType
      <4> QED
        BY <3>2, <3>3, <4>1 DEF Leaves
    <3> QED
      BY <2>2, <3>1, <3>3, <3>4, <3>5, Applying DEF Leaves, ChainTypeOK
  <2>3. ASSUME NEW tx \in pool, Drop(tx) PROVE ChainTypeOK'
    BY <2>3 DEF Drop, ChainTypeOK, accounts
  <2>4. ASSUME NEW mandatory \in {0, MessageQueueServiceWeight}, NewBlock(mandatory)
        PROVE  ChainTypeOK'
    <3>1. BaseBlock + mandatory \in Nat
      BY Shares
    <3>2. used' \in [Classes -> Nat]
      BY <2>4, <3>1 DEF NewBlock
    <3> QED
      BY <2>4, <3>2 DEF NewBlock, ChainTypeOK, accounts
  <2>5. CASE UNCHANGED chainVars
    BY <2>5 DEF chainVars, accounts, ChainTypeOK
  <2> QED
    BY <2>1, <2>2, <2>3, <2>4, <2>5 DEF ChainNext
<1> QED
  BY <1>1, <1>2, PTL DEF ChainSpec

----------------------------------------------------------------------------
(* What transactions do to the pallet.                                     *)

LEMMA DispatchIsOfThePallet ==
  ASSUME NEW call, NEW origin \in Origins, Dispatch(call, origin) PROVE [Next]_palletVars
BY DEF Dispatch, Next

LEMMA ChainStepsArePalletSteps ==
  ASSUME ChainTypeOK, [ChainNext]_chainVars PROVE [Next]_palletVars
<1>1. ASSUME NEW tx \in pool, Apply(tx) PROVE [Next]_palletVars
  <2>1. tx.signer \in Origins
    BY <1>1, Applying DEF Origins
  <2>2. \/ Dispatch(tx.call, tx.signer)
        \/ \E origin \in Origins, call \in PlainCalls : Dispatch(call, origin)
        \/ UNCHANGED palletVars
    BY <1>1 DEF Apply, Sudo
  <2> QED
    BY <2>1, <2>2, DispatchIsOfThePallet
<1>2. ASSUME NEW mandatory, NewBlock(mandatory) PROVE [Next]_palletVars
  BY <1>2 DEF NewBlock, Next
<1> QED
  BY <1>1, <1>2 DEF ChainNext, Submit, Drop, chainVars

LEMMA ChainRunsThePallet == ChainSpec => Spec
<1>1. ChainInit => Init
  BY DEF ChainInit
<1> QED
  BY <1>1, ChainTypeCorrect, ChainStepsArePalletSteps, PTL DEF ChainSpec, Spec

\* What was proved of the pallet alone holds of it in the chain.
THEOREM PalletHoldsInChain == ChainSpec => []TypeOK /\ NeverWraps /\ []ErrorsTellWhy
BY ChainRunsThePallet, PalletTypeCorrect, NumberNeverWraps, ErrorsAreTrue

----------------------------------------------------------------------------
(* Nonces.                                                                 *)

LEMMA NextInOrder ==
  ASSUME NEW n \in 0 .. MaxNonce, NEW s \in Seq(0 .. MaxNonce), Len(s) = n,
         \A i \in 1 .. Len(s) : s[i] = i - 1
  PROVE  /\ Len(Append(s, n)) = n + 1
         /\ \A i \in 1 .. Len(Append(s, n)) : Append(s, n)[i] = i - 1
<1> DEFINE t == Append(s, n)
<1>1. /\ Len(t) = n + 1 /\ t[n + 1] = n
      /\ \A i \in 1 .. n : t[i] = s[i]
  BY AppendKeepsType
<1> HIDE DEF t
<1>2. ASSUME NEW i \in 1 .. n + 1 PROVE t[i] = i - 1
  <2>1. CASE i = n + 1
    BY <1>1, <2>1
  <2>2. CASE i \in 1 .. n
    BY <1>1, <2>2
  <2> QED
    BY <2>1, <2>2
<1> QED
  BY <1>1, <1>2 DEF t

\* A transaction counts once in the life of its account, and in order.
THEOREM TransactionsCountOnce == ChainSpec => []AppliedInOrder
<1>1. ASSUME ChainInit PROVE AppliedInOrder
  <2>1. \A a \in Accounts : nonce[a] = 0 /\ applied[a] = <<>>
    BY <1>1 DEF ChainInit
  <2> QED
    <3> SUFFICES ASSUME NEW a \in Accounts
                 PROVE  Len(applied[a]) = nonce[a]
                        /\ \A i \in 1 .. Len(applied[a]) : applied[a][i] = i - 1
      BY DEF AppliedInOrder
    <3>1. Len(<<>>) = 0 /\ 1 .. 0 = {}
      OBVIOUS
    <3> QED
      BY <2>1, <3>1
<1>2. ASSUME ChainTypeOK, AppliedInOrder, [ChainNext]_chainVars PROVE AppliedInOrder'
  <2>1. ASSUME NEW tx \in pool, Apply(tx) PROVE AppliedInOrder'
    <3> SUFFICES ASSUME NEW a \in Accounts
                 PROVE  /\ Len(applied'[a]) = nonce'[a]
                        /\ \A i \in 1 .. Len(applied'[a]) : applied'[a][i] = i - 1
      BY DEF AppliedInOrder
    <3>1. PICK b : b \in [Accounts -> Nat] /\ Leaves(tx, b)
      BY <1>2, <2>1, Applying DEF Ends
    <3>2. nonce[tx.signer] = tx.nonce /\ tx.nonce \in 0 .. MaxNonce
      BY <1>2, <2>1, Applying
    <3>3. /\ applied[a] \in Seq(0 .. MaxNonce) /\ Len(applied[a]) = nonce[a]
          /\ \A i \in 1 .. Len(applied[a]) : applied[a][i] = i - 1
      BY <1>2 DEF ChainTypeOK, AppliedInOrder
    <3>4. CASE b[a] < ExistentialDeposit
      <4>1. applied'[a] = <<>> /\ nonce'[a] = 0
        BY <3>1, <3>4 DEF Leaves
      <4> QED
        BY <4>1
    <3>5. CASE ~(b[a] < ExistentialDeposit) /\ a = tx.signer
      <4>1. applied'[a] = Append(applied[a], tx.nonce) /\ nonce'[a] = tx.nonce + 1
        BY <3>1, <3>5 DEF Leaves
      <4>2. tx.nonce \in 0 .. MaxNonce /\ Len(applied[a]) = tx.nonce
        BY <3>2, <3>3, <3>5
      <4>3. /\ Len(Append(applied[a], tx.nonce)) = tx.nonce + 1
            /\ \A i \in 1 .. Len(Append(applied[a], tx.nonce)) :
                  Append(applied[a], tx.nonce)[i] = i - 1
        BY <3>3, <4>2, NextInOrder
      <4> QED
        BY <4>1, <4>3
    <3>6. CASE ~(b[a] < ExistentialDeposit) /\ a # tx.signer
      <4>1. applied'[a] = applied[a] /\ nonce'[a] = nonce[a]
        BY <3>1, <3>6 DEF Leaves
      <4> QED
        BY <3>3, <4>1
    <3> QED
      BY <3>4, <3>5, <3>6
  <2>2. CASE UNCHANGED accounts
    BY <1>2, <2>2 DEF AppliedInOrder, accounts
  <2> QED
    BY <1>2, <2>1, <2>2 DEF ChainNext, Submit, Drop, NewBlock, chainVars, accounts
<1> QED
  BY <1>1, <1>2, ChainTypeCorrect, PTL DEF ChainSpec

----------------------------------------------------------------------------
(* Weights.                                                                *)

\* The reserve is used by operational calls only, and only up to its size.
THEOREM BlocksAreBounded == ChainSpec => []BlockBounded
<1>1. ChainInit => BlockBounded
  BY Shares, HooksAssumption DEF ChainInit, BlockBounded, Total, Classes, NormalDispatchRatio
<1>2. ASSUME ChainTypeOK, BlockBounded, [ChainNext]_chainVars PROVE BlockBounded'
  <2>1. ASSUME NEW tx \in pool, Apply(tx) PROVE BlockBounded'
    <3> DEFINE w == BaseExtrinsic + Weight(tx.call)
    <3>1. tx.call \in Calls /\ w \in Nat
      BY <1>2, <2>1, Applying, CallWeights
    <3>2. used \in [Classes -> Nat]
      BY <1>2 DEF ChainTypeOK
    <3>3. CASE Class(tx.call) = "Normal"
      <4>1. used' = [used EXCEPT !["Normal"] = @ + BaseExtrinsic + Weight(tx.call)]
            /\ Fits(used, "Normal", Weight(tx.call))
        BY <1>2, <2>1, <3>3, Applying
      <4>2. /\ used'["Normal"] = used["Normal"] + w
            /\ used'["Operational"] = used["Operational"]
            /\ used'["Mandatory"] = used["Mandatory"]
        BY <3>1, <3>2, <4>1, CallWeights DEF Classes
      <4>3. /\ used'["Normal"] <= Percent(75)
            /\ Total(used') > MaximumBlockWeight => used'["Normal"] <= 0
        BY <4>1 DEF Fits, MaxTotal, Reserved, NormalDispatchRatio
      <4> QED
        BY <1>2, <3>1, <3>2, <4>2, <4>3
           DEF BlockBounded, Total, Classes, NormalDispatchRatio
    <3>4. CASE Class(tx.call) = "Operational"
      <4>1. used' = [used EXCEPT !["Operational"] = @ + BaseExtrinsic + Weight(tx.call)]
            /\ Fits(used, "Operational", Weight(tx.call))
        BY <1>2, <2>1, <3>4, Applying
      <4>2. /\ used'["Operational"] = used["Operational"] + w
            /\ used'["Normal"] = used["Normal"]
            /\ used'["Mandatory"] = used["Mandatory"]
        BY <3>1, <3>2, <4>1, CallWeights DEF Classes
      <4>3. Total(used') > MaximumBlockWeight =>
              used'["Operational"] <= Reserved("Operational")
        BY <4>1 DEF Fits
      <4> QED
        BY <1>2, <3>1, <3>2, <4>2, <4>3 DEF BlockBounded, Total, Classes
    <3> QED
      BY <3>1, <3>3, <3>4, CallWeights
  <2>2. ASSUME NEW mandatory \in {0, MessageQueueServiceWeight}, NewBlock(mandatory)
        PROVE  BlockBounded'
    BY <2>2, Shares, HooksAssumption
       DEF NewBlock, BlockBounded, Total, Classes, NormalDispatchRatio
  <2>3. CASE UNCHANGED used
    BY <1>2, <2>3 DEF BlockBounded, Total
  <2> QED
    BY <1>2, <2>1, <2>2, <2>3 DEF ChainNext, Submit, Drop, chainVars
<1> QED
  BY <1>1, <1>2, ChainTypeCorrect, PTL DEF ChainSpec

\* The pool holds nothing heavier than its limit.
Admitted == \A tx \in pool : Weight(tx.call) <= MaxExtrinsic(Class(tx.call))

LEMMA PoolAdmits == ChainSpec => []Admitted
<1>1. ChainInit => Admitted
  BY DEF ChainInit, Admitted
<1>2. ASSUME Admitted, [ChainNext]_chainVars PROVE Admitted'
  <2>1. ASSUME NEW a \in Accounts, NEW n, NEW call \in Calls, Submit(a, n, call)
        PROVE  Admitted'
    BY <1>2, <2>1 DEF Submit, Valid, Admitted
  <2>2. CASE pool' \in SUBSET pool
    BY <1>2, <2>2 DEF Admitted
  <2> QED
    BY <1>2, <2>1, <2>2 DEF ChainNext, Apply, Drop, NewBlock, chainVars
<1> QED
  BY <1>1, <1>2, PTL DEF ChainSpec

\* No transaction waits that an empty block with the assumed hooks could not take.
THEOREM AcceptedFits == ChainSpec => []AcceptedFitsEmptyBlock
<1>1. ASSUME ChainTypeOK, Admitted PROVE AcceptedFitsEmptyBlock
  <2> SUFFICES ASSUME used["Mandatory"] <= Percent(5),
                      used["Normal"] + used["Operational"] = 0, NEW tx \in pool
               PROVE  Fits(used, Class(tx.call), Weight(tx.call))
    BY DEF AcceptedFitsEmptyBlock, AverageOnInitializeRatio
  <2>1. /\ used \in [Classes -> Nat] /\ used["Normal"] = 0 /\ used["Operational"] = 0
        /\ used["Mandatory"] \in Nat
    BY <1>1 DEF ChainTypeOK, Classes
  <2>2. tx.call \in Calls /\ Weight(tx.call) <= MaxExtrinsic(Class(tx.call))
    BY <1>1 DEF ChainTypeOK, Transactions, Admitted
  <2>3. BaseExtrinsic + Weight(tx.call) <= MaxTotal(Class(tx.call)) - Percent(5)
    BY <2>2, Shares, CallWeights DEF MaxExtrinsic, MaxTotal, AverageOnInitializeRatio,
       NormalDispatchRatio
  <2>4. CASE Class(tx.call) = "Normal"
    BY <2>1, <2>2, <2>3, <2>4, Shares, CallWeights
       DEF Fits, Total, Classes, MaxTotal, NormalDispatchRatio
  <2>5. CASE Class(tx.call) = "Operational"
    BY <2>1, <2>2, <2>3, <2>5, Shares, CallWeights
       DEF Fits, Total, Classes, MaxTotal, NormalDispatchRatio
  <2> QED
    BY <2>2, <2>4, <2>5, CallWeights
<1> QED
  BY <1>1, ChainTypeCorrect, PoolAdmits, PTL

----------------------------------------------------------------------------
(* Who pays.                                                               *)

\* No fee and no refund ends an account.
THEOREM FeesKeepAccounts == ChainSpec => OnlyTransferKills
<1> DEFINE Step ==
      \A a \in Accounts :
         Exists(a) /\ ~Exists(a)' =>
            \E tx \in pool, to \in Accounts \ {a} : MadeFor(a, tx, <<"transfer_all", to>>)
<1>1. ASSUME ChainTypeOK, [ChainNext]_chainVars PROVE [Step]_chainVars
  <2>1. ASSUME NEW tx \in pool, Apply(tx) PROVE Step
    <3> SUFFICES ASSUME NEW a \in Accounts, Exists(a), ~Exists(a)'
                 PROVE  \E to \in Accounts \ {a} : MadeFor(a, tx, <<"transfer_all", to>>)
      OBVIOUS
    <3>1. PICK b : Ends(tx, b)
      BY <1>1, <2>1, Applying
    <3>2. balance'[a] = b[a] /\ balance'[a] \in Nat /\ balance[a] \in Nat
      BY <1>1, <3>1 DEF Ends, Leaves, ChainTypeOK
    <3>3. balance[a] >= 1 /\ b[a] < 1
      BY <3>2 DEF Exists, ExistentialDeposit
    <3> QED
      BY <3>1, <3>3 DEF Ends
  <2>2. CASE UNCHANGED balance
    BY <2>2 DEF Exists
  <2> QED
    BY <1>1, <2>1, <2>2 DEF ChainNext, Submit, Drop, NewBlock, accounts, chainVars
<1> QED
  BY <1>1, ChainTypeCorrect, PTL DEF ChainSpec, OnlyTransferKills

\* A nonce belongs to an account that exists.
NoncesOfAccounts == \A a \in Accounts : balance[a] < 1 => nonce[a] = 0

LEMMA NoncesEndWithAccounts == ChainSpec => []NoncesOfAccounts
<1>1. ChainInit => NoncesOfAccounts
  BY DEF ChainInit, NoncesOfAccounts
<1>2. ASSUME ChainTypeOK, NoncesOfAccounts, [ChainNext]_chainVars PROVE NoncesOfAccounts'
  <2>1. ASSUME NEW tx \in pool, Apply(tx) PROVE NoncesOfAccounts'
    <3>1. PICK b : Leaves(tx, b)
      BY <1>2, <2>1, Applying DEF Ends
    <3> QED
      BY <3>1 DEF Leaves, NoncesOfAccounts, ExistentialDeposit
  <2>2. CASE UNCHANGED accounts
    BY <1>2, <2>2 DEF NoncesOfAccounts, accounts
  <2> QED
    BY <1>2, <2>1, <2>2 DEF ChainNext, Submit, Drop, NewBlock, chainVars, accounts
<1> QED
  BY <1>1, <1>2, ChainTypeCorrect, PTL DEF ChainSpec

\* An event names the origin of the call.
LEMMA EventsNameTheOrigin ==
  ASSUME TypeOK, NEW call, NEW origin \in Origins, Dispatch(call, origin),
         Len(events') > Len(events)
  PROVE  events'[Len(events')].who = origin
<1>1. Len(events) \in Nat /\ events \in Seq([block_number : Numbers, who : Accounts])
  BY DEF TypeOK
<1>2. events' # events
  BY <1>1
<1>3. PICK bn \in 0 .. MaxArgument : DoSomething(origin, bn)
  BY <1>2 DEF Dispatch, CauseError, Fails, palletVars
<1>4. /\ events' = Append(events, SomethingStored(bn, origin)) /\ origin \in Accounts
  BY <1>2, <1>3 DEF DoSomething, Fails, Origins
<1>5. events'[Len(events')] = SomethingStored(bn, origin)
  BY <1>1, <1>4
<1> QED
  BY <1>5 DEF SomethingStored

\* Neither sudo, nor transfers and refunds, nor the end of an account lets a transaction
\* spend, or speak for, another account than those it is made for.
THEOREM AccountsActForThemselves == ChainSpec => ActsForItself
<1>1. ASSUME TypeOK, ChainTypeOK, NoncesOfAccounts, [ChainNext]_chainVars
      PROVE  [ActsForItselfStep]_chainVars
  <2>1. ASSUME NEW tx \in pool, Apply(tx) PROVE ActsForItselfStep
    <3> SUFFICES ASSUME NEW a \in Accounts,
                        \/ balance'[a] < balance[a]
                        \/ nonce'[a] # nonce[a]
                        \/ Len(events') > Len(events) /\ events'[Len(events')].who = a
                 PROVE  \E call \in Calls : MadeFor(a, tx, call)
      BY DEF ActsForItselfStep
    <3>1. PICK b : Ends(tx, b)
      BY <1>1, <2>1, Applying
    <3>2. /\ tx.signer \in Accounts /\ tx.call \in Calls /\ tx.nonce = nonce[tx.signer]
          /\ \A to \in Accounts : <<"transfer_all", to>> \in Calls
      BY <1>1, <2>1, Applying DEF Calls, PlainCalls
    <3>3. a = tx.signer => MadeFor(a, tx, tx.call)
      BY <3>2 DEF MadeFor
    <3>4. CASE balance'[a] < balance[a]
      BY <3>1, <3>2, <3>3, <3>4 DEF Ends, Leaves
    <3>5. CASE nonce'[a] # nonce[a] /\ a # tx.signer
      <4>1. b[a] < 1 /\ nonce[a] # 0
        BY <3>1, <3>5 DEF Ends, Leaves, ExistentialDeposit
      <4>2. balance[a] >= 1
        BY <1>1, <4>1 DEF NoncesOfAccounts, ChainTypeOK
      <4> QED
        BY <3>1, <3>2, <4>1, <4>2 DEF Ends
    <3>6. CASE Len(events') > Len(events) /\ events'[Len(events')].who = a
      <4>1. CASE tx.call \in PlainCalls /\ Dispatch(tx.call, tx.signer)
        <5>1. a = tx.signer
          BY <1>1, <3>2, <3>6, <4>1, EventsNameTheOrigin DEF Origins
        <5> QED
          BY <3>2, <3>3, <5>1
      <4>2. CASE UNCHANGED palletVars
        <5>1. Len(events) \in Nat /\ events' = events
          BY <1>1, <4>2 DEF TypeOK, palletVars
        <5> QED
          BY <3>6, <5>1
      <4>3. CASE tx.signer = SudoKey /\ \E origin \in Origins, call \in PlainCalls :
                    tx.call = <<"sudo", origin, call>> /\ Dispatch(call, origin)
        <5>1. PICK origin \in Origins, call \in PlainCalls :
                 tx.call = <<"sudo", origin, call>> /\ Dispatch(call, origin)
          BY <4>3
        <5>2. a = origin /\ call \in Calls
          BY <1>1, <3>6, <5>1, EventsNameTheOrigin DEF Calls
        <5> QED
          BY <3>2, <4>3, <5>1, <5>2 DEF MadeFor
      <4> QED
        BY <2>1, <4>1, <4>2, <4>3 DEF Apply, Sudo
    <3> QED
      BY <3>2, <3>3, <3>4, <3>5, <3>6
  <2>2. CASE UNCHANGED accounts /\ (events' = events \/ events' = <<>>)
    <3>1. ASSUME NEW a \in Accounts
          PROVE  /\ ~(balance'[a] < balance[a]) /\ nonce'[a] = nonce[a]
                 /\ ~(Len(events') > Len(events))
      <4>1. balance[a] \in Nat /\ Len(events) \in Nat /\ Len(<<>>) = 0
        BY <1>1 DEF ChainTypeOK, TypeOK
      <4> QED
        BY <2>2, <4>1 DEF accounts
    <3> QED
      BY <3>1 DEF ActsForItselfStep
  <2> QED
    BY <1>1, <2>1, <2>2
       DEF ChainNext, Submit, Drop, NewBlock, NextBlock, chainVars, palletVars
<1> QED
  BY <1>1, ChainTypeCorrect, NoncesEndWithAccounts, PalletHoldsInChain, PTL
     DEF ChainSpec, ActsForItself
===============================================================================
