---------------------------- MODULE AsyncBacking ----------------------------
(***************************************************************************)
(* How the parachain grows (polkadot-sdk/runtime): collators build blocks  *)
(* ahead of the relay chain, which backs and includes them later, drops    *)
(* some, and leaves forks behind.  A collator asks can_build_upon before   *)
(* it builds; the runtime checks again, with other code, when the block    *)
(* is executed.  The relay chain and the collator's loop are polkadot-sdk's*)
(* and are modelled from how runtime and node configure them.              *)
(***************************************************************************)
EXTENDS Integers, Sequences, FiniteSets

CONSTANTS
    AllowedAncestry, \* how many relay blocks old a relay parent may be
    MaxRelay,        \* bound: relay chain blocks
    MaxBlocks        \* bound: parachain blocks

ASSUME AncestryAssumption == AllowedAncestry \in Nat
ASSUME BoundsAssumption == MaxRelay \in Nat \ {0} /\ MaxBlocks \in Nat

VARIABLES
    blocks,  \* the parachain's blocks: what each leaves in its state
    heads,   \* heads[r]: the parachain head included as of relay block r
    pending  \* the block backed in the latest relay block, or Genesis

backingVars == <<blocks, heads, pending>>

MilliSecsPerBlock == 6000
SlotDuration == MilliSecsPerBlock

UnincludedSegmentCapacity == 3
BlockProcessingVelocity == 1
RelayChainSlotDurationMillis == 6000

Fault_MinimumPeriod == SlotDuration \div 2
MinimumPeriod == 0

Genesis == 0
Blocks == 1 .. Len(blocks)
latest == Len(heads)

\* Relay block r is built in relay slot r; its time falls into this slot.
SlotOf(r) == (r * RelayChainSlotDurationMillis) \div SlotDuration

\* The state after a block: the relay parent it was built with, SlotInfo of
\* aura_ext, and UnincludedSegment, which ends with the block itself.
GenesisState ==
    [parent |-> Genesis, relayParent |-> 1, slot |-> 0, authored |-> 0, segment |-> <<>>]
After(b) == IF b = Genesis THEN GenesisState ELSE blocks[b]

Ancestors[b \in {Genesis} \cup Blocks] ==
    IF b = Genesis THEN {Genesis} ELSE Ancestors[blocks[b].parent] \cup {b}

Init ==
    /\ blocks = <<>>
    /\ heads = <<Genesis>>
    /\ pending = Genesis

----------------------------------------------------------------------------
(* The runtime.                                                            *)

\* maybe_drop_included_ancestors: everything up to the included block.
Fault_KeepsIncluded(segment, included) ==
    LET upTo == {i \in DOMAIN segment : \E j \in i .. Len(segment) : segment[j] = included}
    IN SubSeq(segment, IF upTo = {} THEN 1 ELSE Cardinality(upTo), Len(segment))

Fault_DropsOneMore(segment, included) ==
    LET upTo == {i \in DOMAIN segment : \E j \in i .. Len(segment) : segment[j] = included}
    IN SubSeq(segment, Cardinality(upTo) + 2, Len(segment))

DropIncluded(segment, included) ==
    LET upTo == {i \in DOMAIN segment : \E j \in i .. Len(segment) : segment[j] = included}
    IN SubSeq(segment, Cardinality(upTo) + 1, Len(segment))

\* set_validation_data with RelayNumberMonotonicallyIncreases, and the capacity
\* that the consensus hook returns.
SetValidationData(parent, r) ==
    /\ r >= After(parent).relayParent
    /\ Len(DropIncluded(After(parent).segment, heads[r])) < UnincludedSegmentCapacity

\* Blocks of one slot carry the same time: that of the slot.
TimestampSet(parent, r) ==
    parent # Genesis =>
        SlotOf(r) * SlotDuration >= After(parent).slot * SlotDuration + MinimumPeriod

Fault_CountsNone(parent, r) == 1
AuthoredInSlot(parent, r) ==
    IF After(parent).slot = SlotOf(r) THEN After(parent).authored + 1 ELSE 1

\* aura with AllowMultipleBlocksPerSlot, aura_ext's slot and velocity.
ConsensusHook(parent, r) ==
    /\ After(parent).slot <= SlotOf(r)
    /\ AuthoredInSlot(parent, r) <= BlockProcessingVelocity + 1

Executes(parent, r) ==
    SetValidationData(parent, r) /\ TimestampSet(parent, r) /\ ConsensusHook(parent, r)

\* The runtime API, asked of the parent's state: the hash of the parent itself is
\* not in its own segment yet.
Fault_AsksOnlySlot(parent, included, slot) ==
    IF After(parent).slot = slot
    THEN After(parent).authored < BlockProcessingVelocity + 1
    ELSE After(parent).slot < slot

CanBuildUpon(parent, included, slot) ==
    LET known == IF included = parent THEN Genesis ELSE included
    IN /\ Len(DropIncluded(After(parent).segment, known)) < UnincludedSegmentCapacity
       /\ IF After(parent).slot = slot
          THEN After(parent).authored < BlockProcessingVelocity + 1
          ELSE After(parent).slot < slot

----------------------------------------------------------------------------
(* Collators and the relay chain.                                          *)

\* Relay parents from which a block may still be backed: collators may lag.
RelayParents == {r \in 1 .. latest : r + AllowedAncestry >= latest}

\* Any block between the included one and the deepest: another collator's block
\* may not have arrived.
PotentialParents(r) ==
    {b \in {Genesis} \cup Blocks :
        /\ heads[r] \in Ancestors[b]
        /\ \A c \in Ancestors[b] \ Ancestors[heads[r]] :
              blocks[c].relayParent \in (r - AllowedAncestry) .. r}

\* The collator asks the runtime unless it builds on the included block.
Builds(parent, r) ==
    parent = heads[r] \/ CanBuildUpon(parent, heads[r], SlotOf(r))

Author(parent, r) ==
    /\ Len(blocks) < MaxBlocks
    /\ Builds(parent, r) /\ Executes(parent, r)
    /\ LET segment == DropIncluded(After(parent).segment, heads[r])
       IN blocks' = Append(blocks,
             [parent |-> parent, relayParent |-> r, slot |-> SlotOf(r),
              authored |-> AuthoredInSlot(parent, r),
              segment |-> Append(segment, Len(blocks) + 1)])
    /\ UNCHANGED <<heads, pending>>

\* The next relay block includes what is pending, waits for it, or gives it up.
Inclusion(head) == head = heads[latest] \/ (pending # Genesis /\ head = pending)

\* Then it may back a block on the head, if nothing is pending.
Backable(b, head) ==
    /\ blocks[b].parent = head
    /\ blocks[b].relayParent + AllowedAncestry >= latest

RelayBlock ==
    /\ latest < MaxRelay
    /\ \E head \in {heads[latest], pending} :
          /\ Inclusion(head)
          /\ heads' = Append(heads, head)
          /\ \/ pending' = Genesis
             \/ pending' = pending /\ head = heads[latest]
             \/ \E b \in Blocks : Backable(b, head) /\ pending' = b
    /\ UNCHANGED blocks

\* Bound: the relay chain is followed no further.
End == latest = MaxRelay /\ UNCHANGED backingVars

Next ==
    \/ \E r \in RelayParents : \E parent \in PotentialParents(r) : Author(parent, r)
    \/ RelayBlock
    \/ End

Spec == Init /\ [][Next]_backingVars

----------------------------------------------------------------------------
(* Properties.                                                             *)

\* The segment in a block's state is what the relay chain has not included of its
\* chain: forks, lost candidates and late collators leave no trace in it.
SegmentIsExact ==
    \A b \in Blocks :
        LET known == heads[blocks[b].relayParent]
        IN /\ known \in Ancestors[b]
           /\ {blocks[b].segment[i] : i \in DOMAIN blocks[b].segment}
                 = Ancestors[b] \ Ancestors[known]

\* The chain never runs further ahead of the relay chain than the capacity.
BacklogBounded ==
    \A b \in Blocks :
        heads[latest] \in Ancestors[b] =>
            Cardinality(Ancestors[b] \ Ancestors[heads[latest]]) <= UnincludedSegmentCapacity

\* A block that the collator's question allows is one that the runtime accepts:
\* no slot is wasted on a block that panics, and after a loss there is always the
\* included block to build on again.
WhatIsBuiltExecutes ==
    \A r \in RelayParents : \A parent \in PotentialParents(r) :
        Builds(parent, r) => Executes(parent, r)

\* Along every chain slots and relay parents never go back, and one slot has at
\* most one block more than the velocity.
VelocityHolds ==
    \A b \in Blocks :
        /\ blocks[b].parent \in Blocks =>
              /\ blocks[blocks[b].parent].slot <= blocks[b].slot
              /\ blocks[blocks[b].parent].relayParent <= blocks[b].relayParent
        /\ Cardinality({c \in Ancestors[b] : c # Genesis /\ blocks[c].slot = blocks[b].slot})
              <= BlockProcessingVelocity + 1
=============================================================================
