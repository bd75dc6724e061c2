---------------------------- MODULE TemplatePallet ----------------------------
(***************************************************************************)
(* The pallet of the parachain (polkadot-sdk/pallets/template): a block    *)
(* number in storage, unset at first, a call that sets it and a call that  *)
(* increments it.  The calls of a block run one after the other; each      *)
(* leaves storage and events as they were unless it returns Ok.            *)
(***************************************************************************)
EXTENDS Integers, Sequences

CONSTANTS
    Accounts,    \* signers
    Unsigned,    \* an origin that is not signed: none, root, an inherent
    MaxNumber,   \* the greatest value of BlockNumberFor<T>
    MaxArgument, \* the greatest value of the u32 argument
    MaxEvents    \* bound: calls of one block that deposit an event

ASSUME NumberAssumption == MaxNumber \in Nat /\ MaxArgument \in 0 .. MaxNumber
ASSUME EventsAssumption == MaxEvents \in Nat
ASSUME UnsignedAssumption == Unsigned \notin Accounts

VARIABLES
    something,   \* StorageValue Something
    events,      \* what deposit_event appended in this block
    outcome      \* what the last call returned

palletVars == <<something, events, outcome>>

None == [set |-> FALSE]
Some(b) == [set |-> TRUE, block_number |-> b]
SomethingStored(b, who) == [block_number |-> b, who |-> who]

Origins == Accounts \cup {Unsigned}
Numbers == 0 .. MaxNumber
Outcomes == {"Ok", "BadOrigin", "NoneValue", "StorageOverflow"}

Init ==
    /\ something = None
    /\ events = <<>>
    /\ outcome = "Ok"

----------------------------------------------------------------------------

\* The error branch of a call: whatever it did is rolled back.
Fails(error) == outcome' = error /\ UNCHANGED <<something, events>>

\* do_something; a u32 always fits the block number type.
DoSomething(origin, bn) ==
    IF origin = Unsigned THEN Fails("BadOrigin")
    ELSE /\ Len(events) < MaxEvents
         /\ something' = Some(bn)
         /\ events' = Append(events, SomethingStored(bn, origin))
         /\ outcome' = "Ok"

\* cause_error: get, checked_add, put.  It deposits no event.
Fault_WrappingAdd(origin) ==
    IF origin = Unsigned THEN Fails("BadOrigin")
    ELSE IF something = None THEN Fails("NoneValue")
    ELSE /\ something' = Some((something.block_number + 1) % (MaxNumber + 1))
         /\ outcome' = "Ok"
         /\ UNCHANGED events

CauseError(origin) ==
    IF origin = Unsigned THEN Fails("BadOrigin")
    ELSE IF something = None THEN Fails("NoneValue")
    ELSE IF something.block_number = MaxNumber THEN Fails("StorageOverflow")
    ELSE /\ something' = Some(something.block_number + 1)
         /\ outcome' = "Ok"
         /\ UNCHANGED events

\* The next block starts without events.
NextBlock ==
    /\ events' = <<>>
    /\ UNCHANGED <<something, outcome>>

Next ==
    \/ \E origin \in Origins, bn \in 0 .. MaxArgument : DoSomething(origin, bn)
    \/ \E origin \in Origins : CauseError(origin)
    \/ NextBlock

Spec == Init /\ [][Next]_palletVars

----------------------------------------------------------------------------
(* Properties.                                                             *)

\* Type invariant; the number stays within its width.
TypeOK ==
    /\ something = None \/ \E b \in Numbers : something = Some(b)
    /\ events \in Seq([block_number : Numbers, who : Accounts])
    /\ Len(events) <= MaxEvents
    /\ outcome \in Outcomes

\* The stored number goes down only when somebody stores a lower one and says so
\* in an event: incrementing at the limit fails instead of wrapping to zero.
NeverWrapsStep ==
    something # None /\ something' # something =>
        \/ /\ something' # None
           /\ something'.block_number = something.block_number + 1
        \/ /\ Len(events') = Len(events) + 1
           /\ something' = Some(events'[Len(events')].block_number)

NeverWraps == [][NeverWrapsStep]_palletVars

\* The error of a call tells the state it found, which is the state it leaves
\* (tests.rs, assert_noop): unset, or at the limit and not before it.
ErrorsTellWhy ==
    /\ outcome = "NoneValue" => something = None
    /\ outcome = "StorageOverflow" => something = Some(MaxNumber)
=============================================================================
