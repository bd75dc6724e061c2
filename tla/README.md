# Verification of the NFT rental game

Formal models, model-checking runs and machine-checked proofs for the program in
this repository: a contract that rents out copies of NFTs as passes to a game,
the web pages that use it, and the Substrate parachain that is to host it.

The specifications are TLA+; TLC checks them on small instances, and TLAPS proves
the theorems listed below for every value of the constants. Every definition that
stands for code is listed with its file and lines in `PROJECT.json` under `map`.

## 1. The system

### Parts, their state and their operations

| part | source | state | operations |
|---|---|---|---|
| rental contract | `smart_contract/rent_contract/rent_contract_RL_attempt.sol` | array `availableNfts` of copies (id, `isRented`), mapping `rentals` (id, start, active) | `store`, `rentNft`, `endRental`; views `getAvailableNfts`, `checkAccess`, `getUserNfts`, `getUserStartTime` |
| first rental contract | `.../rent_contract.sol` | mapping `rentals` | `rentGame`, `endRental`, `checkAccess` |
| page v4 (v3 has the same App, RentNft and WalletConnect) | `front-end/v4/src` | `account`, `contract`, `rentedNfts`, `availableNfts`, in the memory of a tab | connect, mint, rent, effects that read the list |
| page v2 | `front-end/v2` | as v4, but the list belongs to RentNft | RentNft rents from the wallet's account, then calls App's handler, which rents again |
| access panels | `CheckAccess.jsx` of v2, v3, v4 | `accessTimes`, `countdowns`, `loading`, an interval | one read per change of its inputs, a tick per second |
| mock pages, mock game | `App.jsx`, `front-end/*.jsx`, `front-end/mock v2`, `mock game` | a list in memory; a constant | |
| template pallet | `polkadot-sdk/pallets/template` | `Something`, the events of the block | `do_something`, `cause_error` |
| runtime: blocks and fees | `polkadot-sdk/runtime/src/{lib,configs/mod}.rs` | balances, nonces, weight used by class | `validate_transaction`, `apply_extrinsic`, sudo, `transfer_all`, hooks |
| runtime: sessions and collators | the same, `genesis_config_presets.rs` | invulnerables, candidates, keys, sessions, aura's authorities, authorship | the calls of collator selection and session, `on_initialize` |
| runtime: asynchronous backing | the same, `apis.rs` | relay parent, slot and unincluded segment of each block | `set_validation_data`, the consensus hook, `can_build_upon` |
| runtime: messages from other chains | `configs/xcm_config.rs` | the executor's registers, balances, traps | one instruction after another, behind the barrier |
| collator process | `polkadot-sdk/node` | the task manager's tasks, the network | ten subcommands and none, `start_parachain_node` |
| ink! contract | `smart_contract/NFT_Game` | one boolean | `flip`, `get` (the ink! template) |

### How they interact

A page talks to the wallet (`window.ethereum`): it asks for accounts and hears
`accountsChanged`. A click on *Rent* calls `rentNft(id).send(...)`: the wallet
prompts, the confirmed transaction waits in the mempool, a block includes it or it
reverts, and the receipt resumes the handler. Reads (`getAvailableNfts().call()`)
go to a node, which answers from the state it has; nothing orders the answers. The
contract knows only its callers' addresses and `block.timestamp`. The page never
calls `endRental`. The parachain does not host the Solidity contract yet: pallet,
runtime and node share no state with the rest.

Within the runtime, a transaction passes the pool and the checks of `TxExtension`
before a pallet sees it; what the block's hooks and other transactions have used
decides whether it fits. Aura says who may author, `Authorship` reads who did,
collator selection credits that collator, and `Session` turns the collators it has
chosen into aura's authorities. A collator asks `can_build_upon` of a parent before it
builds a block on it, and the block checks again while it executes. A message from
the relay chain or a sibling is executed on behalf of its origin, and `Transact`
turns that origin into one of this chain, where the StakingAdmin body may choose
collators.

### What is hard, and what makes each part correct

- *Contract.* The array and the mapping are two accounts of the same fact (who has
  a copy) and are kept in step by loops that stop at the first match. `store` takes
  an id that exists, so an id may have several copies; `rentNft` takes the first free
  one and `endRental` clears the first one, which need not be the same. Expiry is
  computed in two views and changes nothing. Correct: never more renters than
  copies taken, what is listed can be rented, an idle id can be rented, access
  begins with a rental.
- *Pages.* Clicks overlap, tabs race for one copy, send() gives up while the
  transaction may still be mined, a reload forgets what the contract remembers,
  answers arrive in any order, the account changes under a running handler. Correct:
  what the page records was granted, each handler ends, the list errs only towards
  copies somebody has taken since.
- *Page v2.* One click sends two transactions, perhaps from two accounts.
- *Pallet.* The limit of the number's width, and errors that leave the state.
- *Blocks and fees.* A transaction is judged twice, when it enters the pool and when it
  is applied, in states that differ; the pool keeps transactions that are in a block
  already; an account that is emptied forgets its nonce; operational calls may fill a
  reserve above the maximum; sudo makes calls as anybody and gives its fee back. Correct:
  in order and once, bounded blocks, what is admitted can be included, no fee ends an
  account, and nobody pays or acts but for itself.
- *Sessions.* A set is chosen, announced and in office one session later; keys and
  collators change in between; author credit and rotation happen in one block.
  Correct: somebody can always author, nobody twice but whom a list of invulnerables names
  twice, credit to whoever sealed.
- *Asynchronous backing.* Forks, lost candidates, collators that lag; two implementations
  of one question. Correct: the segment is what is not included, the backlog is
  bounded, and what the collator may build the runtime accepts.
- *Messages.* Instructions change the origin on the way, a failure undoes nothing, the
  barrier believes a prefix, accounts end below the existential deposit. Correct: calls are
  the sender's own, only the relay chain goes unpaid, and no asset is made, nor lost but as
  dust or as a fee without an author.
- *Node.* Any step of the start may fail, and a task may end while the start still
  waits, when nobody watches. Correct: open to the network only when complete, and
  not alive without an essential task.

The hazards, each at its line and with the properties that cover it, are listed in
`PROJECT.json`.

## 2. The modules

| module | models | builds on |
|---|---|---|
| `RentalContract` | the rental contract and the block clock | |
| `LicencePool` | what a rental register promises: stock, leases, no flags | |
| `LightRental` | the first contract | |
| `RentalContractRefinement` | the contract implements both of the above | `RentalContract` |
| `RentalDApp` | wallets, tabs of page v4, mempool, node reads, contract | `RentalContract` |
| `RentalPageV2` | wallets, tabs of page v2, mempool, contract | `RentalContract` |
| `TemplatePallet` | the pallet within blocks | |
| `BlockExecution` | pool, nonces, weights, fees, sudo, the block around the pallet | `TemplatePallet` |
| `CollatorSessions` | presets, collator selection, sessions, aura, authorship | |
| `AsyncBacking` | the tree of parachain blocks and the relay chain's inclusion | |
| `XcmExecution` | barrier, executor and origins for incoming messages | |
| `NodeStartup` | `run()` and `start_parachain_node` | |
| `RentalContractProofs`, `RentalDAppProofs`, `RentalPageV2Proofs`, `BlockExecutionProofs`, `CollatorSessionsProofs`, `AsyncBackingProofs`, `XcmExecutionProofs`, `NodeStartupProofs` | theorems (those about the pallet alone are in `BlockExecutionProofs`) | the module they are named for |
| `MC...` | instances and symmetry for TLC | |

Definitions named `Fault_...` are plausible slips in the definition that follows
them. No specification uses them; with one put in place of the definition, the
property that guards against it fails, which shows that the property can.

### RentalContract

The variables are the contract's storage and `now`, the block timestamp counted
from deployment. Each public function is one action, since a call runs to its end
or reverts; a revert is `RevertedCall`. A loop that breaks on its first match is
`MarkFirst` over the set of matches. The view that counts and then fills is
translated with its counter (`FillPass`), because its two passes must agree.
`LicencePool` has copies and leases only; the mapping in `RentalContractRefinement`
counts the slots of an id as stock and reads active records as leases. On the
records alone the contract still behaves as the first one, although that contract
had no copies: `ImplementsLightRental`.

### RentalDApp

A *request* is one invocation of a handler that sends: `prompt`, `pending`, then
`mined` or `reverted`, and gone when the handler has ended. `waiting` is false once
the handler has given up or its page was reloaded; the prompt and the transaction
live on. `SendTimeout` has web3's limits on the prompt, on the wait for a block and on the
polling for a receipt. A read is *asked*, then answered from the contract's state at that
moment, then delivered; answers of a tab are a bag, so they are delivered in any
order. Each statement that causes a read adds one to `asked`: the new contract
object after an account change, the handler's own read, and the effect on
`rentedNfts` (a recorded rental causes two). Wallet, mempool and node are external
and modelled from how the page uses them. Reverting gas estimation is `Refuse`.

### RentalPageV2

The same world with the older page: the list is read once, when the list component
is mounted, and a rental has two legs. Leg 1 goes out from the account the wallet
has when `getAccounts` answers (`rentedBy`), leg 2 from the account App had when the
button was drawn (`opener`). `FollowWallet` is `accountsChanged`, apart from
`SwitchWallet` so that a click can fall between them.

### TemplatePallet

`something` is the storage value, `events` what the block has deposited, `outcome`
what the last call returned. A failed call leaves storage and events (`Fails`).

### BlockExecution

Extends the pallet with what stands between a signer and its call. `Submit` is
`validate_transaction` (a nonce may be ahead, the current block does not count),
`Apply` is `apply_extrinsic`: the nonce must now be the account's, the weight must fit
(`Fits` is `CheckWeight` with the shares of `RuntimeBlockWeights`), the fee is burnt,
and the call runs, whose failure keeps fee and nonce. `Dispatch` is what a call does in
the pallet and `AfterCall` what it does to balances, for any origin; `Leaves` is what the
extensions leave behind. `Sudo` makes the same calls as root or as any account (`sudo`,
`sudo_as`), and calls that only carry weight, so that blocks fill up; the fee comes back
after it (`Refunded`), unless its call ended the account that had paid. `transfer_all` is
how an account ends, and its nonce with it; to oneself it changes nothing. `applied` is
history, the nonces used since the account exists.
`NewBlock` runs the hooks, with or without the message queue's service weight. `pool`
keeps transactions that are in a block until it hears of it (`Drop`). The fee is the
code's polynomial on a scale where an existential deposit is one. A block's hooks must
fit a block (`HooksAssumption`).

### CollatorSessions

`NewBlock(i)` is a block sealed by authority `i` with the hooks in the order of
`construct_runtime` (`lib.rs:285`): authorship credits the author, then the session
ends or not. A rotation kicks idle candidates, assembles the collators, announces
those with keys (`queued`, in the order of the collators) and puts the set announced before
in office; aura takes it over unless it is empty. Both presets have the same content. The
calls of the two pallets are one action each; pallets and hooks are polkadot-sdk's, so
these actions are external, and the configuration they run under is the runtime's.
`SetInvulnerables` takes a list, keeps those with keys and sorts it (`Sorted`, for an order
of accounts that may be any); it does not look for an account named twice. `twice` and
`sealers` are history. `SetInvulnerables`, `AddInvulnerable` and `RemoveInvulnerable` are
root's or the StakingAdmin's.

### AsyncBacking

`blocks` is every parachain block ever built with the part of its state that decides
about the next one; `heads[r]` is the head included as of relay block `r`. `Executes` is
the runtime's own judgement while it builds, in its order: `set_validation_data` with
the capacity that `FixedVelocityConsensusHook` returns, the timestamp, the hook.
`CanBuildUpon` is the runtime API (`apis.rs:65`), asked of the parent's state.
`PotentialParents` and the relay chain are external: a collator may not know the
deepest block and may lag by `AllowedAncestry`; a relay block includes what is pending,
keeps it waiting or gives it up.

### XcmExecution

A message of the enumerated instructions arrives from the relay chain or a sibling;
`Barrier` is the tuple at `xcm_config.rs:100-116`, with the look ahead of
`WithComputedOrigin`; then each instruction is an action on the registers, `Fail`
skips the rest and undoes nothing, and `Finish` traps what is left in holding and what the
trader gives back. An account that a withdrawal leaves below the existential deposit ends
and its rest is burnt (`DustRemoval` is nothing, `configs/mod.rs:155`); a deposit that stays
below it fails (`CanDeposit`). A fee is paid to the author when the message ends, or is
burnt when the block has none or its account would stay below the deposit (`ToAuthor`).
`LocationToAccountId` and `DispatchOrigins` are the tuples at lines 42-84. Nothing is
aliased, and the reserve of the relay chain's asset is the relay chain (`NativeAsset`).
`dispatched` records each call's location and the origin it got.

### NodeStartup

`stage` is the place in `run()` or `start_parachain_node`; each stage is an action
that spawns the tasks its lines spawn. A stage whose code has a `?` can `Fail`, which
drops the task manager with its tasks. Tasks run from the moment they are spawned and
may end by themselves at any time (`TaskEnds`). The commands fall into five kinds by
their control flow: no subcommand; those on `construct_async_run!`; those that build
the partial service and run synchronously; those that need the specification
only; and `purge-chain`. `Exit` is the runner's: `run_node_until_exit` watches the
signals and the essential tasks, those lost during the start too; `async_run` waits for its
operation or a signal (`Stopped`) and never looks at the tasks. `collator_key.expect`
(`service.rs:403`) holds because cumulus makes a key for every authority.

## 3. What the runs check

Time and counts are bounded; every bound is a constant of its module.

| run | instance | shows |
|---|---|---|
| `contract` | 3 users, ids 0 and 1, 3 copies, 3 ticks, duration 1 | no oversubscription, exactness with one copy, idle ids rentable, list and free copies agree, access only by renting, slots freed only by renters; `LicencePool` and `LightRental` are implemented |
| `dapp_tabs` | 2 tabs, 2 accounts, 2 transactions, 1 copy, 2 reads per tab, 1 tick | tabs and accounts race for the only copy |
| `dapp_clicks` | 1 tab, 2 accounts, 2 transactions, 2 copies, 4 reads | overlapping clicks (four reads are room for two rentals), an id stored twice; confirmed requests settle |
| `page_v2` | 1 tab, 2 accounts, 2 handlers, 1 tick | the price of a record, and when the second leg succeeds |
| `chain` | 2 signers of 18 and 3 deposits, blocks of 20 units, 2 nonces, 1 waiting transaction, one-bit numbers | transactions once and in order, bounded blocks, what is admitted fits, no account ended by a fee or charged for others, no wrapping |
| `collators` | 4 accounts, sessions of 2 blocks, 6 blocks, 4 calls, at least 2 eligible, at most 2 candidates and 2 invulnerables, up to 3 desired | somebody authors, nobody twice, credit to the sealer, only the idle are kicked |
| `backing` | 5 relay blocks, 5 parachain blocks, an allowed ancestry of 2 | exact segments, bounded backlog, what is built executes, velocity |
| `xcm` | 1 sibling, 1 user, 2 messages of up to 4 instructions, an existential deposit of 2, chains with 3 and a user with nothing | unpaid only from the relay chain, calls only as itself, fully backed |
| `node` | all commands and settings | opens last; an essential loss ends the node once its start is through |

Why these bounds: the contract compares ids for equality and indices for order, so
two ids and three slots give every pattern of equal and different ids around a first
match; three users on at most three copies reach every combination of too few and
too many copies. Two requests and two tabs are the smallest races; a third adds no
new pair of steps. Time matters only as before or after `startTime + duration`.

`chain`: blocks of 20 units keep the shares of the code (75 %, 5 %, 35 %) whole numbers,
and the heavy calls are those at the limits: the heaviest normal and operational call
admitted, and an operational one that just fits the reserve, so that blocks become full,
over-full and too full. One account can afford several transactions and one hardly one;
two of the first and one of the second overfill a block (`MaxNonce` is what bounds them);
with one waiting transaction a block's content still accumulates call by call, and a
submission may race the application; the same light calls are made signed, as root and as
either account. `collators`: six blocks are three sessions, from
registration over announcement to office; the code's minimum of four is two, the number of
the genesis collators, so that both sides of it are reached within four calls; keys and
lists change in any block, and three desired candidates are more than there may be, which is only a warning
(`MaxDesired`). `backing`: a capacity of three is exceeded by the fourth block of a chain, so
five blocks reach it, lose some and build again. `xcm`: the barrier reads at most five
instructions, and the shortest message that pays and calls has three; four leave room
for one change of origin, and the second message finds what the first left behind. A
withdrawal of 2 from 3 leaves dust; a deposit of what the fee left of 2 fails at an
account that does not exist, and succeeds once the message before has made it one.

Runs that end in a counterexample, each a sentence of the repository that the code
does not keep:

| run | sentence | what happens |
|---|---|---|
| `contract_leak` | "Mark NFT as available again" (contract, 97) | with two copies of an id rented and returned, the first is cleared twice and the second stays taken with no renter |
| `dapp_no_access_yet` | README, 33: the contract is queried for access | after a reload or a timeout, the page says "No access yet" to a user with access |
| `dapp_stale_list` | "Fetch available NFTs after ... updates" (`App.jsx`, 108) | an old answer that arrives late replaces a current list |

Others are plain from the code, in a single state or whatever the order of steps, and
have no run:

- `checkAccess` of the first contract never looks at the time, although the
  repository's README (line 80) says that the contract compares it with the duration of
  the pass. The second contract's comments promise "Auto-expire if time is up" (78) and
  "0 if none" (73): the record stays active, so the user cannot rent again until
  `endRental`, and id 0 can be stored and rented, when `checkAccess` answers 0.
- An expired rental stays active and its copy taken until its renter calls `endRental`, so
  what `checkAccess` says and what `rentNft` accepts drift apart for as long as nobody calls
  it. `AccessOnlyByRent` says only that such a record gives no access again.
- Page v2's further action after renting, "like updating UI" (`RentNft.jsx:197`), is a
  second rental; from the same account it reverts, and the page never shows the
  first. `SecondRentIsAnothers` is the exact statement.
- `cause_error` changes the pallet's value without the event that the comment at
  `lib.rs:102` of the pallet promises.
- The comment at `runtime/src/lib.rs:124` maps the base weight of an extrinsic to a tenth
  of a milliunit; the code divides by a hundred base weights more: a thousandth.
- The pool admits calls up to what 5 % for hooks leave (`lib.rs:206`); the message queue
  may take 35 % of any block (`configs/mod.rs:213`), and while it does, an admitted call
  that is heavy enough waits. `AcceptedFitsEmptyBlock` therefore speaks of blocks whose
  hooks keep to the 5 %.
- An account that is emptied starts again with nonce 0 when it is funded anew, and its old
  transactions, whose checks ask for no more than the nonce, apply again (mortal ones for as
  long as their era lasts). `AppliedInOrder` speaks of an account as long as it exists.
- `set_invulnerables` refuses no list that names an account twice, which then has two slots
  of a round. `NoAuthorityTwice` excepts those accounts.
- A candidate's idle time counts from one threshold after its registration: one that
  registers in the block of a rotation is kicked at its second following rotation, before
  it can have authored. Its sessions before office are not discounted.
- Two genesis invulnerables and a minimum of four: neither of the first two candidates
  can leave. A candidate made invulnerable by a list counts twice until the session ends.
- Should the session in office have lost all its keys, aura goes on with the authorities
  it had, whose blocks are then credited to nobody.
- `development_chain_spec` builds properties that it never sets (`chain_spec.rs:31-34`).

### Fairness

`RentalDApp`: a pending transaction is eventually included (the chain keeps making
blocks, and there is room for what is pending), a receipt that exists reaches a
handler that waits, and a read is answered or fails and an answer is delivered.
Nothing is assumed of the user: no click, confirmation, refusal or reload need
happen; and nothing of a timeout. `NodeStartup`: code that waits for nobody runs on
(`Proceed`), and the runner polls the future it waits for when that is ready (`Exit`).
Nothing is assumed of the two steps that await somebody else (`Awaits`): the relay chain
may never answer, and then the start hangs for ever with whatever tasks it has lost.
`EssentialLossEndsNode` therefore has the premise that the start is again and again
elsewhere, which its shape makes true as soon as those two steps end; from a loss at any
moment of the start, the node then reaches an end by the steps still to come and by what
its runner finds of the earlier losses. Operations under `async_run` may take for ever and
are not spoken of: their runner does not look at tasks. The other modules state
no liveness and have no fairness: whether blocks are built, included or authored at all
is up to collators and the relay chain, about which the runtime assumes nothing.

Deadlock is not checked in `NodeStartup`, where a process that has ended stops, and in
`XcmExecution`, where no message needs to arrive after the last. In `CollatorSessions` and
`AsyncBacking` reaching the bound is a step that changes nothing (`End`), so any other
stop, as a chain on which nobody can author, would be reported.

## 4. What is proved

**The contract** (`RentalContractProofs`), for any finite set of users, any set of
natural ids and any bounds:

- `Invariant`: `[]CopiesInv`; from it `TypeCorrect`, `NeverOversubscribed`,
  `SingleCopyIsExact`, `IdleIsRentable`.
- `AccessBeginsWithRent`, `SlotsAreReleasedByRenters`: the two action properties.
- `ContractImplementsPool`, `ContractImplementsLightRental`: the refinements.
- `OffersAreFreeCopies`: the list of `getAvailableNfts` has one entry per free copy, and
  none that its second pass left unwritten.

`IdleNftIsRentable` is not inductive. `endRental` may clear a slot that is already
free, so the number of taken copies may exceed the number of renters, and from such
a state counting alone cannot exclude an id that nobody rents and whose copies are
all taken. What saves it is which copy is cleared: always the *first*. Hence
`FirstCopyKept`: while nobody rents an id, its first copy is free. It holds since the
last `endRental` cleared that copy, `store` appends behind it, and `rentNft` makes
somebody a renter. `NoOversubscription` is kept because ending a rental clears at
most one slot and removes exactly one renter, and renting adds exactly one to
both. With one copy (`SingleCopyExact`), first free and first are the same slot.
The proof has one lemma per action on how the sets of slots and renters change
and counts with the library's facts on cardinalities. `ImplementsPool` follows:
a free slot and `NoOversubscription` give fewer leases than stock. `OffersAreFreeCopies`
rests on what holds after each turn of the second loop (`PassFine`): `idx` is the number
of free slots passed, and for each id the entries below `idx` are as many as its free
slots so far.

**The page and the contract** (`RentalDAppProofs`): `DAppImplementsContract`, every
behaviour of the tabs, wallets and mempool is one of the contract, so that all
of the above holds of the whole system; `EachRentalTakesOne`: as no page calls
`endRental`, taken copies and active rentals are equal in number for every id,
however many tabs, accounts and transactions there are; and `RecordsAreBacked`: what
tabs record of an id is at most what is rented of it. A record comes from a receipt and a
receipt from a rental, so the invariant (`Backed`) counts records together with the
receipts that handlers are still to read, for any set of ids: a mined rent adds one
renter and at most one receipt, the handler turns its receipt into one record.
`StaleOffersAreRentals`: each list on the screen or on its way is `Sound`, it offers an id
no more often than the id has free copies and renters together. A fresh answer is (by
`OffersAreFreeCopies`), and on this page that sum never falls, as a copy stops being free
only for somebody who then is a renter for ever. `PageTypeCorrect`: `ReadsFit` counts what a
tab has asked, what is answered, and the one or two reads each running handler owes
(`Debt`), so that no handler is held back by the bound on reads; the bound on records is
`Backed` for all ids at once.

**Page v2** (`RentalPageV2Proofs`): `PageImplementsContract` as above.
`SecondRentNeedsAnother`: a handler that has a first rental behind it has made
`rentedBy` a renter (`FirstRentStands`), and nothing on this page ends a rental; a second
rent by the same account would revert, so one that succeeds came from another
(`TwoAccounts`). `RecordsAreDoublePaid`: two for each record, one for each handler with
one rental behind it and one more for each with two never exceed the renters of the id
(`TwoEach`). Only the mining of a rent moves a handler ahead (`HandlersFollow`), by one
for one renter; the receipt trades two for a record.

**The pallet** (in `BlockExecutionProofs`): `PalletTypeCorrect`, `NumberNeverWraps`,
`ErrorsAreTrue`, for any width of number and argument.

**Blocks** (`BlockExecutionProofs`), for any accounts, funds, weights and prices:
`ChainTypeCorrect` (no balance below zero), `PalletHoldsInChain` (the pallet's own theorem
inside blocks), `TransactionsCountOnce`, `BlocksAreBounded`, `FeesKeepAccounts`,
`AccountsActForThemselves`, and `AcceptedFits`, which needs that the pool holds only calls
within the limit of their class (`Admitted`). `AppliedInOrder` and `BlockBounded` are
inductive with the types: that the nonces used are `0 .. nonce - 1` survives
`transfer_all` only because both are reset together. The two properties of steps compare
what fee, call and refund leave of each balance: a call takes from nobody but its origin,
which is the signer or, under sudo, whom the key names; the refund returns at most the
fee, and to nobody whose account has ended; and a nonce is lost only with an account, by
the `transfer_all` that ends it.

**Collators** (`CollatorSessionsProofs`), for any period and limits: `SomebodyAuthors` and
`SealersAreCredited`. The invariant `Announced` says that there are authorities, that they
are the session in office unless that is empty, and that as long as no change was announced
the set announced is theirs too: without the last part the first rotation could put in
office a set that aura was not told of. With it go `ListsOK` (limits, no candidate twice, and
among collators twice only whom a list of invulnerables named so) and `Noted`: unless the session in office has lost its keys, a candidate who sealed a
block of this session has a `lastAuthored` after its start (together `SessionInv`). From
these, `TypeCorrect`; `SlotsAreDistinct`, since the collators of a session are the
invulnerables followed by candidates of whom `KickStale` has left none invulnerable, so that
a slot is double only if the list of invulnerables is; and
`OnlyIdleAreKicked`, since the threshold equals the session, so that a block noted after
the session's start is too recent to be kicked for. What the folds over candidates and
keys return is characterised first (`KickedHadToGo`, `KeyedAreOfTheList`).

**Asynchronous backing** (`AsyncBackingProofs`), for relay chains, parachains and an allowed
ancestry of any length: `SegmentsAreExact`, `BacklogIsBounded`, `BuiltBlocksExecute`,
`VelocityIsBounded`, all from `BackingInv`. It says that blocks come after their parents
(so that the recursion of `Ancestors` defines what it should), that the heads of the relay
chain are a single growing chain and include or back only blocks with older relay parents
(`RelayOK`), and of every block that its segment lists, oldest first, what of its chain its
relay parent had not included, that slots and relay parents do not go back, and that the
count of blocks in its slot is right (`BlockOK`). The central step is `SegmentLeft`: dropping
from a segment up to a later head leaves what that head has not included, whether or not
the head is in the segment, and however many forks and losses lie in between.

**Messages** (`XcmExecutionProofs`), for messages of any length and number:
`SenderActsAsItself`, from `OwnOrigin`: the origin register holds the sender, a part of
it, or nothing, and every call made so far was made from such a location and under it.
`DescendOrigin` only goes deeper and every instruction that could go elsewhere fails,
as nothing is aliased. `SiblingsPayForCalls`, from `NoFreeCalls`: in what is left of a
sibling's unpaid message, any call comes after a payment or after an instruction that
fails. That holds of every message the barrier admits (`SiblingsPay`): the origin it
computes from a sibling's leading instructions reaches the relay chain's executive only
past a `UniversalOrigin`, which then fails. `TypeCorrect` and `AlwaysBacked`, from `LedgerOK`:
the reserve is the sum of all balances, the holding, the trap, what was bought with but not
yet paid out, the fees and what was burnt, and every account holds nothing or at least the
existential deposit; each instruction moves an amount between two of these, or changes the
reserve with them.

**Node** (`NodeStartupProofs`): `NodeTypeCorrect` and `NetworkOpensLast`, from `Progress`:
for each stage, the tasks that have been spawned when the start is there. The run is
exhaustive as well, since this module has no parameters; the proof says why.

Assumptions are the named `ASSUME`s of the modules: users are a finite set, ids and
bounds natural numbers, the null account is not an account, a `u32` argument fits the
block number, sudo's key is an account, the hooks fit a block, this chain is not its
own sibling, and the two well-known accounts differ. Accounts, users and siblings are
finite sets, as their identifiers are 32 bytes and 32 bits; the limit on invulnerables
leaves room for the two of the presets (the code's is 20).

What the proofs need to know of data defined by recursion (the passes of a list, folds over
candidates, keys, instructions and balances, the number of answers in a bag, the ancestors
of a block) is proved where it is used by a least counterexample: a smallest number
(`FirstExists`, `LeastNumber`) or a smallest set (`SmallestSet`) for which the claim fails.
The first use of it is always that the recursion has a solution at all, so that the
definition means it.

Only model-checked: liveness (`ConfirmedRequestsSettle`, `EssentialLossEndsNode`), as temporal
properties under fairness, which rest on what is enabled, are beyond the prover's backends.
Every other property of a passing run is a theorem. The three sentences that the code does
not keep have counterexamples and so no theorem.

## 5. Abstractions and what is left out

- Gas: every call of the contract fits in a block. Loops over a long array would not.
- Amounts: neither contract takes payment.
- Addresses, hashes and names are model values; block numbers in the pallet have an
  arbitrary width.
- The nodes that answer reads agree on one chain without forks: a reorganisation that
  takes back a mined rental is not modelled.
- Rendering, styling, logging and translation of numbers to text.
- The access panels: of theirs, `AccessShownWhenGranted` has what they say when no
  rental is recorded. When one is, `CheckAccess.jsx:97` of v4 uses `ethers.providers`,
  which the pinned ethers 6 does not have: it throws, the catch logs, and each rental
  is shown as *Expired*, so its countdown is dead code and not modelled.
- Of the node, the tasks themselves (network, import, authoring) are polkadot-sdk's.
  Signals are modelled as observed only by the two runners that watch for them.
- Blocks: a weight has one dimension (time; the code has proof size too), transactions are
  immortal, there are no tips and the fee multiplier, which `SlowAdjustingFeeUpdate` moves
  a little from block to block, stays at one. Inherent calls are part of the hooks' weight.
  Amounts count existential deposits, so that nothing smaller is ever left over (for dust,
  see messages); `set_key` and `remove_key` of sudo, and consumer references, which may
  keep an account from ending, are left out.
- Collators: all bonds are equal, so `update_bond`, `set_candidacy_bond` and
  `take_candidate_slot` are left out, and candidates rank by age. The pot that pays
  authors is not modelled. The pallet bounds the desired candidates by nothing; here
  `MaxDesired` does, which may be above `MaxCandidates`. The calls are translated from
  the library under this runtime's configuration, and external in the map.
- Backing: the relay chain does not fork and its slots have no gaps; elastic scaling
  (several blocks in one relay slot) is off in the configuration.
- Messages: how much of what was bought is given back and whether a block has an author
  are choices of the model; consumer references are left out. There are one asset, one
  sibling and one body besides the executive; no nested messages, no claims of what is
  trapped, no version discovery, and nothing of the sending side (`XcmRouter`, reserve
  transfers out), whose state is a queue of the library.
- Runtime APIs that only read (metadata, fee queries), benchmarks and weights, RPC wiring
  and chain specifications, which are constant data naming a preset.
- Mock pages and mock game: a list or a constant in memory, without a contract.
- OpenZeppelin under `.deps`, artifacts, generated weights, build and CI files are
  not the program's own logic. The ink! contract is a template unrelated to renting.

## 6. Plan

Written in this order because the contract is what all else rests on, the page is where
the concurrency is, and the chain's own code is small; then the runtime, whose
configuration decides what its library pallets do together. All modules above are
done. What could follow:

1. Abstract specifications for the runtime, with refinements proved as for the contract: a
   chain that is `capacity` ahead at most, for `AsyncBacking`, and a set of collators that
   changes by sessions, for `CollatorSessions`.
2. Bonds in `CollatorSessions`: `update_bond` and `take_candidate_slot` reorder candidates.
3. The sending side in `XcmExecution`: reserve transfers out, and a composition of two
   chains whose messages are lost or delayed, with `FullyBacked` across both.
4. `AccessPanel`: the interval and the reads of `CheckAccess.jsx` in v2 and v3, once the
   provider exists.
5. `MockRental`: the mock pages, whose list is their only truth.
