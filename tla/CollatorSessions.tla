--------------------------- MODULE CollatorSessions ---------------------------
(***************************************************************************)
(* Who may author the parachain's blocks (polkadot-sdk/runtime): the       *)
(* genesis presets, collator selection, sessions, aura and authorship as   *)
(* the runtime wires them.  A set of collators is chosen at the end of a   *)
(* session, announced for one session and in office in the next.  The      *)
(* pallets are polkadot-sdk's and modelled from that wiring; all bonds are *)
(* equal, so candidates rank by the time they registered.                  *)
(***************************************************************************)
EXTENDS Integers, FiniteSetsExt, SequencesExt

CONSTANTS
    Alice, Bob,           \* the well-known keys of the presets
    Others,               \* the other accounts
    Nobody,               \* no account: a block that is credited to none
    Period,               \* blocks of a session: 6 hours in the code
    MinEligibleCollators, \* 4 in the code
    MaxCandidates,        \* 100 in the code
    MaxInvulnerables,     \* 20 in the code
    MaxDesired,           \* bound: DesiredCandidates
    MaxBlock,             \* bound: blocks
    MaxCalls              \* bound: calls that change who may author

Accounts == {Alice, Bob} \cup Others

ASSUME AccountsAssumption == Alice # Bob /\ Nobody \notin Accounts
ASSUME FiniteAssumption == IsFiniteSet(Others) \* AccountId is 32 bytes
ASSUME LimitsAssumption ==
    /\ Period \in Nat \ {0}
    /\ {MinEligibleCollators, MaxCandidates, MaxInvulnerables} \subseteq Nat
    /\ {MaxDesired, MaxBlock, MaxCalls} \subseteq Nat
    /\ MaxInvulnerables >= 2 \* those of the presets

VARIABLES
    invulnerables, \* collators that do not bid, sorted
    twice,         \* history: accounts that a list of invulnerables named twice
    candidates,    \* CandidateList, the newest first
    desired,       \* DesiredCandidates
    lastAuthored,  \* LastAuthoredBlock; 0 when there is none
    keys,          \* accounts with registered SessionKeys
    validators,    \* the session in office
    queued,        \* the session announced
    changed,       \* QueuedChanged
    authorities,   \* aura's authorities, by the account each key belongs to
    block,         \* the number of the current block
    credit,        \* who sealed the current block, and who is credited with it
    sealers,       \* who has sealed a block of this session
    calls          \* calls so far

selection == <<invulnerables, twice, candidates, desired>>
session == <<validators, queued, changed, authorities>>
sessionsVars == <<selection, lastAuthored, keys, session, block, credit, sealers, calls>>

\* The order of AccountId: any will do.
Order == SetToSeq(Accounts)
Rank(a) == CHOOSE i \in DOMAIN Order : Order[i] = a

Sorted(list) ==
    {s \in {[i \in DOMAIN list |-> list[p[i]]] : p \in Injection(DOMAIN list, DOMAIN list)} :
        \A i, j \in DOMAIN list : i < j => Rank(s[i]) <= Rank(s[j])}

Repeated(list) ==
    {a \in ToSet(list) : \E i, j \in DOMAIN list : i # j /\ list[i] = a /\ list[j] = a}

\* Two presets with one content: the invulnerables, each with its key.
Presets == [development |-> <<Alice, Bob>>, local_testnet |-> <<Alice, Bob>>]

Init ==
    \E preset \in DOMAIN Presets :
        \E collators \in Sorted(Presets[preset]) :
           /\ invulnerables = collators /\ keys = ToSet(collators) /\ twice = {}
           /\ validators = collators /\ queued = collators /\ authorities = collators
           /\ candidates = <<>> /\ desired = 0 /\ changed = FALSE
           /\ lastAuthored = [a \in Accounts |-> 0]
           /\ block = 0 /\ credit = [sealer |-> Nobody, author |-> Nobody]
           /\ sealers = {} /\ calls = 0

----------------------------------------------------------------------------
(* A block begins.                                                         *)

Fault_KickThreshold == Period - 1
KickThreshold == Period

Offset == 0
ShouldEndSession(now) == (now - Offset) % Period = 0

Eligible(list) == Len(invulnerables) + Len(list)

\* kick_stale_candidates goes through the candidates and removes those who have
\* become invulnerable and, above the minimum, those who have been idle.
Fault_KickStale(lasts, now) ==
    FoldLeft(LAMBDA list, a :
        IF /\ Eligible(list) > MinEligibleCollators
           /\ now - lasts[a] >= KickThreshold
        THEN RemoveFirst(list, a) ELSE list, candidates, candidates)

KickStale(lasts, now) ==
    FoldLeft(LAMBDA list, a :
        IF \/ a \in ToSet(invulnerables)
           \/ /\ Eligible(list) > MinEligibleCollators
              /\ now - lasts[a] >= KickThreshold
        THEN RemoveFirst(list, a) ELSE list, candidates, candidates)

\* assemble_collators: the invulnerables, then the first to have registered.
Assemble(list) ==
    invulnerables \o SubSeq(Reverse(list), 1, Min({desired, Len(list)}))

\* aura keeps its authorities when nothing was announced as changed, and when the
\* announced set is empty.
Fault_TakesEmptySet == IF changed THEN queued ELSE authorities

NextAuthorities == IF changed /\ queued # <<>> THEN queued ELSE authorities

\* A collator without a registered key is left out.
Keyed(list) ==
    FoldLeft(LAMBDA keyed, a : IF a \in keys THEN Append(keyed, a) ELSE keyed, <<>>, list)

RotateSession(lasts, now) ==
    LET remaining == KickStale(lasts, now)
        collators == Assemble(remaining)
    IN /\ validators' = queued
       /\ authorities' = NextAuthorities
       /\ candidates' = remaining
       /\ lastAuthored' = [a \in Accounts |->
             IF a \in ToSet(candidates) \ (ToSet(remaining) \cup ToSet(invulnerables))
             THEN 0 ELSE lasts[a]]
       /\ queued' = Keyed(collators)
       /\ changed' = TRUE
       /\ sealers' = {}

\* Authorship comes before Session in the order of the pallets: the index of the
\* sealing authority is looked up in the session that was in office.
Fault_AuthorAfterRotation(i, now) ==
    LET inOffice == IF ShouldEndSession(now) THEN queued ELSE validators
    IN IF i \in DOMAIN inOffice THEN inOffice[i] ELSE Nobody

AuthorOf(i, now) == IF i \in DOMAIN validators THEN validators[i] ELSE Nobody

\* note_author
NoteAuthor(author, now) ==
    IF author = Nobody THEN lastAuthored ELSE [lastAuthored EXCEPT ![author] = now]

\* The authority whose slot it is seals the block; its hooks run.
NewBlock(i) ==
    LET now == block + 1
        author == AuthorOf(i, now)
        lasts == NoteAuthor(author, now)
    IN /\ block < MaxBlock
       /\ block' = now
       /\ credit' = [sealer |-> authorities[i], author |-> author]
       /\ IF ShouldEndSession(now)
          THEN RotateSession(lasts, now)
          ELSE /\ lastAuthored' = lasts
               /\ sealers' = sealers \cup {authorities[i]}
               /\ UNCHANGED <<candidates, session>>
       /\ UNCHANGED <<invulnerables, twice, desired, keys, calls>>

----------------------------------------------------------------------------
(* Calls.  A call that fails changes nothing.                              *)

Call ==
    /\ calls < MaxCalls
    /\ calls' = calls + 1
    /\ UNCHANGED <<session, block, credit, sealers>>

SetKeys(a) ==
    Call /\ keys' = keys \cup {a} /\ UNCHANGED <<selection, lastAuthored>>

PurgeKeys(a) ==
    Call /\ a \in keys /\ keys' = keys \ {a} /\ UNCHANGED <<selection, lastAuthored>>

\* Idle time is counted from one threshold after the registration.
RegisterAsCandidate(a) ==
    /\ Call
    /\ a \in keys \ (ToSet(invulnerables) \cup ToSet(candidates))
    /\ Len(candidates) < MaxCandidates
    /\ candidates' = <<a>> \o candidates
    /\ lastAuthored' = [lastAuthored EXCEPT ![a] = block + KickThreshold]
    /\ UNCHANGED <<invulnerables, twice, desired, keys>>

LeaveIntent(a) ==
    /\ Call
    /\ Eligible(candidates) > MinEligibleCollators
    /\ a \in ToSet(candidates)
    /\ candidates' = RemoveFirst(candidates, a)
    /\ lastAuthored' = [lastAuthored EXCEPT ![a] = 0]
    /\ UNCHANGED <<invulnerables, twice, desired, keys>>

\* By root or by the relay chain's StakingAdmin (CollatorSelectionUpdateOrigin).  A
\* list keeps those with keys, an account it names twice as often as it does; the
\* candidates stay until the session ends.
SetInvulnerables(list) ==
    /\ Call
    /\ list = <<>> => Len(candidates) >= MinEligibleCollators
    /\ Len(list) <= MaxInvulnerables
    /\ invulnerables' \in Sorted(Keyed(list))
    /\ twice' = twice \cup Repeated(Keyed(list))
    /\ UNCHANGED <<candidates, desired, lastAuthored, keys>>

Fault_AddUnlimited(a) ==
    /\ Call
    /\ a \in keys \ ToSet(invulnerables)
    /\ invulnerables' \in Sorted(Append(invulnerables, a))
    /\ candidates' = RemoveFirst(candidates, a)
    /\ UNCHANGED <<twice, desired, lastAuthored, keys>>

AddInvulnerable(a) ==
    /\ Call
    /\ a \in keys \ ToSet(invulnerables)
    /\ Len(invulnerables) < MaxInvulnerables
    /\ invulnerables' \in Sorted(Append(invulnerables, a))
    /\ candidates' = RemoveFirst(candidates, a)
    /\ UNCHANGED <<twice, desired, lastAuthored, keys>>

RemoveInvulnerable(a) ==
    /\ Call
    /\ Eligible(candidates) > MinEligibleCollators
    /\ a \in ToSet(invulnerables)
    /\ invulnerables' = RemoveFirst(invulnerables, a)
    /\ UNCHANGED <<twice, candidates, desired, lastAuthored, keys>>

\* More than MaxCandidates is only a warning.
SetDesiredCandidates(n) ==
    /\ Call
    /\ desired' = n
    /\ UNCHANGED <<invulnerables, twice, candidates, lastAuthored, keys>>

\* Bound: the chain is followed no further.
End == block = MaxBlock /\ UNCHANGED sessionsVars

Next ==
    \/ \E i \in DOMAIN authorities : NewBlock(i)
    \/ \E a \in Accounts :
          \/ SetKeys(a) \/ PurgeKeys(a)
          \/ RegisterAsCandidate(a) \/ LeaveIntent(a)
          \/ AddInvulnerable(a) \/ RemoveInvulnerable(a)
    \/ \E list \in BoundedSeq(Accounts, MaxInvulnerables) : SetInvulnerables(list)
    \/ \E n \in 0 .. MaxDesired : SetDesiredCandidates(n)
    \/ End

Spec == Init /\ [][Next]_sessionsVars

----------------------------------------------------------------------------
(* Properties.                                                             *)

\* Type invariant; both kinds of collators stay within their limits, and no candidate
\* is listed twice.
TypeOK ==
    /\ ToSet(invulnerables) \cup ToSet(candidates) \cup keys \cup twice \subseteq Accounts
    /\ Len(invulnerables) <= MaxInvulnerables
    /\ Len(candidates) <= MaxCandidates /\ IsInjective(candidates)
    /\ desired \in 0 .. MaxDesired
    /\ lastAuthored \in [Accounts -> 0 .. MaxBlock + KickThreshold]
    /\ ToSet(queued) \cup ToSet(validators) \cup ToSet(authorities) \subseteq Accounts
    /\ changed \in BOOLEAN
    /\ credit \in [sealer : Accounts \cup {Nobody}, author : Accounts \cup {Nobody}]
    /\ sealers \subseteq Accounts

\* The account credited with a block is the one whose key sealed it, in the first
\* and the last block of a session too; none is credited while the session in
\* office has lost all its keys (lib.rs, "The order of these 4 are important").
CreditStep ==
    block' # block =>
        credit'.author = IF validators = <<>> THEN Nobody ELSE credit'.sealer

CreditGoesToSealer == [][CreditStep]_sessionsVars

\* Somebody may always author the next block, whatever keys were purged and
\* whoever was removed.
AuthoritiesNeverEmpty == authorities # <<>>

\* Nobody holds two slots of a round: a candidate who becomes invulnerable is not
\* counted as both.  Only a list of invulnerables that itself names an account twice,
\* which the pallet does not refuse, gives it two.
NoAuthorityTwice ==
    \A list \in {queued, validators, authorities} : Repeated(list) \subseteq twice

\* A candidate who sealed a block in a session is not kicked at its end: the
\* threshold is no shorter than a session, and credit is given before.
KickedWereIdleStep ==
    block' # block /\ validators # <<>> =>
        \A a \in ToSet(candidates) \ ToSet(candidates') :
            a \in ToSet(invulnerables) \/ a \notin sealers \cup {credit'.sealer}

KickedWereIdle == [][KickedWereIdleStep]_sessionsVars
===============================================================================
