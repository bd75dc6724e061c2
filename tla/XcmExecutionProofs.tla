-------------------------- MODULE XcmExecutionProofs --------------------------
(***************************************************************************)
(* The calls that a message makes are its sender's own, a sibling pays     *)
(* before it calls, and no asset is made or lost: for any parachains and   *)
(* accounts and messages of any length.                                    *)
(***************************************************************************)
EXTENDS XcmExecution, FiniteSetTheorems, WellFoundedInduction, TLAPS

Junctions == {Plurality(b) : b \in {"Executive", "Defense"}}
                \cup {AccountId32(u) : u \in Users}
                \cup {Parachain(p) : p \in Siblings \cup {SelfPara}}
                \cup {<<"nowhere">>}
Locations == [parents : {0, 1}, interior : Seq(Junctions)]

----------------------------------------------------------------------------
(* Counterexamples that are as small as they can be.                        *)

LEMMA LeastNumber ==
  ASSUME NEW T \in SUBSET Nat, T # {}
  PROVE  \E m \in T : \A n \in T : m <= n
<1> DEFINE R == {p \in Nat \X Nat : p[1] < p[2]}
<1>1. IsWellFoundedOn(R, Nat)
  BY NatLessThanWellFounded DEF OpToRel
<1> HIDE DEF R
<1>2. PICK m \in T : \A n \in T : <<n, m>> \notin R
  BY <1>1, WFMin
<1>3. \A n \in T : ~(n < m)
  BY <1>2 DEF R
<1> QED
  BY <1>3

LEMMA SmallestSet ==
  ASSUME NEW S, IsFiniteSet(S), NEW F \in SUBSET (SUBSET S), F # {}
  PROVE  \E s \in F : \A x \in s : s \ {x} \notin F
<1>1. IsWellFoundedOn(StrictSubsetOrdering(S), SUBSET S)
  BY FS_FiniteSubsetsOfFinite, FS_StrictSubsetOrderingWellFounded
<1>2. PICK s \in F : \A t \in F : <<t, s>> \notin StrictSubsetOrdering(S)
  BY <1>1, WFMin
<1>3. ASSUME NEW x \in s PROVE s \ {x} \notin F
  BY <1>2 DEF StrictSubsetOrdering
<1> QED
  BY <1>3

\* A set to fold over gets smaller.
LEMMA Smaller ==
  ASSUME NEW D, IsFiniteSet(D), NEW s \in SUBSET D, NEW x \in s, NEW n \in Nat,
         Cardinality(s) <= n + 1
  PROVE  s \ {x} \in {t \in SUBSET D : Cardinality(t) <= n}
<1>1. IsFiniteSet(s) /\ Cardinality(s) \in Nat
  BY FS_Subset, FS_CardinalityType
<1>2. Cardinality(s \ {x}) = Cardinality(s) - 1
  BY <1>1, FS_RemoveElement
<1> QED
  BY <1>1, <1>2

LEMMA Greatest ==
  ASSUME NEW n \in Nat, NEW s \in SUBSET (1 .. n), s # {}
  PROVE  Max(s) \in s
<1>1. \A i \in s : i \in Nat /\ n - i \in Nat
  OBVIOUS
<1>2. PICK m \in {n - i : i \in s} : \A k \in {n - i : i \in s} : m <= k
  <2> DEFINE T == {n - i : i \in s}
  <2>1. T \in SUBSET Nat /\ T # {}
    BY <1>1
  <2> HIDE DEF T
  <2>2. \E m \in T : \A k \in T : m <= k
    BY <2>1, LeastNumber
  <2> QED
    BY <2>2 DEF T
<1>3. PICK i \in s : m = n - i
  BY <1>2
<1>4. ASSUME NEW j \in s PROVE i >= j
  <2>1. n - i <= n - j
    BY <1>2, <1>3
  <2> QED
    BY <1>1, <2>1
<1> QED
  BY <1>3, <1>4 DEF Max

----------------------------------------------------------------------------
(* Locations.                                                              *)

LEMMA SendersAreLocations ==
  ASSUME NEW l \in Senders PROVE l \in Locations /\ l.interior \in Seq(Junctions) /\ Within(l, l)
<1>1. l \in Locations
  <2>1. CASE l = RelayLocation
    BY <2>1 DEF RelayLocation, Location, Locations
  <2>2. ASSUME NEW p \in Siblings, l = SiblingLocation(p) PROVE l \in Locations
    <3>1. Parachain(p) \in Junctions
      BY DEF Junctions
    <3>2. <<Parachain(p)>> \in Seq(Junctions)
      BY <3>1
    <3> QED
      BY <2>2, <3>2 DEF SiblingLocation, Location, Locations
  <2> QED
    BY <2>1, <2>2 DEF Senders
<1> QED
  BY <1>1 DEF Locations, Within, IsPrefix

LEMMA SendersAreSomewhere == Nowhere \notin Senders
<1>1. Nowhere.parents = 0 /\ RelayLocation.parents = 1
  BY DEF Nowhere, RelayLocation, Location
<1>2. \A p : SiblingLocation(p).parents = 1
  BY DEF SiblingLocation, Location
<1> QED
  BY <1>1, <1>2 DEF Senders

LEMMA PartsStayWithin ==
  ASSUME NEW outer \in Locations, NEW l \in Locations, Within(l, outer), NEW j \in Junctions
  PROVE  Append_(l, j) \in Locations /\ Within(Append_(l, j), outer)
<1> DEFINE s == outer.interior
           t == l.interior
<1>1. s \in Seq(Junctions) /\ t \in Seq(Junctions)
      /\ l.parents \in {0, 1} /\ l.parents = outer.parents
      /\ Len(s) <= Len(t) /\ SubSeq(s, 1, Len(s)) = SubSeq(t, 1, Len(s))
  BY DEF Locations, Within, IsPrefix
<1>2. Append(t, j) \in Seq(Junctions) /\ Len(Append(t, j)) = Len(t) + 1
  BY <1>1
<1>3. SubSeq(Append(t, j), 1, Len(s)) = SubSeq(t, 1, Len(s))
  BY <1>1
<1>4. Append_(l, j) = [parents |-> l.parents, interior |-> Append(t, j)]
  BY DEF Append_, Location
<1> QED
  BY <1>1, <1>2, <1>3, <1>4 DEF Locations, Within, IsPrefix

\* Of the senders, only the relay chain has its bodies as parts.
LEMMA BodiesAreTheRelays ==
  ASSUME NEW l \in Senders, Within(Append_(RelayLocation, Plurality("Defense")), l)
  PROVE  l = RelayLocation
<1> SUFFICES ASSUME NEW p \in Siblings, l = SiblingLocation(p) PROVE FALSE
  BY DEF Senders
<1>1. Append_(RelayLocation, Plurality("Defense")).interior = <<Plurality("Defense")>>
  BY DEF Append_, RelayLocation, Location
<1>2. l.interior = <<Parachain(p)>>
  BY DEF SiblingLocation, Location
<1>3. SubSeq(<<Parachain(p)>>, 1, 1) = SubSeq(<<Plurality("Defense")>>, 1, 1)
  BY <1>1, <1>2 DEF Within, IsPrefix
<1>4. SubSeq(<<Parachain(p)>>, 1, 1)[1] = Parachain(p)
      /\ SubSeq(<<Plurality("Defense")>>, 1, 1)[1] = Plurality("Defense")
  OBVIOUS
<1>5. Parachain(p) = Plurality("Defense")
  BY <1>3, <1>4
<1> QED
  BY <1>5 DEF Parachain, Plurality

\* A call's origin names the location that made it.
LEMMA CallsNameTheirOrigin ==
  ASSUME NEW l, l # Nowhere, NEW kind, NEW as \in DispatchOrigins(l, kind)
  PROVE  as[2] = l
<1>1. LocationToAccountId(l) # Nowhere => LocationToAccountId(l) = l
  BY DEF LocationToAccountId
<1>2. \/ LocationToAccountId(l) # Nowhere /\ as = Signed(LocationToAccountId(l))
      \/ l = RelayLocation /\ as = Relay
      \/ as = SiblingPara(l)
      \/ as = Signed(l)
      \/ as = Xcm(l)
  BY Zenon DEF DispatchOrigins
<1>3. \A x : Signed(x)[2] = x /\ SiblingPara(x)[2] = x /\ Xcm(x)[2] = x
  BY DEF Signed, SiblingPara, Xcm
<1>4. Relay[2] = RelayLocation
  BY DEF Relay
<1> QED
  BY <1>1, <1>2, <1>3, <1>4

----------------------------------------------------------------------------
(* The executor.                                                           *)

\* Until it is cleared the origin is a part of the sender, and so was that of
\* every call that the message has made.
OwnOrigin ==
    /\ sender = Nowhere => dispatched = {} /\ message = <<>>
    /\ sender # Nowhere => sender \in Senders
    /\ message \in Seq(Instructions)
    /\ origin # Nowhere => origin \in Locations /\ Within(origin, sender)
    /\ \A d \in dispatched : Within(d.at, sender) /\ d.as[2] = d.at

LEMMA ArgumentsAreJunctions ==
  ASSUME NEW i \in Instructions, Op(i) = "DescendOrigin" PROVE Arg(i) \in Junctions
BY DEF Instructions, Op, Arg, Junctions

LEMMA OwnOriginInitially == Init => OwnOrigin
<1>1. Init => sender = Nowhere /\ message = <<>> /\ origin = Nowhere /\ dispatched = {}
  BY DEF Init
<1> QED
  BY <1>1 DEF OwnOrigin

LEMMA OwnOriginKept == ASSUME OwnOrigin, [Next]_xcmVars PROVE OwnOrigin'
<1> USE DEF OwnOrigin
<1>1. CASE Receive
  <2>1. PICK from \in Senders, m \in BoundedSeq(Instructions, MaxLength) :
          sender' = from /\ origin' = from /\ message' = m
    BY <1>1 DEF Receive
  <2>2. from \in Locations /\ Within(from, from)
    BY SendersAreLocations
  <2>3. Within(origin, sender)'
    BY <2>1, <2>2 DEF Within
  <2>4. m \in Seq(Instructions)
    BY DEF BoundedSeq, SeqOf
  <2>5. UNCHANGED dispatched /\ dispatched = {}
    BY <1>1 DEF Receive
  <2> QED
    BY <2>1, <2>2, <2>3, <2>4, <2>5, SendersAreSomewhere
<1>2. ASSUME NEW ops, Executes(ops)
      PROVE  /\ message[1] \in Instructions /\ message' \in Seq(Instructions)
             /\ sender' = sender /\ sender # Nowhere /\ sender \in Senders
  BY <1>2 DEF Executes
<1>3. CASE ChangeOrigin
  <2> DEFINE i == message[1]
  <2>1. /\ i \in Instructions /\ message' \in Seq(Instructions) /\ Succeeds(i)
        /\ sender' = sender /\ sender # Nowhere /\ sender \in Senders
        /\ Op(i) \in {"ClearOrigin", "DescendOrigin", "UniversalOrigin", "AliasOrigin"}
        /\ dispatched' = dispatched
    BY <1>2, <1>3 DEF ChangeOrigin, Executes
  <2>2. Op(i) \in {"ClearOrigin", "DescendOrigin"}
    BY <2>1 DEF Succeeds, UniversalAliases, Aliasers
  <2>3. CASE Op(i) = "ClearOrigin"
    BY <1>3, <2>1, <2>3 DEF ChangeOrigin
  <2>4. CASE Op(i) = "DescendOrigin"
    <3>1. origin # Nowhere /\ origin' = Append_(origin, Arg(i))
      BY <1>3, <2>1, <2>4 DEF ChangeOrigin, Succeeds
    <3>2. Arg(i) \in Junctions
      BY <2>1, <2>4, ArgumentsAreJunctions
    <3>3. origin' \in Locations /\ Within(origin', sender)
      BY <2>1, <3>1, <3>2, PartsStayWithin, SendersAreLocations
    <3> QED
      BY <2>1, <3>3 DEF Within
  <2> QED
    BY <2>2, <2>3, <2>4
<1>4. CASE Transact
  <2>1. /\ message' \in Seq(Instructions) /\ sender' = sender /\ sender # Nowhere
        /\ sender \in Senders /\ origin # Nowhere /\ origin' = origin
        /\ Within(origin, sender)
    BY <1>2, <1>4 DEF Transact, Executes, Succeeds
  <2>2. \A as \in DispatchOrigins(origin, Arg(message[1])) : as[2] = origin
    BY <2>1, CallsNameTheirOrigin
  <2>3. \A d \in dispatched' : Within(d.at, sender) /\ d.as[2] = d.at
    BY <1>4, <2>1, <2>2 DEF Transact
  <2> QED
    BY <2>1, <2>3 DEF Within
<1>5. CASE \/ WithdrawAsset \/ ReserveAssetDeposited \/ BuyExecution \/ UnpaidExecution
           \/ DepositAsset
  <2>1. message' \in Seq(Instructions) /\ sender # Nowhere
    BY <1>2, <1>5 DEF WithdrawAsset, ReserveAssetDeposited, BuyExecution, UnpaidExecution, DepositAsset
  <2>2. UNCHANGED <<sender, origin, dispatched>>
    BY <1>5 DEF WithdrawAsset, ReserveAssetDeposited, BuyExecution, UnpaidExecution,
       DepositAsset, Executes, registers
  <2> QED
    BY <2>1, <2>2 DEF Within
<1>6. CASE Fail
  BY <1>6 DEF Fail, registers, Within
<1>7. CASE Finish
  BY <1>7 DEF Finish, Clear, Within
<1>8. CASE UNCHANGED xcmVars
  BY <1>8 DEF xcmVars, registers, Within
<1> QED
  BY <1>1, <1>3, <1>4, <1>5, <1>6, <1>7, <1>8 DEF Next

LEMMA AlwaysOwnOrigin == Spec => []OwnOrigin
BY OwnOriginInitially, OwnOriginKept, PTL DEF Spec

\* Calls are made by the sender or a part of it, signed only by the account of the
\* location that makes them, and only the relay chain's may rule the collators.
THEOREM SenderActsAsItself == Spec => []ActsOnlyAsItself
<1>1. ASSUME OwnOrigin, NEW d \in dispatched
      PROVE  /\ Within(d.at, sender) /\ d.as[2] = d.at
             /\ d.as \in CollatorSelectionUpdateOrigin => sender = RelayLocation
  <2>1. sender \in Senders /\ Within(d.at, sender) /\ d.as[2] = d.at
    BY <1>1 DEF OwnOrigin
  <2>2. ASSUME d.as \in CollatorSelectionUpdateOrigin PROVE sender = RelayLocation
    <3>1. d.at = Append_(RelayLocation, Plurality("Defense"))
      BY <2>1, <2>2 DEF CollatorSelectionUpdateOrigin, Xcm
    <3> QED
      BY <2>1, <3>1, BodiesAreTheRelays
  <2> QED
    BY <2>1, <2>2
<1>2. OwnOrigin => ActsOnlyAsItself
  BY <1>1 DEF ActsOnlyAsItself
<1> QED
  BY <1>2, AlwaysOwnOrigin, PTL

----------------------------------------------------------------------------
(* On whose behalf the barrier takes a message to come.                    *)

OriginFold(l, prefix, at) ==
    at = [s \in SUBSET DOMAIN prefix |->
            IF s = {} THEN l
            ELSE IF Op(prefix[Max(s)]) = "UniversalOrigin"
              THEN RelativeTo(Arg(prefix[Max(s)]))
              ELSE Append_(at[s \ {Max(s)}], Arg(prefix[Max(s)]))]

LEMMA ComputedByFold ==
  ASSUME NEW l, NEW prefix
  PROVE  ComputedOrigin(l, prefix) = (CHOOSE at : OriginFold(l, prefix, at))[DOMAIN prefix]
BY DEF ComputedOrigin, FoldLeft, MapThenFoldSet, OriginFold

\* The computed origin, instruction by instruction.
LEMMA ComputedOriginRecurs ==
  ASSUME NEW l, NEW prefix, NEW n \in Nat, DOMAIN prefix = 1 .. n
  PROVE  \E at : OriginFold(l, prefix, at) /\ ComputedOrigin(l, prefix) = at[DOMAIN prefix]
<1> DEFINE D == DOMAIN prefix
           next(at, s) == IF s = {} THEN l
                          ELSE IF Op(prefix[Max(s)]) = "UniversalOrigin"
                            THEN RelativeTo(Arg(prefix[Max(s)]))
                            ELSE Append_(at[s \ {Max(s)}], Arg(prefix[Max(s)]))
           Upto(k) == {s \in SUBSET D : Cardinality(s) <= k}
           None == {k \in Nat : ~ \E at : at = [s \in Upto(k) |-> next(at, s)]}
<1>1. IsFiniteSet(D) /\ Cardinality(D) = n
  BY FS_Interval
<1>2. None = {}
  <2>0. None \in SUBSET Nat
    OBVIOUS
  <2> SUFFICES ASSUME None # {} PROVE FALSE
    OBVIOUS
  <2> HIDE DEF None
  <2>1. PICK k \in None : \A j \in None : k <= j
    BY <2>0, LeastNumber
  <2>2. k # 0
    <3>1. Upto(0) = {{}}
      <4>1. ASSUME NEW s \in SUBSET D, Cardinality(s) <= 0 PROVE s = {}
        <5>1. IsFiniteSet(s) /\ Cardinality(s) \in Nat
          BY <1>1, FS_Subset, FS_CardinalityType
        <5> QED
          BY <4>1, <5>1, FS_EmptySet
      <4> QED
        <5>1. {} \in Upto(0)
          BY FS_EmptySet
        <5> HIDE DEF next, None
        <5> QED
          BY <4>1, <5>1
    <3>2. [s \in Upto(0) |-> l] = [s \in Upto(0) |-> next([t \in Upto(0) |-> l], s)]
      BY <3>1
    <3> QED
      BY <3>2 DEF None
  <2>3. k - 1 \in Nat /\ k - 1 \notin None
    <3>1. k \in Nat
      BY <2>0, <2>1
    <3>2. k - 1 \in Nat /\ ~(k <= k - 1)
      BY <2>2, <3>1
    <3> QED
      BY <2>1, <3>2
  <2>4. PICK at : at = [s \in Upto(k - 1) |-> next(at, s)]
    BY <2>3 DEF None
  <2> DEFINE at2 == [s \in Upto(k) |-> next(at, s)]
  <2>5. ASSUME NEW s \in Upto(k - 1) PROVE at2[s] = at[s]
    <3>1. s \in Upto(k)
      <4>1. Cardinality(s) \in Nat /\ Cardinality(s) <= k - 1 /\ s \in SUBSET D
        BY <1>1, FS_Subset, FS_CardinalityType
      <4>2. Cardinality(s) <= k /\ k \in Nat
        BY <2>0, <2>1, <2>3, <4>1
      <4> QED
        BY <4>1, <4>2
    <3>2. at[s] = next(at, s)
      BY <2>4
    <3> QED
      BY <3>1, <3>2
  <2>6. ASSUME NEW s \in Upto(k) PROVE next(at2, s) = next(at, s)
    <3> SUFFICES ASSUME s # {} PROVE at2[s \ {Max(s)}] = at[s \ {Max(s)}]
      OBVIOUS
    <3>1. Max(s) \in s
      BY Greatest
    <3>2. s \ {Max(s)} \in Upto(k - 1)
      <4>1. s \in SUBSET D /\ Cardinality(s) <= (k - 1) + 1
        BY <2>0, <2>1
      <4> HIDE DEF next, at2, D, Upto
      <4>2. s \ {Max(s)} \in {t \in SUBSET D : Cardinality(t) <= k - 1}
        BY <1>1, <2>3, <3>1, <4>1, Smaller
      <4> QED
        BY <4>2 DEF Upto
    <3> HIDE DEF at2, Upto
    <3> QED
      BY <2>5, <3>2
  <2>7. at2 = [s \in Upto(k) |-> next(at2, s)]
    BY <2>6
  <2> QED
    BY <2>1, <2>7 DEF None
<1>3. PICK at : at = [s \in Upto(n) |-> next(at, s)]
  BY <1>2
<1>4. Upto(n) = SUBSET D
  BY <1>1, FS_Subset
<1>5. OriginFold(l, prefix, at)
  BY <1>3, <1>4 DEF OriginFold
<1> QED
  BY <1>5, ComputedByFold

\* An origin that only descends stays below the sender.
LEMMA DescentStaysBelow ==
  ASSUME NEW l \in Locations, l.interior # <<>>,
         NEW prefix \in Seq(Instructions),
         \A i \in DOMAIN prefix : Op(prefix[i]) = "DescendOrigin"
  PROVE  /\ ComputedOrigin(l, prefix).interior # <<>>
         /\ ComputedOrigin(l, prefix).interior[1] = l.interior[1]
<1> DEFINE D == DOMAIN prefix
           Below == {at \in Locations : at.interior # <<>> /\ at.interior[1] = l.interior[1]}
<1>1. D = 1 .. Len(prefix) /\ Len(prefix) \in Nat /\ IsFiniteSet(D)
  BY FS_Interval
<1>2. PICK at : OriginFold(l, prefix, at) /\ ComputedOrigin(l, prefix) = at[D]
  BY <1>1, ComputedOriginRecurs
<1>3. \A s \in SUBSET D : at[s] \in Below
  <2> DEFINE Bad == {s \in SUBSET D : at[s] \notin Below}
  <2> SUFFICES ASSUME Bad # {} PROVE FALSE
    OBVIOUS
  <2> HIDE DEF Bad
  <2>1. PICK s \in Bad : \A x \in s : s \ {x} \notin Bad
    <3>1. Bad \in SUBSET (SUBSET D)
      BY DEF Bad
    <3> QED
      BY <1>1, <3>1, SmallestSet
  <2>2. s \in SUBSET D /\ at[s] \notin Below
    BY DEF Bad
  <2>3. CASE s = {}
    <3>1. at[s] = l
      BY <1>2, <2>2, <2>3 DEF OriginFold
    <3> QED
      BY <2>2, <3>1
  <2>4. CASE s # {}
    <3> DEFINE x == Max(s)
    <3>1. x \in s /\ s \in SUBSET (1 .. Len(prefix))
      BY <1>1, <2>2, <2>4, Greatest
    <3>2. at[s \ {x}] \in Below
      BY <2>1, <2>2, <3>1 DEF Bad
    <3>3. Op(prefix[x]) = "DescendOrigin" /\ prefix[x] \in Instructions
      <4>1. x \in DOMAIN prefix
        BY <2>2, <3>1
      <4> QED
        BY <4>1
    <3>4. at[s] = Append_(at[s \ {x}], Arg(prefix[x]))
      BY <1>2, <2>2, <2>4, <3>3 DEF OriginFold
    <3>5. Arg(prefix[x]) \in Junctions
      BY <3>3, ArgumentsAreJunctions
    <3> HIDE DEF x
    <3>6. \A b \in Below, j \in Junctions : Append_(b, j) \in Below
      <4> SUFFICES ASSUME NEW b \in Below, NEW j \in Junctions PROVE Append_(b, j) \in Below
        OBVIOUS
      <4>1. b.interior \in Seq(Junctions) /\ b.parents \in {0, 1} /\ b.interior # <<>>
            /\ b.interior[1] = l.interior[1]
        BY DEF Locations
      <4>2. /\ Append(b.interior, j) \in Seq(Junctions) /\ Append(b.interior, j) # <<>>
            /\ Append(b.interior, j)[1] = b.interior[1]
        BY <4>1
      <4>3. Append_(b, j) = [parents |-> b.parents, interior |-> Append(b.interior, j)]
        BY DEF Append_, Location
      <4> QED
        BY <4>1, <4>2, <4>3 DEF Locations
    <3> QED
      BY <2>2, <3>2, <3>4, <3>5, <3>6
  <2> QED
    BY <2>3, <2>4
<1> QED
  BY <1>2, <1>3

LEMMA SmallerOfTwo ==
  ASSUME NEW a \in Nat, NEW b \in Nat
  PROVE  Min({a, b}) \in {a, b} /\ Min({a, b}) <= a /\ Min({a, b}) <= b
<1>1. CASE a <= b
  <2>1. \A y \in {a, b} : a <= y
    BY <1>1
  <2>2. Min({a, b}) \in {a, b} /\ \A y \in {a, b} : Min({a, b}) <= y
    BY <2>1 DEF Min
  <2> QED
    BY <2>2
<1>2. CASE ~(a <= b)
  <2>1. \A y \in {a, b} : b <= y
    BY <1>2
  <2>2. Min({a, b}) \in {a, b} /\ \A y \in {a, b} : Min({a, b}) <= y
    BY <2>1 DEF Min
  <2> QED
    BY <2>2
<1> QED
  BY <1>1, <1>2

LEMMA PrefixIsLeading ==
  ASSUME NEW m \in Seq(Instructions)
  PROVE  /\ PrefixLength(m) \in 0 .. Len(m)
         /\ \A i \in 1 .. PrefixLength(m) : Op(m[i]) \in {"UniversalOrigin", "DescendOrigin"}
<1> DEFINE limit == Min({Len(m), MaxPrefixes})
           Leads(i) == Op(m[i]) \in {"UniversalOrigin", "DescendOrigin"}
           Stops == {n \in 0 .. limit : n < limit => ~Leads(n + 1)}
           Fits(n) == /\ \A i \in 1 .. n : Leads(i)
                      /\ n < limit => ~Leads(n + 1)
<1>1. limit \in Nat /\ limit <= Len(m)
  BY SmallerOfTwo, LimitsAssumption
<1> HIDE DEF limit, Leads
<1>2. PICK n \in Stops : \A k \in Stops : n <= k
  <2>1. Stops \in SUBSET Nat /\ limit \in Stops
    BY <1>1
  <2> HIDE DEF Stops
  <2> QED
    BY <2>1, LeastNumber
<1>3. ASSUME NEW i \in 1 .. n PROVE Leads(i)
  <2>1. n \in 0 .. limit /\ i - 1 \in 0 .. limit /\ ~(n <= i - 1) /\ i - 1 < limit
    BY <1>1
  <2>2. i - 1 \notin Stops
    BY <1>2, <2>1
  <2>3. Leads(i - 1 + 1)
    BY <2>1, <2>2
  <2>4. i - 1 + 1 = i
    OBVIOUS
  <2> QED
    BY <2>3, <2>4
<1>4. n \in 0 .. limit /\ Fits(n)
  BY <1>2, <1>3
<1>5. PrefixLength(m) = CHOOSE k \in 0 .. limit : Fits(k)
  BY DEF PrefixLength, limit, Leads
<1> HIDE DEF Fits
<1>6. PrefixLength(m) \in 0 .. limit /\ Fits(PrefixLength(m))
  BY <1>4, <1>5
<1> QED
  BY <1>1, <1>6 DEF Fits, Leads

\* Before any call of m comes what makes it paid for, or what makes it fail.
NoFreeCall(m) ==
    \A t \in 1 .. Len(m) :
        Op(m[t]) = "Transact" =>
            \E k \in 1 .. t - 1 : Op(m[k]) \in {"BuyExecution", "UniversalOrigin"}

\* The barrier believes that a message comes from the relay chain's executive, but
\* no sibling gets there by descending alone.
LEMMA SiblingsPay ==
  ASSUME NEW p \in Siblings, NEW m \in Seq(Instructions), Barrier(SiblingLocation(p), m)
  PROVE  NoFreeCall(m)
<1> DEFINE n == PrefixLength(m)
           prefix == SubSeq(m, 1, n)
           rest == SubSeq(m, n + 1, Len(m))
           l == SiblingLocation(p)
<1>1. /\ n \in 0 .. Len(m) /\ Len(m) \in Nat
      /\ \A i \in 1 .. n : Op(m[i]) \in {"UniversalOrigin", "DescendOrigin"}
  BY PrefixIsLeading
<1>2. PaysFirst(rest) \/ MayGoUnpaid(ComputedOrigin(l, prefix), rest)
  BY DEF Barrier
<1>3. /\ prefix \in Seq(Instructions) /\ DOMAIN prefix = 1 .. n
      /\ \A i \in 1 .. n : prefix[i] = m[i]
  BY <1>1
<1>4. /\ rest \in Seq(Instructions) /\ Len(rest) = Len(m) - n
      /\ \A i \in 1 .. Len(m) - n : rest[i] = m[n + i]
  BY <1>1
<1> HIDE DEF n, prefix, rest
<1> SUFFICES ASSUME NEW t \in 1 .. Len(m), Op(m[t]) = "Transact"
             PROVE  \E k \in 1 .. t - 1 : Op(m[k]) \in {"BuyExecution", "UniversalOrigin"}
  BY DEF NoFreeCall
<1>5. n < t
  <2>1. t \notin 1 .. n
    BY <1>1
  <2> QED
    BY <1>1, <2>1
<1>6. CASE PaysFirst(rest)
  <2>1. PICK k \in 2 .. Min({Len(rest), 5}) :
          /\ Op(rest[k]) = "BuyExecution"
          /\ \A i \in 2 .. k - 1 :
               Op(rest[i]) \in {"ClearOrigin", "AliasOrigin", "DescendOrigin"}
    BY <1>6 DEF PaysFirst
  <2>2. k \in 2 .. Len(rest)
    <3>1. Len(rest) \in Nat
      BY <1>4
    <3> QED
      BY <3>1, SmallerOfTwo
  <2>3. Op(rest[1]) # "Transact"
    BY <1>6 DEF PaysFirst
  <2> DEFINE u == t - n
  <2>4. u \in 1 .. Len(rest) /\ Op(rest[u]) = "Transact"
    BY <1>1, <1>4, <1>5
  <2>5. k < u
    <3>1. u # 1 /\ u # k /\ u \notin 2 .. k - 1
      BY <2>1, <2>3, <2>4
    <3> HIDE DEF u
    <3> QED
      BY <1>4, <2>2, <2>4, <3>1
  <2>6. n + k \in 1 .. t - 1 /\ m[n + k] = rest[k]
    BY <1>1, <1>4, <2>2, <2>5
  <2> QED
    BY <2>1, <2>6
<1>7. CASE MayGoUnpaid(ComputedOrigin(l, prefix), rest)
  <2>1. PICK k \in 1 .. n : Op(m[k]) = "UniversalOrigin"
    <3> SUFFICES ASSUME \A i \in 1 .. n : Op(m[i]) = "DescendOrigin" PROVE FALSE
      BY <1>1
    <3>1. l \in Senders /\ l \in Locations /\ l.interior = <<Parachain(p)>>
      BY SendersAreLocations DEF Senders, SiblingLocation, Location
    <3>2. /\ l.interior # <<>> /\ l.interior[1] = Parachain(p)
      BY <3>1
    <3>3. \A i \in DOMAIN prefix : Op(prefix[i]) = "DescendOrigin"
      BY <1>3
    <3> HIDE DEF l
    <3>4. /\ ComputedOrigin(l, prefix).interior # <<>>
          /\ ComputedOrigin(l, prefix).interior[1] = Parachain(p)
      BY <1>3, <3>1, <3>2, <3>3, DescentStaysBelow
    <3>5. ComputedOrigin(l, prefix) \in ParentOrParentsExecutivePlurality
      BY <1>7 DEF MayGoUnpaid
    <3>6. /\ RelayLocation.interior = <<>>
          /\ Append_(RelayLocation, Plurality("Executive")).interior = <<Plurality("Executive")>>
      BY DEF RelayLocation, Append_, Location
    <3>7. Parachain(p) = Plurality("Executive")
      BY <3>4, <3>5, <3>6 DEF ParentOrParentsExecutivePlurality
    <3> QED
      BY <3>7 DEF Parachain, Plurality
  <2>2. k \in 1 .. t - 1
    BY <1>1, <1>5
  <2> QED
    BY <2>1, <2>2
<1> QED
  BY <1>2, <1>6, <1>7

\* What a message from a sibling has not paid for it has not done.
NoFreeCalls ==
    sender \notin {Nowhere, RelayLocation} /\ ~paid => dispatched = {} /\ NoFreeCall(message)

LEMMA NoFreeCallsKept == ASSUME OwnOrigin, NoFreeCalls, [Next]_xcmVars PROVE NoFreeCalls'
<1>1. CASE Receive
  <2>1. PICK from \in Senders, m \in BoundedSeq(Instructions, MaxLength) :
          Barrier(from, m) /\ sender' = from /\ message' = m
    BY <1>1 DEF Receive
  <2>2. dispatched' = {} /\ m \in Seq(Instructions)
    BY <1>1 DEF Receive, OwnOrigin, BoundedSeq, SeqOf
  <2>3. ASSUME from # RelayLocation PROVE NoFreeCall(m)
    <3>1. PICK p \in Siblings : from = SiblingLocation(p)
      BY <2>3 DEF Senders
    <3> QED
      BY <2>1, <2>2, <3>1, SiblingsPay
  <2> QED
    BY <2>1, <2>2, <2>3 DEF NoFreeCalls
<1>2. ASSUME NEW ops, Executes(ops), NoFreeCall(message), "BuyExecution" \notin ops
      PROVE  /\ NoFreeCall(message') /\ Op(message[1]) # "Transact"
             /\ sender' = sender
  <2>1. /\ message # <<>> /\ message \in Seq(Instructions) /\ message' = Tail(message)
        /\ Op(message[1]) \notin {"BuyExecution", "UniversalOrigin"}
    BY <1>2 DEF Executes, Succeeds, UniversalAliases, OwnOrigin
  <2>2. /\ Len(message) \in Nat \ {0} /\ Len(message') = Len(message) - 1
        /\ \A i \in 1 .. Len(message) - 1 : message'[i] = message[i + 1]
    BY <2>1
  <2>3. Op(message[1]) # "Transact"
    BY <1>2, <2>2 DEF NoFreeCall
  <2>4. ASSUME NEW t \in 1 .. Len(message'), Op(message'[t]) = "Transact"
        PROVE  \E k \in 1 .. t - 1 : Op(message'[k]) \in {"BuyExecution", "UniversalOrigin"}
    <3>1. PICK k \in 1 .. t : Op(message[k]) \in {"BuyExecution", "UniversalOrigin"}
      <4>1. t + 1 \in 1 .. Len(message) /\ Op(message[t + 1]) = "Transact"
        BY <2>2, <2>4
      <4>2. \E k \in 1 .. (t + 1) - 1 : Op(message[k]) \in {"BuyExecution", "UniversalOrigin"}
        BY <1>2, <4>1 DEF NoFreeCall
      <4> QED
        BY <4>2
    <3>2. k # 1
      BY <2>1, <3>1
    <3>3. k - 1 \in 1 .. t - 1 /\ message'[k - 1] = message[k]
      BY <2>2, <3>2
    <3> QED
      BY <3>1, <3>3
  <2> QED
    BY <1>2, <2>3, <2>4 DEF NoFreeCall, Executes
<1>3. CASE BuyExecution
  BY <1>3 DEF BuyExecution, NoFreeCalls
<1>4. CASE Transact
  <2>1. Executes({"Transact"}) /\ paid' = paid /\ sender' = sender
    BY <1>4 DEF Transact, Executes
  <2>2. Op(message[1]) = "Transact"
    BY <2>1 DEF Executes
  <2> QED
    BY <1>2, <2>1, <2>2 DEF NoFreeCalls
<1>5. CASE \/ WithdrawAsset \/ ReserveAssetDeposited \/ ChangeOrigin \/ UnpaidExecution
           \/ DepositAsset
  <2>1. UNCHANGED <<sender, paid, dispatched>>
    BY <1>5 DEF WithdrawAsset, ReserveAssetDeposited, ChangeOrigin, UnpaidExecution,
       DepositAsset, Executes, registers
  <2>2. NoFreeCall(message) => NoFreeCall(message')
    BY <1>2, <1>5 DEF WithdrawAsset, ReserveAssetDeposited, ChangeOrigin, UnpaidExecution,
       DepositAsset
  <2> QED
    BY <2>1, <2>2 DEF NoFreeCalls
<1>6. CASE Fail
  BY <1>6 DEF Fail, registers, NoFreeCalls, NoFreeCall
<1>7. CASE Finish
  BY <1>7 DEF Finish, Clear, NoFreeCalls
<1>8. CASE UNCHANGED xcmVars
  BY <1>8 DEF xcmVars, registers, NoFreeCalls
<1> QED
  BY <1>1, <1>3, <1>4, <1>5, <1>6, <1>7, <1>8 DEF Next

\* A sibling's calls are paid for before they are made, whatever the barrier has been
\* told.
THEOREM SiblingsPayForCalls == Spec => []UnpaidOnlyFromRelay
<1>1. Init => NoFreeCalls
  BY DEF Init, NoFreeCalls
<1>2. OwnOrigin /\ NoFreeCalls => UnpaidOnlyFromRelay
  BY DEF OwnOrigin, NoFreeCalls, UnpaidOnlyFromRelay
<1> QED
  BY <1>1, <1>2, AlwaysOwnOrigin, NoFreeCallsKept, PTL DEF Spec

----------------------------------------------------------------------------
(* The sum of all balances.                                                *)

Total(f) == FoldFunction(+, 0, f)

SumFold(f, at) ==
    at = [s \in SUBSET DOMAIN f |->
            IF s = {} THEN 0
            ELSE f[CHOOSE x \in s : TRUE] + at[s \ {CHOOSE x \in s : TRUE}]]

LEMMA TotalByFold ==
  ASSUME NEW f PROVE Total(f) = (CHOOSE at : SumFold(f, at))[DOMAIN f]
BY DEF Total, FoldFunction, FoldFunctionOnSet, MapThenFoldSet, SumFold

LEMMA TotalRecurs ==
  ASSUME NEW S, IsFiniteSet(S), NEW f, DOMAIN f = S
  PROVE  \E at : SumFold(f, at) /\ Total(f) = at[S]
<1> DEFINE some(s) == CHOOSE x \in s : TRUE
           next(at, s) == IF s = {} THEN 0 ELSE f[some(s)] + at[s \ {some(s)}]
           Upto(k) == {s \in SUBSET S : Cardinality(s) <= k}
           None == {k \in Nat : ~ \E at : at = [s \in Upto(k) |-> next(at, s)]}
<1>1. \A s \in SUBSET S : Cardinality(s) \in Nat
  BY FS_Subset, FS_CardinalityType
<1>2. None = {}
  <2>1. None \in SUBSET Nat
    OBVIOUS
  <2> SUFFICES ASSUME None # {} PROVE FALSE
    OBVIOUS
  <2> HIDE DEF None
  <2>2. PICK k \in None : \A j \in None : k <= j
    BY <2>1, LeastNumber
  <2>3. k # 0
    <3>1. Upto(0) = {{}}
      <4>1. ASSUME NEW s \in SUBSET S, Cardinality(s) <= 0 PROVE s = {}
        <5>1. IsFiniteSet(s) /\ Cardinality(s) = 0
          BY <1>1, <4>1, FS_Subset
        <5> QED
          BY <5>1, FS_EmptySet
      <4>2. {} \in Upto(0)
        BY FS_EmptySet
      <4> HIDE DEF next
      <4> QED
        BY <4>1, <4>2
    <3>2. [s \in Upto(0) |-> 0] = [s \in Upto(0) |-> next([t \in Upto(0) |-> 0], s)]
      BY <3>1
    <3>3. \E at : at = [s \in Upto(0) |-> next(at, s)]
      BY <3>2
    <3> HIDE DEF next, Upto
    <3> QED
      BY <3>3 DEF None
  <2>4. k \in Nat /\ k - 1 \in Nat /\ k - 1 \notin None
    <3>1. k \in Nat /\ k - 1 \in Nat /\ ~(k <= k - 1)
      BY <2>1, <2>2, <2>3
    <3> QED
      BY <2>2, <3>1
  <2>5. PICK at : at = [s \in Upto(k - 1) |-> next(at, s)]
    BY <2>4 DEF None
  <2> DEFINE at2 == [s \in Upto(k) |-> next(at, s)]
  <2>6. ASSUME NEW s \in Upto(k - 1) PROVE at2[s] = at[s]
    <3>1. s \in Upto(k)
      BY <1>1, <2>4
    <3>2. at[s] = next(at, s)
      BY <2>5
    <3> QED
      BY <3>1, <3>2
  <2>7. ASSUME NEW s \in Upto(k) PROVE next(at2, s) = next(at, s)
    <3> SUFFICES ASSUME s # {} PROVE at2[s \ {some(s)}] = at[s \ {some(s)}]
      OBVIOUS
    <3>1. s \in SUBSET S /\ Cardinality(s) <= (k - 1) + 1 /\ some(s) \in s
      BY <2>4
    <3> HIDE DEF some, at2, Upto
    <3>2. s \ {some(s)} \in {t \in SUBSET S : Cardinality(t) <= k - 1}
      BY <2>4, <3>1, Smaller
    <3>3. s \ {some(s)} \in Upto(k - 1)
      BY <3>2 DEF Upto
    <3> QED
      BY <2>6, <3>3
  <2> HIDE DEF next, Upto
  <2>8. at2 = [s \in Upto(k) |-> next(at2, s)]
    BY <2>7
  <2> QED
    BY <2>2, <2>8 DEF None
<1>3. PICK at : at = [s \in Upto(Cardinality(S)) |-> next(at, s)]
  <2>1. Cardinality(S) \in Nat
    BY FS_CardinalityType
  <2> QED
    BY <1>2, <2>1
<1>4. Upto(Cardinality(S)) = SUBSET S
  BY FS_Subset
<1>5. SumFold(f, at)
  BY <1>3, <1>4 DEF SumFold
<1> QED
  BY <1>5, TotalByFold

\* at sums f, whichever element comes first.
Sums(S, f, at) ==
    /\ Total(f) = at[S] /\ at[{}] = 0
    /\ \A s \in SUBSET S : at[s] \in Int
    /\ \A s \in SUBSET S : \A x \in s : at[s] = f[x] + at[s \ {x}]

LEMMA AnyOrder ==
  ASSUME NEW S, IsFiniteSet(S), NEW f \in [S -> Int]
  PROVE  \E at : Sums(S, f, at)
<1>1. PICK at : SumFold(f, at) /\ Total(f) = at[S]
  BY TotalRecurs
<1> DEFINE some(s) == CHOOSE x \in s : TRUE
<1>2. at[{}] = 0
  BY <1>1 DEF SumFold
<1>3. ASSUME NEW s \in SUBSET S, s # {}
      PROVE  some(s) \in s /\ at[s] = f[some(s)] + at[s \ {some(s)}]
  BY <1>1, <1>3 DEF SumFold
<1> HIDE DEF some
<1>4. \A s \in SUBSET S : at[s] \in Int
  <2> DEFINE Bad == {s \in SUBSET S : at[s] \notin Int}
  <2> SUFFICES ASSUME Bad # {} PROVE FALSE
    OBVIOUS
  <2>1. Bad \in SUBSET (SUBSET S)
    OBVIOUS
  <2> HIDE DEF Bad
  <2>2. PICK s \in Bad : \A x \in s : s \ {x} \notin Bad
    BY <2>1, SmallestSet
  <2>3. s \in SUBSET S /\ at[s] \notin Int
    BY DEF Bad
  <2>4. some(s) \in s /\ at[s] = f[some(s)] + at[s \ {some(s)}]
    <3>1. s # {}
      BY <1>2, <2>3
    <3> QED
      BY <1>3, <2>3, <3>1
  <2>5. at[s \ {some(s)}] \in Int
    BY <2>2, <2>3, <2>4 DEF Bad
  <2> QED
    BY <2>3, <2>4, <2>5
<1>5. \A s \in SUBSET S : \A x \in s : at[s] = f[x] + at[s \ {x}]
  <2> DEFINE Good(s) == \A x \in s : at[s] = f[x] + at[s \ {x}]
             Bad == {s \in SUBSET S : ~Good(s)}
  <2> SUFFICES ASSUME Bad # {} PROVE FALSE
    OBVIOUS
  <2>1. Bad \in SUBSET (SUBSET S)
    OBVIOUS
  <2> HIDE DEF Bad, Good
  <2>2. PICK s \in Bad : \A x \in s : s \ {x} \notin Bad
    BY <2>1, SmallestSet
  <2>3. s \in SUBSET S /\ ~Good(s)
    BY DEF Bad
  <2>4. PICK x \in s : at[s] # f[x] + at[s \ {x}]
    BY <2>3 DEF Good
  <2>5. PICK c \in s : c = some(s) /\ at[s] = f[c] + at[s \ {c}]
    BY <1>3, <2>3, <2>4
  <2>6. x # c
    BY <2>4, <2>5
  <2>7. Good(s \ {c}) /\ Good(s \ {x})
    BY <2>2, <2>3 DEF Bad
  <2>8. /\ at[s \ {c}] = f[x] + at[(s \ {c}) \ {x}]
        /\ at[s \ {x}] = f[c] + at[(s \ {x}) \ {c}]
    BY <2>6, <2>7 DEF Good
  <2>9. (s \ {c}) \ {x} = (s \ {x}) \ {c}
    OBVIOUS
  <2>10. PICK y \in Int : y = at[(s \ {x}) \ {c}]
    BY <1>4, <2>3
  <2>11. at[s] = f[c] + (f[x] + y) /\ at[s \ {x}] = f[c] + y
    BY <2>5, <2>8, <2>9, <2>10
  <2>12. f[x] \in Int /\ f[c] \in Int
    BY <2>3
  <2>13. f[c] + (f[x] + y) = f[x] + (f[c] + y)
    BY <2>10, <2>12
  <2> QED
    BY <2>4, <2>11, <2>13
<1> QED
  BY <1>1, <1>2, <1>4, <1>5 DEF Sums

LEMMA OneChanges ==
  ASSUME NEW S, IsFiniteSet(S), NEW f \in [S -> Int], NEW g \in [S -> Int], NEW a \in S,
         \A x \in S \ {a} : g[x] = f[x]
  PROVE  /\ Total(f) \in Int /\ Total(g) \in Int
         /\ Total(g) = Total(f) + (g[a] - f[a])
<1>1. PICK F : Sums(S, f, F)
  BY AnyOrder
<1>2. PICK G : Sums(S, g, G)
  BY AnyOrder
<1>3. G[S \ {a}] = F[S \ {a}]
  <2> DEFINE Bad == {s \in SUBSET (S \ {a}) : G[s] # F[s]}
  <2> SUFFICES ASSUME Bad # {} PROVE FALSE
    OBVIOUS
  <2>1. Bad \in SUBSET (SUBSET (S \ {a})) /\ IsFiniteSet(S \ {a})
    BY FS_Subset
  <2> HIDE DEF Bad
  <2>2. PICK s \in Bad : \A x \in s : s \ {x} \notin Bad
    BY <2>1, SmallestSet
  <2>3. s \in SUBSET (S \ {a}) /\ G[s] # F[s]
    BY DEF Bad
  <2>4. PICK x \in s : TRUE
    BY <1>1, <1>2, <2>3 DEF Sums
  <2>5. G[s \ {x}] = F[s \ {x}]
    BY <2>2, <2>3, <2>4 DEF Bad
  <2>6. G[s] = g[x] + G[s \ {x}] /\ F[s] = f[x] + F[s \ {x}] /\ g[x] = f[x]
    BY <1>1, <1>2, <2>3, <2>4 DEF Sums
  <2> QED
    BY <2>3, <2>5, <2>6
<1>4. S \in SUBSET S /\ S \ {a} \in SUBSET S
  OBVIOUS
<1>5. G[S] = g[a] + G[S \ {a}] /\ F[S] = f[a] + F[S \ {a}]
  BY <1>1, <1>2, <1>4 DEF Sums
<1>6. /\ F[S] \in Int /\ G[S] \in Int /\ F[S \ {a}] \in Int
      /\ f[a] \in Int /\ g[a] \in Int /\ Total(f) = F[S] /\ Total(g) = G[S]
  BY <1>1, <1>2, <1>4 DEF Sums
<1> QED
  BY <1>3, <1>5, <1>6

LEMMA TotalIsNatural ==
  ASSUME NEW S, IsFiniteSet(S), NEW f \in [S -> Nat]
  PROVE  Total(f) \in Nat
<1>1. PICK F : Sums(S, f, F)
  <2>1. f \in [S -> Int]
    OBVIOUS
  <2> QED
    BY <2>1, AnyOrder
<1> DEFINE Bad == {s \in SUBSET S : F[s] \notin Nat}
<1> SUFFICES ASSUME Bad # {} PROVE FALSE
  BY <1>1 DEF Sums
<1>2. Bad \in SUBSET (SUBSET S)
  OBVIOUS
<1> HIDE DEF Bad
<1>3. PICK s \in Bad : \A x \in s : s \ {x} \notin Bad
  BY <1>2, SmallestSet
<1>4. s \in SUBSET S /\ F[s] \notin Nat
  BY DEF Bad
<1>5. PICK x \in s : TRUE
  <2>1. F[{}] = 0
    BY <1>1 DEF Sums
  <2>2. s # {}
    BY <1>4, <2>1
  <2> QED
    BY <2>2
<1>6. F[s \ {x}] \in Nat
  BY <1>3, <1>4 DEF Bad
<1>7. F[s] = f[x] + F[s \ {x}] /\ f[x] \in Nat
  BY <1>1, <1>4 DEF Sums
<1> QED
  BY <1>4, <1>6, <1>7

----------------------------------------------------------------------------
(* The ledger.                                                             *)

LEMMA FinitelyManyOwners == IsFiniteSet(Owners) /\ Cardinality(Owners) \in Nat
<1>1. IsFiniteSet({SiblingLocation(p) : p \in Siblings})
  <2> DEFINE T == {SiblingLocation(p) : p \in Siblings}
             f == [p \in Siblings |-> SiblingLocation(p)]
  <2>1. f \in Surjection(Siblings, T)
    BY DEF Surjection
  <2> HIDE DEF T, f
  <2>2. IsFiniteSet(T)
    BY <2>1, FiniteAssumption, FS_Surjection
  <2> QED
    BY <2>2 DEF T
<1>2. IsFiniteSet({UserLocation(u) : u \in Users})
  <2> DEFINE T == {UserLocation(u) : u \in Users}
             f == [u \in Users |-> UserLocation(u)]
  <2>1. f \in Surjection(Users, T)
    BY DEF Surjection
  <2> HIDE DEF T, f
  <2>2. IsFiniteSet(T)
    BY <2>1, FiniteAssumption, FS_Surjection
  <2> QED
    BY <2>2 DEF T
<1>3. IsFiniteSet({RelayLocation})
  BY FS_Singleton
<1> QED
  BY <1>1, <1>2, <1>3, FS_Union, FS_CardinalityType DEF Owners

\* What an account can hold.
Funds == {0} \cup {n \in Nat : n >= ExistentialDeposit}

LEMMA FundsAreNatural ==
  /\ Funds \subseteq Nat /\ 0 \in Funds
  /\ \A n \in Nat : n >= ExistentialDeposit => n \in Funds
  /\ ExistentialDeposit \in Nat
BY EndowmentAssumption DEF Funds

\* Everything that the relay chain's reserve stands for.
Held == Total(balances) + holding + bought + trapped + fees + burnt

\* TypeOK, with what it needs of the message and the origin (OwnOrigin).
LedgerOK ==
    /\ balances \in [Owners -> Funds]
    /\ trapped \in Nat /\ fees \in Nat /\ burnt \in Nat
    /\ reserve \in Nat /\ holding \in Nat /\ bought \in Nat
    /\ paid \in BOOLEAN
    /\ received \in 0 .. MaxMessages
    /\ \A d \in dispatched : d.as \in UNION {DispatchOrigins(d.at, kind) : kind \in Kinds}
    /\ reserve = Held

LEMMA LedgerInitially == Init => LedgerOK
<1> SUFFICES ASSUME Init PROVE LedgerOK
  OBVIOUS
<1>1. PICK c \in ChainFunds : \E u \in UserFunds :
         balances = [a \in Owners |-> IF a \in Senders THEN c ELSE u]
  BY DEF Init
<1>2. PICK u \in UserFunds : balances = [a \in Owners |-> IF a \in Senders THEN c ELSE u]
  BY <1>1
<1>3. c \in Funds /\ u \in Funds
  BY EndowmentAssumption DEF Funds
<1>4. balances \in [Owners -> Funds] /\ balances \in [Owners -> Nat]
  BY <1>2, <1>3, FundsAreNatural
<1>5. PICK n \in Nat : Total(balances) = n
  BY <1>4, FinitelyManyOwners, TotalIsNatural
<1>6. reserve = n /\ MaxMessages \in Nat
  BY <1>5, LimitsAssumption DEF Init, Total
<1>7. /\ trapped = 0 /\ fees = 0 /\ burnt = 0 /\ holding = 0 /\ bought = 0
      /\ paid = FALSE /\ dispatched = {} /\ received = 0
  BY DEF Init
<1>8. reserve = Held
  BY <1>5, <1>6, <1>7 DEF Held
<1>9. received \in 0 .. MaxMessages
  BY <1>6, <1>7
<1>10. \A d \in dispatched : d.as \in UNION {DispatchOrigins(d.at, kind) : kind \in Kinds}
  BY <1>7
<1> QED
  BY <1>4, <1>6, <1>7, <1>8, <1>9, <1>10 DEF LedgerOK

\* One account changes, and with it what the accounts hold together.
LEMMA AccountChanges ==
  ASSUME balances \in [Owners -> Nat], NEW a \in Owners, NEW d \in Int,
         balances[a] + d \in Nat, balances' = [balances EXCEPT ![a] = @ + d]
  PROVE  /\ balances' \in [Owners -> Nat]
         /\ Total(balances) \in Int /\ Total(balances') = Total(balances) + d
<1>1. balances' \in [Owners -> Nat]
  OBVIOUS
<1>2. balances \in [Owners -> Int] /\ balances' \in [Owners -> Int]
  BY <1>1
<1>3. /\ balances'[a] = balances[a] + d /\ balances[a] \in Int
      /\ \A x \in Owners \ {a} : balances'[x] = balances[x]
  OBVIOUS
<1>4. Total(balances') = Total(balances) + (balances'[a] - balances[a])
      /\ Total(balances) \in Int
  <2>1. PICK f \in [Owners -> Int], g \in [Owners -> Int] : f = balances /\ g = balances'
    BY <1>2
  <2>2. \A x \in Owners \ {a} : g[x] = f[x]
    BY <1>3, <2>1
  <2>3. Total(g) = Total(f) + (g[a] - f[a]) /\ Total(f) \in Int
    BY <2>2, FinitelyManyOwners, OneChanges
  <2> QED
    BY <2>1, <2>3
<1> QED
  BY <1>1, <1>3, <1>4

\* Only the relay chain speaks from the location of the relay chain.
LEMMA ReservesAreTheRelays ==
  ASSUME OwnOrigin, sender # Nowhere, origin = RelayLocation
  PROVE  sender = RelayLocation
<1> SUFFICES ASSUME NEW p \in Siblings, sender = SiblingLocation(p) PROVE FALSE
  BY DEF OwnOrigin, Senders
<1>1. sender.interior = <<Parachain(p)>> /\ RelayLocation.interior = <<>>
  BY DEF SiblingLocation, RelayLocation, Location
<1>2. RelayLocation # Nowhere
  BY SendersAreSomewhere DEF Senders
<1>3. Len(sender.interior) <= Len(origin.interior)
  BY <1>2 DEF OwnOrigin, Within, IsPrefix
<1> QED
  BY <1>1, <1>3

LEMMA LedgerKept == ASSUME OwnOrigin, LedgerOK, [Next]_xcmVars PROVE LedgerOK'
<1>0. /\ balances \in [Owners -> Nat] /\ balances \in [Owners -> Funds]
      /\ {trapped, fees, burnt, reserve, holding, bought} \subseteq Nat
      /\ Amount \in Nat /\ Cost \in Nat /\ MaxMessages \in Nat
      /\ Total(balances) \in Int
      /\ reserve = Total(balances) + holding + bought + trapped + fees + burnt
  <2>1. balances \in [Owners -> Nat]
    BY FundsAreNatural DEF LedgerOK
  <2>2. Total(balances) \in Int
    BY <2>1, FinitelyManyOwners, TotalIsNatural
  <2> QED
    BY <2>1, <2>2, AmountAssumption, LimitsAssumption DEF LedgerOK, Held
<1>1. CASE Receive
  <2>1. received' \in 0 .. MaxMessages
    BY <1>0, <1>1 DEF Receive, LedgerOK
  <2>2. UNCHANGED <<balances, trapped, fees, burnt, reserve, holding, paid, bought, dispatched>>
    BY <1>1 DEF Receive, ledger
  <2> QED
    BY <2>1, <2>2 DEF LedgerOK, Held
<1>2. CASE WithdrawAsset
  <2>1. message # <<>> /\ Op(message[1]) = "WithdrawAsset" /\ CanWithdraw(origin)
    BY <1>2 DEF WithdrawAsset, Executes, Succeeds
  <2> DEFINE a == LocationToAccountId(origin)
             rest == balances[a] - Amount
             dust == IF rest < ExistentialDeposit THEN rest ELSE 0
             change == 0 - (Amount + dust)
  <2>2. a \in Owners /\ balances[a] >= Amount
    BY <2>1 DEF CanWithdraw, LocationToAccountId
  <2>3. /\ balances' = [balances EXCEPT ![a] = rest - dust] /\ burnt' = burnt + dust
        /\ holding' = holding + Amount
        /\ UNCHANGED <<trapped, fees, reserve, paid, bought, dispatched, received>>
    BY <1>2 DEF WithdrawAsset, Executes
  <2> HIDE DEF a
  <2>4. balances[a] \in Nat /\ rest \in Nat /\ rest = balances[a] - Amount
    BY <1>0, <2>2
  <2> HIDE DEF rest
  <2>5. dust \in Nat /\ rest - dust \in Funds /\ rest - dust \in Nat
    <3>1. CASE rest < ExistentialDeposit
      <4>1. dust = rest /\ rest - dust = 0
        BY <2>4, <3>1
      <4> HIDE DEF dust
      <4> QED
        BY <2>4, <4>1, FundsAreNatural
    <3>2. CASE ~(rest < ExistentialDeposit)
      <4>1. dust = 0 /\ rest - dust = rest /\ rest >= ExistentialDeposit
        BY <2>4, <3>2, FundsAreNatural
      <4> HIDE DEF dust
      <4> QED
        BY <2>4, <4>1, FundsAreNatural
    <3> QED
      BY <3>1, <3>2
  <2> HIDE DEF dust
  <2>6. change \in Int /\ rest - dust = balances[a] + change
    BY <1>0, <2>4, <2>5
  <2> HIDE DEF change
  <2>7. balances' = [balances EXCEPT ![a] = @ + change] /\ balances[a] + change \in Nat
    BY <2>3, <2>5, <2>6
  <2>8. Total(balances') = Total(balances) + change
    BY <1>0, <2>2, <2>6, <2>7, AccountChanges
  <2>9. reserve' = Held'
    BY <1>0, <2>3, <2>5, <2>8 DEF Held, change
  <2>10. balances' \in [Owners -> Funds]
    <3>1. \A v \in Funds : [balances EXCEPT ![a] = v] \in [Owners -> Funds]
      BY <1>0
    <3> QED
      BY <2>3, <2>5, <3>1
  <2>11. burnt' \in Nat /\ holding' \in Nat
    BY <1>0, <2>3, <2>5
  <2> QED
    BY <2>3, <2>9, <2>10, <2>11 DEF LedgerOK
<1>3. CASE ReserveAssetDeposited
  <2>1. message # <<>> /\ Op(message[1]) = "ReserveAssetDeposited" /\ origin = RelayLocation
    BY <1>3 DEF ReserveAssetDeposited, Executes, Succeeds, IsReserve
  <2>2. sender = RelayLocation
    BY <2>1, ReservesAreTheRelays DEF OwnOrigin
  <2>3. UNCHANGED <<balances, trapped, fees, burnt, paid, bought, dispatched, received>>
        /\ holding' = holding + Amount /\ reserve' = reserve + Amount
    BY <1>3, <2>2 DEF ReserveAssetDeposited, Executes
  <2>4. reserve' = Held'
    BY <1>0, <2>3 DEF Held
  <2> QED
    BY <1>0, <2>3, <2>4 DEF LedgerOK
<1>4. CASE BuyExecution
  <2>1. message # <<>> /\ Op(message[1]) = "BuyExecution" /\ holding >= Cost
    BY <1>4 DEF BuyExecution, Executes, Succeeds
  <2>2. UNCHANGED <<balances, trapped, fees, burnt, reserve, dispatched, received>>
        /\ holding' = holding - Cost /\ bought' = bought + Cost /\ paid' = TRUE
    BY <1>4 DEF BuyExecution, Executes
  <2>3. reserve' = Held'
    BY <1>0, <2>2 DEF Held
  <2>4. holding' \in Nat /\ bought' \in Nat
    BY <1>0, <2>1, <2>2
  <2> QED
    BY <2>2, <2>3, <2>4 DEF LedgerOK
<1>5. CASE Transact
  <2>1. message # <<>> /\ Op(message[1]) = "Transact" /\ message[1] \in Instructions
    BY <1>5 DEF Transact, Executes, OwnOrigin
  <2>2. Arg(message[1]) \in Kinds
    BY <2>1 DEF Instructions, Op, Arg
  <2>3. \A d \in dispatched' : d.as \in UNION {DispatchOrigins(d.at, kind) : kind \in Kinds}
    <3> SUFFICES ASSUME NEW as \in DispatchOrigins(origin, Arg(message[1]))
                 PROVE  as \in UNION {DispatchOrigins(origin, kind) : kind \in Kinds}
      BY <1>5 DEF Transact, LedgerOK
    <3> QED
      BY <2>2
  <2>4. UNCHANGED <<balances, trapped, fees, burnt, reserve, holding, paid, bought, received>>
    BY <1>5 DEF Transact, Executes
  <2> QED
    BY <2>3, <2>4 DEF LedgerOK, Held
<1>6. CASE DepositAsset
  <2>1. message # <<>> /\ Op(message[1]) = "DepositAsset" /\ message[1] \in Instructions
        /\ CanDeposit(LocationToAccountId(Arg(message[1])))
    BY <1>6 DEF DepositAsset, Executes, Succeeds, OwnOrigin
  <2>2. PICK a \in Owners : a = LocationToAccountId(Arg(message[1]))
    <3>1. Arg(message[1]) \in Owners
      BY <2>1 DEF Instructions, Op, Arg, Owners
    <3> QED
      BY <3>1 DEF LocationToAccountId
  <2>3. balances[a] \in Nat /\ balances[a] + holding \in Nat /\ holding \in Int
    BY <1>0
  <2>4. balances' = [balances EXCEPT ![a] = @ + holding]
    BY <1>6, <2>2 DEF DepositAsset
  <2>5. Total(balances') = Total(balances) + holding
    BY <1>0, <2>3, <2>4, AccountChanges
  <2>6. UNCHANGED <<trapped, fees, burnt, reserve, paid, bought, dispatched, received>>
        /\ holding' = 0
    BY <1>6 DEF DepositAsset, Executes
  <2>7. reserve' = Held'
    BY <1>0, <2>5, <2>6 DEF Held
  <2>8. balances[a] + holding \in Funds
    <3>1. CASE holding = 0
      <4>1. balances[a] + holding = balances[a] /\ balances[a] \in Funds
        BY <1>0, <2>3, <3>1
      <4> QED
        BY <4>1
    <3>2. CASE holding # 0
      <4>1. balances[a] + holding >= ExistentialDeposit
        BY <2>1, <2>2, <3>2 DEF CanDeposit
      <4> QED
        BY <2>3, <4>1, FundsAreNatural
    <3> QED
      BY <3>1, <3>2
  <2>9. balances' \in [Owners -> Funds]
    BY <1>0, <2>4, <2>8
  <2> QED
    BY <2>6, <2>7, <2>9 DEF LedgerOK
<1>7. CASE Finish
  <2>1. PICK refund \in 0 .. bought, credited \in BOOLEAN :
         /\ trapped' = trapped + holding + refund
         /\ fees' = fees + (IF credited THEN bought - refund ELSE 0)
         /\ burnt' = burnt + (IF credited THEN 0 ELSE bought - refund)
    BY <1>7 DEF Finish
  <2>2. UNCHANGED <<balances, reserve, received>>
        /\ holding' = 0 /\ paid' = FALSE /\ bought' = 0 /\ dispatched' = {}
    BY <1>7 DEF Finish, Clear
  <2>3. reserve' = Held'
    BY <1>0, <2>1, <2>2 DEF Held
  <2>4. trapped' \in Nat /\ fees' \in Nat /\ burnt' \in Nat
    BY <1>0, <2>1
  <2> QED
    BY <2>2, <2>3, <2>4 DEF LedgerOK
<1>8. CASE ChangeOrigin \/ UnpaidExecution \/ Fail \/ UNCHANGED xcmVars
  <2>1. UNCHANGED <<balances, trapped, fees, burnt, reserve, holding, paid, bought, dispatched,
                    received>>
    BY <1>8 DEF ChangeOrigin, UnpaidExecution, Fail, Executes, xcmVars, ledger, registers
  <2> QED
    BY <2>1 DEF LedgerOK, Held
<1> QED
  BY <1>1, <1>2, <1>3, <1>4, <1>5, <1>6, <1>7, <1>8 DEF Next

LEMMA LedgerAlwaysOK == Spec => []LedgerOK
BY LedgerInitially, LedgerKept, AlwaysOwnOrigin, PTL DEF Spec

\* No step of a message takes a register below zero or leaves an account on less than
\* the existential deposit, and each call has an origin that the configuration gives to
\* its location.
THEOREM TypeCorrect == Spec => []TypeOK
<1>1. ASSUME OwnOrigin, LedgerOK PROVE TypeOK
  <2>1. sender \in Senders \cup {Nowhere} /\ \A i \in 1 .. Len(message) : message[i] \in Instructions
    BY <1>1 DEF OwnOrigin
  <2>2. origin.parents \in {0, 1}
    BY <1>1 DEF OwnOrigin, Locations, Nowhere, Location
  <2> QED
    BY <1>1, <2>1, <2>2 DEF LedgerOK, Funds, TypeOK
<1> QED
  BY <1>1, AlwaysOwnOrigin, LedgerAlwaysOK, PTL

\* Whatever messages do and wherever they fail, what this chain holds, with the dust it
\* has dropped and the fees that found no author, is what the relay chain keeps for it.
THEOREM AlwaysBacked == Spec => []FullyBacked
<1>1. LedgerOK => FullyBacked
  BY DEF LedgerOK, Held, FullyBacked, Total
<1> QED
  BY <1>1, LedgerAlwaysOK, PTL
===============================================================================
