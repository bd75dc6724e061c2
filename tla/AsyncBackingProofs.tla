-------------------------- MODULE AsyncBackingProofs --------------------------
(***************************************************************************)
(* The unincluded segment is exact, the chain keeps to its capacity and    *)
(* velocity, and what collators build the runtime executes: for relay      *)
(* chains and parachains of any length, and any allowed ancestry.          *)
(***************************************************************************)
EXTENDS AsyncBacking, FiniteSetTheorems, WellFoundedInduction, TLAPS

USE AncestryAssumption, BoundsAssumption

\* Induction over data, in the form the provers can use: a least number.
LEMMA LeastNumber ==
  ASSUME NEW T \in SUBSET Nat, T # {}
  PROVE  \E m \in T : \A n \in T : m <= n
<1> DEFINE R == {ss \in Nat \X Nat : ss[1] < ss[2]}
<1>1. IsWellFoundedOn(R, Nat)
  <2>1. OpToRel(<, Nat) = R
    BY DEF OpToRel
  <2> QED
    BY <2>1, NatLessThanWellFounded
<1> HIDE DEF R
<1>2. PICK m \in T : \A n \in T : <<n, m>> \notin R
  BY <1>1, WFMin
<1>3. \A n \in T : ~(n < m)
  BY <1>2 DEF R
<1> QED
  BY <1>3

----------------------------------------------------------------------------
(* The chain below a block.                                                *)

Block == [parent : Nat, relayParent : Nat, slot : Nat, authored : Nat, segment : Seq(Nat)]

\* Blocks come after their parents.
BlocksOK ==
    /\ blocks \in Seq(Block)
    /\ \A b \in Blocks : blocks[b].parent < b

LEMMA BlocksAreNumbers ==
  ASSUME BlocksOK
  PROVE  /\ Len(blocks) \in Nat
         /\ {Genesis} \cup Blocks = 0 .. Len(blocks)
         /\ \A b \in Blocks : /\ b \in Nat /\ b # Genesis /\ blocks[b] \in Block
                              /\ blocks[b].parent \in {Genesis} \cup Blocks
                              /\ blocks[b].parent < b
<1>1. Len(blocks) \in Nat /\ DOMAIN blocks = Blocks
  BY DEF BlocksOK, Blocks
<1>2. {Genesis} \cup Blocks = 0 .. Len(blocks)
  BY <1>1 DEF Genesis, Blocks
<1>3. ASSUME NEW b \in Blocks PROVE b \in Nat /\ b # Genesis /\ blocks[b] \in Block
  BY <1>1 DEF Genesis, Blocks, BlocksOK
<1>4. ASSUME NEW b \in Blocks
      PROVE  blocks[b].parent \in {Genesis} \cup Blocks /\ blocks[b].parent < b
  <2>1. blocks[b].parent < b /\ blocks[b].parent \in Nat /\ b \in 1 .. Len(blocks)
    BY <1>3 DEF BlocksOK, Block, Blocks
  <2> QED
    BY <2>1, <1>1, <1>2
<1> QED
  BY <1>1, <1>2, <1>3, <1>4

\* The recursion of Ancestors ends, so that it defines what it says.
AncestorsRecur ==
    Ancestors = [b \in {Genesis} \cup Blocks |->
                   IF b = Genesis THEN {Genesis} ELSE Ancestors[blocks[b].parent] \cup {b}]

LEMMA AncestorsDefined == BlocksOK => AncestorsRecur
<1> SUFFICES ASSUME BlocksOK PROVE AncestorsRecur
  OBVIOUS
<1> DEFINE Up(A, n) == A = [b \in 0 .. n |->
                              IF b = Genesis THEN {Genesis} ELSE A[blocks[b].parent] \cup {b}]
           Missing == {n \in 0 .. Len(blocks) : ~ \E A : Up(A, n)}
<1>1. Missing = {}
  <2> SUFFICES ASSUME Missing # {} PROVE FALSE
    OBVIOUS
  <2>1. PICK m \in Missing : \A n \in Missing : m <= n
    <3>1. Missing \in SUBSET Nat
      BY BlocksAreNumbers
    <3> HIDE DEF Missing
    <3> QED
      BY <3>1, LeastNumber
  <2>2. m \in 0 .. Len(blocks) /\ Len(blocks) \in Nat
    BY BlocksAreNumbers
  <2>3. CASE m = 0
    <3>1. Up([b \in 0 .. 0 |-> {Genesis}], 0)
      BY DEF Genesis
    <3> QED
      BY <3>1, <2>3
  <2>4. CASE m # 0
    <3>1. m - 1 \in 0 .. Len(blocks) /\ m - 1 \notin Missing
      <4>1. m - 1 \in 0 .. Len(blocks) /\ ~(m <= m - 1)
        BY <2>2, <2>4
      <4> HIDE DEF Missing
      <4> QED
        BY <4>1, <2>1
    <3>2. PICK A : Up(A, m - 1)
      BY <3>1
    <3> DEFINE B == [b \in 0 .. m |-> IF b = m THEN A[blocks[m].parent] \cup {m} ELSE A[b]]
    <3>3. ASSUME NEW b \in 0 .. m
          PROVE  B[b] = IF b = Genesis THEN {Genesis} ELSE B[blocks[b].parent] \cup {b}
      <4>1. CASE b = Genesis
        BY <3>2, <2>2, <2>4, <4>1 DEF Genesis
      <4>2. CASE b # Genesis
        <5>1. b \in Blocks
          BY <2>2, <4>2 DEF Blocks, Genesis
        <5>2. blocks[b].parent \in 0 .. b - 1
          BY <5>1, BlocksAreNumbers
        <5>3. B[blocks[b].parent] = A[blocks[b].parent]
          BY <5>2, <2>2
        <5>4. CASE b = m
          BY <5>3, <5>4, <4>2
        <5>5. CASE b # m
          <6>1. b \in 0 .. m - 1
            BY <5>5, <2>2
          <6>2. A[b] = A[blocks[b].parent] \cup {b}
            BY <6>1, <3>2, <4>2
          <6> QED
            BY <6>2, <5>3, <5>5, <4>2
        <5> QED
          BY <5>4, <5>5
      <4> QED
        BY <4>1, <4>2
    <3>4. Up(B, m)
      BY <3>3
    <3> QED
      BY <3>4
  <2> QED
    BY <2>3, <2>4
<1>2. \E A : Up(A, Len(blocks))
  BY <1>1, BlocksAreNumbers
<1>3. \E A : A = [b \in {Genesis} \cup Blocks |->
                    IF b = Genesis THEN {Genesis} ELSE A[blocks[b].parent] \cup {b}]
  BY <1>2, BlocksAreNumbers
<1> QED
  BY <1>3 DEF Ancestors, AncestorsRecur

\* A chain ends in its block, begins in genesis, and below each of its blocks is
\* that block's own chain.
IsChain(b) ==
    /\ {Genesis, b} \subseteq Ancestors[b]
    /\ \A c \in Ancestors[b] :
          /\ c \in {Genesis} \cup Blocks /\ c <= b
          /\ Ancestors[c] = {d \in Ancestors[b] : d <= c}

ChainsOK == \A b \in {Genesis} \cup Blocks : IsChain(b)

LEMMA AncestorsAreChains == BlocksOK => ChainsOK
<1> SUFFICES ASSUME BlocksOK PROVE ChainsOK
  OBVIOUS
<1> DEFINE Bad == {b \in {Genesis} \cup Blocks : ~IsChain(b)}
<1> SUFFICES ASSUME Bad # {} PROVE FALSE
  BY DEF ChainsOK
<1>1. PICK m \in Bad : \A n \in Bad : m <= n
  <2>1. Bad \in SUBSET Nat
    BY BlocksAreNumbers
  <2> HIDE DEF Bad
  <2> QED
    BY <2>1, LeastNumber
<1>2. m \in {Genesis} \cup Blocks /\ m \in Nat /\ ~IsChain(m)
  BY BlocksAreNumbers
<1>3. CASE m = Genesis
  <2>1. Ancestors[Genesis] = {Genesis}
    BY AncestorsDefined DEF AncestorsRecur
  <2>2. IsChain(Genesis)
    BY <2>1 DEF IsChain, Genesis
  <2> QED
    BY <1>2, <1>3, <2>2
<1>4. CASE m # Genesis
  <2> DEFINE p == blocks[m].parent
  <2>1. p \in {Genesis} \cup Blocks /\ p < m /\ p \in Nat /\ m \in Blocks
    BY <1>2, <1>4, BlocksAreNumbers
  <2>2. p \notin Bad
    <3> HIDE DEF Bad, p
    <3> QED
      BY <1>1, <1>2, <2>1
  <2>3. IsChain(p)
    BY <2>1, <2>2
  <2>4. Ancestors[m] = Ancestors[p] \cup {m}
    BY <1>2, <1>4, AncestorsDefined DEF AncestorsRecur
  <2> HIDE DEF Bad, p
  <2>5. ASSUME NEW c \in Ancestors[p]
        PROVE  /\ c \in {Genesis} \cup Blocks /\ c \in Nat /\ c < m
               /\ Ancestors[c] = {d \in Ancestors[m] : d <= c}
    <3>1. c \in {Genesis} \cup Blocks /\ c <= p /\ c \in Nat
      BY <2>3, BlocksAreNumbers DEF IsChain
    <3>2. c < m
      BY <3>1, <2>1, <1>2
    <3>3. Ancestors[c] = {d \in Ancestors[p] : d <= c}
      BY <2>3 DEF IsChain
    <3>4. ~(m <= c)
      BY <3>1, <3>2, <1>2
    <3> QED
      BY <3>1, <3>2, <3>3, <3>4, <2>4
  <2>6. \A c \in Ancestors[m] : c <= m
    BY <2>4, <2>5, <1>2
  <2>7. Ancestors[m] = {d \in Ancestors[m] : d <= m}
    BY <2>6
  <2>8. {Genesis, m} \subseteq Ancestors[m]
    BY <2>3, <2>4 DEF IsChain
  <2>9. ASSUME NEW c \in Ancestors[m]
        PROVE  /\ c \in {Genesis} \cup Blocks /\ c <= m
               /\ Ancestors[c] = {d \in Ancestors[m] : d <= c}
    <3>1. CASE c = m
      BY <3>1, <2>7, <2>6, <1>2
    <3>2. CASE c \in Ancestors[p]
      BY <3>2, <2>5, <2>6
    <3> QED
      BY <3>1, <3>2, <2>4
  <2>10. IsChain(m)
    BY <2>8, <2>9 DEF IsChain
  <2> QED
    BY <2>10, <1>2
<1> QED
  BY <1>3, <1>4

\* A new block has its parent's chain and leaves the others as they were.
LEMMA AncestorsKept ==
  ASSUME BlocksOK, BlocksOK', NEW e, blocks' = Append(blocks, e)
  PROVE  /\ \A b \in {Genesis} \cup Blocks : Ancestors'[b] = Ancestors[b]
         /\ Ancestors'[Len(blocks) + 1] = Ancestors[e.parent] \cup {Len(blocks) + 1}
         /\ e.parent \in {Genesis} \cup Blocks
<1> DEFINE N == Len(blocks) + 1
<1>1. AncestorsRecur /\ AncestorsRecur'
  <2>1. (BlocksOK => AncestorsRecur)'
    BY AncestorsDefined, PTL
  <2> QED
    BY <2>1, AncestorsDefined
<1>2. /\ Len(blocks) \in Nat /\ Len(blocks') = N
      /\ blocks'[N] = e
      /\ \A b \in Blocks : blocks'[b] = blocks[b]
      /\ Blocks' = Blocks \cup {N}
      /\ N # Genesis
  BY DEF BlocksOK, Blocks, Genesis
<1> DEFINE Bad == {b \in {Genesis} \cup Blocks : Ancestors'[b] # Ancestors[b]}
<1>3. Bad = {}
  <2> SUFFICES ASSUME Bad # {} PROVE FALSE
    OBVIOUS
  <2>1. PICK m \in Bad : \A n \in Bad : m <= n
    <3>1. Bad \in SUBSET Nat
      BY BlocksAreNumbers
    <3> HIDE DEF Bad
    <3> QED
      BY <3>1, LeastNumber
  <2>2. m \in {Genesis} \cup Blocks /\ m \in Nat /\ Ancestors'[m] # Ancestors[m]
    BY BlocksAreNumbers
  <2>3. m # Genesis
    BY <2>2, <1>1, <1>2 DEF AncestorsRecur
  <2> DEFINE p == blocks[m].parent
  <2>4. p \in {Genesis} \cup Blocks /\ p < m /\ p \in Nat /\ m \in Blocks
    BY <2>2, <2>3, BlocksAreNumbers
  <2>5. p \notin Bad
    <3> HIDE DEF Bad, p
    <3> QED
      BY <2>1, <2>2, <2>4
  <2>6. Ancestors'[p] = Ancestors[p]
    BY <2>4, <2>5
  <2>7. blocks'[m].parent = p
    BY <2>4, <1>2
  <2>8. Ancestors[m] = Ancestors[p] \cup {m}
    BY <2>3, <2>4, <1>1 DEF AncestorsRecur
  <2>9. Ancestors'[m] = Ancestors'[p] \cup {m}
    <3>1. m \in ({Genesis} \cup Blocks)'
      BY <2>4, <1>2
    <3>2. Ancestors'[m] = Ancestors'[blocks'[m].parent] \cup {m}
      BY <3>1, <2>3, <1>1 DEF AncestorsRecur
    <3> QED
      BY <3>2, <2>7
  <2> QED
    BY <2>2, <2>6, <2>8, <2>9
<1>4. e.parent \in {Genesis} \cup Blocks
  <2>1. blocks'[N].parent < N /\ blocks'[N].parent \in Nat
    BY <1>2 DEF BlocksOK, Block
  <2>2. e.parent \in 0 .. Len(blocks)
    BY <2>1, <1>2
  <2> QED
    BY <2>2, BlocksAreNumbers
<1>5. Ancestors'[N] = Ancestors'[e.parent] \cup {N}
  BY <1>1, <1>2 DEF AncestorsRecur
<1> QED
  BY <1>3, <1>4, <1>5

----------------------------------------------------------------------------
(* Segments.                                                               *)

Elements(s) == {s[i] : i \in DOMAIN s}
Increasing(s) == \A i, j \in 1 .. Len(s) : i < j => s[i] < s[j]

LEMMA NoLongerThanLength ==
  ASSUME NEW s \in Seq(Nat)
  PROVE  IsFiniteSet(Elements(s)) /\ Cardinality(Elements(s)) <= Len(s)
<1>1. IsFiniteSet(1 .. Len(s)) /\ Cardinality(1 .. Len(s)) = Len(s)
  <2>1. Len(s) \in Nat /\ 1 \in Int /\ Len(s) \in Int
    OBVIOUS
  <2>2. /\ IsFiniteSet(1 .. Len(s))
        /\ Cardinality(1 .. Len(s)) = IF 1 > Len(s) THEN 0 ELSE Len(s) - 1 + 1
    BY <2>1, FS_Interval
  <2> QED
    BY <2>1, <2>2
<1>2. s \in Surjection(1 .. Len(s), Elements(s))
  BY DEF Surjection, Elements
<1> QED
  BY <1>1, <1>2, FS_Surjection

\* maybe_drop_included_ancestors keeps what is above the included block, and all
\* when that block is not in the segment.
LEMMA Dropping ==
  ASSUME NEW s \in Seq(Nat), Increasing(s), NEW k
  PROVE  /\ DropIncluded(s, k) \in Seq(Nat)
         /\ Increasing(DropIncluded(s, k))
         /\ k \notin Elements(s) => DropIncluded(s, k) = s
         /\ k \in Elements(s) => Elements(DropIncluded(s, k)) = {c \in Elements(s) : k < c}
<1> DEFINE upTo == {i \in DOMAIN s : \E j \in i .. Len(s) : s[j] = k}
<1>1. DropIncluded(s, k) = SubSeq(s, Cardinality(upTo) + 1, Len(s))
  BY DEF DropIncluded
<1>2. CASE k \notin Elements(s)
  <2>1. upTo = {}
    BY <1>2 DEF Elements
  <2>2. Cardinality(upTo) = 0
    BY <2>1, FS_EmptySet
  <2>3. SubSeq(s, 0 + 1, Len(s)) = s
    OBVIOUS
  <2> QED
    BY <1>1, <1>2, <2>2, <2>3
<1>3. CASE k \in Elements(s)
  <2>1. PICK j \in 1 .. Len(s) : s[j] = k
    BY <1>3 DEF Elements
  <2>2. upTo = 1 .. j
    <3>1. \A i \in 1 .. Len(s) : s[i] = k => i = j
      BY <2>1 DEF Increasing
    <3> QED
      BY <2>1, <3>1
  <2>3. Cardinality(upTo) = j /\ j \in Nat /\ j <= Len(s) /\ Len(s) \in Nat
    <3>1. j \in Int /\ 1 \in Int /\ j >= 1 /\ j <= Len(s) /\ Len(s) \in Nat
      BY <2>1
    <3>2. Cardinality(1 .. j) = IF 1 > j THEN 0 ELSE j - 1 + 1
      BY <3>1, FS_Interval
    <3> HIDE DEF upTo
    <3> QED
      BY <3>1, <3>2, <2>2
  <2> DEFINE t == SubSeq(s, j + 1, Len(s))
  <2>4. /\ DropIncluded(s, k) = t /\ t \in Seq(Nat) /\ Len(t) = Len(s) - j
        /\ \A i \in 1 .. Len(s) - j : t[i] = s[j + i]
    <3>1. DropIncluded(s, k) = t
      BY <1>1, <2>3
    <3>2. /\ t \in Seq(Nat) /\ Len(t) = Len(s) - j
          /\ \A i \in 1 .. Len(s) - j : t[i] = s[j + i]
      BY <2>3
    <3> QED
      BY <3>1, <3>2
  <2> HIDE DEF t
  <2>5. Increasing(t)
    <3> SUFFICES ASSUME NEW a \in 1 .. Len(s) - j, NEW b \in 1 .. Len(s) - j, a < b
                 PROVE  t[a] < t[b]
      BY <2>4 DEF Increasing
    <3>1. j + a \in 1 .. Len(s) /\ j + b \in 1 .. Len(s) /\ j + a < j + b
      BY <2>3
    <3> QED
      BY <2>4, <3>1 DEF Increasing
  <2>6. ASSUME NEW c \in Elements(t) PROVE c \in Elements(s) /\ k < c
    <3>1. PICK i \in 1 .. Len(s) - j : c = s[j + i]
      <4>1. DOMAIN t = 1 .. Len(s) - j
        BY <2>4
      <4> QED
        BY <4>1, <2>4 DEF Elements
    <3>2. j + i \in 1 .. Len(s) /\ j < j + i
      BY <2>1
    <3> QED
      BY <2>1, <3>1, <3>2 DEF Elements, Increasing
  <2>7. ASSUME NEW c \in Elements(s), k < c PROVE c \in Elements(t)
    <3>1. PICK i \in 1 .. Len(s) : c = s[i]
      BY DEF Elements
    <3>2. s[i] \in Nat /\ s[j] \in Nat
      BY <2>1
    <3>3. j < i
      BY <2>1, <2>7, <3>1, <3>2 DEF Increasing
    <3>4. i - j \in 1 .. Len(s) - j /\ t[i - j] = s[i]
      BY <2>1, <2>4, <3>3
    <3> QED
      BY <2>4, <3>1, <3>4 DEF Elements
  <2> QED
    BY <2>4, <2>5, <2>6, <2>7, <1>3
<1> QED
  BY <1>2, <1>3

LEMMA Extending ==
  ASSUME NEW s \in Seq(Nat), Increasing(s), NEW b \in Nat, \A c \in Elements(s) : c < b
  PROVE  /\ Append(s, b) \in Seq(Nat) /\ Len(Append(s, b)) = Len(s) + 1
         /\ Increasing(Append(s, b))
         /\ Elements(Append(s, b)) = Elements(s) \cup {b}
<1> DEFINE t == Append(s, b)
<1>1. /\ t \in Seq(Nat) /\ Len(t) = Len(s) + 1 /\ t[Len(s) + 1] = b
      /\ \A i \in 1 .. Len(s) : t[i] = s[i]
      /\ DOMAIN t = 1 .. Len(s) + 1 /\ DOMAIN s = 1 .. Len(s)
  OBVIOUS
<1> HIDE DEF t
<1>2. \A i \in 1 .. Len(s) : s[i] < b
  BY DEF Elements
<1>3. Increasing(t)
  <2> SUFFICES ASSUME NEW i \in 1 .. Len(s) + 1, NEW j \in 1 .. Len(s) + 1, i < j
               PROVE  t[i] < t[j]
    BY <1>1 DEF Increasing
  <2>1. Len(s) \in Nat /\ i \in 1 .. Len(s)
    OBVIOUS
  <2>2. CASE j = Len(s) + 1
    BY <2>1, <2>2, <1>1, <1>2
  <2>3. CASE j # Len(s) + 1
    <3>1. j \in 1 .. Len(s) /\ s[i] < s[j]
      BY <2>1, <2>3 DEF Increasing
    <3> QED
      BY <2>1, <3>1, <1>1
  <2> QED
    BY <2>2, <2>3
<1>4. Elements(t) = Elements(s) \cup {b}
  BY <1>1 DEF Elements
<1> QED
  BY <1>1, <1>3, <1>4 DEF t

----------------------------------------------------------------------------
(* The inductive invariant.                                                *)

\* The relay chain includes one chain: each head extends the earlier ones, and what
\* it includes or backs was built with an older relay parent.
RelayOK ==
    /\ heads \in Seq(Nat) /\ latest \in Nat \ {0}
    /\ heads[1] = Genesis
    /\ \A r \in 1 .. latest : heads[r] \in {Genesis} \cup Blocks
    /\ \A r, s \in 1 .. latest : r <= s => heads[r] \in Ancestors[heads[s]]
    /\ \A r \in 1 .. latest : heads[r] # Genesis => blocks[heads[r]].relayParent < r
    /\ pending \in {Genesis} \cup Blocks
    /\ pending # Genesis => /\ blocks[pending].parent = heads[latest]
                            /\ blocks[pending].relayParent < latest

\* The blocks of b's chain that are in its slot.
SameSlot(b) == {c \in Ancestors[b] : c # Genesis /\ blocks[c].slot = blocks[b].slot}

\* The segment lists, oldest first, what of b's chain its relay parent has not
\* included; slots do not go back, and those of the last one are counted.
BlockOK(b) ==
    LET known == heads[blocks[b].relayParent]
    IN /\ blocks[b].relayParent \in 1 .. latest
       /\ blocks[b].slot = blocks[b].relayParent
       /\ known \in Ancestors[b] /\ known < b
       /\ Increasing(blocks[b].segment)
       /\ Elements(blocks[b].segment) = {c \in Ancestors[b] : known < c}
       /\ Len(blocks[b].segment) <= UnincludedSegmentCapacity
       /\ blocks[b].authored = Cardinality(SameSlot(b))
       /\ blocks[b].authored <= BlockProcessingVelocity + 1
       /\ \A c \in Ancestors[b] \ {Genesis} : blocks[c].slot <= blocks[b].slot

BackingInv == BlocksOK /\ RelayOK /\ \A b \in Blocks : BlockOK(b)

LEMMA OneSlotEach == \A r \in Nat : SlotOf(r) = r
BY DEF SlotOf, RelayChainSlotDurationMillis, SlotDuration, MilliSecsPerBlock

\* The same of the state after any block, genesis included.
LEMMA StateAfter ==
  ASSUME BackingInv, NEW b \in {Genesis} \cup Blocks
  PROVE  LET known == heads[After(b).relayParent]
         IN /\ After(b).relayParent \in 1 .. latest
            /\ known \in Ancestors[b]
            /\ After(b).segment \in Seq(Nat) /\ Increasing(After(b).segment)
            /\ Elements(After(b).segment) = {c \in Ancestors[b] : known < c}
            /\ b # Genesis => After(b) = blocks[b] /\ After(b).slot = After(b).relayParent
            /\ b = Genesis => After(b).slot = 0
            /\ After(b).slot \in Nat
<1>1. CASE b = Genesis
  <2>1. After(b) = GenesisState
    BY <1>1 DEF After
  <2>2. /\ After(b).relayParent = 1 /\ After(b).slot = 0 /\ After(b).segment = <<>>
    BY <2>1 DEF GenesisState
  <2>3. Ancestors[b] = {Genesis} /\ heads[1] = Genesis /\ 1 \in 1 .. latest
    <3>1. latest \in Nat \ {0} /\ heads[1] = Genesis
      BY DEF BackingInv, RelayOK
    <3>2. Ancestors[b] = {Genesis}
      BY <1>1, AncestorsDefined DEF AncestorsRecur, BackingInv
    <3> QED
      BY <3>1, <3>2
  <2>4. <<>> \in Seq(Nat) /\ Increasing(<<>>) /\ Elements(<<>>) = {}
    BY DEF Increasing, Elements
  <2>5. {c \in Ancestors[b] : heads[1] < c} = {}
    BY <2>3 DEF Genesis
  <2> QED
    BY <1>1, <2>2, <2>3, <2>4, <2>5
<1>2. CASE b # Genesis
  <2>1. b \in Blocks /\ After(b) = blocks[b]
    BY <1>2 DEF After
  <2>2. BlockOK(b) /\ blocks[b] \in Block
    BY <2>1, BlocksAreNumbers DEF BackingInv
  <2> QED
    BY <1>2, <2>1, <2>2 DEF BlockOK, Block
<1> QED
  BY <1>1, <1>2

\* What is left of b's segment once relay block r is known.
LEMMA SegmentLeft ==
  ASSUME BackingInv, NEW b \in {Genesis} \cup Blocks, NEW r \in 1 .. latest,
         After(b).relayParent <= r, heads[r] \in Ancestors[b]
  PROVE  /\ DropIncluded(After(b).segment, heads[r]) \in Seq(Nat)
         /\ Increasing(DropIncluded(After(b).segment, heads[r]))
         /\ Elements(DropIncluded(After(b).segment, heads[r]))
               = {c \in Ancestors[b] : heads[r] < c}
<1> DEFINE s == After(b).segment
           known == heads[After(b).relayParent]
           k == heads[r]
<1>1. /\ After(b).relayParent \in 1 .. latest /\ known \in Ancestors[b]
      /\ s \in Seq(Nat) /\ Increasing(s)
      /\ Elements(s) = {c \in Ancestors[b] : known < c}
  BY StateAfter
<1>2. known \in Ancestors[k] /\ k \in {Genesis} \cup Blocks /\ BlocksOK
  BY <1>1 DEF BackingInv, RelayOK
<1>3. known <= k /\ known \in Nat /\ k \in Nat
  <2>1. ChainsOK
    BY <1>2, AncestorsAreChains
  <2> QED
    BY <1>2, <2>1, BlocksAreNumbers DEF ChainsOK, IsChain
<1> HIDE DEF s, known, k
<1>4. CASE k \in Elements(s)
  <2>1. {c \in Elements(s) : k < c} = {c \in Ancestors[b] : k < c}
    <3>1. \A c \in Ancestors[b] : c \in Nat
      BY <1>2, AncestorsAreChains, BlocksAreNumbers DEF ChainsOK, IsChain
    <3> QED
      BY <1>1, <1>3, <3>1
  <2> QED
    BY <1>1, <1>4, <2>1, Dropping DEF s, k
<1>5. CASE k \notin Elements(s)
  <2>1. k = known
    <3>1. k \in Ancestors[b]
      BY DEF k
    <3>2. ~(known < k)
      BY <1>1, <1>5, <3>1
    <3> QED
      BY <1>3, <3>2
  <2> QED
    BY <1>1, <1>5, <2>1, Dropping DEF s, k
<1> QED
  BY <1>4, <1>5

LEMMA BackingInvInitially == Init => BackingInv
<1> SUFFICES ASSUME Init PROVE BackingInv
  OBVIOUS
<1>1. Blocks = {} /\ BlocksOK
  BY DEF Init, Blocks, BlocksOK
<1>2. Ancestors[Genesis] = {Genesis}
  BY <1>1, AncestorsDefined DEF AncestorsRecur
<1>3. RelayOK
  BY <1>2 DEF Init, RelayOK, latest, Genesis
<1> QED
  BY <1>1, <1>3 DEF BackingInv

\* What authoring adds: a block above all others, and nothing else changes.
LEMMA AuthorAdds ==
  ASSUME BackingInv, NEW r \in RelayParents, NEW parent \in PotentialParents(r),
         Author(parent, r)
  PROVE  LET N == Len(blocks) + 1
             e == blocks'[N]
             left == DropIncluded(After(parent).segment, heads[r])
         IN /\ BlocksOK' /\ blocks' = Append(blocks, e)
            /\ N \in Nat /\ N # Genesis /\ N \notin Blocks
            /\ Blocks' = Blocks \cup {N}
            /\ \A b \in Blocks : blocks'[b] = blocks[b]
            /\ \A b \in {Genesis} \cup Blocks : Ancestors'[b] = Ancestors[b]
            /\ Ancestors'[N] = Ancestors[parent] \cup {N}
            /\ \A b \in {Genesis} \cup Blocks : b < N
            /\ e = [parent |-> parent, relayParent |-> r, slot |-> r,
                    authored |-> AuthoredInSlot(parent, r), segment |-> Append(left, N)]
            /\ r \in 1 .. latest /\ latest \in Nat /\ heads[r] \in Ancestors[parent]
            /\ After(parent).relayParent <= r /\ After(parent).slot <= r
            /\ AuthoredInSlot(parent, r) <= BlockProcessingVelocity + 1
            /\ left \in Seq(Nat) /\ Increasing(left) /\ Len(left) < UnincludedSegmentCapacity
            /\ Elements(left) = {c \in Ancestors[parent] : heads[r] < c}
            /\ UNCHANGED <<heads, pending>>
<1> DEFINE N == Len(blocks) + 1
           left == DropIncluded(After(parent).segment, heads[r])
           e == [parent |-> parent, relayParent |-> r, slot |-> r,
                 authored |-> AuthoredInSlot(parent, r), segment |-> Append(left, N)]
<1>1. /\ BlocksOK /\ Len(blocks) \in Nat /\ latest \in Nat \ {0}
      /\ {Genesis} \cup Blocks = 0 .. Len(blocks)
  BY BlocksAreNumbers DEF BackingInv, RelayOK
<1>2. /\ r \in 1 .. latest /\ r \in Nat /\ SlotOf(r) = r
  BY <1>1, OneSlotEach DEF RelayParents
<1>3. parent \in {Genesis} \cup Blocks /\ heads[r] \in Ancestors[parent] /\ parent \in Nat
  BY <1>1 DEF PotentialParents
<1>4. /\ blocks' = Append(blocks, e) /\ UNCHANGED <<heads, pending>>
      /\ SetValidationData(parent, r) /\ ConsensusHook(parent, r)
  BY <1>2 DEF Author, Executes
<1>5. /\ After(parent).relayParent <= r /\ Len(left) < UnincludedSegmentCapacity
      /\ After(parent).slot <= r /\ AuthoredInSlot(parent, r) <= BlockProcessingVelocity + 1
  <2>1. After(parent).relayParent \in Nat
    BY <1>3, <1>1, StateAfter
  <2> QED
    BY <2>1, <1>2, <1>4 DEF SetValidationData, ConsensusHook
<1>6. /\ left \in Seq(Nat) /\ Increasing(left)
      /\ Elements(left) = {c \in Ancestors[parent] : heads[r] < c}
  BY <1>2, <1>3, <1>5, SegmentLeft
<1>7. AuthoredInSlot(parent, r) \in Nat
  <2>1. CASE parent = Genesis
    BY <2>1 DEF AuthoredInSlot, After, GenesisState
  <2>2. CASE parent # Genesis
    <3>1. parent \in Blocks /\ blocks[parent] \in Block
      BY <1>1, <1>3, <2>2, BlocksAreNumbers
    <3>2. After(parent).authored \in Nat
      BY <2>2, <3>1 DEF After, Block
    <3> QED
      BY <3>2 DEF AuthoredInSlot
  <2> QED
    BY <2>1, <2>2
<1>8. e \in Block
  <2>1. Append(left, N) \in Seq(Nat)
    BY <1>1, <1>6
  <2> HIDE DEF left, N
  <2> QED
    BY <2>1, <1>2, <1>3, <1>7 DEF Block
<1> HIDE DEF e, left
<1>9. /\ blocks' \in Seq(Block) /\ Len(blocks') = N /\ blocks'[N] = e
      /\ N \in Nat /\ N # Genesis /\ N \notin Blocks /\ Blocks' = Blocks \cup {N}
      /\ \A b \in Blocks : blocks'[b] = blocks[b]
  BY <1>1, <1>4, <1>8 DEF BlocksOK, Blocks, Genesis
<1>10. ASSUME NEW b \in {Genesis} \cup Blocks PROVE b < N
  <2>1. b \in 0 .. Len(blocks)
    BY <1>1
  <2> QED
    BY <2>1, <1>1
<1>11. BlocksOK'
  <2>1. blocks'[N].parent < N
    BY <1>9, <1>10, <1>3 DEF e
  <2>2. \A b \in Blocks : blocks'[b].parent < b
    BY <1>9, <1>1, BlocksAreNumbers
  <2> QED
    BY <1>9, <2>1, <2>2 DEF BlocksOK
<1>12. /\ \A b \in {Genesis} \cup Blocks : Ancestors'[b] = Ancestors[b]
       /\ Ancestors'[N] = Ancestors[parent] \cup {N}
  BY <1>1, <1>4, <1>11, AncestorsKept DEF e
<1>13. blocks' = Append(blocks, blocks'[N]) /\ blocks'[N] = e
  BY <1>4, <1>9
<1> HIDE DEF N
<1> QED
  BY <1>1, <1>2, <1>3, <1>4, <1>5, <1>6, <1>9, <1>10, <1>11, <1>12, <1>13 DEF N, e, left

LEMMA ChainsAreFinite ==
  ASSUME BlocksOK, NEW b \in {Genesis} \cup Blocks
  PROVE  IsFiniteSet(Ancestors[b]) /\ \A c \in Ancestors[b] : c \in {Genesis} \cup Blocks
<1>1. \A c \in Ancestors[b] : c \in {Genesis} \cup Blocks
  BY AncestorsAreChains DEF ChainsOK, IsChain
<1>2. Ancestors[b] \subseteq 0 .. Len(blocks) /\ Len(blocks) \in Int /\ 0 \in Int
  BY <1>1, BlocksAreNumbers
<1>3. IsFiniteSet(0 .. Len(blocks))
  BY <1>2, FS_Interval
<1> QED
  BY <1>1, <1>2, <1>3, FS_Subset

----------------------------------------------------------------------------
(* Authoring.                                                              *)

\* One more in the slot of the parent, or the first of a later slot.
LEMMA AuthoredCounts ==
  ASSUME BackingInv, NEW parent \in {Genesis} \cup Blocks, NEW r \in Nat, r # 0,
         After(parent).slot <= r, NEW N, N \notin {Genesis} \cup Blocks
  PROVE  LET before == {c \in Ancestors[parent] : c # Genesis /\ blocks[c].slot = r}
         IN /\ AuthoredInSlot(parent, r) = Cardinality(before \cup {N})
            /\ \A c \in Ancestors[parent] \ {Genesis} : blocks[c].slot <= r
<1> DEFINE before == {c \in Ancestors[parent] : c # Genesis /\ blocks[c].slot = r}
<1>1. /\ IsFiniteSet(Ancestors[parent]) /\ BlocksOK
      /\ \A c \in Ancestors[parent] : c \in {Genesis} \cup Blocks
  BY ChainsAreFinite DEF BackingInv
<1>2. /\ IsFiniteSet(before) /\ N \notin before
      /\ Cardinality(before) \in Nat
      /\ Cardinality(before \cup {N}) = Cardinality(before) + 1
  <2>1. before \subseteq Ancestors[parent] /\ N \notin before
    BY <1>1
  <2> HIDE DEF before
  <2> QED
    BY <2>1, <1>1, FS_Subset, FS_AddElement, FS_CardinalityType
<1>3. CASE parent = Genesis
  <2>1. After(parent).slot = 0 /\ before = {} /\ Ancestors[parent] = {Genesis}
    BY <1>1, <1>3, AncestorsDefined DEF AncestorsRecur, After, GenesisState
  <2>2. AuthoredInSlot(parent, r) = 1
    BY <2>1, OneSlotEach DEF AuthoredInSlot
  <2> HIDE DEF before
  <2> QED
    BY <2>1, <2>2, <1>2, FS_EmptySet DEF before
<1>4. CASE parent # Genesis
  <2>1. parent \in Blocks /\ After(parent) = blocks[parent] /\ BlockOK(parent)
    BY <1>4 DEF After, BackingInv
  <2>2. \A c \in Ancestors[parent] \ {Genesis} :
          blocks[c].slot <= blocks[parent].slot /\ blocks[c].slot \in Nat
    BY <2>1, <1>1, BlocksAreNumbers DEF BlockOK, Block
  <2>3. blocks[parent].slot \in Nat /\ blocks[parent].slot <= r
    BY <2>1, <1>1, BlocksAreNumbers DEF Block
  <2>4. CASE blocks[parent].slot = r
    <3>1. before = SameSlot(parent)
      BY <2>4 DEF SameSlot
    <3>2. AuthoredInSlot(parent, r) = Cardinality(before) + 1
      BY <2>1, <2>4, <3>1, OneSlotEach DEF AuthoredInSlot, BlockOK
    <3> QED
      BY <1>2, <2>2, <2>3, <3>2
  <2>5. CASE blocks[parent].slot # r
    <3>1. \A c \in Ancestors[parent] \ {Genesis} : blocks[c].slot < r
      BY <2>2, <2>3, <2>5
    <3>2. before = {}
      BY <3>1, <2>2
    <3>3. AuthoredInSlot(parent, r) = 1
      BY <2>1, <2>5, OneSlotEach DEF AuthoredInSlot
    <3>4. Cardinality(before) = 0
      BY <3>2, FS_EmptySet
    <3> QED
      BY <1>2, <2>2, <2>3, <3>3, <3>4
  <2> QED
    BY <2>4, <2>5
<1> QED
  BY <1>3, <1>4

LEMMA AuthorKeeps ==
  ASSUME BackingInv, NEW r \in RelayParents, NEW parent \in PotentialParents(r),
         Author(parent, r)
  PROVE  BackingInv'
<1>0. PICK N : N = Len(blocks) + 1
  OBVIOUS
<1> DEFINE e == blocks'[N]
           left == DropIncluded(After(parent).segment, heads[r])
<1>1. /\ BlocksOK'
      /\ N \in Nat /\ N # Genesis /\ N \notin Blocks /\ Blocks' = Blocks \cup {N}
      /\ \A b \in Blocks : blocks'[b] = blocks[b]
      /\ \A b \in {Genesis} \cup Blocks : Ancestors'[b] = Ancestors[b]
      /\ Ancestors'[N] = Ancestors[parent] \cup {N}
      /\ \A b \in {Genesis} \cup Blocks : b < N
  BY <1>0, AuthorAdds
<1>2. /\ e = [parent |-> parent, relayParent |-> r, slot |-> r,
              authored |-> AuthoredInSlot(parent, r), segment |-> Append(left, N)]
      /\ r \in 1 .. latest /\ latest \in Nat /\ heads[r] \in Ancestors[parent]
      /\ After(parent).relayParent <= r /\ After(parent).slot <= r
      /\ AuthoredInSlot(parent, r) <= BlockProcessingVelocity + 1
      /\ left \in Seq(Nat) /\ Increasing(left) /\ Len(left) < UnincludedSegmentCapacity
      /\ Elements(left) = {c \in Ancestors[parent] : heads[r] < c}
      /\ UNCHANGED <<heads, pending>>
  BY <1>0, AuthorAdds
<1> HIDE DEF e, left
<1>3. latest' = latest /\ BlocksOK /\ RelayOK
  BY <1>2 DEF latest, BackingInv
<1>4. parent \in {Genesis} \cup Blocks
  BY DEF PotentialParents
<1>5. \A b \in {Genesis} \cup Blocks : \A c \in Ancestors[b] : c \in {Genesis} \cup Blocks
  BY <1>3, ChainsAreFinite
<1>6. RelayOK'
  BY <1>1, <1>2, <1>3 DEF RelayOK
<1>7. ASSUME NEW b \in Blocks PROVE BlockOK(b)'
  <2>1. BlockOK(b) /\ blocks'[b] = blocks[b] /\ Ancestors'[b] = Ancestors[b]
    BY <1>1 DEF BackingInv
  <2>2. \A c \in Ancestors[b] : c # Genesis => blocks'[c] = blocks[c]
    BY <1>1, <1>5
  <2>3. SameSlot(b)' = SameSlot(b)
    BY <2>1, <2>2 DEF SameSlot
  <2> QED
    BY <2>1, <2>2, <2>3, <1>2, <1>3 DEF BlockOK
<1>8. BlockOK(N)'
  <2>1. blocks'[N] = e /\ heads'[r] = heads[r]
    BY <1>2 DEF e
  <2>2. heads[r] < N
    BY <1>1, <1>2, <1>3 DEF RelayOK
  <2>3. /\ Append(left, N) \in Seq(Nat) /\ Len(Append(left, N)) = Len(left) + 1
        /\ Increasing(Append(left, N))
        /\ Elements(Append(left, N)) = Elements(left) \cup {N}
    <3>1. \A c \in Elements(left) : c < N
      BY <1>1, <1>2, <1>4, <1>5
    <3> QED
      BY <3>1, <1>1, <1>2, Extending
  <2>4. Elements(left) \cup {N} = {c \in Ancestors'[N] : heads[r] < c}
    BY <1>1, <1>2, <2>2
  <2>5. Len(left) + 1 <= UnincludedSegmentCapacity
    BY <1>2 DEF UnincludedSegmentCapacity
  <2> DEFINE before == {c \in Ancestors[parent] : c # Genesis /\ blocks[c].slot = r}
  <2>6. /\ AuthoredInSlot(parent, r) = Cardinality(before \cup {N})
        /\ \A c \in Ancestors[parent] \ {Genesis} : blocks[c].slot <= r
    <3>1. r \in Nat /\ r # 0 /\ N \notin {Genesis} \cup Blocks
      BY <1>1, <1>2
    <3> QED
      BY <3>1, <1>2, <1>4, AuthoredCounts
  <2>7. /\ SameSlot(N)' = before \cup {N}
        /\ \A c \in Ancestors'[N] \ {Genesis} : blocks'[c].slot <= r
    <3>1. \A c \in Ancestors[parent] : c # Genesis => blocks'[c] = blocks[c]
      BY <1>1, <1>4, <1>5
    <3>2. blocks'[N].slot = r /\ r <= r
      BY <1>2, <2>1
    <3>3. \A c \in Ancestors'[N] : c # Genesis =>
             \/ c \in Ancestors[parent] /\ blocks'[c].slot = blocks[c].slot
             \/ c = N /\ blocks'[c].slot = r
      BY <1>1, <3>1, <3>2
    <3> QED
      BY <1>1, <2>6, <3>1, <3>2, <3>3 DEF SameSlot
  <2>8. /\ blocks'[N].relayParent = r /\ blocks'[N].slot = r
        /\ blocks'[N].authored = AuthoredInSlot(parent, r)
        /\ blocks'[N].segment = Append(left, N)
    BY <1>2, <2>1
  <2> HIDE DEF before
  <2> QED
    BY <1>1, <1>2, <1>3, <2>1, <2>2, <2>3, <2>4, <2>5, <2>6, <2>7, <2>8 DEF BlockOK
<1> QED
  BY <1>1, <1>6, <1>7, <1>8 DEF BackingInv

----------------------------------------------------------------------------
(* The relay chain.                                                        *)

LEMMA AncestorsUnchanged == blocks' = blocks => Ancestors' = Ancestors /\ Blocks' = Blocks
BY DEF Ancestors, Blocks

LEMMA RelayBlockKeeps == ASSUME BackingInv, RelayBlock PROVE BackingInv'
<1>1. /\ heads \in Seq(Nat) /\ latest \in Nat \ {0} /\ latest = Len(heads)
      /\ BlocksOK /\ ChainsOK /\ {Genesis} \cup Blocks \subseteq Nat
  BY AncestorsAreChains, BlocksAreNumbers DEF BackingInv, RelayOK, latest
<1>2. PICK head \in {heads[latest], pending} :
        /\ Inclusion(head)
        /\ heads' = Append(heads, head)
        /\ \/ pending' = Genesis
           \/ pending' = pending /\ head = heads[latest]
           \/ \E b \in Blocks : Backable(b, head) /\ pending' = b
  BY DEF RelayBlock
<1>3. /\ blocks' = blocks /\ Ancestors' = Ancestors /\ Blocks' = Blocks /\ BlocksOK'
  BY <1>1, AncestorsUnchanged DEF RelayBlock, BlocksOK
<1>4. /\ heads[latest] \in {Genesis} \cup Blocks /\ head \in {Genesis} \cup Blocks
      /\ head \in Nat
  BY <1>1, <1>2 DEF BackingInv, RelayOK
<1>5. /\ heads' \in Seq(Nat) /\ latest' = latest + 1 /\ heads'[latest + 1] = head
      /\ \A r \in 1 .. latest : heads'[r] = heads[r]
  BY <1>1, <1>2, <1>4 DEF latest
\* The new head extends the old one.
<1>6. heads[latest] \in Ancestors[head] /\ head \in Ancestors[head]
  <2>1. CASE head = heads[latest]
    BY <1>1, <1>4, <2>1 DEF ChainsOK, IsChain
  <2>2. CASE head # heads[latest]
    <3>1. pending # Genesis /\ head = pending /\ pending \in Blocks
          /\ blocks[pending].parent = heads[latest]
      BY <1>2, <2>2 DEF Inclusion, BackingInv, RelayOK
    <3>2. Ancestors[head] = Ancestors[heads[latest]] \cup {head}
      BY <1>1, <3>1, AncestorsDefined DEF AncestorsRecur
    <3> QED
      BY <1>1, <1>4, <3>2 DEF ChainsOK, IsChain
  <2> QED
    BY <2>1, <2>2
<1>7. ASSUME NEW r \in 1 .. latest PROVE heads[r] \in Ancestors[head]
  <2>1. heads[r] \in Ancestors[heads[latest]]
    BY <1>1 DEF BackingInv, RelayOK
  <2>2. Ancestors[heads[latest]] \subseteq Ancestors[head]
    BY <1>1, <1>4, <1>6 DEF ChainsOK, IsChain
  <2> QED
    BY <2>1, <2>2
<1>8. head # Genesis => blocks[head].relayParent < latest + 1
  <2>1. SUFFICES ASSUME head # Genesis PROVE blocks[head].relayParent < latest + 1
    OBVIOUS
  <2>2. blocks[head].relayParent < latest
    BY <1>1, <1>2, <2>1 DEF Inclusion, BackingInv, RelayOK
  <2>3. blocks[head].relayParent \in Nat
    BY <1>1, <1>4, <2>1, BlocksAreNumbers DEF Block
  <2> QED
    BY <1>1, <2>2, <2>3
<1>9. /\ pending' \in {Genesis} \cup Blocks
      /\ pending' # Genesis => /\ blocks[pending'].parent = head
                               /\ blocks[pending'].relayParent < latest + 1
  <2>1. CASE pending' = Genesis
    BY <2>1
  <2>2. CASE pending' = pending /\ head = heads[latest]
    <3>1. ASSUME pending # Genesis PROVE blocks[pending].relayParent < latest + 1
      <4>1. blocks[pending].relayParent < latest /\ pending \in Blocks
        BY <3>1 DEF BackingInv, RelayOK
      <4>2. blocks[pending].relayParent \in Nat
        BY <1>1, <4>1, BlocksAreNumbers DEF Block
      <4> QED
        BY <1>1, <4>1, <4>2
    <3> QED
      BY <2>2, <3>1 DEF BackingInv, RelayOK
  <2>3. ASSUME NEW b \in Blocks, Backable(b, head), pending' = b
        PROVE  /\ pending' \in {Genesis} \cup Blocks
               /\ blocks[pending'].parent = head
               /\ blocks[pending'].relayParent < latest + 1
    <3>1. blocks[b].relayParent \in 1 .. latest
      BY DEF BackingInv, BlockOK
    <3> QED
      BY <1>1, <2>3, <3>1 DEF Backable
  <2> QED
    BY <1>2, <2>1, <2>2, <2>3
<1>10. RelayOK'
  <2>1. heads'[1] = Genesis
    BY <1>1, <1>5 DEF BackingInv, RelayOK
  <2>2. ASSUME NEW r \in 1 .. latest + 1
        PROVE  /\ heads'[r] \in {Genesis} \cup Blocks
               /\ heads'[r] # Genesis => blocks[heads'[r]].relayParent < r
               /\ heads'[r] \in Ancestors[head]
    <3>1. CASE r = latest + 1
      BY <1>4, <1>5, <1>6, <1>8, <3>1
    <3>2. CASE r # latest + 1
      <4>1. r \in 1 .. latest
        BY <1>1, <3>2
      <4> QED
        BY <1>5, <1>7, <4>1 DEF BackingInv, RelayOK
    <3> QED
      BY <3>1, <3>2
  <2>3. ASSUME NEW r \in 1 .. latest + 1, NEW s \in 1 .. latest + 1, r <= s
        PROVE  heads'[r] \in Ancestors[heads'[s]]
    <3>1. CASE s = latest + 1
      BY <1>5, <2>2, <3>1
    <3>2. CASE s # latest + 1
      <4>1. r \in 1 .. latest /\ s \in 1 .. latest
        BY <1>1, <2>3, <3>2
      <4> QED
        BY <1>5, <2>3, <4>1 DEF BackingInv, RelayOK
    <3> QED
      BY <3>1, <3>2
  <2>4. latest' \in Nat \ {0}
    BY <1>1, <1>5
  <2> QED
    BY <1>3, <1>5, <1>9, <2>1, <2>2, <2>3, <2>4 DEF RelayOK
<1>11. ASSUME NEW b \in Blocks PROVE BlockOK(b)'
  <2>1. BlockOK(b) /\ SameSlot(b)' = SameSlot(b)
    BY <1>3 DEF BackingInv, SameSlot
  <2>2. /\ blocks[b].relayParent \in 1 .. latest'
        /\ heads'[blocks[b].relayParent] = heads[blocks[b].relayParent]
    BY <1>1, <1>5, <2>1 DEF BlockOK
  <2> QED
    BY <1>3, <2>1, <2>2 DEF BlockOK
<1> QED
  BY <1>3, <1>10, <1>11 DEF BackingInv

LEMMA BackingInvKept == ASSUME BackingInv, [Next]_backingVars PROVE BackingInv'
<1>1. ASSUME NEW r \in RelayParents, NEW parent \in PotentialParents(r), Author(parent, r)
      PROVE  BackingInv'
  BY <1>1, AuthorKeeps
<1>2. CASE RelayBlock
  BY <1>2, RelayBlockKeeps
<1>3. CASE UNCHANGED backingVars
  <2>1. UNCHANGED <<blocks, heads, pending>>
    BY <1>3 DEF backingVars
  <2>2. Ancestors' = Ancestors /\ Blocks' = Blocks /\ latest' = latest
    BY <2>1, AncestorsUnchanged DEF latest
  <2>3. BlocksOK' /\ RelayOK'
    BY <2>1, <2>2 DEF BackingInv, BlocksOK, RelayOK
  <2>4. ASSUME NEW b \in Blocks PROVE BlockOK(b)'
    <3>1. BlockOK(b) /\ SameSlot(b)' = SameSlot(b)
      BY <2>1, <2>2 DEF BackingInv, SameSlot
    <3> QED
      BY <2>1, <2>2, <3>1 DEF BlockOK
  <2> QED
    BY <2>2, <2>3, <2>4 DEF BackingInv
<1> QED
  BY <1>1, <1>2, <1>3 DEF Next, End

\* In every state the heads of the relay chain are one growing chain, a block's segment
\* is what of its own chain was not included when it was built, and its count of blocks
\* in the slot is right.
THEOREM BackingInvariant == Spec => []BackingInv
BY BackingInvInitially, BackingInvKept, PTL DEF Spec

----------------------------------------------------------------------------
(* What a reader should know of it.                                        *)

\* Forks, lost candidates and late collators leave no trace in a segment.
THEOREM SegmentsAreExact == Spec => []SegmentIsExact
<1>1. ASSUME BackingInv PROVE SegmentIsExact
  <2> SUFFICES ASSUME NEW b \in Blocks
               PROVE  LET known == heads[blocks[b].relayParent]
                      IN /\ known \in Ancestors[b]
                         /\ Elements(blocks[b].segment) = Ancestors[b] \ Ancestors[known]
    BY DEF SegmentIsExact, Elements
  <2> DEFINE known == heads[blocks[b].relayParent]
  <2>1. BlockOK(b) /\ ChainsOK
    BY <1>1, AncestorsAreChains DEF BackingInv
  <2>2. known \in Ancestors[b] /\ Elements(blocks[b].segment) = {c \in Ancestors[b] : known < c}
    BY <2>1 DEF BlockOK
  <2>3. Ancestors[known] = {c \in Ancestors[b] : c <= known}
    BY <2>1, <2>2 DEF ChainsOK, IsChain
  <2>4. known \in Nat /\ \A c \in Ancestors[b] : c \in Nat
    BY <1>1, <2>1, <2>2, BlocksAreNumbers DEF BackingInv, ChainsOK, IsChain
  <2> HIDE DEF known
  <2>5. {c \in Ancestors[b] : known < c} = Ancestors[b] \ Ancestors[known]
    BY <2>3, <2>4
  <2> QED
    BY <2>2, <2>5 DEF known
<1> QED
  BY <1>1, BackingInvariant, PTL

\* At no time are more blocks of a chain waiting for the relay chain than the
\* capacity says.
THEOREM BacklogIsBounded == Spec => []BacklogBounded
<1>1. ASSUME BackingInv PROVE BacklogBounded
  <2> SUFFICES ASSUME NEW b \in Blocks, heads[latest] \in Ancestors[b]
               PROVE  Cardinality(Ancestors[b] \ Ancestors[heads[latest]])
                         <= UnincludedSegmentCapacity
    BY DEF BacklogBounded
  <2> DEFINE known == heads[blocks[b].relayParent]
             waiting == Ancestors[b] \ Ancestors[heads[latest]]
             segment == blocks[b].segment
  <2>1. BlockOK(b) /\ ChainsOK /\ segment \in Seq(Nat) /\ RelayOK
    BY <1>1, AncestorsAreChains, BlocksAreNumbers DEF BackingInv, Block
  <2>2. known \in Ancestors[heads[latest]] /\ heads[latest] \in {Genesis} \cup Blocks
    BY <2>1 DEF RelayOK, BlockOK
  <2>3. known <= heads[latest] /\ known \in Nat /\ heads[latest] \in Nat
    BY <1>1, <2>1, <2>2, BlocksAreNumbers DEF BackingInv, ChainsOK, IsChain
  <2>4. Ancestors[heads[latest]] = {c \in Ancestors[b] : c <= heads[latest]}
    BY <2>1 DEF ChainsOK, IsChain
  <2>5. \A c \in Ancestors[b] : c \in Nat
    BY <1>1, <2>1, BlocksAreNumbers DEF BackingInv, ChainsOK, IsChain
  <2>6. Elements(segment) = {c \in Ancestors[b] : known < c}
    BY <2>1 DEF BlockOK
  <2>7. Len(segment) <= UnincludedSegmentCapacity
    BY <2>1 DEF BlockOK
  <2> HIDE DEF known, segment
  <2>8. waiting \subseteq Elements(segment)
    BY <2>3, <2>4, <2>5, <2>6
  <2> HIDE DEF waiting
  <2>9. /\ IsFiniteSet(Elements(segment)) /\ Cardinality(Elements(segment)) <= Len(segment)
        /\ Cardinality(Elements(segment)) \in Nat /\ Len(segment) \in Nat
    BY <2>1, NoLongerThanLength, FS_CardinalityType
  <2>10. Cardinality(waiting) <= Cardinality(Elements(segment)) /\ Cardinality(waiting) \in Nat
    BY <2>8, <2>9, FS_Subset, FS_CardinalityType
  <2> QED
    BY <2>7, <2>9, <2>10 DEF waiting, UnincludedSegmentCapacity
<1> QED
  BY <1>1, BackingInvariant, PTL

----------------------------------------------------------------------------

\* What the runtime and the collator read when a block is to be built on parent.
LEMMA ParentKnown ==
  ASSUME BackingInv, NEW r \in RelayParents, NEW parent \in PotentialParents(r)
  PROVE  /\ r \in 1 .. latest /\ parent \in {Genesis} \cup Blocks
         /\ heads[r] \in Ancestors[parent]
         /\ After(parent).relayParent <= r /\ After(parent).relayParent \in Nat
         /\ After(parent).slot <= r /\ After(parent).slot \in Nat
         /\ parent = heads[r] => After(parent).slot < r
<1>1. /\ r \in 1 .. latest /\ parent \in {Genesis} \cup Blocks /\ heads[r] \in Ancestors[parent]
  BY DEF RelayParents, PotentialParents
<1>2. /\ latest \in Nat /\ ChainsOK /\ heads[r] \in {Genesis} \cup Blocks
      /\ After(parent).relayParent \in 1 .. latest /\ After(parent).slot \in Nat
      /\ parent # Genesis => /\ After(parent) = blocks[parent]
                             /\ After(parent).slot = After(parent).relayParent
      /\ parent = Genesis => After(parent).slot = 0
  BY <1>1, AncestorsAreChains, StateAfter DEF BackingInv, RelayOK
<1>3. ASSUME parent # Genesis, parent = heads[r] PROVE After(parent).relayParent < r
  BY <1>1, <1>2, <1>3 DEF BackingInv, RelayOK
<1>4. After(parent).relayParent <= r
  <2>1. CASE parent = Genesis
    BY <1>1, <1>2, <2>1 DEF After, GenesisState
  <2>2. CASE parent # Genesis /\ parent = heads[r]
    BY <1>1, <1>2, <1>3, <2>2
  <2>3. CASE parent # Genesis /\ parent # heads[r]
    <3>1. parent \in Ancestors[parent] /\ parent \notin Ancestors[heads[r]]
      <4>1. heads[r] \in Nat /\ parent \in Nat
        BY <1>1, <1>2, BlocksAreNumbers DEF BackingInv
      <4>2. heads[r] <= parent
        BY <1>1, <1>2 DEF ChainsOK, IsChain
      <4> QED
        BY <1>1, <1>2, <2>3, <4>1, <4>2 DEF ChainsOK, IsChain
    <3>2. blocks[parent].relayParent \in (r - AllowedAncestry) .. r
      BY <3>1 DEF PotentialParents
    <3> QED
      BY <1>1, <1>2, <2>3, <3>2, AncestryAssumption
  <2> QED
    BY <2>1, <2>2, <2>3
<1> QED
  <2>1. After(parent).slot <= r
    BY <1>1, <1>2, <1>4
  <2>2. parent = heads[r] => After(parent).slot < r
    BY <1>1, <1>2, <1>3
  <2> QED
    BY <1>1, <1>2, <1>4, <2>1, <2>2

\* On the included block nothing is left of the segment.
LEMMA NothingLeft ==
  ASSUME BackingInv, NEW r \in 1 .. latest, After(heads[r]).relayParent <= r,
         heads[r] \in {Genesis} \cup Blocks
  PROVE  Len(DropIncluded(After(heads[r]).segment, heads[r])) = 0
<1> DEFINE left == DropIncluded(After(heads[r]).segment, heads[r])
<1>1. /\ ChainsOK /\ heads[r] \in Ancestors[heads[r]]
      /\ heads[r] \in Nat /\ \A c \in Ancestors[heads[r]] : c \in Nat /\ c <= heads[r]
  BY AncestorsAreChains, BlocksAreNumbers DEF BackingInv, ChainsOK, IsChain
<1>2. left \in Seq(Nat) /\ Elements(left) = {c \in Ancestors[heads[r]] : heads[r] < c}
  BY <1>1, SegmentLeft
<1> HIDE DEF left
<1>3. Elements(left) = {}
  BY <1>1, <1>2
<1>4. DOMAIN left = {}
  BY <1>3 DEF Elements
<1> QED
  BY <1>2, <1>4 DEF left

\* A block that the collator's question allows is accepted by the runtime.
THEOREM BuiltBlocksExecute == Spec => []WhatIsBuiltExecutes
<1>1. ASSUME BackingInv PROVE WhatIsBuiltExecutes
  <2> SUFFICES ASSUME NEW r \in RelayParents, NEW parent \in PotentialParents(r),
                      Builds(parent, r)
               PROVE  Executes(parent, r)
    BY DEF WhatIsBuiltExecutes
  <2>1. /\ r \in 1 .. latest /\ r \in Nat /\ parent \in {Genesis} \cup Blocks
        /\ After(parent).relayParent <= r /\ After(parent).relayParent \in Nat
        /\ After(parent).slot <= r /\ After(parent).slot \in Nat
        /\ parent = heads[r] => After(parent).slot < r
        /\ SlotOf(r) = r
    BY <1>1, ParentKnown, OneSlotEach
  <2>2. TimestampSet(parent, r)
    BY <2>1 DEF TimestampSet, MinimumPeriod, SlotDuration, MilliSecsPerBlock
  <2>3. CASE parent = heads[r]
    <3>1. Len(DropIncluded(After(parent).segment, heads[r])) = 0
      BY <1>1, <2>1, <2>3, NothingLeft
    <3>2. SetValidationData(parent, r)
      BY <2>1, <3>1 DEF SetValidationData, UnincludedSegmentCapacity
    <3>3. AuthoredInSlot(parent, r) = 1
      BY <2>1, <2>3 DEF AuthoredInSlot
    <3>4. ConsensusHook(parent, r)
      BY <2>1, <3>3 DEF ConsensusHook, BlockProcessingVelocity
    <3> QED
      BY <2>2, <3>2, <3>4 DEF Executes
  <2>4. CASE parent # heads[r]
    <3>1. CanBuildUpon(parent, heads[r], r)
      BY <2>1, <2>4 DEF Builds
    <3>2. Len(DropIncluded(After(parent).segment, heads[r])) < UnincludedSegmentCapacity
      BY <2>4, <3>1 DEF CanBuildUpon
    <3>3. After(parent).slot = r => After(parent).authored < BlockProcessingVelocity + 1
      BY <3>1 DEF CanBuildUpon
    <3>4. After(parent).authored \in Nat
      BY <1>1, <2>1, BlocksAreNumbers DEF After, GenesisState, Block, BackingInv
    <3>5. AuthoredInSlot(parent, r) <= BlockProcessingVelocity + 1
      BY <2>1, <3>3, <3>4 DEF AuthoredInSlot, BlockProcessingVelocity
    <3> QED
      BY <2>1, <2>2, <3>2, <3>5 DEF Executes, SetValidationData, ConsensusHook
  <2> QED
    BY <2>3, <2>4
<1> QED
  BY <1>1, BackingInvariant, PTL

\* Slots and relay parents never go back along a chain, and no slot has more blocks
\* of it than the velocity and one.
THEOREM VelocityIsBounded == Spec => []VelocityHolds
<1>1. ASSUME BackingInv PROVE VelocityHolds
  <2> SUFFICES ASSUME NEW b \in Blocks
               PROVE  /\ blocks[b].parent \in Blocks =>
                            /\ blocks[blocks[b].parent].slot <= blocks[b].slot
                            /\ blocks[blocks[b].parent].relayParent <= blocks[b].relayParent
                      /\ Cardinality(SameSlot(b)) <= BlockProcessingVelocity + 1
    BY DEF VelocityHolds, SameSlot
  <2>1. BlockOK(b) /\ BlocksOK /\ ChainsOK
    BY <1>1, AncestorsAreChains DEF BackingInv
  <2>2. Cardinality(SameSlot(b)) <= BlockProcessingVelocity + 1
    BY <2>1 DEF BlockOK
  <2>3. ASSUME blocks[b].parent \in Blocks
        PROVE  /\ blocks[blocks[b].parent].slot <= blocks[b].slot
               /\ blocks[blocks[b].parent].relayParent <= blocks[b].relayParent
    <3> DEFINE p == blocks[b].parent
    <3>1. Ancestors[b] = Ancestors[p] \cup {b} /\ p # Genesis
      BY <2>1, <2>3, AncestorsDefined, BlocksAreNumbers DEF AncestorsRecur
    <3>2. p \in Ancestors[b] \ {Genesis}
      BY <2>1, <2>3, <3>1 DEF ChainsOK, IsChain
    <3>3. blocks[p].slot <= blocks[b].slot
      BY <2>1, <3>2 DEF BlockOK
    <3>4. BlockOK(p)
      BY <1>1, <2>3 DEF BackingInv
    <3>5. blocks[p].slot = blocks[p].relayParent /\ blocks[b].slot = blocks[b].relayParent
      BY <2>1, <3>4 DEF BlockOK
    <3> QED
      BY <3>3, <3>5
  <2> QED
    BY <2>2, <2>3
<1> QED
  BY <1>1, BackingInvariant, PTL
==============================================================================
