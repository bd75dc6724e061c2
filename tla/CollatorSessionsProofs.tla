------------------------ MODULE CollatorSessionsProofs ------------------------
(***************************************************************************)
(* Aura never runs out of authorities, nobody is one twice whom no list of *)
(* invulnerables named twice, a block is credited to whoever sealed it,    *)
(* and no candidate is kicked for a session in which it sealed one: for    *)
(* any collators, session length and limits.                               *)
(***************************************************************************)
EXTENDS CollatorSessions, FiniteSetTheorems, WellFoundedInduction, TLAPS

----------------------------------------------------------------------------
(* Counterexamples that are as small as they can be.                        *)

LEMMA LeastNumber ==
  ASSUME NEW T \in SUBSET Nat, T # {}
  PROVE  \E m \in T : \A n \in T : m <= n
<1> DEFINE R == {p \in Nat \X Nat : p[1] < p[2]}
<1>1. IsWellFoundedOn(R, Nat)
  BY NatLessThanWellFounded DEF OpToRel
<1> HIDE DEF R
<1>2. PICK m \in T : \A n \in T : <<n, m>> \notin R
  BY <1>1, WFMin
<1>3. \A n \in T : ~(n < m)
  BY <1>2 DEF R
<1> QED
  BY <1>3

LEMMA SmallestSet ==
  ASSUME NEW S, IsFiniteSet(S), NEW F \in SUBSET (SUBSET S), F # {}
  PROVE  \E s \in F : \A x \in s : s \ {x} \notin F
<1>1. IsWellFoundedOn(StrictSubsetOrdering(S), SUBSET S)
  BY FS_FiniteSubsetsOfFinite, FS_StrictSubsetOrderingWellFounded
<1>2. PICK s \in F : \A t \in F : <<t, s>> \notin StrictSubsetOrdering(S)
  BY <1>1, WFMin
<1>3. ASSUME NEW x \in s PROVE s \ {x} \notin F
  BY <1>2 DEF StrictSubsetOrdering
<1> QED
  BY <1>3

\* A set to fold over gets smaller.
LEMMA Smaller ==
  ASSUME NEW D, IsFiniteSet(D), NEW s \in SUBSET D, NEW x \in s, NEW n \in Nat,
         Cardinality(s) <= n + 1
  PROVE  s \ {x} \in {t \in SUBSET D : Cardinality(t) <= n}
<1>1. IsFiniteSet(s) /\ Cardinality(s) \in Nat
  BY FS_Subset, FS_CardinalityType
<1>2. Cardinality(s \ {x}) = Cardinality(s) - 1
  BY <1>1, FS_RemoveElement
<1> QED
  BY <1>1, <1>2

LEMMA Greatest ==
  ASSUME NEW n \in Nat, NEW s \in SUBSET (1 .. n), s # {}
  PROVE  Max(s) \in s
<1>1. \A i \in s : i \in Nat /\ n - i \in Nat
  OBVIOUS
<1>2. PICK m \in {n - i : i \in s} : \A k \in {n - i : i \in s} : m <= k
  <2> DEFINE T == {n - i : i \in s}
  <2>1. T \in SUBSET Nat /\ T # {}
    BY <1>1
  <2> HIDE DEF T
  <2>2. \E m \in T : \A k \in T : m <= k
    BY <2>1, LeastNumber
  <2> QED
    BY <2>2 DEF T
<1>3. PICK i \in s : m = n - i
  BY <1>2
<1>4. ASSUME NEW j \in s PROVE i >= j
  <2>1. n - i <= n - j
    BY <1>2, <1>3
  <2> QED
    BY <1>1, <2>1
<1> QED
  BY <1>3, <1>4 DEF Max

\* What FoldLeft recurses with has a value everywhere.
FoldsTo(n, V, base, step, at) ==
    /\ at \in [SUBSET (1 .. n) -> V]
    /\ \A s \in SUBSET (1 .. n) :
          at[s] = IF s = {} THEN base ELSE step[Max(s)][at[s \ {Max(s)}]]

LEMMA FoldsAreDefined ==
  ASSUME NEW n \in Nat, NEW V, NEW base \in V, NEW step \in [1 .. n -> [V -> V]]
  PROVE  \E at : FoldsTo(n, V, base, step, at)
<1> DEFINE D == 1 .. n
           next(at, s) == IF s = {} THEN base ELSE step[Max(s)][at[s \ {Max(s)}]]
           Upto(k) == {s \in SUBSET D : Cardinality(s) <= k}
           None == {k \in Nat : ~ \E at \in [Upto(k) -> V] : \A s \in Upto(k) : at[s] = next(at, s)}
<1>1. IsFiniteSet(D) /\ Cardinality(D) = n /\ \A s \in SUBSET D : Cardinality(s) \in Nat
  <2>1. IsFiniteSet(D) /\ Cardinality(D) = n
    BY FS_Interval
  <2>2. ASSUME NEW s \in SUBSET D PROVE Cardinality(s) \in Nat
    BY <2>1, FS_Subset, FS_CardinalityType
  <2> QED
    BY <2>1, <2>2
<1>2. None = {}
  <2>1. None \in SUBSET Nat
    OBVIOUS
  <2> SUFFICES ASSUME None # {} PROVE FALSE
    OBVIOUS
  <2> HIDE DEF None
  <2>2. PICK k \in None : \A j \in None : k <= j
    BY <2>1, LeastNumber
  <2>3. k # 0
    <3>1. \A s \in Upto(0) : s = {}
      <4> SUFFICES ASSUME NEW s \in SUBSET D, Cardinality(s) <= 0 PROVE s = {}
        OBVIOUS
      <4>1. IsFiniteSet(s) /\ Cardinality(s) \in Nat
        BY <1>1, FS_Subset
      <4>2. Cardinality(s) = 0
        BY <4>1
      <4> QED
        BY <4>1, <4>2, FS_EmptySet
    <3>2. [s \in Upto(0) |-> base] \in [Upto(0) -> V]
      OBVIOUS
    <3>3. \A s \in Upto(0) : [t \in Upto(0) |-> base][s] = next([t \in Upto(0) |-> base], s)
      BY <3>1
    <3> HIDE DEF next, Upto
    <3> QED
      BY <3>2, <3>3 DEF None
  <2>4. k \in Nat /\ k - 1 \in Nat /\ k - 1 \notin None
    <3>1. k \in Nat /\ k - 1 \in Nat /\ ~(k <= k - 1)
      BY <2>1, <2>2, <2>3
    <3> QED
      BY <2>2, <3>1
  <2>5. PICK at \in [Upto(k - 1) -> V] : \A s \in Upto(k - 1) : at[s] = next(at, s)
    BY <2>4 DEF None
  <2> DEFINE at2 == [s \in Upto(k) |-> next(at, s)]
  <2>6. ASSUME NEW s \in Upto(k), s # {}
        PROVE  Max(s) \in D /\ s \ {Max(s)} \in Upto(k - 1)
    <3>1. s \in SUBSET D /\ Cardinality(s) <= (k - 1) + 1 /\ k - 1 \in Nat
      BY <2>4
    <3>2. Max(s) \in s
      BY <2>6, <3>1, Greatest
    <3> HIDE DEF D, Upto
    <3>3. s \ {Max(s)} \in {t \in SUBSET D : Cardinality(t) <= k - 1}
      BY <1>1, <3>1, <3>2, Smaller
    <3> QED
      BY <3>1, <3>2, <3>3 DEF Upto
  <2>7. ASSUME NEW s \in Upto(k - 1) PROVE s \in Upto(k) /\ at2[s] = at[s]
    <3>1. s \in Upto(k)
      BY <1>1, <2>4
    <3> QED
      BY <2>5, <3>1
  <2>8. ASSUME NEW s \in Upto(k) PROVE at2[s] \in V /\ next(at2, s) = next(at, s)
    <3>1. CASE s = {}
      BY <3>1
    <3>2. CASE s # {}
      <4>1. Max(s) \in D /\ s \ {Max(s)} \in Upto(k - 1)
        BY <2>6, <3>2
      <4>2. at2[s \ {Max(s)}] = at[s \ {Max(s)}]
        BY <2>7, <4>1
      <4>3. step[Max(s)] \in [V -> V] /\ at[s \ {Max(s)}] \in V
        BY <4>1
      <4> QED
        BY <3>2, <4>2, <4>3
    <3> QED
      BY <3>1, <3>2
  <2> HIDE DEF next, Upto
  <2>9. at2 \in [Upto(k) -> V] /\ \A s \in Upto(k) : at2[s] = next(at2, s)
    BY <2>8
  <2> QED
    BY <2>2, <2>9 DEF None
<1>3. PICK at \in [Upto(n) -> V] : \A s \in Upto(n) : at[s] = next(at, s)
  BY <1>2
<1>4. Upto(n) = SUBSET D
  BY <1>1, FS_Subset
<1> QED
  BY <1>3, <1>4 DEF FoldsTo

----------------------------------------------------------------------------
(* Lists of accounts.                                                      *)

NoRepeats(list) == \A i, j \in DOMAIN list : list[i] = list[j] => i = j

\* Where an element goes, the others close up.
LEMMA ClosesUp ==
  ASSUME NEW S, NEW list \in Seq(S), NEW a, \E i \in 1 .. Len(list) : list[i] = a
  PROVE  \E k \in 1 .. Len(list) :
           /\ list[k] = a
           /\ RemoveFirst(list, a) \in Seq(S) /\ Len(RemoveFirst(list, a)) = Len(list) - 1
           /\ \A j \in 1 .. Len(list) - 1 :
                 RemoveFirst(list, a)[j] = IF j < k THEN list[j] ELSE list[j + 1]
<1> DEFINE I == {i \in 1 .. Len(list) : list[i] = a}
           k == Min(I)
           t == RemoveFirst(list, a)
<1>1. k \in 1 .. Len(list) /\ list[k] = a
  <2>1. I \in SUBSET Nat /\ I # {}
    OBVIOUS
  <2>2. PICK m \in I : \A i \in I : m <= i
    <3> HIDE DEF I
    <3> QED
      BY <2>1, LeastNumber
  <2>3. k \in I
    BY <2>2 DEF Min
  <2> QED
    BY <2>3
<1>2. t = SubSeq(list, 1, k - 1) \o SubSeq(list, k + 1, Len(list))
  BY DEF RemoveFirst, RemoveAt, SelectInSeq
<1> HIDE DEF k
<1>3. /\ t \in Seq(S) /\ Len(t) = Len(list) - 1
      /\ \A j \in 1 .. Len(list) - 1 : t[j] = IF j < k THEN list[j] ELSE list[j + 1]
  <2> DEFINE u == SubSeq(list, 1, k - 1)
             v == SubSeq(list, k + 1, Len(list))
  <2>1. /\ u \in Seq(S) /\ Len(u) = k - 1 /\ \A j \in 1 .. k - 1 : u[j] = list[j]
        /\ v \in Seq(S) /\ Len(v) = Len(list) - k
        /\ \A j \in 1 .. Len(list) - k : v[j] = list[k + j]
    BY <1>1
  <2> HIDE DEF u, v
  <2>2. /\ u \o v \in Seq(S) /\ Len(u \o v) = Len(list) - 1
        /\ \A j \in 1 .. Len(list) - 1 :
             (u \o v)[j] = IF j < k THEN u[j] ELSE v[j - (k - 1)]
    BY <1>1, <2>1
  <2>3. ASSUME NEW j \in 1 .. Len(list) - 1, ~(j < k)
        PROVE  v[j - (k - 1)] = list[j + 1]
    <3>1. j - (k - 1) \in 1 .. Len(list) - k /\ k + (j - (k - 1)) = j + 1
      BY <1>1, <2>3
    <3> QED
      BY <2>1, <3>1
  <2>4. \A j \in 1 .. Len(list) - 1 : j < k => u[j] = list[j]
    BY <1>1, <2>1
  <2> QED
    BY <1>2, <2>2, <2>3, <2>4 DEF u, v
<1> QED
  BY <1>1, <1>3 DEF t

LEMMA RemovesOne ==
  ASSUME NEW S, NEW list \in Seq(S), NoRepeats(list), NEW a
  PROVE  /\ RemoveFirst(list, a) \in Seq(S) /\ NoRepeats(RemoveFirst(list, a))
         /\ ToSet(RemoveFirst(list, a)) = ToSet(list) \ {a}
         /\ Len(RemoveFirst(list, a)) <= Len(list)
<1>1. CASE ~ \E i \in 1 .. Len(list) : list[i] = a
  BY <1>1 DEF RemoveFirst, ToSet
<1>2. CASE \E i \in 1 .. Len(list) : list[i] = a
  <2> DEFINE t == RemoveFirst(list, a)
  <2>1. PICK k \in 1 .. Len(list) :
           /\ list[k] = a /\ t \in Seq(S) /\ Len(t) = Len(list) - 1
           /\ \A j \in 1 .. Len(list) - 1 : t[j] = IF j < k THEN list[j] ELSE list[j + 1]
    BY <1>2, ClosesUp
  <2> HIDE DEF t
  <2>3. /\ t \in Seq(S) /\ Len(t) = Len(list) - 1
        /\ \A j \in 1 .. Len(list) - 1 : t[j] = IF j < k THEN list[j] ELSE list[j + 1]
    BY <2>1
  <2>4. DOMAIN list = 1 .. Len(list) /\ DOMAIN t = 1 .. Len(list) - 1 /\ Len(list) \in Nat
    BY <2>3
  <2>5. \A i \in DOMAIN list : list[i] = a => i = k
    BY <2>1, <2>4 DEF NoRepeats
  <2>6. NoRepeats(t)
    <3> SUFFICES ASSUME NEW i \in 1 .. Len(list) - 1, NEW j \in 1 .. Len(list) - 1,
                        t[i] = t[j]
                 PROVE  i = j
      BY <2>4 DEF NoRepeats
    <3>1. i \in DOMAIN list /\ i + 1 \in DOMAIN list /\ j \in DOMAIN list /\ j + 1 \in DOMAIN list
      BY <2>4
    <3>2. CASE i < k /\ j < k
      BY <2>3, <3>1, <3>2 DEF NoRepeats
    <3>3. CASE ~(i < k) /\ ~(j < k)
      <4>1. i + 1 = j + 1
        BY <2>3, <3>1, <3>3 DEF NoRepeats
      <4> QED
        BY <4>1
    <3>4. CASE i < k /\ ~(j < k)
      <4>1. i = j + 1
        BY <2>3, <3>1, <3>4 DEF NoRepeats
      <4> QED
        BY <2>1, <3>4, <4>1
    <3>5. CASE ~(i < k) /\ j < k
      <4>1. i + 1 = j
        BY <2>3, <3>1, <3>5 DEF NoRepeats
      <4> QED
        BY <2>1, <3>5, <4>1
    <3> QED
      BY <3>2, <3>3, <3>4, <3>5
  <2>7. ToSet(t) \subseteq ToSet(list) \ {a}
    <3> SUFFICES ASSUME NEW j \in 1 .. Len(list) - 1 PROVE t[j] \in ToSet(list) \ {a}
      BY <2>4 DEF ToSet
    <3>1. PICK i \in DOMAIN list : i # k /\ t[j] = list[i]
      <4>1. CASE j < k
        BY <2>1, <2>3, <2>4, <4>1
      <4>2. CASE ~(j < k)
        <5>1. j + 1 \in DOMAIN list /\ j + 1 # k
          BY <2>1, <2>4, <4>2
        <5> QED
          BY <2>3, <4>2, <5>1
      <4> QED
        BY <4>1, <4>2
    <3> QED
      BY <2>5, <3>1 DEF ToSet
  <2>8. ToSet(list) \ {a} \subseteq ToSet(t)
    <3> SUFFICES ASSUME NEW i \in 1 .. Len(list), list[i] # a PROVE list[i] \in ToSet(t)
      BY <2>4 DEF ToSet
    <3>1. PICK j \in 1 .. Len(list) - 1 : t[j] = list[i]
      <4>1. CASE i < k
        BY <2>1, <2>3, <4>1
      <4>2. CASE i > k
        <5>1. i - 1 \in 1 .. Len(list) - 1 /\ ~(i - 1 < k) /\ (i - 1) + 1 = i
          BY <2>1, <4>2
        <5> QED
          BY <2>3, <5>1
      <4> QED
        BY <2>1, <4>1, <4>2
    <3> QED
      BY <2>4, <3>1 DEF ToSet
  <2> QED
    BY <2>3, <2>4, <2>6, <2>7, <2>8 DEF t
<1> QED
  BY <1>1, <1>2

LEMMA RemovalRepeatsNoMore ==
  ASSUME NEW S, NEW list \in Seq(S), NEW a
  PROVE  LET t == RemoveFirst(list, a)
         IN /\ t \in Seq(S) /\ Len(t) <= Len(list)
            /\ ToSet(t) \subseteq ToSet(list) /\ Repeated(t) \subseteq Repeated(list)
<1>1. CASE ~ \E i \in 1 .. Len(list) : list[i] = a
  BY <1>1 DEF RemoveFirst
<1>2. CASE \E i \in 1 .. Len(list) : list[i] = a
  <2> DEFINE t == RemoveFirst(list, a)
  <2>1. PICK k \in 1 .. Len(list) :
           /\ list[k] = a /\ t \in Seq(S) /\ Len(t) = Len(list) - 1
           /\ \A j \in 1 .. Len(list) - 1 : t[j] = IF j < k THEN list[j] ELSE list[j + 1]
    BY <1>2, ClosesUp
  <2> HIDE DEF t
  <2> DEFINE from == [j \in 1 .. Len(list) - 1 |-> IF j < k THEN j ELSE j + 1]
  <2>2. DOMAIN list = 1 .. Len(list) /\ DOMAIN t = 1 .. Len(list) - 1 /\ Len(list) \in Nat
    BY <2>1
  <2>3. /\ \A j \in DOMAIN t : from[j] \in DOMAIN list /\ t[j] = list[from[j]]
        /\ \A i, j \in DOMAIN t : i # j => from[i] # from[j]
    BY <2>1, <2>2
  <2> HIDE DEF from
  <2>4. ToSet(t) \subseteq ToSet(list)
    BY <2>3 DEF ToSet
  <2>5. ASSUME NEW c \in Repeated(t) PROVE c \in Repeated(list)
    <3>1. PICK i \in DOMAIN t, j \in DOMAIN t : i # j /\ t[i] = c /\ t[j] = c
      BY <2>5 DEF Repeated
    <3>2. c \in ToSet(list)
      BY <2>4, <2>5 DEF Repeated
    <3> QED
      BY <2>3, <3>1, <3>2 DEF Repeated
  <2>6. Len(t) <= Len(list)
    BY <2>1, <2>2
  <2> QED
    BY <2>1, <2>4, <2>5, <2>6 DEF t
<1> QED
  BY <1>1, <1>2

LEMMA OnceIsNotTwice ==
  ASSUME NEW list PROVE NoRepeats(list) <=> Repeated(list) = {}
BY DEF NoRepeats, Repeated, ToSet

LEMMA RepeatedInBoth ==
  ASSUME NEW S, NEW s \in Seq(S), NEW t \in Seq(S), ToSet(s) \cap ToSet(t) = {}
  PROVE  s \o t \in Seq(S) /\ Repeated(s \o t) \subseteq Repeated(s) \cup Repeated(t)
<1>1. /\ s \o t \in Seq(S) /\ DOMAIN (s \o t) = 1 .. Len(s) + Len(t)
      /\ \A i \in 1 .. Len(s) : (s \o t)[i] = s[i]
      /\ \A i \in 1 .. Len(t) : (s \o t)[Len(s) + i] = t[i]
      /\ DOMAIN s = 1 .. Len(s) /\ DOMAIN t = 1 .. Len(t) /\ Len(s) \in Nat /\ Len(t) \in Nat
  OBVIOUS
<1>2. \A i \in 1 .. Len(s) + Len(t) :
         i > Len(s) => i - Len(s) \in 1 .. Len(t) /\ (s \o t)[i] = t[i - Len(s)]
  <2> SUFFICES ASSUME NEW i \in 1 .. Len(s) + Len(t), i > Len(s)
               PROVE  i - Len(s) \in 1 .. Len(t) /\ (s \o t)[i] = t[i - Len(s)]
    OBVIOUS
  <2>1. i - Len(s) \in 1 .. Len(t) /\ Len(s) + (i - Len(s)) = i
    BY <1>1
  <2> QED
    BY <1>1, <2>1
<1>3. /\ \A i \in 1 .. Len(s) : s[i] \in ToSet(s)
      /\ \A i \in 1 .. Len(t) : t[i] \in ToSet(t)
  BY <1>1 DEF ToSet
<1> DEFINE both == s \o t
<1> HIDE DEF both
<1> SUFFICES ASSUME NEW i \in 1 .. Len(s) + Len(t), NEW j \in 1 .. Len(s) + Len(t), i # j,
                    both[i] = both[j]
             PROVE  both[i] \in Repeated(s) \cup Repeated(t)
  BY <1>1 DEF Repeated, both
<1>4. CASE i <= Len(s) /\ j <= Len(s)
  <2>1. i \in DOMAIN s /\ j \in DOMAIN s /\ both[i] = s[i] /\ both[j] = s[j]
    BY <1>1, <1>4 DEF both
  <2> QED
    BY <2>1 DEF Repeated, ToSet
<1>5. CASE i > Len(s) /\ j > Len(s)
  <2>1. PICK k \in DOMAIN t, l \in DOMAIN t : k # l /\ both[i] = t[k] /\ both[j] = t[l]
    <3>1. i - Len(s) # j - Len(s)
      BY <1>1
    <3> QED
      BY <1>1, <1>2, <1>5, <3>1 DEF both
  <2> QED
    BY <2>1 DEF Repeated, ToSet
<1>6. CASE (i <= Len(s) /\ j > Len(s)) \/ (i > Len(s) /\ j <= Len(s))
  BY <1>1, <1>2, <1>3, <1>6 DEF both
<1> QED
  BY <1>1, <1>4, <1>5, <1>6

LEMMA NoRepeatsInBoth ==
  ASSUME NEW S, NEW s \in Seq(S), NEW t \in Seq(S), NoRepeats(s), NoRepeats(t),
         ToSet(s) \cap ToSet(t) = {}
  PROVE  s \o t \in Seq(S) /\ NoRepeats(s \o t)
BY RepeatedInBoth, OnceIsNotTwice

\* Sorting moves what a list names, and changes none of it.
LEMMA SortedListsAreTheSame ==
  ASSUME NEW S, NEW list \in Seq(S), NEW s \in Sorted(list)
  PROVE  /\ s \in Seq(S) /\ Len(s) = Len(list)
         /\ ToSet(s) \subseteq ToSet(list) /\ Repeated(s) \subseteq Repeated(list)
<1>1. PICK p \in Injection(DOMAIN list, DOMAIN list) : s = [i \in DOMAIN list |-> list[p[i]]]
  BY DEF Sorted
<1>2. /\ \A i \in DOMAIN list : p[i] \in DOMAIN list
      /\ \A i, j \in DOMAIN list : p[i] = p[j] => i = j
  BY DEF Injection, IsInjective
<1>3. DOMAIN list = 1 .. Len(list) /\ Len(list) \in Nat
  OBVIOUS
<1>4. s \in Seq(S) /\ Len(s) = Len(list) /\ DOMAIN s = DOMAIN list
      /\ \A i \in DOMAIN list : s[i] = list[p[i]]
  BY <1>1, <1>2, <1>3
<1>5. ToSet(s) \subseteq ToSet(list)
  BY <1>2, <1>4 DEF ToSet
<1>6. ASSUME NEW a \in Repeated(s) PROVE a \in Repeated(list)
  <2>1. PICK i \in DOMAIN list, j \in DOMAIN list : i # j /\ s[i] = a /\ s[j] = a
    BY <1>4, <1>6 DEF Repeated
  <2>2. /\ p[i] \in DOMAIN list /\ p[j] \in DOMAIN list /\ p[i] # p[j]
        /\ list[p[i]] = a /\ list[p[j]] = a
    BY <1>2, <1>4, <2>1
  <2> QED
    BY <2>2 DEF Repeated, ToSet
<1> QED
  BY <1>4, <1>5, <1>6

\* The first of list, counted from its end.
LEMMA OldestDoNotRepeat ==
  ASSUME NEW S, NEW list \in Seq(S), NoRepeats(list), NEW n \in 0 .. Len(list)
  PROVE  LET oldest == SubSeq(Reverse(list), 1, n)
         IN oldest \in Seq(S) /\ NoRepeats(oldest) /\ ToSet(oldest) \subseteq ToSet(list)
<1> DEFINE oldest == SubSeq(Reverse(list), 1, n)
<1>1. /\ Reverse(list) \in Seq(S) /\ Len(Reverse(list)) = Len(list)
      /\ \A i \in 1 .. Len(list) : Reverse(list)[i] = list[(Len(list) - i) + 1]
  BY DEF Reverse
<1>2. /\ oldest \in Seq(S) /\ DOMAIN oldest = 1 .. n
      /\ \A i \in 1 .. n : oldest[i] = Reverse(list)[i]
  BY <1>1
<1>3. \A i \in 1 .. n : /\ (Len(list) - i) + 1 \in DOMAIN list
                        /\ oldest[i] = list[(Len(list) - i) + 1]
  BY <1>1, <1>2
<1> HIDE DEF oldest
<1>4. NoRepeats(oldest)
  <2> SUFFICES ASSUME NEW i \in 1 .. n, NEW j \in 1 .. n, oldest[i] = oldest[j] PROVE i = j
    BY <1>2 DEF NoRepeats
  <2>1. (Len(list) - i) + 1 = (Len(list) - j) + 1
    BY <1>3 DEF NoRepeats
  <2> QED
    BY <2>1
<1>5. ToSet(oldest) \subseteq ToSet(list)
  BY <1>2, <1>3 DEF ToSet
<1> QED
  BY <1>2, <1>4, <1>5 DEF oldest

----------------------------------------------------------------------------
(* The two folds.                                                          *)

Lists == {list \in Seq(Accounts) : NoRepeats(list)}

\* Those that name only t more than once.
Slots(t) == {list \in Seq(Accounts) : Repeated(list) \subseteq t}

Kicked(lasts, now, list, a) ==
    IF \/ a \in ToSet(invulnerables)
       \/ /\ Eligible(list) > MinEligibleCollators
          /\ now - lasts[a] >= KickThreshold
    THEN RemoveFirst(list, a) ELSE list

KickFold(lasts, now, at) ==
    at = [s \in SUBSET DOMAIN candidates |->
            IF s = {} THEN candidates
            ELSE Kicked(lasts, now, at[s \ {Max(s)}], candidates[Max(s)])]

LEMMA KickByFold ==
  ASSUME NEW lasts, NEW now
  PROVE  KickStale(lasts, now) = (CHOOSE at : KickFold(lasts, now, at))[DOMAIN candidates]
BY DEF KickStale, FoldLeft, MapThenFoldSet, KickFold, Kicked

LEMMA KickRecurs ==
  ASSUME NEW lasts, NEW now, candidates \in Lists
  PROVE  \E at : KickFold(lasts, now, at) /\ KickStale(lasts, now) = at[DOMAIN candidates]
<1> DEFINE n == Len(candidates)
           step == [i \in 1 .. n |-> [list \in Lists |-> Kicked(lasts, now, list, candidates[i])]]
<1>1. n \in Nat /\ DOMAIN candidates = 1 .. n
  BY DEF Lists
<1>2. step \in [1 .. n -> [Lists -> Lists]]
  <2> SUFFICES ASSUME NEW i \in 1 .. n, NEW list \in Lists
               PROVE  Kicked(lasts, now, list, candidates[i]) \in Lists
    OBVIOUS
  <2>1. RemoveFirst(list, candidates[i]) \in Lists
    BY RemovesOne DEF Lists
  <2> QED
    BY <2>1 DEF Kicked
<1> HIDE DEF n
<1>3. PICK at : FoldsTo(n, Lists, candidates, step, at)
  <2> HIDE DEF step
  <2> QED
    BY <1>1, <1>2, FoldsAreDefined
<1>4. ASSUME NEW s \in SUBSET (1 .. n), s # {}
      PROVE  at[s] = Kicked(lasts, now, at[s \ {Max(s)}], candidates[Max(s)])
  <2>1. Max(s) \in 1 .. n /\ at[s \ {Max(s)}] \in Lists
    BY <1>1, <1>3, <1>4, Greatest DEF FoldsTo
  <2> QED
    BY <1>3, <1>4, <2>1 DEF FoldsTo
<1>5. KickFold(lasts, now, at)
  BY <1>1, <1>3, <1>4 DEF KickFold, FoldsTo
<1> QED
  BY <1>5, KickByFold

\* Who is kicked has become invulnerable or was idle; no invulnerable one stays.
LEMMA KickedHadToGo ==
  ASSUME NEW lasts, NEW now, candidates \in Lists
  PROVE  LET remaining == KickStale(lasts, now)
         IN /\ remaining \in Lists /\ Len(remaining) <= Len(candidates)
            /\ ToSet(remaining) \subseteq ToSet(candidates) \ ToSet(invulnerables)
            /\ \A a \in ToSet(candidates) \ ToSet(remaining) :
                  a \in ToSet(invulnerables) \/ now - lasts[a] >= KickThreshold
<1> DEFINE D == DOMAIN candidates
           Fine(list, s) ==
             /\ list \in Lists /\ Len(list) <= Len(candidates)
             /\ ToSet(list) \subseteq ToSet(candidates)
             /\ \A i \in s : candidates[i] \in ToSet(invulnerables) => candidates[i] \notin ToSet(list)
             /\ \A a \in ToSet(candidates) \ ToSet(list) :
                   a \in ToSet(invulnerables) \/ now - lasts[a] >= KickThreshold
<1>1. D = 1 .. Len(candidates) /\ Len(candidates) \in Nat /\ IsFiniteSet(D)
  BY FS_Interval DEF Lists
<1>2. PICK at : KickFold(lasts, now, at) /\ KickStale(lasts, now) = at[D]
  BY KickRecurs
<1>3. Fine(candidates, {})
  BY <1>1
<1>4. ASSUME NEW list, NEW s \in SUBSET D, Fine(list, s), NEW x \in D
      PROVE  Fine(Kicked(lasts, now, list, candidates[x]), s \cup {x})
  <2> DEFINE a == candidates[x]
  <2>1. a \in ToSet(candidates)
    BY DEF ToSet
  <2>2. CASE Kicked(lasts, now, list, a) = list
    <3>1. a \in ToSet(invulnerables) => a \notin ToSet(list)
      <4> SUFFICES ASSUME a \in ToSet(invulnerables) PROVE a \notin ToSet(list)
        OBVIOUS
      <4>1. Kicked(lasts, now, list, a) = RemoveFirst(list, a)
        BY DEF Kicked
      <4>2. ToSet(RemoveFirst(list, a)) = ToSet(list) \ {a}
        BY <1>4, RemovesOne DEF Lists
      <4> QED
        BY <2>2, <4>1, <4>2
    <3> QED
      BY <1>4, <2>2, <3>1
  <2>3. CASE Kicked(lasts, now, list, a) # list
    <3>1. /\ Kicked(lasts, now, list, a) = RemoveFirst(list, a)
          /\ a \in ToSet(invulnerables) \/ now - lasts[a] >= KickThreshold
      BY <2>3 DEF Kicked
    <3>2. /\ RemoveFirst(list, a) \in Lists /\ Len(RemoveFirst(list, a)) <= Len(list)
          /\ ToSet(RemoveFirst(list, a)) = ToSet(list) \ {a}
      BY <1>4, RemovesOne DEF Lists
    <3>3. Len(RemoveFirst(list, a)) <= Len(candidates)
      BY <1>1, <1>4, <3>2 DEF Lists
    <3> QED
      BY <1>4, <3>1, <3>2, <3>3
  <2> QED
    BY <2>2, <2>3
<1> HIDE DEF Fine
<1>5. Fine(at[D], D)
  <2> DEFINE Bad == {s \in SUBSET D : ~Fine(at[s], s)}
  <2>1. Bad \in SUBSET (SUBSET D)
    OBVIOUS
  <2> SUFFICES ASSUME Bad # {} PROVE FALSE
    OBVIOUS
  <2> HIDE DEF Bad
  <2>2. PICK s \in Bad : \A x \in s : s \ {x} \notin Bad
    BY <1>1, <2>1, SmallestSet
  <2>3. s \in SUBSET D /\ ~Fine(at[s], s)
    BY DEF Bad
  <2>4. s # {}
    <3>1. at[{}] = candidates
      BY <1>2 DEF KickFold
    <3> QED
      BY <1>3, <2>3, <3>1
  <2>5. PICK x \in s : x = Max(s)
    BY <1>1, <2>3, <2>4, Greatest
  <2>6. Fine(at[s \ {x}], s \ {x})
    BY <2>2, <2>3 DEF Bad
  <2>7. at[s] = Kicked(lasts, now, at[s \ {x}], candidates[x])
    BY <1>2, <2>3, <2>4, <2>5 DEF KickFold
  <2>8. Fine(at[s], (s \ {x}) \cup {x})
    BY <1>4, <2>3, <2>6, <2>7
  <2>9. (s \ {x}) \cup {x} = s
    OBVIOUS
  <2> QED
    BY <2>3, <2>8, <2>9
<1>6. at[D] \in Lists /\ ToSet(at[D]) \cap ToSet(invulnerables) = {}
  <2> SUFFICES ASSUME NEW a \in ToSet(at[D]), a \in ToSet(invulnerables) PROVE FALSE
    BY <1>5 DEF Fine
  <2>1. PICK i \in D : a = candidates[i]
    BY <1>5 DEF Fine, ToSet
  <2> QED
    BY <1>5, <2>1 DEF Fine
<1> QED
  BY <1>2, <1>5, <1>6 DEF Fine

KeyedFold(list, at) ==
    at = [s \in SUBSET DOMAIN list |->
            IF s = {} THEN <<>>
            ELSE IF list[Max(s)] \in keys THEN Append(at[s \ {Max(s)}], list[Max(s)])
            ELSE at[s \ {Max(s)}]]

LEMMA KeyedByFold ==
  ASSUME NEW list
  PROVE  Keyed(list) = (CHOOSE at : KeyedFold(list, at))[DOMAIN list]
BY DEF Keyed, FoldLeft, MapThenFoldSet, KeyedFold

LEMMA KeyedRecurs ==
  ASSUME NEW list \in Seq(Accounts)
  PROVE  \E at : KeyedFold(list, at) /\ Keyed(list) = at[DOMAIN list]
<1> DEFINE n == Len(list)
           V == Seq(Accounts)
           step == [i \in 1 .. n |->
                      [t \in V |-> IF list[i] \in keys THEN Append(t, list[i]) ELSE t]]
<1>1. n \in Nat /\ DOMAIN list = 1 .. n /\ <<>> \in V
  OBVIOUS
<1>2. step \in [1 .. n -> [V -> V]]
  OBVIOUS
<1> HIDE DEF n, V
<1>3. PICK at : FoldsTo(n, V, <<>>, step, at)
  <2> HIDE DEF step
  <2> QED
    BY <1>1, <1>2, FoldsAreDefined
<1>4. ASSUME NEW s \in SUBSET (1 .. n), s # {}
      PROVE  at[s] = IF list[Max(s)] \in keys THEN Append(at[s \ {Max(s)}], list[Max(s)])
                     ELSE at[s \ {Max(s)}]
  <2>1. Max(s) \in 1 .. n /\ at[s \ {Max(s)}] \in V
    BY <1>1, <1>3, <1>4, Greatest DEF FoldsTo
  <2> QED
    BY <1>3, <1>4, <2>1 DEF FoldsTo
<1>5. KeyedFold(list, at)
  BY <1>1, <1>3, <1>4 DEF KeyedFold, FoldsTo
<1> QED
  BY <1>5, KeyedByFold

LEMMA KeyedAreOfTheList ==
  ASSUME NEW list \in Seq(Accounts)
  PROVE  /\ Keyed(list) \in Seq(Accounts) /\ Len(Keyed(list)) <= Len(list)
         /\ ToSet(Keyed(list)) \subseteq ToSet(list)
         /\ Repeated(Keyed(list)) \subseteq Repeated(list)
<1> DEFINE D == DOMAIN list
           Fine(t, s) ==
             /\ t \in Seq(Accounts) /\ Len(t) <= Cardinality(s)
             /\ ToSet(t) \subseteq {list[i] : i \in s}
             /\ Repeated(t) \subseteq Repeated(list)
<1>1. /\ D = 1 .. Len(list) /\ Len(list) \in Nat
      /\ IsFiniteSet(D) /\ Cardinality(D) = Len(list)
  <2>1. D = 1 .. Len(list) /\ Len(list) \in Nat
    OBVIOUS
  <2> HIDE DEF D
  <2>2. IsFiniteSet(1 .. Len(list)) /\ Cardinality(1 .. Len(list)) = Len(list)
    BY <2>1, FS_Interval
  <2> QED
    BY <2>1, <2>2
<1>2. PICK at : KeyedFold(list, at) /\ Keyed(list) = at[D]
  BY KeyedRecurs
<1>3. Fine(<<>>, {})
  BY FS_EmptySet DEF Repeated, ToSet
<1>4. ASSUME NEW t, NEW s \in SUBSET D, Fine(t, s), NEW x \in D \ s
      PROVE  Fine(Append(t, list[x]), s \cup {x}) /\ Fine(t, s \cup {x})
  <2>1. /\ t \in Seq(Accounts) /\ list[x] \in Accounts
        /\ DOMAIN t = 1 .. Len(t) /\ Len(t) \in Nat
    BY <1>4
  <2>2. Cardinality(s \cup {x}) = Cardinality(s) + 1 /\ Cardinality(s) \in Nat
    BY <1>1, FS_Subset, FS_AddElement, FS_CardinalityType
  <2> DEFINE u == Append(t, list[x])
  <2>3. /\ u \in Seq(Accounts) /\ Len(u) = Len(t) + 1
        /\ DOMAIN u = 1 .. Len(t) + 1 /\ u[Len(t) + 1] = list[x]
        /\ \A i \in 1 .. Len(t) : u[i] = t[i]
    BY <2>1
  <2> HIDE DEF u
  <2>4. ToSet(u) \subseteq ToSet(t) \cup {list[x]}
    BY <2>1, <2>3 DEF ToSet
  <2>5. ASSUME NEW a \in Repeated(u) PROVE a \in Repeated(list)
    <3>1. PICK i \in DOMAIN u, j \in DOMAIN u : i # j /\ u[i] = a /\ u[j] = a
      BY <2>5 DEF Repeated
    <3>2. CASE i \in DOMAIN t /\ j \in DOMAIN t
      <4>1. a \in Repeated(t)
        BY <2>1, <2>3, <3>1, <3>2 DEF Repeated, ToSet
      <4> QED
        BY <1>4, <4>1
    <3>3. CASE ~(i \in DOMAIN t /\ j \in DOMAIN t)
      <4>1. a = list[x] /\ a \in ToSet(t)
        BY <2>1, <2>3, <3>1, <3>3 DEF ToSet
      <4>2. PICK k \in s : list[k] = a
        BY <1>4, <4>1
      <4>3. k \in DOMAIN list /\ x \in DOMAIN list /\ k # x
        BY <4>2
      <4> QED
        BY <4>1, <4>2, <4>3 DEF Repeated, ToSet
    <3> QED
      BY <3>2, <3>3
  <2>6. Fine(u, s \cup {x})
    <3>1. Len(u) <= Cardinality(s \cup {x})
      BY <1>4, <2>1, <2>2, <2>3
    <3>2. ToSet(u) \subseteq {list[i] : i \in s \cup {x}}
      BY <1>4, <2>4
    <3> QED
      BY <2>3, <2>5, <3>1, <3>2
  <2>7. Fine(t, s \cup {x})
    <3>1. Len(t) <= Cardinality(s \cup {x})
      BY <1>4, <2>1, <2>2
    <3> QED
      BY <1>4, <3>1
  <2> QED
    BY <2>6, <2>7 DEF u
<1> HIDE DEF Fine
<1>5. Fine(at[D], D)
  <2> DEFINE Bad == {s \in SUBSET D : ~Fine(at[s], s)}
  <2>1. Bad \in SUBSET (SUBSET D)
    OBVIOUS
  <2> SUFFICES ASSUME Bad # {} PROVE FALSE
    OBVIOUS
  <2> HIDE DEF Bad
  <2>2. PICK s \in Bad : \A x \in s : s \ {x} \notin Bad
    BY <1>1, <2>1, SmallestSet
  <2>3. s \in SUBSET D /\ ~Fine(at[s], s)
    BY DEF Bad
  <2>4. s # {}
    <3>1. at[{}] = <<>>
      BY <1>2 DEF KeyedFold
    <3> QED
      BY <1>3, <2>3, <3>1
  <2>5. PICK x \in s : x = Max(s)
    BY <1>1, <2>3, <2>4, Greatest
  <2>6. Fine(at[s \ {x}], s \ {x})
    BY <2>2, <2>3 DEF Bad
  <2>7. at[s] = IF list[x] \in keys THEN Append(at[s \ {x}], list[x]) ELSE at[s \ {x}]
    BY <1>2, <2>3, <2>4, <2>5 DEF KeyedFold
  <2>8. Fine(at[s], (s \ {x}) \cup {x})
    <3> DEFINE r == s \ {x}
               t == at[r]
    <3>1. r \in SUBSET D /\ x \in D \ r
      BY <2>3
    <3>2. Fine(t, r)
      BY <2>6
    <3>3. at[s] = IF list[x] \in keys THEN Append(t, list[x]) ELSE t
      BY <2>7
    <3> HIDE DEF t, r, D
    <3>4. Fine(Append(t, list[x]), r \cup {x}) /\ Fine(t, r \cup {x})
      BY <1>4, <3>1, <3>2
    <3>5. Fine(at[s], r \cup {x})
      BY <3>3, <3>4
    <3> QED
      BY <3>5 DEF r
  <2>9. (s \ {x}) \cup {x} = s
    OBVIOUS
  <2> QED
    BY <2>3, <2>8, <2>9
<1> QED
  BY <1>1, <1>2, <1>5 DEF Fine, ToSet

----------------------------------------------------------------------------
(* Authorities.                                                            *)

\* Until a session rotates all three sets are the preset's; from then on the
\* authorities are the session in office, unless it has lost all its keys.
Announced ==
    /\ authorities # <<>>
    /\ validators = <<>> \/ validators = authorities
    /\ ~changed => queued = authorities

LEMMA AnnouncedInitially == Init => Announced
<1> SUFFICES ASSUME Init PROVE Announced
  OBVIOUS
<1>1. \A preset \in DOMAIN Presets : Presets[preset] = <<Alice, Bob>>
  BY DEF Presets
<1>2. PICK collators \in Sorted(<<Alice, Bob>>) :
           /\ validators = collators /\ queued = collators /\ authorities = collators
  BY <1>1 DEF Init
<1>3. <<Alice, Bob>> \in Seq(Accounts) /\ Len(<<Alice, Bob>>) = 2
  BY DEF Accounts
<1>4. collators \in Seq(Accounts) /\ Len(collators) = 2
  BY <1>3, SortedListsAreTheSame
<1>5. collators # <<>>
  BY <1>4
<1> QED
  BY <1>2, <1>5 DEF Announced

LEMMA RotationKeepsAnnounced ==
  ASSUME Announced, NEW lasts, NEW now, RotateSession(lasts, now)
  PROVE  Announced'
<1>1. validators' = queued /\ authorities' = NextAuthorities /\ changed' = TRUE
  BY DEF RotateSession
<1>2. CASE changed /\ queued # <<>>
  BY <1>1, <1>2 DEF NextAuthorities, Announced
<1>3. CASE ~changed
  BY <1>1, <1>3 DEF NextAuthorities, Announced
<1>4. CASE changed /\ queued = <<>>
  BY <1>1, <1>4 DEF NextAuthorities, Announced
<1> QED
  BY <1>2, <1>3, <1>4

LEMMA AnnouncedKept == ASSUME Announced, [Next]_sessionsVars PROVE Announced'
<1>1. CASE UNCHANGED session
  BY <1>1 DEF session, Announced
<1>2. ASSUME NEW i \in DOMAIN authorities, NewBlock(i) PROVE Announced'
  <2>1. CASE UNCHANGED session
    BY <2>1 DEF session, Announced
  <2>2. ASSUME NEW lasts, NEW now, RotateSession(lasts, now) PROVE Announced'
    BY <2>2, RotationKeepsAnnounced
  <2> QED
    BY <1>2, <2>1, <2>2 DEF NewBlock
<1>3. ASSUME Call PROVE UNCHANGED session
  BY <1>3 DEF Call
<1>4. CASE UNCHANGED sessionsVars
  BY <1>1, <1>4 DEF sessionsVars
<1> QED
  BY <1>1, <1>2, <1>3, <1>4
     DEF Next, SetKeys, PurgeKeys, RegisterAsCandidate, LeaveIntent, AddInvulnerable,
         RemoveInvulnerable, SetInvulnerables, SetDesiredCandidates, End

LEMMA AlwaysAnnounced == Spec => []Announced
BY AnnouncedInitially, AnnouncedKept, PTL DEF Spec

\* Somebody may always author the next block.
THEOREM SomebodyAuthors == Spec => []AuthoritiesNeverEmpty
<1>1. Announced => AuthoritiesNeverEmpty
  BY DEF Announced, AuthoritiesNeverEmpty
<1> QED
  BY <1>1, AlwaysAnnounced, PTL

\* A block is credited to the account whose key sealed it, in the last block of a
\* session too: authorship looks the index up before the session rotates.
THEOREM SealersAreCredited == Spec => CreditGoesToSealer
<1>1. ASSUME Announced, [Next]_sessionsVars PROVE [CreditStep]_sessionsVars
  <2>1. ASSUME NEW i \in DOMAIN authorities, NewBlock(i) PROVE CreditStep
    <3>1. credit' = [sealer |-> authorities[i], author |-> AuthorOf(i, block + 1)]
      BY <2>1 DEF NewBlock
    <3>2. CASE validators = <<>>
      BY <3>1, <3>2 DEF AuthorOf, CreditStep
    <3>3. CASE validators # <<>>
      <4>1. validators = authorities
        BY <1>1, <3>3 DEF Announced
      <4>2. AuthorOf(i, block + 1) = authorities[i]
        BY <4>1 DEF AuthorOf
      <4> QED
        BY <3>1, <3>3, <4>2 DEF CreditStep
    <3> QED
      BY <3>2, <3>3
  <2>2. CASE UNCHANGED block
    BY <2>2 DEF CreditStep
  <2>3. Call => UNCHANGED block
    BY DEF Call
  <2> QED
    BY <1>1, <2>1, <2>2, <2>3
       DEF Next, SetKeys, PurgeKeys, RegisterAsCandidate, LeaveIntent, AddInvulnerable,
           RemoveInvulnerable, SetInvulnerables, SetDesiredCandidates, End, sessionsVars
<1> QED
  BY <1>1, AlwaysAnnounced, PTL DEF Spec, CreditGoesToSealer

----------------------------------------------------------------------------
(* Sessions.                                                               *)

\* The last block before this session's.
SessionStart(now) == now - (now % Period)

LEMMA Remainders ==
  ASSUME NEW P \in Nat \ {0}, NEW n \in Nat
  PROVE  \E q \in Nat, r \in 0 .. P - 1 : n = P * q + r /\ n % P = r
<1> DEFINE None == {k \in Nat : ~ \E q \in Nat, r \in 0 .. P - 1 : k = P * q + r}
<1>1. None = {}
  <2>1. None \in SUBSET Nat
    OBVIOUS
  <2> SUFFICES ASSUME None # {} PROVE FALSE
    OBVIOUS
  <2> HIDE DEF None
  <2>2. PICK k \in None : \A j \in None : k <= j
    BY <2>1, LeastNumber
  <2>3. k # 0
    <3>1. 0 = P * 0 + 0 /\ 0 \in 0 .. P - 1
      OBVIOUS
    <3> QED
      BY <3>1 DEF None
  <2>4. k \in Nat /\ k - 1 \in Nat /\ k - 1 \notin None
    <3>1. k \in Nat /\ k - 1 \in Nat /\ ~(k <= k - 1)
      BY <2>1, <2>2, <2>3
    <3> QED
      BY <2>2, <3>1
  <2>5. PICK q \in Nat, r \in 0 .. P - 1 : k - 1 = P * q + r
    BY <2>4 DEF None
  <2>6. P * q \in Nat /\ P * (q + 1) = P * q + P
    OBVIOUS
  <2>7. CASE r = P - 1
    <3>1. k = P * (q + 1) + 0 /\ 0 \in 0 .. P - 1
      BY <2>4, <2>5, <2>6, <2>7
    <3> QED
      BY <2>2, <3>1 DEF None
  <2>8. CASE r # P - 1
    <3>1. k = P * q + (r + 1) /\ r + 1 \in 0 .. P - 1
      BY <2>4, <2>5, <2>6, <2>8
    <3> QED
      BY <2>2, <3>1 DEF None
  <2> QED
    BY <2>7, <2>8
<1>2. PICK q \in Nat, r \in 0 .. P - 1 : n = P * q + r
  BY <1>1
<1>3. (P * q + r) % P = r
  OBVIOUS
<1> QED
  BY <1>2, <1>3

LEMMA NextRemainder ==
  ASSUME NEW P \in Nat \ {0}, NEW n \in Nat
  PROVE  /\ n % P \in 0 .. P - 1
         /\ (n + 1) % P = 0 => n % P = P - 1
         /\ (n + 1) % P # 0 => (n + 1) % P = (n % P) + 1
<1>2. PICK q \in Nat, r \in 0 .. P - 1 : n = P * q + r /\ n % P = r
  BY Remainders
<1>3. P * q \in Nat /\ P * (q + 1) = P * q + P
  OBVIOUS
<1>4. CASE r = P - 1
  <2>1. n + 1 = P * (q + 1) + 0
    BY <1>2, <1>3, <1>4
  <2>2. (P * (q + 1) + 0) % P = 0
    OBVIOUS
  <2> QED
    BY <1>2, <1>4, <2>1, <2>2
<1>5. CASE r # P - 1
  <2>1. n + 1 = P * q + (r + 1) /\ r + 1 \in 0 .. P - 1 /\ r + 1 # 0
    BY <1>2, <1>3, <1>5
  <2>2. \A k \in 0 .. P - 1 : (P * q + k) % P = k
    OBVIOUS
  <2> QED
    BY <1>2, <2>1, <2>2
<1> QED
  BY <1>4, <1>5

LEMMA FiniteAccounts == IsFiniteSet(Accounts) /\ \A S \in SUBSET Accounts : IsFiniteSet(S)
<1>1. IsFiniteSet({Alice, Bob})
  <2>1. IsFiniteSet({Alice} \cup {Bob})
    BY FS_Singleton, FS_AddElement
  <2>2. {Alice} \cup {Bob} = {Alice, Bob}
    OBVIOUS
  <2> QED
    BY <2>1, <2>2
<1>2. IsFiniteSet(Accounts)
  BY <1>1, FiniteAssumption, FS_Union DEF Accounts
<1> QED
  BY <1>2, FS_Subset

\* TypeOK with what its lists need: nobody is in one of them twice, but where a list
\* of invulnerables has named somebody twice.
ListsOK ==
    /\ keys \subseteq Accounts /\ sealers \subseteq Accounts /\ twice \subseteq Accounts
    /\ invulnerables \in Slots(twice) /\ Len(invulnerables) <= MaxInvulnerables
    /\ candidates \in Lists /\ Len(candidates) <= MaxCandidates
    /\ desired \in 0 .. MaxDesired
    /\ queued \in Slots(twice) /\ validators \in Slots(twice) /\ authorities \in Slots(twice)
    /\ changed \in BOOLEAN
    /\ block \in 0 .. MaxBlock
    /\ lastAuthored \in [Accounts -> 0 .. MaxBlock + KickThreshold]
    /\ credit \in [sealer : Accounts \cup {Nobody}, author : Accounts \cup {Nobody}]

\* Unless the session in office has lost its keys, a candidate who has sealed a block
\* of this session is known to have.
Noted ==
    validators # <<>> =>
        \A a \in sealers \cap ToSet(candidates) : lastAuthored[a] > SessionStart(block)

SessionInv == Announced /\ ListsOK /\ Noted

LEMMA ListMembers ==
  /\ \A list \in Seq(Accounts) :
        ToSet(list) \subseteq Accounts /\ \A i \in DOMAIN list : list[i] \in Accounts
  /\ Lists \subseteq Seq(Accounts) /\ \A t : Slots(t) \subseteq Seq(Accounts)
BY DEF Lists, Slots, ToSet

LEMMA SessionInvInitially == Init => SessionInv
<1> SUFFICES ASSUME Init PROVE SessionInv
  OBVIOUS
<1>1. PICK collators \in Sorted(<<Alice, Bob>>) :
           /\ invulnerables = collators /\ keys = ToSet(collators) /\ twice = {}
           /\ validators = collators /\ queued = collators /\ authorities = collators
           /\ candidates = <<>> /\ desired = 0 /\ changed = FALSE
           /\ lastAuthored = [a \in Accounts |-> 0]
           /\ block = 0 /\ credit = [sealer |-> Nobody, author |-> Nobody]
           /\ sealers = {} /\ calls = 0
  <2>1. \A preset \in DOMAIN Presets : Presets[preset] = <<Alice, Bob>>
    BY DEF Presets
  <2> QED
    BY <2>1 DEF Init
<1>3. /\ <<Alice, Bob>> \in Seq(Accounts) /\ Len(<<Alice, Bob>>) = 2
      /\ Repeated(<<Alice, Bob>>) = {}
      /\ <<>> \in Lists /\ Len(<<>>) = 0
  <2>1. NoRepeats(<<Alice, Bob>>) /\ <<Alice, Bob>> \in Seq(Accounts) /\ NoRepeats(<<>>)
    BY AccountsAssumption DEF NoRepeats, Accounts
  <2> QED
    BY <2>1, OnceIsNotTwice DEF Lists
<1>4. /\ collators \in Seq(Accounts) /\ Len(collators) = 2
      /\ ToSet(collators) \subseteq Accounts /\ collators \in Slots({})
  <2>1. collators \in Seq(Accounts) /\ Len(collators) = 2 /\ Repeated(collators) = {}
    BY <1>3, SortedListsAreTheSame
  <2> QED
    BY <2>1, ListMembers DEF Slots
<1>5. /\ MaxBlock \in Nat /\ MaxCandidates \in Nat /\ KickThreshold \in Nat
      /\ MaxDesired \in Nat /\ 2 <= MaxInvulnerables
  BY LimitsAssumption DEF KickThreshold
<1>6. lastAuthored \in [Accounts -> 0 .. MaxBlock + KickThreshold]
  BY <1>1, <1>5
<1>7. ListsOK
  <2>1. /\ twice = {} /\ sealers = {} /\ keys \subseteq Accounts
        /\ invulnerables \in Slots(twice) /\ Len(invulnerables) <= MaxInvulnerables
        /\ validators \in Slots(twice) /\ queued \in Slots(twice)
        /\ authorities \in Slots(twice)
        /\ candidates \in Lists /\ Len(candidates) <= MaxCandidates
    BY <1>1, <1>3, <1>4, <1>5
  <2>2. desired \in 0 .. MaxDesired /\ block \in 0 .. MaxBlock /\ changed \in BOOLEAN
    <3>1. desired = 0 /\ block = 0 /\ changed = FALSE
      BY <1>1
    <3>2. changed \in BOOLEAN
      BY <3>1
    <3> QED
      BY <1>5, <3>1, <3>2
  <2>3. credit \in [sealer : Accounts \cup {Nobody}, author : Accounts \cup {Nobody}]
    BY <1>1
  <2> QED
    BY <1>6, <2>1, <2>2, <2>3 DEF ListsOK
<1>8. Noted
  BY <1>1 DEF Noted
<1> QED
  BY <1>7, <1>8, AnnouncedInitially DEF SessionInv

LEMMA AssembledLists ==
  ASSUME ListsOK, NEW list \in Lists, ToSet(list) \cap ToSet(invulnerables) = {}
  PROVE  Assemble(list) \in Slots(twice)
<1> DEFINE n == Min({desired, Len(list)})
           bidding == SubSeq(Reverse(list), 1, n)
<1>1. invulnerables \in Seq(Accounts) /\ Repeated(invulnerables) \subseteq twice
  BY DEF ListsOK, Slots
<1>2. list \in Seq(Accounts) /\ NoRepeats(list) /\ Len(list) \in Nat /\ desired \in Nat
  BY DEF ListsOK, Lists
<1>3. n \in 0 .. Len(list)
  <2>1. CASE desired <= Len(list)
    <3>1. \A y \in {desired, Len(list)} : desired <= y
      BY <1>2, <2>1
    <3>2. n \in {desired, Len(list)} /\ \A y \in {desired, Len(list)} : n <= y
      BY <3>1 DEF Min
    <3> QED
      BY <1>2, <3>2
  <2>2. CASE ~(desired <= Len(list))
    <3>1. \A y \in {desired, Len(list)} : Len(list) <= y
      BY <1>2, <2>2
    <3>2. n \in {desired, Len(list)} /\ \A y \in {desired, Len(list)} : n <= y
      BY <3>1 DEF Min
    <3> QED
      BY <1>2, <3>2
  <2> QED
    BY <2>1, <2>2
<1> HIDE DEF n
<1>4. bidding \in Seq(Accounts) /\ NoRepeats(bidding) /\ ToSet(bidding) \subseteq ToSet(list)
  BY <1>2, <1>3, OldestDoNotRepeat
<1> HIDE DEF bidding
<1>5. /\ invulnerables \o bidding \in Seq(Accounts)
      /\ Repeated(invulnerables \o bidding) \subseteq Repeated(invulnerables) \cup Repeated(bidding)
  BY <1>1, <1>4, RepeatedInBoth
<1> QED
  BY <1>1, <1>4, <1>5, OnceIsNotTwice DEF Assemble, Slots, bidding, n

\* What the hooks of a block note.
LEMMA NotedByBlock ==
  ASSUME SessionInv, NEW i \in DOMAIN authorities, block < MaxBlock
  PROVE  LET now == block + 1
             lasts == NoteAuthor(AuthorOf(i, now), now)
         IN /\ now \in 0 .. MaxBlock /\ now \in Nat /\ block \in Nat
            /\ lasts \in [Accounts -> 0 .. MaxBlock + KickThreshold]
            /\ \A a \in Accounts : lasts[a] \in Nat /\ lastAuthored[a] \in Nat
            /\ \A a \in Accounts : lasts[a] = lastAuthored[a] \/ lasts[a] = now
            /\ authorities[i] \in Accounts
            /\ AuthorOf(i, now) \in Accounts \cup {Nobody}
            /\ validators # <<>> => lasts[authorities[i]] = now
<1> DEFINE now == block + 1
           author == AuthorOf(i, now)
           lasts == NoteAuthor(author, now)
<1>1. /\ now \in 0 .. MaxBlock /\ now \in Nat /\ block \in Nat
      /\ KickThreshold \in Nat /\ MaxBlock \in Nat
  BY LimitsAssumption DEF SessionInv, ListsOK, KickThreshold
<1>2. authorities[i] \in Accounts /\ author \in Accounts \cup {Nobody}
  <2>1. authorities \in Seq(Accounts) /\ validators \in Seq(Accounts)
    BY ListMembers DEF SessionInv, ListsOK
  <2> QED
    BY <2>1, ListMembers DEF AuthorOf
<1>3. lastAuthored \in [Accounts -> 0 .. MaxBlock + KickThreshold]
  BY DEF SessionInv, ListsOK
<1>4. validators # <<>> => author = authorities[i]
  BY DEF SessionInv, Announced, AuthorOf
<1> HIDE DEF author, now
<1>5. now \in 0 .. MaxBlock + KickThreshold
  BY <1>1
<1>6. /\ lasts \in [Accounts -> 0 .. MaxBlock + KickThreshold]
      /\ \A a \in Accounts : lasts[a] = IF a = author THEN now ELSE lastAuthored[a]
  <2>1. CASE author = Nobody
    BY <1>3, <2>1, AccountsAssumption DEF NoteAuthor
  <2>2. CASE author # Nobody
    <3>1. lasts = [lastAuthored EXCEPT ![author] = now] /\ author \in Accounts
      BY <1>2, <2>2 DEF NoteAuthor
    <3> HIDE DEF lasts
    <3> QED
      BY <1>3, <1>5, <3>1
  <2> QED
    BY <2>1, <2>2
<1> HIDE DEF lasts
<1>7. \A a \in Accounts : lasts[a] \in Nat /\ lastAuthored[a] \in Nat
  BY <1>1, <1>3, <1>6
<1> QED
  BY <1>1, <1>2, <1>4, <1>6, <1>7 DEF now, author, lasts

LEMMA BlockKeepsLists ==
  ASSUME SessionInv, NEW i \in DOMAIN authorities, NewBlock(i)
  PROVE  ListsOK'
<1> DEFINE now == block + 1
           lasts == NoteAuthor(AuthorOf(i, now), now)
           remaining == KickStale(lasts, now)
<1>1. /\ block < MaxBlock /\ block' = now
      /\ credit' = [sealer |-> authorities[i], author |-> AuthorOf(i, now)]
      /\ UNCHANGED <<invulnerables, twice, desired, keys>>
  BY DEF NewBlock
<1>2. /\ now \in 0 .. MaxBlock
      /\ lasts \in [Accounts -> 0 .. MaxBlock + KickThreshold]
      /\ authorities[i] \in Accounts /\ AuthorOf(i, now) \in Accounts \cup {Nobody}
  BY <1>1, NotedByBlock
<1>3. /\ ShouldEndSession(now) => RotateSession(lasts, now)
      /\ ~ShouldEndSession(now) =>
            /\ lastAuthored' = lasts /\ sealers' = sealers \cup {authorities[i]}
            /\ UNCHANGED <<candidates, session>>
  BY DEF NewBlock
<1> HIDE DEF now, lasts
<1>4. block' \in 0 .. MaxBlock
      /\ credit' \in [sealer : Accounts \cup {Nobody}, author : Accounts \cup {Nobody}]
  BY <1>1, <1>2
<1>5. CASE ShouldEndSession(now)
  <2>1. /\ validators' = queued /\ authorities' = NextAuthorities /\ candidates' = remaining
        /\ queued' = Keyed(Assemble(remaining)) /\ changed' = TRUE /\ sealers' = {}
        /\ lastAuthored' = [a \in Accounts |->
              IF a \in ToSet(candidates) \ (ToSet(remaining) \cup ToSet(invulnerables))
              THEN 0 ELSE lasts[a]]
    BY <1>3, <1>5 DEF RotateSession
  <2>2. /\ remaining \in Lists /\ Len(remaining) <= Len(candidates)
        /\ ToSet(remaining) \cap ToSet(invulnerables) = {}
    BY KickedHadToGo DEF SessionInv, ListsOK
  <2> HIDE DEF remaining
  <2>3. Keyed(Assemble(remaining)) \in Slots(twice)
    <3>1. Assemble(remaining) \in Slots(twice)
      BY <2>2, AssembledLists DEF SessionInv
    <3> QED
      BY <3>1, KeyedAreOfTheList DEF Slots
  <2>4. NextAuthorities \in Slots(twice)
    BY DEF NextAuthorities, SessionInv, ListsOK
  <2>5. 0 \in 0 .. MaxBlock + KickThreshold
    BY LimitsAssumption DEF KickThreshold
  <2>6. lastAuthored' \in [Accounts -> 0 .. MaxBlock + KickThreshold]
    BY <1>2, <2>1, <2>5
  <2>7. Len(remaining) <= MaxCandidates
    BY <2>2, LimitsAssumption DEF SessionInv, ListsOK, Lists
  <2> QED
    BY <1>1, <1>4, <2>1, <2>2, <2>3, <2>4, <2>6, <2>7 DEF SessionInv, ListsOK
<1>6. CASE ~ShouldEndSession(now)
  <2>1. /\ lastAuthored' = lasts /\ sealers' = sealers \cup {authorities[i]}
        /\ UNCHANGED <<candidates, validators, queued, changed, authorities>>
    BY <1>3, <1>6 DEF session
  <2> QED
    BY <1>1, <1>2, <1>4, <2>1 DEF SessionInv, ListsOK
<1> QED
  BY <1>5, <1>6

LEMMA SessionTurns ==
  ASSUME NEW b \in Nat
  PROVE  /\ ShouldEndSession(b + 1) => SessionStart(b) = (b + 1) - Period
         /\ ~ShouldEndSession(b + 1) => SessionStart(b + 1) = SessionStart(b)
         /\ SessionStart(b) \in Int /\ SessionStart(b) <= b
<1>1. /\ b % Period \in 0 .. Period - 1 /\ Period \in Nat \ {0}
      /\ (b + 1) % Period = 0 => b % Period = Period - 1
      /\ (b + 1) % Period # 0 => (b + 1) % Period = (b % Period) + 1
  BY NextRemainder, LimitsAssumption
<1>2. ShouldEndSession(b + 1) <=> (b + 1) % Period = 0
  <2>1. (b + 1) - Offset = b + 1
    BY DEF Offset
  <2> QED
    BY <2>1 DEF ShouldEndSession
<1>3. PICK r, t : r = b % Period /\ t = (b + 1) % Period
  OBVIOUS
<1>4. SessionStart(b) = b - r /\ SessionStart(b + 1) = (b + 1) - t
  BY <1>3 DEF SessionStart
<1>5. /\ r \in 0 .. Period - 1 /\ t = 0 => r = Period - 1
      /\ t # 0 => t = r + 1
  BY <1>1, <1>3
<1> QED
  BY <1>1, <1>2, <1>3, <1>4, <1>5

LEMMA BlockKeepsNoted ==
  ASSUME SessionInv, NEW i \in DOMAIN authorities, NewBlock(i)
  PROVE  Noted'
<1> DEFINE now == block + 1
           lasts == NoteAuthor(AuthorOf(i, now), now)
<1>1. /\ block < MaxBlock /\ block' = now
  BY DEF NewBlock
<1>2. /\ now \in Nat /\ block \in Nat
      /\ \A a \in Accounts : lasts[a] \in Nat /\ lastAuthored[a] \in Nat
      /\ \A a \in Accounts : lasts[a] = lastAuthored[a] \/ lasts[a] = now
      /\ authorities[i] \in Accounts
      /\ validators # <<>> => lasts[authorities[i]] = now
  BY <1>1, NotedByBlock
<1>3. CASE ShouldEndSession(now)
  BY <1>3 DEF NewBlock, RotateSession, Noted
<1>4. CASE ~ShouldEndSession(now)
  <2>1. /\ lastAuthored' = lasts /\ sealers' = sealers \cup {authorities[i]}
        /\ candidates' = candidates /\ validators' = validators
    BY <1>4 DEF NewBlock, session
  <2>2. /\ SessionStart(now) = SessionStart(block)
        /\ SessionStart(block) \in Int /\ SessionStart(block) <= block
    BY <1>2, <1>4, SessionTurns
  <2> SUFFICES ASSUME validators # <<>>,
                      NEW a \in sealers \cup {authorities[i]}, a \in ToSet(candidates)
               PROVE  lasts[a] > SessionStart(now)
    BY <1>1, <2>1 DEF Noted, SessionStart
  <2>3. a \in Accounts
    BY <1>2 DEF SessionInv, ListsOK
  <2>4. CASE a \in sealers
    <3>1. lastAuthored[a] > SessionStart(block)
      BY <2>4 DEF SessionInv, Noted
    <3> HIDE DEF lasts
    <3> QED
      BY <1>2, <2>2, <2>3, <3>1
  <2>5. CASE a = authorities[i]
    <3>1. lasts[a] = now
      BY <1>2, <2>5
    <3> HIDE DEF lasts
    <3> QED
      BY <1>2, <2>2, <3>1
  <2> QED
    BY <2>4, <2>5
<1> QED
  BY <1>3, <1>4

----------------------------------------------------------------------------
(* Calls.                                                                  *)

LEMMA RegistrationKeeps ==
  ASSUME SessionInv, NEW a \in Accounts, RegisterAsCandidate(a)
  PROVE  ListsOK' /\ Noted'
<1>1. /\ a \notin ToSet(candidates) /\ Len(candidates) < MaxCandidates
      /\ candidates' = <<a>> \o candidates
      /\ lastAuthored' = [lastAuthored EXCEPT ![a] = block + KickThreshold]
      /\ UNCHANGED <<invulnerables, twice, desired, keys>>
      /\ UNCHANGED <<validators, queued, changed, authorities, block, credit, sealers>>
  BY DEF RegisterAsCandidate, Call, session
<1>2. /\ block \in Nat /\ KickThreshold \in Nat \ {0} /\ MaxBlock \in Nat /\ MaxCandidates \in Nat
      /\ block + KickThreshold \in 0 .. MaxBlock + KickThreshold
      /\ candidates \in Seq(Accounts) /\ NoRepeats(candidates)
  BY LimitsAssumption DEF SessionInv, ListsOK, KickThreshold, Lists
<1>3. candidates' \in Lists /\ ToSet(candidates') = ToSet(candidates) \cup {a}
      /\ Len(candidates') <= MaxCandidates
  <2>1. <<a>> \in Seq(Accounts) /\ NoRepeats(<<a>>) /\ ToSet(<<a>>) = {a} /\ Len(<<a>>) = 1
    BY DEF NoRepeats, ToSet
  <2>2. <<a>> \o candidates \in Seq(Accounts) /\ NoRepeats(<<a>> \o candidates)
    BY <1>1, <1>2, <2>1, NoRepeatsInBoth
  <2>3. /\ Len(<<a>> \o candidates) = 1 + Len(candidates)
        /\ (<<a>> \o candidates)[1] = a
        /\ \A i \in 1 .. Len(candidates) : (<<a>> \o candidates)[1 + i] = candidates[i]
        /\ Len(candidates) \in Nat
    BY <1>2
  <2>4. ToSet(<<a>> \o candidates) = ToSet(candidates) \cup {a}
    <3>1. ASSUME NEW i \in 1 .. 1 + Len(candidates)
          PROVE  (<<a>> \o candidates)[i] \in ToSet(candidates) \cup {a}
      <4>1. i = 1 \/ (i - 1 \in 1 .. Len(candidates) /\ i = 1 + (i - 1))
        BY <2>3
      <4>2. \A k \in 1 .. Len(candidates) : candidates[k] \in ToSet(candidates)
        BY <1>2 DEF ToSet
      <4> QED
        BY <2>3, <4>1, <4>2
    <3>2. ASSUME NEW i \in 1 .. Len(candidates)
          PROVE  1 + i \in 1 .. 1 + Len(candidates)
      BY <2>3
    <3>3. DOMAIN (<<a>> \o candidates) = 1 .. 1 + Len(candidates)
      BY <2>2, <2>3
    <3>4. a \in ToSet(<<a>> \o candidates)
      <4>1. 1 \in 1 .. 1 + Len(candidates)
        BY <2>3
      <4> QED
        BY <2>3, <3>3, <4>1 DEF ToSet
    <3>5. ToSet(candidates) \subseteq ToSet(<<a>> \o candidates)
      <4>1. DOMAIN candidates = 1 .. Len(candidates)
        BY <1>2
      <4> QED
        BY <2>3, <3>2, <3>3, <4>1 DEF ToSet
    <3>6. ToSet(<<a>> \o candidates) \subseteq ToSet(candidates) \cup {a}
      BY <3>1, <3>3 DEF ToSet
    <3> QED
      BY <3>4, <3>5, <3>6
  <2> QED
    BY <1>1, <1>2, <2>2, <2>3, <2>4 DEF Lists
<1>4. lastAuthored' \in [Accounts -> 0 .. MaxBlock + KickThreshold]
  BY <1>1, <1>2 DEF SessionInv, ListsOK
<1>5. ListsOK'
  BY <1>1, <1>3, <1>4 DEF SessionInv, ListsOK
<1>6. Noted'
  <2> SUFFICES ASSUME validators # <<>>, NEW b \in sealers, b \in ToSet(candidates) \cup {a}
               PROVE  lastAuthored'[b] > SessionStart(block)
    BY <1>1, <1>3 DEF Noted, SessionStart
  <2>1. b \in Accounts
    BY DEF SessionInv, ListsOK
  <2>2. CASE b = a
    <3>1. lastAuthored'[b] = block + KickThreshold
      BY <1>1, <2>1, <2>2 DEF SessionInv, ListsOK
    <3>2. SessionStart(block) \in Int /\ SessionStart(block) <= block
      BY <1>2, SessionTurns
    <3> QED
      BY <1>2, <3>1, <3>2
  <2>3. CASE b # a
    <3>1. lastAuthored'[b] = lastAuthored[b]
      BY <1>1, <2>1, <2>3 DEF SessionInv, ListsOK
    <3> QED
      BY <2>3, <3>1 DEF SessionInv, Noted
  <2> QED
    BY <2>2, <2>3
<1> QED
  BY <1>5, <1>6

LEMMA LeavingKeeps ==
  ASSUME SessionInv, NEW a \in Accounts, LeaveIntent(a)
  PROVE  ListsOK' /\ Noted'
<1>1. /\ candidates' = RemoveFirst(candidates, a)
      /\ lastAuthored' = [lastAuthored EXCEPT ![a] = 0]
      /\ UNCHANGED <<invulnerables, twice, desired, keys>>
      /\ UNCHANGED <<validators, queued, changed, authorities, block, credit, sealers>>
  BY DEF LeaveIntent, Call, session
<1>2. /\ RemoveFirst(candidates, a) \in Lists
      /\ ToSet(RemoveFirst(candidates, a)) = ToSet(candidates) \ {a}
      /\ Len(RemoveFirst(candidates, a)) <= Len(candidates)
  BY RemovesOne DEF SessionInv, ListsOK, Lists
<1>3. Len(RemoveFirst(candidates, a)) <= MaxCandidates
  BY <1>2, LimitsAssumption DEF SessionInv, ListsOK, Lists
<1>4. lastAuthored' \in [Accounts -> 0 .. MaxBlock + KickThreshold]
  <2>1. 0 \in 0 .. MaxBlock + KickThreshold
    BY LimitsAssumption DEF KickThreshold
  <2> QED
    BY <1>1, <2>1 DEF SessionInv, ListsOK
<1>5. ListsOK'
  BY <1>1, <1>2, <1>3, <1>4 DEF SessionInv, ListsOK
<1>6. Noted'
  <2> SUFFICES ASSUME validators # <<>>, NEW b \in sealers, b \in ToSet(candidates) \ {a}
               PROVE  lastAuthored'[b] > SessionStart(block)
    BY <1>1, <1>2 DEF Noted, SessionStart
  <2>1. lastAuthored'[b] = lastAuthored[b]
    BY <1>1 DEF SessionInv, ListsOK
  <2> QED
    BY <2>1 DEF SessionInv, Noted
<1> QED
  BY <1>5, <1>6

LEMMA AppointmentKeeps ==
  ASSUME SessionInv, NEW a \in Accounts, AddInvulnerable(a)
  PROVE  ListsOK' /\ Noted'
<1>1. /\ a \notin ToSet(invulnerables) /\ Len(invulnerables) < MaxInvulnerables
      /\ invulnerables' \in Sorted(Append(invulnerables, a))
      /\ candidates' = RemoveFirst(candidates, a)
      /\ UNCHANGED <<twice, desired, lastAuthored, keys>>
      /\ UNCHANGED <<validators, queued, changed, authorities, block, credit, sealers>>
  BY DEF AddInvulnerable, Call, session
<1>2. /\ RemoveFirst(candidates, a) \in Lists
      /\ ToSet(RemoveFirst(candidates, a)) = ToSet(candidates) \ {a}
      /\ Len(RemoveFirst(candidates, a)) <= Len(candidates)
  BY RemovesOne DEF SessionInv, ListsOK, Lists
<1>3. Len(RemoveFirst(candidates, a)) <= MaxCandidates
  BY <1>2, LimitsAssumption DEF SessionInv, ListsOK, Lists
<1>4. invulnerables' \in Slots(twice) /\ Len(invulnerables') <= MaxInvulnerables
  <2>1. invulnerables \in Seq(Accounts) /\ Repeated(invulnerables) \subseteq twice
    BY DEF SessionInv, ListsOK, Slots
  <2>2. /\ <<a>> \in Seq(Accounts) /\ ToSet(<<a>>) = {a} /\ Repeated(<<a>>) = {}
        /\ Append(invulnerables, a) = invulnerables \o <<a>>
        /\ Len(Append(invulnerables, a)) = Len(invulnerables) + 1
    BY <2>1 DEF Repeated, ToSet
  <2>3. /\ Append(invulnerables, a) \in Seq(Accounts)
        /\ Repeated(Append(invulnerables, a)) \subseteq twice
    <3>1. ToSet(invulnerables) \cap ToSet(<<a>>) = {}
      BY <1>1, <2>2
    <3>2. Repeated(invulnerables \o <<a>>) \subseteq Repeated(invulnerables) \cup Repeated(<<a>>)
      BY <2>1, <2>2, <3>1, RepeatedInBoth
    <3>3. Append(invulnerables, a) \in Seq(Accounts)
      BY <2>1
    <3> QED
      BY <2>1, <2>2, <3>2, <3>3
  <2>4. /\ invulnerables' \in Seq(Accounts) /\ Repeated(invulnerables') \subseteq twice
        /\ Len(invulnerables') = Len(invulnerables) + 1
    BY <1>1, <2>2, <2>3, SortedListsAreTheSame
  <2>5. Len(invulnerables) + 1 <= MaxInvulnerables
    BY <1>1, <2>1, LimitsAssumption
  <2> QED
    BY <2>4, <2>5 DEF Slots
<1>5. ListsOK'
  BY <1>1, <1>2, <1>3, <1>4 DEF SessionInv, ListsOK
<1>6. Noted'
  BY <1>1, <1>2 DEF SessionInv, Noted, SessionStart
<1> QED
  BY <1>5, <1>6

\* Other invulnerables: a list may name an account twice, and is then remembered.
LEMMA ReplacementKeeps ==
  ASSUME SessionInv, invulnerables' \in Slots(twice'), Len(invulnerables') <= MaxInvulnerables,
         twice \subseteq twice', twice' \subseteq Accounts,
         UNCHANGED <<candidates, desired, lastAuthored, keys>>,
         UNCHANGED <<session, block, credit, sealers>>
  PROVE  ListsOK' /\ Noted'
<1>1. Slots(twice) \subseteq Slots(twice')
  BY DEF Slots
<1> QED
  BY <1>1 DEF SessionInv, ListsOK, Noted, SessionStart, session

\* The remaining calls, and the end of the followed chain.
LEMMA OtherCallsKeep ==
  ASSUME SessionInv,
         keys' \subseteq Accounts, desired' \in 0 .. MaxDesired,
         UNCHANGED <<invulnerables, twice, candidates, lastAuthored>>,
         UNCHANGED <<session, block, credit, sealers>>
  PROVE  ListsOK' /\ Noted'
BY DEF SessionInv, ListsOK, Noted, SessionStart, session

LEMMA SessionInvKept ==
  ASSUME SessionInv, [Next]_sessionsVars
  PROVE  SessionInv'
<1>1. Announced'
  BY AnnouncedKept DEF SessionInv
<1>2. Call => UNCHANGED <<session, block, credit, sealers>>
  BY DEF Call
<1>3. ASSUME NEW i \in DOMAIN authorities, NewBlock(i) PROVE ListsOK' /\ Noted'
  BY <1>3, BlockKeepsLists, BlockKeepsNoted
<1>4. ASSUME NEW a \in Accounts, SetKeys(a) \/ PurgeKeys(a) PROVE ListsOK' /\ Noted'
  <2>1. /\ keys' \subseteq Accounts
        /\ UNCHANGED <<invulnerables, twice, candidates, desired, lastAuthored>> /\ Call
    BY <1>4 DEF SetKeys, PurgeKeys, SessionInv, ListsOK, selection
  <2>2. desired' \in 0 .. MaxDesired
    BY <2>1 DEF SessionInv, ListsOK
  <2> QED
    BY <1>2, <2>1, <2>2, OtherCallsKeep
<1>5. ASSUME NEW a \in Accounts, RegisterAsCandidate(a) PROVE ListsOK' /\ Noted'
  BY <1>5, RegistrationKeeps
<1>6. ASSUME NEW a \in Accounts, LeaveIntent(a) PROVE ListsOK' /\ Noted'
  BY <1>6, LeavingKeeps
<1>7. ASSUME NEW a \in Accounts, AddInvulnerable(a) PROVE ListsOK' /\ Noted'
  BY <1>7, AppointmentKeeps
<1>8. ASSUME NEW a \in Accounts, RemoveInvulnerable(a) PROVE ListsOK' /\ Noted'
  <2>1. /\ invulnerables' = RemoveFirst(invulnerables, a)
        /\ UNCHANGED <<twice, candidates, desired, lastAuthored, keys>> /\ Call
    BY <1>8 DEF RemoveInvulnerable
  <2>2. /\ invulnerables \in Seq(Accounts) /\ Repeated(invulnerables) \subseteq twice
        /\ Len(invulnerables) <= MaxInvulnerables /\ twice \subseteq Accounts
    BY DEF SessionInv, ListsOK, Slots
  <2>3. /\ invulnerables' \in Seq(Accounts) /\ Repeated(invulnerables') \subseteq twice
        /\ Len(invulnerables') <= Len(invulnerables)
    BY <2>1, <2>2, RemovalRepeatsNoMore
  <2>4. Len(invulnerables') <= MaxInvulnerables
    BY <2>2, <2>3, LimitsAssumption
  <2> QED
    BY <1>2, <2>1, <2>2, <2>3, <2>4, ReplacementKeeps DEF Slots
<1>9. ASSUME NEW list \in BoundedSeq(Accounts, MaxInvulnerables), SetInvulnerables(list)
      PROVE  ListsOK' /\ Noted'
  <2>1. /\ invulnerables' \in Sorted(Keyed(list)) /\ Len(list) <= MaxInvulnerables
        /\ twice' = twice \cup Repeated(Keyed(list))
        /\ UNCHANGED <<candidates, desired, lastAuthored, keys>> /\ Call
    BY <1>9 DEF SetInvulnerables
  <2>2. list \in Seq(Accounts)
    BY DEF BoundedSeq, SeqOf
  <2>3. /\ Keyed(list) \in Seq(Accounts) /\ Len(Keyed(list)) <= Len(list)
        /\ Repeated(Keyed(list)) \subseteq Accounts
    BY <2>2, KeyedAreOfTheList, ListMembers DEF Repeated
  <2>4. /\ invulnerables' \in Seq(Accounts) /\ Len(invulnerables') = Len(Keyed(list))
        /\ Repeated(invulnerables') \subseteq Repeated(Keyed(list))
    BY <2>1, <2>3, SortedListsAreTheSame
  <2>5. Len(invulnerables') <= MaxInvulnerables
    BY <2>1, <2>2, <2>3, <2>4, LimitsAssumption
  <2>6. twice' \subseteq Accounts
    BY <2>1, <2>3 DEF SessionInv, ListsOK
  <2> QED
    BY <1>2, <2>1, <2>4, <2>5, <2>6, ReplacementKeeps DEF Slots
<1>10. ASSUME NEW n \in 0 .. MaxDesired, SetDesiredCandidates(n) PROVE ListsOK' /\ Noted'
  <2>1. /\ desired' \in 0 .. MaxDesired /\ Call
        /\ UNCHANGED <<invulnerables, twice, candidates, lastAuthored, keys>>
    BY <1>10 DEF SetDesiredCandidates
  <2>2. keys' \subseteq Accounts
    BY <2>1 DEF SessionInv, ListsOK
  <2> QED
    BY <1>2, <2>1, <2>2, OtherCallsKeep
<1>11. ASSUME UNCHANGED sessionsVars PROVE ListsOK' /\ Noted'
  <2>1. /\ UNCHANGED <<invulnerables, twice, candidates, lastAuthored>>
        /\ UNCHANGED <<keys, desired>> /\ UNCHANGED <<session, block, credit, sealers>>
    BY <1>11 DEF sessionsVars, selection
  <2>2. keys' \subseteq Accounts /\ desired' \in 0 .. MaxDesired
    BY <2>1 DEF SessionInv, ListsOK
  <2> QED
    BY <2>1, <2>2, OtherCallsKeep
<1>12. ListsOK' /\ Noted'
  BY <1>3, <1>4, <1>5, <1>6, <1>7, <1>8, <1>9, <1>10, <1>11 DEF Next, End
<1> QED
  BY <1>1, <1>12 DEF SessionInv

LEMMA SessionsInvariant == Spec => []SessionInv
BY SessionInvInitially, SessionInvKept, PTL DEF Spec

----------------------------------------------------------------------------
(* What a reader should know of them.                                      *)

\* The type invariant, with both limits of the collators: neither a call nor the end
\* of a session takes the invulnerables or the candidates above theirs, and no call
\* lists a candidate twice.
THEOREM TypeCorrect == Spec => []TypeOK
<1>1. SessionInv => TypeOK
  <2> SUFFICES ASSUME SessionInv PROVE TypeOK
    OBVIOUS
  <2>1. /\ ToSet(invulnerables) \subseteq Accounts
        /\ ToSet(candidates) \subseteq Accounts /\ ToSet(queued) \subseteq Accounts
        /\ ToSet(validators) \subseteq Accounts /\ ToSet(authorities) \subseteq Accounts
    BY ListMembers DEF SessionInv, ListsOK
  <2>2. IsInjective(candidates)
    BY DEF SessionInv, ListsOK, Lists, NoRepeats, IsInjective
  <2> QED
    BY <2>1, <2>2 DEF SessionInv, ListsOK, TypeOK
<1> QED
  BY <1>1, SessionsInvariant, PTL

\* In this session, the next and the one announced, nobody holds two slots of a round
\* but an account that a list of invulnerables has named twice: of what the pallet does
\* itself, no invulnerable stays a candidate, and candidates are listed once.
THEOREM SlotsAreDistinct == Spec => []NoAuthorityTwice
<1>1. SessionInv => NoAuthorityTwice
  BY DEF SessionInv, ListsOK, Slots, NoAuthorityTwice
<1> QED
  BY <1>1, SessionsInvariant, PTL

\* A candidate that is kicked at the end of a session sealed none of its blocks: those
\* it sealed are noted, the last one too, and a session is no longer than the time
\* after which an idle candidate goes.
THEOREM OnlyIdleAreKicked == Spec => KickedWereIdle
<1>1. ASSUME SessionInv, [Next]_sessionsVars PROVE [KickedWereIdleStep]_sessionsVars
  <2>1. ASSUME NEW i \in DOMAIN authorities, NewBlock(i) PROVE KickedWereIdleStep
    <3> DEFINE now == block + 1
               lasts == NoteAuthor(AuthorOf(i, now), now)
    <3>1. /\ block < MaxBlock /\ credit'.sealer = authorities[i]
      BY <2>1 DEF NewBlock
    <3>2. /\ now \in Nat /\ block \in Nat
          /\ \A a \in Accounts : lasts[a] \in Nat /\ lastAuthored[a] \in Nat
          /\ \A a \in Accounts : lasts[a] = lastAuthored[a] \/ lasts[a] = now
          /\ validators # <<>> => lasts[authorities[i]] = now
      BY <1>1, <3>1, NotedByBlock
    <3>3. CASE ~ShouldEndSession(now)
      BY <2>1, <3>3 DEF NewBlock, KickedWereIdleStep
    <3>4. CASE ShouldEndSession(now)
      <4>1. candidates' = KickStale(lasts, now)
        BY <2>1, <3>4 DEF NewBlock, RotateSession
      <4> SUFFICES ASSUME validators # <<>>,
                          NEW a \in ToSet(candidates) \ ToSet(candidates'),
                          a \notin ToSet(invulnerables), a \in sealers \cup {authorities[i]}
                   PROVE  FALSE
        BY <3>1 DEF KickedWereIdleStep
      <4>2. now - lasts[a] >= KickThreshold
        BY <1>1, <4>1, KickedHadToGo DEF SessionInv, ListsOK
      <4>3. a \in Accounts
        BY <1>1, ListMembers DEF SessionInv, ListsOK
      <4>4. KickThreshold = Period /\ Period \in Nat \ {0}
        BY LimitsAssumption DEF KickThreshold
      <4>5. CASE a = authorities[i]
        <5>1. lasts[a] = now
          BY <3>2, <4>5
        <5> HIDE DEF lasts
        <5> QED
          BY <3>2, <4>2, <4>4, <5>1
      <4>6. CASE a \in sealers
        <5>1. lastAuthored[a] > SessionStart(block)
          BY <1>1, <4>6 DEF SessionInv, Noted
        <5>2. SessionStart(block) = now - Period
          BY <3>2, <3>4, SessionTurns
        <5> HIDE DEF lasts
        <5> QED
          BY <3>2, <4>2, <4>3, <4>4, <5>1, <5>2
      <4> QED
        BY <4>5, <4>6
    <3> QED
      BY <3>3, <3>4
  <2>2. CASE UNCHANGED block
    BY <2>2 DEF KickedWereIdleStep
  <2>3. Call => UNCHANGED block
    BY DEF Call
  <2> QED
    BY <1>1, <2>1, <2>2, <2>3
       DEF Next, SetKeys, PurgeKeys, RegisterAsCandidate, LeaveIntent, AddInvulnerable,
           RemoveInvulnerable, SetInvulnerables, SetDesiredCandidates, End, sessionsVars
<1> QED
  BY <1>1, SessionsInvariant, PTL DEF Spec, KickedWereIdle
===============================================================================
