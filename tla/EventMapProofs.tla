---------------------------- MODULE EventMapProofs --------------------------
(***************************************************************************)
(* For any number of sets, slots and calls, and any mapping of the events, *)
(* while what is removed is the last event and no removal fails: a counter *)
(* in use has its owners, every event of the list finds its natives in the *)
(* slots it was given, a set that runs reads each event from its own       *)
(* counters, and every call does what EventSet says.                       *)
(***************************************************************************)
EXTENDS EventMapCalls, SequenceTheorems, FiniteSetTheorems, FunctionTheorems,
        WellFoundedInduction, TLAPS

-----------------------------------------------------------------------------
(***************************************************************************)
(* Loops.  The code's loops over native events and over slots are folds;   *)
(* each is the sequence of the states it goes through.                     *)
(***************************************************************************)

LEMMA LeastNatural ==
  ASSUME NEW T, T \subseteq Nat, T # {}
  PROVE  \E x \in T : \A y \in T : x <= y
<1> DEFINE R == {ss \in Nat \X Nat : ss[1] < ss[2]}
<1>1. IsWellFoundedOn(R, Nat)
  BY NatLessThanWellFounded DEF OpToRel
<1>2. PICK x \in T : \A y \in T : <<y, x>> \notin R
  <2> HIDE DEF R
  <2> QED
    BY <1>1, WFMin
<1>3. \A y \in T : ~(y < x)
  BY <1>2
<1> QED
  BY <1>3

(* Induction, with the property as the set of the numbers that have it. *)
LEMMA Inductive ==
  ASSUME NEW n \in Nat, NEW P, 0 \in P,
         \A k \in 0 .. n - 1 : k \in P => k + 1 \in P
  PROVE  \A k \in 0 .. n : k \in P
<1> SUFFICES ASSUME \E k \in 0 .. n : k \notin P
             PROVE  FALSE
  OBVIOUS
<1> DEFINE T == {k \in 0 .. n : k \notin P}
<1>1. T \subseteq Nat /\ T # {}
  OBVIOUS
<1>2. PICK x \in T : \A y \in T : x <= y
  <2> HIDE DEF T
  <2> QED
    BY <1>1, LeastNatural
<1>3. x \in 1 .. n
  BY <1>2
<1>4. x - 1 \in 0 .. n - 1 /\ x - 1 \notin T /\ (x - 1) + 1 = x
  BY <1>2, <1>3
<1>5. x - 1 \in P
  BY <1>4
<1> QED
  BY <1>2, <1>4, <1>5

(* The turns of the four loops. *)
Turn(loop, x, y) ==
  CASE loop = "add"     -> AddNative(x, y)
    [] loop = "clean"   -> FailClean(x, y)
    [] loop = "release" -> Release(x, y)
    [] loop = "compact" -> Compact(x, y)

(* g holds what folding the elements of s with indices in T gives. *)
IsFold(g, loop, a, s, n) ==
  g = [T \in SUBSET (1 .. n) |->
         IF T = {} THEN a ELSE Turn(loop, g[T \ {Max(T)}], s[Max(T)])]

LEMMA MaxLast ==
  ASSUME NEW n \in Nat, NEW T \in SUBSET (1 .. n + 1), n + 1 \in T
  PROVE  Max(T) = n + 1 /\ T # {}
<1>1. \A x \in T : x \in Nat /\ x <= n + 1
  OBVIOUS
<1> DEFINE C(m) == m \in T /\ \A y \in T : m >= y
<1>2. C(n + 1)
  BY <1>1
<1>4. ASSUME NEW m, C(m) PROVE m = n + 1
  <2>1. m \in T /\ m >= n + 1 /\ m \in Nat /\ m <= n + 1
    BY <1>1, <1>4
  <2> QED
    BY <2>1
<1>3. Max(T) = CHOOSE m : C(m)
  BY Zenon DEF Max
<1>5. C(Max(T))
  <2> HIDE DEF C
  <2> QED
    BY <1>2, <1>3
<1> QED
  BY <1>4, <1>5

LEMMA FoldStep ==
  ASSUME NEW loop, NEW a, NEW s, NEW n \in Nat, NEW g, IsFold(g, loop, a, s, n)
  PROVE  \E h : IsFold(h, loop, a, s, n + 1)
<1> DEFINE h == [T \in SUBSET (1 .. n + 1) |->
                   IF n + 1 \in T THEN Turn(loop, g[T \ {n + 1}], s[n + 1])
                   ELSE g[T]]
<1>1. ASSUME NEW T \in SUBSET (1 .. n + 1)
      PROVE  h[T] = IF T = {} THEN a ELSE Turn(loop, h[T \ {Max(T)}], s[Max(T)])
  <2>1. CASE n + 1 \in T
    <3>1. Max(T) = n + 1 /\ T # {}
      BY <2>1, MaxLast
    <3>2. T \ {n + 1} \in SUBSET (1 .. n + 1) /\ n + 1 \notin T \ {n + 1}
      OBVIOUS
    <3>3. h[T] = Turn(loop, g[T \ {n + 1}], s[n + 1]) /\ h[T \ {n + 1}] = g[T \ {n + 1}]
      BY <2>1, <3>2
    <3> HIDE DEF h
    <3> QED
      BY <3>1, <3>3
  <2>2. CASE n + 1 \notin T
    <3>1. T \in SUBSET (1 .. n)
      BY <2>2
    <3>2. T \ {Max(T)} \in SUBSET (1 .. n + 1) /\ n + 1 \notin T \ {Max(T)}
      BY <2>2
    <3>3. h[T] = g[T] /\ h[T \ {Max(T)}] = g[T \ {Max(T)}]
      BY <2>2, <3>2
    <3>4. g[T] = IF T = {} THEN a ELSE Turn(loop, g[T \ {Max(T)}], s[Max(T)])
      BY <3>1 DEF IsFold
    <3> HIDE DEF h
    <3> QED
      BY <3>3, <3>4
  <2> QED
    BY <2>1, <2>2
<1>2. IsFold(h, loop, a, s, n + 1)
  BY <1>1 DEF IsFold
<1> QED
  BY <1>2

LEMMA FoldExists ==
  ASSUME NEW loop, NEW a, NEW s, NEW n \in Nat
  PROVE  \E g : IsFold(g, loop, a, s, n)
<1> DEFINE P == {k \in Nat : \E g : IsFold(g, loop, a, s, k)}
<1>1. 0 \in P
  <2> DEFINE g == [T \in SUBSET (1 .. 0) |-> a]
  <2>1. \A T \in SUBSET (1 .. 0) : T = {}
    OBVIOUS
  <2>2. IsFold(g, loop, a, s, 0)
    BY <2>1 DEF IsFold
  <2> QED
    BY <2>2
<1>2. ASSUME NEW k \in 0 .. n - 1, k \in P
      PROVE  k + 1 \in P
  BY <1>2, FoldStep
<1>3. n \in P
  <2> HIDE DEF P
  <2> QED
    BY <1>1, <1>2, Inductive
<1> QED
  BY <1>3

(* r lists the states of the loop: r[k] is the one after k turns. *)
Goes(r, loop, a, s, n) ==
  /\ r[0] = a
  /\ \A k \in 0 .. n - 1 : r[k + 1] = Turn(loop, r[k], s[k + 1])

LEMMA FoldGoes ==
  ASSUME NEW loop, NEW a, NEW s, NEW n \in Nat, NEW g, IsFold(g, loop, a, s, n)
  PROVE  \E r : Goes(r, loop, a, s, n) /\ r[n] = g[1 .. n]
<1> DEFINE r == [k \in 0 .. n |-> g[1 .. k]]
<1>1. r[0] = a
  <2>1. 1 .. 0 = {} /\ {} \in SUBSET (1 .. n)
    OBVIOUS
  <2>2. g[{}] = a
    BY <2>1 DEF IsFold
  <2> QED
    BY <2>1, <2>2
<1>2. ASSUME NEW k \in 0 .. n - 1
      PROVE  r[k + 1] = Turn(loop, r[k], s[k + 1])
  <2> DEFINE T == 1 .. k + 1
  <2>1. Max(T) = k + 1 /\ T # {}
    BY MaxLast
  <2>2. T \ {k + 1} = 1 .. k /\ T \in SUBSET (1 .. n)
    OBVIOUS
  <2>3. g[T] = IF T = {} THEN a ELSE Turn(loop, g[T \ {Max(T)}], s[Max(T)])
    <3> HIDE DEF T
    <3> QED
      BY <2>2 DEF IsFold
  <2>4. r[k + 1] = g[T] /\ r[k] = g[1 .. k]
    OBVIOUS
  <2> HIDE DEF T, r
  <2> QED
    BY <2>1, <2>2, <2>3, <2>4
<1>3. r[n] = g[1 .. n]
  OBVIOUS
<1> HIDE DEF r
<1> QED
  BY <1>1, <1>2, <1>3 DEF Goes

LEMMA AddLoop ==
  ASSUME NEW a, NEW s, NEW n \in Nat, DOMAIN s = 1 .. n
  PROVE  \E r : Goes(r, "add", a, s, n) /\ r[n] = FoldLeft(AddNative, a, s)
<1> DEFINE F(g) == [T \in SUBSET (1 .. n) |->
                      IF T = {} THEN a ELSE AddNative(g[T \ {Max(T)}], s[Max(T)])]
<1>1. \A x, y : Turn("add", x, y) = AddNative(x, y)
  BY DEF Turn
<1>2. \A g : IsFold(g, "add", a, s, n) <=> g = F(g)
  BY <1>1, Zenon DEF IsFold
<1>3. \E g : g = F(g)
  BY <1>2, FoldExists, Zenon
<1>4. PICK g : g = F(g) /\ FoldLeft(AddNative, a, s) = g[1 .. n]
  BY <1>3, Zenon DEF FoldLeft, MapThenFoldSet
<1>5. IsFold(g, "add", a, s, n)
  BY <1>2, <1>4, Zenon
<1>6. PICK r : Goes(r, "add", a, s, n) /\ r[n] = g[1 .. n]
  BY <1>5, FoldGoes
<1> QED
  BY <1>4, <1>6, Zenon

LEMMA CleanLoop ==
  ASSUME NEW a, NEW s, NEW n \in Nat, DOMAIN s = 1 .. n
  PROVE  \E r : Goes(r, "clean", a, s, n) /\ r[n] = FoldLeft(FailClean, a, s)
<1> DEFINE F(g) == [T \in SUBSET (1 .. n) |->
                      IF T = {} THEN a ELSE FailClean(g[T \ {Max(T)}], s[Max(T)])]
<1>1. \A x, y : Turn("clean", x, y) = FailClean(x, y)
  BY DEF Turn
<1>2. \A g : IsFold(g, "clean", a, s, n) <=> g = F(g)
  BY <1>1, Zenon DEF IsFold
<1>3. \E g : g = F(g)
  BY <1>2, FoldExists, Zenon
<1>4. PICK g : g = F(g) /\ FoldLeft(FailClean, a, s) = g[1 .. n]
  BY <1>3, Zenon DEF FoldLeft, MapThenFoldSet
<1>5. IsFold(g, "clean", a, s, n)
  BY <1>2, <1>4, Zenon
<1>6. PICK r : Goes(r, "clean", a, s, n) /\ r[n] = g[1 .. n]
  BY <1>5, FoldGoes
<1> QED
  BY <1>4, <1>6, Zenon

LEMMA ReleaseLoop ==
  ASSUME NEW a, NEW s, NEW n \in Nat, DOMAIN s = 1 .. n
  PROVE  \E r : Goes(r, "release", a, s, n) /\ r[n] = FoldLeft(Release, a, s)
<1> DEFINE F(g) == [T \in SUBSET (1 .. n) |->
                      IF T = {} THEN a ELSE Release(g[T \ {Max(T)}], s[Max(T)])]
<1>1. \A x, y : Turn("release", x, y) = Release(x, y)
  BY DEF Turn
<1>2. \A g : IsFold(g, "release", a, s, n) <=> g = F(g)
  BY <1>1, Zenon DEF IsFold
<1>3. \E g : g = F(g)
  BY <1>2, FoldExists, Zenon
<1>4. PICK g : g = F(g) /\ FoldLeft(Release, a, s) = g[1 .. n]
  BY <1>3, Zenon DEF FoldLeft, MapThenFoldSet
<1>5. IsFold(g, "release", a, s, n)
  BY <1>2, <1>4, Zenon
<1>6. PICK r : Goes(r, "release", a, s, n) /\ r[n] = g[1 .. n]
  BY <1>5, FoldGoes
<1> QED
  BY <1>4, <1>6, Zenon

LEMMA CompactLoop ==
  ASSUME NEW a, NEW s, NEW n \in Nat, DOMAIN s = 1 .. n
  PROVE  \E r : Goes(r, "compact", a, s, n) /\ r[n] = FoldLeft(Compact, a, s)
<1> DEFINE F(g) == [T \in SUBSET (1 .. n) |->
                      IF T = {} THEN a ELSE Compact(g[T \ {Max(T)}], s[Max(T)])]
<1>1. \A x, y : Turn("compact", x, y) = Compact(x, y)
  BY DEF Turn
<1>2. \A g : IsFold(g, "compact", a, s, n) <=> g = F(g)
  BY <1>1, Zenon DEF IsFold
<1>3. \E g : g = F(g)
  BY <1>2, FoldExists, Zenon
<1>4. PICK g : g = F(g) /\ FoldLeft(Compact, a, s) = g[1 .. n]
  BY <1>3, Zenon DEF FoldLeft, MapThenFoldSet
<1>5. IsFold(g, "compact", a, s, n)
  BY <1>2, <1>4, Zenon
<1>6. PICK r : Goes(r, "compact", a, s, n) /\ r[n] = g[1 .. n]
  BY <1>5, FoldGoes
<1> QED
  BY <1>4, <1>6, Zenon

-----------------------------------------------------------------------------
(***************************************************************************)
(* Counting.  Plus(u, s, j, k) adds the turns j to k of a loop over s to   *)
(* the numbers u.                                                          *)
(***************************************************************************)
Drawn(s, j, k, n) == {x \in j .. k : s[x] = n}

Plus(u, s, j, k) == [n \in Natives |-> u[n] + Cardinality(Drawn(s, j, k, n))]

Counts == [Natives -> Nat]

LEMMA DrawnFinite ==
  ASSUME NEW s, NEW j \in Nat, NEW k \in Nat, NEW n
  PROVE  /\ IsFiniteSet(Drawn(s, j, k, n))
         /\ Cardinality(Drawn(s, j, k, n)) \in Nat
         /\ Cardinality(Drawn(s, j, k, n)) > 0 <=> \E x \in j .. k : s[x] = n
<1> DEFINE D == Drawn(s, j, k, n)
<1>1. IsFiniteSet(j .. k) /\ D \subseteq j .. k
  BY FS_Interval DEF Drawn
<1>2. IsFiniteSet(D)
  BY <1>1, FS_Subset
<1>3. Cardinality(D) \in Nat /\ (Cardinality(D) = 0 <=> D = {})
  BY <1>2, FS_CardinalityType, FS_EmptySet
<1>4. D # {} <=> \E x \in j .. k : s[x] = n
  BY DEF Drawn
<1> QED
  BY <1>2, <1>3, <1>4

LEMMA PlusType ==
  ASSUME NEW u \in Counts, NEW s, NEW j \in Nat, NEW k \in Nat
  PROVE  /\ Plus(u, s, j, k) \in Counts
         /\ \A n \in Natives :
              /\ Plus(u, s, j, k)[n] >= u[n]
              /\ Plus(u, s, j, k)[n] > u[n] <=> \E x \in j .. k : s[x] = n
<1>1. ASSUME NEW n \in Natives
      PROVE  /\ Plus(u, s, j, k)[n] \in Nat
             /\ Plus(u, s, j, k)[n] >= u[n]
             /\ Plus(u, s, j, k)[n] > u[n] <=> \E x \in j .. k : s[x] = n
  <2> DEFINE c == Cardinality(Drawn(s, j, k, n))
  <2>1. c \in Nat /\ (c > 0 <=> \E x \in j .. k : s[x] = n)
    BY DrawnFinite
  <2>2. Plus(u, s, j, k)[n] = u[n] + c /\ u[n] \in Nat
    BY DEF Plus, Counts
  <2> HIDE DEF c
  <2> QED
    BY <2>1, <2>2
<1>2. Plus(u, s, j, k) \in Counts
  BY <1>1 DEF Plus, Counts
<1> QED
  BY <1>1, <1>2

LEMMA PlusNone ==
  ASSUME NEW u \in Counts, NEW s, NEW j \in Nat, NEW k \in Nat, k < j
  PROVE  Plus(u, s, j, k) = u
<1>1. \A n : Drawn(s, j, k, n) = {}
  BY DEF Drawn
<1>2. \A n \in Natives : u[n] + Cardinality(Drawn(s, j, k, n)) = u[n]
  BY <1>1, FS_EmptySet DEF Counts
<1> QED
  BY <1>2 DEF Plus, Counts

LEMMA PlusSame ==
  ASSUME NEW u, NEW s, NEW t, NEW j \in Nat, NEW k \in Nat,
         \A x \in j .. k : s[x] = t[x]
  PROVE  Plus(u, s, j, k) = Plus(u, t, j, k)
<1>1. \A n : Drawn(s, j, k, n) = Drawn(t, j, k, n)
  BY DEF Drawn
<1> QED
  BY <1>1 DEF Plus

(* One more turn, at either end. *)
LEMMA PlusLast ==
  ASSUME NEW u \in Counts, NEW s, NEW j \in Nat, NEW k \in Nat, j <= k + 1,
         NEW n \in Natives
  PROVE  Plus(u, s, j, k + 1)[n] =
           Plus(u, s, j, k)[n] + (IF s[k + 1] = n THEN 1 ELSE 0)
<1> DEFINE D == Drawn(s, j, k, n)
           E == Drawn(s, j, k + 1, n)
<1>1. IsFiniteSet(D) /\ Cardinality(D) \in Nat
  BY DrawnFinite
<1>2. E = IF s[k + 1] = n THEN D \cup {k + 1} ELSE D
  BY DEF Drawn
<1>3. k + 1 \notin D
  BY DEF Drawn
<1>4. Plus(u, s, j, k + 1)[n] = u[n] + Cardinality(E)
      /\ Plus(u, s, j, k)[n] = u[n] + Cardinality(D) /\ u[n] \in Nat
  BY DEF Plus, Counts
<1> HIDE DEF D, E
<1>5. Cardinality(D \cup {k + 1}) = Cardinality(D) + 1
  BY <1>1, <1>3, FS_AddElement
<1> QED
  BY <1>1, <1>2, <1>4, <1>5

LEMMA PlusFirst ==
  ASSUME NEW u \in Counts, NEW s, NEW j \in Nat, NEW k \in Nat, j <= k,
         NEW n \in Natives
  PROVE  Plus(u, s, j, k)[n] =
           Plus(u, s, j + 1, k)[n] + (IF s[j] = n THEN 1 ELSE 0)
<1> DEFINE D == Drawn(s, j + 1, k, n)
           E == Drawn(s, j, k, n)
<1>1. IsFiniteSet(D) /\ Cardinality(D) \in Nat
  <2>1. j + 1 \in Nat
    OBVIOUS
  <2> QED
    BY <2>1, DrawnFinite
<1>2. E = IF s[j] = n THEN D \cup {j} ELSE D
  BY DEF Drawn
<1>3. j \notin D
  BY DEF Drawn
<1>4. Plus(u, s, j, k)[n] = u[n] + Cardinality(E)
      /\ Plus(u, s, j + 1, k)[n] = u[n] + Cardinality(D) /\ u[n] \in Nat
  BY DEF Plus, Counts
<1> HIDE DEF D, E
<1>5. Cardinality(D \cup {j}) = Cardinality(D) + 1
  BY <1>1, <1>3, FS_AddElement
<1> QED
  BY <1>1, <1>2, <1>4, <1>5

(* The uses a list makes of the native events, and what one more event     *)
(* at its end adds to them.                                                *)
UseCount(e) == [n \in Natives |-> Cardinality(Uses(e, n))]

UsesOf(e, i, n) ==
  {i} \X {k \in DOMAIN NativesOf(e.events[i].code) :
            NativesOf(e.events[i].code)[k] = n}

LEMMA NativesOfType ==
  ASSUME NEW c \in Events
  PROVE  /\ NativesOf(c) \in Seq(Natives)
         /\ Len(NativesOf(c)) \in Nat
         /\ DOMAIN NativesOf(c) = 1 .. Len(NativesOf(c))
         /\ \A k \in 1 .. Len(NativesOf(c)) : NativesOf(c)[k] \in Natives
<1>1. NativesOf(c) \in Seq(Natives)
  <2>1. CASE c \in Natives
    BY <2>1 DEF NativesOf
  <2>2. CASE c \notin Natives
    BY <2>2, PresetsAssumption DEF NativesOf, Events
  <2> QED
    BY <2>1, <2>2
<1> QED
  BY <1>1, LenProperties, ElementOfSeq

(* The list of e holds events. *)
Lists(e) == \A i \in DOMAIN e.events : e.events[i].code \in Events

LEMMA UsesFinite ==
  ASSUME NEW e, NEW L \in Nat, DOMAIN e.events = 1 .. L, Lists(e), NEW n
  PROVE  IsFiniteSet(Uses(e, n)) /\ Cardinality(Uses(e, n)) \in Nat
<1> DEFINE f == [i \in 1 .. L |-> UsesOf(e, i, n)]
           S == {UsesOf(e, i, n) : i \in 1 .. L}
<1>1. IsFiniteSet(S)
  <2>1. f \in Surjection(1 .. L, S)
    BY DEF Surjection
  <2>2. IsFiniteSet(1 .. L)
    BY FS_Interval
  <2> HIDE DEF f, S
  <2> QED
    BY <2>1, <2>2, FS_Surjection
<1>2. ASSUME NEW i \in 1 .. L
      PROVE  IsFiniteSet(UsesOf(e, i, n))
  <2> DEFINE N == NativesOf(e.events[i].code)
             D == {k \in DOMAIN N : N[k] = n}
  <2>1. IsFiniteSet(DOMAIN N)
    <3>1. Len(N) \in Nat /\ DOMAIN N = 1 .. Len(N)
      BY NativesOfType DEF Lists
    <3>2. IsFiniteSet(1 .. Len(N))
      BY <3>1, FS_Interval
    <3> QED
      BY <3>1, <3>2
  <2>2. IsFiniteSet(D)
    BY <2>1, FS_Subset
  <2>3. IsFiniteSet({i})
    BY FS_Singleton
  <2>4. UsesOf(e, i, n) = {i} \X D
    BY DEF UsesOf
  <2> HIDE DEF D
  <2> QED
    BY <2>2, <2>3, <2>4, FS_Product
<1>3. Uses(e, n) = UNION S
  BY DEF Uses, UsesOf
<1>4. IsFiniteSet(Uses(e, n))
  <2> HIDE DEF S
  <2>1. \A T \in S : IsFiniteSet(T)
    BY <1>2 DEF S
  <2> QED
    BY <1>1, <1>3, <2>1, FS_UNION
<1> QED
  BY <1>4, FS_CardinalityType

LEMMA UsesMember ==
  ASSUME NEW e, NEW n
  PROVE  Uses(e, n) # {} <=>
           \E i \in DOMAIN e.events : \E k \in DOMAIN NativesOf(e.events[i].code) :
              NativesOf(e.events[i].code)[k] = n
<1>1. Uses(e, n) = UNION {UsesOf(e, i, n) : i \in DOMAIN e.events}
  BY DEF Uses, UsesOf
<1>2. Uses(e, n) # {} <=> \E i \in DOMAIN e.events : UsesOf(e, i, n) # {}
  BY <1>1
<1>3. \A i : UsesOf(e, i, n) # {} <=>
              \E k \in DOMAIN NativesOf(e.events[i].code) :
                 NativesOf(e.events[i].code)[k] = n
  <2> TAKE i
  <2> DEFINE N == NativesOf(e.events[i].code)
             D == {k \in DOMAIN N : N[k] = n}
  <2>1. UsesOf(e, i, n) = {i} \X D
    BY DEF UsesOf
  <2>2. {i} \X D # {} <=> D # {}
    <3> HIDE DEF D
    <3>1. ASSUME NEW d \in D PROVE <<i, d>> \in {i} \X D
      OBVIOUS
    <3>2. ASSUME NEW p \in {i} \X D PROVE p[2] \in D
      OBVIOUS
    <3> QED
      BY <3>1, <3>2
  <2>3. D # {} <=> \E k \in DOMAIN N : N[k] = n
    OBVIOUS
  <2> HIDE DEF D
  <2> QED
    BY <2>1, <2>2, <2>3
<1> QED
  BY <1>2, <1>3

LEMMA UseCountType ==
  ASSUME NEW e, NEW L \in Nat, DOMAIN e.events = 1 .. L, Lists(e)
  PROVE  /\ UseCount(e) \in Counts
         /\ \A n \in Natives : UseCount(e)[n] > 0 <=> Uses(e, n) # {}
<1>1. ASSUME NEW n \in Natives
      PROVE  UseCount(e)[n] \in Nat /\ (UseCount(e)[n] > 0 <=> Uses(e, n) # {})
  <2>1. IsFiniteSet(Uses(e, n)) /\ Cardinality(Uses(e, n)) \in Nat
    BY UsesFinite
  <2>2. Cardinality(Uses(e, n)) = 0 <=> Uses(e, n) = {}
    BY <2>1, FS_EmptySet
  <2>3. UseCount(e)[n] = Cardinality(Uses(e, n))
    BY DEF UseCount
  <2> QED
    BY <2>1, <2>2, <2>3
<1> QED
  BY <1>1 DEF UseCount, Counts

LEMMA UseCountSame ==
  ASSUME NEW e, NEW f, DOMAIN e.events = DOMAIN f.events,
         \A i \in DOMAIN e.events : e.events[i].code = f.events[i].code
  PROVE  UseCount(e) = UseCount(f)
<1>1. \A n : Uses(e, n) = Uses(f, n)
  BY DEF Uses
<1> QED
  BY <1>1 DEF UseCount

LEMMA UseCountGrows ==
  ASSUME NEW e, NEW f, NEW L \in Nat,
         DOMAIN e.events = 1 .. L, DOMAIN f.events = 1 .. L + 1, Lists(f),
         \A i \in 1 .. L : e.events[i].code = f.events[i].code,
         NEW s, s = NativesOf(f.events[L + 1].code)
  PROVE  UseCount(f) = Plus(UseCount(e), s, 1, Len(s))
<1>1. Lists(e) /\ Len(s) \in Nat /\ DOMAIN s = 1 .. Len(s)
  BY NativesOfType DEF Lists
<1>2. ASSUME NEW n \in Natives
      PROVE  Cardinality(Uses(f, n)) =
                Cardinality(Uses(e, n)) + Cardinality(Drawn(s, 1, Len(s), n))
  <2> DEFINE D == Drawn(s, 1, Len(s), n)
             U == UsesOf(f, L + 1, n)
             g == [k \in D |-> <<L + 1, k>>]
  <2>1. IsFiniteSet(D)
    BY <1>1, DrawnFinite
  <2>2. U = {L + 1} \X D
    BY <1>1 DEF UsesOf, Drawn
  <2>3. IsFiniteSet(U) /\ Cardinality(U) = Cardinality(D)
    <3>1. g \in Bijection(D, U)
      <4>1. g \in [D -> U]
        BY <2>2
      <4>2. \A k, l \in D : g[k] = g[l] => k = l
        OBVIOUS
      <4>3. \A y \in U : \E k \in D : g[k] = y
        BY <2>2
      <4> QED
        BY <4>1, <4>2, <4>3, Fun_IsBij
    <3>2. ExistsBijection(D, U)
      BY <3>1 DEF ExistsBijection
    <3> QED
      BY <2>1, <3>2, FS_Bijection
  <2>4. Uses(f, n) = Uses(e, n) \cup U
    <3>1. \A i \in 1 .. L : UsesOf(f, i, n) = UsesOf(e, i, n)
      BY DEF UsesOf
    <3>2. Uses(f, n) = UNION {UsesOf(f, i, n) : i \in 1 .. L + 1}
          /\ Uses(e, n) = UNION {UsesOf(e, i, n) : i \in 1 .. L}
      BY DEF Uses, UsesOf
    <3> HIDE DEF U
    <3>3. \A i : i \in 1 .. L + 1 <=> i \in 1 .. L \/ i = L + 1
      OBVIOUS
    <3> QED
      BY <3>1, <3>2, <3>3 DEF U
  <2>5. Uses(e, n) \cap U = {}
    BY DEF Uses, UsesOf
  <2>6. IsFiniteSet(Uses(e, n)) /\ Cardinality(Uses(e, n)) \in Nat
    BY <1>1, UsesFinite
  <2>7. Cardinality(D) \in Nat
    BY <1>1, DrawnFinite
  <2> HIDE DEF D, U
  <2>8. Cardinality(Uses(e, n) \cup U) = Cardinality(Uses(e, n)) + Cardinality(U) - Cardinality({})
    BY <2>3, <2>5, <2>6, FS_Union
  <2> QED
    BY <2>3, <2>4, <2>6, <2>7, <2>8, FS_EmptySet DEF D
<1> QED
  BY <1>2 DEF UseCount, Plus

-----------------------------------------------------------------------------
(***************************************************************************)
(* The array of native events.                                             *)
(***************************************************************************)
Info == [code : Events, pos : Seq(0 .. MaxNatives)]

EventSetRecs ==
  [assigned : BOOLEAN, events : Seq(Info), native : [Slots -> Slot],
   count : 0 .. MaxNatives, open : Seq(Natives)]

(* The slots in use hold the native events that u counts, each once and    *)
(* with that many owners; nobody owns the slots behind them.               *)
Dense(e, u) ==
  /\ \A i \in 1 .. e.count :
       /\ e.native[i].event = e.native[i].code
       /\ e.native[i].code \in Natives
       /\ e.native[i].owners = u[e.native[i].code]
       /\ e.native[i].owners > 0
  /\ \A i, j \in 1 .. e.count : e.native[i].code = e.native[j].code => i = j
  /\ \A n \in Natives : u[n] > 0 => \E i \in 1 .. e.count : e.native[i].code = n
  /\ \A i \in Slots : i > e.count => e.native[i].owners = 0

LEMMA MinLeast ==
  ASSUME NEW S, NEW x \in S, S \subseteq Int, \A y \in S : x <= y
  PROVE  Min(S) = x
<1> DEFINE C(m) == m \in S /\ \A y \in S : m <= y
<1>1. C(x)
  OBVIOUS
<1>2. ASSUME NEW m, C(m) PROVE m = x
  <2>1. m \in S /\ m <= x /\ x <= m
    BY <1>2
  <2> QED
    BY <2>1
<1>3. Min(S) = CHOOSE m : C(m)
  BY Zenon DEF Min
<1>4. C(Min(S))
  <2> HIDE DEF C
  <2> QED
    BY <1>1, <1>3
<1> QED
  BY <1>2, <1>4

LEMMA CountBounds ==
  ASSUME NEW e \in EventSetRecs
  PROVE  /\ e.count \in Nat /\ e.count <= MaxNatives /\ MaxNatives \in Nat
         /\ 1 .. e.count \subseteq Slots
         /\ \A i \in Slots : i \in Nat
BY CountersAssumption DEF EventSetRecs, Slots

(* event_already_in_eventset finds a native event in its one slot. *)
LEMMA HoldingDense ==
  ASSUME NEW e \in EventSetRecs, NEW u \in Counts, Dense(e, u), NEW n \in Natives
  PROVE  /\ u[n] = 0 <=> Holding(e, n) = {}
         /\ u[n] # 0 => \E j \in 1 .. e.count : /\ e.native[j].code = n
                                               /\ Holding(e, n) = {j}
                                               /\ Min(Holding(e, n)) = j
<1>1. e.count \in Nat /\ u[n] \in Nat
  BY CountBounds DEF Counts
<1>2. \A j \in 1 .. e.count : e.native[j].code = n => Holding(e, n) = {j}
  BY DEF Holding, Dense
<1>3. ASSUME u[n] # 0
      PROVE \E j \in 1 .. e.count : /\ e.native[j].code = n
                                    /\ Holding(e, n) = {j}
                                    /\ Min(Holding(e, n)) = j
  <2>1. PICK j \in 1 .. e.count : e.native[j].code = n
    BY <1>1, <1>3 DEF Dense
  <2>2. Holding(e, n) = {j}
    BY <1>2, <2>1
  <2>3. Min({j}) = j
    <3>1. j \in {j} /\ {j} \subseteq Int /\ \A y \in {j} : j <= y
      BY <1>1
    <3> QED
      BY <3>1, MinLeast
  <2> QED
    BY <2>1, <2>2, <2>3
<1>4. ASSUME u[n] = 0 PROVE Holding(e, n) = {}
  BY <1>1, <1>4 DEF Holding, Dense
<1> QED
  BY <1>3, <1>4

-----------------------------------------------------------------------------
(***************************************************************************)
(* add_native_events.                                                      *)
(***************************************************************************)
AddStates ==
  [e : EventSetRecs, pos : Seq(0 .. MaxNatives), done : Nat, new : BOOLEAN,
   full : BOOLEAN]

(* What is not the array. *)
SameList(e, f) ==
  f.assigned = e.assigned /\ f.events = e.events /\ f.open = e.open

(* The slots in use in e hold the same native events in f, where they were. *)
Keeps(e, f) ==
  \A i \in 1 .. e.count : /\ f.native[i].code = e.native[i].code
                          /\ f.native[i].event = e.native[i].event
                          /\ f.native[i].pos = e.native[i].pos

(* b is the state after a turn for n has found or made room for it: a slot *)
(* taken is the next one, and n was in no slot before.                     *)
Added(a, b, n, u) ==
  /\ ~b.full
  /\ b.done = a.done + 1
  /\ Len(b.pos) = Len(a.pos) + 1
  /\ SameList(a.e, b.e) /\ Keeps(a.e, b.e)
  /\ \/ b.e.count = a.e.count /\ b.new = a.new
     \/ /\ b.e.count = a.e.count + 1 /\ b.new
        /\ b.e.native[b.e.count].code = n /\ u[n] = 0

Counted(u, v, n) ==
  \A m \in Natives : v[m] = u[m] + (IF n = m THEN 1 ELSE 0)

LEMMA AddTurn ==
  ASSUME NEW a \in AddStates, ~a.full, NEW n \in Natives,
         NEW u \in Counts, NEW v \in Counts, Counted(u, v, n),
         Dense(a.e, u), NEW b, b = AddNative(a, n)
  PROVE  /\ b \in AddStates
         /\ \/ b = [a EXCEPT !.full = TRUE]
            \/ Added(a, b, n, u) /\ Dense(b.e, v)
<1> DEFINE e   == a.e
           hit == Holding(e, n)
<1>1. e \in EventSetRecs /\ Dense(e, u) /\ a.done \in Nat /\ a.new \in BOOLEAN
  BY DEF AddStates
<1>2. /\ e.count \in Nat /\ e.count <= MaxNatives /\ MaxNatives \in Nat
      /\ 1 .. e.count \subseteq Slots
      /\ e.native \in [Slots -> Slot] /\ e.count \in 0 .. MaxNatives
      /\ \A m \in Natives : u[m] \in Nat
      /\ \A i \in Slots : i \in Nat
  BY <1>1, CountBounds DEF EventSetRecs, Counts
<1>3. CASE u[n] # 0
  <2>1. PICK j \in 1 .. e.count :
          e.native[j].code = n /\ hit = {j} /\ Min(hit) = j
    BY <1>1, <1>3, HoldingDense
  <2> DEFINE x == [e.native[j] EXCEPT !.owners = @ + 1]
             f == [e EXCEPT !.native[j] = x]
             p == Append(a.pos, e.native[j].pos)
  <2>2. b = [a EXCEPT !.e = f, !.pos = p, !.done = @ + 1]
    BY <2>1 DEF AddNative
  <2>3. /\ x \in Slot /\ x.event = e.native[j].event /\ x.code = n
        /\ x.pos = e.native[j].pos /\ x.owners = e.native[j].owners + 1
        /\ e.native[j].pos \in 0 .. MaxNatives /\ e.native[j].owners \in Int
    BY <1>2, <2>1 DEF Slot
  <2>4. /\ f \in EventSetRecs /\ f.count = e.count /\ SameList(e, f)
        /\ f.native[j] = x
        /\ \A i \in Slots : i # j => f.native[i] = e.native[i]
    BY <1>1, <1>2, <2>3 DEF EventSetRecs, SameList
  <2>5. p \in Seq(0 .. MaxNatives) /\ Len(p) = Len(a.pos) + 1
    BY <2>3 DEF AddStates
  <2>6. /\ b \in AddStates /\ b.e = f /\ b.pos = p /\ b.done = a.done + 1
        /\ ~b.full /\ b.new = a.new
    <3> HIDE DEF f, p, e
    <3>1. b = [e |-> f, pos |-> p, done |-> a.done + 1, new |-> a.new, full |-> FALSE]
      BY <2>2 DEF AddStates
    <3> QED
      BY <1>1, <2>4, <2>5, <3>1 DEF AddStates
  <2>7. Keeps(e, f)
    BY <1>2, <2>3, <2>4 DEF Keeps
  <2>8. Dense(f, v)
    <3> HIDE DEF x, f
    <3>1. \A i \in 1 .. e.count : f.native[i].code = e.native[i].code
          /\ f.native[i].event = e.native[i].event
          /\ f.native[i].owners = e.native[i].owners + (IF i = j THEN 1 ELSE 0)
      BY <1>2, <2>1, <2>3, <2>4 DEF Dense
    <3>2. \A i \in 1 .. e.count :
            /\ f.native[i].event = f.native[i].code
            /\ f.native[i].code \in Natives
            /\ f.native[i].owners = v[f.native[i].code]
            /\ f.native[i].owners > 0
      BY <1>2, <2>1, <3>1 DEF Dense, Counted
    <3>3. \A m \in Natives : v[m] > 0 => u[m] > 0
      BY <1>2, <1>3 DEF Counted
    <3> QED
      BY <1>2, <2>4, <3>1, <3>2, <3>3 DEF Dense
  <2> HIDE DEF f, p
  <2> QED
    BY <2>4, <2>5, <2>6, <2>7, <2>8 DEF Added
<1>4. CASE u[n] = 0
  <2>1. hit = {}
    BY <1>1, <1>4, HoldingDense
  <2>2. CASE e.count = MaxNatives
    <3>1. b = [a EXCEPT !.full = TRUE]
      BY <2>1, <2>2 DEF AddNative
    <3> QED
      BY <3>1 DEF AddStates
  <2>3. CASE e.count # MaxNatives
    <3> DEFINE k == e.count + 1
               x == [event |-> n, code |-> n, pos |-> e.native[k].pos, owners |-> 1]
               f == [e EXCEPT !.native[k] = x, !.count = k]
               p == Append(a.pos, 0)
    <3>1. b = [a EXCEPT !.e = f, !.pos = p, !.done = @ + 1, !.new = TRUE]
      BY <2>1, <2>3 DEF AddNative
    <3>2. k \in Slots /\ k \in 0 .. MaxNatives
      BY <1>2, <2>3 DEF Slots
    <3>3. x \in Slot
      BY <1>2, <3>2 DEF Slot
    <3>4. /\ f \in EventSetRecs /\ f.count = e.count + 1 /\ SameList(e, f)
          /\ f.native[k] = x
          /\ \A i \in Slots : i # k => f.native[i] = e.native[i]
      BY <1>1, <1>2, <3>2, <3>3 DEF EventSetRecs, SameList
    <3>5. p \in Seq(0 .. MaxNatives) /\ Len(p) = Len(a.pos) + 1
      BY <1>2 DEF AddStates
    <3>6. /\ b \in AddStates /\ b.e = f /\ b.pos = p /\ b.done = a.done + 1
          /\ ~b.full /\ b.new
      <4> HIDE DEF f, p, e
      <4>1. b = [e |-> f, pos |-> p, done |-> a.done + 1, new |-> TRUE, full |-> FALSE]
        BY <3>1 DEF AddStates
      <4> QED
        BY <1>1, <3>4, <3>5, <4>1 DEF AddStates
    <3>7. Keeps(e, f)
      BY <1>2, <3>4 DEF Keeps
    <3>8. Dense(f, v)
      <4> HIDE DEF f
      <4>1. \A i \in 1 .. e.count : i \in Slots /\ f.native[i] = e.native[i]
                                    /\ e.native[i].code # n
        BY <1>2, <1>4, <3>4 DEF Dense
      <4>2. f.native[k].code = n /\ f.native[k].event = n /\ f.native[k].owners = 1
        BY <3>4
      <4>3. \A i \in 1 .. f.count : i \in 1 .. e.count \/ i = k
        BY <1>2, <3>4
      <4>4. v[n] = 1 /\ \A m \in Natives : m # n => v[m] = u[m]
        BY <1>2, <1>4 DEF Counted
      <4> HIDE DEF k, x, e
      <4>5. \A i \in 1 .. f.count :
              /\ f.native[i].event = f.native[i].code
              /\ f.native[i].code \in Natives
              /\ f.native[i].owners = v[f.native[i].code]
              /\ f.native[i].owners > 0
        BY <1>1, <4>1, <4>2, <4>3, <4>4 DEF Dense
      <4>6. \A i, j \in 1 .. f.count : f.native[i].code = f.native[j].code => i = j
        BY <1>1, <4>1, <4>2, <4>3 DEF Dense
      <4>7. \A m \in Natives : v[m] > 0 => \E i \in 1 .. f.count : f.native[i].code = m
        <5>1. k \in 1 .. f.count /\ \A i \in 1 .. e.count : i \in 1 .. f.count
          BY <1>2, <3>4 DEF k
        <5> QED
          BY <1>1, <4>1, <4>2, <4>4, <5>1 DEF Dense
      <4>8. \A i \in Slots : i > f.count => f.native[i].owners = 0
        BY <1>1, <1>2, <3>4 DEF Dense, k
      <4> QED
        BY <4>5, <4>6, <4>7, <4>8 DEF Dense
    <3> HIDE DEF f, p
    <3>9. f.native[f.count].code = n
      BY <3>4
    <3> QED
      BY <1>4, <3>4, <3>5, <3>6, <3>7, <3>8, <3>9 DEF Added
  <2> QED
    BY <2>2, <2>3
<1> QED
  BY <1>3, <1>4

(* Where the loop over s is after k turns, when it began with e, whose     *)
(* array u counts.                                                         *)
Adding(k, x, e, u, s) ==
  /\ x \in AddStates
  /\ x.done \in 0 .. k /\ (x.full \/ x.done = k)
  /\ Len(x.pos) = x.done
  /\ Dense(x.e, Plus(u, s, 1, x.done))
  /\ SameList(e, x.e) /\ Keeps(e, x.e)
  /\ e.count <= x.e.count
  /\ x.new <=> e.count < x.e.count
  /\ \A i \in e.count + 1 .. x.e.count :
       x.e.native[i].code \in Natives /\ u[x.e.native[i].code] = 0

LEMMA AddingStep ==
  ASSUME NEW e \in EventSetRecs, NEW u \in Counts, NEW s \in Seq(Natives),
         NEW k \in 0 .. Len(s) - 1, NEW x, Adding(k, x, e, u, s)
  PROVE  Adding(k + 1, AddNative(x, s[k + 1]), e, u, s)
<1> DEFINE n == s[k + 1]
           b == AddNative(x, n)
           w == Plus(u, s, 1, x.done)
<1>1. /\ n \in Natives /\ k \in Nat /\ x.done \in Nat
      /\ e.count \in Nat /\ x.e.count \in Nat /\ x.e \in EventSetRecs
  <2>1. Len(s) \in Nat /\ k + 1 \in 1 .. Len(s)
    OBVIOUS
  <2>2. x.e \in EventSetRecs
    BY DEF Adding, AddStates
  <2> QED
    BY <2>1, <2>2, ElementOfSeq, CountBounds DEF Adding
<1>2. CASE x.full
  <2>1. b = x
    BY <1>2 DEF AddNative
  <2>2. x.done \in 0 .. k + 1
    BY <1>1 DEF Adding
  <2> QED
    BY <1>2, <2>1, <2>2 DEF Adding
<1>3. CASE ~x.full
  <2>1. x.done = k
    BY <1>3 DEF Adding
  <2> DEFINE v == Plus(u, s, 1, k + 1)
  <2>2. w \in Counts /\ v \in Counts /\ (\A m \in Natives : w[m] >= u[m])
    BY <1>1, <2>1, PlusType
  <2>3. Counted(w, v, n)
    <3>1. 1 \in Nat /\ 1 <= k + 1 /\ w = Plus(u, s, 1, k)
      BY <1>1, <2>1
    <3>2. \A m \in Natives : v[m] = Plus(u, s, 1, k)[m] + (IF n = m THEN 1 ELSE 0)
      BY <1>1, <3>1, PlusLast
    <3> QED
      BY <3>1, <3>2 DEF Counted
  <2>4. x \in AddStates /\ Dense(x.e, w)
    BY DEF Adding
  <2> HIDE DEF w, v, n
  <2>5. /\ b \in AddStates
        /\ \/ b = [x EXCEPT !.full = TRUE]
           \/ Added(x, b, n, w) /\ Dense(b.e, v)
    BY <1>1, <1>3, <2>2, <2>3, <2>4, AddTurn
  <2>6. CASE b = [x EXCEPT !.full = TRUE]
    <3> HIDE DEF b
    <3>1. /\ b.full /\ b.e = x.e /\ b.done = x.done /\ b.new = x.new /\ b.pos = x.pos
      BY <2>4, <2>6 DEF AddStates
    <3>2. x.done \in 0 .. k + 1
      BY <1>1, <2>1
    <3>3. Adding(k + 1, b, e, u, s)
      BY <2>5, <3>1, <3>2 DEF Adding
    <3> QED
      BY <3>3 DEF b, n
  <2>7. CASE Added(x, b, n, w) /\ Dense(b.e, v)
    <3> HIDE DEF b
    <3>1. b.done = k + 1 /\ Len(b.pos) = k + 1 /\ ~b.full
      BY <2>1, <2>7 DEF Added, Adding
    <3>2. Dense(b.e, Plus(u, s, 1, b.done))
      BY <2>7, <3>1 DEF v
    <3>3. SameList(e, b.e)
      BY <2>7 DEF Added, Adding, SameList
    <3>4. Keeps(e, b.e)
      <4>1. \A i \in 1 .. e.count : i \in 1 .. x.e.count
        BY <1>1 DEF Adding
      <4> QED
        BY <2>7, <4>1 DEF Added, Adding, Keeps
    <3>5. e.count <= b.e.count /\ (b.new <=> e.count < b.e.count)
          /\ (b.e.count = x.e.count \/ b.e.count = x.e.count + 1)
      BY <1>1, <2>7 DEF Added, Adding
    <3>6. ASSUME NEW i \in e.count + 1 .. b.e.count
          PROVE  b.e.native[i].code \in Natives /\ u[b.e.native[i].code] = 0
      <4>1. CASE i <= x.e.count
        <5>1. i \in 1 .. x.e.count /\ i \in e.count + 1 .. x.e.count
          BY <1>1, <3>5, <4>1
        <5>2. b.e.native[i].code = x.e.native[i].code
          BY <2>7, <5>1 DEF Added, Keeps
        <5> QED
          BY <5>1, <5>2 DEF Adding
      <4>2. CASE ~(i <= x.e.count)
        <5>1. i = b.e.count /\ b.e.count = x.e.count + 1
          <6>1. i \in Int /\ i <= b.e.count /\ i > x.e.count
            BY <1>1, <3>5, <4>2
          <6> QED
            BY <1>1, <3>5, <6>1
        <5>2. b.e.native[i].code = n /\ w[n] = 0
          BY <1>1, <2>7, <5>1 DEF Added
        <5>3. u[n] \in Nat /\ u[n] <= 0
          BY <1>1, <2>2, <5>2 DEF Counts
        <5> QED
          BY <1>1, <5>2, <5>3
      <4> QED
        BY <4>1, <4>2
    <3>7. b.done \in 0 .. k + 1
      BY <1>1, <3>1
    <3>8. Adding(k + 1, b, e, u, s)
      BY <2>5, <3>1, <3>2, <3>3, <3>4, <3>5, <3>6, <3>7 DEF Adding
    <3> QED
      BY <3>8 DEF b, n
  <2> QED
    BY <2>5, <2>6, <2>7
<1> QED
  BY <1>2, <1>3

AddStart(e) == [e |-> e, pos |-> <<>>, done |-> 0, new |-> FALSE, full |-> FALSE]

LEMMA AddEvents ==
  ASSUME NEW e \in EventSetRecs, NEW u \in Counts, Dense(e, u),
         NEW s \in Seq(Natives)
  PROVE  Adding(Len(s), FoldLeft(AddNative, AddStart(e), s), e, u, s)
<1>1. Len(s) \in Nat /\ DOMAIN s = 1 .. Len(s)
  BY LenProperties
<1>2. PICK r : /\ Goes(r, "add", AddStart(e), s, Len(s))
               /\ r[Len(s)] = FoldLeft(AddNative, AddStart(e), s)
  BY <1>1, AddLoop, Zenon
<1> DEFINE P == {k \in Nat : Adding(k, r[k], e, u, s)}
<1>3. 0 \in P
  <2>1. AddStart(e) \in AddStates
    <3>1. <<>> \in Seq(0 .. MaxNatives)
      OBVIOUS
    <3> QED
      BY <3>1 DEF AddStart, AddStates
  <2>2. Plus(u, s, 1, 0) = u
    BY PlusNone
  <2>3. e.count \in Nat
    BY CountBounds
  <2>4. Len(<<>>) = 0
    OBVIOUS
  <2>5. Adding(0, AddStart(e), e, u, s)
    BY <2>1, <2>2, <2>3, <2>4 DEF Adding, AddStart, SameList, Keeps
  <2> QED
    BY <1>2, <2>5 DEF Goes
<1>4. ASSUME NEW k \in 0 .. Len(s) - 1, k \in P PROVE k + 1 \in P
  <2>1. r[k + 1] = AddNative(r[k], s[k + 1])
    BY <1>1, <1>2 DEF Goes, Turn
  <2>2. Adding(k + 1, r[k + 1], e, u, s)
    BY <1>4, <2>1, AddingStep
  <2> QED
    BY <1>4, <2>2
<1>5. \A k \in 0 .. Len(s) : k \in P
  <2> HIDE DEF P
  <2> QED
    BY <1>1, <1>3, <1>4, Inductive
<1> QED
  BY <1>1, <1>2, <1>5

-----------------------------------------------------------------------------
(***************************************************************************)
(* add_native_fail_clean.  It began with y, whose slots are counted by u   *)
(* and the native events still to be cleaned.                              *)
(***************************************************************************)
Wanted(y, w) == {i \in 1 .. y.count : w[y.native[i].code] > 0}

(* The slots of y that w counts are in use, the others of y are free, and  *)
(* those behind are as they were.                                          *)
Remains(y, z, w) ==
  /\ SameList(y, z)
  /\ \A i \in 1 .. y.count :
       IF i \in Wanted(y, w)
         THEN /\ z.native[i].code = y.native[i].code
              /\ z.native[i].event = y.native[i].code
              /\ z.native[i].pos = y.native[i].pos
              /\ z.native[i].owners = w[y.native[i].code]
         ELSE z.native[i] = Free
  /\ \A i \in Slots : i > y.count => z.native[i] = y.native[i]
  /\ z.count = Cardinality(Wanted(y, w))

LEMMA UpTo ==
  ASSUME NEW n \in Nat
  PROVE  IsFiniteSet(1 .. n) /\ Cardinality(1 .. n) = n
<1>1. 1 \in Int /\ n \in Int /\ n - 1 + 1 = n /\ (1 > n => n = 0)
  OBVIOUS
<1>2. IsFiniteSet(1 .. n) /\ Cardinality(1 .. n) = IF 1 > n THEN 0 ELSE n - 1 + 1
  BY <1>1, FS_Interval
<1> QED
  BY <1>1, <1>2

LEMMA WantedFinite ==
  ASSUME NEW y \in EventSetRecs, NEW w \in Counts
  PROVE  /\ IsFiniteSet(Wanted(y, w)) /\ Cardinality(Wanted(y, w)) \in 0 .. MaxNatives
         /\ Wanted(y, w) \subseteq 1 .. y.count
<1>1. y.count \in Nat /\ y.count <= MaxNatives
  BY CountBounds
<1>2. Wanted(y, w) \in SUBSET (1 .. y.count)
  BY DEF Wanted
<1>3. IsFiniteSet(1 .. y.count) /\ Cardinality(1 .. y.count) = y.count
  BY <1>1, UpTo
<1>4. IsFiniteSet(Wanted(y, w)) /\ Cardinality(Wanted(y, w)) <= y.count
  <2>1. /\ IsFiniteSet(Wanted(y, w))
        /\ Cardinality(Wanted(y, w)) <= Cardinality(1 .. y.count)
    BY <1>2, <1>3, FS_Subset, Zenon
  <2> QED
    BY <1>3, <2>1
<1>5. Cardinality(Wanted(y, w)) \in Nat
  BY <1>4, FS_CardinalityType
<1> QED
  BY <1>1, <1>2, <1>4, <1>5, CountersAssumption

(* b is z but for slot j and the number of slots in use. *)
Changed(z, b, j, x, c) ==
  b = [z EXCEPT !.native = [z.native EXCEPT ![j] = x], !.count = c]

LEMMA SlotChange ==
  ASSUME NEW z \in EventSetRecs, NEW j \in Slots, NEW x \in Slot,
         NEW c \in 0 .. MaxNatives, NEW b, Changed(z, b, j, x, c)
  PROVE  /\ b \in EventSetRecs /\ SameList(z, b) /\ b.count = c
         /\ b.native[j] = x
         /\ \A i \in Slots : i # j => b.native[i] = z.native[i]
BY DEF EventSetRecs, SameList, Changed

LEMMA FreeSlot == Free \in Slot
BY CountersAssumption DEF Free, Slot

LEMMA CleanTurn ==
  ASSUME NEW y \in EventSetRecs, NEW t \in Counts, Dense(y, t),
         NEW w \in Counts, NEW v \in Counts, NEW n \in Natives,
         Counted(v, w, n), \A m \in Natives : w[m] <= t[m],
         NEW z \in EventSetRecs, Remains(y, z, w)
  PROVE  /\ FailClean(z, n) \in EventSetRecs
         /\ Remains(y, FailClean(z, n), v)
<1> DEFINE b == FailClean(z, n)
           hit == {i \in Slots : z.native[i].code = n}
<1>1. /\ y.count \in Nat /\ MaxNatives \in Nat /\ 1 .. y.count \subseteq Slots
      /\ \A i \in Slots : i \in Nat
      /\ y.native \in [Slots -> Slot] /\ z.native \in [Slots -> Slot]
      /\ z.count \in 0 .. MaxNatives
      /\ \A m \in Natives : w[m] \in Nat /\ v[m] \in Nat /\ t[m] \in Nat
  BY CountBounds DEF EventSetRecs, Counts
<1>2. w[n] = v[n] + 1 /\ \A m \in Natives : m # n => w[m] = v[m]
  BY <1>1 DEF Counted
<1>3. PICK j \in 1 .. y.count : y.native[j].code = n
  <2>1. t[n] > 0
    BY <1>1, <1>2
  <2> QED
    BY <2>1 DEF Dense
<1>4. /\ \A i \in 1 .. y.count : y.native[i].code \in Natives
      /\ \A i \in 1 .. y.count : i # j => y.native[i].code # n
  BY <1>3 DEF Dense
<1>5. j \in Wanted(y, w) /\ z.native[j].code = n /\ z.native[j].owners = w[n]
      /\ z.native[j].event = n /\ z.native[j].pos = y.native[j].pos
  BY <1>1, <1>2, <1>3 DEF Remains, Wanted
<1>6. j \in hit /\ hit \subseteq Int /\ \A i \in hit : j <= i
  <2>1. ASSUME NEW i \in hit PROVE j <= i
    <3>1. i \in Slots /\ i \in Nat /\ z.native[i].code = n
      BY <1>1
    <3>2. CASE i \in 1 .. y.count
      <4>1. z.native[i].code = y.native[i].code \/ z.native[i] = Free
        BY <3>2 DEF Remains
      <4>2. Free.code # n
        BY NativesAssumption DEF Free
      <4> QED
        BY <1>4, <3>1, <3>2, <4>1, <4>2
    <3>3. CASE i \notin 1 .. y.count
      BY <1>1, <3>1, <3>3 DEF Slots
    <3> QED
      BY <3>2, <3>3
  <2> QED
    BY <1>1, <1>5, <2>1
<1>7. hit # {} /\ Min(hit) = j /\ j \in Slots
  <2> HIDE DEF hit
  <2> QED
    BY <1>1, <1>6, MinLeast
<1>8. \A i \in Wanted(y, w) : i # j => i \in Wanted(y, v)
  BY <1>2, <1>4 DEF Wanted
<1>9. \A i \in Wanted(y, v) : i \in Wanted(y, w)
  BY <1>1, <1>2, <1>4 DEF Wanted
<1>10. /\ IsFiniteSet(Wanted(y, w)) /\ Cardinality(Wanted(y, w)) \in 0 .. MaxNatives
       /\ IsFiniteSet(Wanted(y, v)) /\ Cardinality(Wanted(y, v)) \in 0 .. MaxNatives
  BY WantedFinite
<1>11. CASE v[n] = 0
  <2>1. z.native[j].owners = 1
    BY <1>2, <1>5, <1>11
  <2>2. b = [z EXCEPT !.native[j] = Free, !.count = @ - 1]
    BY <1>7, <2>1 DEF FailClean
  <2>3. Wanted(y, v) = Wanted(y, w) \ {j}
    <3>1. j \notin Wanted(y, v)
      BY <1>3, <1>11 DEF Wanted
    <3> QED
      BY <1>8, <1>9, <3>1
  <2>4. Cardinality(Wanted(y, v)) = Cardinality(Wanted(y, w)) - 1
    BY <1>5, <1>10, <2>3, FS_RemoveElement
  <2>5. z.count = Cardinality(Wanted(y, w))
    BY DEF Remains
  <2>6. /\ b \in EventSetRecs /\ SameList(z, b)
        /\ b.count = Cardinality(Wanted(y, v))
        /\ b.native[j] = Free
        /\ \A i \in Slots : i # j => b.native[i] = z.native[i]
    <3>1. z.count - 1 \in 0 .. MaxNatives
      BY <1>1, <1>10, <2>4, <2>5
    <3>2. Changed(z, b, j, Free, z.count - 1)
      BY <2>2 DEF Changed
    <3> HIDE DEF b
    <3> QED
      BY <1>7, <2>4, <2>5, <3>1, <3>2, FreeSlot, SlotChange
  <2> HIDE DEF b
  <2>7. Remains(y, b, v)
    <3>1. SameList(y, b)
      BY <2>6 DEF SameList, Remains
    <3>2. ASSUME NEW i \in 1 .. y.count
          PROVE  IF i \in Wanted(y, v)
                   THEN /\ b.native[i].code = y.native[i].code
                        /\ b.native[i].event = y.native[i].code
                        /\ b.native[i].pos = y.native[i].pos
                        /\ b.native[i].owners = v[y.native[i].code]
                   ELSE b.native[i] = Free
      <4>1. CASE i = j
        BY <2>3, <2>6, <4>1
      <4>2. CASE i # j
        <5>1. b.native[i] = z.native[i] /\ w[y.native[i].code] = v[y.native[i].code]
          BY <1>1, <1>2, <1>4, <2>6, <4>2
        <5>2. i \in Wanted(y, v) <=> i \in Wanted(y, w)
          BY <1>8, <1>9, <4>2
        <5> QED
          BY <5>1, <5>2 DEF Remains
      <4> QED
        BY <4>1, <4>2
    <3>3. \A i \in Slots : i > y.count => b.native[i] = y.native[i]
      BY <1>1, <2>6 DEF Remains
    <3> QED
      BY <2>6, <3>1, <3>2, <3>3 DEF Remains
  <2> QED
    BY <2>6, <2>7 DEF b
<1>12. CASE v[n] # 0
  <2>1. z.native[j].owners # 1 /\ z.native[j].owners \in Int
    BY <1>1, <1>2, <1>5, <1>12
  <2> DEFINE x == [z.native[j] EXCEPT !.owners = @ - 1]
  <2>2. b = [z EXCEPT !.native[j] = x]
    BY <1>7, <2>1 DEF FailClean
  <2>3. Wanted(y, v) = Wanted(y, w)
    <3>1. j \in Wanted(y, v)
      BY <1>1, <1>3, <1>12 DEF Wanted
    <3> QED
      BY <1>8, <1>9, <3>1
  <2>4. /\ x \in Slot /\ x.code = n /\ x.event = n /\ x.pos = y.native[j].pos
        /\ x.owners = v[n]
    BY <1>1, <1>2, <1>5, <1>7, <2>1 DEF Slot
  <2>5. /\ b \in EventSetRecs /\ SameList(z, b)
        /\ b.count = Cardinality(Wanted(y, v))
        /\ b.native[j] = x
        /\ \A i \in Slots : i # j => b.native[i] = z.native[i]
    <3>1. z.count = Cardinality(Wanted(y, v))
      BY <2>3 DEF Remains
    <3>2. Changed(z, b, j, x, z.count)
      BY <2>2 DEF EventSetRecs, Changed
    <3> HIDE DEF x, b
    <3> QED
      BY <1>1, <1>7, <2>4, <3>1, <3>2, SlotChange
  <2> HIDE DEF b, x
  <2>6. Remains(y, b, v)
    <3>1. SameList(y, b)
      BY <2>5 DEF SameList, Remains
    <3>2. ASSUME NEW i \in 1 .. y.count
          PROVE  IF i \in Wanted(y, v)
                   THEN /\ b.native[i].code = y.native[i].code
                        /\ b.native[i].event = y.native[i].code
                        /\ b.native[i].pos = y.native[i].pos
                        /\ b.native[i].owners = v[y.native[i].code]
                   ELSE b.native[i] = Free
      <4>1. CASE i = j
        BY <1>3, <1>5, <2>3, <2>4, <2>5, <4>1
      <4>2. CASE i # j
        <5>1. b.native[i] = z.native[i] /\ w[y.native[i].code] = v[y.native[i].code]
          BY <1>1, <1>2, <1>4, <2>5, <4>2
        <5> QED
          BY <2>3, <5>1 DEF Remains
      <4> QED
        BY <4>1, <4>2
    <3>3. \A i \in Slots : i > y.count => b.native[i] = y.native[i]
      BY <1>1, <2>5 DEF Remains
    <3> QED
      BY <2>5, <3>1, <3>2, <3>3 DEF Remains
  <2> QED
    BY <2>5, <2>6 DEF b
<1> QED
  BY <1>11, <1>12

(* Cleaning the first d native events of s, which are those that were      *)
(* added, restores the array that u counts.                                *)
LEMMA CleanEvents ==
  ASSUME NEW y \in EventSetRecs, NEW u \in Counts, NEW s \in Seq(Natives),
         Dense(y, Plus(u, s, 1, Len(s)))
  PROVE  /\ FoldLeft(FailClean, y, s) \in EventSetRecs
         /\ Remains(y, FoldLeft(FailClean, y, s), u)
<1> DEFINE d == Len(s)
           t == Plus(u, s, 1, d)
<1>1. /\ d \in Nat /\ DOMAIN s = 1 .. d
      /\ \A k \in 0 .. d - 1 : s[k + 1] \in Natives
  BY LenProperties, ElementOfSeq
<1> HIDE DEF d
<1>2. PICK r : Goes(r, "clean", y, s, d) /\ r[d] = FoldLeft(FailClean, y, s)
  BY <1>1, CleanLoop, Zenon
<1> DEFINE P == {k \in Nat : r[k] \in EventSetRecs /\ Remains(y, r[k], Plus(u, s, k + 1, d))}
<1>3. t \in Counts /\ Dense(y, t)
  BY <1>1, PlusType DEF d
<1>4. 0 \in P
  <2>1. r[0] = y
    BY <1>2 DEF Goes
  <2>2. y.count \in Nat /\ 1 .. y.count \subseteq Slots
    BY CountBounds
  <2>3. Wanted(y, t) = 1 .. y.count
    BY <1>3, <2>2 DEF Dense, Wanted
  <2>4. Cardinality(Wanted(y, t)) = y.count
    BY <2>2, <2>3, UpTo
  <2>5. Remains(y, y, t)
    <3> HIDE DEF t
    <3> QED
      BY <1>3, <2>3, <2>4 DEF Remains, Dense, SameList
  <2> QED
    BY <2>1, <2>5
<1>5. ASSUME NEW k \in 0 .. d - 1, k \in P PROVE k + 1 \in P
  <2> DEFINE n == s[k + 1]
             w == Plus(u, s, k + 1, d)
             v == Plus(u, s, k + 1 + 1, d)
  <2>1. k \in Nat /\ k + 1 \in Nat /\ k + 1 + 1 \in Nat /\ k + 1 <= d
    BY <1>1
  <2>2. w \in Counts /\ v \in Counts /\ n \in Natives
    BY <1>1, <2>1, PlusType
  <2>3. Counted(v, w, n)
    BY <1>1, <2>1, PlusFirst DEF Counted
  <2>4. \A m \in Natives : w[m] <= t[m]
    <3> TAKE m \in Natives
    <3>1. Drawn(s, k + 1, d, m) \in SUBSET Drawn(s, 1, d, m)
      BY <2>1 DEF Drawn
    <3>2. IsFiniteSet(Drawn(s, 1, d, m)) /\ Cardinality(Drawn(s, 1, d, m)) \in Nat
      BY <1>1, DrawnFinite
    <3>3. Cardinality(Drawn(s, k + 1, d, m)) \in Nat
      BY <1>1, <2>1, DrawnFinite
    <3>4. Cardinality(Drawn(s, k + 1, d, m)) <= Cardinality(Drawn(s, 1, d, m))
      BY <3>1, <3>2, FS_Subset
    <3> QED
      BY <3>2, <3>3, <3>4 DEF Plus, Counts
  <2>5. r[k + 1] = FailClean(r[k], n)
    BY <1>2 DEF Goes, Turn
  <2>6. r[k] \in EventSetRecs /\ Remains(y, r[k], w)
    BY <1>5
  <2> HIDE DEF n, w, v, t
  <2>7. FailClean(r[k], n) \in EventSetRecs /\ Remains(y, FailClean(r[k], n), v)
    BY <1>3, <2>2, <2>3, <2>4, <2>6, CleanTurn
  <2> QED
    BY <2>1, <2>5, <2>7 DEF v
<1>6. \A k \in 0 .. d : k \in P
  <2> HIDE DEF P
  <2> QED
    BY <1>1, <1>4, <1>5, Inductive
<1>7. Plus(u, s, d + 1, d) = u
  BY <1>1, PlusNone
<1>8. r[d] \in EventSetRecs /\ Remains(y, r[d], Plus(u, s, d + 1, d))
  BY <1>1, <1>6
<1> QED
  BY <1>2, <1>7, <1>8

(* What remains is the array as it was before the event was added. *)
LEMMA CleanRestores ==
  ASSUME NEW e \in EventSetRecs, NEW u \in Counts, Dense(e, u),
         NEW y \in EventSetRecs, e.count <= y.count,
         \A i \in 1 .. e.count : y.native[i].code = e.native[i].code,
         \A i \in e.count + 1 .. y.count : u[y.native[i].code] = 0,
         \A i \in Slots : i > y.count => y.native[i].owners = 0,
         NEW z \in EventSetRecs, Remains(y, z, u)
  PROVE  /\ Dense(z, u) /\ z.count = e.count /\ SameList(y, z)
         /\ \A i \in 1 .. e.count : /\ z.native[i].code = e.native[i].code
                                    /\ z.native[i].pos = y.native[i].pos
<1>1. /\ e.count \in Nat /\ y.count \in Nat /\ 1 .. y.count \subseteq Slots
      /\ \A i \in Slots : i \in Nat
  BY CountBounds
<1>2. \A i \in 1 .. y.count : i \in Wanted(y, u) <=> i \in 1 .. e.count
  <2> TAKE i \in 1 .. y.count
  <2>1. CASE i \in 1 .. e.count
    BY <2>1 DEF Dense, Wanted
  <2>2. CASE i \notin 1 .. e.count
    <3>1. i \in e.count + 1 .. y.count
      BY <1>1, <2>2
    <3> QED
      BY <2>2, <3>1 DEF Wanted
  <2> QED
    BY <2>1, <2>2
<1>3. Wanted(y, u) = 1 .. e.count
  BY <1>1, <1>2 DEF Wanted
<1>4. z.count = e.count
  BY <1>1, <1>3, UpTo DEF Remains
<1>5. ASSUME NEW i \in 1 .. e.count
      PROVE  /\ z.native[i].code = e.native[i].code
             /\ z.native[i].event = e.native[i].code
             /\ z.native[i].pos = y.native[i].pos
             /\ z.native[i].owners = u[e.native[i].code]
  <2>1. i \in 1 .. y.count
    BY <1>1
  <2> QED
    BY <1>3, <2>1 DEF Remains
<1>6. ASSUME NEW i \in Slots, i > z.count PROVE z.native[i].owners = 0
  <2>1. CASE i > y.count
    BY <2>1 DEF Remains
  <2>2. CASE ~(i > y.count)
    <3>1. i \in 1 .. y.count /\ i \notin 1 .. e.count
      BY <1>1, <1>4, <1>6, <2>2 DEF Slots
    <3> QED
      BY <1>3, <3>1 DEF Remains, Free
  <2> QED
    BY <2>1, <2>2
<1>7. Dense(z, u)
  BY <1>4, <1>5, <1>6 DEF Dense
<1> QED
  BY <1>4, <1>5, <1>7 DEF Remains

-----------------------------------------------------------------------------
(***************************************************************************)
(* _pe_update_control_state and _papi_hwi_map_events_to_native.            *)
(***************************************************************************)
Placed(e) == \A i \in 1 .. e.count : e.native[i].pos = i

Opened(e) == e.open = [i \in 1 .. e.count |-> e.native[i].code]

(* What r, an outcome for e, is: the slots in use have got their positions *)
(* and are open, or nothing is.                                            *)
Controlled(e, r, kind) ==
  /\ r.ok \in BOOLEAN
  /\ r.e \in EventSetRecs
  /\ r.e.assigned = e.assigned /\ r.e.events = e.events /\ r.e.count = e.count
  /\ \A i \in Slots : /\ r.e.native[i].code = e.native[i].code
                      /\ r.e.native[i].event = e.native[i].event
                      /\ r.e.native[i].owners = e.native[i].owners
  /\ Placed(r.e)
  /\ IF r.ok THEN e.count <= NumCounters /\ Opened(r.e)
     ELSE /\ r.e.open = <<>>
          /\ e.count > NumCounters \/ kind \in Faults

LEMMA UpdateOutcomes ==
  ASSUME NEW e \in EventSetRecs, \A i \in 1 .. e.count : e.native[i].code \in Natives,
         NEW kind, NEW r \in UpdateControlState(e, kind)
  PROVE  Controlled(e, r, kind)
<1>1. /\ e.count \in Nat /\ 1 .. e.count \subseteq Slots /\ MaxNatives \in Nat
      /\ e.count <= MaxNatives /\ e.native \in [Slots -> Slot] /\ NumCounters \in Nat
      /\ \A i \in Slots : i \in Nat
  BY CountBounds, CountersAssumption DEF EventSetRecs
<1> DEFINE nat == [i \in Slots |->
                     IF i <= e.count THEN [e.native[i] EXCEPT !.pos = i] ELSE e.native[i]]
           placed == [e EXCEPT !.native = nat]
           fits   == e.count <= NumCounters
           opened == [i \in 1 .. e.count |-> e.native[i].code]
<1>2. /\ nat \in [Slots -> Slot]
      /\ \A i \in Slots : /\ nat[i].code = e.native[i].code
                          /\ nat[i].event = e.native[i].event
                          /\ nat[i].owners = e.native[i].owners
                          /\ i <= e.count => nat[i].pos = i
  <2>1. ASSUME NEW i \in Slots
        PROVE  /\ nat[i] \in Slot
               /\ nat[i].code = e.native[i].code
               /\ nat[i].event = e.native[i].event
               /\ nat[i].owners = e.native[i].owners
               /\ i <= e.count => nat[i].pos = i
    <3>1. e.native[i] \in Slot /\ nat[i] = IF i <= e.count THEN [e.native[i] EXCEPT !.pos = i] ELSE e.native[i]
      BY <1>1
    <3>2. i <= e.count => i \in 0 .. MaxNatives
      BY <1>1
    <3> HIDE DEF nat
    <3> QED
      BY <3>1, <3>2 DEF Slot
  <2> QED
    BY <2>1
<1>3. opened \in Seq(Natives)
  BY <1>1
<1>4. PICK ok \in BOOLEAN :
        /\ IF ok THEN fits ELSE ~fits \/ (kind \in Faults /\ e.count > 0)
        /\ r = [ok |-> ok, e |-> [placed EXCEPT !.open =
                                    IF ok THEN opened ELSE <<>>]]
  BY DEF UpdateControlState
<1>5. <<>> \in Seq(Natives)
  OBVIOUS
<1> DEFINE open == IF ok THEN opened ELSE <<>>
           f    == [placed EXCEPT !.open = open]
<1>6. open \in Seq(Natives)
  BY <1>3, <1>5
<1>7. f \in EventSetRecs /\ f.assigned = e.assigned /\ f.events = e.events
      /\ f.count = e.count /\ f.native = nat /\ f.open = open
  <2> HIDE DEF nat, open
  <2> QED
    BY <1>2, <1>6 DEF EventSetRecs
<1>8. r.ok = ok /\ r.e = f
  BY <1>4
<1>9. Placed(f)
  <2> HIDE DEF nat, f
  <2> QED
    BY <1>1, <1>2, <1>7 DEF Placed
<1>10. ok => Opened(f)
  <2>1. \A i \in 1 .. e.count : e.native[i].code = nat[i].code
    BY <1>1, <1>2
  <2>2. opened = [i \in 1 .. e.count |-> nat[i].code]
    BY <2>1
  <2> HIDE DEF nat, f, opened
  <2> QED
    BY <1>7, <2>2 DEF Opened
<1>11. ~fits => e.count > NumCounters
  BY <1>1
<1> HIDE DEF nat, f, opened
<1> QED
  BY <1>2, <1>4, <1>7, <1>8, <1>9, <1>10, <1>11 DEF Controlled

(* The positions of event v of a list lead to its native events. *)
Leads(e, v) ==
  /\ Len(v.pos) = Len(NativesOf(v.code))
  /\ \A k \in 1 .. Len(NativesOf(v.code)) :
       v.pos[k] \in 1 .. e.count /\ e.native[v.pos[k]].code = NativesOf(v.code)[k]

(* f is e with the positions of its events as they should be. *)
Mapped(e, f) ==
  /\ f \in EventSetRecs
  /\ f.assigned = e.assigned /\ f.native = e.native /\ f.count = e.count
  /\ f.open = e.open
  /\ DOMAIN f.events = DOMAIN e.events /\ Len(f.events) = Len(e.events)
  /\ \A i \in DOMAIN e.events :
       f.events[i].code = e.events[i].code /\ Leads(e, f.events[i])

LEMMA MapEventsFinds ==
  ASSUME NEW e \in EventSetRecs, NEW u \in Counts, Dense(e, u), Placed(e),
         \A i \in DOMAIN e.events :
           /\ Len(e.events[i].pos) = Len(NativesOf(e.events[i].code))
           /\ \A k \in 1 .. Len(NativesOf(e.events[i].code)) :
                u[NativesOf(e.events[i].code)[k]] > 0
  PROVE  Mapped(e, MapEvents(e))
<1> DEFINE hits(c, n) == IF c \in Natives THEN Holding(e, n)
                         ELSE {i \in 1 .. e.count : e.native[i].code = n}
           lost == {i \in DOMAIN e.events :
                      LET c == e.events[i].code IN c \in Natives /\ hits(c, c) = {}}
           mapped(v) == [k \in DOMAIN v.pos |->
                           LET hit == hits(v.code, NativesOf(v.code)[k])
                           IN IF hit = {} THEN v.pos[k] ELSE e.native[Min(hit)].pos]
           evs == [i \in DOMAIN e.events |->
                     [e.events[i] EXCEPT !.pos = mapped(e.events[i])]]
<1>1. /\ e.count \in Nat /\ e.count <= MaxNatives /\ MaxNatives \in Nat
      /\ e.events \in Seq(Info)
      /\ \A i \in DOMAIN e.events : e.events[i] \in Info
  BY CountBounds DEF EventSetRecs
<1>2. ASSUME NEW i \in DOMAIN e.events, NEW c, c = e.events[i].code,
             NEW k \in 1 .. Len(NativesOf(c))
      PROVE  \E j \in 1 .. e.count : /\ e.native[j].code = NativesOf(c)[k]
                                     /\ hits(c, NativesOf(c)[k]) = {j}
                                     /\ Min({j}) = j
  <2> DEFINE n == NativesOf(c)[k]
  <2>1. c \in Events
    BY <1>1, <1>2 DEF Info
  <2>2. n \in Natives
    BY <2>1, NativesOfType
  <2>3. u[n] > 0 /\ u[n] \in Nat
    BY <1>2, <2>2 DEF Counts
  <2>4. u[n] # 0
    BY <2>3
  <2> HIDE DEF n
  <2>5. PICK j \in 1 .. e.count : /\ e.native[j].code = n
                                  /\ Holding(e, n) = {j}
                                  /\ Min(Holding(e, n)) = j
    BY <2>2, <2>4, HoldingDense
  <2>6. {x \in 1 .. e.count : e.native[x].code = n} = {j}
    BY <2>5 DEF Dense
  <2> QED
    BY <2>5, <2>6 DEF n
<1>3. lost = {}
  <2> SUFFICES ASSUME NEW i \in DOMAIN e.events, e.events[i].code \in Natives
               PROVE  hits(e.events[i].code, e.events[i].code) # {}
    OBVIOUS
  <2> DEFINE c == e.events[i].code
  <2>1. NativesOf(c) = <<c>>
    BY DEF NativesOf
  <2>2. 1 \in 1 .. Len(NativesOf(c)) /\ NativesOf(c)[1] = c
    BY <2>1
  <2>3. u[c] > 0 /\ u[c] \in Nat /\ c \in Natives
    BY <2>2 DEF Counts
  <2>4. u[c] # 0
    BY <2>3
  <2>5. hits(c, c) = Holding(e, c)
    BY <2>3
  <2> HIDE DEF hits, c
  <2>6. Holding(e, c) # {}
    BY <2>3, <2>4, HoldingDense
  <2> QED
    BY <2>5, <2>6 DEF c
<1>4. MapEvents(e) = [e EXCEPT !.events = evs]
  <2>1. \A i \in DOMAIN e.events : ~\E j \in lost : j <= i
    BY <1>3
  <2>2. MapEvents(e) = [e EXCEPT !.events = [i \in DOMAIN e.events |->
          IF \E j \in lost : j <= i THEN e.events[i]
          ELSE [e.events[i] EXCEPT !.pos = mapped(e.events[i])]]]
    BY Zenon DEF MapEvents
  <2> HIDE DEF lost, mapped
  <2>3. [i \in DOMAIN e.events |->
           IF \E j \in lost : j <= i THEN e.events[i]
           ELSE [e.events[i] EXCEPT !.pos = mapped(e.events[i])]] = evs
    BY <2>1
  <2> QED
    BY <2>2, <2>3, Zenon
<1>5. ASSUME NEW i \in DOMAIN e.events
      PROVE  /\ evs[i] \in Info
             /\ evs[i].code = e.events[i].code
             /\ Leads(e, evs[i])
  <2> DEFINE v == e.events[i]
             N == NativesOf(v.code)
             p == mapped(v)
  <2>1. v \in Info /\ v.pos \in Seq(0 .. MaxNatives) /\ Len(v.pos) = Len(N)
    BY <1>1 DEF Info
  <2>2. DOMAIN v.pos = 1 .. Len(N) /\ Len(N) \in Nat
    BY <2>1, LenProperties
  <2>3. ASSUME NEW k \in 1 .. Len(N)
        PROVE  p[k] \in 1 .. e.count /\ e.native[p[k]].code = N[k]
    <3>1. PICK j \in 1 .. e.count : /\ e.native[j].code = N[k]
                                    /\ hits(v.code, N[k]) = {j}
                                    /\ Min({j}) = j
      <4> HIDE DEF hits
      <4> QED
        BY <1>2
    <3> HIDE DEF hits
    <3>2. p[k] = e.native[j].pos
      BY <2>2, <3>1
    <3>3. p[k] = j
      BY <3>1, <3>2 DEF Placed
    <3> QED
      BY <3>1, <3>3
  <2>4. p = [k \in 1 .. Len(N) |-> p[k]]
    BY <2>2
  <2> HIDE DEF p
  <2>5. p \in Seq(0 .. MaxNatives) /\ Len(p) = Len(N)
    <3>1. \A k \in 1 .. Len(N) : p[k] \in 0 .. MaxNatives
      BY <1>1, <2>3
    <3> QED
      BY <2>2, <2>4, <3>1
  <2>6. evs[i] = [v EXCEPT !.pos = p]
    BY DEF p
  <2> HIDE DEF evs
  <2>7. evs[i] \in Info /\ evs[i].code = v.code /\ evs[i].pos = p
    BY <2>1, <2>5, <2>6 DEF Info
  <2> QED
    BY <2>3, <2>5, <2>7 DEF Leads
<1>6. evs \in Seq(Info) /\ Len(evs) = Len(e.events) /\ DOMAIN evs = DOMAIN e.events
  <2>1. DOMAIN e.events = 1 .. Len(e.events) /\ Len(e.events) \in Nat
    BY <1>1, LenProperties
  <2>2. evs = [i \in 1 .. Len(e.events) |-> evs[i]]
    BY <2>1
  <2> HIDE DEF evs
  <2> QED
    BY <1>5, <2>1, <2>2
<1> DEFINE f == [e EXCEPT !.events = evs]
<1>7. f \in EventSetRecs /\ f.events = evs /\ f.assigned = e.assigned
      /\ f.native = e.native /\ f.count = e.count /\ f.open = e.open
  <2> HIDE DEF evs
  <2> QED
    BY <1>6 DEF EventSetRecs
<1> HIDE DEF evs, f
<1>8. Mapped(e, f)
  BY <1>5, <1>6, <1>7 DEF Mapped
<1> QED
  BY <1>4, <1>8 DEF f

-----------------------------------------------------------------------------
(***************************************************************************)
(* A sound set.                                                            *)
(***************************************************************************)
UsedBy(e, p, n) ==
  \E k \in 1 .. Len(NativesOf(e.events[p].code)) :
     NativesOf(e.events[p].code)[k] = n

(* A slot was taken by an event that comes no later in the list than any   *)
(* event that uses a slot behind it: what the last event alone uses is at  *)
(* the end.                                                                *)
Stacked(e) ==
  \A i, j \in 1 .. e.count : i < j =>
    \A p \in DOMAIN e.events :
      UsedBy(e, p, e.native[j].code) =>
        \E q \in 1 .. p : UsedBy(e, q, e.native[i].code)

Listing(e) ==
  /\ Len(e.events) <= MaxNatives
  /\ \A i, j \in DOMAIN e.events : e.events[i].code = e.events[j].code => i = j
  /\ \A i \in DOMAIN e.events :
       NativesOf(e.events[i].code) # <<>> /\ Leads(e, e.events[i])

Sound(e) ==
  /\ e \in EventSetRecs
  /\ e.count <= NumCounters
  /\ Dense(e, UseCount(e)) /\ Placed(e) /\ Stacked(e) /\ Listing(e)
  /\ e.open = <<>> \/ Opened(e)

LEMMA ListFacts ==
  ASSUME NEW e \in EventSetRecs
  PROVE  /\ Len(e.events) \in Nat /\ DOMAIN e.events = 1 .. Len(e.events)
         /\ e.events \in Seq(Info) /\ Lists(e)
         /\ \A i \in DOMAIN e.events :
              /\ e.events[i] \in Info
              /\ e.events[i].code \in Events
              /\ e.events[i].pos \in Seq(0 .. MaxNatives)
<1>1. e.events \in Seq(Info)
  BY DEF EventSetRecs
<1>2. Len(e.events) \in Nat /\ DOMAIN e.events = 1 .. Len(e.events)
      /\ \A i \in DOMAIN e.events : e.events[i] \in Info
  BY <1>1, LenProperties
<1> QED
  BY <1>1, <1>2 DEF Lists, Info

LEMMA UsedCount ==
  ASSUME NEW e \in EventSetRecs
  PROVE  /\ UseCount(e) \in Counts
         /\ \A n \in Natives : /\ UseCount(e)[n] \in Nat
                               /\ UseCount(e)[n] > 0 <=>
                                    \E q \in DOMAIN e.events : UsedBy(e, q, n)
<1>1. Len(e.events) \in Nat /\ DOMAIN e.events = 1 .. Len(e.events) /\ Lists(e)
  BY ListFacts
<1>2. UseCount(e) \in Counts
      /\ \A n \in Natives : UseCount(e)[n] > 0 <=> Uses(e, n) # {}
  BY <1>1, UseCountType
<1>3. \A i \in DOMAIN e.events :
         DOMAIN NativesOf(e.events[i].code) = 1 .. Len(NativesOf(e.events[i].code))
  BY NativesOfType DEF Lists
<1>4. \A n : Uses(e, n) # {} <=> \E q \in DOMAIN e.events : UsedBy(e, q, n)
  <2> TAKE n
  <2>1. Uses(e, n) # {} <=>
           \E i \in DOMAIN e.events : \E k \in DOMAIN NativesOf(e.events[i].code) :
              NativesOf(e.events[i].code)[k] = n
    BY UsesMember
  <2> QED
    BY <1>3, <2>1 DEF UsedBy
<1> QED
  BY <1>2, <1>4 DEF Counts

(* g is y with the list evs. *)
Relisted(y, g, evs) == g = [y EXCEPT !.events = evs]

SameArray(e, f) ==
  f.native = e.native /\ f.count = e.count /\ f.open = e.open

LEMMA ListChange ==
  ASSUME NEW y \in EventSetRecs, NEW evs \in Seq(Info), NEW g, Relisted(y, g, evs)
  PROVE  /\ g \in EventSetRecs /\ g.events = evs /\ g.assigned = y.assigned
         /\ SameArray(y, g)
BY DEF EventSetRecs, Relisted, SameArray

LEMMA ArrayKept ==
  ASSUME NEW e, NEW f, SameArray(e, f), NEW u
  PROVE  /\ Dense(e, u) => Dense(f, u)
         /\ Placed(e) => Placed(f)
         /\ e.open = <<>> \/ Opened(e) => f.open = <<>> \/ Opened(f)
         /\ \A v : Leads(e, v) => Leads(f, v)
<1>1. f.native = e.native /\ f.count = e.count /\ f.open = e.open
  BY DEF SameArray
<1>2. Dense(e, u) => Dense(f, u)
  BY <1>1 DEF Dense
<1>3. Placed(e) => Placed(f)
  BY <1>1 DEF Placed
<1>4. e.open = <<>> \/ Opened(e) => f.open = <<>> \/ Opened(f)
  BY <1>1 DEF Opened
<1>5. \A v : Leads(e, v) => Leads(f, v)
  BY <1>1 DEF Leads
<1> QED
  BY <1>2, <1>3, <1>4, <1>5

(* Whatever has the same list over the same slots is sound as well. *)
LEMMA SoundRestored ==
  ASSUME NEW e, Sound(e), NEW z \in EventSetRecs,
         z.events = e.events, z.count = e.count,
         \A i \in 1 .. e.count : z.native[i].code = e.native[i].code,
         Dense(z, UseCount(e)), Placed(z), z.open = <<>> \/ Opened(z)
  PROVE  Sound(z)
<1>1. UseCount(z) = UseCount(e)
  BY UseCountSame
<1>2. Stacked(z)
  <2>1. \A p, n : UsedBy(z, p, n) <=> UsedBy(e, p, n)
    BY DEF UsedBy
  <2> QED
    BY <2>1 DEF Sound, Stacked
<1>3. Listing(z)
  <2>1. Listing(e)
    BY DEF Sound
  <2>2. \A v : Leads(e, v) => Leads(z, v)
    <3> TAKE v
    <3> DEFINE N == NativesOf(v.code)
    <3> HIDE DEF N
    <3> SUFFICES ASSUME Len(v.pos) = Len(N),
                        \A k \in 1 .. Len(N) : /\ v.pos[k] \in 1 .. e.count
                                               /\ e.native[v.pos[k]].code = N[k]
                 PROVE  \A k \in 1 .. Len(N) : /\ v.pos[k] \in 1 .. z.count
                                               /\ z.native[v.pos[k]].code = N[k]
      BY DEF Leads, N
    <3> TAKE k \in 1 .. Len(N)
    <3>1. v.pos[k] \in 1 .. e.count /\ e.native[v.pos[k]].code = N[k]
      OBVIOUS
    <3> QED
      BY <3>1
  <2> QED
    BY <2>1, <2>2 DEF Listing
<1> QED
  BY <1>1, <1>2, <1>3 DEF Sound

-----------------------------------------------------------------------------
(***************************************************************************)
(* PAPI_add_event.                                                         *)
(***************************************************************************)

(* y is e with the native events s of event c in its array, new ones       *)
(* behind the others.                                                      *)
Extended(e, y, s) ==
  /\ y \in EventSetRecs
  /\ y.events = e.events
  /\ e.count <= y.count /\ y.count <= NumCounters
  /\ \A i \in 1 .. e.count : y.native[i].code = e.native[i].code
  /\ \A i \in e.count + 1 .. y.count :
       y.native[i].code \in Natives /\ UseCount(e)[y.native[i].code] = 0
  /\ Dense(y, Plus(UseCount(e), s, 1, Len(s)))
  /\ Placed(y)
  /\ y.open = <<>> \/ Opened(y)

LEMMA PlusMore ==
  ASSUME NEW u \in Counts, NEW s, NEW k \in Nat, NEW n \in Natives,
         Plus(u, s, 1, k)[n] > u[n]
  PROVE  \E x \in 1 .. k : s[x] = n
<1>1. /\ Cardinality(Drawn(s, 1, k, n)) \in Nat
      /\ Cardinality(Drawn(s, 1, k, n)) > 0 <=> \E x \in 1 .. k : s[x] = n
  BY DrawnFinite
<1>2. Plus(u, s, 1, k)[n] = u[n] + Cardinality(Drawn(s, 1, k, n)) /\ u[n] \in Nat
  BY DEF Plus, Counts
<1> QED
  BY <1>1, <1>2

(* f is a sound set whose list is that of e and c. *)
Grown(e, f, c) ==
  /\ Sound(f)
  /\ Len(f.events) = Len(e.events) + 1
  /\ f.events[Len(e.events) + 1].code = c
  /\ \A i \in 1 .. Len(e.events) : f.events[i].code = e.events[i].code

LEMMA ListedSound ==
  ASSUME NEW e, Sound(e), NEW c \in Events, NEW s, s = NativesOf(c), s # <<>>,
         \A i \in DOMAIN e.events : e.events[i].code # c,
         Len(e.events) < MaxNatives,
         NEW y, Extended(e, y, s),
         NEW pos \in Seq(0 .. MaxNatives), Len(pos) = Len(s)
  PROVE  Grown(e, Listed(y, c, pos), c)
<1> DEFINE L == Len(e.events)
           u == UseCount(e)
           g == [y EXCEPT !.events = Append(@, [code |-> c, pos |-> pos])]
           f == Listed(y, c, pos)
           v == Plus(u, s, 1, Len(s))
<1>1. /\ e \in EventSetRecs /\ y \in EventSetRecs
      /\ L \in Nat /\ DOMAIN e.events = 1 .. L /\ e.events \in Seq(Info)
      /\ u \in Counts /\ y.events = e.events
      /\ e.count \in Nat /\ y.count \in Nat /\ e.count <= y.count
      /\ 1 .. y.count \subseteq Slots
  BY ListFacts, UsedCount, CountBounds DEF Sound, Extended
<1>2. Len(s) \in Nat /\ \A k \in 1 .. Len(s) : s[k] \in Natives
  BY NativesOfType
<1>3. /\ g \in EventSetRecs /\ g.native = y.native /\ g.count = y.count
      /\ g.open = y.open /\ SameArray(y, g)
      /\ Len(g.events) = L + 1 /\ DOMAIN g.events = 1 .. L + 1
      /\ g.events[L + 1].code = c /\ g.events[L + 1].pos = pos
      /\ \A i \in 1 .. L : g.events[i] = e.events[i]
  <2>1. [code |-> c, pos |-> pos] \in Info
    BY DEF Info
  <2> DEFINE w == [code |-> c, pos |-> pos]
             evs == Append(e.events, w)
  <2>2. /\ evs \in Seq(Info) /\ Len(evs) = L + 1 /\ DOMAIN evs = 1 .. L + 1
        /\ evs[L + 1] = w /\ \A i \in 1 .. L : evs[i] = e.events[i]
    <3> HIDE DEF w
    <3> QED
      BY <1>1, <2>1 DEF w
  <2>3. Relisted(y, g, evs)
    BY <1>1 DEF Relisted
  <2> HIDE DEF evs, g
  <2>4. g \in EventSetRecs /\ g.events = evs /\ SameArray(y, g)
    BY <1>1, <2>2, <2>3, ListChange
  <2>5. evs[L + 1].code = c /\ evs[L + 1].pos = pos
    BY <2>2
  <2> QED
    BY <2>2, <2>4, <2>5 DEF SameArray
<1> HIDE DEF g
<1>4. UseCount(g) = v
  <2>1. Lists(g)
    BY <1>3, ListFacts
  <2>2. \A i \in 1 .. L : e.events[i].code = g.events[i].code
    BY <1>3
  <2>3. s = NativesOf(g.events[L + 1].code)
    BY <1>3
  <2>4. UseCount(g) = Plus(UseCount(e), s, 1, Len(s))
    <3> HIDE DEF L
    <3> QED
      BY <1>1, <1>3, <2>1, <2>2, <2>3, UseCountGrows
  <2> QED
    BY <2>4
<1>5. v \in Counts /\ Dense(g, v) /\ Placed(g) /\ (g.open = <<>> \/ Opened(g))
  <2>1. v \in Counts
    BY <1>1, <1>2, PlusType
  <2> HIDE DEF v, u
  <2>2. Dense(y, v) /\ Placed(y) /\ (y.open = <<>> \/ Opened(y))
    BY DEF Extended, v, u
  <2> QED
    BY <1>3, <2>1, <2>2, ArrayKept
<1>6. Mapped(g, f)
  <2>1. ASSUME NEW i \in DOMAIN g.events
        PROVE  /\ Len(g.events[i].pos) = Len(NativesOf(g.events[i].code))
               /\ \A k \in 1 .. Len(NativesOf(g.events[i].code)) :
                    v[NativesOf(g.events[i].code)[k]] > 0
    <3>1. Len(g.events[i].pos) = Len(NativesOf(g.events[i].code))
      <4>1. CASE i \in 1 .. L
        BY <1>1, <1>3, <4>1 DEF Sound, Listing, Leads
      <4>2. CASE i = L + 1
        BY <1>3, <4>2
      <4> QED
        BY <1>1, <1>3, <4>1, <4>2
    <3>2. ASSUME NEW k \in 1 .. Len(NativesOf(g.events[i].code))
          PROVE  v[NativesOf(g.events[i].code)[k]] > 0
      <4>1. NativesOf(g.events[i].code)[k] \in Natives
        BY <1>3, ListFacts, NativesOfType
      <4>2. UsedBy(g, i, NativesOf(g.events[i].code)[k])
        BY DEF UsedBy
      <4> QED
        BY <1>3, <1>4, <4>1, <4>2, UsedCount
    <3> QED
      BY <3>1, <3>2
  <2>2. f = MapEvents(g)
    BY DEF Listed, g
  <2> HIDE DEF f, v
  <2>3. Mapped(g, MapEvents(g))
    BY <1>3, <1>5, <2>1, MapEventsFinds
  <2> QED
    BY <2>2, <2>3
<1> HIDE DEF f
<1>7. /\ f \in EventSetRecs /\ f.native = g.native /\ f.count = g.count
      /\ f.open = g.open /\ Len(f.events) = L + 1 /\ DOMAIN f.events = 1 .. L + 1
      /\ \A i \in 1 .. L + 1 : /\ f.events[i].code = g.events[i].code
                               /\ Leads(g, f.events[i])
  BY <1>3, <1>6 DEF Mapped
<1>8. UseCount(f) = v
  <2>1. UseCount(f) = UseCount(g)
    <3>1. DOMAIN f.events = DOMAIN g.events
      BY <1>3, <1>7
    <3>2. \A i \in DOMAIN f.events : f.events[i].code = g.events[i].code
      BY <1>7
    <3> QED
      BY <3>1, <3>2, UseCountSame
  <2> QED
    BY <1>4, <2>1
<1>9. Dense(f, v) /\ Placed(f) /\ (f.open = <<>> \/ Opened(f))
  <2> HIDE DEF v
  <2>1. SameArray(g, f)
    BY <1>7 DEF SameArray
  <2> QED
    BY <1>5, <2>1, ArrayKept
<1>10. /\ f.events[L + 1].code = c
       /\ \A i \in 1 .. L : f.events[i].code = e.events[i].code
  <2>1. L + 1 \in 1 .. L + 1 /\ \A i \in 1 .. L : i \in 1 .. L + 1
    BY <1>1
  <2> QED
    BY <1>3, <1>7, <2>1
<1>11. Listing(f)
  <2>1. L + 1 <= MaxNatives
    BY <1>1, CountersAssumption
  <2>2. \A i, j \in 1 .. L + 1 : f.events[i].code = f.events[j].code => i = j
    <3>1. \A i \in 1 .. L + 1 : i \in 1 .. L \/ i = L + 1
      BY <1>1
    <3>2. \A i, j \in 1 .. L : e.events[i].code = e.events[j].code => i = j
      BY <1>1 DEF Sound, Listing
    <3>3. \A i \in 1 .. L : e.events[i].code # c
      BY <1>1
    <3> QED
      BY <1>10, <3>1, <3>2, <3>3
  <2>3. \A i \in 1 .. L + 1 : NativesOf(f.events[i].code) # <<>>
    <3>1. \A i \in 1 .. L + 1 : i \in 1 .. L \/ i = L + 1
      BY <1>1
    <3> QED
      BY <1>1, <1>10, <3>1 DEF Sound, Listing
  <2>4. \A i \in 1 .. L + 1 : Leads(f, f.events[i])
    BY <1>7 DEF Leads
  <2> QED
    BY <1>7, <2>1, <2>2, <2>3, <2>4 DEF Listing
<1>12. Stacked(f)
  <2> SUFFICES ASSUME NEW i \in 1 .. f.count, NEW j \in 1 .. f.count, i < j,
                      NEW p \in DOMAIN f.events,
                      UsedBy(f, p, f.native[j].code)
               PROVE  \E q \in 1 .. p : UsedBy(f, q, f.native[i].code)
    BY DEF Stacked
  <2> DEFINE a == f.native[i].code
             b == f.native[j].code
  <2>1. a \in Natives /\ b \in Natives
    BY <1>9 DEF Dense
  <2>2. \A x \in 1 .. L : \A n : UsedBy(f, x, n) <=> UsedBy(e, x, n)
    BY <1>10 DEF UsedBy
  <2>3. /\ i \in Nat /\ j \in Nat /\ i <= y.count /\ j <= y.count
        /\ f.native = y.native
    BY <1>1, <1>3, <1>7
  <2>4. /\ \A x \in 1 .. e.count : f.native[x].code = e.native[x].code
        /\ \A x \in e.count + 1 .. y.count : u[f.native[x].code] = 0
    BY <2>3 DEF Extended
  <2>5. \A n \in Natives : u[n] \in Nat /\ (u[n] > 0 <=> \E q \in 1 .. L : UsedBy(e, q, n))
    BY <1>1, UsedCount
  <2>6. CASE p \in 1 .. L
    <3>1. u[b] > 0
      BY <2>1, <2>2, <2>5, <2>6
    <3>2. j \in 1 .. e.count /\ i \in 1 .. e.count
      BY <1>1, <2>3, <2>4, <3>1
    <3>3. UsedBy(e, p, e.native[j].code)
      BY <2>2, <2>4, <2>6, <3>2
    <3>4. PICK q \in 1 .. p : UsedBy(e, q, e.native[i].code)
      BY <1>1, <2>6, <3>2, <3>3 DEF Sound, Stacked
    <3>5. q \in 1 .. L
      BY <1>1, <2>6
    <3> QED
      BY <2>2, <2>4, <3>2, <3>4, <3>5
  <2>7. CASE p = L + 1
    <3>1. CASE i \in 1 .. e.count
      <4>1. u[a] > 0
        BY <2>4, <3>1 DEF Sound, Dense
      <4>2. PICK q \in 1 .. L : UsedBy(e, q, a)
        BY <2>1, <2>5, <4>1
      <4>3. q \in 1 .. p
        BY <1>1, <2>7
      <4> QED
        BY <2>2, <4>2, <4>3
    <3>2. CASE i \notin 1 .. e.count
      <4>1. u[a] = 0
        BY <1>1, <2>3, <2>4, <3>2
      <4>2. v[a] > 0
        <5> HIDE DEF v
        <5> QED
          BY <1>9 DEF Dense
      <4>3. \E x \in 1 .. Len(s) : s[x] = a
        <5>1. v[a] > u[a]
          BY <4>1, <4>2
        <5>2. u \in Counts /\ Len(s) \in Nat
          BY <1>1, <1>2
        <5> HIDE DEF u, a
        <5> QED
          BY <2>1, <5>1, <5>2, PlusMore
      <4>4. UsedBy(f, L + 1, a)
        BY <1>10, <4>3 DEF UsedBy
      <4>5. L + 1 \in 1 .. p
        BY <1>1, <2>7
      <4> QED
        BY <4>4, <4>5
    <3> QED
      BY <3>1, <3>2
  <2> QED
    BY <1>1, <1>7, <2>6, <2>7
<1>13. f.count <= NumCounters
  BY <1>3, <1>7 DEF Extended
<1>14. Sound(f)
  BY <1>7, <1>8, <1>9, <1>11, <1>12, <1>13 DEF Sound
<1> QED
  BY <1>7, <1>10, <1>14 DEF Grown, f

(* The slots of e and f hold the same native events with the same owners. *)
SameSlots(e, f) ==
  /\ f.count = e.count
  /\ \A i \in Slots : /\ f.native[i].code = e.native[i].code
                      /\ f.native[i].event = e.native[i].event
                      /\ f.native[i].owners = e.native[i].owners

LEMMA DenseSame ==
  ASSUME NEW e \in EventSetRecs, NEW f, SameSlots(e, f), NEW u, Dense(e, u)
  PROVE  Dense(f, u)
<1>1. \A i \in 1 .. e.count : i \in Slots
  BY CountBounds
<1> QED
  BY <1>1 DEF Dense, SameSlots

LEMMA SoundFacts ==
  ASSUME NEW e, Sound(e)
  PROVE  /\ e \in EventSetRecs
         /\ UseCount(e) \in Counts /\ Dense(e, UseCount(e))
         /\ e.count \in Nat /\ 1 .. e.count \subseteq Slots
         /\ e.count <= NumCounters
         /\ Placed(e) /\ (e.open = <<>> \/ Opened(e)) /\ Listing(e)
         /\ \A i \in 1 .. e.count : e.native[i].code \in Natives
<1>1. e \in EventSetRecs /\ Dense(e, UseCount(e))
  BY DEF Sound
<1>2. UseCount(e) \in Counts /\ e.count \in Nat /\ 1 .. e.count \subseteq Slots
  BY <1>1, UsedCount, CountBounds
<1>3. \A i \in 1 .. e.count : e.native[i].code \in Natives
  BY <1>1 DEF Dense
<1> QED
  BY <1>1, <1>2, <1>3 DEF Sound

(* The set after an event was added or tried. *)
Assigned(e0, e) == e = [e0 EXCEPT !.assigned = TRUE]

LEMMA AssignedSound ==
  ASSUME NEW e0, Sound(e0), NEW e, Assigned(e0, e)
  PROVE  Sound(e) /\ e.events = e0.events
<1>1. /\ e \in EventSetRecs /\ e.events = e0.events /\ SameArray(e0, e)
  BY DEF Assigned, Sound, EventSetRecs, SameArray
<1>2. Dense(e, UseCount(e0)) /\ Placed(e) /\ (e.open = <<>> \/ Opened(e))
  BY <1>1, SoundFacts, ArrayKept
<1>3. e.count = e0.count /\ \A i \in 1 .. e0.count : e.native[i].code = e0.native[i].code
  BY <1>1 DEF SameArray
<1> QED
  BY <1>1, <1>2, <1>3, SoundRestored

(* y is what the loop over s leaves of e, when it has taken care of the    *)
(* first d of s: the slots of e are there, and the others are new.         *)
Begun(e, y, s, d) ==
  /\ y \in EventSetRecs
  /\ y.events = e.events
  /\ e.count <= y.count
  /\ \A i \in 1 .. e.count : y.native[i].code = e.native[i].code
  /\ \A i \in e.count + 1 .. y.count :
       y.native[i].code \in Natives /\ UseCount(e)[y.native[i].code] = 0
  /\ Dense(y, Plus(UseCount(e), s, 1, d))

LEMMA AddLoopEnds ==
  ASSUME NEW e, Sound(e), NEW s \in Seq(Natives),
         NEW a, a = FoldLeft(AddNative, AddStart(e), s)
  PROVE  /\ a.done \in 0 .. Len(s) /\ (a.full \/ a.done = Len(s))
         /\ a.pos \in Seq(0 .. MaxNatives) /\ Len(a.pos) = a.done
         /\ Begun(e, a.e, s, a.done)
         /\ SameList(e, a.e) /\ Keeps(e, a.e)
         /\ a.new <=> e.count < a.e.count
<1>1. Adding(Len(s), a, e, UseCount(e), s)
  BY SoundFacts, AddEvents
<1>2. a.e \in EventSetRecs /\ a.pos \in Seq(0 .. MaxNatives)
  BY <1>1 DEF Adding, AddStates
<1> DEFINE u == UseCount(e)
<1>3. \A i \in 1 .. e.count : a.e.native[i].code = e.native[i].code
  BY <1>1 DEF Adding, Keeps
<1>4. Begun(e, a.e, s, a.done)
  <2>1. a.e.events = e.events
    BY <1>1 DEF Adding, SameList
  <2> QED
    BY <1>1, <1>2, <1>3, <2>1 DEF Adding, Begun
<1> QED
  BY <1>1, <1>2, <1>4 DEF Adding

LEMMA CleanedFacts ==
  ASSUME NEW e, Sound(e), NEW s \in Seq(Natives),
         NEW y, Begun(e, y, s, Len(s)), NEW z, z = FoldLeft(FailClean, y, s)
  PROVE  /\ z \in EventSetRecs /\ Dense(z, UseCount(e)) /\ z.count = e.count
         /\ SameList(y, z)
         /\ \A i \in 1 .. e.count : /\ z.native[i].code = e.native[i].code
                                    /\ z.native[i].pos = y.native[i].pos
<1> DEFINE u == UseCount(e)
<1>1. /\ e \in EventSetRecs /\ u \in Counts /\ Dense(e, u) /\ y \in EventSetRecs
      /\ Dense(y, Plus(u, s, 1, Len(s))) /\ e.count <= y.count
      /\ \A i \in 1 .. e.count : y.native[i].code = e.native[i].code
      /\ \A i \in e.count + 1 .. y.count : u[y.native[i].code] = 0
  BY SoundFacts DEF Begun
<1>2. \A i \in Slots : i > y.count => y.native[i].owners = 0
  BY <1>1 DEF Dense
<1> HIDE DEF u
<1>3. z \in EventSetRecs /\ Remains(y, z, u)
  BY <1>1, CleanEvents
<1>4. /\ Dense(z, u) /\ z.count = e.count /\ SameList(y, z)
      /\ \A i \in 1 .. e.count : /\ z.native[i].code = e.native[i].code
                                 /\ z.native[i].pos = y.native[i].pos
  BY <1>1, <1>2, <1>3, CleanRestores
<1> QED
  BY <1>3, <1>4 DEF u

(* The array was found full. *)
LEMMA AddFull ==
  ASSUME NEW e, Sound(e), NEW s \in Seq(Natives),
         NEW a, a = FoldLeft(AddNative, AddStart(e), s),
         NEW z, z = FoldLeft(FailClean, a.e, SubSeq(s, 1, a.done))
  PROVE  Sound(z) /\ z.events = e.events
<1> DEFINE t == SubSeq(s, 1, a.done)
<1>1. /\ a.done \in 0 .. Len(s) /\ Begun(e, a.e, s, a.done)
      /\ SameList(e, a.e) /\ Keeps(e, a.e)
  BY AddLoopEnds
<1>2. t \in Seq(Natives) /\ Len(t) = a.done /\ \A x \in 1 .. a.done : t[x] = s[x]
  <2>1. Len(s) \in Nat
    BY LenProperties
  <2> QED
    BY <1>1, <2>1
<1>3. Plus(UseCount(e), s, 1, a.done) = Plus(UseCount(e), t, 1, Len(t))
  <2>1. a.done \in Nat /\ 1 \in Nat
    BY <1>1
  <2> HIDE DEF t
  <2> QED
    BY <1>2, <2>1, PlusSame
<1> HIDE DEF t
<1>4. Begun(e, a.e, t, Len(t))
  BY <1>1, <1>3 DEF Begun
<1>5. /\ z \in EventSetRecs /\ Dense(z, UseCount(e)) /\ z.count = e.count
      /\ SameList(a.e, z)
      /\ \A i \in 1 .. e.count : /\ z.native[i].code = e.native[i].code
                                 /\ z.native[i].pos = a.e.native[i].pos
  <2>1. z = FoldLeft(FailClean, a.e, t)
    BY DEF t
  <2> DEFINE y == a.e
  <2>2. Begun(e, y, t, Len(t)) /\ z = FoldLeft(FailClean, y, t)
    BY <1>4, <2>1
  <2> HIDE DEF y
  <2>3. /\ z \in EventSetRecs /\ Dense(z, UseCount(e)) /\ z.count = e.count
        /\ SameList(y, z)
        /\ \A i \in 1 .. e.count : /\ z.native[i].code = e.native[i].code
                                   /\ z.native[i].pos = y.native[i].pos
    BY <1>2, <2>2, CleanedFacts
  <2> QED
    BY <2>3 DEF y
<1>6. Placed(z)
  BY <1>1, <1>5, SoundFacts DEF Placed, Keeps
<1>7. z.events = e.events /\ z.open = e.open
  BY <1>1, <1>5 DEF SameList
<1>8. z.open = <<>> \/ Opened(z)
  <2>1. e.open = <<>> \/ Opened(e)
    BY SoundFacts
  <2>2. [i \in 1 .. e.count |-> z.native[i].code] = [i \in 1 .. e.count |-> e.native[i].code]
    BY <1>5
  <2> QED
    BY <1>5, <1>7, <2>1, <2>2 DEF Opened
<1> QED
  BY <1>5, <1>6, <1>7, <1>8, SoundRestored

(* Every native event was in the array. *)
LEMMA AddShared ==
  ASSUME NEW e, Sound(e), NEW s \in Seq(Natives),
         NEW a, a = FoldLeft(AddNative, AddStart(e), s), ~a.full, ~a.new
  PROVE  Extended(e, a.e, s)
<1> DEFINE y == a.e
<1>1. /\ Begun(e, y, s, Len(s)) /\ SameList(e, y) /\ Keeps(e, y)
      /\ ~(e.count < y.count)
  BY AddLoopEnds
<1> HIDE DEF y
<1>2. e.count \in Nat /\ y.count \in Nat /\ e.count <= y.count /\ e.count <= NumCounters
  BY <1>1, SoundFacts, CountBounds DEF Begun
<1>3. y.count = e.count
  BY <1>1, <1>2
<1>4. Placed(y)
  BY <1>1, <1>3, SoundFacts DEF Placed, Keeps
<1>5. y.open = <<>> \/ Opened(y)
  <2>1. e.open = <<>> \/ Opened(e)
    BY SoundFacts
  <2>2. [i \in 1 .. e.count |-> y.native[i].code] = [i \in 1 .. e.count |-> e.native[i].code]
    BY <1>1 DEF Begun
  <2>3. y.open = e.open
    BY <1>1 DEF SameList
  <2> QED
    BY <1>3, <2>1, <2>2, <2>3 DEF Opened
<1>6. y.count <= NumCounters
  BY <1>2, <1>3
<1>7. Extended(e, y, s)
  BY <1>1, <1>4, <1>5, <1>6 DEF Begun, Extended
<1> QED
  BY <1>7 DEF y

(* There are new ones, and the counters are set up for them. *)
LEMMA AddOpened ==
  ASSUME NEW e, Sound(e), NEW s \in Seq(Natives), NEW y, Begun(e, y, s, Len(s)),
         NEW r \in UpdateControlState(y, "add")
  PROVE  /\ Begun(e, r.e, s, Len(s))
         /\ Placed(r.e)
         /\ IF r.ok THEN Extended(e, r.e, s) ELSE r.e.open = <<>>
<1>1. y \in EventSetRecs /\ Dense(y, Plus(UseCount(e), s, 1, Len(s)))
  BY DEF Begun
<1>2. \A i \in 1 .. y.count : y.native[i].code \in Natives
  BY <1>1 DEF Dense
<1>3. Controlled(y, r, "add")
  BY <1>1, <1>2, UpdateOutcomes
<1> DEFINE f == r.e
<1>4. /\ f \in EventSetRecs /\ f.events = y.events /\ SameSlots(y, f) /\ Placed(f)
      /\ f.count = y.count
      /\ IF r.ok THEN y.count <= NumCounters /\ Opened(f) ELSE f.open = <<>>
  BY <1>3 DEF Controlled, SameSlots
<1> HIDE DEF f
<1>5. Dense(f, Plus(UseCount(e), s, 1, Len(s)))
  BY <1>1, <1>4, DenseSame
<1>6. Begun(e, f, s, Len(s))
  <2>1. \A i \in 1 .. y.count : f.native[i].code = y.native[i].code
    BY <1>1, <1>4, CountBounds DEF SameSlots
  <2>2. e.count \in Nat /\ y.count \in Nat /\ e.count <= y.count
    BY <1>1, SoundFacts, CountBounds DEF Begun
  <2>3. \A i \in 1 .. e.count : f.native[i].code = e.native[i].code
    BY <2>1, <2>2 DEF Begun
  <2>4. \A i \in e.count + 1 .. f.count :
          f.native[i].code \in Natives /\ UseCount(e)[f.native[i].code] = 0
    BY <1>4, <2>1, <2>2 DEF Begun
  <2>5. f.events = e.events /\ e.count <= f.count
    BY <1>4 DEF Begun
  <2> QED
    BY <1>4, <1>5, <2>3, <2>4, <2>5 DEF Begun
<1>7. r.ok => Extended(e, f, s)
  BY <1>4, <1>6 DEF Begun, Extended
<1> QED
  BY <1>4, <1>6, <1>7 DEF f

(* They cannot be, and are set up again for the events that were there. *)
LEMMA AddReopened ==
  ASSUME NEW e, Sound(e), NEW s \in Seq(Natives), NEW y, Begun(e, y, s, Len(s)),
         NEW r \in UpdateControlState(FoldLeft(FailClean, y, s), "reopen")
  PROVE  Sound(r.e) /\ r.e.events = e.events
<1> DEFINE z == FoldLeft(FailClean, y, s)
<1>1. /\ z \in EventSetRecs /\ Dense(z, UseCount(e)) /\ z.count = e.count
      /\ SameList(y, z)
      /\ \A i \in 1 .. e.count : z.native[i].code = e.native[i].code
  BY CleanedFacts
<1>2. \A i \in 1 .. z.count : z.native[i].code \in Natives
  BY <1>1 DEF Dense
<1> HIDE DEF z
<1>3. Controlled(z, r, "reopen")
  BY <1>1, <1>2, UpdateOutcomes DEF z
<1> DEFINE f == r.e
<1>4. /\ f \in EventSetRecs /\ f.events = z.events /\ SameSlots(z, f) /\ Placed(f)
      /\ f.count = z.count /\ (f.open = <<>> \/ Opened(f))
  BY <1>3 DEF Controlled, SameSlots
<1> HIDE DEF f
<1>5. Dense(f, UseCount(e))
  BY <1>1, <1>4, DenseSame
<1>6. f.events = e.events
  BY <1>1, <1>4 DEF SameList, Begun
<1>7. \A i \in 1 .. e.count : f.native[i].code = e.native[i].code
  BY <1>1, <1>4, CountBounds DEF SameSlots
<1>8. f.count = e.count
  BY <1>1, <1>4
<1>9. Sound(f)
  BY <1>4, <1>5, <1>6, <1>7, <1>8, SoundRestored
<1> QED
  BY <1>6, <1>9 DEF f

LEMMA CodesFacts ==
  ASSUME NEW e \in EventSetRecs
  PROVE  /\ CodesOf(e) \in Seq(Events) /\ Len(CodesOf(e)) = Len(e.events)
         /\ DOMAIN CodesOf(e) = DOMAIN e.events
         /\ \A i \in DOMAIN e.events : CodesOf(e)[i] = e.events[i].code
         /\ \A c : Contains(CodesOf(e), c) <=>
                     \E i \in DOMAIN e.events : e.events[i].code = c
<1> DEFINE L == Len(e.events)
<1>1. L \in Nat /\ DOMAIN e.events = 1 .. L
      /\ \A i \in 1 .. L : e.events[i].code \in Events
  BY ListFacts
<1> HIDE DEF L
<1>2. CodesOf(e) = [i \in 1 .. L |-> e.events[i].code]
  BY <1>1 DEF CodesOf
<1>3. CodesOf(e) \in Seq(Events) /\ Len(CodesOf(e)) = L /\ DOMAIN CodesOf(e) = 1 .. L
  BY <1>1, <1>2
<1>4. \A c : Contains(CodesOf(e), c) <=> \E i \in 1 .. L : e.events[i].code = c
  BY <1>2, <1>3 DEF Contains
<1> QED
  BY <1>1, <1>2, <1>3, <1>4 DEF L

(* c can be added to e. *)
MayAdd(e, c) ==
  /\ NativesOf(c) # <<>>
  /\ Len(e.events) < MaxNatives
  /\ \A i \in DOMAIN e.events : e.events[i].code # c

(* What an addition to e may be: the set stays sound, and its list is the  *)
(* one it was, with c at its end when the call says so.                    *)
AddKeeps(e, o, c) ==
  IF o.ret = "OK" THEN Grown(e, o.e, c) /\ MayAdd(e, c)
  ELSE Sound(o.e) /\ o.e.events = e.events

LEMMA AddOutcomes ==
  ASSUME NEW e0, Sound(e0), NEW c \in Events, NEW o \in AddEvent(e0, c)
  PROVE  AddKeeps(e0, o, c)
<1> DEFINE e == [e0 EXCEPT !.assigned = TRUE]
           s == NativesOf(c)
           a == FoldLeft(AddNative, AddStart(e), s)
           z == FoldLeft(FailClean, a.e, SubSeq(s, 1, a.done))
           listed == Contains(CodesOf(e), c) \/ Len(e.events) = MaxNatives
           opens  == UpdateControlState(a.e, "add")
           again(y) == UpdateControlState(FoldLeft(FailClean, y, s), "reopen")
<1>1. Sound(e) /\ e.events = e0.events
  <2>1. Assigned(e0, e)
    BY DEF Assigned
  <2> HIDE DEF e
  <2> QED
    BY <2>1, AssignedSound
<1>2. \/ o = Outcome("ECNFLCT", e, FALSE)
      \/ o = Outcome("ENOEVNT", e, FALSE)
      \/ o = Outcome("ECOUNT", z, FALSE)
      \/ /\ ~listed /\ s # <<>> /\ ~a.full
         /\ \/ ~a.new /\ o = Outcome("OK", Listed(a.e, c, a.pos), FALSE)
            \/ \E u \in opens :
                 IF u.ok THEN o = Outcome("OK", Listed(u.e, c, a.pos), TRUE)
                 ELSE \E r \in again(u.e) : o = Outcome("ECNFLCT", r.e, TRUE)
  BY Zenon DEF AddEvent, AddStart
<1>3. s \in Seq(Natives)
  BY NativesOfType
<1> HIDE DEF e, s
<1>4. CASE o = Outcome("ECNFLCT", e, FALSE) \/ o = Outcome("ENOEVNT", e, FALSE)
  BY <1>1, <1>4 DEF Outcome, AddKeeps
<1>5. CASE o = Outcome("ECOUNT", z, FALSE)
  <2>1. Sound(z) /\ z.events = e.events
    BY <1>1, <1>3, AddFull
  <2> HIDE DEF z
  <2> QED
    BY <1>1, <1>5, <2>1 DEF Outcome, AddKeeps
<1>6. CASE /\ ~listed /\ s # <<>> /\ ~a.full
           /\ \/ ~a.new /\ o = Outcome("OK", Listed(a.e, c, a.pos), FALSE)
              \/ \E u \in opens :
                   IF u.ok THEN o = Outcome("OK", Listed(u.e, c, a.pos), TRUE)
                   ELSE \E r \in again(u.e) : o = Outcome("ECNFLCT", r.e, TRUE)
  <2> HIDE DEF a
  <2>1. a = FoldLeft(AddNative, AddStart(e), s)
    BY DEF a
  <2>2. e \in EventSetRecs /\ Len(e.events) <= MaxNatives /\ Len(e.events) \in Nat
    BY <1>1, ListFacts DEF Sound, Listing
  <2>3. MayAdd(e, c)
    <3>1. \A i \in DOMAIN e.events : e.events[i].code # c
      BY <1>6, <2>2, CodesFacts
    <3>2. Len(e.events) < MaxNatives
      BY <1>6, <2>2, CountersAssumption
    <3> QED
      BY <1>6, <3>1, <3>2 DEF MayAdd, s
  <2>4. /\ a.pos \in Seq(0 .. MaxNatives) /\ Len(a.pos) = Len(s)
        /\ Begun(e, a.e, s, Len(s))
    BY <1>1, <1>3, <1>6, <2>1, AddLoopEnds
  <2>5. ASSUME NEW y, Extended(e, y, s) PROVE Grown(e0, Listed(y, c, a.pos), c)
    <3> DEFINE pos == a.pos
               f == Listed(y, c, pos)
    <3> HIDE DEF pos
    <3>1. pos \in Seq(0 .. MaxNatives) /\ Len(pos) = Len(s)
      BY <2>4 DEF pos
    <3>2. Grown(e, f, c)
      BY <1>1, <1>6, <2>3, <2>5, <3>1, ListedSound DEF MayAdd, s
    <3> HIDE DEF f
    <3>3. Grown(e0, f, c)
      BY <1>1, <3>2 DEF Grown
    <3> QED
      BY <3>3 DEF f, pos
  <2>6. MayAdd(e0, c)
    BY <1>1, <2>3 DEF MayAdd
  <2>7. ASSUME NEW y, NEW b, Extended(e, y, s), o = Outcome("OK", Listed(y, c, a.pos), b)
        PROVE  AddKeeps(e0, o, c)
    BY <2>5, <2>6, <2>7 DEF Outcome, AddKeeps
  <2>8. CASE ~a.new /\ o = Outcome("OK", Listed(a.e, c, a.pos), FALSE)
    <3>1. Extended(e, a.e, s)
      BY <1>1, <1>3, <1>6, <2>1, <2>8, AddShared
    <3> QED
      BY <2>7, <2>8, <3>1
  <2>9. CASE \E u \in opens :
               IF u.ok THEN o = Outcome("OK", Listed(u.e, c, a.pos), TRUE)
               ELSE \E r \in again(u.e) : o = Outcome("ECNFLCT", r.e, TRUE)
    <3>1. PICK u \in opens :
            IF u.ok THEN o = Outcome("OK", Listed(u.e, c, a.pos), TRUE)
            ELSE \E r \in again(u.e) : o = Outcome("ECNFLCT", r.e, TRUE)
      BY <2>9
    <3> DEFINE y == a.e
               x == u.e
    <3>2. Begun(e, y, s, Len(s)) /\ u \in UpdateControlState(y, "add")
      BY <2>4
    <3> HIDE DEF y
    <3>3. Begun(e, x, s, Len(s)) /\ (u.ok => Extended(e, x, s))
      BY <1>1, <1>3, <3>2, AddOpened
    <3>4. CASE u.ok
      BY <2>7, <3>1, <3>3, <3>4
    <3>5. CASE ~u.ok
      <4> HIDE DEF x
      <4>1. PICK r \in UpdateControlState(FoldLeft(FailClean, x, s), "reopen") :
              o = Outcome("ECNFLCT", r.e, TRUE)
        BY <3>1, <3>5 DEF x
      <4>2. Sound(r.e) /\ r.e.events = e.events
        BY <1>1, <1>3, <3>3, AddReopened
      <4> QED
        BY <1>1, <4>1, <4>2 DEF Outcome, AddKeeps
    <3> QED
      BY <3>4, <3>5
  <2> QED
    BY <1>6, <2>8, <2>9
<1> QED
  BY <1>2, <1>4, <1>5, <1>6

-----------------------------------------------------------------------------
(***************************************************************************)
(* PAPI_remove_event, of the event added last.                             *)
(***************************************************************************)

(* The slots in use of e that w counts no use of. *)
Gone(e, w) == {i \in 1 .. e.count : w[e.native[i].code] = 0}

RemoveStates == [e : EventSetRecs, zero : Nat]

(* x is e with the owners that w counts, and nothing else changed; that    *)
(* many of its slots have none.                                            *)
Released(e, x, w) ==
  /\ x \in RemoveStates
  /\ SameList(e, x.e) /\ x.e.count = e.count
  /\ \A i \in Slots :
       /\ x.e.native[i].code = e.native[i].code
       /\ x.e.native[i].event = e.native[i].event
       /\ x.e.native[i].pos = e.native[i].pos
       /\ i > e.count => x.e.native[i].owners = e.native[i].owners
  /\ \A i \in 1 .. e.count : x.e.native[i].owners = w[e.native[i].code]
  /\ x.zero = Cardinality(Gone(e, w))

LEMMA GoneFinite ==
  ASSUME NEW e \in EventSetRecs, NEW w
  PROVE  IsFiniteSet(Gone(e, w)) /\ Cardinality(Gone(e, w)) \in Nat
<1>1. e.count \in Nat
  BY CountBounds
<1>2. IsFiniteSet(1 .. e.count)
  BY <1>1, UpTo
<1>3. Gone(e, w) \in SUBSET (1 .. e.count)
  BY DEF Gone
<1>4. IsFiniteSet(Gone(e, w))
  BY <1>2, <1>3, FS_Subset
<1> QED
  BY <1>4, FS_CardinalityType

LEMMA ReleaseTurn ==
  ASSUME NEW e \in EventSetRecs, NEW t \in Counts, Dense(e, t),
         NEW w \in Counts, NEW v \in Counts, NEW n \in Natives,
         Counted(v, w, n), \A m \in Natives : w[m] <= t[m],
         NEW x, Released(e, x, w)
  PROVE  Released(e, Release(x, n), v)
<1> DEFINE b == Release(x, n)
<1>1. /\ e.count \in Nat /\ 1 .. e.count \subseteq Slots
      /\ x.e \in EventSetRecs /\ x.zero \in Nat /\ x \in RemoveStates
      /\ x.e.native \in [Slots -> Slot] /\ x.e.count \in 0 .. MaxNatives
      /\ \A m \in Natives : w[m] \in Nat /\ v[m] \in Nat /\ t[m] \in Nat
  BY CountBounds DEF Released, RemoveStates, EventSetRecs, Counts
<1>2. w[n] = v[n] + 1 /\ \A m \in Natives : m # n => w[m] = v[m]
  BY <1>1 DEF Counted
<1>3. t[n] # 0
  BY <1>1, <1>2
<1>4. PICK j \in 1 .. e.count : /\ e.native[j].code = n
                                /\ Holding(e, n) = {j}
                                /\ Min(Holding(e, n)) = j
  BY <1>3, HoldingDense
<1>5. Holding(x.e, n) = Holding(e, n)
  <2>1. \A i \in 1 .. e.count : /\ x.e.native[i].code = e.native[i].code
                                /\ x.e.native[i].event = e.native[i].event
    BY <1>1 DEF Released
  <2>2. x.e.count = e.count
    BY DEF Released
  <2> QED
    BY <2>1, <2>2 DEF Holding
<1>6. /\ \A i \in 1 .. e.count : e.native[i].code \in Natives
      /\ \A i \in 1 .. e.count : i # j => e.native[i].code # n
  BY <1>4 DEF Dense
<1> DEFINE y    == x.e
           s    == [y.native[j] EXCEPT !.owners = @ - 1]
           f    == [y EXCEPT !.native = [y.native EXCEPT ![j] = s], !.count = y.count]
           zero == IF y.native[j].owners = 1 THEN x.zero + 1 ELSE x.zero
<1>7. b = [x EXCEPT !.e.native[j].owners = @ - 1,
                    !.zero = IF x.e.native[j].owners = 1 THEN @ + 1 ELSE @]
  BY <1>4, <1>5 DEF Release
<1>8. b = [e |-> f, zero |-> zero]
  <2> DEFINE g == [y EXCEPT !.native[j] = s]
  <2>1. b = [x EXCEPT !.e = g, !.zero = zero]
    BY <1>7
  <2>2. g = f
    <3> HIDE DEF s
    <3>1. y \in EventSetRecs
      BY <1>1
    <3> HIDE DEF y
    <3> QED
      BY <3>1 DEF EventSetRecs
  <2> HIDE DEF g, f, zero
  <2> QED
    BY <1>1, <2>1, <2>2 DEF RemoveStates
<1>9. y.native[j].owners = w[n] /\ j \in Slots /\ y.native[j] \in Slot
  BY <1>1, <1>4 DEF Released
<1>10. /\ s \in Slot /\ s.code = y.native[j].code /\ s.event = y.native[j].event
       /\ s.pos = y.native[j].pos /\ s.owners = v[n]
  BY <1>1, <1>2, <1>9 DEF Slot
<1>11. Changed(y, f, j, s, y.count)
  BY DEF Changed
<1> HIDE DEF b, s, f
<1>12. /\ f \in EventSetRecs /\ SameList(y, f) /\ f.count = y.count
       /\ f.native[j] = s
       /\ \A i \in Slots : i # j => f.native[i] = y.native[i]
  <2>1. y \in EventSetRecs /\ y.count \in 0 .. MaxNatives
    BY <1>1
  <2>2. j \in Slots /\ s \in Slot
    BY <1>9, <1>10
  <2> HIDE DEF y, zero
  <2> QED
    BY <1>11, <2>1, <2>2, SlotChange
<1>13. zero \in Nat /\ zero = Cardinality(Gone(e, v))
  <2>1. x.zero = Cardinality(Gone(e, w)) /\ x.zero \in Nat
    BY <1>1 DEF Released
  <2>2. \A i \in Gone(e, w) : i \in Gone(e, v)
    BY <1>2, <1>1, <1>6 DEF Gone
  <2>3. \A i \in Gone(e, v) : i = j \/ i \in Gone(e, w)
    BY <1>2, <1>6 DEF Gone
  <2>4. j \notin Gone(e, w)
    BY <1>1, <1>2, <1>4 DEF Gone
  <2>5. CASE v[n] = 0
    <3>1. Gone(e, v) = Gone(e, w) \cup {j}
      <4>1. j \in Gone(e, v)
        BY <1>4, <2>5 DEF Gone
      <4> QED
        BY <2>2, <2>3, <4>1
    <3>2. Cardinality(Gone(e, w) \cup {j}) = Cardinality(Gone(e, w)) + 1
      BY <2>4, GoneFinite, FS_AddElement
    <3>3. zero = x.zero + 1
      BY <1>2, <1>9, <2>5
    <3> QED
      BY <2>1, <3>1, <3>2, <3>3
  <2>6. CASE v[n] # 0
    <3>1. Gone(e, v) = Gone(e, w)
      <4>1. j \notin Gone(e, v)
        BY <1>4, <2>6 DEF Gone
      <4> QED
        BY <2>2, <2>3, <4>1
    <3>2. zero = x.zero
      BY <1>1, <1>2, <1>9, <2>6
    <3> QED
      BY <2>1, <3>1, <3>2
  <2> QED
    BY <2>5, <2>6
<1> HIDE DEF zero
<1>14. b \in RemoveStates /\ b.e = f /\ b.zero = zero
  BY <1>8, <1>12, <1>13 DEF RemoveStates
<1>15. SameList(e, f) /\ f.count = e.count
  BY <1>12 DEF SameList, Released
<1>16. ASSUME NEW i \in Slots
       PROVE  /\ f.native[i].code = e.native[i].code
              /\ f.native[i].event = e.native[i].event
              /\ f.native[i].pos = e.native[i].pos
              /\ i > e.count => f.native[i].owners = e.native[i].owners
  <2>1. /\ y.native[i].code = e.native[i].code
        /\ y.native[i].event = e.native[i].event
        /\ y.native[i].pos = e.native[i].pos
        /\ i > e.count => y.native[i].owners = e.native[i].owners
    BY DEF Released
  <2>2. CASE i = j
    <3>1. ~(i > e.count)
      BY <1>1, <2>2
    <3> QED
      BY <1>10, <1>12, <2>1, <2>2, <3>1
  <2>3. CASE i # j
    BY <1>12, <2>1, <2>3
  <2> QED
    BY <2>2, <2>3
<1>17. ASSUME NEW i \in 1 .. e.count
       PROVE  f.native[i].owners = v[e.native[i].code]
  <2>1. CASE i = j
    BY <1>4, <1>10, <1>12, <2>1
  <2>2. CASE i # j
    <3>1. f.native[i] = y.native[i] /\ w[e.native[i].code] = v[e.native[i].code]
      BY <1>1, <1>2, <1>6, <1>12, <2>2
    <3> QED
      BY <3>1 DEF Released
  <2> QED
    BY <2>1, <2>2
<1>18. Released(e, b, v)
  BY <1>13, <1>14, <1>15, <1>16, <1>17 DEF Released
<1> QED
  BY <1>18 DEF b

(* Releasing the native events of s leaves the owners that v counts. *)
LEMMA ReleaseEvents ==
  ASSUME NEW e \in EventSetRecs, NEW v \in Counts, NEW s \in Seq(Natives),
         Dense(e, Plus(v, s, 1, Len(s)))
  PROVE  Released(e, FoldLeft(Release, [e |-> e, zero |-> 0], s), v)
<1> DEFINE d == Len(s)
           t == Plus(v, s, 1, d)
           a == [e |-> e, zero |-> 0]
<1>1. /\ d \in Nat /\ DOMAIN s = 1 .. d
      /\ \A k \in 0 .. d - 1 : s[k + 1] \in Natives
  BY LenProperties, ElementOfSeq
<1>2. a \in RemoveStates /\ a.e = e /\ a.zero = 0
  BY DEF RemoveStates
<1> HIDE DEF d, a
<1>3. PICK r : Goes(r, "release", a, s, d) /\ r[d] = FoldLeft(Release, a, s)
  BY <1>1, ReleaseLoop, Zenon
<1> DEFINE P == {k \in Nat : Released(e, r[k], Plus(v, s, k + 1, d))}
<1>4. t \in Counts /\ Dense(e, t)
  BY <1>1, PlusType DEF d
<1>5. 0 \in P
  <2>1. r[0] = a
    BY <1>3 DEF Goes
  <2>2. Gone(e, t) = {}
    BY <1>4 DEF Dense, Gone
  <2>3. Cardinality(Gone(e, t)) = 0
    BY <2>2, FS_EmptySet
  <2>4. Released(e, a, t)
    <3> HIDE DEF t
    <3> QED
      BY <1>2, <1>4, <2>3 DEF Released, SameList, Dense
  <2> QED
    BY <2>1, <2>4
<1>6. ASSUME NEW k \in 0 .. d - 1, k \in P PROVE k + 1 \in P
  <2> DEFINE n == s[k + 1]
             w == Plus(v, s, k + 1, d)
             q == Plus(v, s, k + 1 + 1, d)
  <2>1. k \in Nat /\ k + 1 \in Nat /\ k + 1 + 1 \in Nat /\ k + 1 <= d
    BY <1>1
  <2>2. w \in Counts /\ q \in Counts /\ n \in Natives
    BY <1>1, <2>1, PlusType
  <2>3. Counted(q, w, n)
    BY <1>1, <2>1, PlusFirst DEF Counted
  <2>4. \A m \in Natives : w[m] <= t[m]
    <3> TAKE m \in Natives
    <3>1. Drawn(s, k + 1, d, m) \in SUBSET Drawn(s, 1, d, m)
      BY <2>1 DEF Drawn
    <3>2. IsFiniteSet(Drawn(s, 1, d, m)) /\ Cardinality(Drawn(s, 1, d, m)) \in Nat
      BY <1>1, DrawnFinite
    <3>3. Cardinality(Drawn(s, k + 1, d, m)) \in Nat
      BY <1>1, <2>1, DrawnFinite
    <3>4. Cardinality(Drawn(s, k + 1, d, m)) <= Cardinality(Drawn(s, 1, d, m))
      BY <3>1, <3>2, FS_Subset
    <3> QED
      BY <3>2, <3>3, <3>4 DEF Plus, Counts
  <2>5. r[k + 1] = Release(r[k], n)
    BY <1>3 DEF Goes, Turn
  <2>6. Released(e, r[k], w)
    BY <1>6
  <2> HIDE DEF n, w, q, t
  <2>7. Released(e, Release(r[k], n), q)
    BY <1>4, <2>2, <2>3, <2>4, <2>6, ReleaseTurn
  <2> QED
    BY <2>1, <2>5, <2>7 DEF q
<1>7. \A k \in 0 .. d : k \in P
  <2> HIDE DEF P
  <2> QED
    BY <1>1, <1>5, <1>6, Inductive
<1>8. Plus(v, s, d + 1, d) = v
  BY <1>1, PlusNone
<1>9. Released(e, r[d], Plus(v, s, d + 1, d))
  BY <1>1, <1>7
<1> QED
  BY <1>3, <1>8, <1>9 DEF a

(* A set of numbers up to n that has all those above any of its own. *)
LEMMA TailOfNumbers ==
  ASSUME NEW n \in Nat, NEW G \in SUBSET (1 .. n),
         \A i \in G : \A j \in 1 .. n : i < j => j \in G
  PROVE  \E m \in 0 .. n : G = m + 1 .. n /\ Cardinality(G) = n - m
<1>1. CASE G = {}
  <2>1. n \in 0 .. n /\ G = n + 1 .. n
    BY <1>1
  <2>2. Cardinality(G) = n - n
    BY <1>1, FS_EmptySet
  <2> QED
    BY <2>1, <2>2
<1>2. CASE G # {}
  <2>1. G \subseteq Nat
    OBVIOUS
  <2>2. PICK x \in G : \A y \in G : x <= y
    BY <1>2, <2>1, LeastNatural
  <2>3. x \in 1 .. n /\ x \in Nat
    OBVIOUS
  <2>4. \A j \in x .. n : j \in G
    <3> TAKE j \in x .. n
    <3>1. j = x \/ x < j
      BY <2>3
    <3> QED
      BY <2>3, <3>1
  <2>5. G = x .. n
    <3>1. \A y \in G : y \in x .. n
      <4> TAKE y \in G
      <4>1. x <= y /\ y \in 1 .. n
        BY <2>2
      <4> QED
        BY <2>3, <4>1
    <3> QED
      BY <2>4, <3>1
  <2>6. Cardinality(x .. n) = IF x > n THEN 0 ELSE n - x + 1
    BY <2>3, FS_Interval
  <2> DEFINE m == x - 1
  <2>7. m \in 0 .. n /\ m + 1 = x /\ n - x + 1 = n - m
    BY <2>3
  <2> QED
    BY <2>3, <2>5, <2>6, <2>7
<1> QED
  BY <1>1, <1>2

(* The compaction after k turns, when the slots behind the m-th have lost  *)
(* their owners: those it has come to are empty.                           *)
Compacting(y, x, m, k) ==
  /\ x \in EventSetRecs
  /\ SameList(y, x) /\ x.count = y.count
  /\ \A i \in Slots :
       IF i \in m + 1 .. y.count /\ i <= k
         THEN x.native[i].event = NoNative /\ x.native[i].owners = 0
         ELSE x.native[i] = y.native[i]

LEMMA CompactTurn ==
  ASSUME NEW y \in EventSetRecs, NEW m \in 0 .. y.count,
         \A i \in 1 .. m : y.native[i].owners # 0,
         \A i \in m + 1 .. y.count : y.native[i].owners = 0,
         NEW k \in 0 .. y.count - 1, NEW x, Compacting(y, x, m, k)
  PROVE  Compacting(y, Compact(x, k + 1), m, k + 1)
<1> DEFINE i == k + 1
           b == Compact(x, i)
           live == {j \in i + 1 .. x.count : x.native[j].event # NoNative
                                             /\ x.native[j].owners # 0}
<1>1. /\ y.count \in Nat /\ 1 .. y.count \subseteq Slots /\ m \in Nat /\ k \in Nat
      /\ x \in EventSetRecs /\ x.count = y.count
      /\ x.native \in [Slots -> Slot] /\ x.count \in 0 .. MaxNatives
      /\ \A j \in Slots : j \in Nat
  BY CountBounds DEF EventSetRecs, Compacting
<1>2. i \in 1 .. y.count /\ i \in Slots /\ i \in Nat /\ i > k
  BY <1>1
<1>3. x.native[i] = y.native[i]
  BY <1>2 DEF Compacting
<1>4. CASE i <= m
  <2>1. y.native[i].owners # 0
    BY <1>2, <1>4
  <2>2. b = x
    BY <1>3, <2>1 DEF Compact
  <2>3. \A j \in Slots : j \in m + 1 .. y.count => (j <= k <=> j <= k + 1)
    BY <1>1, <1>4
  <2> QED
    BY <2>2, <2>3 DEF Compacting
<1>5. CASE ~(i <= m)
  <2>1. i \in m + 1 .. y.count /\ y.native[i].owners = 0
    BY <1>1, <1>2, <1>5
  <2>2. \A j \in i + 1 .. x.count : x.native[j].owners = 0
    <3> TAKE j \in i + 1 .. x.count
    <3>1. j \in m + 1 .. y.count /\ j \in Slots
      BY <1>1, <1>2, <1>5
    <3> QED
      BY <3>1 DEF Compacting
  <2>3. live = {}
    BY <2>2
  <2>4. CASE x.native[i].event = NoNative
    <3>1. b = x
      BY <2>4 DEF Compact
    <3>2. ASSUME NEW j \in Slots
          PROVE  IF j \in m + 1 .. y.count /\ j <= k + 1
                   THEN x.native[j].event = NoNative /\ x.native[j].owners = 0
                   ELSE x.native[j] = y.native[j]
      <4>1. CASE j = i
        BY <1>3, <2>1, <2>4, <4>1
      <4>2. CASE j # i
        <5>1. j <= k + 1 <=> j <= k
          BY <1>1, <4>2
        <5> QED
          BY <5>1 DEF Compacting
      <4> QED
        BY <4>1, <4>2
    <3> QED
      BY <3>1, <3>2 DEF Compacting
  <2>5. CASE x.native[i].event # NoNative
    <3> DEFINE s == [x.native[i] EXCEPT !.event = NoNative, !.pos = 0]
    <3>1. b = [x EXCEPT !.native[i].event = NoNative, !.native[i].pos = 0]
      <4>1. ~(x.native[i].event = NoNative \/ x.native[i].owners # 0)
        BY <1>3, <2>1, <2>5
      <4> QED
        BY <2>3, <4>1 DEF Compact
    <3>2. s \in Slot /\ s.event = NoNative /\ s.owners = 0
      <4>1. x.native[i] \in Slot
        BY <1>1, <1>2
      <4>2. x.native[i].owners = 0
        BY <1>3, <2>1
      <4>3. 0 \in 0 .. MaxNatives
        BY CountersAssumption
      <4> DEFINE q == x.native[i]
      <4> HIDE DEF q
      <4>4. q \in Slot /\ q.owners = 0 /\ s = [q EXCEPT !.event = NoNative, !.pos = 0]
        BY <4>1, <4>2 DEF q
      <4> HIDE DEF s
      <4> QED
        BY <4>3, <4>4 DEF Slot
    <3>3. b = [x EXCEPT !.native[i] = s]
      BY <1>1, <1>2, <3>1 DEF EventSetRecs
    <3>4. Changed(x, b, i, s, x.count)
      <4> HIDE DEF s, b
      <4> QED
        BY <1>1, <3>3 DEF Changed, EventSetRecs
    <3> HIDE DEF s, b, i
    <3>5. /\ b \in EventSetRecs /\ SameList(x, b) /\ b.count = x.count
          /\ b.native[i] = s
          /\ \A j \in Slots : j # i => b.native[j] = x.native[j]
      BY <1>1, <1>2, <3>2, <3>4, SlotChange
    <3>6. ASSUME NEW j \in Slots
          PROVE  IF j \in m + 1 .. y.count /\ j <= k + 1
                   THEN b.native[j].event = NoNative /\ b.native[j].owners = 0
                   ELSE b.native[j] = y.native[j]
      <4>1. CASE j = i
        <5>1. j \in m + 1 .. y.count /\ j <= k + 1
          BY <2>1, <4>1 DEF i
        <5> QED
          BY <3>2, <3>5, <4>1, <5>1
      <4>2. CASE j # i
        <5>1. j <= k + 1 <=> j <= k
          BY <1>1, <4>2 DEF i
        <5> QED
          BY <3>5, <4>2, <5>1 DEF Compacting
      <4> QED
        BY <4>1, <4>2
    <3>7. SameList(y, b) /\ b.count = y.count
      BY <1>1, <3>5 DEF SameList, Compacting
    <3>8. Compacting(y, b, m, k + 1)
      BY <3>5, <3>6, <3>7 DEF Compacting
    <3> QED
      BY <3>8 DEF b, i
  <2> QED
    BY <2>4, <2>5
<1> QED
  BY <1>4, <1>5

LEMMA CompactEvents ==
  ASSUME NEW y \in EventSetRecs, NEW m \in 0 .. y.count,
         \A i \in 1 .. m : y.native[i].owners # 0,
         \A i \in m + 1 .. y.count : y.native[i].owners = 0
  PROVE  Compacting(y, FoldLeft(Compact, y, [i \in 1 .. y.count |-> i]), m, y.count)
<1> DEFINE d == y.count
           s == [i \in 1 .. d |-> i]
<1>1. /\ d \in Nat /\ DOMAIN s = 1 .. d /\ m \in Nat /\ m <= d
      /\ \A k \in 0 .. d - 1 : s[k + 1] = k + 1
  BY CountBounds
<1> HIDE DEF d, s
<1>2. PICK r : Goes(r, "compact", y, s, d) /\ r[d] = FoldLeft(Compact, y, s)
  BY <1>1, CompactLoop, Zenon
<1> DEFINE P == {k \in Nat : Compacting(y, r[k], m, k)}
<1>3. 0 \in P
  <2>1. r[0] = y
    BY <1>2 DEF Goes
  <2>2. \A i \in m + 1 .. d : ~(i <= 0)
    BY <1>1
  <2>3. Compacting(y, y, m, 0)
    BY <2>2 DEF Compacting, SameList, d
  <2> QED
    BY <2>1, <2>3
<1>4. ASSUME NEW k \in 0 .. d - 1, k \in P PROVE k + 1 \in P
  <2>1. r[k + 1] = Compact(r[k], k + 1)
    BY <1>1, <1>2 DEF Goes, Turn
  <2>2. Compacting(y, r[k], m, k)
    BY <1>4
  <2>3. Compacting(y, Compact(r[k], k + 1), m, k + 1)
    BY <2>2, CompactTurn DEF d
  <2>4. k + 1 \in Nat
    BY <1>1
  <2> QED
    BY <2>1, <2>3, <2>4
<1>5. \A k \in 0 .. d : k \in P
  <2> HIDE DEF P
  <2> QED
    BY <1>1, <1>3, <1>4, Inductive
<1>6. Compacting(y, r[d], m, d)
  BY <1>1, <1>5
<1> QED
  BY <1>2, <1>6 DEF d, s

(* The list of f is that of e without its last event. *)
Shortened(e, f) ==
  /\ Len(e.events) > 0
  /\ Len(f.events) = Len(e.events) - 1
  /\ \A i \in 1 .. Len(e.events) - 1 : f.events[i] = e.events[i]

Shrunk(e, f) ==
  /\ Sound(f)
  /\ Len(f.events) = Len(e.events) - 1
  /\ \A i \in 1 .. Len(e.events) - 1 : f.events[i].code = e.events[i].code

LEMMA LastRemoved ==
  ASSUME NEW e \in EventSetRecs, Len(e.events) > 0,
         NEW evs, evs = RemoveAt(e.events, Len(e.events))
  PROVE  /\ evs \in Seq(Info) /\ Len(evs) = Len(e.events) - 1
         /\ \A i \in 1 .. Len(e.events) - 1 : evs[i] = e.events[i]
<1> DEFINE t == e.events
           L == Len(t)
<1>1. t \in Seq(Info) /\ L \in Nat /\ L > 0
  BY ListFacts
<1> HIDE DEF t
<1>2. SubSeq(t, 1, L - 1) \in Seq(Info) /\ Len(SubSeq(t, 1, L - 1)) = L - 1
      /\ \A i \in 1 .. L - 1 : SubSeq(t, 1, L - 1)[i] = t[i]
  <2> DEFINE K == L - 1
  <2>1. K \in 0 .. Len(t) /\ Len(t) \in Nat
    BY <1>1
  <2> HIDE DEF K, L
  <2>2. SubSeq(t, 1, K) \in Seq(Info) /\ Len(SubSeq(t, 1, K)) = K
        /\ \A i \in 1 .. K : SubSeq(t, 1, K)[i] = t[i]
    BY <1>1, <2>1
  <2> QED
    BY <2>2 DEF K
<1>3. SubSeq(t, L + 1, L) = <<>>
  BY <1>1
<1>4. RemoveAt(t, L) = SubSeq(t, 1, L - 1) \o <<>>
  BY <1>3, Zenon DEF RemoveAt
<1>5. RemoveAt(t, L) = SubSeq(t, 1, L - 1)
  BY <1>2, <1>4
<1> QED
  BY <1>2, <1>5 DEF t

LEMMA ShrunkSound ==
  ASSUME NEW e, Sound(e), NEW f \in EventSetRecs, Shortened(e, f),
         f.count <= e.count,
         \A i \in 1 .. f.count : f.native[i].code = e.native[i].code,
         Dense(f, UseCount(f)), Placed(f), f.open = <<>> \/ Opened(f)
  PROVE  Shrunk(e, f)
<1> DEFINE L == Len(e.events)
<1>1. /\ L \in Nat /\ L > 0 /\ DOMAIN e.events = 1 .. L
      /\ DOMAIN f.events = 1 .. L - 1 /\ Len(f.events) = L - 1
      /\ \A i \in 1 .. L - 1 : f.events[i] = e.events[i]
      /\ e \in EventSetRecs /\ e.count \in Nat /\ f.count \in Nat
  BY ListFacts, CountBounds DEF Sound, Shortened
<1>2. /\ \A i \in 1 .. f.count : i \in 1 .. e.count
      /\ \A i \in 1 .. L - 1 : i \in 1 .. L
  BY <1>1
<1>3. \A p \in 1 .. L - 1 : \A n : UsedBy(f, p, n) <=> UsedBy(e, p, n)
  BY <1>1 DEF UsedBy
<1>4. \A i, j \in 1 .. e.count : e.native[i].code = e.native[j].code => i = j
  BY DEF Sound, Dense
<1>5. ASSUME NEW i \in 1 .. L - 1
      PROVE  NativesOf(f.events[i].code) # <<>> /\ Leads(f, f.events[i])
  <2> DEFINE x == e.events[i]
             N == NativesOf(x.code)
  <2>1. N # <<>> /\ Leads(e, x) /\ f.events[i] = x
    BY <1>1, <1>2 DEF Sound, Listing
  <2>2. ASSUME NEW k \in 1 .. Len(N)
        PROVE  x.pos[k] \in 1 .. f.count /\ f.native[x.pos[k]].code = N[k]
    <3>1. x.pos[k] \in 1 .. e.count /\ e.native[x.pos[k]].code = N[k]
      BY <2>1 DEF Leads
    <3>2. N[k] \in Natives
      BY <1>1, <1>2, ListFacts, NativesOfType
    <3>3. UsedBy(f, i, N[k])
      BY <2>1 DEF UsedBy
    <3>4. UseCount(f)[N[k]] > 0
      BY <1>1, <3>2, <3>3, UsedCount
    <3>5. PICK j \in 1 .. f.count : f.native[j].code = N[k]
      BY <3>2, <3>4 DEF Dense
    <3>6. e.native[j].code = N[k] /\ j \in 1 .. e.count
      BY <1>2, <3>5
    <3> HIDE DEF x, N
    <3>7. x.pos[k] = j
      BY <1>4, <3>1, <3>6
    <3> QED
      BY <3>5, <3>7
  <2> HIDE DEF N
  <2>3. Len(x.pos) = Len(N)
    BY <2>1 DEF Leads, N
  <2>4. Leads(f, x)
    BY <2>2, <2>3 DEF Leads, N
  <2> QED
    BY <2>1, <2>4 DEF N
<1>6. Listing(f)
  <2>1. L - 1 <= MaxNatives
    BY <1>1, CountersAssumption DEF Sound, Listing
  <2>2. \A i, j \in 1 .. L - 1 : f.events[i].code = f.events[j].code => i = j
    BY <1>1, <1>2 DEF Sound, Listing
  <2> QED
    BY <1>1, <1>5, <2>1, <2>2 DEF Listing
<1>7. Stacked(f)
  <2> SUFFICES ASSUME NEW i \in 1 .. f.count, NEW j \in 1 .. f.count, i < j,
                      NEW p \in 1 .. L - 1, UsedBy(f, p, f.native[j].code)
               PROVE  \E q \in 1 .. p : UsedBy(f, q, f.native[i].code)
    BY <1>1 DEF Stacked
  <2>1. UsedBy(e, p, e.native[j].code)
    BY <1>3
  <2>2. PICK q \in 1 .. p : UsedBy(e, q, e.native[i].code)
    BY <1>1, <1>2, <2>1 DEF Sound, Stacked
  <2>3. q \in 1 .. L - 1
    BY <1>1
  <2> QED
    BY <1>3, <2>2, <2>3
<1>8. f.count <= NumCounters
  BY <1>1, CountersAssumption DEF Sound
<1>9. Sound(f)
  BY <1>6, <1>7, <1>8 DEF Sound
<1> QED
  BY <1>1, <1>9 DEF Shrunk

(* The event added last leaves front, whose array is that of e up to m. *)
Leaves(e, front, m) ==
  /\ front \in EventSetRecs
  /\ m \in 0 .. e.count
  /\ Gone(e, UseCount(front)) = m + 1 .. e.count
  /\ Cardinality(Gone(e, UseCount(front))) = e.count - m
  /\ \A n \in Natives :
       UseCount(front)[n] > 0 => \E i \in 1 .. m : e.native[i].code = n

LEMMA FrontLeft ==
  ASSUME NEW e, Sound(e), NEW front \in EventSetRecs, Shortened(e, front),
         NEW s, s = NativesOf(e.events[Len(e.events)].code)
  PROVE  /\ UseCount(e) = Plus(UseCount(front), s, 1, Len(s))
         /\ \E m : Leaves(e, front, m)
<1> DEFINE L == Len(e.events)
           u == UseCount(e)
           v == UseCount(front)
<1>1. /\ L \in Nat /\ L > 0 /\ L \in 1 .. L /\ DOMAIN e.events = 1 .. L
      /\ DOMAIN front.events = 1 .. L - 1 /\ Len(front.events) = L - 1
      /\ \A i \in 1 .. L - 1 : front.events[i] = e.events[i]
      /\ e \in EventSetRecs /\ Lists(e)
      /\ e.count \in Nat
  BY ListFacts, CountBounds DEF Sound, Shortened
<1>2. e.events[L].code \in Events
  BY <1>1, ListFacts
<1>3. Len(s) \in Nat
  BY <1>2, NativesOfType
<1>4. u = Plus(v, s, 1, Len(s))
  <2> DEFINE K == L - 1
  <2>1. /\ K \in Nat /\ K + 1 = L
    BY <1>1
  <2> HIDE DEF K, L
  <2>2. /\ DOMAIN front.events = 1 .. K /\ DOMAIN e.events = 1 .. K + 1
        /\ \A i \in 1 .. K : front.events[i].code = e.events[i].code
        /\ s = NativesOf(e.events[K + 1].code)
    BY <1>1, <2>1 DEF K, L
  <2> QED
    BY <1>1, <2>1, <2>2, UseCountGrows
<1>5. v \in Counts /\ u \in Counts /\ Dense(e, u)
  BY <1>1, UsedCount DEF Sound
<1>6. \A n \in Natives : v[n] > 0 => u[n] > 0
  <2> HIDE DEF u, v
  <2>1. \A n \in Natives : u[n] >= v[n] /\ u[n] \in Nat /\ v[n] \in Nat
    <3>1. \A n \in Natives : Plus(v, s, 1, Len(s))[n] >= v[n]
      <4> DEFINE d == Len(s)
      <4>1. d \in Nat /\ 1 \in Nat
        BY <1>3
      <4> HIDE DEF d
      <4> QED
        BY <1>5, <4>1, PlusType DEF d
    <3> QED
      BY <1>4, <1>5, <3>1 DEF Counts
  <2> QED
    BY <2>1
<1>7. \A i \in 1 .. e.count : e.native[i].code \in Natives
  BY <1>5 DEF Dense
<1>8. \A n \in Natives : v[n] \in Nat /\ (v[n] > 0 <=> \E q \in 1 .. L - 1 : UsedBy(e, q, n))
  <2>1. \A n \in Natives : /\ v[n] \in Nat
                           /\ v[n] > 0 <=> \E q \in 1 .. L - 1 : UsedBy(front, q, n)
    BY <1>1, UsedCount
  <2>2. \A q \in 1 .. L - 1 : \A n : UsedBy(front, q, n) <=> UsedBy(e, q, n)
    BY <1>1 DEF UsedBy
  <2> QED
    BY <2>1, <2>2
<1> DEFINE G == Gone(e, v)
<1>9. G \in SUBSET (1 .. e.count)
  BY DEF Gone
<1>10. ASSUME NEW i \in G, NEW j \in 1 .. e.count, i < j
       PROVE  j \in G
  <2>1. i \in 1 .. e.count /\ v[e.native[i].code] = 0
    BY DEF Gone
  <2>2. SUFFICES ASSUME v[e.native[j].code] # 0
                 PROVE  FALSE
    BY DEF Gone
  <2>3. PICK p \in 1 .. L - 1 : UsedBy(e, p, e.native[j].code)
    BY <1>7, <1>8, <2>2
  <2>4. p \in 1 .. L
    BY <1>1
  <2>5. PICK q \in 1 .. p : UsedBy(e, q, e.native[i].code)
    BY <1>1, <1>10, <2>1, <2>3, <2>4 DEF Sound, Stacked
  <2>6. q \in 1 .. L - 1
    BY <1>1
  <2>7. v[e.native[i].code] > 0
    BY <1>7, <1>8, <2>1, <2>5, <2>6
  <2> QED
    BY <2>1, <2>7
<1> HIDE DEF G
<1>11. PICK m \in 0 .. e.count : G = m + 1 .. e.count /\ Cardinality(G) = e.count - m
  BY <1>1, <1>9, <1>10, TailOfNumbers
<1>12. ASSUME NEW n \in Natives, v[n] > 0 PROVE \E i \in 1 .. m : e.native[i].code = n
  <2>1. PICK i \in 1 .. e.count : e.native[i].code = n
    BY <1>5, <1>6, <1>12 DEF Dense
  <2>2. i \notin G
    BY <1>12, <2>1 DEF G, Gone
  <2>3. i \in 1 .. m
    BY <1>1, <1>11, <2>2
  <2> QED
    BY <2>1, <2>3
<1>13. Leaves(e, front, m)
  BY <1>11, <1>12 DEF Leaves, G
<1> QED
  BY <1>4, <1>13

(* q is e with the slots of front, though still with the list of e. *)
Cut(e, front, q, m) ==
  /\ q \in EventSetRecs
  /\ q.count = m /\ m <= e.count
  /\ \A i \in 1 .. m : q.native[i].code = e.native[i].code
  /\ Dense(q, UseCount(front))
  /\ Placed(q) /\ (q.open = <<>> \/ Opened(q))

(* Taking the event off the list then leaves a sound set. *)
LEMMA CutSound ==
  ASSUME NEW e, Sound(e), NEW front \in EventSetRecs, Shortened(e, front),
         NEW m, NEW q, Cut(e, front, q, m), NEW f, Relisted(q, f, front.events)
  PROVE  Shrunk(e, f)
<1>1. front.events \in Seq(Info) /\ q \in EventSetRecs
  BY ListFacts DEF Cut
<1>2. f \in EventSetRecs /\ f.events = front.events /\ SameArray(q, f)
  BY <1>1, ListChange
<1>3. Shortened(e, f)
  BY <1>2 DEF Shortened
<1>4. UseCount(f) = UseCount(front)
  BY <1>2, UseCountSame
<1>5. Dense(f, UseCount(f)) /\ Placed(f) /\ (f.open = <<>> \/ Opened(f))
  BY <1>2, <1>4, ArrayKept DEF Cut
<1>6. f.count <= e.count /\ \A i \in 1 .. f.count : f.native[i].code = e.native[i].code
  BY <1>2 DEF Cut, SameArray
<1> QED
  BY <1>2, <1>3, <1>5, <1>6, ShrunkSound

(* The array without the event's native events, when none of them was its  *)
(* alone and when some were.                                               *)
LEMMA ReleasedAll ==
  ASSUME NEW e, Sound(e), NEW front \in EventSetRecs, NEW m, Leaves(e, front, m),
         NEW x, Released(e, x, UseCount(front))
  PROVE  /\ x.zero = e.count - m
         /\ x.e \in EventSetRecs /\ x.e.count = e.count /\ SameList(e, x.e)
         /\ \A i \in 1 .. m : /\ x.e.native[i].owners # 0
                              /\ x.e.native[i].owners = UseCount(front)[e.native[i].code]
                              /\ x.e.native[i].code = e.native[i].code
                              /\ x.e.native[i].event = e.native[i].event
                              /\ x.e.native[i].pos = i
         /\ \A i \in Slots : i > m => x.e.native[i].owners = 0
<1> DEFINE v == UseCount(front)
<1>1. /\ e \in EventSetRecs /\ e.count \in Nat /\ 1 .. e.count \subseteq Slots
      /\ m \in 0 .. e.count /\ Dense(e, UseCount(e)) /\ Placed(e)
      /\ \A i \in Slots : i \in Nat
  BY SoundFacts, CountBounds DEF Leaves
<1>2. \A i \in 1 .. e.count : x.e.native[i].owners = v[e.native[i].code]
  BY DEF Released
<1> HIDE DEF v
<1>3. \A i \in 1 .. e.count : v[e.native[i].code] = 0 <=> i \in m + 1 .. e.count
  BY DEF Leaves, Gone, v
<1>4. ASSUME NEW i \in 1 .. m
      PROVE  /\ x.e.native[i].owners # 0
             /\ x.e.native[i].owners = v[e.native[i].code]
             /\ x.e.native[i].code = e.native[i].code
             /\ x.e.native[i].event = e.native[i].event
             /\ x.e.native[i].pos = i
  <2>1. i \in 1 .. e.count /\ i \notin m + 1 .. e.count /\ i \in Slots
    BY <1>1
  <2> QED
    BY <1>1, <1>2, <1>3, <2>1 DEF Released, Placed
<1>5. ASSUME NEW i \in Slots, i > m PROVE x.e.native[i].owners = 0
  <2>1. CASE i <= e.count
    <3>1. i \in 1 .. e.count /\ i \in m + 1 .. e.count
      BY <1>1, <1>5, <2>1 DEF Slots
    <3> QED
      BY <1>2, <1>3, <3>1
  <2>2. CASE ~(i <= e.count)
    <3>1. i > e.count
      BY <1>1, <2>2
    <3> QED
      BY <1>1, <3>1 DEF Released, Dense
  <2> QED
    BY <2>1, <2>2
<1>6. x.zero = e.count - m /\ x.e \in EventSetRecs /\ x.e.count = e.count
      /\ SameList(e, x.e)
  BY DEF Released, Leaves, RemoveStates
<1> QED
  BY <1>4, <1>5, <1>6 DEF v

LEMMA DenseLeft ==
  ASSUME NEW e, Sound(e), NEW front \in EventSetRecs, NEW m, Leaves(e, front, m),
         NEW q, q.count = m,
         \A i \in 1 .. m : /\ q.native[i].owners # 0
                           /\ q.native[i].owners = UseCount(front)[e.native[i].code]
                           /\ q.native[i].code = e.native[i].code
                           /\ q.native[i].event = e.native[i].event,
         \A i \in Slots : i > m => q.native[i].owners = 0
  PROVE  Dense(q, UseCount(front))
<1> DEFINE v == UseCount(front)
<1>1. v \in Counts
  BY UsedCount
<1>2. /\ e.count \in Nat /\ m \in 0 .. e.count /\ Dense(e, UseCount(e))
      /\ \A n \in Natives : v[n] > 0 => \E i \in 1 .. m : e.native[i].code = n
  BY SoundFacts DEF Leaves
<1> HIDE DEF v
<1>3. \A i \in 1 .. m : i \in 1 .. e.count
  BY <1>2
<1>4. \A i \in 1 .. m : e.native[i].code \in Natives /\ e.native[i].event = e.native[i].code
  BY <1>2, <1>3 DEF Dense
<1>5. \A i \in 1 .. m : v[e.native[i].code] # 0 /\ v[e.native[i].code] \in Nat
  BY <1>1, <1>4 DEF Counts, v
<1>6. \A i \in 1 .. m : /\ q.native[i].event = q.native[i].code
                        /\ q.native[i].code \in Natives
                        /\ q.native[i].owners = v[q.native[i].code]
                        /\ q.native[i].owners > 0
  BY <1>4, <1>5 DEF v
<1>7. \A i, j \in 1 .. m : q.native[i].code = q.native[j].code => i = j
  BY <1>2, <1>3 DEF Dense
<1>8. \A n \in Natives : v[n] > 0 => \E i \in 1 .. m : q.native[i].code = n
  BY <1>2
<1> QED
  BY <1>6, <1>7, <1>8 DEF Dense, v

LEMMA RemoveOutcomes ==
  ASSUME NEW e, Sound(e), Len(e.events) > 0, "remove" \notin Faults,
         NEW o \in RemoveEvent(e, e.events[Len(e.events)].code)
  PROVE  o.ret = "OK" /\ Shrunk(e, o.e)
<1> DEFINE L == Len(e.events)
           c == e.events[L].code
           s == NativesOf(c)
           evs == RemoveAt(e.events, L)
           front == [e EXCEPT !.events = evs]
           v == UseCount(front)
           r == FoldLeft(Release, [e |-> e, zero |-> 0], s)
           z == FoldLeft(Compact, r.e, [i \in 1 .. e.count |-> i])
           compacted == [z EXCEPT !.count = @ - r.zero]
           hit == {i \in DOMAIN e.events : e.events[i].code = c}
           unlisted(d) == [d EXCEPT !.events = RemoveAt(@, L)]
<1>1. /\ e \in EventSetRecs /\ L \in Nat /\ L > 0 /\ L \in DOMAIN e.events
      /\ c \in Events /\ s \in Seq(Natives)
      /\ \A i, j \in DOMAIN e.events : e.events[i].code = e.events[j].code => i = j
  <2>1. e \in EventSetRecs /\ L \in Nat /\ L > 0 /\ L \in DOMAIN e.events
    BY ListFacts DEF Sound
  <2>2. c \in Events
    BY <2>1, ListFacts
  <2> QED
    BY <2>1, <2>2, NativesOfType DEF Sound, Listing
<1>2. Min(hit) = L
  <2>1. hit = {L}
    BY <1>1
  <2>2. L \in {L} /\ {L} \subseteq Int /\ \A y \in {L} : L <= y
    BY <1>1
  <2> HIDE DEF hit, L
  <2> QED
    BY <2>1, <2>2, MinLeast
<1>3. Contains(CodesOf(e), c)
  BY <1>1, CodesFacts
<1>4. \/ r.zero = 0 /\ o = Outcome("OK", unlisted(r.e), FALSE)
      \/ r.zero # 0 /\ \E u \in UpdateControlState(compacted, "remove") :
           o = IF u.ok THEN Outcome("OK", unlisted(u.e), TRUE)
               ELSE Outcome("ECNFLCT", u.e, TRUE)
  <2> DEFINE unl(d) == [d EXCEPT !.events = RemoveAt(@, Min(hit))]
             outs == IF r.zero = 0 THEN {Outcome("OK", unl(r.e), FALSE)}
                     ELSE {IF u.ok THEN Outcome("OK", unl(u.e), TRUE)
                           ELSE Outcome("ECNFLCT", u.e, TRUE) :
                             u \in UpdateControlState(compacted, "remove")}
  <2>1. o \in IF ~Contains(CodesOf(e), c) THEN {Outcome("EINVAL", e, FALSE)}
              ELSE outs
    BY Zenon DEF RemoveEvent
  <2> HIDE DEF outs
  <2>2. o \in outs
    BY <1>3, <2>1
  <2>3. \A d : unl(d) = unlisted(d)
    BY <1>2
  <2> HIDE DEF unl, hit, unlisted, r, compacted
  <2> QED
    BY <2>2, <2>3 DEF outs
<1>5. /\ evs \in Seq(Info) /\ Len(evs) = L - 1
      /\ \A i \in 1 .. L - 1 : evs[i] = e.events[i]
  <2> HIDE DEF evs
  <2>1. evs = RemoveAt(e.events, Len(e.events))
    BY DEF evs
  <2> QED
    BY <1>1, <2>1, LastRemoved
<1>6. front \in EventSetRecs /\ front.events = evs
  <2>1. Relisted(e, front, evs)
    BY DEF Relisted
  <2> HIDE DEF front, evs
  <2> QED
    BY <1>1, <1>5, <2>1, ListChange
<1>7. Shortened(e, front)
  <2> HIDE DEF front, evs
  <2> QED
    BY <1>1, <1>5, <1>6 DEF Shortened
<1> HIDE DEF front
<1>8. UseCount(e) = Plus(v, s, 1, Len(s)) /\ \E m : Leaves(e, front, m)
  BY <1>6, <1>7, FrontLeft
<1>9. PICK m : Leaves(e, front, m)
  BY <1>8
<1>10. Released(e, r, v)
  <2>1. v \in Counts /\ Dense(e, Plus(v, s, 1, Len(s)))
    BY <1>6, <1>8, UsedCount DEF Sound
  <2> HIDE DEF v, s
  <2> QED
    BY <1>1, <2>1, ReleaseEvents
<1> HIDE DEF r
<1> DEFINE y == r.e
<1>11. /\ r.zero = e.count - m
       /\ y \in EventSetRecs /\ y.count = e.count /\ SameList(e, y)
       /\ \A i \in 1 .. m : /\ y.native[i].owners # 0
                            /\ y.native[i].owners = v[e.native[i].code]
                            /\ y.native[i].code = e.native[i].code
                            /\ y.native[i].event = e.native[i].event
                            /\ y.native[i].pos = i
       /\ \A i \in Slots : i > m => y.native[i].owners = 0
  BY <1>6, <1>9, <1>10, ReleasedAll
<1>12. e.count \in Nat /\ m \in 0 .. e.count /\ 1 .. e.count \subseteq Slots
  BY <1>1, <1>9, CountBounds DEF Leaves
<1>13. CASE r.zero = 0 /\ o = Outcome("OK", unlisted(r.e), FALSE)
  <2>1. m = e.count
    BY <1>11, <1>12, <1>13
  <2> DEFINE f == unlisted(y)
  <2>2. Relisted(y, f, front.events)
    BY <1>6, <1>11 DEF Relisted, SameList
  <2> HIDE DEF f, y, v
  <2>3. Dense(y, v)
    BY <1>6, <1>9, <1>11, <2>1, DenseLeft DEF v
  <2>4. Placed(y)
    BY <1>11, <2>1 DEF Placed
  <2>5. y.open = <<>> \/ Opened(y)
    <3>1. e.open = <<>> \/ Opened(e)
      BY SoundFacts
    <3>2. [i \in 1 .. e.count |-> y.native[i].code] = [i \in 1 .. e.count |-> e.native[i].code]
      BY <1>11, <2>1
    <3> QED
      BY <1>11, <3>1, <3>2 DEF Opened, SameList
  <2>6. Cut(e, front, y, m)
    BY <1>11, <1>12, <2>1, <2>3, <2>4, <2>5 DEF Cut, v
  <2>7. Shrunk(e, f)
    BY <1>6, <1>7, <2>2, <2>6, CutSound
  <2>8. o.ret = "OK" /\ o.e = f
    BY <1>13 DEF Outcome, f, y
  <2> QED
    BY <2>7, <2>8
<1>14. CASE r.zero # 0 /\ \E u \in UpdateControlState(compacted, "remove") :
               o = IF u.ok THEN Outcome("OK", unlisted(u.e), TRUE)
                   ELSE Outcome("ECNFLCT", u.e, TRUE)
  <2>1. PICK u \in UpdateControlState(compacted, "remove") :
          o = IF u.ok THEN Outcome("OK", unlisted(u.e), TRUE)
              ELSE Outcome("ECNFLCT", u.e, TRUE)
    BY <1>14
  <2>2. Compacting(y, z, m, e.count)
    <3>1. z = FoldLeft(Compact, y, [i \in 1 .. y.count |-> i])
      BY <1>11
    <3>2. \A i \in m + 1 .. y.count : y.native[i].owners = 0
      <4>1. \A i \in m + 1 .. e.count : i \in Slots /\ i > m
        BY <1>12
      <4> QED
        BY <1>11, <4>1
    <3>3. m \in 0 .. y.count /\ \A i \in 1 .. m : y.native[i].owners # 0
      BY <1>11, <1>12
    <3> HIDE DEF z, y
    <3>4. Compacting(y, z, m, y.count)
      BY <1>11, <3>1, <3>2, <3>3, CompactEvents
    <3> QED
      BY <1>11, <3>4
  <2> DEFINE q == compacted
  <2> HIDE DEF z, y, v
  <2>3. /\ q \in EventSetRecs /\ q.count = m /\ q.native = z.native
        /\ q.events = e.events /\ z \in EventSetRecs
    <3>1. z \in EventSetRecs /\ z.count = e.count /\ z.events = e.events
      BY <1>11, <2>2 DEF Compacting, SameList
    <3>2. z.count - r.zero = m /\ m \in 0 .. MaxNatives
      <4>1. e.count <= MaxNatives /\ MaxNatives \in Nat
        BY <1>1, CountBounds
      <4> QED
        BY <1>11, <1>12, <3>1, <4>1
    <3>3. q = [z EXCEPT !.count = m]
      BY <3>2
    <3> HIDE DEF q
    <3> QED
      BY <3>1, <3>2, <3>3 DEF EventSetRecs
  <2> HIDE DEF compacted, q
  <2>4. \A i \in 1 .. m : q.native[i] = y.native[i]
    <3>1. \A i \in 1 .. m : i \in Slots /\ i \notin m + 1 .. y.count
      BY <1>11, <1>12
    <3> QED
      BY <2>2, <2>3, <3>1 DEF Compacting
  <2>5. \A i \in Slots : i > m => q.native[i].owners = 0
    BY <1>11, <2>2, <2>3 DEF Compacting
  <2>6. Dense(q, v)
    <3>1. \A i \in 1 .. m : /\ q.native[i].owners # 0
                            /\ q.native[i].owners = v[e.native[i].code]
                            /\ q.native[i].code = e.native[i].code
                            /\ q.native[i].event = e.native[i].event
      BY <1>11, <2>4
    <3> QED
      BY <1>6, <1>9, <2>3, <2>5, <3>1, DenseLeft DEF v
  <2>7. \A i \in 1 .. q.count : q.native[i].code \in Natives
    BY <2>6 DEF Dense
  <2>8. Controlled(q, u, "remove")
    <3>1. u \in UpdateControlState(q, "remove")
      BY <2>1 DEF q
    <3> QED
      BY <2>3, <2>7, <3>1, UpdateOutcomes
  <2>9. u.ok
    <3>1. ~(q.count > NumCounters)
      BY <1>12, <2>3, CountersAssumption DEF Sound
    <3> QED
      BY <2>8, <3>1 DEF Controlled
  <2> DEFINE x == u.e
             f == unlisted(x)
  <2>10. /\ x \in EventSetRecs /\ x.events = e.events /\ x.count = m
         /\ SameSlots(q, x) /\ Placed(x) /\ Opened(x)
    BY <2>3, <2>8, <2>9 DEF Controlled, SameSlots
  <2>11. Relisted(x, f, front.events)
    BY <1>6, <2>10 DEF Relisted
  <2> HIDE DEF f, x
  <2>12. Dense(x, v)
    BY <2>3, <2>6, <2>10, DenseSame
  <2>13. Cut(e, front, x, m)
    <3>1. \A i \in 1 .. m : x.native[i].code = e.native[i].code
      <4>1. \A i \in 1 .. m : i \in Slots
        BY <1>12
      <4> QED
        BY <1>11, <2>4, <2>10, <4>1 DEF SameSlots
    <3> QED
      BY <1>12, <2>10, <2>12, <3>1 DEF Cut, v
  <2>14. Shrunk(e, f)
    BY <1>6, <1>7, <2>11, <2>13, CutSound
  <2>15. o.ret = "OK" /\ o.e = f
    BY <2>1, <2>9 DEF Outcome, f, x
  <2> QED
    BY <2>14, <2>15
<1> QED
  BY <1>4, <1>13, <1>14

-----------------------------------------------------------------------------
(***************************************************************************)
(* The other calls.                                                        *)
(***************************************************************************)

(* A set whose positions were looked up again is as sound as it was. *)
LEMMA MappedSound ==
  ASSUME NEW x, Sound(x), NEW f, Mapped(x, f)
  PROVE  Sound(f) /\ CodesOf(f) = CodesOf(x)
<1>1. /\ x \in EventSetRecs /\ f \in EventSetRecs /\ SameArray(x, f)
      /\ DOMAIN f.events = DOMAIN x.events /\ Len(f.events) = Len(x.events)
      /\ \A i \in DOMAIN x.events :
           f.events[i].code = x.events[i].code /\ Leads(x, f.events[i])
  BY DEF Mapped, SameArray, Sound
<1>2. UseCount(f) = UseCount(x)
  <2>1. \A i \in DOMAIN f.events : f.events[i].code = x.events[i].code
    BY <1>1
  <2> QED
    BY <1>1, <2>1, UseCountSame
<1>3. /\ Dense(f, UseCount(f)) /\ Placed(f) /\ (f.open = <<>> \/ Opened(f))
      /\ \A v : Leads(x, v) => Leads(f, v)
  BY <1>1, <1>2, SoundFacts, ArrayKept
<1>4. \A p \in DOMAIN x.events : \A n : UsedBy(f, p, n) <=> UsedBy(x, p, n)
  BY <1>1 DEF UsedBy
<1>5. Listing(f)
  BY <1>1, <1>3 DEF Sound, Listing
<1>6. Stacked(f)
  <2> SUFFICES ASSUME NEW i \in 1 .. f.count, NEW j \in 1 .. f.count, i < j,
                      NEW p \in DOMAIN f.events, UsedBy(f, p, f.native[j].code)
               PROVE  \E q \in 1 .. p : UsedBy(f, q, f.native[i].code)
    BY DEF Stacked
  <2>1. PICK q \in 1 .. p : UsedBy(x, q, f.native[i].code)
    BY <1>1, <1>4 DEF Sound, Stacked, SameArray
  <2>2. q \in DOMAIN x.events
    <3>1. DOMAIN x.events = 1 .. Len(x.events) /\ Len(x.events) \in Nat
      BY <1>1, ListFacts
    <3> QED
      BY <1>1, <3>1
  <2> QED
    BY <1>4, <2>1, <2>2
<1>7. f.count <= NumCounters
  BY <1>1, SoundFacts DEF SameArray
<1>8. CodesOf(f) = CodesOf(x)
  BY <1>1 DEF CodesOf
<1> QED
  BY <1>1, <1>3, <1>5, <1>6, <1>7, <1>8 DEF Sound

(* PAPI_start of a set whose context was used for another one. *)
LEMMA RestartSound ==
  ASSUME NEW e, Sound(e), NEW u \in UpdateControlState(e, "start"),
         NEW f, f = IF u.ok THEN MapEvents(u.e) ELSE u.e
  PROVE  Sound(f) /\ CodesOf(f) = CodesOf(e)
<1> DEFINE x == u.e
<1>1. /\ e \in EventSetRecs /\ \A i \in 1 .. e.count : e.native[i].code \in Natives
      /\ e.count \in Nat /\ 1 .. e.count \subseteq Slots /\ Dense(e, UseCount(e))
  BY SoundFacts
<1>2. Controlled(e, u, "start")
  BY <1>1, UpdateOutcomes
<1>3. /\ x \in EventSetRecs /\ x.events = e.events /\ SameSlots(e, x) /\ Placed(x)
      /\ (x.open = <<>> \/ Opened(x))
  BY <1>2 DEF Controlled, SameSlots
<1> HIDE DEF x
<1>4. Dense(x, UseCount(e))
  BY <1>1, <1>3, DenseSame
<1>5. x.count = e.count /\ \A i \in 1 .. e.count : x.native[i].code = e.native[i].code
  BY <1>1, <1>3 DEF SameSlots
<1>6. Sound(x)
  BY <1>3, <1>4, <1>5, SoundRestored
<1>7. CodesOf(x) = CodesOf(e)
  BY <1>3 DEF CodesOf
<1>8. ASSUME NEW i \in DOMAIN x.events
      PROVE  /\ Len(x.events[i].pos) = Len(NativesOf(x.events[i].code))
             /\ \A k \in 1 .. Len(NativesOf(x.events[i].code)) :
                  UseCount(x)[NativesOf(x.events[i].code)[k]] > 0
  <2>1. Len(x.events[i].pos) = Len(NativesOf(x.events[i].code))
    BY <1>6 DEF Sound, Listing, Leads
  <2>2. ASSUME NEW k \in 1 .. Len(NativesOf(x.events[i].code))
        PROVE  UseCount(x)[NativesOf(x.events[i].code)[k]] > 0
    <3>1. NativesOf(x.events[i].code)[k] \in Natives
      BY <1>3, ListFacts, NativesOfType
    <3>2. UsedBy(x, i, NativesOf(x.events[i].code)[k])
      BY DEF UsedBy
    <3> QED
      BY <1>3, <3>1, <3>2, UsedCount
  <2> QED
    BY <2>1, <2>2
<1>9. Mapped(x, MapEvents(x))
  <2>1. UseCount(x) \in Counts /\ Dense(x, UseCount(x))
    BY <1>6, SoundFacts
  <2> QED
    BY <1>3, <1>8, <2>1, MapEventsFinds
<1>10. Sound(MapEvents(x)) /\ CodesOf(MapEvents(x)) = CodesOf(x)
  <2> DEFINE g == MapEvents(x)
  <2>1. Mapped(x, g)
    BY <1>9
  <2> HIDE DEF g
  <2>2. Sound(g) /\ CodesOf(g) = CodesOf(x)
    BY <1>6, <2>1, MappedSound
  <2> QED
    BY <2>2 DEF g
<1>11. f = IF u.ok THEN MapEvents(x) ELSE x
  BY DEF x
<1> QED
  BY <1>6, <1>7, <1>10, <1>11

LEMMA EmptySound == Sound(EmptySet) /\ CodesOf(EmptySet) = <<>> /\ EmptySet.events = <<>>
<1> DEFINE e == EmptySet
<1>1. /\ e.assigned = FALSE /\ e.events = <<>> /\ e.count = 0 /\ e.open = <<>>
      /\ \A i \in Slots : e.native[i] = Free
  BY DEF EmptySet
<1>2. e \in EventSetRecs
  <2>1. Free \in Slot /\ 0 \in 0 .. MaxNatives
    BY FreeSlot, CountersAssumption
  <2>2. <<>> \in Seq(Info) /\ <<>> \in Seq(Natives)
    OBVIOUS
  <2> QED
    BY <2>1, <2>2 DEF EmptySet, EventSetRecs
<1> HIDE DEF e
<1>3. Len(e.events) = 0 /\ DOMAIN e.events = {}
  <2>1. Len(e.events) = 0
    BY <1>1
  <2> QED
    BY <1>2, <2>1, ListFacts
<1>4. UseCount(e) \in Counts /\ \A n \in Natives : ~(UseCount(e)[n] > 0)
  BY <1>2, <1>3, UsedCount
<1>5. Dense(e, UseCount(e))
  BY <1>1, <1>4 DEF Dense, Free
<1>6. Placed(e) /\ Stacked(e) /\ Listing(e)
  BY <1>1, <1>3, CountersAssumption DEF Placed, Stacked, Listing
<1>7. e.count <= NumCounters
  BY <1>1, CountersAssumption
<1>8. Sound(e)
  BY <1>1, <1>2, <1>5, <1>6, <1>7 DEF Sound
<1>9. CodesOf(e) = <<>>
  <2>1. CodesOf(e) \in Seq(Events) /\ Len(CodesOf(e)) = 0
    BY <1>2, <1>3, CodesFacts
  <2> DEFINE t == CodesOf(e)
  <2> HIDE DEF t
  <2>2. t = <<>>
    BY <2>1 DEF t
  <2> QED
    BY <2>2 DEF t
<1> QED
  BY <1>1, <1>8, <1>9 DEF e

(* _papi_hwi_read of open counters. *)
LEMMA ValuesRight ==
  ASSUME NEW e, Sound(e), e.open # <<>>
  PROVE  Values(e) = [i \in DOMAIN e.events |-> NativesOf(e.events[i].code)]
<1>1. /\ e \in EventSetRecs /\ e.count \in Nat
      /\ e.open = [i \in 1 .. e.count |-> e.native[i].code]
  BY SoundFacts DEF Opened
<1> DEFINE val(i) == IF e.events[i].pos[1] = 0 THEN <<>>
                     ELSE [k \in DOMAIN e.events[i].pos |->
                             IF e.events[i].pos[k] \in DOMAIN e.open
                               THEN e.open[e.events[i].pos[k]] ELSE NoNative]
<1>2. ASSUME NEW i \in DOMAIN e.events
      PROVE  val(i) = NativesOf(e.events[i].code)
  <2> DEFINE p == e.events[i].pos
             N == NativesOf(e.events[i].code)
             w == [k \in DOMAIN p |-> IF p[k] \in DOMAIN e.open
                                        THEN e.open[p[k]] ELSE NoNative]
  <2>1. /\ N # <<>> /\ Len(p) = Len(N)
        /\ \A k \in 1 .. Len(N) : p[k] \in 1 .. e.count /\ e.native[p[k]].code = N[k]
    BY DEF Sound, Listing, Leads
  <2>2. /\ p \in Seq(0 .. MaxNatives) /\ N \in Seq(Natives)
    BY <1>1, ListFacts, NativesOfType
  <2>3. Len(N) \in Nat /\ DOMAIN p = 1 .. Len(N) /\ DOMAIN N = 1 .. Len(N)
        /\ Len(N) > 0
    <3> HIDE DEF p, N
    <3> QED
      BY <2>1, <2>2
  <2>4. val(i) = IF p[1] = 0 THEN <<>> ELSE w
    BY Zenon
  <2> HIDE DEF p, N
  <2>5. p[1] # 0
    <3>1. 1 \in 1 .. Len(N)
      BY <2>3
    <3> QED
      BY <1>1, <2>1, <3>1
  <2>6. \A k \in 1 .. Len(N) : w[k] = N[k]
    BY <1>1, <2>1, <2>3
  <2>7. w = N
    <3>1. w = [k \in 1 .. Len(N) |-> w[k]]
      BY <2>3
    <3>2. N = [k \in 1 .. Len(N) |-> N[k]]
      BY <2>2, <2>3
    <3> HIDE DEF w
    <3> QED
      BY <2>6, <3>1, <3>2
  <2> HIDE DEF val, w
  <2> QED
    BY <2>4, <2>5, <2>7 DEF N
<1>3. Values(e) = [i \in DOMAIN e.events |-> val(i)]
  BY Zenon DEF Values
<1> HIDE DEF val
<1> QED
  BY <1>2, <1>3

-----------------------------------------------------------------------------
(***************************************************************************)
(* What EventSet promises of a set.                                        *)
(***************************************************************************)
AbstractSets == [events : Seq(Events), running : BOOLEAN, count : {0}]

LEMMA AbstractType ==
  ASSUME NEW e \in EventSetRecs, NEW runs \in BOOLEAN
  PROVE  /\ Abstract(e, runs) \in AbstractSets
         /\ Abstract(e, runs).events = CodesOf(e) /\ Abstract(e, runs).running = runs
BY CodesFacts DEF Abstract, AbstractSets

(* EventSet lets the call end in is, with the code ret and these values. *)
Allows(op, was, is, c, ret, values) ==
  \E o \in Promised(op, was, c) :
    /\ o.es = is
    /\ (o.ret = "OK") = (ret = "OK")
    /\ o.ret = "OK" /\ op \in {"read", "stop"} =>
         values = [i \in DOMAIN o.values |-> NativesOf(o.values[i].code)]

LEMMA AllowsOutcome ==
  ASSUME NEW op, NEW was, NEW c, NEW o \in Promised(op, was, c),
         NEW is, o.es = is, NEW ret, (o.ret = "OK") <=> (ret = "OK"),
         NEW values,
         o.ret = "OK" /\ op \in {"read", "stop"} =>
           values = [i \in DOMAIN o.values |-> NativesOf(o.values[i].code)]
  PROVE  Allows(op, was, is, c, ret, values)
<1>1. (o.ret = "OK") = (ret = "OK")
  BY Zenon
<1> QED
  BY <1>1, Zenon DEF Allows

(* Any addition may fail, and a failure leaves the set alone. *)
LEMMA AddMayFail ==
  ASSUME NEW was \in AbstractSets, NEW c, NEW ret, ret # "OK", NEW values
  PROVE  Allows("add", was, was, c, ret, values)
<1> DEFINE evs == <<c>>
           err(k) == IF k > Len(evs) THEN "OK"
                     ELSE IF ES!Addable(was, evs, k) THEN "ESYS" ELSE ES!AddError(evs, k)
           o == ES!Outcome(IF was.running THEN "EISRUN" ELSE err(1), was, <<>>)
<1>1. o \in ES!AddEach(was, evs)
  <2>1. CASE was.running
    BY <2>1 DEF ES!AddEach
  <2>2. CASE ~was.running
    <3>1. 1 \in ES!AddFailsAt(was, evs)
      <4>1. Len(evs) = 1
        OBVIOUS
      <4> HIDE DEF evs
      <4> QED
        BY <4>1 DEF ES!AddFailsAt
    <3>2. SubSeq(evs, 1, 1 - 1) = <<>>
      OBVIOUS
    <3>3. was.events \o <<>> = was.events
      BY DEF AbstractSets
    <3>4. [was EXCEPT !.events = @ \o SubSeq(evs, 1, 1 - 1)] = was
      <4> HIDE DEF evs
      <4> QED
        BY <3>2, <3>3 DEF AbstractSets
    <3>5. ES!AddEach(was, evs) =
            {ES!Outcome(err(k), [was EXCEPT !.events = @ \o SubSeq(evs, 1, k - 1)], <<>>) :
               k \in ES!AddFailsAt(was, evs)}
      BY <2>2, Zenon DEF ES!AddEach
    <3> HIDE DEF err, evs
    <3> QED
      BY <2>2, <3>1, <3>4, <3>5
  <2> QED
    BY <2>1, <2>2
<1>2. o.ret # "OK" /\ o.es = was
  <2>1. err(1) # "OK"
    <3>1. Len(evs) = 1 /\ ~(1 > Len(evs))
      OBVIOUS
    <3> QED
      BY <3>1 DEF ES!AddError
  <2> HIDE DEF err
  <2> QED
    BY <2>1 DEF ES!Outcome
<1> HIDE DEF o, evs
<1>3. o \in ES!AddEvents(was, evs)
  BY <1>1, <1>2 DEF ES!AddEvents
<1>4. o \in Promised("add", was, c)
  BY <1>3 DEF Promised, evs
<1> QED
  BY <1>2, <1>4, AllowsOutcome

LEMMA AddMaySucceed ==
  ASSUME NEW was \in AbstractSets, ~was.running, NEW c \in Events,
         NativesOf(c) # <<>>, Len(was.events) < MaxNatives,
         \A j \in 1 .. Len(was.events) : was.events[j] # c,
         NEW is \in AbstractSets, ~is.running, is.events = was.events \o <<c>>,
         NEW values
  PROVE  Allows("add", was, is, c, "OK", values)
<1> DEFINE evs == <<c>>
           o == ES!Outcome("OK", is, <<>>)
           err(k) == IF k > Len(evs) THEN "OK"
                     ELSE IF ES!Addable(was, evs, k) THEN "ESYS" ELSE ES!AddError(evs, k)
<1>1. Len(evs) = 1 /\ evs[1] = c
  OBVIOUS
<1>2. ES!Addable(was, evs, 1)
  <2>1. Len(was.events) + 1 <= MaxNatives
    BY CountersAssumption DEF AbstractSets
  <2> HIDE DEF evs
  <2> QED
    BY <1>1, <2>1 DEF ES!Addable
<1>3. 2 \in ES!AddFailsAt(was, evs)
  <2> HIDE DEF evs
  <2> QED
    BY <1>1, <1>2 DEF ES!AddFailsAt
<1>4. SubSeq(evs, 1, 2 - 1) = <<c>>
  <2> DEFINE t == SubSeq(evs, 1, 1)
  <2>1. evs \in Seq({c})
    OBVIOUS
  <2> HIDE DEF evs
  <2>2. t \in Seq({c}) /\ Len(t) = 1 /\ t[1] = c
    BY <1>1, <2>1
  <2> HIDE DEF t
  <2>3. t = <<c>>
    BY <2>2
  <2> QED
    BY <2>3 DEF t
<1>5. [was EXCEPT !.events = @ \o SubSeq(evs, 1, 2 - 1)] = is
  <2> HIDE DEF evs
  <2> QED
    BY <1>4 DEF AbstractSets
<1>6. err(2) = "OK"
  <2>1. 2 > Len(evs)
    BY <1>1
  <2> QED
    BY <2>1
<1>7. o \in ES!AddEach(was, evs)
  <2>1. ES!AddEach(was, evs) =
          {ES!Outcome(err(k), [was EXCEPT !.events = @ \o SubSeq(evs, 1, k - 1)], <<>>) :
             k \in ES!AddFailsAt(was, evs)}
    BY Zenon DEF ES!AddEach
  <2> HIDE DEF err, evs
  <2> QED
    BY <1>3, <1>5, <1>6, <2>1
<1>8. o.ret = "OK" /\ o.es = is
  BY DEF ES!Outcome
<1> HIDE DEF o, evs
<1>9. o \in ES!AddEvents(was, evs)
  BY <1>7, <1>8 DEF ES!AddEvents
<1>10. o \in Promised("add", was, c)
  BY <1>9 DEF Promised, evs
<1> QED
  BY <1>8, <1>10, AllowsOutcome

LEMMA RemoveRunning ==
  ASSUME NEW was \in AbstractSets, was.running, NEW c, NEW ret, ret # "OK", NEW values
  PROVE  Allows("remove", was, was, c, ret, values)
<1> DEFINE o == ES!Outcome("EISRUN", was, <<>>)
<1>1. o \in Promised("remove", was, c)
  BY DEF Promised
<1>2. o.ret # "OK" /\ o.es = was
  BY DEF ES!Outcome
<1> QED
  BY <1>1, <1>2, AllowsOutcome

LEMMA RemoveMaySucceed ==
  ASSUME NEW was \in AbstractSets, ~was.running,
         NEW i \in DOMAIN was.events, NEW c, was.events[i] = c,
         NEW is \in AbstractSets, ~is.running, is.events = RemoveAt(was.events, i),
         NEW values
  PROVE  Allows("remove", was, is, c, "OK", values)
<1> DEFINE o == ES!Outcome("OK", is, <<>>)
<1>1. [was EXCEPT !.events = RemoveAt(@, i)] = is
  BY DEF AbstractSets
<1>2. Promised("remove", was, c) =
        {ES!Outcome("OK", [was EXCEPT !.events = RemoveAt(@, k)], <<>>) :
           k \in {k \in DOMAIN was.events : was.events[k] = c}}
        \cup {ES!Outcome("EINVAL", was, <<>>)}
  BY DEF Promised
<1>3. o \in Promised("remove", was, c)
  BY <1>1, <1>2
<1>4. o.ret = "OK" /\ o.es = is
  BY DEF ES!Outcome
<1> QED
  BY <1>3, <1>4, AllowsOutcome

LEMMA StartMayFail ==
  ASSUME NEW was \in AbstractSets, NEW c, NEW ret, ret # "OK", NEW values
  PROVE  Allows("start", was, was, c, ret, values)
<1> DEFINE o == ES!Outcome(IF was.running THEN "EISRUN"
                           ELSE IF was.events = <<>> THEN "EINVAL" ELSE "ESYS",
                           was, <<>>)
<1>1. o \in Promised("start", was, c)
  BY DEF Promised, ES!Start, ES!Failing
<1>2. o.ret # "OK" /\ o.es = was
  BY DEF ES!Outcome
<1> QED
  BY <1>1, <1>2, AllowsOutcome

LEMMA StartMaySucceed ==
  ASSUME NEW was \in AbstractSets, ~was.running, was.events # <<>>,
         NEW is \in AbstractSets, is.running, is.events = was.events, NEW c, NEW values
  PROVE  Allows("start", was, is, c, "OK", values)
<1> DEFINE o == ES!Outcome("OK", is, <<>>)
<1>1. [was EXCEPT !.running = TRUE, !.count = 0] = is
  BY DEF AbstractSets
<1>2. o \in Promised("start", was, c)
  BY <1>1 DEF Promised, ES!Start
<1>3. o.ret = "OK" /\ o.es = is
  BY DEF ES!Outcome
<1> QED
  BY <1>2, <1>3, AllowsOutcome

LEMMA StopMayFail ==
  ASSUME NEW was \in AbstractSets, NEW c, NEW ret, ret # "OK", NEW values
  PROVE  Allows("stop", was, was, c, ret, values)
<1> DEFINE o == ES!Outcome(IF was.running THEN "ESYS" ELSE "ENOTRUN", was, <<>>)
<1>1. o \in Promised("stop", was, c)
  BY DEF Promised, ES!Stop, ES!Failing
<1>2. o.ret # "OK" /\ o.es = was
  BY DEF ES!Outcome
<1> QED
  BY <1>1, <1>2, AllowsOutcome

LEMMA ReadMayFail ==
  ASSUME NEW was \in AbstractSets, was.running, NEW c, NEW ret, ret # "OK", NEW values
  PROVE  Allows("read", was, was, c, ret, values)
<1> DEFINE o == ES!Outcome("ESYS", was, <<>>)
<1>1. o \in Promised("read", was, c)
  BY DEF Promised, ES!Read, ES!Failing
<1>2. o.ret # "OK" /\ o.es = was
  BY DEF ES!Outcome
<1> QED
  BY <1>1, <1>2, AllowsOutcome

(* The values of the events of the list. *)
LEMMA ReadingCodes ==
  ASSUME NEW was \in AbstractSets
  PROVE  [i \in DOMAIN ES!Reading(was) |-> NativesOf(ES!Reading(was)[i].code)] =
           [i \in DOMAIN was.events |-> NativesOf(was.events[i])]
<1>1. DOMAIN was.events = 1 .. Len(was.events)
  BY DEF AbstractSets
<1>2. ES!Reading(was) = [i \in 1 .. Len(was.events) |-> [code |-> was.events[i], n |-> was.count]]
  BY DEF ES!Reading
<1> QED
  BY <1>1, <1>2

LEMMA ReadsMaySucceed ==
  ASSUME NEW was \in AbstractSets, was.running, NEW is \in AbstractSets,
         is.events = was.events, NEW c, NEW values,
         values = [i \in DOMAIN was.events |-> NativesOf(was.events[i])]
  PROVE  /\ ~is.running => Allows("stop", was, is, c, "OK", values)
         /\ is.running => Allows("read", was, is, c, "OK", values)
<1> DEFINE o == ES!Outcome("OK", is, ES!Reading(was))
<1>1. o.ret = "OK" /\ o.es = is /\ o.values = ES!Reading(was)
  BY DEF ES!Outcome
<1>2. values = [i \in DOMAIN o.values |-> NativesOf(o.values[i].code)]
  BY <1>1, ReadingCodes
<1>3. ASSUME ~is.running PROVE o \in Promised("stop", was, c)
  <2>1. [was EXCEPT !.running = FALSE] = is
    BY <1>3 DEF AbstractSets
  <2> QED
    BY <2>1 DEF Promised, ES!Stop
<1>4. ASSUME is.running PROVE o \in Promised("read", was, c)
  <2>1. was = is
    BY <1>4 DEF AbstractSets
  <2> QED
    BY <2>1 DEF Promised, ES!Read
<1> HIDE DEF o
<1> QED
  BY <1>1, <1>2, <1>3, <1>4, AllowsOutcome

LEMMA CleanupAllowed ==
  ASSUME NEW was \in AbstractSets, NEW is \in AbstractSets, is.running = was.running,
         NEW ret, NEW c, NEW values,
         IF was.running THEN is = was /\ ret # "OK" ELSE is.events = <<>> /\ ret = "OK"
  PROVE  Allows("cleanup", was, is, c, ret, values)
<1> DEFINE o == [ret |-> IF was.running THEN "EISRUN" ELSE "OK",
                 es |-> ES!Cleanup(was), values |-> <<>>]
<1>1. o \in Promised("cleanup", was, c)
  BY DEF Promised
<1>2. ES!Cleanup(was) = is
  BY DEF ES!Cleanup, AbstractSets
<1>3. o.es = is /\ (o.ret = "OK" <=> ret = "OK")
  BY <1>2
<1> HIDE DEF o
<1> QED
  BY <1>1, <1>3, AllowsOutcome

-----------------------------------------------------------------------------
(***************************************************************************)
(* The inductive invariant, of programs that remove the event they added   *)
(* last and of counters that can be opened again when they do.             *)
(***************************************************************************)
Orderly == ~AnyOrder /\ "remove" \notin Faults

IInv ==
  /\ esi \in [Sets -> EventSetRecs]
  /\ \A s \in Sets : Sound(esi[s])
  /\ running \in Sets \cup {NoSet}
  /\ \A s \in Sets : running = s => esi[s].open # <<>>
  /\ from \in Sets \cup {NoSet}
  /\ reply.op \in Ops /\ reply.set \in Sets

(* A call of op on s that leaves it as e and in the state runs. *)
Called(op, s, c, e, ret, values) ==
  /\ esi' = [esi EXCEPT ![s] = e]
  /\ reply' = Reply(op, s, c, ret, values)
  /\ from' \in Sets \cup {NoSet}

LEMMA AbstractSame ==
  ASSUME NEW e, NEW p \in BOOLEAN, NEW q \in BOOLEAN, p <=> q
  PROVE  Abstract(e, p) = Abstract(e, q)
<1>1. p = q
  BY Zenon
<1> QED
  BY <1>1, Zenon

LEMMA ReplyFields ==
  ASSUME NEW op, NEW s, NEW c, NEW ret, NEW values, NEW r,
         r = Reply(op, s, c, ret, values)
  PROVE  r.op = op /\ r.set = s /\ r.code = c /\ r.ret = ret /\ r.values = values
BY DEF Reply

(* What every call comes to: it keeps the invariant when it leaves its set *)
(* sound, and does its part when EventSet allows what it did to that set.  *)
LEMMA CallKeeps ==
  ASSUME IInv, NEW op \in Ops, NEW s \in Sets, NEW c, NEW e, NEW ret, NEW values,
         Called(op, s, c, e, ret, values),
         Sound(e), running' = s => e.open # <<>>,
         running' \in Sets \cup {NoSet},
         \A t \in Sets : t # s => (running' = t <=> running = t),
         Allows(op, Abstract(esi[s], running = s), Abstract(e, running' = s), c,
                ret, values)
  PROVE  IInv' /\ \A t \in Sets : Implements(t)
<1>1. /\ esi'[s] = e /\ \A t \in Sets : t # s => esi'[t] = esi[t]
      /\ esi' \in [Sets -> EventSetRecs]
  BY DEF IInv, Called, Sound
<1>2. /\ reply'.op = op /\ reply'.set = s /\ reply'.code = c
      /\ reply'.ret = ret /\ reply'.values = values
  BY ReplyFields DEF Called
<1>3. \A t \in Sets : Sound(esi'[t])
  BY <1>1 DEF IInv
<1>4. \A t \in Sets : running' = t => esi'[t].open # <<>>
  BY <1>1 DEF IInv
<1>5. IInv'
  <2>1. from' \in Sets \cup {NoSet}
    BY DEF Called
  <2>2. \A t \in Sets : Sound(esi[t])'
    BY <1>3
  <2> QED
    BY <1>1, <1>2, <1>3, <1>4, <2>1, <2>2 DEF IInv
<1>6. ASSUME NEW t \in Sets, t # s
      PROVE  Implements(t)
  <2>1. Abstract(esi'[t], running' = t) = Abstract(esi[t], running = t)
    <3>1. esi'[t] = esi[t] /\ (running' = t <=> running = t)
      BY <1>1, <1>6
    <3>2. (running' = t) \in BOOLEAN /\ (running = t) \in BOOLEAN
      OBVIOUS
    <3> QED
      BY <3>1, <3>2, AbstractSame, Zenon
  <2> QED
    BY <1>2, <1>6, <2>1, Zenon DEF Implements
<1>7. Implements(s)
  <2>1. Abstract(esi'[s], running' = s) = Abstract(e, running' = s)
    BY <1>1, Zenon
  <2> DEFINE was == Abstract(esi[s], running = s)
             is  == Abstract(esi'[s], running' = s)
  <2>2. Implements(s) <=>
          IF s # reply'.set THEN is = was
          ELSE Allows(reply'.op, was, is, reply'.code, reply'.ret, reply'.values)
    BY Zenon DEF Implements, Allows
  <2>3. Allows(op, was, is, c, ret, values)
    BY <2>1, Zenon
  <2> HIDE DEF was, is
  <2> QED
    BY <1>2, <2>2, <2>3
<1> QED
  BY <1>5, <1>6, <1>7

(* A call that is refused. *)
LEMMA RefusalKeeps ==
  ASSUME IInv, NEW op \in Ops, NEW s \in Sets, NEW c, NEW error, error # "OK",
         Refused(op, s, c, error),
         Allows(op, Abstract(esi[s], running = s), Abstract(esi[s], running = s), c,
                error, <<>>)
  PROVE  IInv' /\ \A t \in Sets : Implements(t)
<1> DEFINE e == esi[s]
<1>1. running' = running /\ esi' = esi /\ from' = from
      /\ reply' = Reply(op, s, c, error, <<>>)
  BY DEF Refused
<1>2. Called(op, s, c, e, error, <<>>)
  <2>1. esi = [esi EXCEPT ![s] = esi[s]]
    BY DEF IInv
  <2> QED
    BY <1>1, <2>1 DEF Called, IInv
<1>3. Sound(e) /\ (running' = s => e.open # <<>>) /\ running' \in Sets \cup {NoSet}
  BY <1>1 DEF IInv
<1>4. Abstract(e, running' = s) = Abstract(e, running = s)
  BY <1>1, Zenon
<1>5. Allows(op, Abstract(esi[s], running = s), Abstract(e, running' = s), c, error, <<>>)
  BY <1>4, Zenon
<1> HIDE DEF e
<1> QED
  BY <1>1, <1>2, <1>3, <1>5, CallKeeps

(* A call on a stopped set, with its outcomes. *)
LEMMA ChangeKeeps ==
  ASSUME IInv, NEW op \in Ops, NEW s \in Sets, NEW c, running # s, NEW outcomes,
         Change(op, s, c, outcomes),
         \A o \in outcomes :
           /\ Sound(o.e)
           /\ Allows(op, Abstract(esi[s], FALSE), Abstract(o.e, FALSE), c, o.ret, <<>>)
  PROVE  IInv' /\ \A t \in Sets : Implements(t)
<1>1. PICK o \in outcomes :
        /\ esi'   = [esi EXCEPT ![s] = o.e]
        /\ from'  = IF o.context THEN s ELSE from
        /\ reply' = Reply(op, s, c, o.ret, <<>>)
        /\ running' = running
  BY DEF Change
<1> DEFINE e == o.e
           ret == o.ret
<1>2. Sound(e) /\ Allows(op, Abstract(esi[s], FALSE), Abstract(e, FALSE), c, ret, <<>>)
  OBVIOUS
<1>3. Called(op, s, c, e, ret, <<>>)
  BY <1>1 DEF Called, IInv
<1>4. Abstract(esi[s], running = s) = Abstract(esi[s], FALSE)
      /\ Abstract(e, running' = s) = Abstract(e, FALSE)
  <2>1. (running = s <=> FALSE) /\ (running' = s <=> FALSE)
    BY <1>1
  <2>2. (running = s) \in BOOLEAN /\ (running' = s) \in BOOLEAN /\ FALSE \in BOOLEAN
    OBVIOUS
  <2> QED
    BY <2>1, <2>2, AbstractSame, Zenon
<1>5. Allows(op, Abstract(esi[s], running = s), Abstract(e, running' = s), c, ret, <<>>)
  BY <1>2, <1>4, Zenon
<1>6. running' # s /\ running' \in Sets \cup {NoSet}
  BY <1>1 DEF IInv
<1> HIDE DEF e, ret
<1> QED
  BY <1>1, <1>2, <1>3, <1>5, <1>6, CallKeeps

LEMMA WasType ==
  ASSUME IInv, NEW s \in Sets
  PROVE  /\ Abstract(esi[s], running = s) \in AbstractSets
         /\ Abstract(esi[s], running = s).events = CodesOf(esi[s])
         /\ Abstract(esi[s], running = s).running <=> running = s
         /\ esi[s] \in EventSetRecs /\ Sound(esi[s])
<1> DEFINE e == esi[s]
<1>1. e \in EventSetRecs /\ Sound(e)
  BY DEF IInv
<1>2. (running = s) \in BOOLEAN
  OBVIOUS
<1> HIDE DEF e
<1>3. /\ Abstract(e, running = s) \in AbstractSets
      /\ Abstract(e, running = s).events = CodesOf(e)
      /\ Abstract(e, running = s).running = (running = s)
  BY <1>1, <1>2, AbstractType
<1>4. Abstract(e, running = s).running <=> running = s
  BY <1>3, Zenon
<1> QED
  BY <1>1, <1>3, <1>4 DEF e

LEMMA StoppedType ==
  ASSUME NEW e \in EventSetRecs
  PROVE  /\ Abstract(e, FALSE) \in AbstractSets
         /\ Abstract(e, FALSE).events = CodesOf(e)
         /\ ~Abstract(e, FALSE).running
<1>1. /\ Abstract(e, FALSE) \in AbstractSets
      /\ Abstract(e, FALSE).events = CodesOf(e)
      /\ Abstract(e, FALSE).running = FALSE
  BY AbstractType
<1> QED
  BY <1>1

(* Two sets with the same codes are the same to EventSet. *)
LEMMA SameCodes ==
  ASSUME NEW e, NEW f, CodesOf(e) = CodesOf(f), NEW runs
  PROVE  Abstract(e, runs) = Abstract(f, runs)
BY Zenon DEF Abstract

LEMMA AddCallKeeps ==
  ASSUME IInv, NEW s \in Sets, NEW c \in Events, AddCall(s, c)
  PROVE  IInv' /\ \A t \in Sets : Implements(t)
<1>1. "add" \in Ops
  BY DEF Ops
<1>2. CASE running = s
  <2>1. Refused("add", s, c, "EISRUN")
    BY <1>2 DEF AddCall
  <2>2. Allows("add", Abstract(esi[s], running = s), Abstract(esi[s], running = s), c,
               "EISRUN", <<>>)
    BY WasType, AddMayFail
  <2> QED
    BY <1>1, <2>1, <2>2, RefusalKeeps
<1>3. CASE running # s
  <2> DEFINE e == esi[s]
             outcomes == AddEvent(e, c)
  <2>1. Change("add", s, c, outcomes)
    BY <1>3 DEF AddCall
  <2>2. Sound(e) /\ e \in EventSetRecs
    BY WasType
  <2> HIDE DEF e
  <2>3. ASSUME NEW o \in outcomes
        PROVE  /\ Sound(o.e)
               /\ Allows("add", Abstract(e, FALSE), Abstract(o.e, FALSE), c, o.ret, <<>>)
    <3> DEFINE f == o.e
               was == Abstract(e, FALSE)
               is  == Abstract(f, FALSE)
    <3>1. AddKeeps(e, o, c)
      BY <2>2, AddOutcomes
    <3>2. /\ was \in AbstractSets /\ ~was.running /\ was.events = CodesOf(e)
      BY <2>2, StoppedType
    <3>3. CASE o.ret = "OK"
      <4>1. Grown(e, f, c) /\ MayAdd(e, c)
        BY <3>1, <3>3 DEF AddKeeps
      <4> HIDE DEF f
      <4>2. Sound(f) /\ f \in EventSetRecs
        BY <4>1 DEF Grown, Sound
      <4>3. is \in AbstractSets /\ ~is.running /\ is.events = CodesOf(f)
        BY <4>2, StoppedType
      <4> DEFINE L == Len(e.events)
                 x == CodesOf(e)
                 y == CodesOf(f)
      <4>4. /\ x \in Seq(Events) /\ y \in Seq(Events) /\ Len(x) = L /\ Len(y) = L + 1
            /\ \A i \in 1 .. L : y[i] = x[i]
            /\ y[L + 1] = c
        <5>1. /\ L \in Nat /\ DOMAIN e.events = 1 .. L
              /\ DOMAIN f.events = 1 .. L + 1 /\ Len(f.events) = L + 1
          BY <2>2, <4>1, <4>2, ListFacts DEF Grown
        <5>2. L + 1 \in 1 .. L + 1 /\ \A i \in 1 .. L : i \in 1 .. L + 1
          BY <5>1
        <5> HIDE DEF L
        <5>3. \A i \in 1 .. L : f.events[i].code = e.events[i].code
          BY <4>1 DEF Grown, L
        <5>4. f.events[L + 1].code = c
          BY <4>1 DEF Grown, L
        <5> QED
          BY <2>2, <4>2, <5>1, <5>2, <5>3, <5>4, CodesFacts DEF L
      <4>5. L \in Nat /\ L < MaxNatives /\ NativesOf(c) # <<>>
            /\ \A j \in 1 .. L : x[j] # c
        <5>1. L \in Nat /\ DOMAIN e.events = 1 .. L
          BY <2>2, ListFacts
        <5> QED
          BY <2>2, <4>1, <5>1, CodesFacts DEF MayAdd
      <4> HIDE DEF x, y, L
      <4>6. y = x \o <<c>>
        BY <4>4, <4>5
      <4>7. Len(was.events) < MaxNatives /\ is.events = was.events \o <<c>>
            /\ \A j \in 1 .. Len(was.events) : was.events[j] # c
        BY <3>2, <4>3, <4>4, <4>5, <4>6 DEF x, y
      <4> HIDE DEF was, is
      <4>8. Allows("add", was, is, c, "OK", <<>>)
        BY <3>2, <4>3, <4>5, <4>7, AddMaySucceed
      <4> QED
        BY <3>3, <4>2, <4>8 DEF f, was, is
    <3>4. CASE o.ret # "OK"
      <4>1. Sound(f) /\ f.events = e.events
        BY <3>1, <3>4 DEF AddKeeps
      <4> HIDE DEF f
      <4>2. CodesOf(e) = CodesOf(f)
        BY <4>1 DEF CodesOf
      <4>3. is = was
        BY <4>2, SameCodes
      <4> DEFINE ret == o.ret
      <4>4. ret # "OK"
        BY <3>4
      <4> HIDE DEF was, is, ret
      <4>5. Allows("add", was, was, c, ret, <<>>)
        BY <3>2, <4>4, AddMayFail
      <4> QED
        BY <4>1, <4>3, <4>5 DEF f, was, is, ret
    <3> QED
      BY <3>3, <3>4
  <2> HIDE DEF outcomes
  <2> QED
    BY <1>1, <1>3, <2>1, <2>3, ChangeKeeps DEF e
<1> QED
  BY <1>2, <1>3

LEMMA RemoveCallKeeps ==
  ASSUME IInv, Orderly, NEW s \in Sets, NEW c, RemoveCall(s, c)
  PROVE  IInv' /\ \A t \in Sets : Implements(t)
<1>1. "remove" \in Ops
  BY DEF Ops
<1>2. CASE running = s
  <2>1. Refused("remove", s, c, "EISRUN")
    BY <1>2 DEF RemoveCall
  <2>2. Allows("remove", Abstract(esi[s], running = s), Abstract(esi[s], running = s), c,
               "EISRUN", <<>>)
    BY <1>2, WasType, RemoveRunning
  <2> QED
    BY <1>1, <2>1, <2>2, RefusalKeeps
<1>3. CASE running # s
  <2> DEFINE e == esi[s]
             outcomes == RemoveEvent(e, c)
             L == Len(e.events)
  <2>1. Change("remove", s, c, outcomes) /\ e.events # <<>> /\ c = Last(CodesOf(e))
    BY <1>3 DEF RemoveCall, Orderly
  <2>2. Sound(e) /\ e \in EventSetRecs
    BY WasType
  <2> HIDE DEF e
  <2>3. /\ L \in Nat /\ L > 0 /\ DOMAIN e.events = 1 .. L
        /\ L \in 1 .. L /\ c = e.events[L].code
    <3>1. L \in Nat /\ DOMAIN e.events = 1 .. L /\ e.events \in Seq(Info)
      BY <2>2, ListFacts
    <3>2. L > 0
      BY <2>1, <3>1
    <3>3. L \in 1 .. L
      BY <3>1, <3>2
    <3>4. Last(CodesOf(e)) = CodesOf(e)[L]
      <4>1. Len(CodesOf(e)) = L
        BY <2>2, CodesFacts
      <4>2. Last(CodesOf(e)) = CodesOf(e)[Len(CodesOf(e))]
        BY Zenon DEF Last
      <4> QED
        BY <4>1, <4>2
    <3>5. CodesOf(e)[L] = e.events[L].code
      BY <2>2, <3>1, <3>3, CodesFacts
    <3> QED
      BY <2>1, <3>1, <3>2, <3>3, <3>4, <3>5
  <2>4. ASSUME NEW o \in outcomes
        PROVE  /\ Sound(o.e)
               /\ Allows("remove", Abstract(e, FALSE), Abstract(o.e, FALSE), c, o.ret, <<>>)
    <3> DEFINE f == o.e
               was == Abstract(e, FALSE)
               is  == Abstract(f, FALSE)
               x == CodesOf(e)
               y == CodesOf(f)
    <3>1. o.ret = "OK" /\ Shrunk(e, f)
      <4>1. o \in RemoveEvent(e, e.events[Len(e.events)].code)
        BY <2>3
      <4>2. Len(e.events) > 0 /\ "remove" \notin Faults
        BY <2>3 DEF Orderly
      <4> HIDE DEF outcomes, L
      <4> QED
        BY <2>2, <4>1, <4>2, RemoveOutcomes
    <3> HIDE DEF f
    <3>2. Sound(f) /\ f \in EventSetRecs
      BY <3>1 DEF Shrunk, Sound
    <3>3. /\ was \in AbstractSets /\ ~was.running /\ was.events = x
          /\ is \in AbstractSets /\ ~is.running /\ is.events = y
      BY <2>2, <3>2, StoppedType
    <3>4. /\ x \in Seq(Events) /\ y \in Seq(Events) /\ Len(x) = L /\ Len(y) = L - 1
          /\ x[L] = c
          /\ \A i \in 1 .. L - 1 : y[i] = x[i]
      <4>1. DOMAIN f.events = 1 .. L - 1 /\ Len(f.events) = L - 1
        BY <3>1, <3>2, ListFacts DEF Shrunk
      <4>2. \A i \in 1 .. L - 1 : i \in 1 .. L
        BY <2>3
      <4>3. \A i \in 1 .. L - 1 : f.events[i].code = e.events[i].code
        BY <3>1 DEF Shrunk
      <4> QED
        BY <2>2, <2>3, <3>2, <4>1, <4>2, <4>3, CodesFacts
    <3> HIDE DEF x, y, L
    <3>5. y = RemoveAt(x, L)
      <4>1. SubSeq(x, L + 1, L) = <<>>
        BY <2>3, <3>4
      <4> DEFINE K == L - 1
                 t == SubSeq(x, 1, K)
      <4>2. K \in 0 .. Len(x) /\ Len(x) \in Nat
        BY <2>3, <3>4
      <4>3. Len(y) = K /\ \A i \in 1 .. K : y[i] = x[i]
        BY <3>4
      <4>4. RemoveAt(x, L) = t \o <<>>
        <5>1. Len(x) = L
          BY <3>4
        <5> QED
          BY <4>1, <5>1, Zenon DEF RemoveAt
      <4> HIDE DEF K
      <4>5. t \in Seq(Events) /\ Len(t) = K /\ \A i \in 1 .. K : t[i] = x[i]
        BY <3>4, <4>2
      <4> HIDE DEF t
      <4>6. t \o <<>> = t
        BY <4>5
      <4>7. y = t
        BY <3>4, <4>3, <4>5
      <4> QED
        BY <4>4, <4>6, <4>7
    <3>6. L \in DOMAIN was.events /\ was.events[L] = c /\ is.events = RemoveAt(was.events, L)
      <4>1. L \in DOMAIN x /\ x[L] = c
        BY <2>3, <3>4
      <4> HIDE DEF was, is
      <4> QED
        BY <3>3, <3>5, <4>1
    <3> HIDE DEF was, is
    <3>7. Allows("remove", was, is, c, "OK", <<>>)
      BY <3>3, <3>6, RemoveMaySucceed
    <3> QED
      BY <3>1, <3>2, <3>7 DEF f, was, is
  <2> HIDE DEF outcomes
  <2> QED
    BY <1>1, <1>3, <2>1, <2>4, ChangeKeeps DEF e
<1> QED
  BY <1>2, <1>3

LEMMA CleanupKeeps ==
  ASSUME IInv, NEW s \in Sets, Cleanup(s)
  PROVE  IInv' /\ \A t \in Sets : Implements(t)
<1>1. "cleanup" \in Ops
  BY DEF Ops
<1>2. CASE running = s
  <2>1. Refused("cleanup", s, NoNative, "EISRUN")
    BY <1>2 DEF Cleanup
  <2> DEFINE was == Abstract(esi[s], running = s)
  <2>2. was \in AbstractSets /\ was.running
    BY <1>2, WasType
  <2> HIDE DEF was
  <2>3. Allows("cleanup", was, was, NoNative, "EISRUN", <<>>)
    BY <2>2, CleanupAllowed
  <2> QED
    BY <1>1, <2>1, <2>3, RefusalKeeps DEF was
<1>3. CASE running # s
  <2> DEFINE e == esi[s]
             outcomes == {Outcome("OK", EmptySet, e.assigned)}
             was == Abstract(e, FALSE)
             is  == Abstract(EmptySet, FALSE)
  <2>1. Change("cleanup", s, NoNative, outcomes)
    BY <1>3 DEF Cleanup
  <2>2. /\ was \in AbstractSets /\ ~was.running
        /\ is \in AbstractSets /\ ~is.running /\ is.events = <<>>
    BY WasType, StoppedType, EmptySound DEF Sound
  <2>3. Allows("cleanup", was, is, NoNative, "OK", <<>>)
    <3> HIDE DEF was, is
    <3>1. is.running = was.running
      BY <2>2 DEF AbstractSets
    <3> QED
      BY <2>2, <3>1, CleanupAllowed
  <2>4. ASSUME NEW o \in outcomes
        PROVE  /\ Sound(o.e)
               /\ Allows("cleanup", was, Abstract(o.e, FALSE), NoNative, o.ret, <<>>)
    <3>1. o.e = EmptySet /\ o.ret = "OK"
      BY DEF Outcome
    <3> HIDE DEF outcomes, was
    <3> QED
      BY <2>3, <3>1, EmptySound, Zenon
  <2> HIDE DEF outcomes
  <2> QED
    BY <1>1, <1>3, <2>1, <2>4, ChangeKeeps
<1> QED
  BY <1>2, <1>3

LEMMA DirtySound ==
  ASSUME IInv, NEW s \in Sets, NEW e \in Dirty(s)
  PROVE  Sound(e) /\ CodesOf(e) = CodesOf(esi[s])
<1> DEFINE e0 == esi[s]
<1>1. Sound(e0)
  BY WasType
<1>2. CASE from = s
  BY <1>1, <1>2 DEF Dirty
<1>3. CASE from # s
  <2>1. PICK u \in UpdateControlState(e0, "start") :
          e = IF u.ok THEN MapEvents(u.e) ELSE u.e
    BY <1>3 DEF Dirty
  <2> HIDE DEF e0
  <2>2. Sound(e) /\ CodesOf(e) = CodesOf(e0)
    BY <1>1, <2>1, RestartSound
  <2> QED
    BY <2>2 DEF e0
<1> QED
  BY <1>2, <1>3

LEMMA StartKeeps ==
  ASSUME IInv, NEW s \in Sets, Start(s)
  PROVE  IInv' /\ \A t \in Sets : Implements(t)
<1>1. "start" \in Ops
  BY DEF Ops
<1> DEFINE was == Abstract(esi[s], running = s)
<1>2. /\ was \in AbstractSets /\ was.events = CodesOf(esi[s])
      /\ (was.running <=> running = s) /\ esi[s] \in EventSetRecs
  BY WasType
<1>3. ASSUME NEW error, error # "OK", Refused("start", s, NoNative, error)
      PROVE  IInv' /\ \A t \in Sets : Implements(t)
  <2> HIDE DEF was
  <2>1. Allows("start", was, was, NoNative, error, <<>>)
    BY <1>2, <1>3, StartMayFail
  <2> QED
    BY <1>1, <1>3, <2>1, RefusalKeeps DEF was
<1>4. CASE running # NoSet
  BY <1>3, <1>4 DEF Start
<1>5. CASE running = NoSet /\ esi[s].events = <<>>
  BY <1>3, <1>5 DEF Start
<1>6. CASE running = NoSet /\ esi[s].events # <<>>
  <2>1. PICK e \in Dirty(s), ok \in BOOLEAN :
          /\ ok => Startable(e)
          /\ esi' = [esi EXCEPT ![s] = e]
          /\ from' = s
          /\ running' = IF ok THEN s ELSE NoSet
          /\ reply' = Reply("start", s, NoNative, IF ok THEN "OK" ELSE "ESYS", <<>>)
    BY <1>6 DEF Start
  <2>2. Sound(e) /\ CodesOf(e) = CodesOf(esi[s]) /\ e \in EventSetRecs
    BY DirtySound DEF Sound
  <2> DEFINE ret == IF ok THEN "OK" ELSE "ESYS"
             is  == Abstract(e, running' = s)
  <2>3. s # NoSet /\ running # s
    BY <1>6, SetsAssumption
  <2>4. /\ is \in AbstractSets /\ is.events = CodesOf(esi[s])
        /\ (is.running <=> running' = s)
    <3>1. (running' = s) \in BOOLEAN
      OBVIOUS
    <3>2. /\ Abstract(e, running' = s) \in AbstractSets
          /\ Abstract(e, running' = s).events = CodesOf(e)
          /\ Abstract(e, running' = s).running = (running' = s)
      BY <2>2, <3>1, AbstractType
    <3>3. Abstract(e, running' = s).running <=> running' = s
      BY <3>2, Zenon
    <3> QED
      BY <2>2, <3>2, <3>3
  <2>5. Allows("start", was, is, NoNative, ret, <<>>)
    <3>1. CASE ok
      <4>1. was.events # <<>>
        <5>1. Len(esi[s].events) > 0
          <6> DEFINE x == esi[s].events
          <6>1. x \in Seq(Info) /\ x # <<>>
            BY <1>2, <1>6, ListFacts
          <6> HIDE DEF x
          <6>2. Len(x) > 0
            BY <6>1
          <6> QED
            BY <6>2 DEF x
        <5>2. Len(CodesOf(esi[s])) = Len(esi[s].events)
          BY <1>2, CodesFacts
        <5> DEFINE y == CodesOf(esi[s])
        <5> HIDE DEF y
        <5>3. Len(y) > 0
          BY <5>1, <5>2 DEF y
        <5>4. y # <<>>
          BY <5>3
        <5> HIDE DEF was
        <5> QED
          BY <1>2, <5>4 DEF y
      <4>2. is.running /\ ~was.running /\ is.events = was.events
        BY <1>2, <2>1, <2>3, <2>4, <3>1
      <4> HIDE DEF was, is
      <4> QED
        BY <1>2, <2>4, <3>1, <4>1, <4>2, StartMaySucceed
    <3>2. CASE ~ok
      <4>1. is = was
        <5>1. (running' = s <=> FALSE) /\ (running = s <=> FALSE)
          BY <2>1, <2>3, <3>2
        <5>2. (running' = s) \in BOOLEAN /\ (running = s) \in BOOLEAN
          OBVIOUS
        <5>3. is = Abstract(e, running = s)
          BY <5>1, <5>2, AbstractSame, Zenon
        <5> QED
          BY <2>2, <5>3, SameCodes
      <4>2. ret # "OK"
        BY <3>2
      <4> HIDE DEF was, is, ret
      <4> QED
        BY <1>2, <4>1, <4>2, StartMayFail
    <3> QED
      BY <3>1, <3>2
  <2>6. Called("start", s, NoNative, e, ret, <<>>)
    BY <2>1 DEF Called
  <2>7. running' = s => e.open # <<>>
    BY <2>1, <2>3 DEF Startable
  <2>8. /\ running' \in Sets \cup {NoSet}
        /\ \A t \in Sets : t # s => (running' = t <=> running = t)
    BY <1>6, <2>1, SetsAssumption
  <2> HIDE DEF ret
  <2> QED
    BY <1>1, <2>2, <2>5, <2>6, <2>7, <2>8, CallKeeps
<1> QED
  BY <1>4, <1>5, <1>6

(* The values of a running set. *)
LEMMA RunningValues ==
  ASSUME IInv, NEW s \in Sets, running = s
  PROVE  LET was == Abstract(esi[s], running = s)
         IN /\ was \in AbstractSets /\ was.running
            /\ Values(esi[s]) = [i \in DOMAIN was.events |-> NativesOf(was.events[i])]
<1> DEFINE e   == esi[s]
           was == Abstract(e, running = s)
<1>1. /\ was \in AbstractSets /\ was.running /\ was.events = CodesOf(e)
      /\ e \in EventSetRecs /\ Sound(e) /\ e.open # <<>>
  BY WasType DEF IInv
<1> HIDE DEF was, e
<1>2. Values(e) = [i \in DOMAIN e.events |-> NativesOf(e.events[i].code)]
  BY <1>1, ValuesRight
<1>3. DOMAIN CodesOf(e) = DOMAIN e.events
      /\ \A i \in DOMAIN e.events : CodesOf(e)[i] = e.events[i].code
  BY <1>1, CodesFacts
<1>4. Values(e) = [i \in DOMAIN was.events |-> NativesOf(was.events[i])]
  BY <1>1, <1>2, <1>3
<1> QED
  BY <1>1, <1>4 DEF was, e

LEMMA StopKeeps ==
  ASSUME IInv, NEW s \in Sets, Stop(s)
  PROVE  IInv' /\ \A t \in Sets : Implements(t)
<1>1. "stop" \in Ops
  BY DEF Ops
<1> DEFINE was == Abstract(esi[s], running = s)
<1>2. /\ was \in AbstractSets /\ was.events = CodesOf(esi[s])
      /\ esi[s] \in EventSetRecs /\ Sound(esi[s])
  BY WasType
<1>3. ASSUME NEW error, error # "OK", Refused("stop", s, NoNative, error)
      PROVE  IInv' /\ \A t \in Sets : Implements(t)
  <2> HIDE DEF was
  <2>1. Allows("stop", was, was, NoNative, error, <<>>)
    BY <1>2, <1>3, StopMayFail
  <2> QED
    BY <1>1, <1>3, <2>1, RefusalKeeps DEF was
<1>4. CASE running # s
  BY <1>3, <1>4 DEF Stop
<1>5. CASE running = s
  <2>1. PICK ok \in BOOLEAN :
          /\ from' = s
          /\ running' = IF ok THEN NoSet ELSE s
          /\ reply' = IF ok THEN Reply("stop", s, NoNative, "OK", Values(esi[s]))
                      ELSE Reply("stop", s, NoNative, "ESYS", <<>>)
          /\ esi' = esi
    BY <1>5 DEF Stop
  <2> DEFINE e == esi[s]
             is == Abstract(e, running' = s)
             ret == IF ok THEN "OK" ELSE "ESYS"
             values == IF ok THEN Values(e) ELSE <<>>
  <2>2. s # NoSet
    BY SetsAssumption
  <2>3. /\ is \in AbstractSets /\ is.events = CodesOf(e)
        /\ (is.running <=> running' = s)
    <3>1. (running' = s) \in BOOLEAN
      OBVIOUS
    <3> HIDE DEF e
    <3>2. /\ Abstract(e, running' = s) \in AbstractSets
          /\ Abstract(e, running' = s).events = CodesOf(e)
          /\ Abstract(e, running' = s).running = (running' = s)
      BY <1>2, <3>1, AbstractType DEF e
    <3>3. Abstract(e, running' = s).running <=> running' = s
      BY <3>2, Zenon
    <3> QED
      BY <3>2, <3>3
  <2>4. Allows("stop", was, is, NoNative, ret, values)
    <3>1. CASE ok
      <4>1. /\ was.running
            /\ Values(e) = [i \in DOMAIN was.events |-> NativesOf(was.events[i])]
        BY <1>5, RunningValues
      <4>2. ~is.running /\ is.events = was.events
        BY <1>2, <2>1, <2>2, <2>3, <3>1
      <4> HIDE DEF was, is, e
      <4>3. Allows("stop", was, is, NoNative, "OK", Values(e))
        BY <1>2, <2>3, <4>1, <4>2, ReadsMaySucceed
      <4> QED
        BY <3>1, <4>3
    <3>2. CASE ~ok
      <4>1. is = was
        <5>1. running' = running
          BY <1>5, <2>1, <3>2
        <5> QED
          BY <5>1, Zenon
      <4>2. ret # "OK"
        BY <3>2
      <4> HIDE DEF was, is, ret, values
      <4> QED
        BY <1>2, <4>1, <4>2, StopMayFail
    <3> QED
      BY <3>1, <3>2
  <2>5. Called("stop", s, NoNative, e, ret, values)
    <3>1. esi = [esi EXCEPT ![s] = esi[s]]
      BY DEF IInv
    <3> QED
      BY <2>1, <3>1 DEF Called
  <2>6. Sound(e) /\ e.open # <<>>
    BY <1>2, <1>5 DEF IInv
  <2>7. /\ running' \in Sets \cup {NoSet}
        /\ \A t \in Sets : t # s => (running' = t <=> running = t)
    BY <1>5, <2>1, SetsAssumption
  <2> HIDE DEF ret, values, e
  <2> QED
    BY <1>1, <2>4, <2>5, <2>6, <2>7, CallKeeps DEF e
<1> QED
  BY <1>4, <1>5

LEMMA ReadKeeps ==
  ASSUME IInv, NEW s \in Sets, Read(s)
  PROVE  IInv' /\ \A t \in Sets : Implements(t)
<1>1. "read" \in Ops /\ running = s
  BY DEF Ops, Read
<1> DEFINE e   == esi[s]
           was == Abstract(e, running = s)
<1>2. /\ was \in AbstractSets /\ was.running /\ Sound(e) /\ e.open # <<>>
      /\ Values(e) = [i \in DOMAIN was.events |-> NativesOf(was.events[i])]
  BY <1>1, WasType, RunningValues DEF IInv
<1>3. PICK ret \in {"OK", "ESYS"} :
        /\ reply' = Reply("read", s, NoNative, ret, IF ret = "OK" THEN Values(e) ELSE <<>>)
        /\ from' = s /\ esi' = esi /\ running' = running
  <2>1. CASE reply' = Reply("read", s, NoNative, "OK", Values(e))
    BY <2>1 DEF Read
  <2>2. CASE reply' = Reply("read", s, NoNative, "ESYS", <<>>)
    BY <2>2 DEF Read
  <2> QED
    BY <2>1, <2>2 DEF Read
<1> DEFINE values == IF ret = "OK" THEN Values(e) ELSE <<>>
<1>4. Allows("read", was, was, NoNative, ret, values)
  <2>1. CASE ret = "OK"
    <3>1. values = Values(e)
      BY <2>1
    <3> HIDE DEF was, e, values
    <3>2. Allows("read", was, was, NoNative, "OK", Values(e))
      BY <1>2, ReadsMaySucceed
    <3> QED
      BY <2>1, <3>1, <3>2
  <2>2. CASE ret # "OK"
    <3>1. values = <<>> /\ ret = "ESYS"
      BY <2>2
    <3> HIDE DEF was, e, values
    <3>2. Allows("read", was, was, NoNative, "ESYS", <<>>)
      BY <1>2, ReadMayFail
    <3> QED
      BY <3>1, <3>2
  <2> QED
    BY <2>1, <2>2
<1>5. Allows("read", Abstract(esi[s], running = s), Abstract(e, running' = s),
             NoNative, ret, values)
  BY <1>3, <1>4, Zenon
<1>6. Called("read", s, NoNative, e, ret, values)
  <2>1. esi = [esi EXCEPT ![s] = esi[s]]
    BY DEF IInv
  <2> QED
    BY <1>3, <2>1 DEF Called
<1>7. /\ running' \in Sets \cup {NoSet}
      /\ \A t \in Sets : t # s => (running' = t <=> running = t)
  BY <1>3 DEF IInv
<1> HIDE DEF values, e, was
<1> QED
  BY <1>1, <1>2, <1>5, <1>6, <1>7, CallKeeps

-----------------------------------------------------------------------------
(***************************************************************************)
(* Theorems.                                                               *)
(***************************************************************************)
LEMMA InvInit ==
  ASSUME Init
  PROVE  IInv
<1>1. \A s \in Sets : esi[s] = EmptySet
  BY DEF Init
<1>2. EmptySet \in EventSetRecs /\ Sound(EmptySet)
  BY EmptySound DEF Sound
<1>3. esi \in [Sets -> EventSetRecs]
  BY <1>2 DEF Init
<1>4. \A s \in Sets : running # s
  BY SetsAssumption DEF Init
<1>5. reply.op \in Ops /\ reply.set \in Sets
  <2>1. PICK s \in Sets : reply = Reply("cleanup", s, NoNative, "OK", <<>>)
    BY DEF Init
  <2> QED
    BY <2>1, ReplyFields DEF Ops
<1> QED
  BY <1>1, <1>2, <1>3, <1>4, <1>5 DEF Init, IInv

LEMMA InvStep ==
  ASSUME Orderly, IInv, Next
  PROVE  IInv' /\ \A t \in Sets : Implements(t)
<1>1. PICK s \in Sets :
        \/ \E c \in Offered : AddCall(s, c) \/ RemoveCall(s, c)
        \/ Cleanup(s) \/ Start(s) \/ Stop(s) \/ Read(s)
  BY DEF Next
<1>2. CASE \E c \in Offered : AddCall(s, c) \/ RemoveCall(s, c)
  <2>1. PICK c \in Events : AddCall(s, c) \/ RemoveCall(s, c)
    BY <1>2, OfferedAssumption
  <2> QED
    BY <2>1, AddCallKeeps, RemoveCallKeeps
<1>3. CASE Cleanup(s)
  BY <1>3, CleanupKeeps
<1>4. CASE Start(s)
  BY <1>4, StartKeeps
<1>5. CASE Stop(s)
  BY <1>5, StopKeeps
<1>6. CASE Read(s)
  BY <1>6, ReadKeeps
<1> QED
  BY <1>1, <1>2, <1>3, <1>4, <1>5, <1>6

LEMMA InvStutter ==
  ASSUME IInv, UNCHANGED vars
  PROVE  IInv'
<1>1. esi' = esi /\ running' = running /\ from' = from /\ reply' = reply
  BY DEF vars
<1> QED
  BY <1>1 DEF IInv

(* The inductive invariant.                                                *)
THEOREM EventMapInvariant ==
  ASSUME Orderly
  PROVE  Spec => []IInv
<1>1. Init => IInv
  BY InvInit
<1>2. IInv /\ [Next]_vars => IInv'
  BY InvStep, InvStutter
<1> QED
  BY <1>1, <1>2, PTL DEF Spec

(* The sets keep their types: the number of native events in use never     *)
(* leaves the array and every event has a position for each of its own.    *)
THEOREM EventMapTypeCorrect ==
  ASSUME Orderly
  PROVE  Spec => []TypeOK
<1>1. IInv => TypeOK
  <2> SUFFICES ASSUME IInv PROVE TypeOK
    OBVIOUS
  <2>1. ASSUME NEW s \in Sets, NEW e, e = esi[s]
        PROVE  /\ e.assigned \in BOOLEAN
               /\ e.native \in [Slots -> Slot]
               /\ e.count \in 0 .. MaxNatives
               /\ Len(e.events) <= MaxNatives
               /\ \A i \in DOMAIN e.events :
                    /\ e.events[i].code \in Events
                    /\ Len(e.events[i].pos) = Len(NativesOf(e.events[i].code))
               /\ Range(e.open) \subseteq Natives \cup {NoNative}
    <3>1. Sound(e) /\ e \in EventSetRecs
      BY <2>1 DEF IInv
    <3>2. \A i \in DOMAIN e.events :
            /\ e.events[i].code \in Events
            /\ Len(e.events[i].pos) = Len(NativesOf(e.events[i].code))
      BY <3>1, ListFacts DEF Sound, Listing, Leads
    <3>3. e.open \in Seq(Natives)
      BY <3>1 DEF EventSetRecs
    <3>4. Range(e.open) \subseteq Natives \cup {NoNative}
      BY <3>3 DEF Range
    <3>5. Len(e.events) <= MaxNatives
      BY <3>1 DEF Sound, Listing
    <3> QED
      BY <3>1, <3>2, <3>4, <3>5 DEF EventSetRecs
  <2> QED
    BY <2>1 DEF TypeOK, IInv
<1> QED
  BY <1>1, EventMapInvariant, PTL

(* The owners of every native event are the events of the list that use    *)
(* it, whatever was added, refused half-way and removed before: none is    *)
(* closed under an event that needs it, none is left when its events go.   *)
THEOREM EventMapOwners ==
  ASSUME Orderly
  PROVE  Spec => []OwnersAreUsers
<1>1. IInv => OwnersAreUsers
  <2> SUFFICES ASSUME IInv PROVE OwnersAreUsers
    OBVIOUS
  <2>1. ASSUME NEW s \in Sets, NEW e, e = esi[s]
        PROVE  /\ \A i \in Slots :
                    IF i <= e.count
                      THEN /\ e.native[i].event = e.native[i].code
                           /\ e.native[i].owners =
                                Cardinality(Uses(e, e.native[i].code))
                           /\ e.native[i].owners > 0
                      ELSE e.native[i].owners = 0
               /\ \A i, j \in 1 .. e.count :
                    e.native[i].code = e.native[j].code => i = j
               /\ \A n \in Natives : Uses(e, n) # {} => Holding(e, n) # {}
    <3>1. /\ Sound(e) /\ e \in EventSetRecs /\ Dense(e, UseCount(e))
          /\ e.count \in Nat /\ UseCount(e) \in Counts
      BY <2>1, SoundFacts DEF IInv
    <3>2. \A n \in Natives : UseCount(e)[n] = Cardinality(Uses(e, n))
      BY DEF UseCount
    <3>3. ASSUME NEW i \in Slots
          PROVE  IF i <= e.count
                   THEN /\ e.native[i].event = e.native[i].code
                        /\ e.native[i].owners =
                             Cardinality(Uses(e, e.native[i].code))
                        /\ e.native[i].owners > 0
                   ELSE e.native[i].owners = 0
      <4>1. i \in Nat /\ (i <= e.count => i \in 1 .. e.count)
        BY <3>1, CountBounds DEF Slots
      <4> QED
        BY <3>1, <3>2, <4>1 DEF Dense
    <3>4. ASSUME NEW n \in Natives, Uses(e, n) # {} PROVE Holding(e, n) # {}
      <4>1. UseCount(e)[n] # 0
        BY <3>1, <3>4, ListFacts, UseCountType
      <4> QED
        BY <3>1, <4>1, HoldingDense
    <3> QED
      BY <3>1, <3>3, <3>4 DEF Dense
  <2> QED
    BY <2>1 DEF OwnersAreUsers
<1> QED
  BY <1>1, EventMapInvariant, PTL

(* Whenever the counters of a set are open, and so whenever it runs, the   *)
(* positions of its events lead to their native events, and all that is    *)
(* counted is counted for an event of the list.                            *)
THEOREM EventMapCountersServe ==
  ASSUME Orderly
  PROVE  Spec => []CountersServeEvents
<1>1. IInv => CountersServeEvents
  <2> SUFFICES ASSUME IInv PROVE CountersServeEvents
    OBVIOUS
  <2>1. ASSUME NEW s \in Sets, NEW e, e = esi[s]
        PROVE  /\ running = s => e.open # <<>>
               /\ e.open # <<>> =>
                    \A i \in DOMAIN e.events : \A k \in DOMAIN e.events[i].pos :
                      /\ e.events[i].pos[k] \in DOMAIN e.open
                      /\ e.open[e.events[i].pos[k]] = NativesOf(e.events[i].code)[k]
               /\ \A p \in DOMAIN e.open : Uses(e, e.open[p]) # {}
    <3>1. /\ Sound(e) /\ e \in EventSetRecs /\ Dense(e, UseCount(e))
          /\ e.count \in Nat /\ (e.open = <<>> \/ Opened(e))
      BY <2>1, SoundFacts DEF IInv
    <3>2. running = s => e.open # <<>>
      BY <2>1 DEF IInv
    <3>3. CASE e.open = <<>>
      BY <3>2, <3>3
    <3>4. CASE Opened(e)
      <4>1. DOMAIN e.open = 1 .. e.count
            /\ \A p \in 1 .. e.count : e.open[p] = e.native[p].code
        BY <3>4 DEF Opened
      <4>2. ASSUME NEW i \in DOMAIN e.events, NEW k \in DOMAIN e.events[i].pos
            PROVE  /\ e.events[i].pos[k] \in DOMAIN e.open
                   /\ e.open[e.events[i].pos[k]] = NativesOf(e.events[i].code)[k]
        <5> DEFINE x == e.events[i].pos
                   N == NativesOf(e.events[i].code)
        <5>1. /\ Len(x) = Len(N) /\ x \in Seq(0 .. MaxNatives)
              /\ \A j \in 1 .. Len(N) : x[j] \in 1 .. e.count /\ e.native[x[j]].code = N[j]
          BY <3>1, ListFacts DEF Sound, Listing, Leads
        <5> HIDE DEF x, N
        <5>2. k \in 1 .. Len(N)
          BY <5>1 DEF x
        <5> QED
          BY <4>1, <5>1, <5>2 DEF x, N
      <4>3. ASSUME NEW p \in 1 .. e.count PROVE Uses(e, e.open[p]) # {}
        <5> DEFINE n == e.native[p].code
        <5>1. n \in Natives /\ UseCount(e)[n] > 0
          BY <3>1 DEF Dense
        <5> HIDE DEF n
        <5>2. Uses(e, n) # {}
          BY <3>1, <5>1, ListFacts, UseCountType
        <5> QED
          BY <4>1, <5>2 DEF n
      <4> QED
        BY <3>2, <4>1, <4>2, <4>3
    <3> QED
      BY <3>1, <3>3, <3>4
  <2> QED
    BY <2>1 DEF CountersServeEvents
<1> QED
  BY <1>1, EventMapInvariant, PTL

(* Below an event set there is the sharing of native events, their slots   *)
(* and their positions; above it, nothing of that shows.                   *)
THEOREM EventMapImplements ==
  ASSUME Orderly
  PROVE  Spec => ImplementsEventSet
<1>1. IInv /\ [Next]_vars => [\A s \in Sets : Implements(s)]_vars
  BY InvStep
<1>2. Spec => []IInv
  BY EventMapInvariant
<1> QED
  BY <1>1, <1>2, PTL DEF Spec, ImplementsEventSet

=============================================================================
