------------------------------ MODULE FoldFacts ------------------------------
(***************************************************************************)
(* Facts about natural numbers and about the two recursive forms the       *)
(* community modules fold sequences with, for the proofs about modules     *)
(* that use them, and what packed indices unpack to.  A fold is a function *)
(* chosen by the equation it solves, so that nothing is known of it until  *)
(* a solution is shown to exist: that is an induction on the length.  An   *)
(* induction is done on a least counterexample, which a well-founded order *)
(* has.                                                                    *)
(***************************************************************************)
EXTENDS Integers, SequencesExt, FiniteSetsExt, Sorting, BitPacking, TLAPS,
        WellFoundedInduction, SequenceTheorems, FiniteSetTheorems

Below == {p \in Nat \X Nat : p[1] < p[2]}

LEMMA SmallerIsWellFounded == IsWellFoundedOn(Below, Nat)
  BY NatLessThanWellFounded DEF OpToRel, Below

(* A set of natural numbers that is not empty has a least member. *)
LEMMA LeastMember ==
    ASSUME NEW T \in SUBSET Nat, T # {}
    PROVE  \E n \in T : \A m \in T : n <= m
<1>1. PICK n \in T : \A m \in T : <<m, n>> \notin Below
  BY SmallerIsWellFounded, WFMin
<1>2. \A m \in T : ~(m < n)
  BY <1>1 DEF Below
<1> QED
  BY <1>2

(* The first of the places where a function is least. *)
FirstLeast(G, D) ==
    CHOOSE c \in D : \A e \in D : G[c] < G[e] \/ (G[c] = G[e] /\ c =< e)

LEMMA FirstLeastIs ==
    ASSUME NEW n \in Nat \ {0}, NEW G, \A c \in 1 .. n : G[c] \in Nat
    PROVE  /\ FirstLeast(G, 1 .. n) \in 1 .. n
           /\ \A e \in 1 .. n : G[FirstLeast(G, 1 .. n)] <= G[e]
<1> DEFINE D == 1 .. n
           T == {G[c] : c \in D}
<1>1. PICK v \in T : \A m \in T : v <= m
  <2>1. T \in SUBSET Nat /\ 1 \in D /\ G[1] \in T
    OBVIOUS
  <2> HIDE DEF T
  <2>2. T # {}
    BY <2>1
  <2> QED
    BY <2>1, <2>2, LeastMember
<1> DEFINE L == {d \in D : G[d] = v}
<1>2. PICK c \in L : \A m \in L : c <= m
  <2>1. L # {} /\ L \in SUBSET Nat
    BY <1>1
  <2> HIDE DEF L
  <2> QED
    BY <2>1, LeastMember
<1>3. \A e \in D : G[c] < G[e] \/ (G[c] = G[e] /\ c =< e)
  <2> SUFFICES ASSUME NEW e \in D PROVE G[c] < G[e] \/ (G[c] = G[e] /\ c =< e)
    OBVIOUS
  <2>1. G[c] = v /\ v <= G[e] /\ v \in Nat /\ G[e] \in Nat
    BY <1>1, <1>2
  <2>2. G[e] = v => c <= e
    BY <1>2
  <2> QED
    BY <2>1, <2>2
<1> DEFINE x == FirstLeast(G, D)
<1>4. x \in D /\ \A e \in D : G[x] < G[e] \/ (G[x] = G[e] /\ x =< e)
  <2>1. c \in D
    BY <1>2
  <2> QED
    BY <1>3, <2>1 DEF FirstLeast
<1> HIDE DEF x
<1>5. \A e \in D : G[x] <= G[e]
  BY <1>4
<1> QED
  BY <1>4, <1>5 DEF x

(* Induction for sets: what holds of 0 and passes from n to n + 1. *)
LEMMA NatSetInduction ==
    ASSUME NEW S, 0 \in S, \A n \in Nat : n \in S => n + 1 \in S
    PROVE  \A n \in Nat : n \in S
<1> SUFFICES ASSUME {n \in Nat : n \notin S} # {} PROVE FALSE
  OBVIOUS
<1>1. PICK n \in {m \in Nat : m \notin S} : \A m \in {k \in Nat : k \notin S} : n <= m
  BY LeastMember
<1>2. n # 0 /\ n - 1 \in Nat
  BY <1>1
<1>3. n - 1 \in S
  BY <1>1, <1>2
<1> QED
  BY <1>1, <1>2, <1>3

(* The greatest member of a set of natural numbers with a bound in it.     *)
LEMMA MaxOf ==
    ASSUME NEW S \in SUBSET Nat, NEW n \in S, \A m \in S : m <= n
    PROVE  Max(S) = n
<1>1. \A y \in S : n >= y
  OBVIOUS
<1>2. \A x \in S : (\A y \in S : x >= y) => x = n
  OBVIOUS
<1> QED
  BY <1>1, <1>2 DEF Max

LEMMA MaxOfNonempty ==
    ASSUME NEW n \in Nat, NEW S \in SUBSET (1 .. n), S # {}
    PROVE  Max(S) \in S
<1> DEFINE T == {k \in Nat : \E x \in S : x + k = n}
<1>1. T # {}
  <2>1. PICK x \in S : TRUE
    OBVIOUS
  <2>2. n - x \in T
    BY <2>1
  <2> QED
    BY <2>2
<1>2. PICK k \in T : \A m \in T : k <= m
  BY <1>1, LeastMember
<1>3. PICK x \in S : x + k = n
  BY <1>2
<1>4. \A y \in S : y <= x
  <2> SUFFICES ASSUME NEW y \in S PROVE y <= x
    OBVIOUS
  <2>1. n - y \in T
    OBVIOUS
  <2>2. k <= n - y
    BY <1>2, <2>1
  <2> QED
    BY <1>3, <2>2
<1> HIDE DEF T
<1>5. S \in SUBSET Nat
  OBVIOUS
<1> QED
  BY <1>4, <1>5, MaxOf

(***************************************************************************)
(* FoldLeft: a recursion over the subsets of 1 .. n, the greatest first.   *)
(***************************************************************************)
(* F takes a position and what was made of the positions before it.        *)
FoldsSets(f, n, b, F) ==
    \A s \in SUBSET (1 .. n) :
        f[s] = IF s = {} THEN b ELSE F[<<Max(s), f[s \ {Max(s)}]>>]

HasSetFold(n, A, b, F) == \E f \in [SUBSET (1 .. n) -> A] : FoldsSets(f, n, b, F)

LEMMA SetFoldExists ==
    ASSUME NEW A, NEW b \in A, NEW N \in Nat, NEW F \in [(1 .. N) \X A -> A]
    PROVE  HasSetFold(N, A, b, F)
<1> DEFINE Done == {n \in Nat : n <= N => HasSetFold(n, A, b, F)}
<1>1. 0 \in Done
  <2> DEFINE f == [s \in SUBSET (1 .. 0) |-> b]
  <2>1. f \in [SUBSET (1 .. 0) -> A] /\ FoldsSets(f, 0, b, F)
    BY DEF FoldsSets
  <2> HIDE DEF f
  <2> QED
    BY <2>1 DEF HasSetFold
<1>2. ASSUME NEW n \in Nat, n \in Done PROVE n + 1 \in Done
  <2> SUFFICES ASSUME n + 1 <= N
               PROVE  HasSetFold(n + 1, A, b, F)
    OBVIOUS
  <2>1. PICK g \in [SUBSET (1 .. n) -> A] : FoldsSets(g, n, b, F)
    <3>1. HasSetFold(n, A, b, F)
      BY <1>2
    <3> QED
      BY <3>1 DEF HasSetFold
  <2> DEFINE f == [s \in SUBSET (1 .. n + 1) |->
                     IF n + 1 \in s THEN F[<<n + 1, g[s \ {n + 1}]>>] ELSE g[s]]
  <2>2. \A s \in SUBSET (1 .. n + 1) : s \ {n + 1} \in SUBSET (1 .. n)
    OBVIOUS
  <2>3. f \in [SUBSET (1 .. n + 1) -> A]
    <3> SUFFICES ASSUME NEW s \in SUBSET (1 .. n + 1) PROVE f[s] \in A
      OBVIOUS
    <3>1. CASE n + 1 \in s
      BY <3>1, <2>1, <2>2
    <3>2. CASE n + 1 \notin s
      <4>1. s \in SUBSET (1 .. n)
        BY <3>2, <2>2
      <4> QED
        BY <4>1, <3>2, <2>1
    <3> QED
      BY <3>1, <3>2
  <2>4. FoldsSets(f, n + 1, b, F)
    <3> SUFFICES ASSUME NEW s \in SUBSET (1 .. n + 1)
                 PROVE  f[s] = IF s = {} THEN b ELSE F[<<Max(s), f[s \ {Max(s)}]>>]
      BY DEF FoldsSets
    <3>1. CASE n + 1 \in s
      <4>1. Max(s) = n + 1
        <5>1. s \in SUBSET Nat /\ \A m \in s : m <= n + 1
          OBVIOUS
        <5> QED
          BY <5>1, <3>1, MaxOf
      <4>2. f[s \ {n + 1}] = g[s \ {n + 1}]
        OBVIOUS
      <4> QED
        BY <3>1, <4>1, <4>2
    <3>2. CASE n + 1 \notin s
      <4>1. s \in SUBSET (1 .. n)
        BY <3>2, <2>2
      <4>2. f[s] = g[s] /\ f[s \ {Max(s)}] = g[s \ {Max(s)}]
        BY <3>2
      <4> QED
        BY <4>1, <4>2, <2>1 DEF FoldsSets
    <3> QED
      BY <3>1, <3>2
  <2> HIDE DEF f
  <2> QED
    BY <2>3, <2>4 DEF HasSetFold
<1> HIDE DEF Done
<1>3. N \in Done
  BY <1>1, <1>2, NatSetInduction
<1> QED
  BY <1>3 DEF Done

(* A fold over the first k + 1 positions takes k + 1 last, after the first k. *)
LEMMA LastPosition ==
    ASSUME NEW N \in Nat, NEW k \in Nat, k + 1 <= N
    PROVE  /\ 1 .. k + 1 \in SUBSET (1 .. N) /\ 1 .. k + 1 # {}
           /\ Max(1 .. k + 1) = k + 1
           /\ (1 .. k + 1) \ {Max(1 .. k + 1)} = 1 .. k
<1>1. Max(1 .. k + 1) = k + 1
  <2>1. 1 .. k + 1 \in SUBSET Nat /\ k + 1 \in 1 .. k + 1 /\ \A m \in 1 .. k + 1 : m <= k + 1
    OBVIOUS
  <2> QED
    BY <2>1, MaxOf
<1>2. (1 .. k + 1) \ {k + 1} = 1 .. k /\ k + 1 \in 1 .. k + 1
      /\ 1 .. k + 1 \in SUBSET (1 .. N)
  OBVIOUS
<1> QED
  BY <1>1, <1>2

(***************************************************************************)
(* FlattenSeq: a recursion over the positions 1 .. n.                      *)
(***************************************************************************)
(* b is what the first position gives; F takes a later position and what   *)
(* was made of the positions before it.                                    *)
FoldsPositions(f, n, b, F) ==
    \A i \in 1 .. n : f[i] = IF i = 1 THEN b ELSE F[<<i, f[i - 1]>>]

HasPositionFold(n, A, b, F) == \E f \in [1 .. n -> A] : FoldsPositions(f, n, b, F)

LEMMA PositionFoldExists ==
    ASSUME NEW A, NEW b \in A, NEW N \in Nat, NEW F \in [(1 .. N) \X A -> A]
    PROVE  HasPositionFold(N, A, b, F)
<1> DEFINE Done == {n \in Nat : n <= N => HasPositionFold(n, A, b, F)}
<1>1. 0 \in Done
  <2> DEFINE f == [i \in 1 .. 0 |-> b]
  <2>1. f \in [1 .. 0 -> A] /\ FoldsPositions(f, 0, b, F)
    BY DEF FoldsPositions
  <2> HIDE DEF f
  <2> QED
    BY <2>1 DEF HasPositionFold
<1>2. ASSUME NEW n \in Nat, n \in Done PROVE n + 1 \in Done
  <2> SUFFICES ASSUME n + 1 <= N
               PROVE  HasPositionFold(n + 1, A, b, F)
    OBVIOUS
  <2>1. PICK g \in [1 .. n -> A] : FoldsPositions(g, n, b, F)
    <3>1. HasPositionFold(n, A, b, F)
      BY <1>2
    <3> QED
      BY <3>1 DEF HasPositionFold
  <2> DEFINE f == [i \in 1 .. n + 1 |->
                     IF i <= n THEN g[i] ELSE IF i = 1 THEN b ELSE F[<<i, g[n]>>]]
  <2>2. f \in [1 .. n + 1 -> A]
    <3> SUFFICES ASSUME NEW i \in 1 .. n + 1 PROVE f[i] \in A
      OBVIOUS
    <3>1. i > n /\ i # 1 => n \in 1 .. n /\ i \in 1 .. N
      OBVIOUS
    <3> QED
      BY <3>1
  <2>3. FoldsPositions(f, n + 1, b, F)
    <3> SUFFICES ASSUME NEW i \in 1 .. n + 1
                 PROVE  f[i] = IF i = 1 THEN b ELSE F[<<i, f[i - 1]>>]
      BY DEF FoldsPositions
    <3>1. CASE i <= n
      <4>1. i \in 1 .. n /\ f[i] = g[i] /\ (i # 1 => f[i - 1] = g[i - 1])
        BY <3>1
      <4> QED
        BY <4>1, <2>1 DEF FoldsPositions
    <3>2. CASE i = n + 1
      <4>1. i # 1 => f[i - 1] = g[n]
        BY <3>2
      <4> QED
        BY <3>2, <4>1
    <3> QED
      BY <3>1, <3>2
  <2> HIDE DEF f
  <2> QED
    BY <2>2, <2>3 DEF HasPositionFold
<1> HIDE DEF Done
<1>3. N \in Done
  BY <1>1, <1>2, NatSetInduction
<1> QED
  BY <1>3 DEF Done

Flattens(f, ss) ==
    \A i \in 1 .. Len(ss) : f[i] = IF i = 1 THEN ss[i] ELSE f[i - 1] \o ss[i]

LEMMA FlattenIs ==
    ASSUME NEW S, NEW ss \in Seq(Seq(S)), Len(ss) # 0
    PROVE  \E f \in [1 .. Len(ss) -> Seq(S)] :
               Flattens(f, ss) /\ FlattenSeq(ss) = f[Len(ss)]
<1> DEFINE n == Len(ss)
           A == Seq(S)
           F == [p \in (1 .. n) \X A |-> p[2] \o ss[p[1]]]
           Solves(f) == f = [i \in 1 .. n |-> IF i = 1 THEN ss[i] ELSE f[i - 1] \o ss[i]]
           flatten == CHOOSE f : Solves(f)
<1>1. n \in Nat /\ 1 \in 1 .. n /\ \A i \in 1 .. n : ss[i] \in A
  BY LenProperties, ElementOfSeq
<1>2. \E f : Solves(f)
  <2>1. \A p \in (1 .. n) \X A : p[2] \o ss[p[1]] \in A
    BY <1>1, ConcatProperties
  <2>2. F \in [(1 .. n) \X A -> A]
    BY <2>1
  <2>3. HasPositionFold(n, A, ss[1], F)
    <3> HIDE DEF A, F
    <3> QED
      BY <1>1, <2>2, PositionFoldExists
  <2>4. PICK f \in [1 .. n -> A] : FoldsPositions(f, n, ss[1], F)
    BY <2>3 DEF HasPositionFold
  <2>5. \A i \in 1 .. n : f[i] = IF i = 1 THEN ss[i] ELSE f[i - 1] \o ss[i]
    <3> SUFFICES ASSUME NEW i \in 1 .. n, i # 1
                 PROVE  f[i] = f[i - 1] \o ss[i]
      BY <2>4 DEF FoldsPositions
    <3>1. i - 1 \in 1 .. n
      BY <1>1
    <3>2. f[i - 1] \in A
      BY <2>4, <3>1
    <3>3. f[i] = F[<<i, f[i - 1]>>]
      BY <2>4 DEF FoldsPositions
    <3> QED
      BY <3>2, <3>3
  <2>6. Solves(f)
    BY <2>4, <2>5
  <2> QED
    BY <2>6
<1>3. Solves(flatten)
  BY <1>2
<1>4. FlattenSeq(ss) = flatten[n]
  BY <1>1 DEF FlattenSeq
<1> HIDE DEF flatten
<1>5. Flattens(flatten, ss)
  BY <1>3 DEF Flattens
<1> DEFINE Good == {k \in Nat : k + 1 <= n => flatten[k + 1] \in A}
<1>6. 0 \in Good
  BY <1>1, <1>3
<1>7. ASSUME NEW k \in Nat, k \in Good PROVE k + 1 \in Good
  <2> SUFFICES ASSUME k + 2 <= n PROVE flatten[k + 2] \in A
    OBVIOUS
  <2>1. flatten[k + 1] \in A /\ k + 2 \in 1 .. n /\ k + 2 # 1
    BY <1>1, <1>7
  <2>2. flatten[k + 2] = flatten[k + 1] \o ss[k + 2]
    <3>1. (k + 2) - 1 = k + 1
      OBVIOUS
    <3> QED
      BY <1>3, <2>1, <3>1
  <2> QED
    BY <1>1, <2>1, <2>2, ConcatProperties
<1> HIDE DEF Good
<1>8. \A k \in Nat : k \in Good
  BY <1>6, <1>7, NatSetInduction
<1>9. \A i \in 1 .. n : flatten[i] \in A
  <2> SUFFICES ASSUME NEW i \in 1 .. n PROVE flatten[i] \in A
    OBVIOUS
  <2>1. i - 1 \in Good
    BY <1>8
  <2> QED
    BY <1>1, <2>1 DEF Good
<1>10. flatten \in [1 .. n -> A]
  BY <1>3, <1>9
<1> QED
  BY <1>4, <1>5, <1>10

(* Flattening one sequence more puts it at the end. *)
LEMMA FlattenAppend ==
    ASSUME NEW S, NEW ss \in Seq(Seq(S)), NEW e \in Seq(S)
    PROVE  /\ FlattenSeq(ss) \in Seq(S)
           /\ FlattenSeq(Append(ss, e)) = FlattenSeq(ss) \o e
<1> DEFINE n == Len(ss)
           tt == Append(ss, e)
<1>1. /\ n \in Nat /\ tt \in Seq(Seq(S)) /\ Len(tt) = n + 1 /\ tt[n + 1] = e
      /\ \A i \in 1 .. n : tt[i] = ss[i]
  OBVIOUS
<1>2. /\ n \in Nat /\ 1 \in 1 .. n + 1 /\ n + 1 \in 1 .. n + 1
      /\ \A i \in 1 .. n : i \in 1 .. n + 1
  BY <1>1
<1>3. PICK g \in [1 .. n + 1 -> Seq(S)] : Flattens(g, tt) /\ FlattenSeq(tt) = g[n + 1]
  <2> HIDE DEF tt
  <2>1. Len(tt) # 0
    BY <1>1
  <2> QED
    BY <1>1, <2>1, FlattenIs
<1>4. \A i \in 1 .. n + 1 : g[i] = IF i = 1 THEN tt[i] ELSE g[i - 1] \o tt[i]
  BY <1>1, <1>3 DEF Flattens
<1> HIDE DEF tt
<1>5. CASE n = 0
  <2>1. FlattenSeq(ss) = <<>>
    BY <1>5, EmptySeq DEF FlattenSeq
  <2>2. g[1] = e
    BY <1>1, <1>2, <1>4, <1>5
  <2> QED
    BY <1>3, <1>5, <2>1, <2>2, ConcatEmptySeq, EmptySeq DEF tt
<1>6. CASE n # 0
  <2>1. PICK f \in [1 .. n -> Seq(S)] : Flattens(f, ss) /\ FlattenSeq(ss) = f[n]
    BY <1>6, FlattenIs
  <2>2. \A i \in 1 .. n : f[i] = IF i = 1 THEN ss[i] ELSE f[i - 1] \o ss[i]
    BY <2>1 DEF Flattens
  <2> DEFINE Same == {k \in Nat : k + 1 <= n => f[k + 1] = g[k + 1]}
  <2>3. 0 \in Same
    <3>1. 1 \in 1 .. n /\ 0 + 1 = 1
      BY <1>2, <1>6
    <3>2. f[1] = ss[1] /\ g[1] = tt[1] /\ ss[1] = tt[1]
      BY <1>1, <1>2, <1>4, <2>2, <3>1
    <3> QED
      BY <3>1, <3>2
  <2>4. ASSUME NEW k \in Nat, k \in Same PROVE k + 1 \in Same
    <3> SUFFICES ASSUME k + 2 <= n PROVE f[k + 2] = g[k + 2]
      OBVIOUS
    <3>1. /\ f[k + 1] = g[k + 1] /\ k + 2 \in 1 .. n /\ k + 2 \in 1 .. n + 1
          /\ k + 2 # 1 /\ (k + 2) - 1 = k + 1
      BY <1>2, <2>4
    <3>2. f[k + 2] = f[k + 1] \o ss[k + 2]
      BY <2>2, <3>1
    <3>3. g[k + 2] = g[k + 1] \o tt[k + 2]
      BY <1>4, <3>1
    <3> QED
      BY <1>1, <3>1, <3>2, <3>3
  <2> HIDE DEF Same
  <2>5. n - 1 \in Same
    <3>1. n - 1 \in Nat
      BY <1>2, <1>6
    <3> QED
      BY <2>3, <2>4, <3>1, NatSetInduction
  <2>6. f[n] = g[n]
    BY <1>2, <1>6, <2>5 DEF Same
  <2>7. g[n + 1] = g[n] \o e
    <3>1. n + 1 # 1 /\ (n + 1) - 1 = n
      BY <1>2, <1>6
    <3> QED
      BY <1>1, <1>2, <1>4, <3>1
  <2>8. n \in 1 .. n
    BY <1>2, <1>6
  <2> QED
    BY <1>3, <2>1, <2>6, <2>7, <2>8 DEF tt
<1> QED
  BY <1>2, <1>5, <1>6

(* A concatenation has the members of its parts and no other.              *)
AllFrom(all, ss, m) ==
    \A k \in DOMAIN all : \E i \in 1 .. m : \E j \in DOMAIN ss[i] : all[k] = ss[i][j]

HoldsAll(all, ss, m) ==
    \A i \in 1 .. m : \A j \in DOMAIN ss[i] : \E k \in DOMAIN all : all[k] = ss[i][j]

LEMMA FlattenHolds ==
    ASSUME NEW S, NEW ss \in Seq(Seq(S))
    PROVE  LET all == FlattenSeq(ss) IN
           all \in Seq(S) /\ AllFrom(all, ss, Len(ss)) /\ HoldsAll(all, ss, Len(ss))
<1> DEFINE n == Len(ss)
           all == FlattenSeq(ss)
<1>1. n \in Nat /\ DOMAIN ss = 1 .. n /\ \A i \in 1 .. n : ss[i] \in Seq(S)
  OBVIOUS
<1>2. CASE n = 0
  <2>1. all = ss
    BY <1>2 DEF FlattenSeq
  <2>2. ss = <<>>
    BY <1>2
  <2> QED
    BY <1>2, <2>1, <2>2 DEF AllFrom, HoldsAll
<1>3. CASE n # 0
  <2>1. PICK f \in [1 .. n -> Seq(S)] : Flattens(f, ss) /\ all = f[n]
    BY <1>3, FlattenIs
  <2> HIDE DEF all
  <2> DEFINE Done == {m \in Nat : m \in 1 .. n =>
                            AllFrom(f[m], ss, m) /\ HoldsAll(f[m], ss, m)}
  <2>2. 0 \in Done
    OBVIOUS
  <2>3. ASSUME NEW m \in Nat, m \in Done PROVE m + 1 \in Done
    <3> SUFFICES ASSUME m + 1 \in 1 .. n PROVE AllFrom(f[m + 1], ss, m + 1) /\ HoldsAll(f[m + 1], ss, m + 1)
      OBVIOUS
    <3>1. CASE m = 0
      <4>1. f[1] = ss[1]
        BY <1>1, <1>3, <2>1 DEF Flattens
      <4>2. AllFrom(f[1], ss, 1) /\ HoldsAll(f[1], ss, 1)
        <5>1. \A i \in 1 .. 1 : i = 1
          OBVIOUS
        <5>2. 1 \in 1 .. 1
          OBVIOUS
        <5> QED
          BY <4>1, <5>1, <5>2 DEF AllFrom, HoldsAll
      <4> QED
        BY <3>1, <4>2
    <3>2. CASE m # 0
      <4>1. m \in 1 .. n /\ m + 1 \in 1 .. n /\ m + 1 # 1 /\ (m + 1) - 1 = m
        BY <1>1, <3>2
      <4>2. f[m + 1] = f[m] \o ss[m + 1] /\ f[m] \in Seq(S) /\ ss[m + 1] \in Seq(S)
        <5>1. f[m + 1] = f[(m + 1) - 1] \o ss[m + 1]
          BY <2>1, <4>1 DEF Flattens
        <5> QED
          BY <1>1, <2>1, <4>1, <5>1
      <4>3. AllFrom(f[m], ss, m) /\ HoldsAll(f[m], ss, m)
        BY <2>3, <4>1
      <4> DEFINE a == f[m]  b == ss[m + 1]
      <4>4. /\ Len(a) \in Nat /\ Len(b) \in Nat
            /\ DOMAIN a = 1 .. Len(a) /\ DOMAIN b = 1 .. Len(b)
            /\ DOMAIN (a \o b) = 1 .. Len(a) + Len(b)
            /\ \A k \in 1 .. Len(a) : (a \o b)[k] = a[k]
            /\ \A k \in 1 .. Len(b) : (a \o b)[Len(a) + k] = b[k]
        <5>1. a \in Seq(S) /\ b \in Seq(S)
          BY <4>2
        <5> HIDE DEF a, b
        <5> QED
          BY <5>1
      <4>7. f[m + 1] = a \o b
        BY <4>2
      <4>8. /\ \A k \in DOMAIN a : \E i \in 1 .. m : \E j \in DOMAIN ss[i] : a[k] = ss[i][j]
            /\ \A i \in 1 .. m : \A j \in DOMAIN ss[i] : \E k \in DOMAIN a : a[k] = ss[i][j]
        BY <4>3 DEF AllFrom, HoldsAll
      <4>9. b = ss[m + 1]
        OBVIOUS
      <4> HIDE DEF a, b
      <4>5. AllFrom(f[m + 1], ss, m + 1)
        <5> SUFFICES AllFrom(a \o b, ss, m + 1)
          BY <4>7
        <5> SUFFICES ASSUME NEW k \in DOMAIN (a \o b)
                     PROVE  \E i \in 1 .. m + 1 : \E j \in DOMAIN ss[i] : (a \o b)[k] = ss[i][j]
          BY DEF AllFrom
        <5>1. CASE k \in 1 .. Len(a)
          <6>1. PICK i \in 1 .. m : \E j \in DOMAIN ss[i] : a[k] = ss[i][j]
            BY <4>4, <4>8, <5>1
          <6>2. i \in 1 .. m + 1
            OBVIOUS
          <6> QED
            BY <4>4, <5>1, <6>1, <6>2
        <5>2. CASE k \notin 1 .. Len(a)
          <6> DEFINE j == k - Len(a)
          <6>1. j \in 1 .. Len(b) /\ k = Len(a) + j
            BY <4>4, <5>2
          <6>2. (a \o b)[k] = b[j] /\ j \in DOMAIN b
            <7> HIDE DEF j
            <7> QED
              BY <4>4, <6>1
          <6>3. m + 1 \in 1 .. m + 1
            OBVIOUS
          <6> HIDE DEF j
          <6> QED
            BY <4>9, <6>2, <6>3
        <5> QED
          BY <5>1, <5>2
      <4>6. HoldsAll(f[m + 1], ss, m + 1)
        <5> SUFFICES ASSUME NEW i \in 1 .. m + 1, NEW j \in DOMAIN ss[i]
                     PROVE  \E k \in DOMAIN (a \o b) : (a \o b)[k] = ss[i][j]
          BY <4>7 DEF HoldsAll
        <5>1. CASE i \in 1 .. m
          <6>1. PICK k \in DOMAIN a : a[k] = ss[i][j]
            BY <4>8, <5>1
          <6>2. k \in DOMAIN (a \o b) /\ (a \o b)[k] = a[k]
            BY <4>4
          <6> QED
            BY <6>1, <6>2
        <5>2. CASE i \notin 1 .. m
          <6>1. i = m + 1 /\ j \in DOMAIN b /\ ss[i][j] = b[j]
            BY <4>9, <5>2
          <6> DEFINE k == Len(a) + j
          <6>2. k \in DOMAIN (a \o b) /\ (a \o b)[k] = b[j]
            BY <4>4, <6>1
          <6> HIDE DEF k
          <6> QED
            BY <6>1, <6>2
        <5> QED
          BY <5>1, <5>2
      <4> QED
        BY <4>5, <4>6
    <3> QED
      BY <3>1, <3>2
  <2> HIDE DEF Done
  <2>4. n \in Done
    BY <1>1, <2>2, <2>3, NatSetInduction
  <2>5. AllFrom(f[n], ss, n) /\ HoldsAll(f[n], ss, n)
    <3>1. n \in 1 .. n
      BY <1>1, <1>3
    <3> QED
      BY <2>4, <3>1 DEF Done
  <2>6. all \in Seq(S)
    <3>1. n \in 1 .. n
      BY <1>1, <1>3
    <3>2. f[n] \in Seq(S)
      BY <3>1
    <3> QED
      BY <2>1, <3>2
  <2> QED
    BY <2>1, <2>5, <2>6 DEF all
<1> QED
  BY <1>2, <1>3

(* A function on the positions up to n is a sequence. *)
LEMMA FunctionIsSeq ==
    ASSUME NEW S, NEW n \in Nat, NEW f \in [1 .. n -> S]
    PROVE  f \in Seq(S) /\ Len(f) = n
  OBVIOUS

(***************************************************************************)
(* Division.                                                               *)
(***************************************************************************)
(* The quotient and the remainder. *)
LEMMA DivMod ==
    ASSUME NEW a \in Nat, NEW b \in Nat \ {0}
    PROVE  /\ a \div b \in Nat /\ a % b \in 0 .. b - 1
           /\ a = (a \div b) * b + (a % b)
  OBVIOUS

(* No other quotient and remainder give the number. *)
LEMMA DivModUnique ==
    ASSUME NEW q \in Nat, NEW b \in Nat \ {0}, NEW r \in 0 .. b - 1
    PROVE  (q * b + r) \div b = q /\ (q * b + r) % b = r
  OBVIOUS

(* A division without remainder. *)
LEMMA DivExact ==
    ASSUME NEW a \in Int, NEW n \in Nat \ {0}, a % n = 0
    PROVE  a \div n \in Int /\ a = n * (a \div n)
  BY SMT

(* A block of b numbers ends before the next begins. *)
LEMMA MulLess ==
    ASSUME NEW q \in Nat, NEW p \in Nat, NEW b \in Nat, q < p
    PROVE  q * b + b <= p * b
  OBVIOUS

(* A number below n blocks lies in one of them. *)
LEMMA DivLess ==
    ASSUME NEW a \in Nat, NEW b \in Nat \ {0}, NEW n \in Nat, a < n * b
    PROVE  a \div b < n
<1>1. a = (a \div b) * b + (a % b) /\ a \div b \in Nat /\ a % b \in 0 .. b - 1
  BY DivMod
<1> QED
  BY <1>1, MulLess

LEMMA MulMonotone ==
    ASSUME NEW p \in Nat, NEW q \in Nat, NEW b \in Nat, p <= q
    PROVE  b * p <= b * q
  OBVIOUS

LEMMA DivMonotone ==
    ASSUME NEW a \in Nat, NEW c \in Nat, NEW b \in Nat \ {0}, a <= c
    PROVE  a \div b <= c \div b
<1> DEFINE p == a \div b
           q == c \div b
<1>1. p \in Nat /\ q \in Nat /\ a % b \in 0 .. b - 1 /\ c % b \in 0 .. b - 1
      /\ a = p * b + (a % b) /\ c = q * b + (c % b)
  BY DivMod
<1> HIDE DEF p, q
<1> SUFFICES ASSUME q < p PROVE FALSE
  BY <1>1 DEF p, q
<1>2. q * b + b <= p * b /\ p * b \in Nat /\ q * b \in Nat
  BY <1>1, MulLess
<1> QED
  BY <1>1, <1>2

(***************************************************************************)
(* The extremes of a sequence of numbers.                                  *)
(***************************************************************************)
LEMMA RangeHasExtremes ==
    ASSUME NEW s \in Seq(Int), s # <<>>
    PROVE  /\ \E x \in Range(s) : \A y \in Range(s) : x >= y
           /\ \E x \in Range(s) : \A y \in Range(s) : x <= y
<1> DEFINE n == Len(s)
           Good == {k \in Nat : 1 <= k /\ k <= n =>
                       /\ \E i \in 1 .. k : \A j \in 1 .. k : s[i] >= s[j]
                       /\ \E i \in 1 .. k : \A j \in 1 .. k : s[i] <= s[j]}
<1>1. n \in Nat /\ n >= 1 /\ DOMAIN s = 1 .. n /\ \A i \in 1 .. n : s[i] \in Int
  OBVIOUS
<1> HIDE DEF n
<1>2. 0 \in Good
  OBVIOUS
<1>3. ASSUME NEW k \in Nat, k \in Good PROVE k + 1 \in Good
  <2> SUFFICES ASSUME k + 1 <= n
               PROVE  /\ \E i \in 1 .. k + 1 : \A j \in 1 .. k + 1 : s[i] >= s[j]
                      /\ \E i \in 1 .. k + 1 : \A j \in 1 .. k + 1 : s[i] <= s[j]
    OBVIOUS
  <2>1. CASE k = 0
    <3>1. 1 \in 1 .. k + 1 /\ s[1] \in Int
      BY <1>1, <2>1
    <3>2. \A j \in 1 .. k + 1 : j = 1
      BY <2>1
    <3>3. \A j \in 1 .. k + 1 : s[1] >= s[j] /\ s[1] <= s[j]
      BY <3>1, <3>2
    <3> QED
      BY <3>1, <3>3
  <2>2. CASE k # 0
    <3>1. /\ \E i \in 1 .. k : \A j \in 1 .. k : s[i] >= s[j]
          /\ \E i \in 1 .. k : \A j \in 1 .. k : s[i] <= s[j]
      BY <1>1, <1>3, <2>2
    <3>2. PICK a \in 1 .. k : \A j \in 1 .. k : s[a] >= s[j]
      BY <3>1
    <3>3. PICK b \in 1 .. k : \A j \in 1 .. k : s[b] <= s[j]
      BY <3>1
    <3>4. \A j \in 1 .. k + 1 : s[j] \in Int /\ (j \in 1 .. k \/ j = k + 1)
      BY <1>1
    <3> DEFINE x == IF s[a] >= s[k + 1] THEN a ELSE k + 1
               y == IF s[b] <= s[k + 1] THEN b ELSE k + 1
    <3>5. x \in 1 .. k + 1 /\ \A j \in 1 .. k + 1 : s[x] >= s[j]
      <4>1. a \in 1 .. k + 1 /\ s[a] \in Int /\ s[k + 1] \in Int /\ k + 1 \in 1 .. k + 1
        BY <3>4
      <4>2. \A j \in 1 .. k : s[x] >= s[j]
        BY <3>2, <3>4, <4>1
      <4>3. s[x] >= s[k + 1] /\ x \in 1 .. k + 1
        BY <4>1
      <4> QED
        BY <3>4, <4>2, <4>3
    <3>6. y \in 1 .. k + 1 /\ \A j \in 1 .. k + 1 : s[y] <= s[j]
      <4>1. b \in 1 .. k + 1 /\ s[b] \in Int /\ s[k + 1] \in Int /\ k + 1 \in 1 .. k + 1
        BY <3>4
      <4>2. \A j \in 1 .. k : s[y] <= s[j]
        BY <3>3, <3>4, <4>1
      <4>3. s[y] <= s[k + 1] /\ y \in 1 .. k + 1
        BY <4>1
      <4> QED
        BY <3>4, <4>2, <4>3
    <3> HIDE DEF x, y
    <3> QED
      BY <3>5, <3>6
  <2> QED
    BY <2>1, <2>2
<1>4. n \in Good
  <2> HIDE DEF Good
  <2> QED
    BY <1>1, <1>2, <1>3, NatSetInduction
<1>5. /\ \E i \in 1 .. n : \A j \in 1 .. n : s[i] >= s[j]
      /\ \E i \in 1 .. n : \A j \in 1 .. n : s[i] <= s[j]
  BY <1>1, <1>4
<1>6. Range(s) = {s[j] : j \in 1 .. n}
  BY <1>1 DEF Range
<1> QED
  BY <1>5, <1>6

(* Max and Min choose them. *)
LEMMA RangeMaxMin ==
    ASSUME NEW s \in Seq(Int), s # <<>>
    PROVE  /\ Max(Range(s)) \in Range(s) /\ Min(Range(s)) \in Range(s)
           /\ \A y \in Range(s) : Min(Range(s)) <= y /\ y <= Max(Range(s))
           /\ Range(s) \subseteq Int
<1>1. Range(s) \subseteq Int
  BY DEF Range
<1>2. /\ \E x \in Range(s) : \A y \in Range(s) : x >= y
      /\ \E x \in Range(s) : \A y \in Range(s) : x <= y
  BY RangeHasExtremes
<1> DEFINE R == Range(s)
<1>3. Max(R) \in R /\ \A y \in R : Max(R) >= y
  <2> HIDE DEF R
  <2> QED
    BY <1>2 DEF Max, R
<1>4. Min(R) \in R /\ \A y \in R : Min(R) <= y
  <2> HIDE DEF R
  <2> QED
    BY <1>2 DEF Min, R
<1> QED
  BY <1>1, <1>3, <1>4

(***************************************************************************)
(* Ordered: the place of a member is the number of those before it.        *)
(***************************************************************************)
LEMMA FromZero ==
    ASSUME NEW n \in Nat
    PROVE  IsFiniteSet(0 .. n - 1) /\ Cardinality(0 .. n - 1) = n
<1> DEFINE m == n - 1
<1>1. 0 \in Int /\ m \in Int /\ n = IF 0 > m THEN 0 ELSE m - 0 + 1
  OBVIOUS
<1>2. IsFiniteSet(0 .. m) /\ Cardinality(0 .. m) = IF 0 > m THEN 0 ELSE m - 0 + 1
  <2> HIDE DEF m
  <2> QED
    BY <1>1, FS_Interval
<1> QED
  BY <1>1, <1>2

IsOrder(S, before) ==
    /\ \A x, y \in S : <<x, y>> \in before => <<y, x>> \notin before
    /\ \A x, y \in S : x = y \/ <<x, y>> \in before \/ <<y, x>> \in before
    /\ \A x, y, z \in S : <<x, y>> \in before /\ <<y, z>> \in before => <<x, z>> \in before

LEMMA OrderedIs ==
    ASSUME NEW S, IsFiniteSet(S), NEW before, IsOrder(S, before)
    PROVE  LET n == Cardinality(S)  f == Ordered(S, before) IN
           /\ n \in Nat /\ f \in [1 .. n -> S]
           /\ \A x \in S : \E i \in 1 .. n : f[i] = x
           /\ \A i, j \in 1 .. n : i < j <=> <<f[i], f[j]>> \in before
<1> DEFINE n == Cardinality(S)
           f == Ordered(S, before)
           rank(x) == Cardinality(Earlier(S, before, x))
           g == [x \in S |-> rank(x)]
           R == {rank(x) : x \in S}
<1>1. n \in Nat
  BY FS_CardinalityType
<1>2. ASSUME NEW x \in S PROVE rank(x) \in 0 .. n - 1
  <2>1. Earlier(S, before, x) \subseteq S \ {x}
    BY DEF Earlier, IsOrder
  <2>2. IsFiniteSet(S \ {x}) /\ Cardinality(S \ {x}) = n - 1
    BY FS_RemoveElement
  <2> QED
    BY <1>1, <2>1, <2>2, FS_Subset, FS_CardinalityType
<1>3. ASSUME NEW x \in S, NEW y \in S, <<y, x>> \in before PROVE rank(y) < rank(x)
  <2>1. /\ Earlier(S, before, y) \subseteq Earlier(S, before, x)
        /\ y \in Earlier(S, before, x) /\ y \notin Earlier(S, before, y)
        /\ Earlier(S, before, x) \subseteq S
    BY <1>3 DEF Earlier, IsOrder
  <2>2. IsFiniteSet(Earlier(S, before, x)) /\ IsFiniteSet(Earlier(S, before, y))
    BY <2>1, FS_Subset
  <2>3. rank(y) <= rank(x) /\ rank(y) # rank(x)
    BY <2>1, <2>2, FS_Subset
  <2> QED
    BY <1>2, <1>1, <2>3
<1>4. ASSUME NEW x \in S, NEW y \in S PROVE rank(y) < rank(x) <=> <<y, x>> \in before
  <2>1. x = y \/ <<x, y>> \in before \/ <<y, x>> \in before
    BY DEF IsOrder
  <2>2. rank(x) \in Nat /\ rank(y) \in Nat
    BY <1>2
  <2>3. <<x, y>> \in before => rank(x) < rank(y)
    BY <1>3
  <2>4. <<y, x>> \in before => rank(y) < rank(x)
    BY <1>3
  <2> HIDE DEF rank
  <2> QED
    BY <2>1, <2>2, <2>3, <2>4
<1>5. ASSUME NEW x \in S, NEW y \in S, rank(x) = rank(y) PROVE x = y
  <2>1. ~(rank(x) < rank(y)) /\ ~(rank(y) < rank(x))
    BY <1>2, <1>5
  <2>2. <<x, y>> \notin before /\ <<y, x>> \notin before
    BY <1>4, <2>1
  <2> QED
    BY <2>2 DEF IsOrder
<1> HIDE DEF rank
<1>6. R = 0 .. n - 1
  <2>1. g \in Injection(S, R) /\ g \in Surjection(S, R)
    BY <1>5 DEF Injection, IsInjective, Surjection
  <2>2. IsFiniteSet(R) /\ Cardinality(R) = n
    <3> HIDE DEF g, R
    <3> QED
      BY <2>1, FS_Surjection
  <2>3. R \subseteq 0 .. n - 1
    BY <1>2
  <2>4. IsFiniteSet(0 .. n - 1) /\ Cardinality(0 .. n - 1) = n
    BY <1>1, FromZero
  <2> HIDE DEF R
  <2> QED
    BY <2>2, <2>3, <2>4, FS_Subset
<1>7. f = [k \in 1 .. n |-> CHOOSE x \in S : rank(x) = k - 1]
  BY DEF Ordered, rank
<1>8. ASSUME NEW k \in 1 .. n PROVE f[k] \in S /\ rank(f[k]) = k - 1
  <2>1. k - 1 \in R
    <3> HIDE DEF R, n
    <3> QED
      BY <1>1, <1>6
  <2>2. PICK x \in S : rank(x) = k - 1
    BY <2>1
  <2>3. f[k] = CHOOSE y \in S : rank(y) = k - 1
    BY <1>7
  <2> HIDE DEF f
  <2> QED
    BY <2>2, <2>3
<1>9. f \in [1 .. n -> S]
  BY <1>7, <1>8
<1>10. ASSUME NEW x \in S PROVE \E i \in 1 .. n : f[i] = x
  <2>1. rank(x) \in 0 .. n - 1
    BY <1>2
  <2>2. rank(x) + 1 \in 1 .. n /\ (rank(x) + 1) - 1 = rank(x)
    BY <1>1, <2>1
  <2> HIDE DEF f
  <2>3. f[rank(x) + 1] \in S /\ rank(f[rank(x) + 1]) = rank(x)
    BY <1>8, <2>2
  <2> QED
    BY <1>5, <2>2, <2>3
<1>11. ASSUME NEW i \in 1 .. n, NEW j \in 1 .. n PROVE i < j <=> <<f[i], f[j]>> \in before
  <2> HIDE DEF f
  <2>1. rank(f[i]) = i - 1 /\ rank(f[j]) = j - 1 /\ f[i] \in S /\ f[j] \in S
    BY <1>8
  <2>2. i < j <=> rank(f[i]) < rank(f[j])
    BY <1>1, <2>1
  <2> QED
    BY <1>4, <2>1, <2>2
<1> HIDE DEF f
<1> QED
  BY <1>1, <1>9, <1>10, <1>11 DEF f

(***************************************************************************)
(* Sums over a finite set, taken in an order that is not known.            *)
(***************************************************************************)
Picked(s) == CHOOSE x \in s : TRUE

(* f is what summing G over the subsets in D comes to.                     *)
Sums(f, D, G) ==
    \A s \in D : f[s] = IF s = {} THEN 0 ELSE G[Picked(s)] + f[s \ {Picked(s)}]

(* The same of all subsets of S. *)
SumsAll(f, S, G) == Sums(f, SUBSET S, G)

UpTo(S, n) == {s \in SUBSET S : Cardinality(s) <= n}

HasSums(S, n, G) == \E f \in [UpTo(S, n) -> Int] : Sums(f, UpTo(S, n), G)

LEMMA LessOne ==
    ASSUME NEW S, IsFiniteSet(S), NEW s \in SUBSET S, NEW x \in s
    PROVE  /\ IsFiniteSet(s) /\ IsFiniteSet(s \ {x})
           /\ Cardinality(s) \in Nat /\ Cardinality(s \ {x}) \in Nat
           /\ Cardinality(s \ {x}) = Cardinality(s) - 1
<1>1. IsFiniteSet(s)
  BY FS_Subset
<1> QED
  BY <1>1, FS_CardinalityType, FS_RemoveElement

LEMMA SumsExist ==
    ASSUME NEW S, IsFiniteSet(S), NEW G \in [S -> Int]
    PROVE  \E f \in [SUBSET S -> Int] : SumsAll(f, S, G)
<1> DEFINE Done == {n \in Nat : HasSums(S, n, G)}
<1>1. \A s \in SUBSET S : IsFiniteSet(s) /\ Cardinality(s) \in Nat
                            /\ (Cardinality(s) = 0 <=> s = {})
  BY FS_Subset, FS_CardinalityType, FS_EmptySet
<1>2. \A s \in SUBSET S : s # {} => Picked(s) \in s /\ s \ {Picked(s)} \in SUBSET S
                                    /\ G[Picked(s)] \in Int
  BY DEF Picked
<1>3. 0 \in Done
  <2> DEFINE f == [s \in UpTo(S, 0) |-> 0]
  <2>1. \A s \in UpTo(S, 0) : s = {}
    BY <1>1 DEF UpTo
  <2>2. f \in [UpTo(S, 0) -> Int] /\ Sums(f, UpTo(S, 0), G)
    BY <2>1 DEF Sums, SumsAll
  <2> HIDE DEF f
  <2> QED
    BY <2>2 DEF HasSums
<1>4. ASSUME NEW n \in Nat, n \in Done PROVE n + 1 \in Done
  <2>1. PICK g \in [UpTo(S, n) -> Int] : Sums(g, UpTo(S, n), G)
    BY <1>4 DEF HasSums
  <2> DEFINE f == [s \in UpTo(S, n + 1) |->
                     IF s \in UpTo(S, n) THEN g[s]
                     ELSE G[Picked(s)] + g[s \ {Picked(s)}]]
  <2>2. ASSUME NEW s \in UpTo(S, n + 1), s # {}
        PROVE  s \ {Picked(s)} \in UpTo(S, n) /\ s \ {Picked(s)} \in UpTo(S, n + 1)
    <3>1. s \in SUBSET S /\ Cardinality(s) <= n + 1
      BY DEF UpTo
    <3>2. Picked(s) \in s /\ s \ {Picked(s)} \in SUBSET S
      BY <1>2, <2>2, <3>1
    <3>3. Cardinality(s \ {Picked(s)}) = Cardinality(s) - 1 /\ Cardinality(s) \in Nat
      BY <3>1, <3>2, LessOne
    <3> QED
      BY <3>1, <3>2, <3>3 DEF UpTo
  <2>3. ASSUME NEW s \in UpTo(S, n + 1) PROVE f[s] \in Int
    <3>1. CASE s \in UpTo(S, n)
      BY <2>1, <3>1
    <3>2. CASE s \notin UpTo(S, n)
      <4>1. s # {} /\ s \in SUBSET S
        BY <1>1, <3>2 DEF UpTo
      <4> QED
        BY <1>2, <2>1, <2>2, <3>2, <4>1
    <3> QED
      BY <3>1, <3>2
  <2>4. ASSUME NEW s \in UpTo(S, n + 1)
        PROVE  f[s] = IF s = {} THEN 0 ELSE G[Picked(s)] + f[s \ {Picked(s)}]
    <3>1. CASE s = {}
      <4>1. s \in UpTo(S, n)
        BY <1>1, <3>1 DEF UpTo
      <4> QED
        BY <2>1, <3>1, <4>1 DEF Sums, SumsAll
    <3>2. CASE s # {}
      <4>1. f[s \ {Picked(s)}] = g[s \ {Picked(s)}]
        BY <2>2, <3>2
      <4>2. s \in UpTo(S, n) => g[s] = G[Picked(s)] + g[s \ {Picked(s)}]
        BY <2>1, <3>2 DEF Sums, SumsAll
      <4> QED
        BY <3>2, <4>1, <4>2
    <3> QED
      BY <3>1, <3>2
  <2>5. f \in [UpTo(S, n + 1) -> Int]
    BY <2>3
  <2>6. Sums(f, UpTo(S, n + 1), G)
    <3> HIDE DEF f
    <3> QED
      BY <2>4 DEF Sums, SumsAll
  <2> HIDE DEF f
  <2> QED
    BY <2>5, <2>6 DEF HasSums
<1> HIDE DEF Done
<1>5. Cardinality(S) \in Nat
  BY FS_CardinalityType
<1>6. Cardinality(S) \in Done
  BY <1>3, <1>4, <1>5, NatSetInduction
<1>7. UpTo(S, Cardinality(S)) = SUBSET S
  BY FS_Subset DEF UpTo
<1> QED
  BY <1>6, <1>7 DEF Done, HasSums, SumsAll

(* A sum is an integer, and any member may be taken out of it.             *)
LEMMA SumTakesOut ==
    ASSUME NEW S, IsFiniteSet(S), NEW G \in [S -> Int], NEW f, SumsAll(f, S, G)
    PROVE  \A s \in SUBSET S :
               /\ f[s] \in Int /\ (s = {} => f[s] = 0)
               /\ \A x \in s : f[s] = G[x] + f[s \ {x}]
<1> DEFINE Right(s) == f[s] \in Int /\ \A x \in s : f[s] = G[x] + f[s \ {x}]
           Done == {n \in Nat : \A s \in UpTo(S, n) : Right(s)}
<1>1. \A s \in SUBSET S : Cardinality(s) \in Nat /\ (Cardinality(s) = 0 <=> s = {})
  BY FS_Subset, FS_CardinalityType, FS_EmptySet
<1>2. 0 \in Done
  BY <1>1 DEF UpTo, Sums, SumsAll
<1>3. ASSUME NEW n \in Nat, n \in Done PROVE n + 1 \in Done
  <2> SUFFICES ASSUME NEW s \in UpTo(S, n + 1) PROVE Right(s)
    OBVIOUS
  <2>0. s \in SUBSET S /\ Cardinality(s) <= n + 1
    BY DEF UpTo
  <2>1. CASE s = {}
    BY <2>1 DEF Sums, SumsAll
  <2>2. CASE s # {}
    <3> DEFINE p == Picked(s)
    <3>1. p \in s /\ f[s] = G[p] + f[s \ {p}]
      BY <2>0, <2>2 DEF Sums, SumsAll, Picked
    <3>2. ASSUME NEW x \in s PROVE s \ {x} \in UpTo(S, n) /\ G[x] \in Int
      <4>1. Cardinality(s \ {x}) = Cardinality(s) - 1 /\ Cardinality(s) \in Nat
        BY <2>0, LessOne
      <4>2. Cardinality(s \ {x}) <= n
        BY <2>0, <4>1
      <4> QED
        BY <2>0, <4>2 DEF UpTo
    <3>3. \A x \in s : Right(s \ {x})
      BY <1>3, <3>2
    <3> HIDE DEF p
    <3>4. f[s] \in Int
      <4>1. f[s \ {p}] \in Int /\ G[p] \in Int
        BY <3>1, <3>2, <3>3
      <4> QED
        BY <3>1, <4>1
    <3>5. ASSUME NEW x \in s PROVE f[s] = G[x] + f[s \ {x}]
      <4>1. CASE x = p
        BY <3>1, <4>1
      <4>2. CASE x # p
        <5>1. x \in s \ {p} /\ p \in s \ {x} /\ (s \ {p}) \ {x} = (s \ {x}) \ {p}
          BY <3>1, <4>2
        <5>2. f[s \ {p}] = G[x] + f[(s \ {p}) \ {x}]
          BY <3>1, <3>3, <5>1
        <5>3. f[s \ {x}] = G[p] + f[(s \ {x}) \ {p}]
          BY <3>3, <5>1
        <5>4. f[s \ {p}] \in Int /\ f[s \ {x}] \in Int /\ G[x] \in Int /\ G[p] \in Int
          BY <3>1, <3>2, <3>3
        <5>5. (s \ {p}) \ {x} \in SUBSET S /\ (s \ {p}) \ {x} \in UpTo(S, n)
          <6>1. s \ {p} \in SUBSET S /\ s \ {p} \in UpTo(S, n)
            BY <2>0, <3>1, <3>2
          <6>2. Cardinality((s \ {p}) \ {x}) = Cardinality(s \ {p}) - 1
                /\ Cardinality(s \ {p}) \in Nat
            BY <5>1, <6>1, LessOne
          <6> QED
            BY <6>1, <6>2 DEF UpTo
        <5>6. f[(s \ {p}) \ {x}] \in Int
          BY <1>3, <5>5
        <5>7. f[s \ {x}] = G[p] + f[(s \ {p}) \ {x}]
          BY <5>1, <5>3
        <5> DEFINE a == f[s \ {p}]  b == f[s \ {x}]  c == f[(s \ {p}) \ {x}]
                   d == G[x]  e == G[p]
        <5>8. a = d + c /\ b = e + c /\ a \in Int /\ b \in Int /\ c \in Int
              /\ d \in Int /\ e \in Int
          BY <5>2, <5>4, <5>6, <5>7
        <5>9. e + a = d + b
          <6> HIDE DEF a, b, c, d, e
          <6> QED
            BY <5>8
        <5> QED
          BY <3>1, <5>9
      <4> QED
        BY <4>1, <4>2
    <3> QED
      BY <3>4, <3>5
  <2> QED
    BY <2>1, <2>2
<1> HIDE DEF Done
<1>4. \A n \in Nat : n \in Done
  BY <1>2, <1>3, NatSetInduction
<1>5. ASSUME NEW s \in SUBSET S PROVE Right(s)
  <2>1. Cardinality(s) \in Nat /\ s \in UpTo(S, Cardinality(s))
    BY <1>1 DEF UpTo
  <2> QED
    BY <1>4, <2>1 DEF Done
<1>6. \A s \in SUBSET S : s = {} => f[s] = 0
  BY DEF Sums, SumsAll
<1> QED
  BY <1>5, <1>6

(* SumFunctionOnSet is such a sum. *)
LEMMA SumFunctionSums ==
    ASSUME NEW S, IsFiniteSet(S), NEW G \in [S -> Int]
    PROVE  \E f : SumsAll(f, S, G) /\ SumFunctionOnSet(G, S) = f[S]
<1> DEFINE Solves(f) == f = [s \in SUBSET S |->
                              IF s = {} THEN 0
                              ELSE G[CHOOSE x \in s : TRUE] + f[s \ {CHOOSE x \in s : TRUE}]]
           iter == CHOOSE f : Solves(f)
<1>1. \E f : Solves(f)
  <2>1. PICK f \in [SUBSET S -> Int] : SumsAll(f, S, G)
    BY SumsExist
  <2> QED
    BY <2>1 DEF Sums, SumsAll, Picked
<1>2. Solves(iter)
  BY <1>1
<1>3. SumFunctionOnSet(G, S) = iter[S]
  BY DEF SumFunctionOnSet, FoldFunctionOnSet, MapThenFoldSet
<1> HIDE DEF iter
<1>4. SumsAll(iter, S, G)
  BY <1>2 DEF Sums, SumsAll, Picked
<1> QED
  BY <1>3, <1>4

LEMMA SumType ==
    ASSUME NEW n \in Nat, NEW G \in [1 .. n -> Int]
    PROVE  SumFunction(G) \in Int
<1>1. IsFiniteSet(1 .. n) /\ DOMAIN G = 1 .. n
  BY FS_Interval
<1>2. PICK f : SumsAll(f, 1 .. n, G) /\ SumFunctionOnSet(G, 1 .. n) = f[1 .. n]
  BY <1>1, SumFunctionSums
<1>3. f[1 .. n] \in Int
  BY <1>1, <1>2, SumTakesOut
<1> QED
  BY <1>1, <1>2, <1>3 DEF SumFunction
(***************************************************************************)
(* Total(G, S) is the sum of G over the members of S.                      *)
(***************************************************************************)
(* What holds of the empty set, and of a set with one member more if it    *)
(* holds of the set, holds of a finite set.                                *)
LEMMA FiniteSetInduction ==
    ASSUME NEW S, IsFiniteSet(S), NEW P, {} \in P,
           \A T \in SUBSET S : \A x \in S \ T : T \in P => T \cup {x} \in P
    PROVE  S \in P
<1> DEFINE Done == {n \in Nat : \A T \in SUBSET S : Cardinality(T) = n => T \in P}
<1>1. \A T \in SUBSET S : Cardinality(T) \in Nat /\ (Cardinality(T) = 0 <=> T = {})
  BY FS_Subset, FS_CardinalityType, FS_EmptySet
<1>2. 0 \in Done
  BY <1>1
<1>3. ASSUME NEW n \in Nat, n \in Done PROVE n + 1 \in Done
  <2> SUFFICES ASSUME NEW T \in SUBSET S, Cardinality(T) = n + 1 PROVE T \in P
    OBVIOUS
  <2>1. PICK x \in T : TRUE
    BY <1>1
  <2>2. Cardinality(T \ {x}) = Cardinality(T) - 1
    BY LessOne
  <2>3. T \ {x} \in SUBSET S /\ Cardinality(T \ {x}) = n
    BY <2>2
  <2>4. T \ {x} \in P /\ x \in S \ (T \ {x}) /\ (T \ {x}) \cup {x} = T
    BY <1>3, <2>1, <2>3
  <2> QED
    BY <2>3, <2>4
<1> HIDE DEF Done
<1>4. Cardinality(S) \in Done
  BY <1>1, <1>2, <1>3, NatSetInduction
<1> QED
  BY <1>4 DEF Done

(* What two functions sum to is the same where they agree.                 *)
LEMMA SumsAgree ==
    ASSUME NEW S, IsFiniteSet(S), NEW R, S \subseteq R, NEW G, NEW H,
           \A x \in S : G[x] = H[x],
           NEW f, SumsAll(f, R, G), NEW g, SumsAll(g, S, H)
    PROVE  f[S] = g[S]
<1> DEFINE Done == {n \in Nat : \A T \in UpTo(S, n) : f[T] = g[T]}
<1>1. \A T \in SUBSET S : Cardinality(T) \in Nat /\ (Cardinality(T) = 0 <=> T = {})
  BY FS_Subset, FS_CardinalityType, FS_EmptySet
<1>2. 0 \in Done
  <2> SUFFICES ASSUME NEW T \in UpTo(S, 0) PROVE f[T] = g[T]
    OBVIOUS
  <2>1. T \in SUBSET S /\ T \in SUBSET R /\ T = {}
    BY <1>1 DEF UpTo
  <2> QED
    BY <2>1 DEF Sums, SumsAll
<1>3. ASSUME NEW n \in Nat, n \in Done PROVE n + 1 \in Done
  <2> SUFFICES ASSUME NEW T \in UpTo(S, n + 1) PROVE f[T] = g[T]
    OBVIOUS
  <2>1. T \in SUBSET S /\ T \in SUBSET R /\ Cardinality(T) <= n + 1
    BY DEF UpTo
  <2>2. CASE T = {}
    BY <2>1, <2>2 DEF Sums, SumsAll
  <2>3. CASE T # {}
    <3>1. Picked(T) \in T
      BY <2>3 DEF Picked
    <3>2. Cardinality(T \ {Picked(T)}) = Cardinality(T) - 1 /\ Cardinality(T) \in Nat
      BY <2>1, <3>1, LessOne
    <3>3. T \ {Picked(T)} \in UpTo(S, n)
      BY <2>1, <3>2 DEF UpTo
    <3>4. f[T \ {Picked(T)}] = g[T \ {Picked(T)}] /\ G[Picked(T)] = H[Picked(T)]
      BY <1>3, <2>1, <3>1, <3>3
    <3>5. f[T] = G[Picked(T)] + f[T \ {Picked(T)}]
      BY <2>1, <2>3 DEF Sums, SumsAll
    <3>6. g[T] = H[Picked(T)] + g[T \ {Picked(T)}]
      BY <2>1, <2>3 DEF Sums, SumsAll
    <3> QED
      BY <3>4, <3>5, <3>6
  <2> QED
    BY <2>2, <2>3
<1> HIDE DEF Done
<1>4. Cardinality(S) \in Nat /\ Cardinality(S) \in Done
  BY <1>1, <1>2, <1>3, NatSetInduction
<1> QED
  BY <1>4 DEF Done, UpTo

PartialSums(G, S) == CHOOSE f : SumsAll(f, S, G)

Total(G, S) == PartialSums(G, S)[S]

(* The sum of a function with integer values over a finite set. *)
LEMMA TotalIs ==
    ASSUME NEW S, IsFiniteSet(S), NEW G, \A x \in S : G[x] \in Int
    PROVE  /\ Total(G, S) \in Int
           /\ S = {} => Total(G, S) = 0
           /\ \A x \in S : Total(G, S) = G[x] + Total(G, S \ {x})
           /\ \A f : SumsAll(f, S, G) => f[S] = Total(G, S)
<1> DEFINE H == [x \in S |-> G[x]]
<1>1. ASSUME NEW T \in SUBSET S PROVE IsFiniteSet(T) /\ SumsAll(PartialSums(G, T), T, G)
  <2> DEFINE K == [x \in T |-> G[x]]
  <2>1. IsFiniteSet(T) /\ K \in [T -> Int]
    BY FS_Subset
  <2>2. PICK f \in [SUBSET T -> Int] : SumsAll(f, T, K)
    BY <2>1, SumsExist
  <2>3. SumsAll(f, T, G)
    BY <2>2 DEF Sums, SumsAll, Picked
  <2> HIDE DEF K
  <2> QED
    BY <2>1, <2>3, Zenon DEF PartialSums
<1>2. H \in [S -> Int] /\ \A x \in S : H[x] = G[x]
  OBVIOUS
<1> DEFINE c == PartialSums(G, S)
<1>3. SumsAll(c, S, G)
  BY <1>1
<1> HIDE DEF c, H
<1>4. SumsAll(c, S, H)
  <2>1. \A s \in SUBSET S : s # {} => G[Picked(s)] = H[Picked(s)]
    BY <1>2 DEF Picked
  <2> QED
    BY <1>3, <2>1 DEF Sums, SumsAll
<1>5. \A s \in SUBSET S : /\ c[s] \in Int /\ (s = {} => c[s] = 0)
                          /\ \A x \in s : c[s] = H[x] + c[s \ {x}]
  <2>1. ASSUME NEW f, SumsAll(f, S, H)
        PROVE  \A s \in SUBSET S : /\ f[s] \in Int /\ (s = {} => f[s] = 0)
                                   /\ \A x \in s : f[s] = H[x] + f[s \ {x}]
    <3>1. H \in [S -> Int]
      BY <1>2
    <3>2. ASSUME NEW s \in SUBSET S PROVE f[s] \in Int /\ (s = {} => f[s] = 0)
      BY <3>1, <2>1, SumTakesOut
    <3>3. ASSUME NEW s \in SUBSET S, NEW x \in s PROVE f[s] = H[x] + f[s \ {x}]
      BY <3>1, <2>1, SumTakesOut
    <3> QED
      BY <3>2, <3>3
  <2> QED
    BY <1>4, <2>1
<1>6. ASSUME NEW T \in SUBSET S PROVE Total(G, T) = c[T]
  <2>1. Total(G, T) = PartialSums(G, T)[T]
    BY DEF Total
  <2>2. IsFiniteSet(T) /\ SumsAll(PartialSums(G, T), T, G)
    BY <1>1
  <2>3. ASSUME NEW f, SumsAll(f, T, G) PROVE f[T] = c[T]
    <3>1. T \subseteq S /\ \A x \in T : H[x] = G[x]
      BY <1>2
    <3>2. IsFiniteSet(T)
      BY <2>2
    <3> QED
      BY <1>4, <2>3, <3>1, <3>2, SumsAgree
  <2> QED
    BY <2>1, <2>2, <2>3
<1>7. \A f : SumsAll(f, S, G) => f[S] = Total(G, S)
  BY <1>3, <1>6, SumsAgree
<1>8. ASSUME NEW x \in S PROVE Total(G, S) = G[x] + Total(G, S \ {x})
  <2>1. c[S] = H[x] + c[S \ {x}]
    BY <1>5
  <2> QED
    BY <1>2, <1>6, <2>1
<1>9. Total(G, S) \in Int /\ (S = {} => Total(G, S) = 0)
  BY <1>5, <1>6
<1> QED
  BY <1>7, <1>8, <1>9

(* The sum over the empty set. *)
LEMMA TotalOfNone == ASSUME NEW G PROVE Total(G, {}) = 0
  BY TotalIs, FS_EmptySet

(* The sum over one element more. *)
LEMMA TotalAdds ==
    ASSUME NEW S, IsFiniteSet(S), NEW x, x \notin S, NEW G,
           \A y \in S \cup {x} : G[y] \in Int
    PROVE  Total(G, S \cup {x}) = G[x] + Total(G, S)
<1>1. IsFiniteSet(S \cup {x}) /\ (S \cup {x}) \ {x} = S /\ x \in S \cup {x}
  BY FS_AddElement
<1>2. Total(G, S \cup {x}) = G[x] + Total(G, (S \cup {x}) \ {x})
  BY <1>1, TotalIs
<1> QED
  BY <1>1, <1>2

(* A sum over two sets that share nothing. *)
LEMMA TotalUnion ==
    ASSUME NEW S, IsFiniteSet(S), NEW T, IsFiniteSet(T), S \cap T = {},
           NEW G, \A x \in S \cup T : G[x] \in Int
    PROVE  Total(G, S \cup T) = Total(G, S) + Total(G, T)
<1> DEFINE P == {U \in SUBSET T : Total(G, S \cup U) = Total(G, S) + Total(G, U)}
<1>1. Total(G, S) \in Int /\ \A U \in SUBSET T : IsFiniteSet(U) /\ Total(G, U) \in Int
  BY FS_Subset, TotalIs
<1>2. {} \in P
  <2>1. S \cup {} = S /\ Total(G, {}) = 0
    BY TotalOfNone
  <2> QED
    BY <1>1, <2>1
<1>3. ASSUME NEW U \in SUBSET T, NEW x \in T \ U, U \in P PROVE U \cup {x} \in P
  <2>1. IsFiniteSet(U) /\ IsFiniteSet(S \cup U) /\ x \notin S \cup U
        /\ S \cup (U \cup {x}) = (S \cup U) \cup {x}
    BY <1>1, FS_Union
  <2>2. Total(G, U \cup {x}) = G[x] + Total(G, U)
    BY <2>1, TotalAdds
  <2>3. Total(G, (S \cup U) \cup {x}) = G[x] + Total(G, S \cup U)
    BY <2>1, TotalAdds
  <2>4. Total(G, S \cup U) = Total(G, S) + Total(G, U) /\ G[x] \in Int
    BY <1>3
  <2>5. Total(G, S \cup (U \cup {x})) = Total(G, S) + Total(G, U \cup {x})
    <3>1. Total(G, S) \in Int /\ Total(G, U) \in Int
      BY <1>1
    <3> DEFINE a == Total(G, S)  b == Total(G, U)  g == G[x]
    <3>2. Total(G, U \cup {x}) = g + b /\ Total(G, S \cup (U \cup {x})) = g + (a + b)
          /\ g \in Int
      BY <2>1, <2>2, <2>3, <2>4
    <3>3. g + (a + b) = a + (g + b)
      <4> HIDE DEF a, b, g
      <4> QED
        BY <3>1, <3>2 DEF a, b
    <3> QED
      BY <3>2, <3>3
  <2> QED
    BY <2>5
<1> HIDE DEF P
<1>4. T \in P
  BY <1>2, <1>3, FiniteSetInduction
<1> QED
  BY <1>4 DEF P

(* A sum is at most the sum of what is at least as much. *)
LEMMA TotalOrder ==
    ASSUME NEW S, IsFiniteSet(S), NEW G, NEW H,
           \A x \in S : G[x] \in Int /\ H[x] \in Int /\ G[x] <= H[x]
    PROVE  Total(G, S) <= Total(H, S)
<1> DEFINE P == {U \in SUBSET S : Total(G, U) <= Total(H, U)}
<1>1. \A U \in SUBSET S : IsFiniteSet(U) /\ Total(G, U) \in Int /\ Total(H, U) \in Int
  BY FS_Subset, TotalIs
<1>2. {} \in P
  BY TotalOfNone, FS_EmptySet
<1>3. ASSUME NEW U \in SUBSET S, NEW x \in S \ U, U \in P PROVE U \cup {x} \in P
  <2>1. Total(G, U \cup {x}) = G[x] + Total(G, U) /\ Total(H, U \cup {x}) = H[x] + Total(H, U)
    BY <1>1, TotalAdds
  <2>2. Total(G, U) <= Total(H, U)
    BY <1>3
  <2>3. Total(G, U \cup {x}) <= Total(H, U \cup {x})
    BY <1>1, <2>1, <2>2
  <2> QED
    BY <2>3
<1> HIDE DEF P
<1>4. S \in P
  BY <1>2, <1>3, FiniteSetInduction
<1> QED
  BY <1>4 DEF P

(* The sum of a combination of two functions and a constant. *)
LEMMA TotalCombines ==
    ASSUME NEW S, IsFiniteSet(S), NEW G, NEW H, NEW K, NEW a \in Int, NEW b \in Int,
           \A x \in S : G[x] \in Int /\ H[x] \in Int /\ K[x] = G[x] + a * H[x] + b
    PROVE  Total(K, S) = Total(G, S) + a * Total(H, S) + b * Cardinality(S)
<1> DEFINE P == {U \in SUBSET S :
                   Total(K, U) = Total(G, U) + a * Total(H, U) + b * Cardinality(U)}
<1>1. \A U \in SUBSET S : /\ IsFiniteSet(U) /\ Total(G, U) \in Int /\ Total(H, U) \in Int
                          /\ Total(K, U) \in Int /\ Cardinality(U) \in Nat
  <2> SUFFICES ASSUME NEW U \in SUBSET S
               PROVE  /\ IsFiniteSet(U) /\ Total(G, U) \in Int /\ Total(H, U) \in Int
                      /\ Total(K, U) \in Int /\ Cardinality(U) \in Nat
    OBVIOUS
  <2>1. IsFiniteSet(U) /\ Cardinality(U) \in Nat
    BY FS_Subset, FS_CardinalityType
  <2>2. \A x \in U : K[x] \in Int
    <3> SUFFICES ASSUME NEW x \in U PROVE K[x] \in Int
      OBVIOUS
    <3>1. H[x] \in Int /\ a * H[x] \in Int
      OBVIOUS
    <3> QED
      BY <3>1
  <2>3. Total(K, U) \in Int
    BY <2>1, <2>2, TotalIs
  <2>4. Total(G, U) \in Int
    BY <2>1, TotalIs
  <2>5. Total(H, U) \in Int
    BY <2>1, TotalIs
  <2> QED
    BY <2>1, <2>3, <2>4, <2>5
<1>2. {} \in P
  BY TotalOfNone, FS_EmptySet
<1>3. ASSUME NEW U \in SUBSET S, NEW x \in S \ U, U \in P PROVE U \cup {x} \in P
  <2>1. /\ Total(G, U \cup {x}) = G[x] + Total(G, U)
        /\ Total(H, U \cup {x}) = H[x] + Total(H, U)
        /\ Total(K, U \cup {x}) = K[x] + Total(K, U)
    <3>1. IsFiniteSet(U) /\ \A y \in U \cup {x} : G[y] \in Int /\ H[y] \in Int /\ K[y] \in Int
      BY <1>1
    <3> QED
      BY <3>1, TotalAdds
  <2>2. Cardinality(U \cup {x}) = Cardinality(U) + 1
    BY <1>1, FS_AddElement
  <2> DEFINE h == H[x]  t == Total(H, U)  n == Cardinality(U)  g == G[x]  u == Total(G, U)
  <2>3. Total(K, U) = u + a * t + b * n /\ K[x] = g + a * h + b
    BY <1>3
  <2>4. h \in Int /\ t \in Int /\ n \in Int /\ g \in Int /\ u \in Int
    BY <1>1
  <2>5. (g + a * h + b) + (u + a * t + b * n) = (g + u) + a * (h + t) + b * (n + 1)
    <3> HIDE DEF h, t, n, g, u
    <3> QED
      BY <2>4
  <2>6. Total(K, U \cup {x}) = (g + u) + a * (h + t) + b * (n + 1)
    BY <2>1, <2>3, <2>5
  <2> QED
    BY <2>1, <2>2, <2>6
<1> HIDE DEF P
<1>4. S \in P
  BY <1>2, <1>3, FiniteSetInduction
<1> QED
  BY <1>4 DEF P

(* What adding a constant to every summand adds to a sum. *)
LEMMA TotalShifts ==
    ASSUME NEW S, IsFiniteSet(S), NEW G, NEW H, NEW b \in Int,
           \A x \in S : G[x] \in Int /\ H[x] = G[x] + b
    PROVE  Total(H, S) = Total(G, S) + b * Cardinality(S)
<1> DEFINE z == 0
<1>1. z \in Int /\ z = 0
  OBVIOUS
<1>2. \A x \in S : G[x] \in Int /\ G[x] \in Int /\ H[x] = G[x] + z * G[x] + b
  OBVIOUS
<1>3. Total(G, S) \in Int
  BY TotalIs
<1> HIDE DEF z
<1>5. z * Total(G, S) = 0
  BY <1>1, <1>3
<1>4. Total(H, S) = Total(G, S) + z * Total(G, S) + b * Cardinality(S)
  BY <1>1, <1>2, TotalCombines
<1>6. b * Cardinality(S) \in Int
  BY FS_CardinalityType
<1> QED
  BY <1>3, <1>4, <1>5, <1>6

(* SumFunction over 1 .. n is a total. *)
LEMMA SumIsTotal ==
    ASSUME NEW n \in Nat, NEW G \in [1 .. n -> Int]
    PROVE  SumFunction(G) = Total(G, 1 .. n)
<1>1. IsFiniteSet(1 .. n) /\ DOMAIN G = 1 .. n
  BY FS_Interval
<1>2. PICK f : SumsAll(f, 1 .. n, G) /\ SumFunctionOnSet(G, 1 .. n) = f[1 .. n]
  BY <1>1, SumFunctionSums
<1>3. \A g : SumsAll(g, 1 .. n, G) => g[1 .. n] = Total(G, 1 .. n)
  BY <1>1, TotalIs
<1> QED
  BY <1>1, <1>2, <1>3 DEF SumFunction

(* Equal summands have equal sums. *)
LEMMA TotalAgrees ==
    ASSUME NEW S, IsFiniteSet(S), NEW G, NEW H, \A x \in S : G[x] \in Int /\ H[x] = G[x]
    PROVE  Total(H, S) = Total(G, S)
<1>1. Total(G, S) <= Total(H, S) /\ Total(H, S) <= Total(G, S)
  <2>1. \A x \in S : G[x] \in Int /\ H[x] \in Int /\ G[x] <= H[x] /\ H[x] <= G[x]
    OBVIOUS
  <2>2. Total(G, S) <= Total(H, S)
    BY <2>1, TotalOrder
  <2>3. Total(H, S) <= Total(G, S)
    BY <2>1, TotalOrder
  <2> QED
    BY <2>2, <2>3
<1>2. Total(G, S) \in Int
  BY TotalIs
<1>3. Total(H, S) \in Int
  BY TotalIs
<1> QED
  BY <1>1, <1>2, <1>3

(* A sum of sums. *)
LEMMA TotalSums ==
    ASSUME NEW S, IsFiniteSet(S), NEW G, NEW H, NEW K,
           \A x \in S : G[x] \in Int /\ H[x] \in Int /\ K[x] = G[x] + H[x]
    PROVE  Total(K, S) = Total(G, S) + Total(H, S)
<1> DEFINE a == 1  b == 0
<1>1. a \in Int /\ b \in Int /\ \A x \in S : G[x] \in Int /\ H[x] \in Int /\ K[x] = G[x] + a * H[x] + b
  OBVIOUS
<1>2. Total(G, S) \in Int
  BY TotalIs
<1>3. Total(H, S) \in Int /\ Cardinality(S) \in Nat
  BY TotalIs, FS_CardinalityType
<1>4. Total(K, S) = Total(G, S) + a * Total(H, S) + b * Cardinality(S)
  <2> HIDE DEF a, b
  <2> QED
    BY <1>1, TotalCombines
<1> QED
  BY <1>2, <1>3, <1>4

(* A common factor. *)
LEMMA TotalScales ==
    ASSUME NEW S, IsFiniteSet(S), NEW G, NEW H, NEW a \in Int,
           \A x \in S : G[x] \in Int /\ H[x] = a * G[x]
    PROVE  Total(H, S) = a * Total(G, S)
<1> DEFINE c == a - 1  b == 0
<1>1. c \in Int /\ b \in Int /\ \A x \in S : G[x] \in Int /\ H[x] = G[x] + c * G[x] + b
  <2> SUFFICES ASSUME NEW x \in S PROVE a * G[x] = G[x] + (a - 1) * G[x] + 0
    OBVIOUS
  <2> DEFINE g == G[x]
  <2>1. g \in Int
    OBVIOUS
  <2> HIDE DEF g
  <2>2. a * g = g + (a - 1) * g + 0
    BY <2>1
  <2> QED
    BY <2>2 DEF g
<1>2. Total(G, S) \in Int /\ Cardinality(S) \in Nat
  BY TotalIs, FS_CardinalityType
<1>3. Total(H, S) = Total(G, S) + c * Total(G, S) + b * Cardinality(S)
  <2> HIDE DEF c, b
  <2>1. \A x \in S : G[x] \in Int /\ G[x] \in Int /\ H[x] = G[x] + c * G[x] + b
    BY <1>1, Zenon
  <2> QED
    BY <1>1, <2>1, TotalCombines
<1> DEFINE t == Total(G, S)
<1> HIDE DEF t
<1> QED
  BY <1>2, <1>3 DEF t

(* The summands of a table, row by row and column by column. *)
RowTotals(M, S, T) == [x \in S |-> Total(M[x], T)]
ColumnTotals(M, S, T) == [y \in T |-> Total([x \in S |-> M[x][y]], S)]

(* A table may be summed by its rows or by its columns. *)
LEMMA TotalExchange ==
    ASSUME NEW S, IsFiniteSet(S), NEW T, IsFiniteSet(T), NEW M,
           \A x \in S : \A y \in T : M[x][y] \in Int
    PROVE  Total(RowTotals(M, S, T), S) = Total(ColumnTotals(M, S, T), T)
<1> DEFINE R == RowTotals(M, S, T)
           Column(y) == [x \in S |-> M[x][y]]
           C(U) == [y \in T |-> Total(Column(y), U)]
           P == {U \in SUBSET S : Total(R, U) = Total(C(U), T)}
<1>1. \A U \in SUBSET S : IsFiniteSet(U)
  BY FS_Subset
<1>2. ASSUME NEW U \in SUBSET S, NEW y \in T PROVE Total(Column(y), U) \in Int
  <2> DEFINE c == Column(y)
  <2>1. \A x \in U : c[x] \in Int
    OBVIOUS
  <2> HIDE DEF c
  <2>2. Total(c, U) \in Int
    BY <1>1, <2>1, TotalIs
  <2> QED
    BY <2>2 DEF c
<1>3. ASSUME NEW x \in S PROVE Total(M[x], T) \in Int
  BY TotalIs
<1>4. {} \in P
  <2> DEFINE g == C({})
  <2>1. Total(R, {}) = 0
    BY TotalOfNone
  <2>2. \A y \in T : g[y] = 0
    BY TotalOfNone
  <2> HIDE DEF g
  <2>3. \A y \in T : g[y] \in Int /\ g[y] = 0 * g[y]
    BY <2>2
  <2>4. Total(g, T) = 0 * Total(g, T) /\ Total(g, T) \in Int
    <3>1. Total(g, T) \in Int
      BY <2>3, TotalIs
    <3> DEFINE z == 0
    <3>2. z \in Int /\ \A y \in T : g[y] \in Int /\ g[y] = z * g[y]
      BY <2>3
    <3> HIDE DEF z
    <3>3. Total(g, T) = z * Total(g, T)
      BY <3>2, TotalScales
    <3> QED
      BY <3>1, <3>3 DEF z
  <2>5. Total(g, T) = 0
    BY <2>4
  <2> QED
    BY <2>1, <2>5 DEF g
<1>5. ASSUME NEW U \in SUBSET S, NEW x \in S \ U, U \in P PROVE U \cup {x} \in P
  <2> DEFINE g == C(U)  h == C(U \cup {x})  m == M[x]
  <2>1. Total(R, U \cup {x}) = R[x] + Total(R, U)
    <3>1. \A z \in U \cup {x} : R[z] \in Int
      BY <1>3 DEF RowTotals
    <3> HIDE DEF R
    <3> QED
      BY <1>1, <3>1, TotalAdds
  <2>2. ASSUME NEW y \in T PROVE m[y] \in Int /\ g[y] \in Int /\ h[y] = m[y] + g[y]
    <3> DEFINE c == Column(y)
    <3>1. \A z \in U \cup {x} : c[z] \in Int
      OBVIOUS
    <3>2. c[x] = m[y] /\ m[y] \in Int
      OBVIOUS
    <3>3. g[y] = Total(c, U) /\ h[y] = Total(c, U \cup {x}) /\ g[y] \in Int
      BY <1>2
    <3> HIDE DEF c, g, h, m
    <3>4. Total(c, U \cup {x}) = c[x] + Total(c, U)
      BY <1>1, <3>1, TotalAdds
    <3> QED
      BY <3>2, <3>3, <3>4
  <2>3. R[x] = Total(m, T)
    BY DEF RowTotals
  <2>4. Total(R, U) = Total(g, T)
    BY <1>5
  <2> HIDE DEF g, h, m, R
  <2>5. Total(h, T) = Total(m, T) + Total(g, T)
    BY <2>2, TotalSums
  <2>6. Total(R, U \cup {x}) = Total(h, T)
    BY <2>1, <2>3, <2>4, <2>5
  <2> QED
    BY <2>6 DEF h
<1> HIDE DEF P
<1>6. S \in P
  BY <1>4, <1>5, FiniteSetInduction
<1> QED
  BY <1>6 DEF P, ColumnTotals

(* A sum may be taken in any order: p permutes S. *)
LEMMA TotalPermutes ==
    ASSUME NEW S, IsFiniteSet(S), NEW p \in [S -> S],
           \A y \in S : \E x \in S : p[x] = y,
           \A x \in S, y \in S : p[x] = p[y] => x = y,
           NEW G, NEW H, \A x \in S : G[x] \in Int /\ H[x] = G[p[x]]
    PROVE  Total(H, S) = Total(G, S)
<1> DEFINE Image(U) == {p[x] : x \in U}
           P == {U \in SUBSET S : IsFiniteSet(Image(U)) /\ Total(H, U) = Total(G, Image(U))}
<1>1. {} \in P
  <2>1. Image({}) = {}
    OBVIOUS
  <2> HIDE DEF Image
  <2> QED
    BY <2>1, TotalOfNone, FS_EmptySet
<1>2. ASSUME NEW U \in SUBSET S, NEW x \in S \ U, U \in P PROVE U \cup {x} \in P
  <2> DEFINE y == p[x]
  <2>1. Image(U \cup {x}) = Image(U) \cup {y} /\ y \notin Image(U)
        /\ Image(U) \cup {y} \subseteq S
    OBVIOUS
  <2>2. IsFiniteSet(U) /\ IsFiniteSet(Image(U)) /\ Total(H, U) = Total(G, Image(U))
    BY <1>2, FS_Subset
  <2>3. H[x] = G[y] /\ \A z \in S : H[z] \in Int /\ G[z] \in Int
    OBVIOUS
  <2> HIDE DEF y, Image
  <2>4. Total(H, U \cup {x}) = H[x] + Total(H, U)
    <3>1. x \notin U /\ \A z \in U \cup {x} : H[z] \in Int
      BY <2>3
    <3> QED
      BY <2>2, <3>1, TotalAdds
  <2>5. Total(G, Image(U) \cup {y}) = G[y] + Total(G, Image(U))
    <3>1. \A z \in Image(U) \cup {y} : G[z] \in Int
      BY <2>1, <2>3
    <3> QED
      BY <2>1, <2>2, <3>1, TotalAdds
  <2>6. IsFiniteSet(Image(U) \cup {y})
    BY <2>2, FS_AddElement
  <2> QED
    BY <2>1, <2>2, <2>3, <2>4, <2>5, <2>6
<1>3. Image(S) = S
  OBVIOUS
<1> HIDE DEF P
<1>4. S \in P
  BY <1>1, <1>2, FiniteSetInduction
<1> HIDE DEF Image
<1> QED
  BY <1>3, <1>4 DEF P

(* One place more. *)
LEMMA OneMore ==
    ASSUME NEW n \in Nat
    PROVE  1 .. n + 1 = (1 .. n) \cup {n + 1} /\ n + 1 \notin 1 .. n
  OBVIOUS

(* The sum over an even number of places, pair by pair. *)
LEMMA PairsTotal ==
    ASSUME NEW d \in Nat, NEW G \in [1 .. d -> Int],
           NEW H, \A i \in 1 .. d \div 2 : H[i] = G[2 * i - 1] + G[2 * i], d % 2 = 0
    PROVE  Total(H, 1 .. d \div 2) = Total(G, 1 .. d)
<1> DEFINE h == d \div 2
           Done == {k \in Nat : k <= h => Total(H, 1 .. k) = Total(G, 1 .. 2 * k)}
<1>1. h \in Nat /\ d = 2 * h
  OBVIOUS
<1> HIDE DEF h
<1>2. 0 \in Done
  <2>1. 1 .. 0 = {} /\ 1 .. 2 * 0 = {}
    OBVIOUS
  <2> QED
    BY <2>1, TotalOfNone
<1>3. ASSUME NEW k \in Nat, k \in Done PROVE k + 1 \in Done
  <2> SUFFICES ASSUME k + 1 <= h
               PROVE  Total(H, 1 .. k + 1) = Total(G, 1 .. 2 * (k + 1))
    OBVIOUS
  <2> DEFINE i == k + 1  a == 2 * k + 1  b == 2 * k + 2
  <2>1. i \in 1 .. h /\ a \in 1 .. d /\ b \in 1 .. d /\ 2 * i - 1 = a /\ 2 * i = b
    BY <1>1
  <2>2. /\ 1 .. k + 1 = (1 .. k) \cup {i} /\ i \notin 1 .. k
        /\ 1 .. a = (1 .. 2 * k) \cup {a} /\ a \notin 1 .. 2 * k
        /\ 1 .. b = (1 .. a) \cup {b} /\ b \notin 1 .. a
        /\ 1 .. k + 1 \subseteq 1 .. h /\ 1 .. b \subseteq 1 .. d /\ 1 .. a \subseteq 1 .. d
        /\ 2 * k \in Nat /\ a \in Nat
    <3>1. 2 * k \in Nat /\ a \in Nat /\ a = 2 * k + 1 /\ b = a + 1 /\ i = k + 1 /\ b <= d
      BY <1>1
    <3> DEFINE e == 2 * k
    <3> HIDE DEF i, a, b, e
    <3>2. 1 .. i = (1 .. k) \cup {i} /\ i \notin 1 .. k
      BY <3>1, OneMore
    <3>3. 1 .. a = (1 .. e) \cup {a} /\ a \notin 1 .. e
      <4>1. e \in Nat /\ a = e + 1
        BY <3>1 DEF e
      <4> QED
        BY <4>1, OneMore
    <3>4. 1 .. b = (1 .. a) \cup {b} /\ b \notin 1 .. a
      BY <3>1, OneMore
    <3>5. 1 .. i \subseteq 1 .. h /\ 1 .. b \subseteq 1 .. d /\ 1 .. a \subseteq 1 .. d
      BY <1>1, <3>1
    <3> QED
      BY <3>1, <3>2, <3>3, <3>4, <3>5 DEF e
  <2>3. H[i] = G[a] + G[b]
    BY <2>1 DEF h
  <2>4. \A x \in 1 .. h : H[x] \in Int
    <3> SUFFICES ASSUME NEW x \in 1 .. h PROVE H[x] \in Int
      OBVIOUS
    <3>1. 2 * x - 1 \in 1 .. d /\ 2 * x \in 1 .. d
      BY <1>1
    <3>2. H[x] = G[2 * x - 1] + G[2 * x]
      BY DEF h
    <3> QED
      BY <3>1, <3>2
  <2>5. Total(H, 1 .. k) = Total(G, 1 .. 2 * k)
    BY <1>1, <1>3
  <2>6. IsFiniteSet(1 .. k) /\ IsFiniteSet(1 .. 2 * k) /\ IsFiniteSet(1 .. a)
    BY <2>2, FS_Interval
  <2> HIDE DEF i, a, b
  <2>7. Total(H, (1 .. k) \cup {i}) = H[i] + Total(H, 1 .. k)
    BY <2>2, <2>4, <2>6, TotalAdds
  <2>8. Total(G, (1 .. 2 * k) \cup {a}) = G[a] + Total(G, 1 .. 2 * k)
    <3>1. \A y \in (1 .. 2 * k) \cup {a} : G[y] \in Int
      BY <2>2
    <3> QED
      BY <2>2, <2>6, <3>1, TotalAdds
  <2>9. Total(G, (1 .. a) \cup {b}) = G[b] + Total(G, 1 .. a)
    <3>1. \A y \in (1 .. a) \cup {b} : G[y] \in Int
      BY <2>2
    <3> QED
      BY <2>2, <2>6, <3>1, TotalAdds
  <2>10. Total(G, 1 .. 2 * k) \in Int /\ G[a] \in Int /\ G[b] \in Int
    <3>1. \A y \in 1 .. 2 * k : G[y] \in Int
      BY <2>2
    <3>2. Total(G, 1 .. 2 * k) \in Int
      BY <2>6, <3>1, TotalIs
    <3> QED
      BY <2>1, <3>2
  <2>11. 2 * (k + 1) = b
    BY DEF b
  <2>12. Total(H, 1 .. k + 1) = H[i] + Total(H, 1 .. k)
    BY <2>2, <2>7
  <2>13. Total(G, 1 .. b) = G[b] + (G[a] + Total(G, 1 .. 2 * k))
    BY <2>2, <2>8, <2>9
  <2> QED
    BY <2>3, <2>5, <2>10, <2>11, <2>12, <2>13
<1> HIDE DEF Done
<1>4. h \in Done
  BY <1>1, <1>2, <1>3, NatSetInduction
<1>5. Total(H, 1 .. h) = Total(G, 1 .. 2 * h)
  BY <1>1, <1>4 DEF Done
<1> QED
  BY <1>1, <1>5 DEF h

(* A sum of zeros. *)
LEMMA TotalOfZeros ==
    ASSUME NEW S, IsFiniteSet(S), NEW G, \A x \in S : G[x] = 0
    PROVE  Total(G, S) = 0
<1> DEFINE z == 0
<1>1. z \in Int /\ \A x \in S : G[x] \in Int /\ G[x] = z * G[x]
  OBVIOUS
<1>2. Total(G, S) \in Int
  BY <1>1, TotalIs
<1> HIDE DEF z
<1>3. Total(G, S) = z * Total(G, S)
  BY <1>1, TotalScales
<1> QED
  BY <1>2, <1>3 DEF z

(* A sum of which one summand is left. *)
LEMMA TotalOfOne ==
    ASSUME NEW S, IsFiniteSet(S), NEW i \in S, NEW G, G[i] \in Int,
           \A x \in S \ {i} : G[x] = 0
    PROVE  Total(G, S) = G[i]
<1>1. \A x \in S : G[x] \in Int
  OBVIOUS
<1>2. Total(G, S) = G[i] + Total(G, S \ {i})
  BY <1>1, TotalIs
<1>3. IsFiniteSet(S \ {i})
  BY FS_RemoveElement
<1>4. Total(G, S \ {i}) = 0
  BY <1>3, TotalOfZeros
<1> QED
  BY <1>2, <1>4

Continues(H, G, a, k) == \A j \in 1 .. k : H[j] = G[a + j]

(* The sum of the first a and of the next k. *)
LEMMA TotalSegments ==
    ASSUME NEW a \in Nat, NEW k \in Nat, NEW G, \A i \in 1 .. a + k : G[i] \in Int,
           NEW H, Continues(H, G, a, k)
    PROVE  Total(G, 1 .. a + k) = Total(G, 1 .. a) + Total(H, 1 .. k)
<1> DEFINE Done == {m \in Nat : m <= k =>
                      Total(G, 1 .. a + m) = Total(G, 1 .. a) + Total(H, 1 .. m)}
<1>5. \A j \in 1 .. k : H[j] = G[a + j]
  BY DEF Continues
<1>1. Total(G, 1 .. a) \in Int
  <2>1. \A i \in 1 .. a : G[i] \in Int
    OBVIOUS
  <2>2. IsFiniteSet(1 .. a)
    BY FS_Interval
  <2> QED
    BY <2>1, <2>2, TotalIs
<1>2. 0 \in Done
  <2>1. 1 .. 0 = {} /\ a + 0 = a
    OBVIOUS
  <2> QED
    BY <1>1, <2>1, TotalOfNone
<1>3. ASSUME NEW m \in Nat, m \in Done PROVE m + 1 \in Done
  <2> SUFFICES ASSUME m + 1 <= k
               PROVE  Total(G, 1 .. a + (m + 1)) = Total(G, 1 .. a) + Total(H, 1 .. m + 1)
    OBVIOUS
  <2> DEFINE b == a + m  c == m + 1
  <2>1. /\ b \in Nat /\ b + 1 = a + c /\ c \in 1 .. k /\ b + 1 \in 1 .. a + k /\ a + (m + 1) = b + 1
        /\ \A i \in 1 .. b : i \in 1 .. a + k
        /\ \A j \in 1 .. m : j \in 1 .. k
    OBVIOUS
  <2>2. \A j \in 1 .. k : a + j \in 1 .. a + k
    OBVIOUS
  <2>3. H[c] = G[b + 1] /\ G[b + 1] \in Int
    BY <1>5, <2>1
  <2>4. \A j \in 1 .. m : H[j] \in Int
    BY <1>5, <2>1, <2>2
  <2>5. \A i \in 1 .. b : G[i] \in Int
    BY <2>1
  <2>6. IsFiniteSet(1 .. b) /\ IsFiniteSet(1 .. m)
    BY <2>1, FS_Interval
  <2>7. /\ 1 .. b + 1 = (1 .. b) \cup {b + 1} /\ b + 1 \notin 1 .. b
        /\ 1 .. c = (1 .. m) \cup {c} /\ c \notin 1 .. m
    BY <2>1, OneMore
  <2> HIDE DEF b, c
  <2>8. Total(G, (1 .. b) \cup {b + 1}) = G[b + 1] + Total(G, 1 .. b)
    <3>1. \A y \in (1 .. b) \cup {b + 1} : G[y] \in Int
      BY <2>3, <2>5
    <3> QED
      BY <2>6, <2>7, <3>1, TotalAdds
  <2>9. Total(H, (1 .. m) \cup {c}) = H[c] + Total(H, 1 .. m)
    <3>1. \A y \in (1 .. m) \cup {c} : H[y] \in Int
      BY <2>3, <2>4
    <3> QED
      BY <2>6, <2>7, <3>1, TotalAdds
  <2>10. Total(H, 1 .. m) \in Int
    BY <2>4, <2>6, TotalIs
  <2>11. Total(G, 1 .. b) = Total(G, 1 .. a) + Total(H, 1 .. m)
    BY <1>3 DEF b
  <2>12. Total(G, 1 .. b + 1) = Total(G, 1 .. a) + Total(H, 1 .. c)
    <3>1. Total(G, 1 .. b + 1) = G[b + 1] + Total(G, 1 .. b)
      BY <2>7, <2>8, Zenon
    <3>2. Total(H, 1 .. c) = H[c] + Total(H, 1 .. m)
      BY <2>7, <2>9, Zenon
    <3> QED
      BY <1>1, <2>3, <2>10, <2>11, <3>1, <3>2
  <2> QED
    BY <2>1, <2>12 DEF c
<1> HIDE DEF Done
<1>4. k \in Done
  BY <1>2, <1>3, NatSetInduction
<1> QED
  BY <1>4 DEF Done

(* The values of a function, in m blocks of k. *)
InBlocks(G, m, k) == [b \in 1 .. m |-> [j \in 1 .. k |-> G[(b - 1) * k + j]]]

SumsOfBlocks(H, G, m, k) == \A b \in 1 .. m : H[b] = Total(InBlocks(G, m, k)[b], 1 .. k)

(* The sum of the sums of the blocks. *)
LEMMA TotalOfBlocks ==
    ASSUME NEW m \in Nat, NEW k \in Nat, NEW d, d = m * k, NEW G \in [1 .. d -> Int],
           NEW H, SumsOfBlocks(H, G, m, k)
    PROVE  Total(H, 1 .. m) = Total(G, 1 .. d)
<1> DEFINE P == InBlocks(G, m, k)
           Done == {n \in Nat : n <= m => Total(H, 1 .. n) = Total(G, 1 .. n * k)}
<1>4. \A b \in 1 .. m, j \in 1 .. k : P[b][j] = G[(b - 1) * k + j]
  BY DEF InBlocks
<1>6. \A b \in 1 .. m : H[b] = Total(P[b], 1 .. k)
  BY DEF SumsOfBlocks
<1>5. \A i \in 1 .. m * k : G[i] \in Int
  OBVIOUS
<1> HIDE DEF P
<1>1. 0 \in Done
  <2>1. 1 .. 0 = {} /\ 1 .. 0 * k = {}
    OBVIOUS
  <2> QED
    BY <2>1, TotalOfNone
<1>2. ASSUME NEW n \in Nat, n \in Done PROVE n + 1 \in Done
  <2> SUFFICES ASSUME n + 1 <= m PROVE Total(H, 1 .. n + 1) = Total(G, 1 .. (n + 1) * k)
    OBVIOUS
  <2> DEFINE a == n * k  c == n + 1  p == P[n + 1]
  <2>1. /\ a \in Nat /\ (n + 1) * k = a + k /\ c \in 1 .. m /\ (n + 1) - 1 = n
        /\ n < m /\ \A b \in 1 .. n : b \in 1 .. m
    OBVIOUS
  <2>2. a + k <= m * k
    BY <2>1, MulLess
  <2>3. m * k \in Nat
    OBVIOUS
  <2> DEFINE l == m * k
  <2>4. \A i \in 1 .. a + k : G[i] \in Int
    <3>1. l \in Nat /\ a + k <= l /\ a + k \in Nat /\ \A i \in 1 .. l : G[i] \in Int
      BY <1>5, <2>1, <2>2, <2>3
    <3> HIDE DEF a, l
    <3> QED
      BY <3>1
  <2>5. \A j \in 1 .. k : p[j] = G[a + j]
    BY <1>4, <2>1
  <2>6. H[c] = Total(p, 1 .. k)
    BY <1>6, <2>1
  <2>7. ASSUME NEW b \in 1 .. m PROVE H[b] \in Int
    <3> DEFINE h == P[b]  e == (b - 1) * k
    <3>1. H[b] = Total(h, 1 .. k)
      BY <1>6
    <3>2. \A j \in 1 .. k : h[j] \in Int
      <4>1. b - 1 \in Nat /\ b - 1 < m
        OBVIOUS
      <4>2. e + k <= l /\ e \in Nat
        BY <4>1, MulLess
      <4>3. \A j \in 1 .. k : e + j \in 1 .. l
        <5>1. l \in Nat
          BY <2>3
        <5> HIDE DEF e, l
        <5> QED
          BY <4>2, <5>1
      <4>4. \A j \in 1 .. k : h[j] = G[e + j]
        BY <1>4
      <4> HIDE DEF e, h
      <4> QED
        BY <1>5, <4>3, <4>4 DEF l
    <3> HIDE DEF h
    <3>3. Total(h, 1 .. k) \in Int
      <4>1. IsFiniteSet(1 .. k)
        BY FS_Interval
      <4> QED
        BY <3>2, <4>1, TotalIs
    <3> QED
      BY <3>1, <3>3
  <2>8. Total(H, 1 .. n) = Total(G, 1 .. a)
    BY <1>2, <2>1
  <2> HIDE DEF a, p, l
  <2>16. a \in Nat
    BY <2>1
  <2>9. Total(G, 1 .. a + k) = Total(G, 1 .. a) + Total(p, 1 .. k)
    <3>1. Continues(p, G, a, k)
      BY <2>5 DEF Continues
    <3> QED
      BY <2>4, <2>16, <3>1, TotalSegments
  <2>10. 1 .. c = (1 .. n) \cup {c} /\ c \notin 1 .. n
    BY OneMore
  <2>11. \A b \in (1 .. n) \cup {c} : H[b] \in Int
    BY <2>1, <2>7
  <2>15. IsFiniteSet(1 .. n)
    BY FS_Interval
  <2>12. Total(H, (1 .. n) \cup {c}) = H[c] + Total(H, 1 .. n)
    BY <2>10, <2>11, <2>15, TotalAdds
  <2>13. Total(H, 1 .. n) \in Int /\ H[c] \in Int
    <3>1. \A b \in 1 .. n : H[b] \in Int
      BY <2>11
    <3>2. Total(H, 1 .. n) \in Int
      BY <2>15, <3>1, TotalIs
    <3> QED
      BY <2>11, <3>2
  <2>14. Total(H, 1 .. c) = Total(G, 1 .. a + k)
    <3>1. Total(H, 1 .. c) = H[c] + Total(H, 1 .. n)
      BY <2>10, <2>12, Zenon
    <3>2. Total(G, 1 .. a + k) = Total(H, 1 .. n) + H[c]
      BY <2>6, <2>8, <2>9, Zenon
    <3> QED
      BY <2>13, <3>1, <3>2
  <2> QED
    BY <2>1, <2>14 DEF c
<1> HIDE DEF Done
<1>3. m \in Done
  BY <1>1, <1>2, NatSetInduction
<1> QED
  BY <1>3 DEF Done

(***************************************************************************)
(* Inner products, matrices and distances.  A matrix is moved to the other *)
(* side of an inner product by summing its table by columns.               *)
(***************************************************************************)
(* Inner products of the first n coordinates. *)
Terms(u, v) == [i \in DOMAIN u |-> u[i] * v[i]]
Inner(u, v, n) == Total(Terms(u, v), 1 .. n)

LEMMA InnerIs ==
    ASSUME NEW n \in Nat, NEW u \in [1 .. n -> Int], NEW v \in [1 .. n -> Int]
    PROVE  /\ Terms(u, v) \in [1 .. n -> Int]
           /\ Inner(u, v, n) \in Int /\ Inner(u, v, n) = Inner(v, u, n)
<1>1. ASSUME NEW x \in [1 .. n -> Int], NEW y \in [1 .. n -> Int]
      PROVE  /\ Terms(x, y) \in [1 .. n -> Int]
             /\ \A i \in 1 .. n : Terms(x, y)[i] = x[i] * y[i] /\ x[i] \in Int /\ y[i] \in Int
  BY DEF Terms
<1> DEFINE a == Terms(u, v)  b == Terms(v, u)
<1>2. \A i \in 1 .. n : a[i] \in Int /\ b[i] = a[i]
  <2> SUFFICES ASSUME NEW i \in 1 .. n PROVE a[i] \in Int /\ b[i] = a[i]
    OBVIOUS
  <2>1. a \in [1 .. n -> Int] /\ a[i] = u[i] * v[i] /\ b[i] = v[i] * u[i]
        /\ u[i] \in Int /\ v[i] \in Int
    BY <1>1
  <2> DEFINE p == u[i]  q == v[i]
  <2> HIDE DEF a, b, p, q
  <2> QED
    BY <2>1 DEF p, q
<1>3. a \in [1 .. n -> Int]
  BY <1>1
<1> HIDE DEF a, b
<1>4. Total(b, 1 .. n) = Total(a, 1 .. n) /\ Total(a, 1 .. n) \in Int
  <2>1. IsFiniteSet(1 .. n)
    BY FS_Interval
  <2>2. Total(b, 1 .. n) = Total(a, 1 .. n)
    BY <1>2, <2>1, TotalAgrees
  <2>3. Total(a, 1 .. n) \in Int
    BY <1>2, <2>1, TotalIs
  <2> QED
    BY <2>2, <2>3
<1> QED
  BY <1>3, <1>4 DEF a, b, Inner

(* A matrix times a vector, and its columns with the vector. *)
ByRows(M, n, v) == [i \in 1 .. n |-> Inner(M[i], v, n)]
Column(M, n, j) == [i \in 1 .. n |-> M[i][j]]
ByColumns(M, n, w) == [j \in 1 .. n |-> Inner(Column(M, n, j), w, n)]

LEMMA ProductsAre ==
    ASSUME NEW n \in Nat, NEW M \in [1 .. n -> [1 .. n -> Int]], NEW v \in [1 .. n -> Int]
    PROVE  ByRows(M, n, v) \in [1 .. n -> Int] /\ ByColumns(M, n, v) \in [1 .. n -> Int]
<1>1. ASSUME NEW i \in 1 .. n
      PROVE  Inner(M[i], v, n) \in Int /\ Inner(Column(M, n, i), v, n) \in Int
  <2> DEFINE r == M[i]  c == Column(M, n, i)
  <2>1. r \in [1 .. n -> Int] /\ c \in [1 .. n -> Int]
    BY DEF Column
  <2> HIDE DEF r, c
  <2>2. Inner(r, v, n) \in Int
    BY <2>1, InnerIs
  <2>3. Inner(c, v, n) \in Int
    BY <2>1, InnerIs
  <2> QED
    BY <2>2, <2>3 DEF r, c
<1> QED
  BY <1>1 DEF ByRows, ByColumns

(* The columns of a matrix are the rows of its transpose: moving it to the *)
(* other side of an inner product.                                         *)
LEMMA MatrixMoves ==
    ASSUME NEW n \in Nat, NEW M \in [1 .. n -> [1 .. n -> Int]],
           NEW v \in [1 .. n -> Int], NEW w \in [1 .. n -> Int]
    PROVE  Inner(ByColumns(M, n, w), v, n) = Inner(w, ByRows(M, n, v), n)
<1> DEFINE N == 1 .. n
           K == [i \in N |-> [j \in N |-> M[i][j] * w[i] * v[j]]]
<1>0. IsFiniteSet(N)
  BY FS_Interval
<1>1. ASSUME NEW i \in N, NEW j \in N
      PROVE  /\ K[i][j] = M[i][j] * w[i] * v[j] /\ K[i][j] \in Int
             /\ M[i][j] \in Int /\ w[i] \in Int /\ v[j] \in Int
  OBVIOUS
<1>2. ASSUME NEW i \in N PROVE w[i] * Inner(M[i], v, n) = Total(K[i], N)
  <2> DEFINE m == M[i]  k == K[i]  t == Terms(m, v)  a == w[i]
  <2>1. m \in [1 .. n -> Int] /\ a \in Int
    OBVIOUS
  <2>2. \A j \in N : t[j] = m[j] * v[j] /\ k[j] = m[j] * a * v[j] /\ m[j] \in Int /\ v[j] \in Int
    BY <2>1 DEF Terms
  <2> HIDE DEF N, m, k, t, a
  <2>3. Inner(m, v, n) = Total(t, N) /\ t \in [N -> Int]
    BY <2>1, InnerIs DEF t, N, Inner
  <2>4. \A j \in N : t[j] \in Int /\ k[j] = a * t[j]
    <3> SUFFICES ASSUME NEW j \in N PROVE t[j] \in Int /\ k[j] = a * t[j]
      OBVIOUS
    <3> DEFINE x == m[j]  y == v[j]
    <3>1. x \in Int /\ y \in Int /\ t[j] = x * y /\ k[j] = x * a * y
      BY <2>2
    <3> HIDE DEF x, y
    <3>2. x * a * y = a * (x * y)
      BY <2>1, <3>1
    <3> QED
      BY <2>3, <3>1, <3>2
  <2>5. Total(k, N) = a * Total(t, N)
    BY <1>0, <2>1, <2>4, TotalScales
  <2> QED
    BY <2>3, <2>5 DEF m, k, a
<1>3. ASSUME NEW j \in N
      PROVE  Inner(Column(M, n, j), w, n) * v[j] = Total([i \in N |-> K[i][j]], N)
  <2> DEFINE m == Column(M, n, j)  k == [i \in N |-> K[i][j]]  t == Terms(m, w)  a == v[j]
  <2>1. m \in [1 .. n -> Int] /\ a \in Int
    BY DEF Column
  <2>2. \A i \in N : t[i] = m[i] * w[i] /\ k[i] = m[i] * w[i] * a /\ m[i] \in Int /\ w[i] \in Int
    BY <2>1 DEF Terms, Column
  <2> HIDE DEF N, m, k, t, a
  <2>3. Inner(m, w, n) = Total(t, N) /\ t \in [N -> Int]
    BY <2>1, InnerIs DEF t, N, Inner
  <2>4. \A i \in N : t[i] \in Int /\ k[i] = a * t[i]
    <3> SUFFICES ASSUME NEW i \in N PROVE t[i] \in Int /\ k[i] = a * t[i]
      OBVIOUS
    <3> DEFINE x == m[i]  y == w[i]
    <3>1. x \in Int /\ y \in Int /\ t[i] = x * y /\ k[i] = x * y * a
      BY <2>2
    <3> HIDE DEF x, y
    <3>2. x * y * a = a * (x * y)
      BY <2>1, <3>1
    <3> QED
      BY <2>3, <3>1, <3>2
  <2>5. Total(k, N) = a * Total(t, N)
    BY <1>0, <2>1, <2>4, TotalScales
  <2>6. Total(t, N) \in Int
    BY <1>0, <2>4, TotalIs
  <2>7. Total(t, N) * a = a * Total(t, N)
    BY <2>1, <2>6
  <2> QED
    BY <2>3, <2>5, <2>7 DEF m, k, a
<1> DEFINE c == ByColumns(M, n, w)  r == ByRows(M, n, v)
           R == RowTotals(K, N, N)  C == ColumnTotals(K, N, N)
<1>4. c \in [1 .. n -> Int] /\ r \in [1 .. n -> Int]
  BY ProductsAre
<1>6. \A i \in N : Terms(w, r)[i] = R[i]
  BY <1>2 DEF Terms, ByRows, RowTotals
<1>7. \A j \in N : Terms(c, v)[j] = C[j]
  <2> SUFFICES ASSUME NEW j \in N PROVE Terms(c, v)[j] = C[j]
    OBVIOUS
  <2>1. Terms(c, v)[j] = c[j] * v[j]
    BY <1>4 DEF Terms
  <2>2. c[j] = Inner(Column(M, n, j), w, n)
    BY DEF ByColumns
  <2>3. C[j] = Total([i \in N |-> K[i][j]], N)
    BY DEF ColumnTotals
  <2> HIDE DEF c, C, K
  <2> QED
    BY <1>3, <2>1, <2>2, <2>3
<1>8. Total(R, N) = Total(C, N)
  <2> HIDE DEF N, K
  <2> QED
    BY <1>0, <1>1, TotalExchange
<1> HIDE DEF c, r, R, C, K
<1>9. Terms(w, r) \in [N -> Int] /\ Terms(c, v) \in [N -> Int]
  BY <1>4, InnerIs
<1> DEFINE x == Terms(w, r)  y == Terms(c, v)
<1>11. Total(R, N) = Total(x, N)
  <2>1. \A i \in N : x[i] \in Int /\ R[i] = x[i]
    BY <1>6, <1>9
  <2> HIDE DEF N, x
  <2> QED
    BY <1>0, <2>1, TotalAgrees
<1>12. Total(C, N) = Total(y, N)
  <2>1. \A i \in N : y[i] \in Int /\ C[i] = y[i]
    BY <1>7, <1>9
  <2> HIDE DEF N, y
  <2> QED
    BY <1>0, <2>1, TotalAgrees
<1> QED
  BY <1>8, <1>11, <1>12 DEF c, r, Inner

(* The rows of a matrix are of length 1 and at right angles. *)
Orthonormal(M, n) ==
    \A i, j \in 1 .. n : Inner(M[i], M[j], n) = IF i = j THEN 1 ELSE 0

(* The columns of such a matrix keep the length of a vector. *)
LEMMA OrthonormalKeeps ==
    ASSUME NEW n \in Nat, NEW M \in [1 .. n -> [1 .. n -> Int]], Orthonormal(M, n),
           NEW w \in [1 .. n -> Int]
    PROVE  LET c == ByColumns(M, n, w) IN Inner(c, c, n) = Inner(w, w, n)
<1> DEFINE c == ByColumns(M, n, w)  r == ByRows(M, n, c)
<1>1. c \in [1 .. n -> Int]
  BY ProductsAre
<1>2. Inner(c, c, n) = Inner(w, r, n)
  <2> HIDE DEF c
  <2> QED
    BY <1>1, MatrixMoves DEF c
<1>3. ASSUME NEW i \in 1 .. n PROVE r[i] = w[i]
  <2> DEFINE m == M[i]  e == ByRows(M, n, m)  t == Terms(w, e)
  <2>1. m \in [1 .. n -> Int] /\ w[i] \in Int
    OBVIOUS
  <2>2. r[i] = Inner(m, c, n)
    BY DEF ByRows
  <2>3. \A j \in 1 .. n : e[j] = IF j = i THEN 1 ELSE 0
    <3> SUFFICES ASSUME NEW j \in 1 .. n PROVE e[j] = IF j = i THEN 1 ELSE 0
      OBVIOUS
    <3>1. e[j] = Inner(M[j], M[i], n)
      BY DEF ByRows
    <3> HIDE DEF e
    <3> QED
      BY <3>1 DEF Orthonormal
  <2> HIDE DEF c, r, m, e
  <2>4. Inner(m, c, n) = Inner(c, m, n)
    BY <1>1, <2>1, InnerIs
  <2>5. Inner(c, m, n) = Inner(w, e, n)
    BY <2>1, MatrixMoves DEF c, e
  <2>6. t[i] = w[i] /\ \A j \in (1 .. n) \ {i} : t[j] = 0
    <3>1. \A j \in 1 .. n : t[j] = w[j] * e[j] /\ w[j] \in Int
      BY DEF Terms
    <3>2. \A j \in 1 .. n : w[j] * 1 = w[j] /\ w[j] * 0 = 0
      BY <3>1
    <3>3. \A j \in (1 .. n) \ {i} : t[j] = w[j] * 0
      <4> HIDE DEF t
      <4> QED
        BY <2>3, <3>1
    <3>4. t[i] = w[i] * 1
      <4> HIDE DEF t
      <4> QED
        BY <2>3, <3>1
    <3> HIDE DEF t
    <3> QED
      BY <3>2, <3>3, <3>4
  <2> HIDE DEF t
  <2>7. Total(t, 1 .. n) = t[i]
    <3>1. IsFiniteSet(1 .. n) /\ t[i] \in Int /\ i \in 1 .. n
      BY <2>1, <2>6, FS_Interval
    <3> QED
      BY <2>6, <3>1, TotalOfOne
  <2> QED
    BY <2>2, <2>4, <2>5, <2>6, <2>7 DEF Inner, t
<1>4. r = w
  <2>1. r = [i \in 1 .. n |-> r[i]]
    BY DEF ByRows
  <2> HIDE DEF r
  <2> QED
    BY <1>3, <2>1
<1> QED
  BY <1>2, <1>4

(* The squares of the differences, and their sum. *)
Apart(u, v) == [i \in DOMAIN u |-> (u[i] - v[i]) * (u[i] - v[i])]

LEMMA ApartIs ==
    ASSUME NEW n \in Nat, NEW u \in [1 .. n -> Int], NEW v \in [1 .. n -> Int]
    PROVE  /\ Apart(u, v) \in [1 .. n -> Int]
           /\ Total(Apart(u, v), 1 .. n) = Inner(u, u, n) - 2 * Inner(u, v, n) + Inner(v, v, n)
<1> DEFINE N == 1 .. n
           uu == Terms(u, u)  uv == Terms(u, v)  vv == Terms(v, v)  d == Apart(u, v)
           a == -2  f == [i \in N |-> a * uv[i]]  e == [i \in N |-> uu[i] + f[i]]
<1>1. uu \in [N -> Int] /\ uv \in [N -> Int] /\ vv \in [N -> Int]
  BY InnerIs
<1>2. /\ Total(uu, N) = Inner(u, u, n) /\ Total(uv, N) = Inner(u, v, n)
      /\ Total(vv, N) = Inner(v, v, n)
      /\ Inner(u, u, n) \in Int /\ Inner(u, v, n) \in Int /\ Inner(v, v, n) \in Int
  <2>1. Inner(u, u, n) \in Int
    BY InnerIs
  <2>2. Inner(u, v, n) \in Int
    BY InnerIs
  <2>3. Inner(v, v, n) \in Int
    BY InnerIs
  <2> QED
    BY <2>1, <2>2, <2>3 DEF Inner
<1>3. \A i \in N : /\ uu[i] \in Int /\ uv[i] \in Int /\ vv[i] \in Int
                   /\ f[i] \in Int /\ f[i] = a * uv[i] /\ e[i] \in Int /\ e[i] = uu[i] + f[i]
                   /\ d[i] = e[i] + vv[i] /\ d[i] \in Int
  <2> SUFFICES ASSUME NEW i \in N
               PROVE  /\ uu[i] \in Int /\ uv[i] \in Int /\ vv[i] \in Int
                      /\ f[i] \in Int /\ f[i] = a * uv[i] /\ e[i] \in Int /\ e[i] = uu[i] + f[i]
                      /\ d[i] = e[i] + vv[i] /\ d[i] \in Int
    OBVIOUS
  <2> DEFINE x == u[i]  y == v[i]
  <2>1. /\ x \in Int /\ y \in Int /\ uu[i] = x * x /\ uv[i] = x * y /\ vv[i] = y * y
        /\ d[i] = (x - y) * (x - y) /\ e[i] = uu[i] + f[i] /\ f[i] = (-2) * uv[i]
    BY DEF Terms, Apart
  <2> HIDE DEF uu, uv, vv, d, e, f, x, y
  <2>2. (x - y) * (x - y) = x * x + (-2) * (x * y) + y * y
    BY <2>1
  <2>3. x * x \in Int /\ x * y \in Int /\ y * y \in Int
    BY <2>1
  <2> QED
    BY <2>1, <2>2, <2>3
<1>4. d \in [N -> Int]
  <2>1. d = [i \in N |-> d[i]]
    BY DEF Apart
  <2> HIDE DEF d
  <2> QED
    BY <1>3, <2>1
<1> HIDE DEF uu, uv, vv, d, e, f, N
<1>5. IsFiniteSet(N)
  BY FS_Interval DEF N
<1>6. Total(f, N) = a * Total(uv, N)
  <2>1. a \in Int
    OBVIOUS
  <2> HIDE DEF a
  <2>2. \A i \in N : uv[i] \in Int /\ f[i] = a * uv[i]
    BY <1>3
  <2> QED
    BY <1>5, <2>1, <2>2, TotalScales
<1>7. Total(e, N) = Total(uu, N) + Total(f, N)
  <2>1. \A i \in N : uu[i] \in Int /\ f[i] \in Int /\ e[i] = uu[i] + f[i]
    BY <1>3
  <2> QED
    BY <1>5, <2>1, TotalSums
<1>8. Total(d, N) = Total(e, N) + Total(vv, N)
  <2>1. \A i \in N : e[i] \in Int /\ vv[i] \in Int /\ d[i] = e[i] + vv[i]
    BY <1>3
  <2> QED
    BY <1>5, <2>1, TotalSums
<1>10. Total(d, N) = Inner(u, u, n) - 2 * Inner(u, v, n) + Inner(v, v, n)
  BY <1>2, <1>6, <1>7, <1>8
<1> QED
  BY <1>4, <1>10 DEF d, N

(* By how much a matrix shortens a vector. *)
Shortened(M, n, u) == Inner(u, u, n) - Inner(ByRows(M, n, u), ByRows(M, n, u), n)

(* A rotation back adds the same to the distance from every w. *)
LEMMA RotatedApart ==
    ASSUME NEW n \in Nat, NEW M \in [1 .. n -> [1 .. n -> Int]], Orthonormal(M, n),
           NEW u \in [1 .. n -> Int], NEW w \in [1 .. n -> Int]
    PROVE  Total(Apart(u, ByColumns(M, n, w)), 1 .. n)
             = Shortened(M, n, u) + Total(Apart(ByRows(M, n, u), w), 1 .. n)
<1> DEFINE z == ByRows(M, n, u)  c == ByColumns(M, n, w)
<1>1. z \in [1 .. n -> Int] /\ c \in [1 .. n -> Int]
  BY ProductsAre
<1>2. Inner(c, c, n) = Inner(w, w, n)
  BY OrthonormalKeeps
<1>3. Inner(c, u, n) = Inner(w, z, n)
  BY MatrixMoves
<1> HIDE DEF z, c
<1>4. Inner(u, c, n) = Inner(c, u, n) /\ Inner(z, w, n) = Inner(w, z, n)
  <2>1. Inner(u, c, n) = Inner(c, u, n)
    BY <1>1, InnerIs
  <2>2. Inner(z, w, n) = Inner(w, z, n)
    BY <1>1, InnerIs
  <2> QED
    BY <2>1, <2>2
<1>5. Total(Apart(u, c), 1 .. n) = Inner(u, u, n) - 2 * Inner(u, c, n) + Inner(c, c, n)
  BY <1>1, ApartIs
<1>6. Total(Apart(z, w), 1 .. n) = Inner(z, z, n) - 2 * Inner(z, w, n) + Inner(w, w, n)
  BY <1>1, ApartIs
<1>7. Inner(u, u, n) \in Int
  BY InnerIs
<1>8. Inner(z, z, n) \in Int
  BY <1>1, InnerIs
<1>9. Inner(w, w, n) \in Int
  BY InnerIs
<1>10. Inner(w, z, n) \in Int
  BY <1>1, InnerIs
<1> DEFINE uu == Inner(u, u, n)  zz == Inner(z, z, n)  ww == Inner(w, w, n)  wz == Inner(w, z, n)
           a == Total(Apart(u, c), 1 .. n)  b == Total(Apart(z, w), 1 .. n)
<1>11. a = uu - 2 * wz + ww
  BY <1>2, <1>3, <1>4, <1>5, Zenon
<1>12. b = zz - 2 * wz + ww
  BY <1>4, <1>6, Zenon
<1>13. uu \in Int /\ zz \in Int /\ ww \in Int /\ wz \in Int
  BY <1>7, <1>8, <1>9, <1>10
<1> HIDE DEF uu, zz, ww, wz, a, b
<1>14. a = (uu - zz) + b
  BY <1>11, <1>12, <1>13
<1>15. Shortened(M, n, u) = uu - zz
  BY DEF Shortened, uu, zz, z
<1>16. a = Shortened(M, n, u) + b
  BY <1>14, <1>15, Zenon
<1> QED
  BY <1>16 DEF a, b, z, c

Times(N, u) == [i \in DOMAIN u |-> N * u[i]]

(* The distance of two multiples. *)
LEMMA ScaledApart ==
    ASSUME NEW n \in Nat, NEW N \in Int, NEW u \in [1 .. n -> Int], NEW c \in [1 .. n -> Int]
    PROVE  Total(Apart(Times(N, u), Times(N, c)), 1 .. n) = (N * N) * Total(Apart(u, c), 1 .. n)
<1> DEFINE S == 1 .. n  g == Apart(u, c)  h == Apart(Times(N, u), Times(N, c))  a == N * N
<1>1. IsFiniteSet(S)
  BY FS_Interval
<1>2. a \in Int
  OBVIOUS
<1>3. g \in [S -> Int]
  BY ApartIs
<1>4. \A i \in S : g[i] \in Int /\ h[i] = a * g[i]
  <2> SUFFICES ASSUME NEW i \in S PROVE g[i] \in Int /\ h[i] = a * g[i]
    OBVIOUS
  <2> DEFINE s == u[i]  t == c[i]
  <2>1. /\ s \in Int /\ t \in Int /\ g[i] = (s - t) * (s - t)
        /\ h[i] = (N * s - N * t) * (N * s - N * t)
    BY DEF Apart, Times
  <2> HIDE DEF g, h, s, t
  <2>2. N * s - N * t = N * (s - t)
    BY <2>1
  <2> DEFINE e == s - t
  <2>3. e \in Int /\ g[i] = e * e /\ h[i] = (N * e) * (N * e)
    BY <2>1, <2>2
  <2> HIDE DEF e
  <2>4. (N * e) * (N * e) = (N * N) * (e * e)
    BY <2>3
  <2> QED
    BY <2>3, <2>4
<1> HIDE DEF S, g, h, a
<1>5. Total(h, S) = a * Total(g, S)
  BY <1>1, <1>2, <1>4, TotalScales
<1> QED
  BY <1>5 DEF S, g, h, a

(***************************************************************************)
(* Binary digits and packed indices.                                       *)
(***************************************************************************)
(* The powers of 2 up to the widest index.  The provers know a power only  *)
(* when its exponent is a numeral.                                         *)
LEMMA Powers ==
    ASSUME NEW b \in 0 .. 32
    PROVE  2 ^ b \in Nat \ {0} /\ 2 ^ (b + 1) = 2 * 2 ^ b
<1> DEFINE Right == 2 ^ b \in Nat \ {0} /\ 2 ^ (b + 1) = 2 * 2 ^ b
<1>1. CASE b = 0
  BY <1>1
<1>2. CASE b = 1
  BY <1>2
<1>3. CASE b = 2
  BY <1>3
<1>4. CASE b = 3
  BY <1>4
<1>5. CASE b = 4
  BY <1>5
<1>6. CASE b = 5
  BY <1>6
<1>7. CASE b = 6
  BY <1>7
<1>8. CASE b = 7
  BY <1>8
<1>9. CASE b = 8
  BY <1>9
<1>10. CASE b = 9
  BY <1>10
<1>11. CASE b = 10
  BY <1>11
<1>12. CASE b = 11
  BY <1>12
<1>13. CASE b = 12
  BY <1>13
<1>14. CASE b = 13
  BY <1>14
<1>15. CASE b = 14
  BY <1>15
<1>16. CASE b = 15
  BY <1>16
<1>17. CASE b = 16
  BY <1>17
<1>18. CASE b = 17
  BY <1>18
<1>19. CASE b = 18
  BY <1>19
<1>20. CASE b = 19
  BY <1>20
<1>21. CASE b = 20
  BY <1>21
<1>22. CASE b = 21
  BY <1>22
<1>23. CASE b = 22
  BY <1>23
<1>24. CASE b = 23
  BY <1>24
<1>25. CASE b = 24
  BY <1>25
<1>26. CASE b = 25
  BY <1>26
<1>27. CASE b = 26
  BY <1>27
<1>28. CASE b = 27
  BY <1>28
<1>29. CASE b = 28
  BY <1>29
<1>30. CASE b = 29
  BY <1>30
<1>31. CASE b = 30
  BY <1>31
<1>32. CASE b = 31
  BY <1>32
<1>33. CASE b = 32
  BY <1>33
<1> HIDE DEF Right
<1>34. \/ b = 0 \/ b = 1 \/ b = 2 \/ b = 3 \/ b = 4 \/ b = 5 \/ b = 6 \/ b = 7
       \/ b = 8 \/ b = 9 \/ b = 10 \/ b = 11 \/ b = 12 \/ b = 13 \/ b = 14 \/ b = 15
       \/ b = 16 \/ b = 17 \/ b = 18 \/ b = 19 \/ b = 20 \/ b = 21 \/ b = 22 \/ b = 23
       \/ b = 24 \/ b = 25 \/ b = 26 \/ b = 27 \/ b = 28 \/ b = 29 \/ b = 30 \/ b = 31
       \/ b = 32
  OBVIOUS
<1> QED
  BY <1>1, <1>2, <1>3, <1>4, <1>5, <1>6, <1>7, <1>8, <1>9, <1>10,
     <1>11, <1>12, <1>13, <1>14, <1>15, <1>16, <1>17, <1>18, <1>19, <1>20,
     <1>21, <1>22, <1>23, <1>24, <1>25, <1>26, <1>27, <1>28, <1>29, <1>30,
     <1>31, <1>32, <1>33, <1>34 DEF Right

(* The powers up to 1024 by name, and by how much one exceeds another.      *)
IsPower(e, b) ==
    <<e, b>> \in {<<0, 1>>, <<1, 2>>, <<2, 4>>, <<3, 8>>, <<4, 16>>, <<5, 32>>,
                 <<6, 64>>, <<7, 128>>, <<8, 256>>, <<9, 512>>, <<10, 1024>>}

LEMMA PowersOfTwo ==
    ASSUME NEW e \in 0 .. 10
    PROVE  IsPower(e, 2 ^ e)
<1>1. e = 0 => 2 ^ e = 1
  OBVIOUS
<1>2. e = 1 => 2 ^ e = 2
  OBVIOUS
<1>3. e = 2 => 2 ^ e = 4
  OBVIOUS
<1>4. e = 3 => 2 ^ e = 8
  OBVIOUS
<1>5. e = 4 => 2 ^ e = 16
  OBVIOUS
<1>6. e = 5 => 2 ^ e = 32
  OBVIOUS
<1>7. e = 6 => 2 ^ e = 64
  OBVIOUS
<1>8. e = 7 => 2 ^ e = 128
  OBVIOUS
<1>9. e = 8 => 2 ^ e = 256
  OBVIOUS
<1>10. e = 9 => 2 ^ e = 512
  OBVIOUS
<1>11. e = 10 => 2 ^ e = 1024
  OBVIOUS
<1> DEFINE b == 2 ^ e
<1> HIDE DEF b
<1> QED
  BY <1>1, <1>2, <1>3, <1>4, <1>5, <1>6, <1>7, <1>8, <1>9, <1>10, <1>11 DEF IsPower, b

LEMMA PowerDivides ==
    ASSUME NEW n \in 0 .. 10, NEW k \in 0 .. 10, k < n
    PROVE  LET half == 2 ^ n \div 2 ^ (k + 1) IN
           /\ half \in Nat \ {0}
           /\ 2 ^ n \div 2 ^ k = 2 * half
           /\ \E q \in Nat : 2 ^ n = q * (2 * half)
<1> DEFINE l == k + 1  c == 2 ^ n  p == 2 ^ k  b == 2 ^ l  half == c \div b
<1>1. k \in 0 .. 9 /\ l \in 1 .. 10 /\ l = k + 1 /\ l <= n
  OBVIOUS
<1> HIDE DEF l
<1>2. IsPower(n, c) /\ IsPower(k, p) /\ IsPower(l, b)
  <2>1. l \in 0 .. 10
    BY <1>1
  <2>2. IsPower(n, 2 ^ n) /\ IsPower(k, 2 ^ k) /\ IsPower(l, 2 ^ l)
    BY <2>1, PowersOfTwo, Zenon
  <2> QED
    BY <2>2, Zenon
<1> HIDE DEF c, p, b
<1>3. half \in Nat \ {0} /\ c \div p = 2 * half
  BY <1>1, <1>2 DEF IsPower
<1> DEFINE Q(q) == c = q * (2 * half)
<1>4. Q(1) \/ Q(2) \/ Q(4) \/ Q(8) \/ Q(16) \/ Q(32) \/ Q(64) \/ Q(128) \/ Q(256) \/ Q(512)
  BY <1>1, <1>2 DEF IsPower
<1>5. \E q \in Nat : Q(q)
  <2> HIDE DEF Q
  <2> QED
    BY <1>4
<1> QED
  BY <1>3, <1>5 DEF c, p, b, l

Digit(v, b) == (v \div 2 ^ b) % 2

LEMMA DigitIs ==
    ASSUME NEW v \in Nat, NEW b \in 0 .. 32
    PROVE  Digit(v, b) \in {0, 1} /\ Digit(v, b) * 2 ^ b \in Nat
<1> DEFINE p == 2 ^ b
<1>1. p \in Nat \ {0}
  BY Powers
<1> HIDE DEF p
<1>2. v \div p \in Nat
  BY <1>1
<1>3. Digit(v, b) \in {0, 1}
  BY <1>2 DEF Digit, p
<1>4. Digit(v, b) * p \in Nat
  BY <1>1, <1>3
<1> QED
  BY <1>3, <1>4 DEF p

(* One more binary digit of a number. *)
LEMMA NextDigit ==
    ASSUME NEW v \in Nat, NEW p \in Nat \ {0}
    PROVE  v % (2 * p) = ((v \div p) % 2) * p + (v % p)
<1> DEFINE q == v \div p
           r == v % p
           h == q \div 2
           d == q % 2
<1>1. q \in Nat /\ r \in 0 .. p - 1 /\ v = q * p + r
  BY DivMod
<1>2. h \in Nat /\ d \in 0 .. 1 /\ q = h * 2 + d
  <2> HIDE DEF q
  <2> QED
    BY <1>1
<1> HIDE DEF q, r, h, d
<1>3. d * p + r \in 0 .. 2 * p - 1 /\ 2 * p \in Nat \ {0}
  <2>1. d = 0 \/ d = 1
    BY <1>2
  <2> QED
    BY <1>1, <2>1
<1>4. v = h * (2 * p) + (d * p + r)
  <2>1. q * p = h * (2 * p) + d * p
    BY <1>2
  <2> QED
    BY <1>1, <1>2, <2>1
<1> DEFINE b == 2 * p
           s == d * p + r
<1>5. (h * b + s) % b = s
  <2>1. h \in Nat /\ b \in Nat \ {0} /\ s \in 0 .. b - 1
    BY <1>2, <1>3
  <2> HIDE DEF b, s
  <2> QED
    BY <2>1, DivModUnique
<1> QED
  BY <1>4, <1>5 DEF q, r, d

LEMMA TotalRange ==
    ASSUME NEW m \in Nat, NEW G, \A b \in 0 .. m : G[b] \in Int
    PROVE  Total(G, 0 .. m) = G[m] + Total(G, 0 .. m - 1)
<1>1. IsFiniteSet(0 .. m - 1) /\ m \notin 0 .. m - 1 /\ (0 .. m - 1) \cup {m} = 0 .. m
  BY FromZero
<1>2. \A b \in (0 .. m - 1) \cup {m} : G[b] \in Int
  BY <1>1
<1> QED
  BY <1>1, <1>2, TotalAdds

(* The weights of the lowest m digits of a number. *)
Weights(v, m) == [b \in 0 .. m - 1 |-> Digit(v, b) * 2 ^ b]

(* A number is the sum of its binary digits. *)
LEMMA BinaryIs ==
    ASSUME NEW v \in Nat, NEW m \in 0 .. 32
    PROVE  Total(Weights(v, m), 0 .. m - 1) = v % 2 ^ m
<1> DEFINE G == Weights(v, m)
           Done == {n \in Nat : n <= m => Total(G, 0 .. n - 1) = v % 2 ^ n}
<1>1. ASSUME NEW b \in 0 .. m - 1 PROVE G[b] = Digit(v, b) * 2 ^ b /\ G[b] \in Int
  <2>1. b \in 0 .. 32
    OBVIOUS
  <2>2. Digit(v, b) * 2 ^ b \in Nat
    BY <2>1, DigitIs, Zenon
  <2>3. G[b] = Digit(v, b) * 2 ^ b
    BY Zenon DEF Weights
  <2> QED
    BY <2>2, <2>3
<1> HIDE DEF G
<1>2. 0 \in Done
  <2>1. 0 .. 0 - 1 = {} /\ v % 1 = 0 /\ 2 ^ 0 = 1
    OBVIOUS
  <2>2. Total(G, {}) = 0
    BY TotalOfNone
  <2>3. Total(G, 0 .. 0 - 1) = v % 2 ^ 0
    BY <2>1, <2>2, Zenon
  <2> QED
    BY <2>3
<1>3. ASSUME NEW n \in Nat, n \in Done PROVE n + 1 \in Done
  <2> SUFFICES ASSUME n + 1 <= m PROVE Total(G, 0 .. (n + 1) - 1) = v % 2 ^ (n + 1)
    OBVIOUS
  <2> DEFINE p == 2 ^ n
  <2>1. p \in Nat \ {0} /\ 2 ^ (n + 1) = 2 * p
    <3>1. n \in 0 .. 32
      OBVIOUS
    <3> QED
      BY <3>1, Powers, Zenon
  <2>2. Total(G, 0 .. n) = G[n] + Total(G, 0 .. n - 1)
    BY <1>1, TotalRange
  <2>3. Total(G, 0 .. n - 1) = v % p
    BY <1>3
  <2>4. G[n] = ((v \div p) % 2) * p
    BY <1>1 DEF Digit
  <2> HIDE DEF p
  <2>5. v % (2 * p) = ((v \div p) % 2) * p + (v % p)
    BY <2>1, NextDigit
  <2>6. (n + 1) - 1 = n
    OBVIOUS
  <2> QED
    BY <2>1, <2>2, <2>3, <2>4, <2>5, <2>6
<1> HIDE DEF Done
<1>4. m \in Done
  BY <1>2, <1>3, NatSetInduction
<1> QED
  BY <1>4 DEF Done, G

(* The digits of a byte are the bits it was summed from. *)
LEMMA ByteDigits ==
    ASSUME NEW d \in [0 .. 7 -> {0, 1}]
    PROVE  LET x == Total([b \in 0 .. 7 |-> d[b] * 2 ^ b], 0 .. 7)
           IN  x \in 0 .. 255 /\ \A c \in 0 .. 7 : Digit(x, c) = d[c]
<1> DEFINE G == [b \in 0 .. 7 |-> d[b] * 2 ^ b]
           x == Total(G, 0 .. 7)
<1>1. /\ G[0] = d[0] /\ G[1] = d[1] * 2 /\ G[2] = d[2] * 4 /\ G[3] = d[3] * 8
      /\ G[4] = d[4] * 16 /\ G[5] = d[5] * 32 /\ G[6] = d[6] * 64 /\ G[7] = d[7] * 128
  OBVIOUS
<1>2. \A b \in 0 .. 7 : d[b] \in {0, 1}
  OBVIOUS
<1>3. \A b \in 0 .. 7 : G[b] \in Int
  <2> HIDE DEF G
  <2> SUFFICES ASSUME NEW b \in 0 .. 7 PROVE G[b] \in Int
    OBVIOUS
  <2>1. b = 0 \/ b = 1 \/ b = 2 \/ b = 3 \/ b = 4 \/ b = 5 \/ b = 6 \/ b = 7
    OBVIOUS
  <2> QED
    BY <1>1, <1>2, <2>1
<1> HIDE DEF G
<1>4. ASSUME NEW m \in 1 .. 7 PROVE Total(G, 0 .. m) = G[m] + Total(G, 0 .. m - 1)
  <2>1. m \in Nat /\ \A b \in 0 .. m : G[b] \in Int
    BY <1>3
  <2> QED
    BY <2>1, TotalRange
<1>5. Total(G, 0 .. 0) = G[0]
  <2>1. Total(G, 0 .. 0) = G[0] + Total(G, 0 .. 0 - 1)
    <3> DEFINE z == 0
    <3>1. z \in Nat /\ \A b \in 0 .. z : G[b] \in Int
      BY <1>3
    <3> HIDE DEF z
    <3>2. Total(G, 0 .. z) = G[z] + Total(G, 0 .. z - 1)
      BY <3>1, TotalRange
    <3> QED
      BY <3>2 DEF z
  <2>2. 0 .. 0 - 1 = {} /\ G[0] \in Int
    BY <1>3
  <2>3. Total(G, {}) = 0
    BY TotalOfNone
  <2> QED
    BY <2>1, <2>2, <2>3
<1>6. x = d[0] + d[1] * 2 + d[2] * 4 + d[3] * 8 + d[4] * 16 + d[5] * 32 + d[6] * 64 + d[7] * 128
  <2>1. /\ Total(G, 0 .. 1) = G[1] + Total(G, 0 .. 0)
        /\ Total(G, 0 .. 2) = G[2] + Total(G, 0 .. 1)
        /\ Total(G, 0 .. 3) = G[3] + Total(G, 0 .. 2)
        /\ Total(G, 0 .. 4) = G[4] + Total(G, 0 .. 3)
        /\ Total(G, 0 .. 5) = G[5] + Total(G, 0 .. 4)
        /\ Total(G, 0 .. 6) = G[6] + Total(G, 0 .. 5)
        /\ Total(G, 0 .. 7) = G[7] + Total(G, 0 .. 6)
    BY <1>4
  <2> QED
    BY <1>1, <1>2, <1>5, <2>1
<1> HIDE DEF x
<1>7. x \in 0 .. 255
  BY <1>2, <1>6
<1>8. ASSUME NEW c \in 0 .. 7 PROVE Digit(x, c) = d[c]
  <2>1. CASE c = 0
    BY <1>2, <1>6, <2>1 DEF Digit
  <2>2. CASE c = 1
    BY <1>2, <1>6, <2>2 DEF Digit
  <2>3. CASE c = 2
    BY <1>2, <1>6, <2>3 DEF Digit
  <2>4. CASE c = 3
    BY <1>2, <1>6, <2>4 DEF Digit
  <2>5. CASE c = 4
    BY <1>2, <1>6, <2>5 DEF Digit
  <2>6. CASE c = 5
    BY <1>2, <1>6, <2>6 DEF Digit
  <2>7. CASE c = 6
    BY <1>2, <1>6, <2>7 DEF Digit
  <2>8. CASE c = 7
    BY <1>2, <1>6, <2>8 DEF Digit
  <2>9. c = 0 \/ c = 1 \/ c = 2 \/ c = 3 \/ c = 4 \/ c = 5 \/ c = 6 \/ c = 7
    OBVIOUS
  <2> QED
    BY <2>1, <2>2, <2>3, <2>4, <2>5, <2>6, <2>7, <2>8, <2>9
<1> QED
  BY <1>7, <1>8 DEF x, G

(* Bit k of packed values: a digit of the value it falls into, or padding. *)
PackedDigit(values, bits, k) ==
    IF k < Len(values) * bits THEN Digit(values[(k \div bits) + 1], k % bits) ELSE 0

LEMMA PackedDigitIs ==
    ASSUME NEW bits \in 1 .. 32, NEW values \in Seq(Nat), NEW k \in Nat
    PROVE  PackedDigit(values, bits, k) \in {0, 1}
<1>1. CASE k < Len(values) * bits
  <2>1. k % bits \in 0 .. 32 /\ k \div bits \in Nat
    <3> HIDE DEF PackedDigit
    <3>2. bits \in Nat \ {0}
      OBVIOUS
    <3>1. k \div bits \in Nat /\ k % bits \in 0 .. bits - 1
      BY <3>2, DivMod
    <3> QED
      BY <3>1
  <2>2. k \div bits < Len(values)
    BY <1>1, DivLess
  <2>3. values[(k \div bits) + 1] \in Nat
    BY <2>1, <2>2
  <2>4. Digit(values[(k \div bits) + 1], k % bits) \in {0, 1}
    BY <2>1, <2>3, DigitIs
  <2> QED
    BY <1>1, <2>4 DEF PackedDigit
<1>2. CASE ~(k < Len(values) * bits)
  BY <1>2 DEF PackedDigit
<1> QED
  BY <1>1, <1>2

ByteWeights(values, bits, j) == [b \in 0 .. 7 |-> PackedDigit(values, bits, 8 * j + b) * 2 ^ b]

LEMMA PackedByteIs ==
    ASSUME NEW bits \in 1 .. 32, NEW values \in Seq(Nat),
           NEW j \in 1 .. Ceil8(Len(values) * bits)
    PROVE  PackIndices(values, bits)[j] = Total(ByteWeights(values, bits, j - 1), 0 .. 7)
<1> DEFINE S == 0 .. 7
           i == j - 1
           used == Len(values) * bits
           part(b) == IF 8 * i + b < used
                      THEN ((values[((8 * i + b) \div bits) + 1] \div 2 ^ ((8 * i + b) % bits)) % 2)
                              * 2 ^ b
                      ELSE 0
           G == ByteWeights(values, bits, i)
           Solves(f) == f = [s \in SUBSET S |->
                IF s = {} THEN 0 ELSE part(Picked(s)) + f[s \ {Picked(s)}]]
           iter == CHOOSE f : Solves(f)
<1>1. j \in Nat \ {0} /\ i \in Nat
  BY DEF Ceil8
<1>2. IsFiniteSet(S) /\ \A b \in S : G[b] = part(b) /\ G[b] \in Int
  <2>1. IsFiniteSet(S)
    <3>1. ASSUME NEW n \in Nat PROVE IsFiniteSet(0 .. n)
      BY FS_Interval
    <3> QED
      BY <3>1
  <2>2. ASSUME NEW b \in S PROVE G[b] = part(b) /\ G[b] \in Int
    <3>1. 2 ^ b \in Nat
      <4>1. b \in 0 .. 32
        OBVIOUS
      <4>2. 2 ^ b \in Nat \ {0}
        BY <4>1, Powers, Zenon
      <4> QED
        BY <4>2
    <3> DEFINE p == 2 ^ b
               d == PackedDigit(values, bits, 8 * i + b)
    <3>2. G[b] = d * p
      BY DEF ByteWeights
    <3>3. d \in {0, 1}
      <4>1. 8 * i + b \in Nat
        BY <1>1
      <4> HIDE DEF i
      <4> QED
        BY <4>1, PackedDigitIs
    <3>4. part(b) = IF 8 * i + b < used THEN d * p ELSE 0
      <4>1. 8 * i + b < used => d = (values[((8 * i + b) \div bits) + 1] \div 2 ^ ((8 * i + b) % bits)) % 2
        BY Zenon DEF PackedDigit, Digit
      <4> HIDE DEF d, used, i
      <4> QED
        BY <4>1, Zenon
    <3>5. ~(8 * i + b < used) => d = 0
      BY DEF PackedDigit
    <3>6. p \in Nat
      BY <3>1
    <3> HIDE DEF p, d, G, part, used
    <3> QED
      BY <3>2, <3>3, <3>4, <3>5, <3>6
  <2> QED
    BY <2>1, <2>2
<1>3. PackIndices(values, bits)[j] = iter[S]
  BY DEF PackIndices, Byte, MapThenSumSet, MapThenFoldSet, Picked
<1> HIDE DEF part, G, S
<1>4. \E f : Solves(f)
  <2> DEFINE H == [b \in S |-> G[b]]
  <2>1. H \in [S -> Int]
    BY <1>2
  <2>2. PICK f \in [SUBSET S -> Int] : SumsAll(f, S, H)
    BY <1>2, <2>1, SumsExist
  <2>3. \A s \in SUBSET S : s # {} => H[Picked(s)] = part(Picked(s))
    BY <1>2 DEF Picked
  <2> HIDE DEF H
  <2> QED
    BY <2>2, <2>3 DEF Sums, SumsAll
<1>5. Solves(iter)
  BY <1>4
<1> HIDE DEF iter
<1>6. SumsAll(iter, S, G)
  <2>1. \A s \in SUBSET S : s # {} => G[Picked(s)] = part(Picked(s))
    BY <1>2 DEF Picked
  <2> QED
    BY <1>5, <2>1 DEF Sums, SumsAll
<1>7. iter[S] = Total(G, S)
  BY <1>2, <1>6, TotalIs
<1> QED
  BY <1>3, <1>7 DEF G, S

(* What is packed is bytes. *)
LEMMA BytesAre ==
    ASSUME NEW bits \in 1 .. 32, NEW values \in Seq(Nat),
           NEW j \in 1 .. Ceil8(Len(values) * bits)
    PROVE  PackIndices(values, bits)[j] \in 0 .. 255
<1> DEFINE q == j - 1
           d == [b \in 0 .. 7 |-> PackedDigit(values, bits, 8 * q + b)]
<1>1. q \in Nat
  <2>1. j \in Nat \ {0}
    BY DEF Ceil8
  <2> QED
    BY <2>1
<1> HIDE DEF q
<1>2. d \in [0 .. 7 -> {0, 1}]
  <2> SUFFICES ASSUME NEW b \in 0 .. 7 PROVE PackedDigit(values, bits, 8 * q + b) \in {0, 1}
    OBVIOUS
  <2>1. 8 * q + b \in Nat
    BY <1>1
  <2> QED
    BY <2>1, PackedDigitIs
<1>3. ByteWeights(values, bits, q) = [b \in 0 .. 7 |-> d[b] * 2 ^ b]
  BY Zenon DEF ByteWeights
<1> HIDE DEF d
<1>4. Total([b \in 0 .. 7 |-> d[b] * 2 ^ b], 0 .. 7) \in 0 .. 255
  BY <1>2, ByteDigits
<1>5. PackIndices(values, bits)[j] = Total(ByteWeights(values, bits, q), 0 .. 7)
  BY PackedByteIs DEF q
<1> QED
  BY <1>3, <1>4, <1>5, Zenon

(* Every bit of the bytes is where it was put, and those after the last    *)
(* value are 0.                                                            *)
LEMMA PackedBitIs ==
    ASSUME NEW bits \in 1 .. 32, NEW values \in Seq(Nat),
           NEW k \in Nat, k < 8 * Ceil8(Len(values) * bits)
    PROVE  BitOf(PackIndices(values, bits), k) = PackedDigit(values, bits, k)
<1> DEFINE q == k \div 8
           c == k % 8
           d == [b \in 0 .. 7 |-> PackedDigit(values, bits, 8 * q + b)]
           bytes == PackIndices(values, bits)
<1>1. q \in Nat /\ c \in 0 .. 7 /\ k = 8 * q + c
  OBVIOUS
<1>2. q + 1 \in 1 .. Ceil8(Len(values) * bits)
  <2> DEFINE n == Ceil8(Len(values) * bits)
  <2>1. n \in Nat
    BY DEF Ceil8
  <2> HIDE DEF n
  <2> QED
    BY <2>1 DEF n
<1> HIDE DEF q, c
<1>3. bytes[q + 1] = Total(ByteWeights(values, bits, q), 0 .. 7)
  <2>1. (q + 1) - 1 = q
    BY <1>1
  <2> QED
    BY <1>2, <2>1, PackedByteIs
<1>4. d \in [0 .. 7 -> {0, 1}]
  <2> SUFFICES ASSUME NEW b \in 0 .. 7 PROVE PackedDigit(values, bits, 8 * q + b) \in {0, 1}
    OBVIOUS
  <2>1. 8 * q + b \in Nat
    BY <1>1
  <2> QED
    BY <2>1, PackedDigitIs
<1>5. ByteWeights(values, bits, q) = [b \in 0 .. 7 |-> d[b] * 2 ^ b]
  BY Zenon DEF ByteWeights
<1>6. d[c] = PackedDigit(values, bits, k)
  BY <1>1
<1> HIDE DEF d, bytes
<1>7. Digit(Total([b \in 0 .. 7 |-> d[b] * 2 ^ b], 0 .. 7), c) = d[c]
  BY <1>1, <1>4, ByteDigits
<1>8. BitOf(bytes, k) = Digit(bytes[q + 1], c)
  BY DEF BitOf, Digit, q, c
<1> QED
  BY <1>3, <1>5, <1>6, <1>7, <1>8 DEF bytes

LEMMA PackedLength ==
    ASSUME NEW bits \in 1 .. 32, NEW values \in Seq(Nat)
    PROVE  LET used == Len(values) * bits
               bytes == PackIndices(values, bits)
           IN  /\ used \in Nat /\ Ceil8(used) \in Nat /\ used <= 8 * Ceil8(used)
               /\ Len(bytes) = Ceil8(used) /\ DOMAIN bytes = 1 .. Ceil8(used)
<1> DEFINE used == Len(values) * bits
           n == Ceil8(used)
           bytes == PackIndices(values, bits)
<1>1. used \in Nat
  OBVIOUS
<1> HIDE DEF used
<1>2. n \in Nat /\ used <= 8 * n
  BY <1>1 DEF Ceil8
<1>3. DOMAIN bytes = 1 .. n
  BY DEF PackIndices, used
<1> HIDE DEF n, bytes
<1>4. Len(bytes) = n
  <2>1. bytes = [j \in 1 .. n |-> bytes[j]]
    BY DEF bytes, PackIndices, n, used
  <2> QED
    BY <1>2, <2>1
<1> QED
  BY <1>1, <1>2, <1>3, <1>4 DEF used, n, bytes

(* The padding of packed values is zero. *)
LEMMA PackedPadding ==
    ASSUME NEW bits \in 1 .. 32, NEW values \in Seq(Nat)
    PROVE  PaddingZero(PackIndices(values, bits), Len(values) * bits)
<1> DEFINE used == Len(values) * bits
           bytes == PackIndices(values, bits)
           n == Ceil8(used)
<1>1. used \in Nat /\ n \in Nat /\ Len(bytes) = n
  BY PackedLength
<1> HIDE DEF bytes, n
<1> SUFFICES ASSUME NEW k \in used .. 8 * n - 1 PROVE BitOf(bytes, k) = 0
  BY <1>1 DEF PaddingZero, bytes
<1>2. k \in Nat /\ k < 8 * n /\ ~(k < used)
  <2> HIDE DEF used
  <2> QED
    BY <1>1
<1>3. BitOf(bytes, k) = PackedDigit(values, bits, k)
  BY <1>2, PackedBitIs DEF bytes, n
<1> QED
  BY <1>2, <1>3 DEF PackedDigit

(* A value that is cut off at its bits unpacks to itself. *)
LEMMA UnpackedIs ==
    ASSUME NEW bits \in 1 .. 32, NEW values \in Seq(Nat),
           NEW i \in 1 .. Len(values)
    PROVE  UnpackIndices(PackIndices(values, bits), Len(values), bits)[i]
               = values[i] % 2 ^ bits
<1> DEFINE S == 0 .. bits - 1
           v == values[i]
           bytes == PackIndices(values, bits)
           part(b) == BitOf(bytes, (i - 1) * bits + b) * 2 ^ b
           G == Weights(v, bits)
           Solves(f) == f = [s \in SUBSET S |->
                IF s = {} THEN 0 ELSE part(Picked(s)) + f[s \ {Picked(s)}]]
           iter == CHOOSE f : Solves(f)
<1>1. v \in Nat /\ bits \in 0 .. 32 /\ bits \in Nat \ {0}
  OBVIOUS
<1>2. IsFiniteSet(S) /\ \A b \in S : G[b] = part(b) /\ G[b] \in Int
  <2>1. IsFiniteSet(S)
    BY <1>1, FromZero
  <2>2. ASSUME NEW b \in S PROVE G[b] = part(b) /\ G[b] \in Int
    <3> DEFINE q == i - 1
               k == q * bits + b
               n == Len(values)
    <3>0. q \in Nat /\ q + 1 = i /\ q < n /\ n \in Nat /\ b \in 0 .. bits - 1 /\ b \in 0 .. 32
      OBVIOUS
    <3>1. k \div bits = q /\ k % bits = b
      <4> HIDE DEF q
      <4> QED
        BY <1>1, <3>0, DivModUnique
    <3>2. k \in Nat /\ k < n * bits
      <4> HIDE DEF q, n
      <4>1. q * bits + bits <= n * bits /\ q * bits \in Nat /\ n * bits \in Nat
        BY <1>1, <3>0, MulLess
      <4> QED
        BY <1>1, <3>0, <4>1
    <3>3. k < 8 * Ceil8(n * bits)
      <4>1. n * bits \in Nat /\ Ceil8(n * bits) \in Nat /\ n * bits <= 8 * Ceil8(n * bits)
        BY PackedLength
      <4> HIDE DEF k, n
      <4> QED
        BY <3>2, <4>1
    <3> HIDE DEF k, q
    <3>4. BitOf(bytes, k) = PackedDigit(values, bits, k)
      BY <3>2, <3>3, PackedBitIs
    <3>5. PackedDigit(values, bits, k) = Digit(v, b)
      BY <3>0, <3>1, <3>2 DEF PackedDigit
    <3>6. G[b] = Digit(v, b) * 2 ^ b
      BY Zenon DEF Weights
    <3>7. Digit(v, b) * 2 ^ b \in Nat
      BY <1>1, <3>0, DigitIs, Zenon
    <3>8. part(b) = Digit(v, b) * 2 ^ b
      BY <3>4, <3>5, Zenon DEF k, q
    <3> HIDE DEF G, part
    <3> QED
      BY <3>6, <3>7, <3>8
  <2> QED
    BY <2>1, <2>2
<1>3. UnpackIndices(bytes, Len(values), bits)[i] = iter[S]
  BY DEF UnpackIndices, MapThenSumSet, MapThenFoldSet, Picked
<1> HIDE DEF part, G, S
<1>4. \E f : Solves(f)
  <2> DEFINE H == [b \in S |-> G[b]]
  <2>1. H \in [S -> Int]
    BY <1>2
  <2>2. PICK f \in [SUBSET S -> Int] : SumsAll(f, S, H)
    BY <1>2, <2>1, SumsExist
  <2>3. \A s \in SUBSET S : s # {} => H[Picked(s)] = part(Picked(s))
    BY <1>2 DEF Picked
  <2> HIDE DEF H
  <2> QED
    BY <2>2, <2>3 DEF Sums, SumsAll
<1>5. Solves(iter)
  BY <1>4
<1> HIDE DEF iter
<1>6. SumsAll(iter, S, G)
  <2>1. \A s \in SUBSET S : s # {} => G[Picked(s)] = part(Picked(s))
    BY <1>2 DEF Picked
  <2> QED
    BY <1>5, <2>1 DEF Sums, SumsAll
<1>7. iter[S] = Total(G, S)
  BY <1>2, <1>6, TotalIs
<1>8. Total(G, S) = v % 2 ^ bits
  BY <1>1, BinaryIs, Zenon DEF G, S
<1> QED
  BY <1>3, <1>7, <1>8

(* What fits its bits is unpacked as it was packed. *)
LEMMA UnpackedSame ==
    ASSUME NEW bits \in 1 .. 32, NEW values \in Seq(Nat),
           \A i \in 1 .. Len(values) : values[i] < 2 ^ bits
    PROVE  UnpackIndices(PackIndices(values, bits), Len(values), bits) = values
<1> DEFINE n == Len(values)
           p == 2 ^ bits
           u == UnpackIndices(PackIndices(values, bits), n, bits)
<1>1. p \in Nat \ {0}
  <2>1. bits \in 0 .. 32
    OBVIOUS
  <2> QED
    BY <2>1, Powers, Zenon
<1>2. ASSUME NEW i \in 1 .. n PROVE u[i] = values[i]
  <2>1. u[i] = values[i] % p
    BY UnpackedIs
  <2> DEFINE a == values[i]
  <2>2. a \in Nat /\ a < p
    OBVIOUS
  <2> HIDE DEF p, a
  <2>3. a % p = a
    BY <1>1, <2>2
  <2> QED
    BY <2>1, <2>3 DEF a
<1>3. u = [i \in 1 .. n |-> u[i]]
  BY DEF UnpackIndices
<1>4. values = [i \in 1 .. n |-> values[i]]
  OBVIOUS
<1> HIDE DEF u, n
<1> QED
  BY <1>2, <1>3, <1>4 DEF u, n

(***************************************************************************)
(* Parts of sequences.                                                     *)
(***************************************************************************)
(* What lies between two positions of a sequence. *)
LEMMA SliceIs ==
    ASSUME NEW S, NEW s \in Seq(S), NEW t \in Seq(S), NEW a \in Nat, NEW n \in Nat,
           Len(t) = n, a + n <= Len(s), \A j \in 1 .. n : s[a + j] = t[j]
    PROVE  SubSeq(s, a + 1, a + n) = t
<1> DEFINE m == Len(s)  u == SubSeq(s, a + 1, a + n)
<1>1. m \in Nat /\ a + n <= m /\ \A i \in 1 .. m : s[i] \in S
  OBVIOUS
<1> HIDE DEF m
<1>2. \A i \in a + 1 .. a + n : s[i] \in S
  BY <1>1
<1>3. a + 1 \in Int /\ a + n \in Int
  OBVIOUS
<1>4. /\ u \in Seq(S)
      /\ Len(u) = IF a + 1 <= a + n THEN (a + n) - (a + 1) + 1 ELSE 0
      /\ \A i \in 1 .. (a + n) - (a + 1) + 1 : u[i] = s[(a + 1) + i - 1]
  BY <1>2, <1>3, SubSeqProperties
<1> HIDE DEF u
<1>5. Len(u) = n /\ (a + n) - (a + 1) + 1 = n
  BY <1>4
<1>6. \A i \in 1 .. n : u[i] = t[i]
  <2> SUFFICES ASSUME NEW i \in 1 .. n PROVE u[i] = t[i]
    OBVIOUS
  <2>1. (a + 1) + i - 1 = a + i
    OBVIOUS
  <2> QED
    BY <1>4, <1>5, <2>1
<1> QED
  BY <1>4, <1>5, <1>6 DEF u

(* Where the members of two parts stand. *)
LEMMA ConcatIs ==
    ASSUME NEW S, NEW a \in Seq(S), NEW b \in Seq(S)
    PROVE  /\ a \o b \in Seq(S) /\ Len(a \o b) = Len(a) + Len(b)
           /\ \A i \in 1 .. Len(a) : (a \o b)[i] = a[i]
           /\ \A i \in 1 .. Len(b) : (a \o b)[Len(a) + i] = b[i]
  OBVIOUS

(* Parts of one length stand in a concatenation at their multiples. *)
LEMMA FlattenPlaces ==
    ASSUME NEW S, NEW ss \in Seq(Seq(S)), NEW k \in Nat, \A i \in DOMAIN ss : Len(ss[i]) = k
    PROVE  LET all == FlattenSeq(ss) IN
           /\ all \in Seq(S) /\ Len(all) = Len(ss) * k
           /\ \A u \in 0 .. Len(ss) - 1, j \in 1 .. k : all[u * k + j] = ss[u + 1][j]
<1> DEFINE n == Len(ss)
           all == FlattenSeq(ss)
<1>1. n \in Nat /\ DOMAIN ss = 1 .. n /\ \A i \in 1 .. n : ss[i] \in Seq(S) /\ Len(ss[i]) = k
  OBVIOUS
<1>2. CASE n = 0
  <2>1. all = ss
    BY <1>2 DEF FlattenSeq
  <2> QED
    BY <1>2, <2>1
<1>3. CASE n # 0
  <2>1. PICK f \in [1 .. n -> Seq(S)] : Flattens(f, ss) /\ all = f[n]
    BY <1>3, FlattenIs
  <2>2. \A i \in 1 .. n : f[i] = IF i = 1 THEN ss[i] ELSE f[i - 1] \o ss[i]
    BY <2>1 DEF Flattens
  <2> HIDE DEF all, n
  <2> DEFINE Right(m) == /\ Len(f[m]) = m * k
                         /\ \A u \in 0 .. m - 1, j \in 1 .. k : f[m][u * k + j] = ss[u + 1][j]
             Done == {m \in Nat : m \in 1 .. n => Right(m)}
  <2>3. 0 \in Done
    OBVIOUS
  <2>4. ASSUME NEW m \in Nat, m \in Done PROVE m + 1 \in Done
    <3> SUFFICES ASSUME m + 1 \in 1 .. n PROVE Right(m + 1)
      <4> HIDE DEF Right
      <4> QED
        OBVIOUS
    <3>1. CASE m = 0
      <4>1. f[1] = ss[1] /\ Len(ss[1]) = k
        BY <1>1, <1>3, <2>2
      <4>2. \A u \in 0 .. 0, j \in 1 .. k : u = 0 /\ u * k + j = j /\ u + 1 = 1
        OBVIOUS
      <4>3. 1 * k = k /\ (0 + 1) - 1 = 0
        OBVIOUS
      <4> QED
        BY <3>1, <4>1, <4>2, <4>3
    <3>2. CASE m # 0
      <4> DEFINE a == f[m]  b == ss[m + 1]
      <4>1. m \in 1 .. n /\ m + 1 # 1 /\ (m + 1) - 1 = m
        BY <1>1, <3>2
      <4>2. f[m + 1] = a \o b /\ a \in Seq(S) /\ b \in Seq(S) /\ Len(b) = k
        BY <1>1, <2>1, <2>2, <4>1
      <4>3. /\ Len(a) = m * k
            /\ \A u \in 0 .. m - 1, j \in 1 .. k : a[u * k + j] = ss[u + 1][j]
        BY <2>4, <4>1
      <4>4. b = ss[m + 1]
        OBVIOUS
      <4> DEFINE l == m * k
      <4>5. l \in Nat /\ (m + 1) * k = l + k
        OBVIOUS
      <4>6. \A u \in 0 .. m - 1, j \in 1 .. k : u * k + j \in 1 .. l
        <5> SUFFICES ASSUME NEW u \in 0 .. m - 1, NEW j \in 1 .. k PROVE u * k + j \in 1 .. l
          OBVIOUS
        <5>1. u \in Nat /\ u < m
          OBVIOUS
        <5>2. u * k + k <= m * k /\ u * k \in Nat
          BY <5>1, MulLess
        <5> DEFINE v == u * k
        <5>3. v + k <= l /\ v \in Nat
          BY <5>2
        <5> HIDE DEF v, l
        <5>4. v + j \in 1 .. l
          BY <4>5, <5>3
        <5> QED
          BY <5>4 DEF v
      <4> HIDE DEF a, b, l
      <4>7. /\ Len(a \o b) = l + k
            /\ \A i \in 1 .. l : (a \o b)[i] = a[i]
            /\ \A i \in 1 .. k : (a \o b)[l + i] = b[i]
        <5>1. Len(a) = l
          BY <4>3 DEF l
        <5>2. a \in Seq(S) /\ b \in Seq(S) /\ Len(b) = k
          BY <4>2
        <5>3. /\ Len(a \o b) = Len(a) + Len(b)
              /\ \A i \in 1 .. Len(a) : (a \o b)[i] = a[i]
              /\ \A i \in 1 .. Len(b) : (a \o b)[Len(a) + i] = b[i]
          <6>1. Len(a \o b) = Len(a) + Len(b)
            BY <5>2, ConcatIs
          <6>2. \A i \in 1 .. Len(a) : (a \o b)[i] = a[i]
            BY <5>2, ConcatIs
          <6>3. \A i \in 1 .. Len(b) : (a \o b)[Len(a) + i] = b[i]
            BY <5>2, ConcatIs
          <6> QED
            BY <6>1, <6>2, <6>3
        <5> QED
          BY <5>1, <5>2, <5>3
      <4>8. ASSUME NEW u \in 0 .. m, NEW j \in 1 .. k
            PROVE  (a \o b)[u * k + j] = ss[u + 1][j]
        <5>1. CASE u = m
          BY <4>4, <4>7, <5>1 DEF l
        <5>2. CASE u # m
          <6>1. u \in 0 .. m - 1
            BY <5>2
          <6> QED
            BY <4>3, <4>6, <4>7, <6>1
        <5> QED
          BY <5>1, <5>2
      <4>9. (m + 1) - 1 = m
        OBVIOUS
      <4>10. \A u \in 0 .. (m + 1) - 1, j \in 1 .. k : f[m + 1][u * k + j] = ss[u + 1][j]
        BY <4>2, <4>8, <4>9
      <4>11. Len(f[m + 1]) = (m + 1) * k
        BY <4>2, <4>5, <4>7
      <4> QED
        BY <4>10, <4>11
    <3> QED
      BY <3>1, <3>2
  <2> HIDE DEF Done
  <2>5. n \in Done
    BY <1>1, <2>3, <2>4, NatSetInduction
  <2>6. n \in 1 .. n
    BY <1>1, <1>3
  <2>7. Right(n) /\ f[n] \in Seq(S)
    BY <2>5, <2>6 DEF Done
  <2> QED
    BY <2>1, <2>7 DEF n, all
<1> QED
  BY <1>2, <1>3

(* One of the parts is cut out again. *)
LEMMA FlattenSlice ==
    ASSUME NEW S, NEW ss \in Seq(Seq(S)), NEW k \in Nat, \A i \in DOMAIN ss : Len(ss[i]) = k,
           NEW u \in 0 .. Len(ss) - 1
    PROVE  SubSeq(FlattenSeq(ss), u * k + 1, u * k + k) = ss[u + 1]
<1> DEFINE n == Len(ss)  all == FlattenSeq(ss)  t == ss[u + 1]  v == u * k
<1>1. n \in Nat /\ u \in Nat /\ u < n /\ u + 1 \in DOMAIN ss /\ t \in Seq(S) /\ Len(t) = k
  OBVIOUS
<1>2. /\ all \in Seq(S) /\ Len(all) = n * k
      /\ \A j \in 1 .. k : all[v + j] = t[j]
  BY FlattenPlaces
<1>3. v + k <= n * k /\ v \in Nat
  <2> HIDE DEF n
  <2> QED
    BY <1>1, MulLess
<1> HIDE DEF n, all, t, v
<1>4. SubSeq(all, v + 1, v + k) = t
  BY <1>1, <1>2, <1>3, SliceIs
<1> QED
  BY <1>4 DEF all, t, v

(* What is defined on the positions up to n has n of them. *)
LEMMA LengthIs ==
    ASSUME NEW n \in Nat, NEW f, DOMAIN f = 1 .. n
    PROVE  Len(f) = n
  OBVIOUS

(* A sequence that agrees with a longer one is a prefix of it. *)
LEMMA PrefixIs ==
    ASSUME NEW S, NEW s \in Seq(S), NEW t \in Seq(S), Len(s) <= Len(t),
           \A i \in 1 .. Len(s) : s[i] = t[i]
    PROVE  IsPrefix(s, t)
<1> DEFINE n == Len(s)  m == Len(t)  z == 0
<1>1. n \in Nat /\ m \in Nat /\ n <= m
  OBVIOUS
<1>2. z \in Nat /\ z + 1 = 1 /\ z + n = n /\ z + n <= m /\ \A j \in 1 .. n : z + j = j
  BY <1>1
<1> HIDE DEF z
<1>3. SubSeq(s, z + 1, z + n) = s
  <2>1. Len(s) = n /\ z + n <= Len(s) /\ \A j \in 1 .. n : s[z + j] = s[j]
    BY <1>1, <1>2
  <2> HIDE DEF n
  <2> QED
    BY <1>1, <1>2, <2>1, SliceIs
<1>4. SubSeq(t, z + 1, z + n) = s
  <2>1. Len(s) = n /\ z + n <= Len(t) /\ \A j \in 1 .. n : t[z + j] = s[j]
    BY <1>1, <1>2
  <2> HIDE DEF n
  <2> QED
    BY <1>1, <1>2, <2>1, SliceIs
<1> HIDE DEF n, m
<1>5. SubSeq(s, 1, n) = s /\ SubSeq(t, 1, n) = s
  BY <1>2, <1>3, <1>4
<1> QED
  BY <1>1, <1>5 DEF IsPrefix, n, m

(* One member less, or one more, at the end. *)
LEMMA EndsAre ==
    ASSUME NEW s \in Seq(Nat), Len(s) # 0
    PROVE  /\ Front(s) \in Seq(Nat) /\ Len(Front(s)) = Len(s) - 1
           /\ Append(s, 0) \in Seq(Nat) /\ Len(Append(s, 0)) = Len(s) + 1
           /\ \A k \in 1 .. Len(s) : Append(s, 0)[k] = s[k]
<1> DEFINE l == Len(s)
<1>1. l \in Nat /\ \A k \in 1 .. l : s[k] \in Nat
  OBVIOUS
<1>2. Front(s) \in Seq(Nat) /\ Len(Front(s)) = l - 1
  <2> DEFINE f == SubSeq(s, 1, l - 1)
  <2>1. \A k \in 1 .. l - 1 : s[k] \in Nat
    BY <1>1
  <2>2. 1 \in Int /\ l - 1 \in Int
    BY <1>1
  <2>3. /\ f \in Seq(Nat)
        /\ Len(f) = IF 1 <= l - 1 THEN (l - 1) - 1 + 1 ELSE 0
    BY <2>1, <2>2, SubSeqProperties
  <2>4. Front(s) = f
    BY DEF Front
  <2> HIDE DEF f, l
  <2>5. l # 0
    BY DEF l
  <2> QED
    BY <1>1, <2>3, <2>4, <2>5
<1>3. Append(s, 0) \in Seq(Nat) /\ Len(Append(s, 0)) = l + 1
  OBVIOUS
<1>4. \A k \in 1 .. l : Append(s, 0)[k] = s[k]
  OBVIOUS
<1> QED
  BY <1>2, <1>3, <1>4
=============================================================================
