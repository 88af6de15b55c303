----------------------------- MODULE FibProofs ------------------------------
(***************************************************************************)
(* Theorems about fib-quant and gpu-backend, for every value of the        *)
(* constants: the dispatch to the device and the answers of its lookups    *)
(* (GpuBackend), the places of vectors in pages (FibKv), the training of   *)
(* codebooks (FibLloyd), the binding of codes to their quantizer and what  *)
(* their bytes decode to (FibCodec).                                       *)
(***************************************************************************)
EXTENDS GpuBackend, FibCodec, FibKv, FibLloyd, FoldFacts, FiniteSetTheorems

(***************************************************************************)
(* The dispatch to the device.                                             *)
(***************************************************************************)
(* The kernel is loaded after the last step and stays so; what a thread    *)
(* has seen is the one availability there is.                              *)
GpuInv ==
    /\ at \in [Thread -> {"idle", "ask", "probe", "device"}]
    /\ seen \in [Thread -> Outcomes \cup {Unset}]
    /\ context \in Outcomes \cup {Unset}
    /\ step \in Nat /\ loaded \in BOOLEAN
    /\ loaded <=> step > Len(InitSteps)
    /\ context = "ready" => loaded
    /\ \A t \in Thread : seen[t] \in {Unset, context}
    /\ \A t \in Thread : at[t] = "device" => seen[t] = "ready"

LEMMA StepsAre ==
    /\ Len(InitSteps) = 6 /\ DOMAIN InitSteps = 1 .. 6
    /\ \A i \in 1 .. 6 : InitSteps[i] \in Outcomes /\ InitSteps[i] # "ready"
  BY DEF InitSteps, Outcomes

LEMMA OutcomesAre ==
    "ready" \in Outcomes /\ "feature_disabled" \in Outcomes /\ Unset \notin Outcomes
  BY UnsetAssumption DEF Outcomes

LEMMA GpuInitially == GpuInit => GpuInv
<1> SUFFICES ASSUME GpuInit PROVE GpuInv
  OBVIOUS
<1>1. step \in Nat /\ ~(step > Len(InitSteps))
  BY StepsAre DEF GpuInit
<1>2. /\ at \in [Thread -> {"idle", "ask", "probe", "device"}]
      /\ seen \in [Thread -> Outcomes \cup {Unset}]
      /\ \A t \in Thread : at[t] = "idle" /\ seen[t] = Unset
  BY DEF GpuInit
<1>3. loaded = FALSE /\ context = Unset
  BY DEF GpuInit
<1> QED
  BY <1>1, <1>2, <1>3, OutcomesAre, Zenon DEF GpuInv

LEMMA GpuNextKeeps == GpuInv /\ [GpuNext]_gpuVars => GpuInv'
<1> SUFFICES ASSUME GpuInv, [GpuNext]_gpuVars PROVE GpuInv'
  OBVIOUS
<1> USE DEF GpuInv, Goes
<1>1. ASSUME NEW t \in Thread, NEW c \in Lookups, Lookup(t, c) PROVE GpuInv'
  BY <1>1 DEF Lookup, Asks
<1>2. ASSUME NEW t \in Thread, NEW s \in Scalars, LloydMaxBatch(t, s) PROVE GpuInv'
  BY <1>2 DEF LloydMaxBatch
<1>3. ASSUME NEW t \in Thread, Probe(t) PROVE GpuInv'
  BY <1>3 DEF Probe
<1>4. ASSUME NEW t \in Thread, BeginInit(t) PROVE GpuInv'
  BY <1>4, StepsAre, OutcomesAre DEF BeginInit
<1>5. ASSUME NEW t \in Thread, Answered(t) PROVE GpuInv'
  <2>1. context \in Outcomes /\ seen' = [seen EXCEPT ![t] = context]
        /\ at[t] # "device" /\ UNCHANGED <<context, loaded, step>>
    BY <1>5 DEF Answered
  <2>2. \/ at' = [at EXCEPT ![t] = "idle"]
        \/ /\ context = "ready"
           /\ at' = [at EXCEPT ![t] = "device"]
    BY <1>5 DEF Answered
  <2> QED
    BY <2>1, <2>2
<1>6. ASSUME NEW t \in Thread, Launch(t) PROVE GpuInv'
  BY <1>6 DEF Launch
<1>7. ASSUME NEW t \in Thread, CallWrapper(t) PROVE GpuInv'
  BY <1>7 DEF CallWrapper
<1>8. ASSUME StepFails PROVE GpuInv'
  BY <1>8, StepsAre DEF StepFails
<1>9. ASSUME StepSucceeds PROVE GpuInv'
  <2>1. /\ step \in 1 .. 6 /\ step' = step + 1 /\ loaded' = (step = 6)
        /\ context = Unset /\ UNCHANGED <<context, at, seen>>
    BY <1>9, StepsAre DEF StepSucceeds
  <2>2. step' \in Nat /\ (step = 6 <=> step' > Len(InitSteps))
    BY <2>1, StepsAre
  <2>3. loaded' \in BOOLEAN /\ (loaded' <=> step' > Len(InitSteps))
    BY <2>1, <2>2, Zenon
  <2>4. context' # "ready" /\ \A t \in Thread : at'[t] # "device"
    BY <2>1, OutcomesAre
  <2> QED
    BY <2>1, <2>2, <2>3, <2>4
<1>10. ASSUME FinishInit PROVE GpuInv'
  BY <1>10, OutcomesAre DEF FinishInit
<1>11. CASE UNCHANGED gpuVars
  BY <1>11 DEF gpuVars
<1> QED
  BY <1>1, <1>2, <1>3, <1>4, <1>5, <1>6, <1>7, <1>8, <1>9, <1>10, <1>11 DEF GpuNext

(* A thread is on the device only once the kernel is loaded, and all       *)
(* threads see one availability, whichever of them came first and whatever *)
(* step of the initialization failed (availability, codebook_lookup_batch).*)
THEOREM DeviceIsReady == GpuSpec => []DispatchOnlyWhenReady
<1>1. GpuInv => DispatchOnlyWhenReady
  BY OutcomesAre DEF GpuInv, DispatchOnlyWhenReady
<1> QED
  BY <1>1, GpuInitially, GpuNextKeeps, PTL DEF GpuSpec

(***************************************************************************)
(* The places of the vectors of a tensor.                                  *)
(***************************************************************************)
IsShape(s) == s.batch \in Nat /\ s.layers \in Nat /\ s.heads \in Nat /\ s.tokens \in Nat

(* A digit more stays below the product. *)
LEMMA DigitBelow ==
    ASSUME NEW p \in Nat, NEW n \in Nat, NEW q \in 0 .. p - 1, NEW r \in 0 .. n - 1
    PROVE  q * n + r \in 0 .. p * n - 1
<1>1. q * n + n <= p * n /\ q * n \in Nat /\ p * n \in Nat
  <2>1. q \in Nat /\ q < p
    OBVIOUS
  <2> QED
    BY <2>1, MulLess
<1> DEFINE x == q * n  y == p * n
<1> HIDE DEF x, y
<1>2. x + n <= y /\ x \in Nat /\ y \in Nat
  BY <1>1 DEF x, y
<1>3. x + r \in 0 .. y - 1
  BY <1>2
<1> QED
  BY <1>3 DEF x, y

LEMMA DigitsUnique ==
    ASSUME NEW n \in Nat, NEW q \in Nat, NEW r \in 0 .. n - 1,
           NEW u \in Nat, NEW v \in 0 .. n - 1, q * n + r = u * n + v
    PROVE  q = u /\ r = v
<1>1. n \in Nat \ {0}
  OBVIOUS
<1>2. /\ (q * n + r) \div n = q /\ (q * n + r) % n = r
      /\ (u * n + v) \div n = u /\ (u * n + v) % n = v
  BY <1>1, DivModUnique
<1> QED
  BY <1>2

(* The place of a layer of a batch, of a head of that, of a token of that. *)
LayerAt(s, a) == a.b * s.layers + a.l
HeadAt(s, a) == LayerAt(s, a) * s.heads + a.h
TokenAt(s, a) == HeadAt(s, a) * s.tokens + a.t

LEMMA PlaceIs ==
    ASSUME NEW s, IsShape(s), NEW a \in Places(s)
    PROVE  /\ a.b \in 0 .. s.batch - 1 /\ a.l \in 0 .. s.layers - 1
           /\ a.h \in 0 .. s.heads - 1 /\ a.t \in 0 .. s.tokens - 1
           /\ LayerAt(s, a) \in Nat /\ HeadAt(s, a) \in Nat /\ TokenAt(s, a) \in Nat
           /\ Position(s, a) = TokenAt(s, a) + 1
           /\ Position(s, a) \in 1 .. VectorCount(s)
<1>1. /\ a.b \in 0 .. s.batch - 1 /\ a.l \in 0 .. s.layers - 1
      /\ a.h \in 0 .. s.heads - 1 /\ a.t \in 0 .. s.tokens - 1
  BY DEF Places
<1> DEFINE n1 == s.batch * s.layers
           n2 == n1 * s.heads
           n3 == n2 * s.tokens
<1>2. n1 \in Nat /\ n2 \in Nat /\ n3 \in Nat
  <2>1. n1 \in Nat
    BY DEF IsShape
  <2>2. n2 \in Nat
    <3> HIDE DEF n1
    <3> QED
      BY <2>1 DEF IsShape
  <2> HIDE DEF n1, n2
  <2> QED
    BY <2>1, <2>2 DEF IsShape
<1>3. LayerAt(s, a) \in 0 .. n1 - 1
  BY <1>1, DigitBelow DEF LayerAt, IsShape
<1>4. HeadAt(s, a) \in 0 .. n2 - 1
  <2> HIDE DEF n1
  <2> QED
    BY <1>1, <1>2, <1>3, DigitBelow DEF HeadAt, IsShape
<1>5. TokenAt(s, a) \in 0 .. n3 - 1
  <2> HIDE DEF n2
  <2> QED
    BY <1>1, <1>2, <1>4, DigitBelow DEF TokenAt, IsShape
<1>6. Position(s, a) = TokenAt(s, a) + 1
  BY DEF Position, TokenAt, HeadAt, LayerAt
<1>7. VectorCount(s) = n3
  BY DEF VectorCount
<1> HIDE DEF n1, n2, n3
<1> QED
  BY <1>1, <1>2, <1>3, <1>4, <1>5, <1>6, <1>7

LEMMA PositionsDiffer ==
    ASSUME NEW s, IsShape(s), NEW a \in Places(s), NEW c \in Places(s),
           Position(s, a) = Position(s, c)
    PROVE  a = c
<1>1. TokenAt(s, a) = TokenAt(s, c)
  BY PlaceIs
<1>2. HeadAt(s, a) = HeadAt(s, c) /\ a.t = c.t
  <2> DEFINE q == HeadAt(s, a)  u == HeadAt(s, c)  r == a.t  v == c.t  n == s.tokens
  <2>1. q * n + r = u * n + v
    BY <1>1 DEF TokenAt
  <2>2. q \in Nat /\ u \in Nat /\ r \in 0 .. n - 1 /\ v \in 0 .. n - 1 /\ n \in Nat
    BY PlaceIs DEF IsShape
  <2> HIDE DEF q, u, r, v, n
  <2>3. q = u /\ r = v
    BY <2>1, <2>2, DigitsUnique
  <2> QED
    BY <2>3 DEF q, u, r, v
<1>3. LayerAt(s, a) = LayerAt(s, c) /\ a.h = c.h
  <2> DEFINE q == LayerAt(s, a)  u == LayerAt(s, c)  r == a.h  v == c.h  n == s.heads
  <2>1. q * n + r = u * n + v
    BY <1>2 DEF HeadAt
  <2>2. q \in Nat /\ u \in Nat /\ r \in 0 .. n - 1 /\ v \in 0 .. n - 1 /\ n \in Nat
    BY PlaceIs DEF IsShape
  <2> HIDE DEF q, u, r, v, n
  <2>3. q = u /\ r = v
    BY <2>1, <2>2, DigitsUnique
  <2> QED
    BY <2>3 DEF q, u, r, v
<1>4. a.b = c.b /\ a.l = c.l
  <2> DEFINE q == a.b  u == c.b  r == a.l  v == c.l  n == s.layers
  <2>1. q * n + r = u * n + v
    BY <1>3 DEF LayerAt
  <2>2. q \in Nat /\ u \in Nat /\ r \in 0 .. n - 1 /\ v \in 0 .. n - 1 /\ n \in Nat
    BY PlaceIs DEF IsShape
  <2> HIDE DEF q, u, r, v, n
  <2>3. q = u /\ r = v
    BY <2>1, <2>2, DigitsUnique
  <2> QED
    BY <2>3 DEF q, u, r, v
<1> QED
  BY <1>2, <1>3, <1>4 DEF Places

LEMMA PlacesAreFinite ==
    ASSUME NEW s, IsShape(s)
    PROVE  IsFiniteSet(Places(s))
<1> DEFINE f == [a \in Places(s) |-> Position(s, a)]
           T == 1 .. VectorCount(s)
<1>1. f \in Injection(Places(s), T)
  BY PlaceIs, PositionsDiffer DEF Injection, IsInjective
<1>2. VectorCount(s) \in Nat
  <2>1. s.batch * s.layers \in Nat
    BY DEF IsShape
  <2>2. s.batch * s.layers * s.heads \in Nat
    BY <2>1 DEF IsShape
  <2> QED
    BY <2>2 DEF IsShape, VectorCount
<1>3. IsFiniteSet(T)
  BY <1>2, FS_Interval
<1> HIDE DEF T
<1> QED
  BY <1>1, <1>3, FS_Injection

(* Both ways of counting the place of a vector agree (vector_offset and    *)
(* the strides of the canonical layout).                                   *)
LEMMA StridesAgree ==
    ASSUME NEW s, IsShape(s), NEW a \in Places(s)
    PROVE  1 + a.b * Strides(s).b + a.l * Strides(s).l + a.h * Strides(s).h
             + a.t * Strides(s).t = Position(s, a)
<1>1. /\ a.b \in Int /\ a.l \in Int /\ a.h \in Int /\ a.t \in Int
      /\ s.layers \in Int /\ s.heads \in Int /\ s.tokens \in Int
  BY PlaceIs DEF IsShape
<1> DEFINE b == a.b  l == a.l  h == a.h  t == a.t
           L == s.layers  H == s.heads  T == s.tokens
<1>2. 1 + b * (L * H * T) + l * (H * T) + h * T + t * 1
        = (((b * L + l) * H + h) * T) + t + 1
  <2>1. b \in Int /\ l \in Int /\ h \in Int /\ t \in Int /\ L \in Int /\ H \in Int /\ T \in Int
    BY <1>1
  <2> HIDE DEF b, l, h, t, L, H, T
  <2> QED
    BY <2>1
<1>3. Strides(s) = [t |-> 1, h |-> T, l |-> H * T, b |-> L * H * T]
  BY DEF Strides
<1> QED
  BY <1>2, <1>3 DEF Position
(***************************************************************************)
(* What a page holds.                                                      *)
(***************************************************************************)
(* Every place of the page's tokens is visited. *)
LEMMA PlacesOfPageIs ==
    ASSUME NEW s, IsShape(s), NEW start, NEW count
    PROVE  LET P == {a \in Places(s) : a.t \in start .. start + count - 1}
               f == PlacesOfPage(s, start, count)
           IN  /\ f \in Seq(P)
               /\ \A x \in P : \E i \in DOMAIN f : f[i] = x
<1> DEFINE P == {a \in Places(s) : a.t \in start .. start + count - 1}
           before == {p \in P \X P : Position(s, p[1]) < Position(s, p[2])}
           f == PlacesOfPage(s, start, count)
<1>1. IsFiniteSet(P)
  BY PlacesAreFinite, FS_Subset
<1>2. \A x \in P : x \in Places(s) /\ Position(s, x) \in Int
  BY PlaceIs
<1>3. IsOrder(P, before)
  <2>1. \A x, y \in P : <<x, y>> \in before <=> Position(s, x) < Position(s, y)
    OBVIOUS
  <2>2. \A x, y \in P : Position(s, x) = Position(s, y) => x = y
    BY PositionsDiffer
  <2> HIDE DEF P, before
  <2>3. \A x, y \in P : <<x, y>> \in before => <<y, x>> \notin before
    BY <1>2, <2>1
  <2>4. ASSUME NEW x \in P, NEW y \in P
        PROVE  x = y \/ <<x, y>> \in before \/ <<y, x>> \in before
    <3>1. Position(s, x) \in Int /\ Position(s, y) \in Int
      BY <1>2
    <3>2. \/ Position(s, x) = Position(s, y) \/ Position(s, x) < Position(s, y)
          \/ Position(s, y) < Position(s, x)
      BY <3>1
    <3> QED
      BY <2>1, <2>2, <3>2
  <2>5. \A x, y, z \in P : <<x, y>> \in before /\ <<y, z>> \in before => <<x, z>> \in before
    BY <1>2, <2>1
  <2> QED
    BY <2>3, <2>4, <2>5 DEF IsOrder
<1>4. f = Ordered(P, before)
  BY DEF PlacesOfPage
<1> HIDE DEF P, before, f
<1>5. /\ Cardinality(P) \in Nat /\ f \in [1 .. Cardinality(P) -> P]
      /\ \A x \in P : \E i \in 1 .. Cardinality(P) : f[i] = x
  BY <1>1, <1>3, <1>4, OrderedIs
<1>6. f \in Seq(P) /\ DOMAIN f = 1 .. Cardinality(P)
  BY <1>5, FunctionIsSeq
<1> QED
  BY <1>5, <1>6 DEF P, f

BlockAt(s, p, values, a) == BlockFor(p, s, a, values[Position(s, a)])

TensorBlocks(s, p, values) == {BlockAt(s, p, values, a) : a \in Places(s)}

LEMMA PageHolds ==
    ASSUME NEW s, IsShape(s), NEW p, NEW values, NEW id, NEW start,
           start = id * p.geometry.tokens,
           NEW count, count = Smaller(p.geometry.tokens, s.tokens - start)
    PROVE  LET blocks == Page(p, s, values, id).body.blocks IN
           /\ blocks \in Seq(TensorBlocks(s, p, values))
           /\ \A a \in Places(s) : a.t \in start .. start + count - 1 =>
                  \E i \in DOMAIN blocks : blocks[i] = BlockAt(s, p, values, a)
<1> DEFINE P == {a \in Places(s) : a.t \in start .. start + count - 1}
           places == PlacesOfPage(s, start, count)
           blocks == [i \in DOMAIN places |-> BlockAt(s, p, values, places[i])]
<1>1. Page(p, s, values, id).body.blocks = blocks
  BY Zenon DEF Page, Sealed, BlockAt
<1>2. places \in Seq(P) /\ \A x \in P : \E i \in DOMAIN places : places[i] = x
  BY PlacesOfPageIs
<1>3. \A x \in P : BlockAt(s, p, values, x) \in TensorBlocks(s, p, values)
  BY DEF TensorBlocks
<1> HIDE DEF places
<1>4. blocks \in Seq(TensorBlocks(s, p, values))
  <2>1. blocks \in [1 .. Len(places) -> TensorBlocks(s, p, values)]
    BY <1>2, <1>3
  <2>2. Len(places) \in Nat
    BY <1>2
  <2> HIDE DEF blocks
  <2> QED
    BY <2>1, <2>2, FunctionIsSeq
<1>5. ASSUME NEW a \in Places(s), a.t \in start .. start + count - 1
      PROVE  \E i \in DOMAIN blocks : blocks[i] = BlockAt(s, p, values, a)
  <2>1. PICK i \in DOMAIN places : places[i] = a
    BY <1>2, <1>5
  <2> QED
    BY <2>1
<1> HIDE DEF blocks
<1> QED
  BY <1>1, <1>4, <1>5

(* A token is on one of the pages, which has room for it. *)
LEMMA TokenHasPage ==
    ASSUME NEW s, IsShape(s), NEW g, g.tokens \in 1 .. s.tokens, NEW t \in 0 .. s.tokens - 1
    PROVE  \E id \in 0 .. PageCount(g, s) - 1 :
               LET start == id * g.tokens  count == Smaller(g.tokens, s.tokens - start)
               IN  t \in start .. start + count - 1
<1> DEFINE n == g.tokens  T == s.tokens  c == PageCount(g, s)
           id == t \div n  start == id * n
<1>1. n \in Nat \ {0} /\ T \in Nat /\ t \in Nat /\ t < T
  BY DEF IsShape
<1>2. c = (T + n - 1) \div n
  BY DEF PageCount
<1> HIDE DEF n, T, c
<1>3. id \in Nat /\ start \in Nat /\ start <= t /\ t < start + n
  <2>1. id \in Nat /\ t % n \in 0 .. n - 1 /\ t = start + (t % n)
    BY <1>1, DivMod
  <2>2. start \in Nat
    BY <1>1, <2>1
  <2> HIDE DEF id, start
  <2> QED
    BY <1>1, <2>1, <2>2
<1>4. c \in Nat /\ t < c * n
  <2> DEFINE x == T + n - 1
  <2>1. x \in Nat
    BY <1>1
  <2>2. x \div n \in Nat /\ x % n \in 0 .. n - 1 /\ x = (x \div n) * n + (x % n)
    <3> HIDE DEF x
    <3> QED
      BY <1>1, <2>1, DivMod
  <2>3. c \in Nat /\ c * n \in Nat /\ x = c * n + (x % n)
    BY <1>1, <1>2, <2>2
  <2> DEFINE y == c * n  r == x % n
  <2>4. r \in 0 .. n - 1 /\ y \in Nat /\ T + n - 1 = y + r
    BY <2>2, <2>3
  <2> HIDE DEF y, r, x
  <2>5. t < y
    BY <1>1, <2>4
  <2> QED
    BY <2>3, <2>5 DEF y
<1>5. id < c
  BY <1>1, <1>4, DivLess
<1> HIDE DEF id, start
<1>6. id \in 0 .. c - 1
  BY <1>3, <1>4, <1>5
<1>7. t \in start .. start + Smaller(n, T - start) - 1
  BY <1>1, <1>3 DEF Smaller
<1> QED
  BY <1>6, <1>7 DEF n, T, c, id, start
(***************************************************************************)
(* What the blocks of pages are put together to.                           *)
(***************************************************************************)
(* r is the tensor after the first k blocks. *)
PlacedUpTo(r, s, blocks, k) ==
    \A x \in 1 .. VectorCount(s) :
        \/ r[x] = 0 /\ \A j \in 1 .. k : Position(s, blocks[j].at) # x
        \/ \E j \in 1 .. k : Position(s, blocks[j].at) = x /\ r[x] = DecodedBlock(blocks[j])

LEMMA PlacedIs ==
    ASSUME NEW s, NEW B, NEW blocks \in Seq(B)
    PROVE  PlacedUpTo(Placed(s, blocks), s, blocks, Len(blocks))
<1> DEFINE N == Len(blocks)
           V == 1 .. VectorCount(s)
           A == [V -> {0} \cup {DecodedBlock(b) : b \in B}]
           zeros == [i \in V |-> 0]
           put(r, b) == [r EXCEPT ![Position(s, b.at)] = DecodedBlock(b)]
           F == [p \in (1 .. N) \X A |-> put(p[2], blocks[p[1]])]
           Solves(f) == f = [t \in SUBSET (DOMAIN blocks) |->
                               IF t = {} THEN zeros ELSE put(f[t \ {Max(t)}], blocks[Max(t)])]
           iter == CHOOSE f : Solves(f)
<1>1. N \in Nat /\ DOMAIN blocks = 1 .. N /\ \A i \in 1 .. N : blocks[i] \in B
  OBVIOUS
<1>2. zeros \in A /\ \A r \in A, b \in B : put(r, b) \in A
  OBVIOUS
<1>3. \E f : Solves(f) /\ f \in [SUBSET (1 .. N) -> A]
  <2> HIDE DEF A, put, zeros
  <2>1. F \in [(1 .. N) \X A -> A]
    BY <1>1, <1>2
  <2>2. PICK f \in [SUBSET (1 .. N) -> A] : FoldsSets(f, N, zeros, F)
    <3>1. HasSetFold(N, A, zeros, F)
      <4> HIDE DEF F
      <4> QED
        BY <1>1, <1>2, <2>1, SetFoldExists
    <3> QED
      BY <3>1 DEF HasSetFold
  <2>3. \A t \in SUBSET (1 .. N) :
          f[t] = IF t = {} THEN zeros ELSE put(f[t \ {Max(t)}], blocks[Max(t)])
    <3> SUFFICES ASSUME NEW t \in SUBSET (1 .. N), t # {}
                 PROVE  f[t] = put(f[t \ {Max(t)}], blocks[Max(t)])
      BY <2>2 DEF FoldsSets
    <3>1. Max(t) \in 1 .. N
      BY <1>1, MaxOfNonempty
    <3>2. f[t \ {Max(t)}] \in A
      BY <2>2
    <3> QED
      BY <2>2, <3>1, <3>2 DEF FoldsSets
  <2>4. Solves(f)
    BY <1>1, <2>2, <2>3
  <2> QED
    BY <2>4
<1>4. Solves(iter)
  BY <1>3
<1>5. Placed(s, blocks) = iter[1 .. N]
  <2>1. Placed(s, blocks) = iter[DOMAIN blocks]
    BY DEF Placed, FoldLeft, MapThenFoldSet
  <2> QED
    BY <1>1, <2>1
<1> HIDE DEF iter, F
<1> DEFINE Good == {k \in Nat : k <= N =>
                        iter[1 .. k] \in A /\ PlacedUpTo(iter[1 .. k], s, blocks, k)}
<1>6. 0 \in Good
  <2>1. iter[1 .. 0] = zeros
    BY <1>1, <1>4
  <2>2. zeros \in A /\ PlacedUpTo(zeros, s, blocks, 0)
    BY DEF PlacedUpTo
  <2> HIDE DEF zeros, A
  <2> QED
    BY <2>1, <2>2
<1>7. ASSUME NEW k \in Nat, k \in Good PROVE k + 1 \in Good
  <2> SUFFICES ASSUME k + 1 <= N
               PROVE  iter[1 .. k + 1] \in A /\ PlacedUpTo(iter[1 .. k + 1], s, blocks, k + 1)
    OBVIOUS
  <2> DEFINE r == iter[1 .. k]  b == blocks[k + 1]
  <2>1. Max(1 .. k + 1) = k + 1
    BY MaxOf
  <2>2. (1 .. k + 1) \ {k + 1} = 1 .. k /\ 1 .. k + 1 # {} /\ 1 .. k + 1 \in SUBSET (1 .. N)
    BY <1>1
  <2>3. iter[1 .. k + 1] = put(r, b)
    <3> HIDE DEF put
    <3> QED
      BY <1>1, <1>4, <2>1, <2>2
  <2>4. r \in A /\ PlacedUpTo(r, s, blocks, k) /\ b \in B
    BY <1>1, <1>7
  <2>5. put(r, b) \in A
    BY <1>2, <2>4
  <2>6. PlacedUpTo(put(r, b), s, blocks, k + 1)
    <3> HIDE DEF r
    <3> SUFFICES ASSUME NEW x \in V
                 PROVE  \/ /\ put(r, b)[x] = 0
                           /\ \A j \in 1 .. k + 1 : Position(s, blocks[j].at) # x
                        \/ \E j \in 1 .. k + 1 : /\ Position(s, blocks[j].at) = x
                                                 /\ put(r, b)[x] = DecodedBlock(blocks[j])
      BY DEF PlacedUpTo
    <3>1. CASE Position(s, b.at) = x
      <4>1. k + 1 \in 1 .. k + 1 /\ put(r, b)[x] = DecodedBlock(b)
        BY <2>4, <3>1
      <4> QED
        BY <3>1, <4>1
    <3>2. CASE Position(s, b.at) # x
      <4>1. put(r, b)[x] = r[x]
        BY <2>4, <3>2
      <4>2. \A j \in 1 .. k + 1 : j = k + 1 \/ j \in 1 .. k
        OBVIOUS
      <4>3. \A j \in 1 .. k : j \in 1 .. k + 1
        OBVIOUS
      <4>4. \/ r[x] = 0 /\ \A j \in 1 .. k : Position(s, blocks[j].at) # x
            \/ \E j \in 1 .. k : /\ Position(s, blocks[j].at) = x
                                 /\ r[x] = DecodedBlock(blocks[j])
        BY <2>4 DEF PlacedUpTo
      <4> HIDE DEF put
      <4> QED
        BY <3>2, <4>1, <4>2, <4>3, <4>4
    <3> QED
      BY <3>1, <3>2
  <2> QED
    BY <2>3, <2>5, <2>6
<1> HIDE DEF Good
<1>8. N \in Good
  BY <1>1, <1>6, <1>7, NatSetInduction
<1> QED
  BY <1>1, <1>5, <1>8 DEF Good
(***************************************************************************)
(* The invariant of the KV cache path.                                     *)
(***************************************************************************)
Originals(s, p, values) ==
    {Page(p, s, values, id) : id \in 0 .. PageCount(p.geometry, s) - 1}

Spoiled(pages) == \E i \in DOMAIN pages : pages[i].digest # pages[i].body

(* What a tensor that was encoded is. *)
IsTensor(s, p, values) ==
    /\ IsShape(s) /\ p.geometry.tokens \in 1 .. s.tokens /\ p.protected \in Protection
    /\ values \in Seq(Int) /\ Len(values) = VectorCount(s)
    /\ \A a \in Places(s) : BlockAt(s, p, values, a) # Refused

(* The pages are those that were sealed, all of them until one is lost,    *)
(* and one that was damaged is not what its digest was taken of.           *)
FibKvInv ==
    IF artifact = <<>> THEN fault = "none" /\ restored = <<>>
    ELSE LET s == tensor.shape  p == tensor.profile  values == tensor.values IN
         /\ IsTensor(s, p, values)
         /\ {"shape", "pages"} \subseteq DOMAIN artifact /\ artifact.shape = s
         /\ IF fault = "damaged" THEN Spoiled(artifact.pages)
            ELSE artifact.pages \in Seq(Originals(s, p, values))
         /\ fault \notin {"damaged", "lost"} =>
                \A page \in Originals(s, p, values) :
                    \E i \in DOMAIN artifact.pages : artifact.pages[i] = page
         /\ DecodedInPlace

(* A block of the encoder is for its place, holds its vector and is raw    *)
(* wherever the vector must come back exactly.                             *)
LEMMA BlockIs ==
    ASSUME NEW s, IsShape(s), NEW p, p.protected \in Protection, NEW values, NEW a \in Places(s),
           NEW v, v = values[Position(s, a)],
           NEW b, b = BlockAt(s, p, values, a), b # Refused
    PROVE  /\ b.at = a /\ b.payload = v /\ "payload" \in DOMAIN b /\ "at" \in DOMAIN b
           /\ DecodedBlock(b) \in {v, v + Loss}
           /\ \/ a.t \in (0 .. p.protected.first - 1)
                          \cup (s.tokens - p.protected.last .. s.tokens - 1)
              \/ a.l \in p.protected.layers \/ a.h \in p.protected.heads \/ ~Encodes(v)
              => DecodedBlock(b) = v
<1> DEFINE packed == [at |-> a, raw |-> FALSE, reason |-> "fib_quant_per_token", payload |-> v]
<1>1. \/ \E reason : b = Raw(a, v, reason)
      \/ b = packed /\ Encodes(v) /\ ~Protected(p.protected, s, a)
  <2>1. CASE Protected(p.protected, s, a)
    BY <2>1 DEF BlockAt, BlockFor
  <2>2. CASE ~Protected(p.protected, s, a)
    <3>1. b = VectorBlock(p, a, v)
      BY <2>2 DEF BlockAt, BlockFor
    <3>2. CASE p.axis = "PerToken" /\ Encodes(v)
      <4>1. VectorBlock(p, a, v) = packed
        BY <3>2 DEF VectorBlock
      <4> QED
        BY <2>2, <3>1, <3>2, <4>1
    <3>3. CASE ~(p.axis = "PerToken" /\ Encodes(v))
      BY <3>1, <3>3 DEF VectorBlock
    <3> QED
      BY <3>2, <3>3
  <2> QED
    BY <2>1, <2>2
<1>2. CASE \E reason : b = Raw(a, v, reason)
  <2>1. b.at = a /\ b.payload = v /\ b.raw = TRUE /\ "payload" \in DOMAIN b /\ "at" \in DOMAIN b
    BY <1>2 DEF Raw
  <2> QED
    BY <2>1 DEF DecodedBlock
<1>3. CASE b = packed /\ Encodes(v) /\ ~Protected(p.protected, s, a)
  <2>1. b.at = a /\ b.payload = v /\ b.raw = FALSE /\ "payload" \in DOMAIN b /\ "at" \in DOMAIN b
    BY <1>3
  <2>2. DecodedBlock(b) = v + Loss
    BY <2>1 DEF DecodedBlock
  <2>3. p.protected.first \in Nat /\ p.protected.last \in Nat /\ a.t \in Nat /\ s.tokens \in Nat
    BY PlaceIs DEF Protection, IsShape
  <2>4. ~(a.t < p.protected.first) /\ ~(a.t + p.protected.last >= s.tokens)
        /\ a.l \notin p.protected.layers /\ a.h \notin p.protected.heads
    BY <1>3 DEF Protected
  <2>5. /\ a.t \notin 0 .. p.protected.first - 1
        /\ a.t \notin s.tokens - p.protected.last .. s.tokens - 1
    <3> DEFINE x == p.protected.first  y == p.protected.last
    <3>1. x \in Nat /\ y \in Nat /\ a.t \in Nat /\ s.tokens \in Nat /\ ~(a.t < x)
          /\ ~(a.t + y >= s.tokens)
      BY <2>3, <2>4
    <3> HIDE DEF x, y
    <3>2. a.t \notin 0 .. x - 1 /\ a.t \notin s.tokens - y .. s.tokens - 1
      BY <3>1
    <3> QED
      BY <3>2 DEF x, y
  <2> QED
    BY <1>3, <2>1, <2>2, <2>4, <2>5
<1> QED
  BY <1>1, <1>2, <1>3

(* A place is on an original page, and an original page holds the blocks   *)
(* of places.                                                              *)
LEMMA OriginalsHold ==
    ASSUME NEW s, NEW p, NEW values, IsShape(s), p.geometry.tokens \in 1 .. s.tokens
    PROVE  /\ \A page \in Originals(s, p, values) :
                  page.body.blocks \in Seq(TensorBlocks(s, p, values))
           /\ \A a \in Places(s) :
                  \E page \in Originals(s, p, values) : \E i \in DOMAIN page.body.blocks :
                      page.body.blocks[i] = BlockAt(s, p, values, a)
<1>1. ASSUME NEW page \in Originals(s, p, values)
      PROVE  page.body.blocks \in Seq(TensorBlocks(s, p, values))
  <2>1. PICK id \in 0 .. PageCount(p.geometry, s) - 1 : page = Page(p, s, values, id)
    BY DEF Originals
  <2> DEFINE start == id * p.geometry.tokens
             count == Smaller(p.geometry.tokens, s.tokens - start)
  <2> HIDE DEF count, start
  <2> QED
    BY <2>1, PageHolds DEF count, start
<1>2. ASSUME NEW a \in Places(s)
      PROVE  \E page \in Originals(s, p, values) : \E i \in DOMAIN page.body.blocks :
                 page.body.blocks[i] = BlockAt(s, p, values, a)
  <2>1. a.t \in 0 .. s.tokens - 1
    BY PlaceIs
  <2>2. PICK id \in 0 .. PageCount(p.geometry, s) - 1 :
            LET start == id * p.geometry.tokens
                count == Smaller(p.geometry.tokens, s.tokens - start)
            IN  a.t \in start .. start + count - 1
    BY <2>1, TokenHasPage
  <2> DEFINE start == id * p.geometry.tokens
             count == Smaller(p.geometry.tokens, s.tokens - start)
             page == Page(p, s, values, id)
  <2>3. a.t \in start .. start + count - 1
    BY <2>2
  <2>4. \E i \in DOMAIN page.body.blocks : page.body.blocks[i] = BlockAt(s, p, values, a)
    <3>1. start = id * p.geometry.tokens /\ count = Smaller(p.geometry.tokens, s.tokens - start)
      OBVIOUS
    <3> HIDE DEF start, count
    <3> QED
      BY <2>3, <3>1, PageHolds
  <2>5. page \in Originals(s, p, values)
    BY DEF Originals
  <2> HIDE DEF page
  <2> QED
    BY <2>4, <2>5
<1> QED
  BY <1>1, <1>2
(* The blocks of pages, as the decoder takes them. *)
BlocksOf(pages) == [i \in DOMAIN pages |-> pages[i].body.blocks]

LEMMA PagesHold ==
    ASSUME NEW s, NEW p, NEW values, IsShape(s), p.geometry.tokens \in 1 .. s.tokens,
           NEW pages \in Seq(Originals(s, p, values))
    PROVE  LET all == FlattenSeq(BlocksOf(pages)) IN
           /\ all \in Seq(TensorBlocks(s, p, values))
           /\ \A i \in DOMAIN pages : \A j \in DOMAIN pages[i].body.blocks :
                  \E k \in DOMAIN all : all[k] = pages[i].body.blocks[j]
<1> DEFINE S == TensorBlocks(s, p, values)
           ss == BlocksOf(pages)
<1>1. Len(pages) \in Nat /\ DOMAIN pages = 1 .. Len(pages)
      /\ \A i \in DOMAIN pages : pages[i] \in Originals(s, p, values)
  OBVIOUS
<1>2. \A i \in DOMAIN pages : pages[i].body.blocks \in Seq(S)
  BY <1>1, OriginalsHold
<1>3. ss \in [1 .. Len(pages) -> Seq(S)]
  <2> HIDE DEF S
  <2> QED
    BY <1>1, <1>2 DEF BlocksOf
<1>4. ss \in Seq(Seq(S)) /\ Len(ss) = Len(pages)
  <2> HIDE DEF S, ss
  <2> QED
    BY <1>1, <1>3, FunctionIsSeq
<1>5. FlattenSeq(ss) \in Seq(S) /\ HoldsAll(FlattenSeq(ss), ss, Len(ss))
  <2> HIDE DEF S, ss
  <2> QED
    BY <1>4, FlattenHolds
<1>6. ASSUME NEW i \in DOMAIN pages, NEW j \in DOMAIN pages[i].body.blocks
      PROVE  \E k \in DOMAIN FlattenSeq(ss) : FlattenSeq(ss)[k] = pages[i].body.blocks[j]
  <2>1. i \in 1 .. Len(ss) /\ ss[i] = pages[i].body.blocks
    BY <1>1, <1>4 DEF BlocksOf
  <2> HIDE DEF ss
  <2> QED
    BY <1>5, <2>1 DEF HoldsAll
<1> QED
  BY <1>5, <1>6

LEMMA EncodeKeeps ==
    ASSUME FibKvInv, NEW s \in Shapes, NEW p, p.protected \in Protection,
           NEW values \in Tensors(VectorCount(s)), EncodeTensor(s, p, values)
    PROVE  FibKvInv'
<1> DEFINE n == PageCount(p.geometry, s)
           pages == [i \in 1 .. n |-> Page(p, s, values, i - 1)]
           blocks == FlattenSeq(BlocksOf(pages))
           O == Originals(s, p, values)
<1>1. /\ artifact = <<>> /\ artifact' = EncodedTensor(s, p, values) /\ artifact' # <<>>
      /\ tensor' = [shape |-> s, profile |-> p, values |-> values]
      /\ UNCHANGED <<fault, restored>>
  BY DEF EncodeTensor
<1>2. fault' = "none" /\ restored' = <<>>
  BY <1>1 DEF FibKvInv
<1>3. /\ ValidKvProfile(p, s) /\ Len(values) = VectorCount(s)
      /\ \A i \in DOMAIN values : values[i] # NonFinite
      /\ \A i \in DOMAIN blocks : blocks[i] # Refused
      /\ artifact'.shape = s /\ artifact'.pages = pages
      /\ {"shape", "pages"} \subseteq DOMAIN artifact'
  <2> HIDE DEF n
  <2> QED
    BY <1>1 DEF EncodedTensor, BlocksOf, n
<1>4. IsShape(s) /\ p.geometry.tokens \in 1 .. s.tokens
  <2>1. IsShape(s)
    BY FibKvAssumption DEF IsShape
  <2>2. p.geometry.tokens \in 1 .. s.tokens
    BY <1>3 DEF ValidKvProfile, ValidGeometry
  <2> QED
    BY <2>1, <2>2
<1>5. values \in Seq(Int)
  <2>1. values \in Seq(Int \cup {NonFinite})
    BY FibKvAssumption
  <2>2. \A i \in DOMAIN values : values[i] \in Int
    BY <1>3, <2>1
  <2> QED
    BY <2>1, <2>2
<1>6. n \in Nat
  <2> DEFINE g == p.geometry.tokens
  <2>1. g \in Nat \ {0} /\ s.tokens \in Nat
    BY <1>4 DEF IsShape
  <2>2. n = (s.tokens + g - 1) \div g
    BY DEF PageCount
  <2> HIDE DEF g, n
  <2>3. s.tokens + g - 1 \in Nat
    BY <2>1
  <2> QED
    BY <2>1, <2>2, <2>3, DivMod
<1>7. pages \in Seq(O) /\ DOMAIN pages = 1 .. n
      /\ \A page \in O : \E i \in DOMAIN pages : pages[i] = page
  <2> HIDE DEF n
  <2>1. \A i \in 1 .. n : i - 1 \in 0 .. n - 1
    BY <1>6
  <2>2. \A i \in 1 .. n : Page(p, s, values, i - 1) \in O
    BY <2>1 DEF Originals, n
  <2>3. pages \in [1 .. n -> O]
    BY <2>2
  <2>4. pages \in Seq(O)
    <3> HIDE DEF pages, O
    <3> QED
      BY <1>6, <2>3, FunctionIsSeq
  <2>5. ASSUME NEW page \in O PROVE \E i \in 1 .. n : pages[i] = page
    <3>1. PICK id \in 0 .. n - 1 : page = Page(p, s, values, id)
      BY DEF Originals, n
    <3>2. id + 1 \in 1 .. n /\ (id + 1) - 1 = id
      BY <1>6
    <3>3. pages[id + 1] = page
      BY <3>1, <3>2
    <3> QED
      BY <3>2, <3>3
  <2> QED
    BY <2>3, <2>4, <2>5
<1> HIDE DEF pages, n
<1>8. ASSUME NEW a \in Places(s) PROVE BlockAt(s, p, values, a) # Refused
  <2>1. PICK page \in O : \E j \in DOMAIN page.body.blocks :
            page.body.blocks[j] = BlockAt(s, p, values, a)
    BY <1>4, OriginalsHold
  <2>2. PICK j \in DOMAIN page.body.blocks : page.body.blocks[j] = BlockAt(s, p, values, a)
    BY <2>1
  <2>3. PICK i \in DOMAIN pages : pages[i] = page
    BY <1>7
  <2>4. \A m \in DOMAIN pages : \A l \in DOMAIN pages[m].body.blocks :
            \E k \in DOMAIN blocks : blocks[k] = pages[m].body.blocks[l]
    <3>1. pages \in Seq(Originals(s, p, values))
      BY <1>7
    <3> HIDE DEF blocks
    <3>2. \A m \in DOMAIN pages : \A l \in DOMAIN pages[m].body.blocks :
              \E k \in DOMAIN FlattenSeq(BlocksOf(pages)) :
                  FlattenSeq(BlocksOf(pages))[k] = pages[m].body.blocks[l]
      BY <1>4, <3>1, PagesHold
    <3> QED
      BY <3>2 DEF blocks
  <2>5. PICK k \in DOMAIN blocks : blocks[k] = pages[i].body.blocks[j]
    <3>1. j \in DOMAIN pages[i].body.blocks
      BY <2>3
    <3> HIDE DEF blocks
    <3> QED
      BY <2>3, <2>4, <3>1
  <2> QED
    BY <1>3, <2>2, <2>3, <2>5
<1>9. IsTensor(s, p, values)
  BY <1>3, <1>4, <1>5, <1>8 DEF IsTensor
<1> HIDE DEF blocks, O
<1>10. DecodedInPlace'
  BY <1>2 DEF DecodedInPlace, IsDecoded
<1> QED
  BY <1>1, <1>2, <1>3, <1>7, <1>9, <1>10 DEF FibKvInv, O

(* A page of which a block is changed is spoiled. *)
LEMMA ChangeSpoils ==
    ASSUME FibKvInv, artifact # <<>>, fault = "none",
           NEW i \in DOMAIN artifact.pages,
           NEW j \in DOMAIN artifact.pages[i].body.blocks
    PROVE  /\ \A v : v # artifact.pages[i].body.blocks[j].payload =>
                  Spoiled([artifact.pages EXCEPT ![i].body.blocks[j].payload = v])
           /\ \A v : v # artifact.pages[i].body.blocks[j].at =>
                  Spoiled([artifact.pages EXCEPT ![i].body.blocks[j].at = v])
           /\ artifact.pages[i].body.blocks[j].payload \in Int
<1> DEFINE s == tensor.shape  p == tensor.profile  values == tensor.values
           page == artifact.pages[i]
           block == page.body.blocks[j]
<1>1. IsTensor(s, p, values) /\ artifact.pages \in Seq(Originals(s, p, values))
  BY DEF FibKvInv
<1>2. page \in Originals(s, p, values)
  BY <1>1
<1>3. PICK id : page = Page(p, s, values, id)
  BY <1>2 DEF Originals
<1>4. /\ "body" \in DOMAIN page /\ "digest" \in DOMAIN page /\ page.digest = page.body
      /\ "blocks" \in DOMAIN page.body
  <2> DEFINE start == id * p.geometry.tokens
             count == Smaller(p.geometry.tokens, s.tokens - start)
             places == PlacesOfPage(s, start, count)
             blocks == [k \in DOMAIN places |->
                           BlockFor(p, s, places[k], values[Position(s, places[k])])]
             body == [id |-> id, start |-> start, count |-> count, source |-> values,
                      profile |-> p, shape |-> s, blocks |-> blocks]
  <2>1. page = Sealed(body)
    BY <1>3, Zenon DEF Page
  <2>2. "blocks" \in DOMAIN body
    <3> HIDE DEF start, count, blocks
    <3> QED
      OBVIOUS
  <2> HIDE DEF body
  <2> QED
    BY <2>1, <2>2 DEF Sealed
<1>5. page.body.blocks \in Seq(TensorBlocks(s, p, values))
  BY <1>1, <1>2, OriginalsHold DEF IsTensor
<1>6. PICK a \in Places(s) : block = BlockAt(s, p, values, a)
  BY <1>5 DEF TensorBlocks
<1>7. block.payload = values[Position(s, a)] /\ "payload" \in DOMAIN block /\ "at" \in DOMAIN block
  BY <1>1, <1>6, BlockIs DEF IsTensor
<1>8. values[Position(s, a)] \in Int
  BY <1>1, PlaceIs DEF IsTensor
<1>9. ASSUME NEW v, v # block.payload
      PROVE  Spoiled([artifact.pages EXCEPT ![i].body.blocks[j].payload = v])
  <2> DEFINE new == [artifact.pages EXCEPT ![i].body.blocks[j].payload = v]
  <2>1. i \in DOMAIN new /\ new[i].body.blocks[j].payload = v
        /\ new[i].digest = page.digest
    BY <1>4, <1>7
  <2> HIDE DEF new
  <2>2. new[i].digest # new[i].body
    BY <1>4, <1>9, <2>1
  <2>3. Spoiled(new)
    BY <2>1, <2>2 DEF Spoiled
  <2> QED
    BY <2>3 DEF new
<1>10. ASSUME NEW v, v # block.at
       PROVE  Spoiled([artifact.pages EXCEPT ![i].body.blocks[j].at = v])
  <2> DEFINE new == [artifact.pages EXCEPT ![i].body.blocks[j].at = v]
  <2>1. i \in DOMAIN new /\ new[i].body.blocks[j].at = v
        /\ new[i].digest = page.digest
    BY <1>4, <1>7
  <2> HIDE DEF new
  <2>2. new[i].digest # new[i].body
    BY <1>4, <1>10, <2>1
  <2>3. Spoiled(new)
    BY <2>1, <2>2 DEF Spoiled
  <2> QED
    BY <2>3 DEF new
<1> QED
  BY <1>7, <1>8, <1>9, <1>10
(* Pages that are lost, repeated or reordered are the original ones. *)
LEMMA ShuffledPages ==
    ASSUME NEW O, NEW pages \in Seq(O), NEW i \in DOMAIN pages
    PROVE  /\ RemoveAt(pages, i) \in Seq(O)
           /\ Append(pages, pages[i]) \in Seq(O)
           /\ Reverse(pages) \in Seq(O)
           /\ \A k \in DOMAIN pages :
                  /\ \E m \in DOMAIN Append(pages, pages[i]) : Append(pages, pages[i])[m] = pages[k]
                  /\ \E m \in DOMAIN Reverse(pages) : Reverse(pages)[m] = pages[k]
<1> DEFINE n == Len(pages)
<1>1. n \in Nat /\ DOMAIN pages = 1 .. n /\ i \in 1 .. n
  OBVIOUS
<1>2. RemoveAt(pages, i) \in Seq(O)
  <2>1. SubSeq(pages, 1, i - 1) \in Seq(O) /\ SubSeq(pages, i + 1, n) \in Seq(O)
    <3>1. \A k \in 1 .. i - 1 : k \in 1 .. n
      BY <1>1
    <3>2. \A k \in i + 1 .. n : k \in 1 .. n
      BY <1>1
    <3> QED
      BY <1>1, <3>1, <3>2, SubSeqProperties
  <2> QED
    BY <2>1, ConcatProperties DEF RemoveAt
<1>3. Append(pages, pages[i]) \in Seq(O)
      /\ \A k \in DOMAIN pages : k \in DOMAIN Append(pages, pages[i])
                                 /\ Append(pages, pages[i])[k] = pages[k]
  BY <1>1
<1>4. /\ DOMAIN Reverse(pages) = 1 .. n
      /\ \A m \in 1 .. n : Reverse(pages)[m] = pages[(n - m) + 1]
  BY DEF Reverse
<1>5. Reverse(pages) \in Seq(O)
  <2>1. \A m \in 1 .. n : (n - m) + 1 \in 1 .. n
    BY <1>1
  <2>2. Reverse(pages) \in [1 .. n -> O]
    <3>1. \A m \in 1 .. n : pages[(n - m) + 1] \in O
      BY <1>1, <2>1
    <3> QED
      BY <3>1 DEF Reverse
  <2> QED
    BY <1>1, <2>2, FunctionIsSeq
<1>6. ASSUME NEW k \in DOMAIN pages PROVE \E m \in DOMAIN Reverse(pages) : Reverse(pages)[m] = pages[k]
  <2>1. (n - k) + 1 \in 1 .. n /\ (n - ((n - k) + 1)) + 1 = k
    BY <1>1
  <2>2. Reverse(pages)[(n - k) + 1] = pages[(n - ((n - k) + 1)) + 1]
    BY <1>4, <2>1
  <2> QED
    BY <1>4, <2>1, <2>2
<1> QED
  BY <1>2, <1>3, <1>5, <1>6

(* Other pages for the artifact, with which nothing is restored yet. *)
LEMMA FaultKeeps ==
    ASSUME FibKvInv, NEW kind, NEW pages, Fault(kind, pages),
           kind # "none",
           LET O == Originals(tensor.shape, tensor.profile, tensor.values) IN
           /\ IF kind = "damaged" THEN Spoiled(pages) ELSE pages \in Seq(O)
           /\ kind \notin {"damaged", "lost"} =>
                  \A page \in O : \E i \in DOMAIN pages : pages[i] = page
    PROVE  FibKvInv'
<1>1. artifact # <<>> /\ artifact' = [artifact EXCEPT !.pages = pages] /\ fault' = kind
      /\ tensor' = tensor /\ restored' = <<>>
  BY DEF Fault
<1>2. {"shape", "pages"} \subseteq DOMAIN artifact /\ artifact.shape = tensor.shape
      /\ IsTensor(tensor.shape, tensor.profile, tensor.values)
  BY <1>1 DEF FibKvInv
<1>3. /\ {"shape", "pages"} \subseteq DOMAIN artifact' /\ artifact'.shape = tensor.shape
      /\ artifact'.pages = pages /\ artifact' # <<>>
  BY <1>1, <1>2
<1>4. DecodedInPlace'
  BY <1>1 DEF DecodedInPlace, IsDecoded
<1> QED
  BY <1>1, <1>2, <1>3, <1>4 DEF FibKvInv

LEMMA DecodeKeeps ==
    ASSUME FibKvInv, DecodePages
    PROVE  FibKvInv'
<1> DEFINE s == tensor.shape  p == tensor.profile  values == tensor.values
           pages == artifact.pages
           blocks == FlattenSeq(BlocksOf(pages))
           O == Originals(s, p, values)
<1>1. artifact # <<>> /\ restored' = DecodedTensor(artifact)
      /\ UNCHANGED <<tensor, artifact, fault>>
  BY DEF DecodePages
<1>2. IsTensor(s, p, values) /\ IsShape(s) /\ artifact.shape = s
  BY <1>1 DEF FibKvInv, IsTensor
<1> SUFFICES ASSUME IsDecoded' PROVE DecodedInPlace'
  BY <1>1 DEF FibKvInv, DecodedInPlace
<1>3. /\ \A i \in DOMAIN pages : ValidPage(pages[i], s)
      /\ restored'.values = Placed(s, blocks)
  <2>1. "values" \in DOMAIN DecodedTensor(artifact)
    BY <1>1 DEF IsDecoded
  <2> QED
    BY <1>1, <1>2, <2>1 DEF DecodedTensor, BlocksOf
<1>4. fault # "damaged"
  <2>1. ~Spoiled(pages)
    BY <1>3 DEF Spoiled, ValidPage
  <2> QED
    BY <1>1, <2>1 DEF FibKvInv
<1>5. /\ pages \in Seq(O)
      /\ fault # "lost" => \A page \in O : \E i \in DOMAIN pages : pages[i] = page
  BY <1>1, <1>4 DEF FibKvInv
<1>6. /\ blocks \in Seq(TensorBlocks(s, p, values))
      /\ \A i \in DOMAIN pages : \A j \in DOMAIN pages[i].body.blocks :
             \E k \in DOMAIN blocks : blocks[k] = pages[i].body.blocks[j]
  <2>1. pages \in Seq(Originals(s, p, values)) /\ p.geometry.tokens \in 1 .. s.tokens
    BY <1>2, <1>5 DEF IsTensor
  <2> HIDE DEF blocks, pages
  <2>2. /\ FlattenSeq(BlocksOf(pages)) \in Seq(TensorBlocks(s, p, values))
        /\ \A i \in DOMAIN pages : \A j \in DOMAIN pages[i].body.blocks :
               \E k \in DOMAIN FlattenSeq(BlocksOf(pages)) :
                   FlattenSeq(BlocksOf(pages))[k] = pages[i].body.blocks[j]
    BY <1>2, <2>1, PagesHold
  <2> QED
    BY <2>2 DEF blocks
<1>7. PlacedUpTo(restored'.values, s, blocks, Len(blocks))
  <2> HIDE DEF blocks
  <2> QED
    BY <1>3, <1>6, PlacedIs
<1> HIDE DEF blocks, pages, O
<1>8. ASSUME NEW a \in Places(s)
      PROVE  LET v == values[Position(s, a)]
                 w == restored'.values[Position(s, a)]
                 exact == \/ a.t \in (0 .. p.protected.first - 1)
                                       \cup (s.tokens - p.protected.last .. s.tokens - 1)
                          \/ a.l \in p.protected.layers \/ a.h \in p.protected.heads
                          \/ ~Encodes(v)
             IN  \/ w \in (IF exact THEN {v} ELSE {v, v + Loss})
                 \/ (w = 0 /\ fault = "lost")
  <2> DEFINE x == Position(s, a)
             v == values[x]
             w == restored'.values[x]
             b == BlockAt(s, p, values, a)
             exact == \/ a.t \in (0 .. p.protected.first - 1)
                                   \cup (s.tokens - p.protected.last .. s.tokens - 1)
                      \/ a.l \in p.protected.layers \/ a.h \in p.protected.heads
                      \/ ~Encodes(v)
  <2>1. x \in 1 .. VectorCount(s)
    BY <1>2, PlaceIs
  <2>2. b # Refused /\ p.protected \in Protection
    BY <1>2 DEF IsTensor
  <2>3. DecodedBlock(b) \in {v, v + Loss} /\ (exact => DecodedBlock(b) = v)
    BY <1>2, <2>2, BlockIs
  <2>4. ASSUME NEW j \in 1 .. Len(blocks), Position(s, blocks[j].at) = x
        PROVE  blocks[j] = b
    <3>1. blocks[j] \in TensorBlocks(s, p, values)
      BY <1>6, <2>4
    <3>2. PICK c \in Places(s) : blocks[j] = BlockAt(s, p, values, c)
      BY <3>1 DEF TensorBlocks
    <3>3. blocks[j].at = c
      BY <1>2, <2>2, <3>2, BlockIs DEF IsTensor
    <3>4. c = a
      BY <1>2, <2>4, <3>3, PositionsDiffer
    <3> QED
      BY <3>2, <3>4
  <2>5. fault # "lost" => \E j \in 1 .. Len(blocks) : Position(s, blocks[j].at) = x
    <3> SUFFICES ASSUME fault # "lost"
                 PROVE  \E j \in 1 .. Len(blocks) : Position(s, blocks[j].at) = x
      OBVIOUS
    <3>1. PICK page \in O : \E i \in DOMAIN page.body.blocks : page.body.blocks[i] = b
      <4>1. p.geometry.tokens \in 1 .. s.tokens
        BY <1>2 DEF IsTensor
      <4> QED
        BY <1>2, <4>1, OriginalsHold DEF O
    <3>2. PICK i \in DOMAIN page.body.blocks : page.body.blocks[i] = b
      BY <3>1
    <3>3. PICK m \in DOMAIN pages : pages[m] = page
      BY <1>5
    <3>4. PICK k \in DOMAIN blocks : blocks[k] = b
      BY <1>6, <3>2, <3>3
    <3>5. k \in 1 .. Len(blocks)
      BY <1>6
    <3>6. b.at = a
      BY <1>2, <2>2, BlockIs
    <3> QED
      BY <3>4, <3>5, <3>6
  <2>6. \/ w = 0 /\ \A j \in 1 .. Len(blocks) : Position(s, blocks[j].at) # x
        \/ \E j \in 1 .. Len(blocks) : Position(s, blocks[j].at) = x /\ w = DecodedBlock(blocks[j])
    BY <1>7, <2>1 DEF PlacedUpTo
  <2>7. w = DecodedBlock(b) \/ (w = 0 /\ fault = "lost")
    <3> HIDE DEF b, w, x
    <3> QED
      BY <2>4, <2>5, <2>6
  <2> HIDE DEF b, w, exact, v
  <2>8. w \in (IF exact THEN {v} ELSE {v, v + Loss}) \/ (w = 0 /\ fault = "lost")
    BY <2>3, <2>7
  <2> QED
    BY <2>8 DEF w, exact, v
<1>9. \A a \in Places(s) : Canonical(a) = Position(s, a)
  BY <1>2, StridesAgree DEF Canonical
<1> QED
  BY <1>1, <1>4, <1>8, <1>9 DEF DecodedInPlace, Canonical

(* Every vector of a KV tensor comes back at its own place, exactly where  *)
(* it is protected or refused by the quantizer, whether pages are repeated *)
(* or reordered; a lost one leaves zeros, a damaged one is an error        *)
(* (encode_kv_tensor, decode_kv_pages).                                    *)
THEOREM PagesDecodeInPlace == FibKvSpec => []DecodedInPlace
<1>1. FibKvInit => FibKvInv
  BY DEF FibKvInit, FibKvInv
<1>2. FibKvInv /\ [FibKvNext]_fibKvVars => FibKvInv'
  <2> SUFFICES ASSUME FibKvInv, [FibKvNext]_fibKvVars PROVE FibKvInv'
    OBVIOUS
  <2> DEFINE O == Originals(tensor.shape, tensor.profile, tensor.values)
  <2>1. ASSUME NEW s \in Shapes, NEW p \in KvProfiles(s), NEW values \in Tensors(VectorCount(s)),
               EncodeTensor(s, p, values)
        PROVE  FibKvInv'
    <3>1. p.protected \in Protection
      BY FibKvAssumption
    <3> QED
      BY <2>1, <3>1, EncodeKeeps
  <2>2. ASSUME NEW s \in Shapes, NEW p \in KvProfiles(s), NEW values \in Tensors(VectorCount(s)),
               NEW chosen \in KvPolicies, NEW calibrated \in BOOLEAN,
               EncodeDecided(s, p, chosen, calibrated, values)
        PROVE  FibKvInv'
    <3>1. PICK axis : EncodeTensor(s, [p EXCEPT !.axis = axis, !.protected = chosen.protected],
                                   values)
      BY <2>2 DEF EncodeDecided
    <3> DEFINE q == [p EXCEPT !.axis = axis, !.protected = chosen.protected]
    <3>2. q.protected \in Protection
      <4>1. {"axis", "protected"} \subseteq DOMAIN p /\ chosen.protected \in Protection
        BY FibKvAssumption
      <4> QED
        BY <4>1
    <3> HIDE DEF q
    <3> QED
      BY <3>1, <3>2, EncodeKeeps DEF q
  <2>3. ASSUME artifact # <<>>, fault = "none"
        PROVE  /\ artifact.pages \in Seq(O)
               /\ \A page \in O : \E i \in DOMAIN artifact.pages : artifact.pages[i] = page
    BY <2>3 DEF FibKvInv
  <2>4. ASSUME artifact # <<>>, NEW i \in DOMAIN artifact.pages,
               LosePage(i) \/ RepeatPage(i)
        PROVE  FibKvInv'
    <3>1. fault = "none"
      BY <2>4 DEF LosePage, RepeatPage, Fault
    <3>2. CASE LosePage(i)
      <4>1. RemoveAt(artifact.pages, i) \in Seq(O)
        BY <2>3, <2>4, <3>1, ShuffledPages
      <4> QED
        BY <3>2, <4>1, FaultKeeps DEF LosePage
    <3>3. CASE RepeatPage(i)
      <4> DEFINE pages == Append(artifact.pages, artifact.pages[i])
      <4>1. pages \in Seq(O)
            /\ \A k \in DOMAIN artifact.pages : \E m \in DOMAIN pages : pages[m] = artifact.pages[k]
        <5>1. artifact.pages \in Seq(O)
          BY <2>3, <2>4, <3>1
        <5> HIDE DEF O
        <5> QED
          BY <5>1, ShuffledPages
      <4> HIDE DEF pages
      <4>2. \A page \in O : \E m \in DOMAIN pages : pages[m] = page
        BY <2>3, <2>4, <3>1, <4>1
      <4> QED
        BY <3>3, <4>1, <4>2, FaultKeeps DEF RepeatPage, pages
    <3> QED
      BY <2>4, <3>2, <3>3
  <2>5. ASSUME artifact # <<>>, Len(artifact.pages) > 1, ReversePages PROVE FibKvInv'
    <3> DEFINE pages == Reverse(artifact.pages)
    <3>1. fault = "none"
      BY <2>5 DEF ReversePages, Fault
    <3>2. artifact.pages \in Seq(O)
      BY <2>3, <2>5, <3>1
    <3>3. 1 \in DOMAIN artifact.pages
      <4> HIDE DEF O
      <4> QED
        BY <2>5, <3>2
    <3>4. pages \in Seq(O)
          /\ \A k \in DOMAIN artifact.pages : \E m \in DOMAIN pages : pages[m] = artifact.pages[k]
      <4> HIDE DEF O
      <4> QED
        BY <3>2, <3>3, ShuffledPages
    <3> HIDE DEF pages
    <3>5. \A page \in O : \E m \in DOMAIN pages : pages[m] = page
      BY <2>3, <2>5, <3>1, <3>4
    <3> QED
      BY <2>5, <3>4, <3>5, FaultKeeps DEF ReversePages, pages
  <2>6. ASSUME artifact # <<>>, NEW i \in DOMAIN artifact.pages,
               NEW j \in DOMAIN artifact.pages[i].body.blocks,
               \/ DamageBlock(i, j, artifact.pages[i].body.blocks[j].payload + 1)
               \/ \E a \in Places(artifact.shape) :
                      a # artifact.pages[i].body.blocks[j].at /\ MoveBlock(i, j, a)
        PROVE  FibKvInv'
    <3> DEFINE block == artifact.pages[i].body.blocks[j]
    <3>1. fault = "none"
      BY <2>6 DEF DamageBlock, MoveBlock, Fault
    <3>2. CASE DamageBlock(i, j, block.payload + 1)
      <4>1. block.payload \in Int
        BY <2>6, <3>1, ChangeSpoils
      <4>2. block.payload + 1 # block.payload
        <5> DEFINE v == block.payload
        <5>1. v \in Int
          BY <4>1
        <5> HIDE DEF v
        <5>2. v + 1 # v
          BY <5>1
        <5> QED
          BY <5>2 DEF v
      <4>3. Spoiled([artifact.pages EXCEPT ![i].body.blocks[j].payload = block.payload + 1])
        BY <2>6, <3>1, <4>2, ChangeSpoils
      <4> QED
        BY <3>2, <4>3, FaultKeeps DEF DamageBlock
    <3>3. ASSUME NEW a, a # block.at, MoveBlock(i, j, a) PROVE FibKvInv'
      <4>1. Spoiled([artifact.pages EXCEPT ![i].body.blocks[j].at = a])
        BY <2>6, <3>1, <3>3, ChangeSpoils
      <4> QED
        BY <3>3, <4>1, FaultKeeps DEF MoveBlock
    <3> QED
      BY <2>6, <3>2, <3>3
  <2>7. CASE DecodePages
    BY <2>7, DecodeKeeps
  <2>8. CASE DropTensor
    BY <2>8 DEF DropTensor, FibKvInv
  <2>9. CASE UNCHANGED fibKvVars
    <3>1. DecodedInPlace => DecodedInPlace'
      BY <2>9 DEF fibKvVars, DecodedInPlace, IsDecoded, Canonical
    <3> QED
      BY <2>9, <3>1 DEF fibKvVars, FibKvInv
  <2> HIDE DEF O
  <2> QED
    BY <2>1, <2>2, <2>4, <2>5, <2>6, <2>7, <2>8, <2>9 DEF FibKvNext
<1>3. FibKvInv => DecodedInPlace
  BY DEF FibKvInv, DecodedInPlace, IsDecoded
<1> QED
  BY <1>1, <1>2, <1>3, PTL DEF FibKvSpec
(***************************************************************************)
(* The training of codebooks.                                              *)
(***************************************************************************)
(* Codebooks of n codewords. *)
Words(n) == [1 .. n -> Int]

(* A square is not negative. *)
LEMMA SquaredIs ==
    ASSUME NEW a \in Int, NEW b \in Int
    PROVE  Squared(a, b) \in Nat
<1>1. a - b \in Int
  OBVIOUS
<1> DEFINE d == a - b
<1>2. d * d \in Nat
  <2>1. d \in Int
    BY <1>1
  <2> HIDE DEF d
  <2>2. CASE d >= 0
    BY <2>1, <2>2
  <2>3. CASE d < 0
    <3>1. (0 - d) * (0 - d) = d * d /\ (0 - d) \in Nat
      BY <2>1, <2>3
    <3> QED
      BY <3>1
  <2> QED
    BY <2>1, <2>2, <2>3
<1> QED
  BY <1>2 DEF Squared

(* A codeword whose distance is least is the nearest one. *)
LEMMA NearestIs ==
    ASSUME NEW n \in Nat \ {0}, NEW words \in Words(n), NEW x \in Int
    PROVE  /\ NearestIndex(x, words) \in 1 .. n
           /\ \A d \in 1 .. n :
                  Squared(x, words[NearestIndex(x, words)]) <= Squared(x, words[d])
<1> DEFINE off(d) == Squared(x, words[d])
           T == {off(d) : d \in 1 .. n}
<1>1. \A d \in 1 .. n : off(d) \in Nat
  BY SquaredIs DEF Words
<1> HIDE DEF off
<1>2. PICK v \in T : \A m \in T : v <= m
  <2>1. T \in SUBSET Nat /\ off(1) \in T
    BY <1>1
  <2> QED
    BY <2>1, LeastMember
<1> DEFINE L == {d \in 1 .. n : off(d) = v}
<1>3. PICK c \in L : \A m \in L : c <= m
  <2>1. L # {} /\ L \in SUBSET Nat
    BY <1>2
  <2> QED
    BY <2>1, LeastMember
<1>4. \A d \in 1 .. n : off(c) <= off(d) /\ (d < c => off(c) < off(d))
  <2> SUFFICES ASSUME NEW d \in 1 .. n PROVE off(c) <= off(d) /\ (d < c => off(c) < off(d))
    OBVIOUS
  <2>1. off(c) = v /\ v <= off(d) /\ v \in Nat /\ off(d) \in Nat
    BY <1>1, <1>2, <1>3
  <2>2. d < c => off(d) # v
    BY <1>3
  <2> QED
    BY <2>1, <2>2
<1>5. DOMAIN words = 1 .. n /\ c \in 1 .. n
  BY <1>3 DEF Words
<1> QED
  BY <1>4, <1>5 DEF NearestIndex, off

Errors(words, xs, to) == [i \in DOMAIN xs |-> Squared(xs[i], words[to[i]])]
NearestOf(words, xs) == [i \in DOMAIN xs |-> NearestIndex(xs[i], words)]

(* The errors of samples against the codewords given to them. *)
LEMMA ErrorsAre ==
    ASSUME NEW n \in Nat \ {0}, NEW words \in Words(n), NEW xs \in Seq(Int),
           NEW to \in [DOMAIN xs -> 1 .. n]
    PROVE  \A i \in DOMAIN xs : Errors(words, xs, to)[i] \in Int
<1> SUFFICES ASSUME NEW i \in DOMAIN xs PROVE Squared(xs[i], words[to[i]]) \in Int
  BY DEF Errors
<1>1. xs[i] \in Int /\ words[to[i]] \in Int
  BY DEF Words
<1>2. Squared(xs[i], words[to[i]]) \in Nat
  BY <1>1, SquaredIs
<1> QED
  BY <1>2

(* The positions of a sequence. *)
LEMMA DomainIsFinite ==
    ASSUME NEW xs \in Seq(Int)
    PROVE  IsFiniteSet(DOMAIN xs) /\ Cardinality(DOMAIN xs) = Len(xs) /\ Len(xs) \in Nat
<1>1. DOMAIN xs = 1 .. Len(xs) /\ Len(xs) \in Nat
  OBVIOUS
<1> QED
  BY <1>1, FS_Interval

(* Every sample has a nearest codeword. *)
LEMMA NearestOfIs ==
    ASSUME NEW n \in Nat \ {0}, NEW words \in Words(n), NEW xs \in Seq(Int)
    PROVE  NearestOf(words, xs) \in [DOMAIN xs -> 1 .. n]
<1>1. \A i \in DOMAIN xs : xs[i] \in Int
  OBVIOUS
<1> QED
  BY <1>1, NearestIs DEF NearestOf

(* The distortion is the sum of the errors against the nearest codewords. *)
LEMMA DistortionIs ==
    ASSUME NEW n \in Nat \ {0}, NEW words \in Words(n), NEW xs \in Seq(Int)
    PROVE  /\ Distortion(words, xs) = Total(Errors(words, xs, NearestOf(words, xs)), DOMAIN xs)
           /\ Distortion(words, xs) \in Int
<1> DEFINE S == DOMAIN xs
           G == Errors(words, xs, NearestOf(words, xs))
           Solves(f) == f = [s \in SUBSET S |->
                IF s = {} THEN 0
                ELSE Squared(xs[Picked(s)], words[NearestIndex(xs[Picked(s)], words)])
                        + f[s \ {Picked(s)}]]
           iter == CHOOSE f : Solves(f)
<1>1. IsFiniteSet(S) /\ G \in [S -> Int]
  <2>1. G = [i \in S |-> G[i]]
    BY DEF Errors
  <2> QED
    BY <2>1, DomainIsFinite, NearestOfIs, ErrorsAre
<1>2. \A s \in SUBSET S : s # {} =>
        G[Picked(s)] = Squared(xs[Picked(s)], words[NearestIndex(xs[Picked(s)], words)])
  BY DEF Errors, NearestOf, Picked
<1> HIDE DEF G
<1>3. \E f : Solves(f)
  <2>1. PICK f \in [SUBSET S -> Int] : SumsAll(f, S, G)
    BY <1>1, SumsExist
  <2> QED
    BY <1>2, <2>1 DEF Sums, SumsAll
<1>4. Solves(iter)
  BY <1>3
<1>5. Distortion(words, xs) = iter[S]
  BY DEF Distortion, MapThenSumSet, MapThenFoldSet, Picked
<1> HIDE DEF iter
<1>6. SumsAll(iter, S, G)
  BY <1>2, <1>4 DEF Sums, SumsAll
<1>7. iter[S] = Total(G, S) /\ Total(G, S) \in Int
  BY <1>1, <1>6, TotalIs
<1> QED
  BY <1>5, <1>7 DEF G

(* No other choice of codewords does better than the nearest ones. *)
LEMMA DistortionIsLeast ==
    ASSUME NEW n \in Nat \ {0}, NEW words \in Words(n), NEW xs \in Seq(Int),
           NEW to \in [DOMAIN xs -> 1 .. n]
    PROVE  Distortion(words, xs) <= Total(Errors(words, xs, to), DOMAIN xs)
<1> DEFINE S == DOMAIN xs
           G == Errors(words, xs, NearestOf(words, xs))
           H == Errors(words, xs, to)
<1>1. IsFiniteSet(S)
  BY DomainIsFinite
<1>2. \A i \in S : G[i] \in Int /\ H[i] \in Int
  BY NearestOfIs, ErrorsAre
<1>3. ASSUME NEW i \in S PROVE G[i] <= H[i]
  <2>1. xs[i] \in Int /\ to[i] \in 1 .. n
    OBVIOUS
  <2> QED
    BY <2>1, NearestIs DEF Errors, NearestOf
<1> HIDE DEF G, H
<1>4. Total(G, S) <= Total(H, S)
  BY <1>1, <1>2, <1>3, TotalOrder
<1> QED
  BY <1>4, DistortionIs DEF G, H

Part(S, part, c) == {i \in S : part[i] = c}

(* A sum over cells is a sum over all. *)
LEMMA TotalByCells ==
    ASSUME NEW S, IsFiniteSet(S), NEW n \in Nat, NEW part \in [S -> 1 .. n], NEW G, NEW H,
           \A i \in S : G[i] \in Int /\ H[i] \in Int,
           \A c \in 1 .. n :
               Total(G, Part(S, part, c)) <= Total(H, Part(S, part, c))
    PROVE  Total(G, S) <= Total(H, S)
<1> DEFINE cell(c) == {i \in S : part[i] = c}
           first(c) == {i \in S : part[i] <= c}
           Done == {c \in Nat : c <= n => Total(G, first(c)) <= Total(H, first(c))}
<1>1. \A T \in SUBSET S : IsFiniteSet(T) /\ Total(G, T) \in Int /\ Total(H, T) \in Int
  BY FS_Subset, TotalIs
<1>2. 0 \in Done
  <2>1. first(0) = {}
    OBVIOUS
  <2> QED
    BY <2>1, TotalOfNone
<1>3. ASSUME NEW c \in Nat, c \in Done PROVE c + 1 \in Done
  <2> SUFFICES ASSUME c + 1 <= n PROVE Total(G, first(c + 1)) <= Total(H, first(c + 1))
    OBVIOUS
  <2>1. first(c + 1) = first(c) \cup cell(c + 1) /\ first(c) \cap cell(c + 1) = {}
        /\ first(c) \in SUBSET S /\ cell(c + 1) \in SUBSET S
    OBVIOUS
  <2>2. Total(G, first(c)) <= Total(H, first(c))
    BY <1>3
  <2>3. Total(G, cell(c + 1)) <= Total(H, cell(c + 1))
    BY DEF Part
  <2> HIDE DEF first, cell
  <2>4. IsFiniteSet(first(c)) /\ IsFiniteSet(cell(c + 1))
        /\ \A i \in first(c) \cup cell(c + 1) : G[i] \in Int /\ H[i] \in Int
    BY <1>1, <2>1
  <2>5. Total(G, first(c + 1)) = Total(G, first(c)) + Total(G, cell(c + 1))
    BY <2>1, <2>4, TotalUnion
  <2>6. Total(H, first(c + 1)) = Total(H, first(c)) + Total(H, cell(c + 1))
    BY <2>1, <2>4, TotalUnion
  <2>7. /\ Total(G, first(c)) \in Int /\ Total(H, first(c)) \in Int
        /\ Total(G, cell(c + 1)) \in Int /\ Total(H, cell(c + 1)) \in Int
    BY <1>1, <2>1
  <2> QED
    BY <2>2, <2>3, <2>5, <2>6, <2>7
<1>4. first(n) = S
  OBVIOUS
<1> HIDE DEF Done, first
<1>5. n \in Done
  BY <1>2, <1>3, NatSetInduction
<1> QED
  BY <1>4, <1>5 DEF Done
(***************************************************************************)
(* The mean of a cell.                                                     *)
(***************************************************************************)
LEMMA SampleSumIs ==
    ASSUME NEW xs \in Seq(Int), NEW cell \in SUBSET DOMAIN xs
    PROVE  MapThenSumSet(LAMBDA i : xs[i], cell) = Total(xs, cell) /\ Total(xs, cell) \in Int
<1> DEFINE Solves(f) == f = [s \in SUBSET cell |->
                IF s = {} THEN 0 ELSE xs[Picked(s)] + f[s \ {Picked(s)}]]
           iter == CHOOSE f : Solves(f)
           G == [i \in cell |-> xs[i]]
<1>1. IsFiniteSet(cell) /\ G \in [cell -> Int] /\ \A i \in cell : xs[i] \in Int
  BY DomainIsFinite, FS_Subset
<1>2. \A s \in SUBSET cell : s # {} => G[Picked(s)] = xs[Picked(s)]
  BY DEF Picked
<1> HIDE DEF G
<1>3. \E f : Solves(f)
  <2>1. PICK f \in [SUBSET cell -> Int] : SumsAll(f, cell, G)
    BY <1>1, SumsExist
  <2> QED
    BY <1>2, <2>1 DEF Sums, SumsAll
<1>4. Solves(iter)
  BY <1>3
<1>5. MapThenSumSet(LAMBDA i : xs[i], cell) = iter[cell]
  BY DEF MapThenSumSet, MapThenFoldSet, Picked
<1> HIDE DEF iter
<1>6. SumsAll(iter, cell, xs)
  BY <1>4 DEF Sums, SumsAll
<1>7. iter[cell] = Total(xs, cell) /\ Total(xs, cell) \in Int
  BY <1>1, <1>6, TotalIs
<1> QED
  BY <1>5, <1>7

(* The mean of the samples of a cell is an integer, by the assumption. *)
LEMMA MeanIs ==
    ASSUME NEW xs \in Samples, NEW cell \in SUBSET DOMAIN xs, cell # {}
    PROVE  LET m == MapThenSumSet(LAMBDA i : xs[i], cell) \div Cardinality(cell)
           IN  m \in Int /\ Total(xs, cell) = m * Cardinality(cell)
<1> DEFINE t == MapThenSumSet(LAMBDA i : xs[i], cell)
           k == Cardinality(cell)
<1>1. xs \in Seq(Int) /\ t % k = 0
  BY LloydAssumption
<1>2. t = Total(xs, cell) /\ t \in Int
  BY <1>1, SampleSumIs
<1>3. k \in Nat \ {0}
  BY <1>1, DomainIsFinite, FS_Subset, FS_CardinalityType, FS_EmptySet
<1>4. t \div k \in Int /\ t = (t \div k) * k
  <2> HIDE DEF t, k
  <2>1. t \div k \in Int
    BY <1>2, <1>3
  <2>2. t = (t \div k) * k + (t % k)
    BY <1>2, <1>3
  <2>3. (t \div k) * k \in Int
    BY <1>3, <2>1
  <2> QED
    BY <1>1, <2>1, <2>2, <2>3
<1> QED
  BY <1>2, <1>4

(* Nothing is nearer to the members of a cell together than its mean, and  *)
(* what is one away from the mean is worse by one for each of them.        *)
LEMMA MeanIsLeast ==
    ASSUME NEW xs \in Seq(Int), NEW cell \in SUBSET DOMAIN xs, NEW m \in Int,
           Total(xs, cell) = m * Cardinality(cell), NEW y \in Int, NEW w \in Int,
           NEW b \in Nat, (w - m) * (w - m) <= b,
           NEW G, \A i \in cell : G[i] = Squared(xs[i], y) + b,
           NEW K, \A i \in cell : K[i] = Squared(xs[i], w)
    PROVE  Total(K, cell) <= Total(G, cell)
<1> DEFINE k == Cardinality(cell)
           p == 2 * (y - w)
           q == w * w - y * y - b
<1>1. IsFiniteSet(cell) /\ k \in Nat /\ \A i \in cell : xs[i] \in Int
  BY DomainIsFinite, FS_Subset, FS_CardinalityType
<1>2. ASSUME NEW i \in cell
      PROVE  G[i] \in Int /\ K[i] \in Int /\ K[i] = G[i] + p * xs[i] + q
  <2> DEFINE x == xs[i]
  <2>1. x \in Int
    BY <1>1
  <2>2. G[i] = (x - y) * (x - y) + b /\ K[i] = (x - w) * (x - w)
    BY DEF Squared
  <2> HIDE DEF x
  <2>3. (x - y) * (x - y) + b \in Int /\ (x - w) * (x - w) \in Int
    BY <2>1
  <2>4. (x - w) * (x - w) = (x - y) * (x - y) + b + p * x + q
    BY <2>1
  <2> QED
    BY <2>2, <2>3, <2>4 DEF x
<1>3. p \in Int /\ q \in Int
  OBVIOUS
<1>4. Total(K, cell) = Total(G, cell) + p * Total(xs, cell) + q * k
  <2> HIDE DEF p, q
  <2> QED
    BY <1>1, <1>2, <1>3, TotalCombines
<1>5. p * (m * k) + q * k <= 0
  <2>1. p * (m * k) + q * k = (p * m + q) * k
    <3> HIDE DEF p, q, k
    <3> QED
      BY <1>1, <1>3
  <2>2. p * m + q = (w - m) * (w - m) - b - (y - m) * (y - m)
    OBVIOUS
  <2>3. (y - m) * (y - m) \in Nat
    BY SquaredIs DEF Squared
  <2>4. p * m + q <= 0 /\ p * m + q \in Int
    BY <2>2, <2>3
  <2> DEFINE r == 0 - (p * m + q)
  <2>5. r \in Nat /\ r * k \in Nat
    <3>1. r \in Nat
      BY <2>4
    <3> HIDE DEF r
    <3> QED
      BY <1>1, <3>1
  <2>6. (p * m + q) * k = 0 - r * k
    BY <1>1, <2>4
  <2> QED
    BY <2>1, <2>5, <2>6
<1>6. Total(G, cell) \in Int /\ p * (m * k) \in Int /\ q * k \in Int
  <2>1. Total(G, cell) \in Int
    BY <1>1, <1>2, TotalIs
  <2>2. m * k \in Int
    BY <1>1
  <2> HIDE DEF p, q, k
  <2> QED
    BY <1>1, <1>3, <2>1, <2>2
<1> HIDE DEF p, q
<1> QED
  BY <1>4, <1>5, <1>6
(***************************************************************************)
(* Cells and their repair.                                                 *)
(***************************************************************************)
LEMMA CellIs ==
    ASSUME NEW n \in Nat \ {0}, NEW words \in Words(n), NEW xs \in Seq(Int), NEW c \in 1 .. n
    PROVE  /\ Cell(c, words, xs) = {i \in DOMAIN xs : NearestOf(words, xs)[i] = c}
           /\ IsFiniteSet(Cell(c, words, xs)) /\ Cardinality(Cell(c, words, xs)) \in Nat
           /\ (Cardinality(Cell(c, words, xs)) = 0 <=> Cell(c, words, xs) = {})
           /\ MapThenSumSet(LAMBDA i : Squared(xs[i], words[c]), Cell(c, words, xs)) \in Int
<1> DEFINE cell == Cell(c, words, xs)
           Solves(f) == f = [s \in SUBSET cell |->
                IF s = {} THEN 0 ELSE Squared(xs[Picked(s)], words[c]) + f[s \ {Picked(s)}]]
           iter == CHOOSE f : Solves(f)
           G == [i \in cell |-> Squared(xs[i], words[c])]
<1>1. cell = {i \in DOMAIN xs : NearestOf(words, xs)[i] = c} /\ cell \in SUBSET DOMAIN xs
  BY DEF Cell, NearestOf
<1>2. IsFiniteSet(cell) /\ Cardinality(cell) \in Nat /\ (Cardinality(cell) = 0 <=> cell = {})
  BY <1>1, DomainIsFinite, FS_Subset, FS_CardinalityType, FS_EmptySet
<1>3. G \in [cell -> Int]
  <2> SUFFICES ASSUME NEW i \in cell PROVE Squared(xs[i], words[c]) \in Int
    OBVIOUS
  <2>1. xs[i] \in Int /\ words[c] \in Int
    BY <1>1 DEF Words
  <2>2. Squared(xs[i], words[c]) \in Nat
    BY <2>1, SquaredIs
  <2> QED
    BY <2>2
<1>4. \A s \in SUBSET cell : s # {} => G[Picked(s)] = Squared(xs[Picked(s)], words[c])
  BY DEF Picked
<1> HIDE DEF G, cell
<1>5. \E f : Solves(f)
  <2>1. PICK f \in [SUBSET cell -> Int] : SumsAll(f, cell, G)
    BY <1>2, <1>3, SumsExist
  <2>2. \A s \in SUBSET cell : f[s] =
          IF s = {} THEN 0 ELSE Squared(xs[Picked(s)], words[c]) + f[s \ {Picked(s)}]
    BY <1>4, <2>1 DEF Sums, SumsAll
  <2>3. Solves(f)
    BY <2>1, <2>2
  <2> QED
    BY <2>3
<1>6. Solves(iter)
  BY <1>5
<1>7. MapThenSumSet(LAMBDA i : Squared(xs[i], words[c]), cell) = iter[cell]
  BY DEF MapThenSumSet, MapThenFoldSet, Picked
<1> HIDE DEF iter
<1>8. SumsAll(iter, cell, G)
  BY <1>4, <1>6 DEF Sums, SumsAll
<1>9. iter[cell] \in Int
  BY <1>2, <1>3, <1>8, TotalIs
<1> QED
  BY <1>1, <1>2, <1>7, <1>9 DEF cell

(* The last of the greatest. *)
LEMMA GreatestOf ==
    ASSUME NEW n \in Nat, NEW T \in SUBSET (1 .. n), T # {}, NEW f, \A c \in T : f[c] \in Int
    PROVE  \E c \in T : \A d \in T : f[d] <= f[c] /\ (d > c => f[d] < f[c])
<1> DEFINE Best(U, c) == \A d \in U : f[d] <= f[c] /\ (d > c => f[d] < f[c])
           Done == {k \in Nat : \A U \in SUBSET T :
                       U # {} /\ (\A d \in U : d <= k) => \E c \in U : Best(U, c)}
<1>1. 0 \in Done
  <2> SUFFICES ASSUME NEW U \in SUBSET T, U # {}, \A d \in U : d <= 0 PROVE FALSE
    OBVIOUS
  <2>1. PICK d \in U : TRUE
    OBVIOUS
  <2> QED
    BY <2>1
<1>2. ASSUME NEW k \in Nat, k \in Done PROVE k + 1 \in Done
  <2> SUFFICES ASSUME NEW U \in SUBSET T, U # {}, \A d \in U : d <= k + 1
               PROVE  \E c \in U : Best(U, c)
    OBVIOUS
  <2>1. CASE k + 1 \notin U
    <3>1. \A d \in U : d <= k
      BY <2>1
    <3> QED
      BY <1>2, <3>1
  <2>2. CASE U = {k + 1}
    <3>1. Best(U, k + 1)
      BY <2>2
    <3> QED
      BY <2>2, <3>1
  <2>3. CASE k + 1 \in U /\ U # {k + 1}
    <3> DEFINE V == U \ {k + 1}
    <3>1. V \in SUBSET T /\ V # {} /\ \A d \in V : d <= k
      BY <2>3
    <3>2. PICK c \in V : Best(V, c)
      BY <1>2, <3>1
    <3>3. f[c] \in Int /\ f[k + 1] \in Int /\ \A d \in V : f[d] \in Int
      BY <2>3
    <3>4. CASE f[c] <= f[k + 1]
      <4>1. ASSUME NEW d \in U PROVE f[d] <= f[k + 1] /\ ~(d > k + 1)
        BY <3>2, <3>3, <3>4
      <4>2. Best(U, k + 1)
        BY <4>1
      <4> QED
        BY <2>3, <4>2
    <3>5. CASE ~(f[c] <= f[k + 1])
      <4>1. ASSUME NEW d \in U PROVE f[d] <= f[c] /\ (d > c => f[d] < f[c])
        <5>1. CASE d \in V
          BY <3>2, <5>1
        <5>2. CASE d = k + 1
          BY <3>3, <3>5, <5>2
        <5> QED
          BY <5>1, <5>2
      <4> QED
        BY <4>1
    <3> QED
      BY <3>4, <3>5
  <2> QED
    BY <2>1, <2>2, <2>3
<1> HIDE DEF Done
<1>3. n \in Done
  BY <1>1, <1>2, NatSetInduction
<1> QED
  BY <1>3 DEF Done

CellStates(B) == [count : Int, distortion : Int, farthest : B]
Repair(n) == [empty : 1 .. n, donor : 1 .. n]

(* What is known of a codebook under repair, B the farthest samples.       *)
RepairState(n, B) ==
    [ok : BOOLEAN, words : Words(n), cells : [1 .. n -> CellStates(B)], events : Seq(Repair(n))]

(* The donor of a repair is a cell of more than one sample. *)
LEMMA DonorIs ==
    ASSUME NEW n \in Nat \ {0}, NEW B, NEW cells \in [1 .. n -> CellStates(B)],
           Donors(cells) # {}
    PROVE  Donor(cells) \in 1 .. n /\ cells[Donor(cells)].count > 1
<1> DEFINE f == [c \in 1 .. n |-> cells[c].distortion]
<1>1. Donors(cells) \in SUBSET (1 .. n) /\ \A c \in Donors(cells) : f[c] \in Int
  BY DEF Donors, CellStates
<1> HIDE DEF f
<1>2. PICK c \in Donors(cells) :
        \A d \in Donors(cells) : f[d] <= f[c] /\ (d > c => f[d] < f[c])
  BY <1>1, GreatestOf
<1>3. \A d \in Donors(cells) : f[d] = cells[d].distortion
  BY <1>1 DEF f
<1>4. Donor(cells) \in Donors(cells)
  BY <1>2, <1>3 DEF Donor
<1> QED
  BY <1>1, <1>4 DEF Donors

(* A split takes a codeword that cells are nearest to one to the left and  *)
(* puts the empty one to the right of it, or the other way round.          *)
SplitAs(st, r, e, donor, toward) ==
    /\ donor # e /\ st.cells[donor].count > 1
    /\ r.words[donor] = st.words[donor] - toward
    /\ r.words[e] = st.words[donor] + toward
    /\ r.cells[e].count = 1 /\ r.cells[donor].count = st.cells[donor].count - 1
    /\ \A d \in DOMAIN st.words \ {e, donor} :
           r.words[d] = st.words[d] /\ r.cells[d] = st.cells[d]

(* A repair that succeeds splits a cell. *)
LEMMA SplitIs ==
    ASSUME NEW n \in Nat \ {0}, NEW B, NEW st \in RepairState(n, B), NEW e \in 1 .. n
    PROVE  /\ Split(st, e) \in RepairState(n, B)
           /\ Split(st, e).ok /\ st.cells[e].count = 0 =>
                  /\ st.ok /\ Len(Split(st, e).events) = Len(st.events) + 1
                  /\ \E donor \in 1 .. n : \E toward \in {-1, 1} :
                         SplitAs(st, Split(st, e), e, donor, toward)
<1> DEFINE r == Split(st, e)
           donor == Donor(st.cells)
           residual == st.cells[donor].farthest - st.words[donor]
           toward == IF residual > 0 THEN Step ELSE -Step
           stuck == ~st.ok \/ Donors(st.cells) = {} \/ residual = 0
<1>1. st.ok \in BOOLEAN /\ st.words \in Words(n) /\ st.cells \in [1 .. n -> CellStates(B)]
      /\ st.events \in Seq(Repair(n))
  BY DEF RepairState
<1>2. CASE stuck
  <2>1. r = [st EXCEPT !.ok = FALSE]
    BY <1>2 DEF Split
  <2>2. r \in RepairState(n, B) /\ ~r.ok
    BY <2>1 DEF RepairState
  <2> QED
    BY <2>2
<1>3. CASE ~stuck
  <2>1. donor \in 1 .. n /\ st.cells[donor].count > 1
    BY <1>1, <1>3, DonorIs
  <2>2. toward \in {-1, 1}
    BY DEF Step
  <2> DEFINE
        mid == [st.cells EXCEPT ![donor] = Recounted(@, @.count - 1)]
        pulled == [st.words EXCEPT ![donor] = @ - toward]
  <2>3. r = [ok |-> TRUE,
             words |-> [pulled EXCEPT ![e] = st.words[donor] + toward],
             cells |-> [mid EXCEPT ![e] = Recounted(@, 1)],
             events |-> Append(st.events, [empty |-> e, donor |-> donor])]
    <3>1. r = [ok |-> TRUE,
               words |-> [st.words EXCEPT
                             ![donor] = @ - toward, ![e] = st.words[donor] + toward],
               cells |-> [st.cells EXCEPT
                             ![donor] = Recounted(@, @.count - 1), ![e] = Recounted(@, 1)],
               events |-> Append(st.events, [empty |-> e, donor |-> donor])]
      BY <1>3 DEF Split
    <3>2. [st.words EXCEPT ![donor] = @ - toward, ![e] = st.words[donor] + toward]
            = [pulled EXCEPT ![e] = st.words[donor] + toward]
      OBVIOUS
    <3>3. [st.cells EXCEPT ![donor] = Recounted(@, @.count - 1), ![e] = Recounted(@, 1)]
            = [mid EXCEPT ![e] = Recounted(@, 1)]
      OBVIOUS
    <3> QED
      BY <3>1, <3>2, <3>3
  <2> HIDE DEF toward, donor, r
  <2>4. /\ r.ok = st.ok
        /\ r.words = [pulled EXCEPT ![e] = st.words[donor] + toward]
        /\ r.cells = [mid EXCEPT ![e] = Recounted(@, 1)]
        /\ r.events = Append(st.events, [empty |-> e, donor |-> donor])
        /\ r = [ok |-> r.ok, words |-> r.words, cells |-> r.cells, events |-> r.events]
    BY <1>1, <1>3, <2>3
  <2>5. r.words \in Words(n)
    <3>1. st.words[donor] - toward \in Int /\ st.words[donor] + toward \in Int
      BY <1>1, <2>1, <2>2 DEF Words
    <3>2. pulled \in Words(n)
      BY <1>1, <3>1 DEF Words
    <3> QED
      BY <2>4, <3>1, <3>2 DEF Words
  <2>a. /\ \A x \in CellStates(B), k \in Int : Recounted(x, k) \in CellStates(B)
        /\ \A x, k : Recounted(x, k).count = k
    BY DEF CellStates, Recounted
  <2>b. mid \in [1 .. n -> CellStates(B)] /\ r.cells = [mid EXCEPT ![e] = Recounted(@, 1)]
    <3>1. st.cells[donor] \in CellStates(B) /\ st.cells[donor].count - 1 \in Int
      BY <1>1, <2>1 DEF CellStates
    <3>2. Recounted(st.cells[donor], st.cells[donor].count - 1) \in CellStates(B)
      BY <2>a, <3>1
    <3> QED
      BY <1>1, <2>1, <2>4, <3>2
  <2>6. r.cells \in [1 .. n -> CellStates(B)]
    <3> HIDE DEF mid
    <3>1. mid[e] \in CellStates(B)
      BY <2>b
    <3>2. Recounted(mid[e], 1) \in CellStates(B)
      BY <2>a, <3>1
    <3> QED
      BY <2>b, <3>2
  <2>7. r.events \in Seq(Repair(n)) /\ Len(r.events) = Len(st.events) + 1
    BY <1>1, <2>1, <2>4 DEF Repair
  <2>8. r \in RepairState(n, B)
    BY <1>1, <2>4, <2>5, <2>6, <2>7 DEF RepairState
  <2>9. st.cells[e].count = 0 => SplitAs(st, r, e, donor, toward)
    <3> SUFFICES ASSUME st.cells[e].count = 0 PROVE SplitAs(st, r, e, donor, toward)
      OBVIOUS
    <3>1. donor # e
      BY <2>1
    <3>2. r.words[donor] = st.words[donor] - toward /\ r.words[e] = st.words[donor] + toward
      BY <1>1, <2>1, <2>4, <3>1 DEF Words
    <3>3. r.cells[e].count = 1 /\ r.cells[donor].count = st.cells[donor].count - 1
      <4>1. r.cells[e] = Recounted(mid[e], 1) /\ r.cells[donor] = mid[donor]
        BY <2>1, <2>b, <3>1
      <4>2. mid[donor] = Recounted(st.cells[donor], st.cells[donor].count - 1)
        BY <1>1, <2>1
      <4> QED
        BY <2>a, <4>1, <4>2
    <3>4. \A d \in DOMAIN st.words \ {e, donor} :
             r.words[d] = st.words[d] /\ r.cells[d] = st.cells[d]
      BY <1>1, <2>1, <2>4 DEF Words
    <3> QED
      BY <2>1, <3>1, <3>2, <3>3, <3>4 DEF SplitAs
  <2> QED
    BY <1>3, <2>1, <2>2, <2>7, <2>8, <2>9 DEF r
<1> QED
  BY <1>2, <1>3
Close(m, w) == w - m \in {-1, 0, 1}

(* After k repairs: the cells yet to be repaired are empty, and next to    *)
(* where any cell's codeword was there is one that is not.                 *)
Repaired(st, st0, empty, k) ==
    st.ok =>
        /\ Len(st.events) = k
        /\ \A j \in k + 1 .. Len(empty) : st.cells[empty[j]].count = 0
        /\ \A c \in DOMAIN st0.words : st0.cells[c].count > 0 =>
               \E d \in DOMAIN st0.words :
                   st.cells[d].count > 0 /\ Close(st0.words[c], st.words[d])

(* One more repair. *)
LEMMA SplitKeeps ==
    ASSUME NEW n \in Nat \ {0}, NEW B, NEW st0 \in RepairState(n, B), NEW empty \in Seq(1 .. n),
           \A i, j \in 1 .. Len(empty) : i # j => empty[i] # empty[j],
           NEW k \in Nat, k + 1 <= Len(empty),
           NEW st \in RepairState(n, B), Repaired(st, st0, empty, k)
    PROVE  Repaired(Split(st, empty[k + 1]), st0, empty, k + 1)
<1> DEFINE e == empty[k + 1]
           r == Split(st, e)
<1> SUFFICES ASSUME r.ok PROVE Repaired(r, st0, empty, k + 1)
  BY DEF Repaired
<1>1. e \in 1 .. n /\ Len(empty) \in Nat /\ k + 1 \in 1 .. Len(empty)
  OBVIOUS
<1>2. r \in RepairState(n, B)
  BY <1>1, SplitIs
<1>3. /\ DOMAIN st0.words = 1 .. n /\ DOMAIN st.words = 1 .. n
      /\ \A c \in 1 .. n : st0.words[c] \in Int /\ st.words[c] \in Int
  BY DEF RepairState, Words
<1>4. st.ok
  <2>1. CASE st.ok
    BY <2>1
  <2>2. CASE ~st.ok
    <3>1. r = [st EXCEPT !.ok = FALSE]
      BY <2>2 DEF Split
    <3>2. ~r.ok
      BY <3>1 DEF RepairState
    <3> QED
      BY <3>2
  <2> QED
    BY <2>1, <2>2
<1>5. /\ Len(st.events) = k
      /\ \A j \in k + 1 .. Len(empty) : st.cells[empty[j]].count = 0
      /\ \A c \in 1 .. n : st0.cells[c].count > 0 =>
             \E d \in 1 .. n : st.cells[d].count > 0 /\ Close(st0.words[c], st.words[d])
  BY <1>3, <1>4 DEF Repaired
<1>6. st.cells[e].count = 0
  BY <1>1, <1>5
<1> HIDE DEF r, e
<1>7. /\ Len(r.events) = Len(st.events) + 1
      /\ \E donor \in 1 .. n : \E toward \in {-1, 1} : SplitAs(st, r, e, donor, toward)
  BY <1>1, <1>6, SplitIs DEF r
<1>8. PICK donor \in 1 .. n, toward \in {-1, 1} : SplitAs(st, r, e, donor, toward)
  BY <1>7
<1>9. ASSUME NEW j \in (k + 1) + 1 .. Len(empty) PROVE r.cells[empty[j]].count = 0
  <2>1. j \in k + 1 .. Len(empty) /\ j \in 1 .. Len(empty) /\ j # k + 1
    BY <1>1
  <2>2. st.cells[empty[j]].count = 0 /\ empty[j] # e /\ empty[j] \in 1 .. n
    BY <1>1, <1>5, <2>1 DEF e
  <2>3. empty[j] # donor
    BY <1>8, <2>2 DEF SplitAs
  <2> QED
    BY <1>3, <1>8, <2>2, <2>3 DEF SplitAs
<1>10. ASSUME NEW c \in 1 .. n, st0.cells[c].count > 0
       PROVE  \E d \in 1 .. n : r.cells[d].count > 0 /\ Close(st0.words[c], r.words[d])
  <2>1. PICK d \in 1 .. n : st.cells[d].count > 0 /\ Close(st0.words[c], st.words[d])
    BY <1>5, <1>10
  <2>2. d # e
    BY <1>6, <2>1
  <2>3. CASE d # donor
    <3>1. r.words[d] = st.words[d] /\ r.cells[d] = st.cells[d]
      BY <1>3, <1>8, <2>2, <2>3 DEF SplitAs
    <3> QED
      BY <2>1, <3>1
  <2>4. CASE d = donor
    <3>1. /\ r.words[donor] = st.words[donor] - toward /\ r.words[e] = st.words[donor] + toward
          /\ r.cells[e].count = 1 /\ r.cells[donor].count = st.cells[donor].count - 1
          /\ st.cells[donor].count > 1
      BY <1>8 DEF SplitAs
    <3>2. st.cells[donor].count \in Int
      BY DEF RepairState, CellStates
    <3>3. st.words[donor] \in Int /\ st0.words[c] \in Int
      BY <1>3
    <3>4. Close(st0.words[c], r.words[donor]) \/ Close(st0.words[c], r.words[e])
      <4> DEFINE a == st.words[donor]
                 m == st0.words[c]
                 lo == r.words[donor]
                 hi == r.words[e]
      <4>1. a - m \in {-1, 0, 1} /\ a \in Int /\ m \in Int
        BY <2>1, <2>4, <3>3 DEF Close
      <4>2. lo = a - toward /\ hi = a + toward
        BY <3>1
      <4> HIDE DEF a, m, lo, hi
      <4>3. lo - m \in {-1, 0, 1} \/ hi - m \in {-1, 0, 1}
        BY <4>1, <4>2
      <4> QED
        BY <4>3 DEF Close, m, lo, hi
    <3>5. r.cells[donor].count > 0 /\ r.cells[e].count > 0
      BY <3>1, <3>2
    <3> QED
      BY <1>1, <3>4, <3>5
  <2> QED
    BY <2>3, <2>4
<1> QED
  BY <1>1, <1>3, <1>5, <1>7, <1>9, <1>10 DEF Repaired

(* All repairs of an iteration, in their order. *)
LEMMA RepairsKeep ==
    ASSUME NEW n \in Nat \ {0}, NEW B, NEW st0 \in RepairState(n, B), NEW empty \in Seq(1 .. n),
           \A i, j \in 1 .. Len(empty) : i # j => empty[i] # empty[j],
           Repaired(st0, st0, empty, 0)
    PROVE  /\ FoldLeft(Split, st0, empty) \in RepairState(n, B)
           /\ Repaired(FoldLeft(Split, st0, empty), st0, empty, Len(empty))
<1> DEFINE N == Len(empty)
           A == RepairState(n, B)
           F == [p \in (1 .. N) \X A |-> Split(p[2], empty[p[1]])]
           Solves(f) == f = [t \in SUBSET (DOMAIN empty) |->
                               IF t = {} THEN st0 ELSE Split(f[t \ {Max(t)}], empty[Max(t)])]
           iter == CHOOSE f : Solves(f)
<1>1. N \in Nat /\ DOMAIN empty = 1 .. N /\ \A i \in 1 .. N : empty[i] \in 1 .. n
  OBVIOUS
<1>2. \A st \in A, e \in 1 .. n : Split(st, e) \in A
  BY SplitIs
<1>3. \E f : Solves(f)
  <2> HIDE DEF A
  <2>1. F \in [(1 .. N) \X A -> A] /\ st0 \in A
    BY <1>1, <1>2 DEF A
  <2>2. PICK f \in [SUBSET (1 .. N) -> A] : FoldsSets(f, N, st0, F)
    <3>1. HasSetFold(N, A, st0, F)
      <4> HIDE DEF F
      <4> QED
        BY <1>1, <2>1, SetFoldExists
    <3> QED
      BY <3>1 DEF HasSetFold
  <2>3. \A t \in SUBSET (1 .. N) :
          f[t] = IF t = {} THEN st0 ELSE Split(f[t \ {Max(t)}], empty[Max(t)])
    <3> SUFFICES ASSUME NEW t \in SUBSET (1 .. N), t # {}
                 PROVE  f[t] = Split(f[t \ {Max(t)}], empty[Max(t)])
      BY <2>2 DEF FoldsSets
    <3>1. Max(t) \in 1 .. N
      BY <1>1, MaxOfNonempty
    <3>2. f[t \ {Max(t)}] \in A
      BY <2>2
    <3> QED
      BY <2>2, <3>1, <3>2 DEF FoldsSets
  <2>4. Solves(f)
    BY <1>1, <2>2, <2>3
  <2> QED
    BY <2>4
<1>4. Solves(iter)
  BY <1>3
<1>5. FoldLeft(Split, st0, empty) = iter[1 .. N]
  <2>1. FoldLeft(Split, st0, empty) = iter[DOMAIN empty]
    BY DEF FoldLeft, MapThenFoldSet
  <2> QED
    BY <1>1, <2>1
<1> HIDE DEF iter, F
<1> DEFINE Good == {k \in Nat : k <= N =>
                        iter[1 .. k] \in A /\ Repaired(iter[1 .. k], st0, empty, k)}
<1>6. 0 \in Good
  <2>1. iter[1 .. 0] = st0
    BY <1>1, <1>4
  <2> QED
    BY <2>1
<1>7. ASSUME NEW k \in Nat, k \in Good PROVE k + 1 \in Good
  <2> SUFFICES ASSUME k + 1 <= N
               PROVE  iter[1 .. k + 1] \in A /\ Repaired(iter[1 .. k + 1], st0, empty, k + 1)
    OBVIOUS
  <2> DEFINE st == iter[1 .. k]
  <2>1. Max(1 .. k + 1) = k + 1
    BY MaxOf
  <2>2. (1 .. k + 1) \ {k + 1} = 1 .. k /\ 1 .. k + 1 # {} /\ 1 .. k + 1 \in SUBSET (1 .. N)
    <3> HIDE DEF N
    <3>1. (1 .. k + 1) \ {k + 1} = 1 .. k
      OBVIOUS
    <3>2. k + 1 \in 1 .. k + 1
      OBVIOUS
    <3>3. 1 .. k + 1 \in SUBSET (1 .. N)
      BY <1>1
    <3> QED
      BY <3>1, <3>2, <3>3
  <2>3. iter[1 .. k + 1] = Split(st, empty[k + 1])
    BY <1>1, <1>4, <2>1, <2>2
  <2>4. st \in A /\ Repaired(st, st0, empty, k)
    BY <1>1, <1>7
  <2> HIDE DEF st
  <2>5. Split(st, empty[k + 1]) \in A
    BY <1>1, <1>2, <2>4
  <2>6. Repaired(Split(st, empty[k + 1]), st0, empty, k + 1)
    BY <2>4, SplitKeeps
  <2> QED
    BY <2>3, <2>5, <2>6
<1> HIDE DEF Good
<1>8. N \in Good
  BY <1>1, <1>6, <1>7, NatSetInduction
<1> QED
  BY <1>5, <1>8 DEF Good

(***************************************************************************)
(* An iteration.                                                           *)
(***************************************************************************)
Farthests(words, xs) ==
    {FarthestSample(Cell(c, words, xs), words[c], xs) : c \in DOMAIN words}

(* The cells of a codebook and their means.                                *)
LEMMA CellsAre ==
    ASSUME NEW n \in Nat \ {0}, NEW words \in Words(n), NEW xs \in Samples
    PROVE  /\ Cells(words, xs) \in [1 .. n -> CellStates(Farthests(words, xs))]
           /\ Centroids(words, xs) \in Words(n)
           /\ \A c \in 1 .. n :
                  /\ Cells(words, xs)[c].count = Cardinality(Cell(c, words, xs))
                  /\ Cell(c, words, xs) \in SUBSET DOMAIN xs
                  /\ Cell(c, words, xs) # {} =>
                         Total(xs, Cell(c, words, xs))
                             = Centroids(words, xs)[c] * Cardinality(Cell(c, words, xs))
<1> DEFINE B == Farthests(words, xs)
           state(c) == [count |-> Cardinality(Cell(c, words, xs)),
                        distortion |-> MapThenSumSet(LAMBDA i : Squared(xs[i], words[c]),
                                                     Cell(c, words, xs)),
                        farthest |-> FarthestSample(Cell(c, words, xs), words[c], xs)]
           mean(c) == IF Cell(c, words, xs) = {} THEN words[c]
                      ELSE MapThenSumSet(LAMBDA i : xs[i], Cell(c, words, xs))
                               \div Cardinality(Cell(c, words, xs))
<1>1. xs \in Seq(Int) /\ DOMAIN words = 1 .. n
  BY LloydAssumption DEF Words
<1>2. Cells(words, xs) = [c \in 1 .. n |-> state(c)]
  BY <1>1 DEF Cells
<1>3. Centroids(words, xs) = [c \in 1 .. n |-> mean(c)]
  BY <1>1 DEF Centroids
<1>4. ASSUME NEW c \in 1 .. n
      PROVE  /\ state(c) \in CellStates(B) /\ mean(c) \in Int
             /\ state(c).count = Cardinality(Cell(c, words, xs))
             /\ Cell(c, words, xs) \in SUBSET DOMAIN xs
             /\ Cell(c, words, xs) # {} =>
                    Total(xs, Cell(c, words, xs)) = mean(c) * Cardinality(Cell(c, words, xs))
  <2>1. FarthestSample(Cell(c, words, xs), words[c], xs) \in B
    BY <1>1 DEF Farthests
  <2>2. MapThenSumSet(LAMBDA i : Squared(xs[i], words[c]), Cell(c, words, xs)) \in Int
    BY <1>1, CellIs, Zenon
  <2>7. Cardinality(Cell(c, words, xs)) \in Int
    <3>1. Cardinality(Cell(c, words, xs)) \in Nat
      BY <1>1, CellIs, Zenon
    <3> QED
      BY <3>1
  <2>3. state(c) \in CellStates(B)
    BY <2>1, <2>2, <2>7 DEF CellStates
  <2>4. Cell(c, words, xs) \in SUBSET DOMAIN xs
    BY DEF Cell
  <2>5. CASE Cell(c, words, xs) = {}
    <3>1. mean(c) = words[c]
      BY <2>5
    <3> QED
      BY <2>3, <2>4, <2>5, <3>1 DEF Words
  <2>6. CASE Cell(c, words, xs) # {}
    <3> DEFINE m == MapThenSumSet(LAMBDA i : xs[i], Cell(c, words, xs))
                        \div Cardinality(Cell(c, words, xs))
    <3>1. m \in Int /\ Total(xs, Cell(c, words, xs)) = m * Cardinality(Cell(c, words, xs))
      BY <2>4, <2>6, MeanIs
    <3>2. mean(c) = m
      BY <2>6
    <3> HIDE DEF m, mean
    <3> QED
      BY <2>3, <2>4, <3>1, <3>2
  <2> QED
    BY <2>5, <2>6
<1> HIDE DEF state, mean
<1> QED
  BY <1>2, <1>3, <1>4 DEF Words

(* What an iteration makes of a codebook.                                  *)
LEMMA UpdatedIs ==
    ASSUME NEW n \in Nat \ {0}, NEW words \in Words(n), NEW xs \in Samples, NEW how
    PROVE  LET u == Updated(words, xs, how)  m == Centroids(words, xs) IN
           /\ u.words \in Words(n) /\ u.events \in Seq(Repair(n))
           /\ u.ok => \A c \in 1 .. n : Cell(c, words, xs) # {} =>
                  \E d \in 1 .. n :
                      Close(m[c], u.words[d]) /\ (Len(u.events) = 0 => u.words[d] = m[c])
<1> DEFINE u == Updated(words, xs, how)
           m == Centroids(words, xs)
           B == Farthests(words, xs)
           cells == Cells(words, xs)
           S == {c \in DOMAIN words : cells[c].count = 0}
           empty == InOrder(S)
           moved == [ok |-> TRUE, words |-> m, cells |-> cells, events |-> <<>>]
<1>1. /\ cells \in [1 .. n -> CellStates(B)] /\ m \in Words(n) /\ xs \in Seq(Int)
      /\ \A c \in 1 .. n : cells[c].count = Cardinality(Cell(c, words, xs))
      /\ DOMAIN words = 1 .. n
  BY CellsAre, LloydAssumption DEF Words
<1>2. \A c \in 1 .. n : m[c] \in Int /\ (Cell(c, words, xs) # {} => cells[c].count > 0)
  <2> SUFFICES ASSUME NEW c \in 1 .. n
               PROVE  m[c] \in Int /\ (Cell(c, words, xs) # {} => cells[c].count > 0)
    OBVIOUS
  <2>1. /\ Cardinality(Cell(c, words, xs)) \in Nat
        /\ (Cardinality(Cell(c, words, xs)) = 0 <=> Cell(c, words, xs) = {})
    BY <1>1, CellIs
  <2>2. m[c] \in Int
    BY <1>1 DEF Words
  <2> HIDE DEF m, cells
  <2> QED
    BY <1>1, <2>1, <2>2
<1>3. u = IF empty = <<>> THEN moved
          ELSE IF how = "FailClosed" THEN [moved EXCEPT !.ok = FALSE]
          ELSE FoldLeft(Split, moved, empty)
  BY DEF Updated
<1> HIDE DEF m, cells, B
<1>4. moved \in RepairState(n, B) /\ moved.ok /\ moved.words = m /\ moved.cells = cells
      /\ moved.events = <<>> /\ [moved EXCEPT !.ok = FALSE] \in RepairState(n, B)
      /\ ~[moved EXCEPT !.ok = FALSE].ok
  <2>1. moved.ok /\ moved.words = m /\ moved.cells = cells /\ moved.events = <<>>
    OBVIOUS
  <2>2. <<>> \in Seq(Repair(n))
    OBVIOUS
  <2>3. moved \in RepairState(n, B)
    BY <1>1, <2>2 DEF RepairState
  <2> HIDE DEF moved
  <2>4. [moved EXCEPT !.ok = FALSE] \in RepairState(n, B) /\ ~[moved EXCEPT !.ok = FALSE].ok
    BY <2>3 DEF RepairState
  <2> QED
    BY <2>1, <2>3, <2>4
<1>5. \A i \in 1 .. n : Close(m[i], m[i])
  BY <1>2 DEF Close
<1>6. empty \in Seq(1 .. n) /\ (\A i, j \in 1 .. Len(empty) : i # j => empty[i] # empty[j])
      /\ (\A i \in 1 .. Len(empty) : cells[empty[i]].count = 0)
  <2> DEFINE before == {p \in S \X S : p[1] < p[2]}
             k == Cardinality(S)
  <2>1. IsFiniteSet(S) /\ S \in SUBSET (1 .. n)
    <3>1. IsFiniteSet(1 .. n)
      BY FS_Interval
    <3> QED
      BY <1>1, <3>1, FS_Subset
  <2>2. IsOrder(S, before)
    BY <2>1 DEF IsOrder
  <2>3. empty = Ordered(S, before)
    BY DEF InOrder
  <2>4. /\ k \in Nat /\ Ordered(S, before) \in [1 .. k -> S]
        /\ \A i, j \in 1 .. k :
               i < j <=> <<Ordered(S, before)[i], Ordered(S, before)[j]>> \in before
    <3> HIDE DEF before, S
    <3> QED
      BY <2>1, <2>2, OrderedIs
  <2> HIDE DEF empty, k
  <2>5. /\ k \in Nat /\ empty \in [1 .. k -> S]
        /\ \A i, j \in 1 .. k : i < j <=> <<empty[i], empty[j]>> \in before
    BY <2>3, <2>4
  <2>6. empty \in Seq(1 .. n) /\ Len(empty) = k
    BY <2>1, <2>5
  <2>7. ASSUME NEW i \in 1 .. k, NEW j \in 1 .. k, i # j PROVE empty[i] # empty[j]
    <3>1. i < j \/ j < i
      BY <2>5, <2>7
    <3>2. \A x \in S : <<x, x>> \notin before
      BY <2>1
    <3> HIDE DEF before
    <3> QED
      BY <2>5, <3>1, <3>2
  <2>8. \A i \in 1 .. k : cells[empty[i]].count = 0
    BY <2>5
  <2> HIDE DEF S
  <2> QED
    BY <2>6, <2>7, <2>8
<1>7. CASE empty = <<>>
  <2>1. u = moved
    BY <1>3, <1>7
  <2> HIDE DEF u, moved
  <2>2. u.words = m /\ u.events = <<>>
    BY <1>4, <2>1
  <2> QED
    BY <1>1, <1>5, <2>2 DEF u, m
<1>8. CASE empty # <<>> /\ how = "FailClosed"
  <2>1. u = [moved EXCEPT !.ok = FALSE]
    BY <1>3, <1>8
  <2> HIDE DEF u, moved
  <2>2. u \in RepairState(n, B) /\ ~u.ok
    BY <1>4, <2>1
  <2> QED
    BY <2>2 DEF u, RepairState
<1>9. CASE empty # <<>> /\ how # "FailClosed"
  <2>1. u = FoldLeft(Split, moved, empty)
    BY <1>3, <1>9
  <2> HIDE DEF u, moved, empty
  <2>2. Repaired(moved, moved, empty, 0)
    <3>1. Len(moved.events) = 0
      BY <1>4
    <3>2. \A c \in DOMAIN moved.words : Close(moved.words[c], moved.words[c])
      BY <1>1, <1>4, <1>5 DEF Words
    <3> QED
      BY <1>4, <1>6, <3>1, <3>2 DEF Repaired
  <2>3. u \in RepairState(n, B) /\ Repaired(u, moved, empty, Len(empty))
    BY <1>4, <1>6, <2>1, <2>2, RepairsKeep
  <2>4. Len(empty) # 0
    BY <1>6, <1>9
  <2>5. u.words \in Words(n) /\ u.events \in Seq(Repair(n))
    BY <2>3 DEF RepairState
  <2>6. ASSUME u.ok, NEW c \in 1 .. n, Cell(c, words, xs) # {}
        PROVE  \E d \in 1 .. n :
                   Close(m[c], u.words[d]) /\ (Len(u.events) = 0 => u.words[d] = m[c])
    <3>1. DOMAIN moved.words = 1 .. n /\ moved.words = m /\ moved.cells = cells
      BY <1>1, <1>4 DEF Words
    <3>2. cells[c].count > 0
      BY <1>2, <2>6
    <3>3. Len(u.events) # 0
      BY <2>3, <2>4, <2>6 DEF Repaired
    <3>4. \E d \in 1 .. n : u.cells[d].count > 0 /\ Close(m[c], u.words[d])
      BY <2>3, <2>6, <3>1, <3>2 DEF Repaired
    <3> QED
      BY <3>3, <3>4
  <2> QED
    BY <2>5, <2>6 DEF u, m
<1> QED
  BY <1>7, <1>8, <1>9

(* An iteration makes a codebook worse by at most one for each sample, and *)
(* only if it split a cell.                                                *)
LEMMA IterationBound ==
    ASSUME NEW n \in Nat \ {0}, NEW words \in Words(n), NEW xs \in Samples, NEW how,
           Updated(words, xs, how).ok
    PROVE  Distortion(Updated(words, xs, how).words, xs)
               <= Distortion(words, xs) + Len(xs) * Len(Updated(words, xs, how).events)
<1> DEFINE u == Updated(words, xs, how)
           m == Centroids(words, xs)
           S == DOMAIN xs
           part == NearestOf(words, xs)
           b == IF Len(u.events) = 0 THEN 0 ELSE 1
           Fits(c, d) == Close(m[c], u.words[d]) /\ (Len(u.events) = 0 => u.words[d] = m[c])
           near(c) == CHOOSE d \in 1 .. n : Fits(c, d)
           to == [i \in S |-> near(part[i])]
           G == Errors(words, xs, part)
           H == [i \in S |-> G[i] + b]
           K == Errors(u.words, xs, to)
           cell(c) == {i \in S : part[i] = c}
<1>1. /\ u.words \in Words(n) /\ u.events \in Seq(Repair(n)) /\ u.ok
      /\ \A c \in 1 .. n : Cell(c, words, xs) # {} => \E d \in 1 .. n : Fits(c, d)
  BY UpdatedIs
<1>2. xs \in Seq(Int) /\ IsFiniteSet(S) /\ Cardinality(S) = Len(xs) /\ Len(xs) \in Nat
  BY LloydAssumption, DomainIsFinite
<1>3. part \in [S -> 1 .. n]
  BY <1>2, NearestOfIs
<1>4. \A c \in 1 .. n : Cell(c, words, xs) = cell(c)
  BY <1>2, CellIs
<1>5. b \in Nat /\ Len(u.events) \in Nat /\ b <= Len(u.events)
  <2>1. Len(u.events) \in Nat
    BY <1>1
  <2> HIDE DEF u
  <2> QED
    BY <2>1
<1>6. \A c \in 1 .. n : cell(c) # {} => near(c) \in 1 .. n /\ Fits(c, near(c))
  BY <1>1, <1>4
<1> HIDE DEF near, u
<1>7. to \in [S -> 1 .. n]
  BY <1>3, <1>6
<1>8. \A i \in S : G[i] \in Int /\ K[i] \in Int
  BY <1>1, <1>2, <1>3, <1>7, ErrorsAre
<1>9. \A i \in S : H[i] = G[i] + b /\ H[i] \in Int
  <2> SUFFICES ASSUME NEW i \in S PROVE H[i] = G[i] + b /\ H[i] \in Int
    OBVIOUS
  <2>1. G[i] \in Int
    BY <1>8
  <2> HIDE DEF G, b
  <2>2. H[i] = G[i] + b
    OBVIOUS
  <2> HIDE DEF H
  <2> DEFINE g == G[i]
  <2>3. g + b \in Int
    <3> HIDE DEF g
    <3> QED
      BY <1>5, <2>1 DEF g
  <2> QED
    BY <2>2, <2>3
<1>10. ASSUME NEW c \in 1 .. n PROVE Total(K, cell(c)) <= Total(H, cell(c))
  <2>1. CASE cell(c) = {}
    <3>1. Total(K, {}) = 0 /\ Total(H, {}) = 0
      BY TotalOfNone
    <3> HIDE DEF H, K, cell
    <3> QED
      BY <2>1, <3>1
  <2>2. CASE cell(c) # {}
    <3> DEFINE w == u.words[near(c)]
               y == words[c]
    <3>1. near(c) \in 1 .. n /\ Fits(c, near(c))
      BY <1>6, <2>2
    <3>2. cell(c) \in SUBSET S /\ Total(xs, cell(c)) = m[c] * Cardinality(cell(c)) /\ m[c] \in Int
      <4>1. m \in Words(n) /\ (cell(c) # {} =>
                Total(xs, cell(c)) = m[c] * Cardinality(cell(c)))
        <5>1. Cell(c, words, xs) = cell(c)
          BY <1>4
        <5> HIDE DEF cell
        <5> QED
          BY <5>1, CellsAre
      <4>2. m[c] \in Int
        BY <4>1 DEF Words
      <4> QED
        BY <2>2, <4>1, <4>2
    <3>3. w \in Int /\ y \in Int
      BY <1>1, <3>1 DEF Words
    <3>4. (w - m[c]) * (w - m[c]) <= b
      <4> DEFINE v == w - m[c]
      <4>1. v \in {-1, 0, 1}
        BY <3>1 DEF Close
      <4>2. Len(u.events) = 0 => v = 0
        BY <3>1, <3>2
      <4> HIDE DEF v
      <4>3. v * v <= b
        BY <4>1, <4>2
      <4> QED
        BY <4>3 DEF v
    <3>5. \A i \in cell(c) : H[i] = Squared(xs[i], y) + b
      BY <1>9 DEF Errors
    <3>6. \A i \in cell(c) : K[i] = Squared(xs[i], w)
      BY DEF Errors
    <3> DEFINE mean == m[c]
               members == cell(c)
    <3> HIDE DEF H, K, w, y, b, mean, members
    <3>7. /\ members \in SUBSET DOMAIN xs /\ mean \in Int
          /\ Total(xs, members) = mean * Cardinality(members) /\ (w - mean) * (w - mean) <= b
          /\ \A i \in members : H[i] = Squared(xs[i], y) + b
          /\ \A i \in members : K[i] = Squared(xs[i], w)
      BY <3>2, <3>4, <3>5, <3>6 DEF mean, members
    <3>8. Total(K, members) <= Total(H, members)
      BY <1>2, <1>5, <3>3, <3>7, MeanIsLeast
    <3> QED
      BY <3>8 DEF members
  <2> QED
    BY <2>1, <2>2
<1>11. Total(K, S) <= Total(H, S)
  <2>1. \A i \in S : K[i] \in Int /\ H[i] \in Int
    BY <1>8, <1>9
  <2>2. \A c \in 1 .. n :
            Total(K, Part(S, part, c)) <= Total(H, Part(S, part, c))
    BY <1>10 DEF Part
  <2> HIDE DEF H, K, S, part, cell
  <2> QED
    BY <1>2, <1>3, <2>1, <2>2, TotalByCells
<1>12. Total(H, S) = Total(G, S) + b * Len(xs) /\ Total(G, S) \in Int /\ Total(H, S) \in Int
  <2>1. \A i \in S : G[i] \in Int /\ H[i] = G[i] + b
    BY <1>8, <1>9
  <2>2. Total(H, S) = Total(G, S) + b * Cardinality(S)
    <3>1. IsFiniteSet(S) /\ b \in Int
      BY <1>2, <1>5
    <3> HIDE DEF G, H, b, S
    <3> QED
      BY <2>1, <3>1, TotalShifts
  <2>3. Total(G, S) \in Int /\ Total(H, S) \in Int
    BY <1>2, <1>8, <1>9, TotalIs
  <2> HIDE DEF G, H, b
  <2>4. b * Len(xs) \in Int
    BY <1>2, <1>5
  <2> QED
    BY <1>2, <2>2, <2>3, <2>4
<1>13. Distortion(u.words, xs) <= Total(K, S) /\ Distortion(u.words, xs) \in Int
  BY <1>1, <1>2, <1>7, DistortionIsLeast, DistortionIs
<1>14. Distortion(words, xs) = Total(G, S)
  BY <1>2, DistortionIs
<1>15. b * Len(xs) <= Len(xs) * Len(u.events) /\ b * Len(xs) \in Int /\ Len(xs) * Len(u.events) \in Int
  <2> DEFINE k == Len(u.events)
             l == Len(xs)
  <2>1. b = (IF k = 0 THEN 0 ELSE 1) /\ k \in Nat /\ l \in Nat
    BY <1>2, <1>5
  <2> HIDE DEF k, l, b
  <2>2. CASE k = 0
    BY <2>1, <2>2 DEF k, l
  <2>3. CASE k # 0
    <3>1. b = 1 /\ k - 1 \in Nat
      BY <2>1, <2>3
    <3>2. l * k = l + l * (k - 1) /\ l * (k - 1) \in Nat
      BY <2>1, <3>1
    <3> QED
      BY <2>1, <3>1, <3>2 DEF k, l
  <2> QED
    BY <2>2, <2>3
<1>16. Total(K, S) \in Int
  <2> HIDE DEF K
  <2> QED
    BY <1>2, <1>8, TotalIs
<1> HIDE DEF G, H, K, b
<1> DEFINE extra == Len(xs) * Len(u.events)
           more == b * Len(xs)
<1> HIDE DEF extra, more
<1>17. Distortion(u.words, xs) <= Distortion(words, xs) + extra
  BY <1>11, <1>12, <1>13, <1>14, <1>15, <1>16 DEF extra, more
<1> QED
  BY <1>17 DEF extra, u

(***************************************************************************)
(* Training.                                                               *)
(***************************************************************************)
(* What a training holds between its steps: codebooks of the size of the   *)
(* initial one, and a best one that is as good as it says, the initial one *)
(* and the end of every restart.                                           *)
LloydInv ==
    /\ phase \in {"idle", "training", "done", "failed"}
    /\ phase = "idle" => repairs = <<>> /\ ended = {}
    /\ phase # "idle" =>
           /\ samples \in Samples /\ initial \in Initials
           /\ codebook \in Words(Len(initial)) /\ best.words \in Words(Len(initial))
           /\ repairs \in Seq(Repair(Len(initial)))
           /\ best.distortion = Distortion(best.words, samples)
           /\ \A d \in ended \cup {Distortion(initial, samples)} :
                  d \in Int /\ best.distortion <= d

(* Initial codebooks. *)
LEMMA InitialsAre ==
    ASSUME NEW words \in Initials
    PROVE  Len(words) \in Nat \ {0} /\ words \in Words(Len(words))
           /\ DOMAIN words = 1 .. Len(words) /\ \A c \in 1 .. Len(words) : words[c] \in Int
<1>1. words \in Seq(Int) /\ words # <<>>
  BY LloydAssumption
<1>2. Len(words) \in Nat /\ DOMAIN words = 1 .. Len(words) /\ Len(words) # 0
      /\ words = [c \in 1 .. Len(words) |-> words[c]]
  BY <1>1
<1>3. \A c \in 1 .. Len(words) : words[c] \in Int
  BY <1>1
<1> QED
  BY <1>2, <1>3 DEF Words

(* Training samples. *)
LEMMA SamplesAre == ASSUME NEW xs \in Samples PROVE xs \in Seq(Int)
  BY LloydAssumption

(* Every step of a training keeps the invariant. *)
LEMMA LloydNextKeeps == LloydInv /\ [LloydNext]_lloydVars => LloydInv'
<1> SUFFICES ASSUME LloydInv, [LloydNext]_lloydVars PROVE LloydInv'
  OBVIOUS
<1>1. ASSUME NEW words \in Initials, NEW xs \in Samples, NEW how \in Policies,
             BeginTraining(words, xs, how)
      PROVE  LloydInv'
  <2>1. /\ samples' = xs /\ initial' = words /\ codebook' = words /\ phase' = "training"
        /\ best'.words = words /\ best'.distortion = Distortion(words, xs)
        /\ repairs' = repairs /\ ended' = ended /\ phase = "idle"
    BY <1>1 DEF BeginTraining
  <2>2. repairs' = <<>> /\ ended' = {}
    BY <2>1 DEF LloydInv
  <2>3. words \in Words(Len(words)) /\ Distortion(words, xs) \in Int
    BY InitialsAre, SamplesAre, DistortionIs
  <2> QED
    BY <2>1, <2>2, <2>3 DEF LloydInv
<1>2. CASE Iterate
  <2> DEFINE u == Updated(codebook, samples, policy)
             n == Len(initial)
  <2>1. /\ codebook' = u.words /\ repairs' = repairs \o u.events
        /\ phase' \in {"training", "failed"} /\ phase = "training"
        /\ UNCHANGED <<samples, initial, best, ended>>
    BY <1>2 DEF Iterate
  <2>2. /\ samples \in Samples /\ initial \in Initials
        /\ codebook \in Words(n) /\ repairs \in Seq(Repair(n))
    BY <2>1 DEF LloydInv
  <2>3. n \in Nat \ {0}
    BY <2>2, InitialsAre
  <2>4. u.words \in Words(n) /\ u.events \in Seq(Repair(n))
    <3> HIDE DEF n
    <3> QED
      BY <2>2, <2>3, UpdatedIs
  <2> HIDE DEF u
  <2>5. codebook' \in Words(Len(initial')) /\ repairs' \in Seq(Repair(Len(initial')))
    BY <2>1, <2>2, <2>4
  <2> QED
    BY <2>1, <2>5 DEF LloydInv
<1>3. CASE EndRestart
  <2> DEFINE n == Len(initial)
             d == Distortion(codebook, samples)
  <2>1. /\ best' = Better(best, codebook, d, restart) /\ ended' = ended \cup {d}
        /\ phase = "training" /\ phase' \in {"training", "done"}
        /\ UNCHANGED <<samples, initial, repairs>>
        /\ codebook' = codebook
              \/ \E sign \in {-1, 1} : codebook' = [c \in DOMAIN initial |-> sign * initial[c]]
    BY <1>3 DEF EndRestart
  <2>2. /\ samples \in Samples /\ initial \in Initials
        /\ codebook \in Words(n) /\ best.words \in Words(n) /\ repairs \in Seq(Repair(n))
        /\ best.distortion = Distortion(best.words, samples)
        /\ \A e \in ended \cup {Distortion(initial, samples)} :
               e \in Int /\ best.distortion <= e
    BY <2>1 DEF LloydInv
  <2>3. n \in Nat \ {0} /\ samples \in Seq(Int) /\ DOMAIN initial = 1 .. n
        /\ \A c \in 1 .. n : initial[c] \in Int
    BY <2>2, InitialsAre, SamplesAre
  <2>4. d \in Int /\ best.distortion \in Int
    <3> HIDE DEF n
    <3> QED
      BY <2>2, <2>3, DistortionIs
  <2>5. codebook' \in Words(n)
    <3>1. CASE codebook' = codebook
      BY <2>2, <3>1
    <3>2. ASSUME NEW sign \in {-1, 1}, codebook' = [c \in DOMAIN initial |-> sign * initial[c]]
          PROVE  codebook' \in Words(n)
      <4>1. \A c \in 1 .. n : sign * initial[c] \in Int
        <5> SUFFICES ASSUME NEW c \in 1 .. n PROVE sign * initial[c] \in Int
          OBVIOUS
        <5> DEFINE y == initial[c]
        <5>1. y \in Int /\ sign \in Int
          BY <2>3
        <5> HIDE DEF y
        <5> QED
          BY <5>1 DEF y
      <4> QED
        BY <2>3, <3>2, <4>1 DEF Words
    <3> QED
      BY <2>1, <3>1, <3>2
  <2>6. /\ best'.words \in Words(n) /\ best'.distortion = Distortion(best'.words, samples)
        /\ best'.distortion <= d /\ best'.distortion <= best.distortion
        /\ best'.distortion \in Int
    <3> HIDE DEF n, d
    <3>1. CASE d < best.distortion
      <4>1. best'.words = codebook /\ best'.distortion = d
        BY <2>1, <3>1 DEF Better
      <4> QED
        BY <2>2, <2>4, <3>1, <4>1 DEF d
    <3>2. CASE ~(d < best.distortion)
      <4>1. best' = best
        BY <2>1, <3>2 DEF Better
      <4> QED
        BY <2>2, <2>4, <3>2, <4>1
    <3> QED
      BY <3>1, <3>2
  <2> HIDE DEF d
  <2>7. \A e \in ended' \cup {Distortion(initial, samples)} :
            e \in Int /\ best'.distortion <= e
    BY <2>1, <2>2, <2>4, <2>6
  <2> QED
    BY <2>1, <2>2, <2>5, <2>6, <2>7 DEF LloydInv
<1>4. CASE Hand
  BY <1>4 DEF Hand, LloydInv
<1>5. CASE UNCHANGED lloydVars
  BY <1>5 DEF lloydVars, LloydInv
<1> QED
  BY <1>1, <1>2, <1>3, <1>4, <1>5 DEF LloydNext

(* An iteration never makes the codebook worse, if not by the width of the *)
(* splits it made, and what training returns is as good as it says, as the *)
(* initial codebook and as the end of every restart.                       *)
THEOREM TrainingImproves == LloydSpec => TrainingNeverWorse
<1> DEFINE Never ==
        /\ Iterate /\ phase' = "training" =>
               Distortion(codebook', samples)
                   <= Distortion(codebook, samples) + Len(samples) * (Len(repairs') - Len(repairs))
        /\ phase' = "done" =>
               /\ best'.distortion = Distortion(best'.words, samples)
               /\ \A d \in ended' \cup {Distortion(initial, samples)} : best'.distortion <= d
<1>1. LloydInit => LloydInv
  BY DEF LloydInit, LloydInv
<1>2. LloydInv /\ [LloydNext]_lloydVars => LloydInv'
  BY LloydNextKeeps
<1>3. LloydInv /\ LloydInv' /\ [LloydNext]_lloydVars => [Never]_lloydVars
  <2> SUFFICES ASSUME LloydInv, LloydInv', LloydNext PROVE Never
    OBVIOUS
  <2>1. ASSUME Iterate, phase' = "training"
        PROVE  Distortion(codebook', samples)
                   <= Distortion(codebook, samples) + Len(samples) * (Len(repairs') - Len(repairs))
    <3> DEFINE u == Updated(codebook, samples, policy)
               n == Len(initial)
    <3>1. /\ codebook' = u.words /\ repairs' = repairs \o u.events
          /\ phase' = (IF u.ok THEN "training" ELSE "failed") /\ phase = "training"
      BY <2>1 DEF Iterate
    <3>2. /\ samples \in Samples /\ initial \in Initials
          /\ codebook \in Words(n) /\ repairs \in Seq(Repair(n))
      BY <3>1 DEF LloydInv
    <3>3. n \in Nat \ {0}
      BY <3>2, InitialsAre
    <3>4. u.ok
      BY <2>1, <3>1
    <3> HIDE DEF n
    <3>5. u.events \in Seq(Repair(n))
      BY <3>2, <3>3, UpdatedIs
    <3>6. Distortion(u.words, samples)
              <= Distortion(codebook, samples) + Len(samples) * Len(u.events)
      BY <3>2, <3>3, <3>4, IterationBound
    <3> HIDE DEF u
    <3>7. Len(repairs') = Len(repairs) + Len(u.events) /\ Len(repairs) \in Nat
          /\ Len(u.events) \in Nat
      BY <3>1, <3>2, <3>5
    <3>8. Len(repairs') - Len(repairs) = Len(u.events)
      BY <3>7
    <3> QED
      BY <3>1, <3>6, <3>8
  <2>2. ASSUME phase' = "done"
        PROVE  /\ best'.distortion = Distortion(best'.words, samples)
               /\ \A d \in ended' \cup {Distortion(initial, samples)} : best'.distortion <= d
    <3>1. samples' = samples /\ initial' = initial
      BY <2>2 DEF LloydNext, BeginTraining, Iterate, EndRestart, Hand
    <3> QED
      BY <2>2, <3>1 DEF LloydInv
  <2> QED
    BY <2>1, <2>2
<1>4. [][Never]_lloydVars => TrainingNeverWorse
  BY DEF TrainingNeverWorse
<1> HIDE DEF Never
<1> QED
  BY <1>1, <1>2, <1>3, <1>4, PTL DEF LloydSpec

(***************************************************************************)
(* The nearest codeword.                                                   *)
(***************************************************************************)
(* Squared distances are integers. *)
LEMMA DistanceIs ==
    ASSUME NEW u \in Seq(Int), NEW v \in Seq(Int), Len(u) = Len(v)
    PROVE  SquaredDistance(u, v) \in Int
<1> DEFINE S == 1 .. Len(u)
           part(j) == (u[j] - v[j]) * (u[j] - v[j])
           G == [j \in S |-> part(j)]
           Solves(f) == f = [s \in SUBSET S |->
                IF s = {} THEN 0 ELSE part(Picked(s)) + f[s \ {Picked(s)}]]
           iter == CHOOSE f : Solves(f)
<1>1. IsFiniteSet(S) /\ G \in [S -> Int]
  <2>1. Len(u) \in Nat
    OBVIOUS
  <2>2. ASSUME NEW j \in S PROVE part(j) \in Int
    <3>1. u[j] \in Int /\ v[j] \in Int
      OBVIOUS
    <3> DEFINE d == u[j] - v[j]
    <3>2. d \in Int
      BY <3>1
    <3> HIDE DEF d
    <3>3. d * d \in Int
      BY <3>2
    <3> QED
      BY <3>3 DEF d
  <2>3. IsFiniteSet(S)
    <3> DEFINE m == Len(u)
    <3>1. m \in Nat
      BY <2>1
    <3> HIDE DEF m
    <3>2. IsFiniteSet(1 .. m)
      BY <3>1, FS_Interval
    <3> QED
      BY <3>2 DEF m
  <2> HIDE DEF part
  <2> QED
    BY <2>2, <2>3
<1>2. \A s \in SUBSET S : s # {} => G[Picked(s)] = part(Picked(s))
  BY DEF Picked
<1> HIDE DEF G, part
<1>3. \E f : Solves(f)
  <2>1. PICK f \in [SUBSET S -> Int] : SumsAll(f, S, G)
    BY <1>1, SumsExist
  <2> QED
    BY <1>2, <2>1 DEF Sums, SumsAll
<1>4. Solves(iter)
  BY <1>3
<1>5. SquaredDistance(u, v) = iter[S]
  BY DEF SquaredDistance, SumOf, MapThenSumSet, MapThenFoldSet, Picked, part
<1> HIDE DEF iter
<1>6. SumsAll(iter, S, G)
  BY <1>2, <1>4 DEF Sums, SumsAll
<1>7. iter[S] = Total(G, S) /\ Total(G, S) \in Int
  BY <1>1, <1>6, TotalIs
<1> QED
  BY <1>5, <1>7

Away(block, words, w) == SquaredDistance(block, words[w])

Distant(block, words) ==
    /\ words # <<>> /\ DOMAIN words = 1 .. Len(words) /\ Len(words) \in Nat \ {0}
    /\ \A w \in DOMAIN words :
           Away(block, words, w) \in Int /\ Away(block, words, w) < Infinity

Pair == [index : Nat, dist : Int]

(* hit is the first nearest of the first k codewords. *)
BestOf(block, words, k, hit) ==
    /\ hit \in Pair
    /\ k = 0 => hit = Farthest
    /\ k # 0 => /\ hit.index + 1 \in 1 .. k
                /\ hit.dist = Away(block, words, hit.index + 1)
    /\ \A w \in 1 .. k : hit.dist <= Away(block, words, w)
    /\ k # 0 => \A w \in 1 .. hit.index : hit.dist < Away(block, words, w)

LEMMA NearerKeeps ==
    ASSUME NEW block, NEW words, Distant(block, words),
           NEW k \in Nat, k < Len(words), NEW hit, BestOf(block, words, k, hit)
    PROVE  BestOf(block, words, k + 1, Nearer(hit, k, SquaredDistance(block, words[k + 1])))
<1> DEFINE d == Away(block, words, k + 1)
           next == Nearer(hit, k, d)
<1>1. d \in Int /\ d < Infinity /\ k + 1 \in Nat \ {0}
  BY DEF Distant
<1>2. hit \in Pair /\ hit.index \in Nat /\ hit.dist \in Int
  BY DEF BestOf, Pair
<1>3. \A w \in 1 .. k : Away(block, words, w) \in Int
  BY DEF Distant
<1> HIDE DEF d
<1>4. CASE d < hit.dist
  <2>1. next = [index |-> k, dist |-> d] /\ next.index = k /\ next.dist = d
    BY <1>4 DEF Nearer
  <2>2. next \in Pair
    BY <1>1, <2>1 DEF Pair
  <2>3. \A w \in 1 .. k : d < Away(block, words, w)
    BY <1>1, <1>2, <1>3, <1>4 DEF BestOf
  <2> HIDE DEF next
  <2>4. \A w \in 1 .. k + 1 : d <= Away(block, words, w)
    BY <1>1, <2>3, <1>3 DEF d
  <2>5. BestOf(block, words, k + 1, next)
    BY <1>1, <2>1, <2>2, <2>3, <2>4 DEF BestOf, d
  <2> QED
    BY <2>5 DEF next, d, Away
<1>5. CASE ~(d < hit.dist)
  <2>1. next = hit
    BY <1>5 DEF Nearer
  <2>2. k # 0
    <3>1. k = 0 => hit.dist = Infinity
      BY DEF BestOf, Farthest
    <3> QED
      BY <3>1, <1>1, <1>5
  <2>3. hit.index + 1 \in 1 .. k /\ \A w \in 1 .. k : hit.dist <= Away(block, words, w)
    BY <2>2 DEF BestOf
  <2>4. \A w \in 1 .. k + 1 : hit.dist <= Away(block, words, w)
    BY <1>1, <1>2, <1>5, <2>3 DEF d
  <2>5. BestOf(block, words, k + 1, hit)
    BY <1>1, <1>2, <2>2, <2>3, <2>4 DEF BestOf
  <2> HIDE DEF next
  <2>6. BestOf(block, words, k + 1, next)
    BY <2>1, <2>5
  <2> QED
    BY <2>6 DEF next, d, Away
<1> QED
  BY <1>4, <1>5

(* h[k] is what a loop over the codewords has found after k of them. *)
Runs(block, words, h) ==
    /\ h[0] = Farthest
    /\ \A k \in 0 .. Len(words) - 1 :
           h[k + 1] = Nearer(h[k], k, SquaredDistance(block, words[k + 1]))

(* index is what such a loop returns. *)
Found(block, words, index) ==
    \E h : Runs(block, words, h) /\ index = h[Len(words)].index

(* What a loop may hold, whatever distances are. *)
Hits(block, words) ==
    [index : Nat,
     dist : {Infinity} \cup {SquaredDistance(block, words[c]) : c \in DOMAIN words}]

LEMMA NearerIsHit ==
    ASSUME NEW block, NEW words, NEW hit \in Hits(block, words),
           NEW index \in Nat, NEW c \in DOMAIN words
    PROVE  Nearer(hit, index, SquaredDistance(block, words[c])) \in Hits(block, words)
<1> DEFINE D == {Infinity} \cup {SquaredDistance(block, words[e]) : e \in DOMAIN words}
           d == SquaredDistance(block, words[c])
<1>1. d \in D
  OBVIOUS
<1>2. Hits(block, words) = [index : Nat, dist : D]
  BY DEF Hits
<1> HIDE DEF D, d
<1>3. Nearer(hit, index, d) \in [index : Nat, dist : D]
  BY <1>1, <1>2 DEF Nearer
<1> QED
  BY <1>2, <1>3 DEF d

LEMMA FarthestIsHit == ASSUME NEW block, NEW words PROVE Farthest \in Hits(block, words)
<1> DEFINE D == {Infinity} \cup {SquaredDistance(block, words[e]) : e \in DOMAIN words}
<1>1. Infinity \in D /\ 0 \in Nat
  OBVIOUS
<1> HIDE DEF D
<1>2. Farthest \in [index : Nat, dist : D]
  BY <1>1 DEF Farthest
<1> QED
  BY <1>2 DEF D, Hits

(* The loop over the codewords takes the next one in each round. *)
LEMMA ScalarRuns ==
    ASSUME NEW block, NEW words, Len(words) \in Nat, DOMAIN words = 1 .. Len(words)
    PROVE  Found(block, words, NearestScalar(block, words))
<1> DEFINE n == Len(words)
           A == Hits(block, words)
           idx == [i \in DOMAIN words |-> i]
           closer(hit, c) == Nearer(hit, c - 1, SquaredDistance(block, words[c]))
           F == [p \in (1 .. n) \X A |-> closer(p[2], p[1])]
           Solves(f) == f = [s \in SUBSET (DOMAIN idx) |->
                IF s = {} THEN Farthest ELSE closer(f[s \ {Max(s)}], idx[Max(s)])]
           iter == CHOOSE f : Solves(f)
<1>1. DOMAIN idx = 1 .. n /\ \A i \in 1 .. n : idx[i] = i
  OBVIOUS
<1>2. \A c \in 1 .. n, hit \in A : closer(hit, c) \in A
  <2> SUFFICES ASSUME NEW c \in 1 .. n, NEW hit \in A PROVE closer(hit, c) \in A
    OBVIOUS
  <2>1. c - 1 \in Nat /\ c \in DOMAIN words
    OBVIOUS
  <2> QED
    BY <2>1, NearerIsHit
<1>3. Farthest \in A
  BY FarthestIsHit
<1> HIDE DEF A, idx
<1>4. \E f : Solves(f)
  <2>1. F \in [(1 .. n) \X A -> A]
    BY <1>2
  <2>2. PICK f \in [SUBSET (1 .. n) -> A] : FoldsSets(f, n, Farthest, F)
    <3>1. HasSetFold(n, A, Farthest, F)
      <4> HIDE DEF F
      <4> QED
        BY <1>3, <2>1, SetFoldExists
    <3> QED
      BY <3>1 DEF HasSetFold
  <2>3. \A s \in SUBSET (1 .. n) :
          f[s] = IF s = {} THEN Farthest ELSE closer(f[s \ {Max(s)}], idx[Max(s)])
    <3> SUFFICES ASSUME NEW s \in SUBSET (1 .. n), s # {}
                 PROVE  f[s] = closer(f[s \ {Max(s)}], idx[Max(s)])
      BY <2>2 DEF FoldsSets
    <3>1. Max(s) \in 1 .. n
      BY MaxOfNonempty
    <3>2. f[s \ {Max(s)}] \in A
      BY <2>2
    <3>3. F[<<Max(s), f[s \ {Max(s)}]>>] = closer(f[s \ {Max(s)}], Max(s))
      BY <3>1, <3>2
    <3> HIDE DEF F, closer
    <3> QED
      BY <2>2, <3>1, <3>3, <1>1 DEF FoldsSets
  <2>4. Solves(f)
    BY <1>1, <2>2, <2>3
  <2> QED
    BY <2>4
<1>5. Solves(iter)
  BY <1>4
<1>6. NearestScalar(block, words) = iter[1 .. n].index
  <2>1. NearestScalar(block, words) = iter[DOMAIN idx].index
    BY DEF NearestScalar, FoldLeftDomain, FoldLeft, MapThenFoldSet, idx
  <2> QED
    BY <1>1, <2>1
<1> HIDE DEF iter
<1>7. \A s \in SUBSET (1 .. n) :
        iter[s] = IF s = {} THEN Farthest ELSE closer(iter[s \ {Max(s)}], idx[Max(s)])
  BY <1>1, <1>5
<1> DEFINE h == [k \in 0 .. n |-> iter[1 .. k]]
<1>8. h[0] = Farthest
  <2>1. 1 .. 0 = {} /\ {} \in SUBSET (1 .. n) /\ h[0] = iter[1 .. 0]
    OBVIOUS
  <2> HIDE DEF closer, h
  <2> QED
    BY <1>7, <2>1
<1>9. ASSUME NEW k \in 0 .. n - 1
      PROVE  h[k + 1] = Nearer(h[k], k, SquaredDistance(block, words[k + 1]))
  <2> DEFINE all == 1 .. k + 1
  <2>1. all \in SUBSET (1 .. n) /\ all # {} /\ Max(all) = k + 1 /\ all \ {Max(all)} = 1 .. k
    <3>1. k \in Nat /\ k + 1 <= n
      OBVIOUS
    <3> QED
      BY <3>1, LastPosition
  <2>2. h[k + 1] = iter[all] /\ h[k] = iter[1 .. k] /\ k + 1 \in 1 .. n /\ (k + 1) - 1 = k
    OBVIOUS
  <2>3. closer(h[k], k + 1) = Nearer(h[k], k, SquaredDistance(block, words[k + 1]))
    <3> HIDE DEF h
    <3> QED
      BY <2>2
  <2> HIDE DEF all, h, closer
  <2>4. iter[all] = closer(iter[all \ {Max(all)}], idx[Max(all)])
    BY <1>7, <2>1
  <2>5. iter[all] = closer(iter[1 .. k], idx[k + 1])
    BY <2>1, <2>4
  <2>6. idx[k + 1] = k + 1
    BY <1>1, <2>2
  <2> QED
    BY <2>2, <2>3, <2>5, <2>6
<1>10. NearestScalar(block, words) = h[n].index
  BY <1>6
<1> HIDE DEF h
<1>11. Runs(block, words, h)
  BY <1>8, <1>9 DEF Runs
<1> QED
  BY <1>10, <1>11 DEF Found

(* The loop over pairs of codewords, and the one that may be left, passes  *)
(* through every second of the same rounds.                                *)
LEMMA PairsRun ==
    ASSUME NEW block, NEW words, Len(words) \in Nat, DOMAIN words = 1 .. Len(words)
    PROVE  Found(block, words, NearestPairs(block, words))
<1> DEFINE A == Hits(block, words)
           n == Len(words)
           m == n \div 2
           idx == [i \in 1 .. m |-> i]
           away(w) == SquaredDistance(block, words[w])
           pair(hit, i) == Nearer(Nearer(hit, 2 * i - 2, away(2 * i - 1)), 2 * i - 1, away(2 * i))
           F == [p \in (1 .. m) \X A |-> pair(p[2], p[1])]
           Solves(f) == f = [s \in SUBSET (DOMAIN idx) |->
                IF s = {} THEN Farthest ELSE pair(f[s \ {Max(s)}], idx[Max(s)])]
           iter == CHOOSE f : Solves(f)
<1>0. n \in Nat /\ DOMAIN words = 1 .. n
  OBVIOUS
<1>1. m \in Nat /\ n \in {2 * m, 2 * m + 1} /\ (n % 2 = 0 <=> n = 2 * m)
  <2> HIDE DEF n
  <2> QED
    BY <1>0
<1> HIDE DEF m
<1>3. DOMAIN idx = 1 .. m /\ \A i \in 1 .. m : idx[i] = i
  OBVIOUS
<1> HIDE DEF idx
<1>4. ASSUME NEW i \in 1 .. m, NEW hit \in A PROVE pair(hit, i) \in A
  <2>1. /\ 2 * i - 1 \in DOMAIN words /\ 2 * i \in DOMAIN words
        /\ 2 * i - 2 \in Nat /\ 2 * i - 1 \in Nat
    <3> HIDE DEF n
    <3> QED
      BY <1>0, <1>1
  <2>2. Nearer(hit, 2 * i - 2, away(2 * i - 1)) \in A
    BY <2>1, NearerIsHit
  <2> DEFINE first == Nearer(hit, 2 * i - 2, away(2 * i - 1))
  <2> HIDE DEF A, first
  <2>3. Nearer(first, 2 * i - 1, away(2 * i)) \in A
    BY <2>1, <2>2, NearerIsHit DEF first, A
  <2> QED
    BY <2>3 DEF first
<1>5. Farthest \in A
  BY FarthestIsHit
<1> HIDE DEF A, away
<1>2. NearestPairs(block, words) =
        IF n % 2 = 0 THEN iter[DOMAIN idx].index
        ELSE Nearer(iter[DOMAIN idx], n - 1, away(n)).index
  BY Zenon DEF NearestPairs, FoldLeft, MapThenFoldSet, away, idx, m
<1> HIDE DEF n
<1>6. \E f : Solves(f)
  <2>1. F \in [(1 .. m) \X A -> A]
    BY <1>4
  <2>2. PICK f \in [SUBSET (1 .. m) -> A] : FoldsSets(f, m, Farthest, F)
    <3>1. HasSetFold(m, A, Farthest, F)
      <4> HIDE DEF F
      <4> QED
        BY <1>1, <1>5, <2>1, SetFoldExists
    <3> QED
      BY <3>1 DEF HasSetFold
  <2>3. \A s \in SUBSET (1 .. m) :
          f[s] = IF s = {} THEN Farthest ELSE pair(f[s \ {Max(s)}], idx[Max(s)])
    <3> SUFFICES ASSUME NEW s \in SUBSET (1 .. m), s # {}
                 PROVE  f[s] = pair(f[s \ {Max(s)}], idx[Max(s)])
      BY <2>2 DEF FoldsSets
    <3>1. Max(s) \in 1 .. m
      BY <1>1, MaxOfNonempty
    <3>2. f[s \ {Max(s)}] \in A
      BY <2>2
    <3>3. F[<<Max(s), f[s \ {Max(s)}]>>] = pair(f[s \ {Max(s)}], Max(s))
      BY <3>1, <3>2
    <3> HIDE DEF F, pair
    <3> QED
      BY <2>2, <3>1, <3>3, <1>3 DEF FoldsSets
  <2>4. Solves(f)
    BY <1>3, <2>2, <2>3
  <2> QED
    BY <2>4
<1>7. Solves(iter)
  BY <1>6
<1> HIDE DEF iter
<1>8. \A s \in SUBSET (1 .. m) :
        iter[s] = IF s = {} THEN Farthest ELSE pair(iter[s \ {Max(s)}], idx[Max(s)])
  BY <1>3, <1>7
<1> DEFINE g == [j \in 0 .. m |-> iter[1 .. j]]
<1>9. g[0] = Farthest
  <2>1. 1 .. 0 = {} /\ {} \in SUBSET (1 .. m) /\ g[0] = iter[1 .. 0]
    BY <1>1
  <2> HIDE DEF pair, g
  <2> QED
    BY <1>8, <2>1
<1>10. ASSUME NEW j \in 0 .. m - 1
       PROVE  g[j + 1] = Nearer(Nearer(g[j], 2 * j, away(2 * j + 1)), 2 * j + 1, away(2 * j + 2))
  <2> DEFINE all == 1 .. j + 1
  <2>1. all \in SUBSET (1 .. m) /\ all # {} /\ Max(all) = j + 1 /\ all \ {Max(all)} = 1 .. j
    <3>1. j \in Nat /\ j + 1 <= m
      BY <1>1
    <3> QED
      BY <1>1, <3>1, LastPosition
  <2>2. g[j + 1] = iter[all] /\ g[j] = iter[1 .. j] /\ j + 1 \in 1 .. m
    BY <1>1
  <2>3. pair(g[j], j + 1)
          = Nearer(Nearer(g[j], 2 * j, away(2 * j + 1)), 2 * j + 1, away(2 * j + 2))
    <3>1. /\ 2 * (j + 1) - 2 = 2 * j /\ 2 * (j + 1) - 1 = 2 * j + 1
          /\ 2 * (j + 1) = 2 * j + 2
      BY <1>1
    <3> HIDE DEF g
    <3> QED
      BY <3>1
  <2> HIDE DEF all, g, pair
  <2>4. iter[all] = pair(iter[all \ {Max(all)}], idx[Max(all)])
    BY <1>8, <2>1
  <2>5. iter[all] = pair(iter[1 .. j], idx[j + 1])
    BY <2>1, <2>4
  <2>6. idx[j + 1] = j + 1
    BY <1>3, <2>2
  <2> QED
    BY <2>2, <2>3, <2>5, <2>6
<1>11. NearestPairs(block, words) =
         IF n % 2 = 0 THEN g[m].index ELSE Nearer(g[m], n - 1, away(n)).index
  <2>1. g[m] = iter[DOMAIN idx]
    BY <1>1, <1>3
  <2> HIDE DEF g
  <2> QED
    BY <1>2, <2>1
<1> HIDE DEF g
<1> DEFINE h == [k \in 0 .. n |-> IF k % 2 = 0 THEN g[k \div 2]
                                  ELSE Nearer(g[k \div 2], k - 1, away(k))]
<1>12. h[0] = Farthest
  <2>1. 0 \in 0 .. n /\ 0 % 2 = 0 /\ 0 \div 2 = 0
    BY <1>0
  <2> QED
    BY <1>9, <2>1
<1>13. ASSUME NEW k \in 0 .. n - 1 PROVE h[k + 1] = Nearer(h[k], k, away(k + 1))
  <2> DEFINE j == k \div 2
  <2>1. k \in 0 .. n /\ k + 1 \in 0 .. n /\ (k + 1) - 1 = k
    BY <1>0
  <2>2. j \in Nat /\ k \in {2 * j, 2 * j + 1}
    BY <1>0
  <2>3. CASE k % 2 = 0
    <3>1. (k + 1) % 2 # 0 /\ (k + 1) \div 2 = j
      BY <1>0, <2>3
    <3>2. h[k] = g[j] /\ h[k + 1] = Nearer(g[j], k, away(k + 1))
      <4> HIDE DEF j
      <4> QED
        BY <2>1, <2>3, <3>1 DEF j
    <3> QED
      BY <3>2
  <2>4. CASE k % 2 # 0
    <3>1. (k + 1) % 2 = 0 /\ (k + 1) \div 2 = j + 1 /\ k = 2 * j + 1 /\ j \in 0 .. m - 1
      BY <1>0, <1>1, <2>4
    <3>2. h[k] = Nearer(g[j], k - 1, away(k)) /\ h[k + 1] = g[j + 1]
      <4>1. h[k + 1] = g[(k + 1) \div 2]
        BY <2>1, <3>1
      <4>2. h[k] = Nearer(g[j], k - 1, away(k))
        BY <2>1, <2>4
      <4> HIDE DEF h, j
      <4> QED
        BY <3>1, <4>1, <4>2
    <3> HIDE DEF h, j
    <3>3. k - 1 = 2 * j /\ k + 1 = 2 * j + 2
      BY <2>2, <3>1
    <3>4. g[j + 1] = Nearer(Nearer(g[j], 2 * j, away(2 * j + 1)), 2 * j + 1, away(2 * j + 2))
      BY <1>10, <3>1
    <3> QED
      BY <3>1, <3>2, <3>3, <3>4
  <2> QED
    BY <2>3, <2>4
<1>14. NearestPairs(block, words) = h[n].index
  <2>1. n \in 0 .. n /\ n \div 2 = m
    BY <1>0 DEF m
  <2>2. h[n] = IF n % 2 = 0 THEN g[m] ELSE Nearer(g[m], n - 1, away(n))
    <3>1. h[n] = IF n % 2 = 0 THEN g[n \div 2] ELSE Nearer(g[n \div 2], n - 1, away(n))
      BY <2>1
    <3> HIDE DEF h
    <3> QED
      BY <2>1, <3>1
  <2> HIDE DEF h
  <2> QED
    BY <1>11, <2>2
<1> HIDE DEF h
<1>15. Runs(block, words, h)
  BY <1>12, <1>13 DEF Runs, away, n
<1> QED
  BY <1>14, <1>15 DEF Found, n

(* Rounds do not depend on the loop. *)
LEMMA FoundIsOne ==
    ASSUME NEW block, NEW words, Len(words) \in Nat,
           NEW i, Found(block, words, i), NEW j, Found(block, words, j)
    PROVE  i = j
<1>1. PICK a : Runs(block, words, a) /\ i = a[Len(words)].index
  BY DEF Found
<1>2. PICK b : Runs(block, words, b) /\ j = b[Len(words)].index
  BY DEF Found
<1> DEFINE n == Len(words)
           Good == {k \in Nat : k <= n => a[k] = b[k]}
<1> HIDE DEF n
<1>3. n \in Nat
  BY DEF n
<1>4. 0 \in Good
  BY <1>1, <1>2 DEF Runs
<1>5. ASSUME NEW k \in Nat, k \in Good PROVE k + 1 \in Good
  <2> SUFFICES ASSUME k + 1 <= n PROVE a[k + 1] = b[k + 1]
    OBVIOUS
  <2>1. k \in 0 .. n - 1 /\ a[k] = b[k]
    BY <1>3, <1>5
  <2> QED
    BY <1>1, <1>2, <2>1 DEF Runs, n
<1> HIDE DEF Good
<1>6. n \in Good
  BY <1>3, <1>4, <1>5, NatSetInduction
<1> QED
  BY <1>1, <1>2, <1>3, <1>6 DEF Good, n

(* What a loop returns is the index of a codeword. *)
LEMMA FoundInRange ==
    ASSUME NEW block, NEW words, Len(words) \in Nat \ {0}, NEW index,
           Found(block, words, index)
    PROVE  index \in 0 .. Len(words) - 1
<1>1. PICK h : Runs(block, words, h) /\ index = h[Len(words)].index
  BY DEF Found
<1> DEFINE n == Len(words)
           Good == {k \in Nat : k <= n /\ k # 0 => h[k].index \in 0 .. k - 1}
<1> HIDE DEF n
<1>2. n \in Nat \ {0}
  BY DEF n
<1>3. 0 \in Good
  OBVIOUS
<1>4. ASSUME NEW k \in Nat, k \in Good PROVE k + 1 \in Good
  <2> SUFFICES ASSUME k + 1 <= n PROVE h[k + 1].index \in 0 .. k
    OBVIOUS
  <2>1. k \in 0 .. n - 1
    BY <1>2
  <2>2. h[k + 1] = Nearer(h[k], k, SquaredDistance(block, words[k + 1]))
    BY <1>1, <2>1 DEF Runs, n
  <2>3. h[k].index \in 0 .. k
    <3>1. CASE k = 0
      <4>1. h[0].index = 0 /\ 0 \in 0 .. 0
        BY <1>1 DEF Runs, Farthest
      <4> QED
        BY <3>1, <4>1
    <3>2. CASE k # 0
      <4>1. h[k].index \in 0 .. k - 1
        BY <1>2, <1>4, <2>1, <3>2
      <4> QED
        BY <2>1, <4>1
    <3> QED
      BY <3>1, <3>2
  <2>4. h[k + 1].index \in {h[k].index, k}
    BY <2>2 DEF Nearer
  <2> QED
    BY <2>3, <2>4
<1> HIDE DEF Good
<1>5. n \in Good
  BY <1>2, <1>3, <1>4, NatSetInduction
<1> QED
  BY <1>1, <1>2, <1>5 DEF Good, n

(* The loop over pairs of codewords (nearest_codeword_f32_avx2_k4) returns *)
(* what the loop over single ones returns, in a codebook of any size, even *)
(* or odd, and with any distances and ties.                                *)
THEOREM LoopsAgree ==
    ASSUME NEW block, NEW words, Len(words) \in Nat, DOMAIN words = 1 .. Len(words)
    PROVE  NearestPairs(block, words) = NearestScalar(block, words)
  BY ScalarRuns, PairsRun, FoundIsOne

(* When all distances are short of infinity it is that of the first of the *)
(* nearest.                                                                *)
LEMMA FoundIsNearest ==
    ASSUME NEW block, NEW words, Distant(block, words), NEW index, Found(block, words, index)
    PROVE  /\ index \in Nat /\ index + 1 \in DOMAIN words
           /\ \A w \in DOMAIN words : Away(block, words, index + 1) <= Away(block, words, w)
           /\ \A w \in 1 .. index : Away(block, words, index + 1) < Away(block, words, w)
<1>1. PICK h : Runs(block, words, h) /\ index = h[Len(words)].index
  BY DEF Found
<1> DEFINE n == Len(words)
           Good == {k \in Nat : k <= n => BestOf(block, words, k, h[k])}
<1> HIDE DEF n
<1>2. n \in Nat \ {0} /\ DOMAIN words = 1 .. n
  BY DEF n, Distant
<1>3. 0 \in Good
  <2>1. h[0] = Farthest /\ Farthest \in Pair
    BY <1>1 DEF Runs, Farthest, Pair, Infinity
  <2> QED
    BY <2>1 DEF BestOf
<1>4. ASSUME NEW k \in Nat, k \in Good PROVE k + 1 \in Good
  <2> SUFFICES ASSUME k + 1 <= n PROVE BestOf(block, words, k + 1, h[k + 1])
    OBVIOUS
  <2>1. k \in 0 .. n - 1 /\ k < n
    BY <1>2
  <2>2. h[k + 1] = Nearer(h[k], k, SquaredDistance(block, words[k + 1]))
    BY <1>1, <2>1 DEF Runs, n
  <2> QED
    BY <1>2, <1>4, <2>1, <2>2, NearerKeeps DEF n
<1> HIDE DEF Good
<1>5. BestOf(block, words, n, h[n])
  <2>1. n \in Good
    BY <1>2, <1>3, <1>4, NatSetInduction
  <2> QED
    BY <1>2, <2>1 DEF Good
<1> QED
  BY <1>1, <1>2, <1>5 DEF BestOf, Pair, n

(***************************************************************************)
(* The reduction of the warp.                                              *)
(***************************************************************************)
Lanes == [0 .. WarpSize - 1 -> Pair]
Partner(i, offset) == IF (i \div offset) % 2 = 0 THEN i + offset ELSE i - offset

(* Every lane holds a codeword with its distance. *)
Held(block, words, lanes) ==
    /\ lanes \in Lanes
    /\ \A i \in 0 .. WarpSize - 1 :
           /\ lanes[i].index + 1 \in DOMAIN words
           /\ lanes[i].dist = Away(block, words, lanes[i].index + 1)

(* For every codeword one of the first lanes holds one that is not farther.*)
Covers(block, words, lanes, size) ==
    \A w \in DOMAIN words : \E i \in 0 .. size - 1 : lanes[i].dist <= Away(block, words, w)

LEMMA PartnerIs ==
    ASSUME NEW W \in Nat, NEW offset \in Nat \ {0}, NEW q \in Nat, W = q * (2 * offset),
           NEW i \in 0 .. W - 1
    PROVE  Partner(i, offset) \in 0 .. W - 1
<1> DEFINE a == i \div offset
           r == i % offset
           p == 2 * q
<1>1. a \in Nat /\ r \in 0 .. offset - 1 /\ i = a * offset + r
  <2>1. i \in Nat
    OBVIOUS
  <2> QED
    BY <2>1, DivMod
<1>2. W = p * offset /\ p \in Nat
  OBVIOUS
<1>3. a < p
  <2> HIDE DEF p
  <2> QED
    BY <1>2, DivLess
<1> HIDE DEF a, r
<1>4. CASE a % 2 = 0
  <2>1. a + 1 < p /\ a + 1 \in Nat
    BY <1>1, <1>3, <1>4
  <2> HIDE DEF p
  <2>2. (a + 1) * offset + offset <= p * offset
    BY <1>2, <2>1, MulLess
  <2>3. (a + 1) * offset = a * offset + offset
    BY <1>1
  <2> DEFINE t == a * offset  u == p * offset
  <2>4. t \in Int /\ u \in Int
    BY <1>1, <1>2
  <2>5. i + offset < W
    <3>1. t + offset + offset <= u /\ i = t + r /\ W = u
      BY <1>1, <1>2, <2>2, <2>3
    <3> HIDE DEF t, u
    <3> QED
      BY <1>1, <2>4, <3>1
  <2>6. Partner(i, offset) = i + offset
    BY <1>4 DEF Partner, a
  <2> QED
    BY <2>5, <2>6
<1>5. CASE a % 2 # 0
  <2>1. 1 <= a
    BY <1>1, <1>5
  <2>2. offset <= a * offset
    <3> DEFINE o == 1
    <3>1. o \in Nat /\ o <= a
      BY <2>1
    <3>2. offset * o <= offset * a
      <4> HIDE DEF o
      <4> QED
        BY <1>1, <3>1, MulMonotone
    <3>3. offset * a = a * offset
      BY <1>1
    <3> QED
      BY <3>2, <3>3
  <2> DEFINE t == a * offset
  <2>3. t \in Int /\ offset <= t /\ i = t + r
    BY <1>1, <2>2
  <2> HIDE DEF t
  <2>4. i - offset \in 0 .. W - 1
    BY <1>1, <2>3
  <2>5. Partner(i, offset) = i - offset
    BY <1>5 DEF Partner, a
  <2> QED
    BY <2>4, <2>5
<1> QED
  BY <1>4, <1>5

(* An exchange leaves in the first half of the lanes what the others held  *)
(* if it is nearer.                                                        *)
LEMMA ExchangeKeeps ==
    ASSUME WarpSize \in Nat \ {0}, NEW offset \in Nat \ {0}, NEW q \in Nat,
           WarpSize = q * (2 * offset), NEW lanes \in Lanes
    PROVE  /\ Exchange(lanes, offset) \in Lanes
           /\ \A block, words : Held(block, words, lanes) =>
                  Held(block, words, Exchange(lanes, offset))
           /\ \A block, words : Distant(block, words) /\ Held(block, words, lanes)
                                /\ Covers(block, words, lanes, 2 * offset) =>
                  Covers(block, words, Exchange(lanes, offset), offset)
<1> DEFINE L == 0 .. WarpSize - 1
           next == Exchange(lanes, offset)
           other(i) == lanes[Partner(i, offset)]
<1>1. next = [i \in L |-> Nearer(lanes[i], other(i).index, other(i).dist)]
  BY Zenon DEF Exchange, Partner, Lanes
<1>2. \A i \in L : Partner(i, offset) \in L
  BY PartnerIs
<1>3. \A i \in L : lanes[i] \in Pair /\ other(i) \in Pair
  BY <1>2 DEF Lanes
<1>4. \A i \in L : next[i] \in {lanes[i], other(i)} /\ next[i].dist <= lanes[i].dist
                   /\ next[i].dist <= other(i).dist
  <2> SUFFICES ASSUME NEW i \in L
               PROVE  next[i] \in {lanes[i], other(i)} /\ next[i].dist <= lanes[i].dist
                      /\ next[i].dist <= other(i).dist
    OBVIOUS
  <2> DEFINE a == lanes[i]  b == other(i)
  <2>1. next[i] = Nearer(a, b.index, b.dist) /\ a \in Pair /\ b \in Pair
    BY <1>1, <1>3
  <2> HIDE DEF a, b
  <2>2. a.dist \in Int /\ b.dist \in Int /\ b = [index |-> b.index, dist |-> b.dist]
    BY <2>1 DEF Pair
  <2>3. next[i] \in {a, b} /\ next[i].dist <= a.dist /\ next[i].dist <= b.dist
    BY <2>1, <2>2 DEF Nearer
  <2> QED
    BY <2>3 DEF a, b
<1>5. next \in Lanes
  <2>1. next = [i \in L |-> next[i]]
    BY <1>1
  <2> HIDE DEF next, other
  <2>2. \A i \in L : next[i] \in Pair
    BY <1>3, <1>4
  <2> QED
    BY <2>1, <2>2 DEF Lanes
<1> HIDE DEF next
<1>6. ASSUME NEW block, NEW words, Held(block, words, lanes)
      PROVE  Held(block, words, next)
  <2> SUFFICES ASSUME NEW i \in L
               PROVE  /\ next[i].index + 1 \in DOMAIN words
                      /\ next[i].dist = Away(block, words, next[i].index + 1)
    BY <1>5 DEF Held
  <2>1. PICK j \in L : next[i] = lanes[j]
    BY <1>2, <1>4
  <2> QED
    BY <1>6, <2>1 DEF Held
<1>7. ASSUME NEW block, NEW words, Distant(block, words), Held(block, words, lanes),
             Covers(block, words, lanes, 2 * offset)
      PROVE  Covers(block, words, next, offset)
  <2> SUFFICES ASSUME NEW w \in DOMAIN words
               PROVE  \E i \in 0 .. offset - 1 : next[i].dist <= Away(block, words, w)
    BY DEF Covers
  <2>1. PICK i \in 0 .. 2 * offset - 1 : lanes[i].dist <= Away(block, words, w)
    BY <1>7 DEF Covers
  <2>2. 2 * offset <= WarpSize
    <3> DEFINE d == 2 * offset  o == 1
    <3>1. d \in Nat /\ o \in Nat
      OBVIOUS
    <3>2. o <= q
      <4>1. q = 0 => q * d = 0
        BY <3>1
      <4> QED
        BY <4>1
    <3>3. d * o = d /\ d * q = WarpSize
      BY <3>1
    <3> HIDE DEF d, o
    <3>4. d * o <= d * q
      BY <3>1, <3>2, MulMonotone
    <3> QED
      BY <3>3, <3>4 DEF d
  <2>3. Away(block, words, w) \in Int
    BY <1>7 DEF Distant
  <2>4. CASE i < offset
    <3>1. i \in L /\ i \in 0 .. offset - 1
      BY <2>2, <2>4
    <3>2. next[i].dist <= lanes[i].dist /\ next[i].dist \in Int /\ lanes[i].dist \in Int
      BY <1>4, <1>5, <3>1 DEF Lanes, Pair
    <3> QED
      BY <2>1, <2>3, <3>1, <3>2
  <2>5. CASE ~(i < offset)
    <3> DEFINE j == i - offset
    <3>1. j \in 0 .. offset - 1 /\ j \in L /\ i \in L /\ j + offset = i
      BY <2>2, <2>5
    <3> HIDE DEF j
    <3>2. j \div offset = 0
      BY <3>1
    <3>3. Partner(j, offset) = i
      BY <3>1, <3>2 DEF Partner
    <3>4. next[j].dist <= lanes[i].dist /\ next[j].dist \in Int /\ lanes[i].dist \in Int
      BY <1>4, <1>5, <3>1, <3>3 DEF Lanes, Pair
    <3> QED
      BY <2>1, <2>3, <3>1, <3>4
  <2> QED
    BY <2>4, <2>5
<1> QED
  BY <1>5, <1>6, <1>7 DEF next

LEMMA WarpIs ==
    /\ Rounds \in 0 .. 10 /\ 2 ^ Rounds = WarpSize /\ WarpSize \in Nat \ {0}
    /\ DOMAIN Exchanges = 1 .. Rounds
    /\ \A k \in 0 .. Rounds - 1 :
           /\ Exchanges[k + 1] \in Nat \ {0}
           /\ WarpSize \div 2 ^ k = 2 * Exchanges[k + 1]
           /\ Exchanges[k + 1] = WarpSize \div 2 ^ (k + 1)
           /\ \E q \in Nat : WarpSize = q * (2 * Exchanges[k + 1])
<1>1. Rounds \in 0 .. 10 /\ 2 ^ Rounds = WarpSize
  BY WarpAssumption DEF Rounds
<1>2. WarpSize \in Nat \ {0}
  <2>1. Rounds \in 0 .. 32
    BY <1>1
  <2>2. 2 ^ Rounds \in Nat \ {0}
    BY <2>1, Powers, Zenon
  <2> QED
    BY <1>1, <2>2
<1>3. DOMAIN Exchanges = 1 .. Rounds
  BY DEF Exchanges
<1>4. ASSUME NEW k \in 0 .. Rounds - 1
      PROVE  LET half == WarpSize \div 2 ^ (k + 1) IN
             /\ half \in Nat \ {0}
             /\ WarpSize \div 2 ^ k = 2 * half
             /\ Exchanges[k + 1] = half
             /\ \E q \in Nat : WarpSize = q * (2 * half)
  <2>1. k \in 0 .. 10 /\ k < Rounds /\ k + 1 \in 1 .. Rounds
    BY <1>1
  <2>2. Exchanges[k + 1] = WarpSize \div 2 ^ (k + 1)
    BY <2>1, Zenon DEF Exchanges
  <2>3. LET half == 2 ^ Rounds \div 2 ^ (k + 1) IN
        /\ half \in Nat \ {0}
        /\ 2 ^ Rounds \div 2 ^ k = 2 * half
        /\ \E q \in Nat : 2 ^ Rounds = q * (2 * half)
    BY <1>1, <2>1, PowerDivides
  <2> QED
    BY <1>1, <2>2, <2>3, Zenon
<1> QED
  BY <1>1, <1>2, <1>3, <1>4

(* The lanes after all exchanges: lane 0 holds a nearest codeword.         *)
LEMMA DeviceIsNearest ==
    ASSUME NEW block, NEW words, Distant(block, words), Len(words) = WarpSize
    PROVE  /\ OnDeviceIndex(block, words) + 1 \in DOMAIN words
           /\ \A w \in DOMAIN words :
                  Away(block, words, OnDeviceIndex(block, words) + 1) <= Away(block, words, w)
<1> DEFINE n == Rounds
           L == 0 .. WarpSize - 1
           first == [i \in L |-> [index |-> i, dist |-> SquaredDistance(block, words[i + 1])]]
           F == [p \in (1 .. n) \X Lanes |-> Exchange(p[2], Exchanges[p[1]])]
           Solves(f) == f = [s \in SUBSET (DOMAIN Exchanges) |->
                IF s = {} THEN first ELSE Exchange(f[s \ {Max(s)}], Exchanges[Max(s)])]
           iter == CHOOSE f : Solves(f)
<1>1. n \in Nat /\ DOMAIN Exchanges = 1 .. n /\ WarpSize \in Nat \ {0}
  BY WarpIs
<1>2. DOMAIN words = 1 .. WarpSize
  BY DEF Distant
<1>3. \A i \in L : i + 1 \in DOMAIN words /\ i \in Nat
  BY <1>1, <1>2
<1>4. first \in Lanes /\ Held(block, words, first)
  <2>1. ASSUME NEW i \in L
        PROVE  first[i] \in Pair /\ first[i].index = i
               /\ first[i].dist = Away(block, words, i + 1)
    <3>1. Away(block, words, i + 1) \in Int
      BY <1>3 DEF Distant
    <3>2. first[i] = [index |-> i, dist |-> Away(block, words, i + 1)]
      BY DEF Away
    <3> HIDE DEF first
    <3> QED
      BY <1>3, <3>1, <3>2 DEF Pair
  <2>2. first = [i \in L |-> first[i]]
    OBVIOUS
  <2> HIDE DEF first
  <2>3. first \in Lanes
    BY <2>1, <2>2 DEF Lanes
  <2> QED
    BY <1>3, <2>1, <2>3 DEF Held
<1>5. Covers(block, words, first, WarpSize)
  <2> SUFFICES ASSUME NEW w \in DOMAIN words
               PROVE  \E i \in L : first[i].dist <= Away(block, words, w)
    BY DEF Covers
  <2>1. w - 1 \in L /\ (w - 1) + 1 = w
    BY <1>1, <1>2
  <2>2. first[w - 1].dist = Away(block, words, w)
    BY <2>1 DEF Away
  <2>3. Away(block, words, w) \in Int
    BY DEF Distant
  <2> HIDE DEF first
  <2> QED
    BY <2>1, <2>2, <2>3
<1> HIDE DEF first
<1>6. ASSUME NEW e \in 1 .. n, NEW lanes \in Lanes
      PROVE  Exchange(lanes, Exchanges[e]) \in Lanes
  <2>1. e - 1 \in 0 .. n - 1 /\ (e - 1) + 1 = e
    BY <1>1
  <2>2. Exchanges[e] \in Nat \ {0} /\ \E q \in Nat : WarpSize = q * (2 * Exchanges[e])
    BY <2>1, WarpIs, Zenon
  <2> QED
    BY <1>1, <2>2, ExchangeKeeps
<1>7. \E f : Solves(f)
  <2>1. F \in [(1 .. n) \X Lanes -> Lanes]
    BY <1>6
  <2>2. PICK f \in [SUBSET (1 .. n) -> Lanes] : FoldsSets(f, n, first, F)
    <3>1. HasSetFold(n, Lanes, first, F)
      <4> HIDE DEF F, n
      <4> QED
        BY <1>1, <1>4, <2>1, SetFoldExists
    <3> QED
      BY <3>1 DEF HasSetFold
  <2> HIDE DEF n
  <2>3. \A s \in SUBSET (1 .. n) :
          f[s] = IF s = {} THEN first ELSE Exchange(f[s \ {Max(s)}], Exchanges[Max(s)])
    <3> SUFFICES ASSUME NEW s \in SUBSET (1 .. n), s # {}
                 PROVE  f[s] = Exchange(f[s \ {Max(s)}], Exchanges[Max(s)])
      BY <2>2 DEF FoldsSets
    <3>1. Max(s) \in 1 .. n
      BY <1>1, MaxOfNonempty
    <3>2. f[s \ {Max(s)}] \in Lanes
      BY <2>2
    <3>3. F[<<Max(s), f[s \ {Max(s)}]>>] = Exchange(f[s \ {Max(s)}], Exchanges[Max(s)])
      BY <3>1, <3>2
    <3> HIDE DEF F
    <3> QED
      BY <2>2, <3>1, <3>3 DEF FoldsSets
  <2>4. Solves(f)
    BY <1>1, <2>2, <2>3
  <2> QED
    BY <2>4
<1>8. Solves(iter)
  BY <1>7
<1>9. OnDeviceIndex(block, words) = iter[1 .. n][0].index
  <2>1. OnDeviceIndex(block, words) = iter[DOMAIN Exchanges][0].index
    BY Zenon DEF OnDeviceIndex, FoldLeft, MapThenFoldSet, first
  <2> QED
    BY <1>1, <2>1
<1> HIDE DEF iter, n
<1>10. \A s \in SUBSET (1 .. n) :
        iter[s] = IF s = {} THEN first ELSE Exchange(iter[s \ {Max(s)}], Exchanges[Max(s)])
  BY <1>1, <1>8
<1> DEFINE Good == {k \in Nat : k <= n => /\ Held(block, words, iter[1 .. k])
                                          /\ Covers(block, words, iter[1 .. k], WarpSize \div 2 ^ k)}
<1>11. 0 \in Good
  <2>1. 1 .. 0 = {} /\ {} \in SUBSET (1 .. n)
    OBVIOUS
  <2>2. iter[1 .. 0] = first
    BY <1>10, <2>1
  <2>3. 2 ^ 0 = 1 /\ WarpSize \div 1 = WarpSize
    BY <1>1
  <2>4. WarpSize \div 2 ^ 0 = WarpSize
    BY <2>3
  <2> QED
    BY <1>4, <1>5, <2>2, <2>4
<1>12. ASSUME NEW k \in Nat, k \in Good PROVE k + 1 \in Good
  <2> SUFFICES ASSUME k + 1 <= n
               PROVE  /\ Held(block, words, iter[1 .. k + 1])
                      /\ Covers(block, words, iter[1 .. k + 1], WarpSize \div 2 ^ (k + 1))
    OBVIOUS
  <2> DEFINE all == 1 .. k + 1  lanes == iter[1 .. k]  offset == Exchanges[k + 1]
  <2>1. all \in SUBSET (1 .. n) /\ all # {} /\ Max(all) = k + 1 /\ all \ {Max(all)} = 1 .. k
    BY <1>1, LastPosition
  <2>2. iter[1 .. k + 1] = Exchange(lanes, offset)
    <3> HIDE DEF all
    <3>1. iter[all] = Exchange(iter[all \ {Max(all)}], Exchanges[Max(all)])
      BY <1>10, <2>1
    <3>2. iter[all] = Exchange(lanes, offset)
      BY <2>1, <3>1
    <3> QED
      BY <3>2 DEF all
  <2>3. k \in 0 .. Rounds - 1
    BY <1>1 DEF n
  <2>4. /\ offset \in Nat \ {0}
        /\ WarpSize \div 2 ^ k = 2 * offset
        /\ offset = WarpSize \div 2 ^ (k + 1)
        /\ \E q \in Nat : WarpSize = q * (2 * offset)
    BY <2>3, WarpIs, Zenon
  <2>5. Held(block, words, lanes) /\ Covers(block, words, lanes, WarpSize \div 2 ^ k)
    BY <1>1, <1>12
  <2> HIDE DEF lanes, offset
  <2>6. Covers(block, words, lanes, 2 * offset)
    BY <2>4, <2>5, Zenon
  <2>7. lanes \in Lanes
    BY <2>5 DEF Held
  <2>8. Held(block, words, Exchange(lanes, offset))
        /\ Covers(block, words, Exchange(lanes, offset), offset)
    BY <1>1, <2>4, <2>5, <2>6, <2>7, ExchangeKeeps
  <2> QED
    BY <2>2, <2>4, <2>8, Zenon
<1> HIDE DEF Good
<1>13. Held(block, words, iter[1 .. n]) /\ Covers(block, words, iter[1 .. n], WarpSize \div 2 ^ n)
  <2>1. n \in Good
    BY <1>1, <1>11, <1>12, NatSetInduction
  <2>2. n <= n
    BY <1>1
  <2> QED
    BY <2>1, <2>2, Zenon DEF Good
<1>14. WarpSize \div 2 ^ n = 1
  <2>1. WarpSize \div WarpSize = 1
    BY <1>1
  <2> QED
    BY <2>1, WarpIs, Zenon DEF n
<1> DEFINE lanes == iter[1 .. n]
<1>15. \A w \in DOMAIN words : lanes[0].dist <= Away(block, words, w)
  <2>1. Covers(block, words, lanes, 1)
    BY <1>13, <1>14, Zenon
  <2> HIDE DEF lanes
  <2>2. 0 .. 1 - 1 = {0}
    OBVIOUS
  <2> QED
    BY <2>1, <2>2 DEF Covers
<1>16. 0 \in L
  BY <1>1
<1>17. lanes[0].index + 1 \in DOMAIN words /\ lanes[0].dist = Away(block, words, lanes[0].index + 1)
  BY <1>13, <1>16 DEF Held
<1> QED
  BY <1>9, <1>15, <1>17

(***************************************************************************)
(* The levels of the scalar quantizer.                                     *)
(***************************************************************************)
LEMMA AbsIs == ASSUME NEW x \in Int PROVE Abs(x) \in Nat
  BY DEF Abs

Off(value, norm, centroids, c) == Abs(1000 * value - centroids[c] * norm)

LEMMA OffIs ==
    ASSUME NEW value \in Int, NEW norm \in Nat, NEW centroids \in Seq(Int),
           NEW c \in DOMAIN centroids
    PROVE  Off(value, norm, centroids, c) \in Nat
<1> DEFINE x == centroids[c] * norm
<1>1. centroids[c] \in Int
  OBVIOUS
<1>2. x \in Int
  BY <1>1
<1> HIDE DEF x
<1>3. 1000 * value - x \in Int
  BY <1>2
<1> QED
  BY <1>3, AbsIs DEF Off, x

LEMMA LevelIs ==
    ASSUME NEW value \in Int, NEW norm \in Nat, NEW centroids \in Seq(Int),
           Len(centroids) \in 1 .. 256
    PROVE  LET i == LloydIndex(value, norm, centroids) IN
           /\ i \in Nat /\ i + 1 \in DOMAIN centroids
           /\ \A c \in DOMAIN centroids :
                  Off(value, norm, centroids, i + 1) <= Off(value, norm, centroids, c)
<1> DEFINE n == Len(centroids)
           off(c) == Off(value, norm, centroids, c)
           i == LloydIndex(value, norm, centroids)
<1>1. n \in 1 .. 256 /\ DOMAIN centroids = 1 .. n
  OBVIOUS
<1>2. \A c \in 1 .. n : off(c) \in Nat
  BY <1>1, OffIs
<1>3. CASE norm = 0
  <2>1. i = 0
    BY <1>3 DEF LloydIndex
  <2>2. 1 \in 1 .. n
    BY <1>1
  <2>3. \A c \in 1 .. n : off(c) = Abs(1000 * value - 0)
    <3> SUFFICES ASSUME NEW c \in 1 .. n PROVE off(c) = Abs(1000 * value - 0)
      OBVIOUS
    <3>1. centroids[c] \in Int
      BY <1>1
    <3>2. centroids[c] * norm = 0
      BY <1>3, <3>1
    <3> QED
      BY <3>2 DEF Off
  <2> HIDE DEF off, i, n
  <2>4. \A c \in 1 .. n : off(1) <= off(c)
    BY <1>2, <2>2, <2>3
  <2>5. i \in Nat /\ i + 1 = 1
    BY <2>1
  <2>6. i + 1 \in DOMAIN centroids /\ \A c \in DOMAIN centroids : off(i + 1) <= off(c)
    BY <1>1, <2>2, <2>4, <2>5
  <2> QED
    BY <2>5, <2>6 DEF off, i
<1>4. CASE norm # 0
  <2> DEFINE G == [c \in 1 .. n |-> off(c)]
             x == FirstLeast(G, 1 .. n)
  <2>1. i = (x - 1) % 256
    <3>1. \A c \in 1 .. n : G[c] = off(c)
      OBVIOUS
    <3> DEFINE least == CHOOSE c \in DOMAIN centroids :
                   \A e \in DOMAIN centroids : off(c) < off(e) \/ (off(c) = off(e) /\ c =< e)
    <3>2. i = (least - 1) % 256
      BY <1>4, Zenon DEF LloydIndex, Off
    <3> HIDE DEF G, off
    <3>3. x = least
      BY <1>1, <3>1 DEF FirstLeast
    <3> QED
      BY <3>2, <3>3
  <2>2. \A c \in 1 .. n : G[c] = off(c) /\ G[c] \in Nat
    BY <1>2
  <2>4. n \in Nat \ {0} /\ n <= 256
    <3> HIDE DEF n, off, i, G, x
    <3> QED
      BY <1>1
  <2> HIDE DEF G, off, i, n
  <2>3. x \in 1 .. n /\ \A e \in 1 .. n : G[x] <= G[e]
    BY <2>2, <2>4, FirstLeastIs
  <2> HIDE DEF x
  <2>6. i \in Nat /\ i + 1 = x
    <3>1. x - 1 \in 0 .. 255 /\ (x - 1) + 1 = x
      BY <2>3, <2>4
    <3>2. (x - 1) % 256 = x - 1
      <4> DEFINE y == x - 1
      <4>1. y \in 0 .. 255
        BY <3>1
      <4> HIDE DEF y
      <4>2. y % 256 = y
        BY <4>1
      <4> QED
        BY <4>2 DEF y
    <3> QED
      BY <2>1, <3>1, <3>2
  <2>7. \A e \in DOMAIN centroids : off(i + 1) <= off(e)
    BY <1>1, <2>2, <2>3, <2>6
  <2> QED
    BY <1>1, <2>3, <2>6, <2>7 DEF off, i
<1> QED
  BY <1>3, <1>4

LEMMA LevelsAreNearest ==
    ASSUME NEW s \in Scalars
    PROVE  NearestLevels(s, LloydIndices(s))
<1> DEFINE r == LloydIndices(s)
           n == Len(s.centroids)
<1>1. /\ s.block \in Seq(Int) /\ s.norm \in Nat /\ s.centroids \in Seq(Int)
      /\ n \in 1 .. 256 /\ DOMAIN s.centroids = 1 .. n
  BY ScalarAssumption
<1>2. ASSUME NEW j \in DOMAIN s.block
      PROVE  /\ r[j] \in Nat /\ r[j] + 1 \in DOMAIN s.centroids
             /\ \A c \in DOMAIN s.centroids :
                   Off(s.block[j], s.norm, s.centroids, r[j] + 1)
                       <= Off(s.block[j], s.norm, s.centroids, c)
  <2>1. r[j] = LloydIndex(s.block[j], s.norm, s.centroids) /\ s.block[j] \in Int
    BY <1>1 DEF LloydIndices
  <2> QED
    BY <1>1, <2>1, LevelIs
<1>3. DOMAIN r = DOMAIN s.block /\ r = [j \in DOMAIN s.block |-> r[j]]
  BY DEF LloydIndices
<1> HIDE DEF r
<1>4. r \in Seq(Nat) /\ DOMAIN r = 1 .. Len(r)
  <2>1. DOMAIN s.block = 1 .. Len(s.block) /\ Len(s.block) \in Nat
    BY <1>1
  <2>2. r \in [1 .. Len(s.block) -> Nat]
    BY <1>2, <1>3, <2>1
  <2> QED
    BY <1>3, <2>1, <2>2, FunctionIsSeq
<1>5. ASSUME NEW bits \in 1 .. 8, 2 ^ bits >= n
      PROVE  UnpackIndices(Bitpack(r, bits), Len(r), bits) = r
  <2> DEFINE p == 2 ^ bits
  <2>1. p \in Nat \ {0}
    <3>1. bits \in 0 .. 32
      OBVIOUS
    <3> QED
      BY <3>1, Powers, Zenon
  <2>2. \A i \in DOMAIN r : r[i] < p /\ r[i] % p = r[i]
    <3> SUFFICES ASSUME NEW i \in DOMAIN r PROVE r[i] < p /\ r[i] % p = r[i]
      OBVIOUS
    <3>1. r[i] \in Nat /\ r[i] + 1 \in 1 .. n
      BY <1>1, <1>2, <1>3
    <3> HIDE DEF p
    <3>2. p >= n
      BY <1>5 DEF p
    <3>3. r[i] < p
      BY <1>1, <2>1, <3>1, <3>2
    <3> QED
      BY <2>1, <3>1, <3>3
  <2>3. [i \in DOMAIN r |-> r[i] % p] = r
    <3> HIDE DEF p
    <3>1. [i \in DOMAIN r |-> r[i] % p] = [i \in DOMAIN r |-> r[i]]
      BY <2>2
    <3> QED
      BY <1>4, <3>1
  <2>4. Bitpack(r, bits) = PackIndices(r, bits)
    BY <2>3, Zenon DEF Bitpack
  <2>5. bits \in 1 .. 32
    OBVIOUS
  <2>6. \A i \in 1 .. Len(r) : r[i] < 2 ^ bits
    BY <1>4, <2>2
  <2> QED
    BY <1>4, <2>4, <2>5, <2>6, UnpackedSame
<1>6. ASSUME NEW j \in DOMAIN s.block, NEW m \in DOMAIN s.centroids
      PROVE  Abs(1000 * s.block[j] - LloydDecode(r, s.norm, s.centroids)[j])
                 =< Abs(1000 * s.block[j] - s.centroids[m] * s.norm)
  <2>1. LloydDecode(r, s.norm, s.centroids)[j] = s.centroids[r[j] + 1] * s.norm
    BY <1>2, <1>3, Zenon DEF LloydDecode
  <2>2. Off(s.block[j], s.norm, s.centroids, r[j] + 1) <= Off(s.block[j], s.norm, s.centroids, m)
    BY <1>2
  <2> QED
    BY <2>1, <2>2 DEF Off
<1> QED
  BY <1>5, <1>6 DEF NearestLevels, r

(***************************************************************************)
(* What threads are answered.                                              *)
(***************************************************************************)
LEMMA LookupIsRight ==
    ASSUME NEW c \in Lookups, ValidLookup(c)
    PROVE  /\ NearestWords(c, OnCpu(c))
           /\ KernelFits(c) /\ FiniteInput(c) => NearestWords(c, OnDeviceLookup(c))
<1>1. /\ c.words \in Seq(Seq(Int)) /\ c.blocks \in Seq(Seq(Int) \cup {Wild})
      /\ \A b \in DOMAIN c.blocks, w \in DOMAIN c.words :
             c.blocks[b] # Wild =>
                 /\ Len(c.blocks[b]) = c.k
                 /\ SquaredDistance(c.blocks[b], c.words[w]) < Infinity
  BY LookupAssumption
<1>2. c.words # <<>> /\ \A w \in DOMAIN c.words : Len(c.words[w]) = c.k
  BY DEF ValidLookup
<1>3. ASSUME NEW b \in DOMAIN c.blocks, c.blocks[b] # Wild
      PROVE  Distant(c.blocks[b], c.words)
  <2>1. Len(c.words) \in Nat \ {0} /\ DOMAIN c.words = 1 .. Len(c.words)
    BY <1>1, <1>2
  <2>2. ASSUME NEW w \in DOMAIN c.words
        PROVE  Away(c.blocks[b], c.words, w) \in Int /\ Away(c.blocks[b], c.words, w) < Infinity
    <3>1. c.blocks[b] \in Seq(Int) /\ c.words[w] \in Seq(Int)
      BY <1>1, <1>3
    <3>2. Len(c.blocks[b]) = Len(c.words[w])
      BY <1>1, <1>2, <1>3
    <3>3. SquaredDistance(c.blocks[b], c.words[w]) \in Int
      BY <3>1, <3>2, DistanceIs
    <3> QED
      BY <1>1, <1>3, <3>3 DEF Away
  <2> QED
    BY <1>2, <2>1, <2>2 DEF Distant
<1>4. NearestWords(c, OnCpu(c))
  <2>1. ASSUME NEW b \in DOMAIN c.blocks, c.blocks[b] = Wild
        PROVE  OnCpu(c)[b] = 0 /\ OnCpu(c)[b] + 1 \in DOMAIN c.words
    <3>1. OnCpu(c)[b] = 0
      BY <2>1 DEF OnCpu, Farthest
    <3>2. 1 \in DOMAIN c.words
      BY <1>1, <1>2
    <3> QED
      BY <3>1, <3>2
  <2>2. ASSUME NEW b \in DOMAIN c.blocks, c.blocks[b] # Wild
        PROVE  LET i == OnCpu(c)[b] IN
               /\ i + 1 \in DOMAIN c.words
               /\ \A w \in DOMAIN c.words :
                      Away(c.blocks[b], c.words, i + 1) <= Away(c.blocks[b], c.words, w)
    <3>1. OnCpu(c)[b] = NearestScalar(c.blocks[b], c.words)
      BY <2>2 DEF OnCpu
    <3>2. Distant(c.blocks[b], c.words)
      BY <1>3, <2>2
    <3>3. Found(c.blocks[b], c.words, NearestScalar(c.blocks[b], c.words))
      BY <3>2, ScalarRuns DEF Distant
    <3> QED
      BY <3>1, <3>2, <3>3, FoundIsNearest
  <2> QED
    BY <2>1, <2>2 DEF NearestWords, Away
<1>5. ASSUME KernelFits(c), FiniteInput(c) PROVE NearestWords(c, OnDeviceLookup(c))
  <2> SUFFICES ASSUME NEW b \in DOMAIN c.blocks
               PROVE  LET i == OnDeviceLookup(c)[b] IN
                      /\ i + 1 \in DOMAIN c.words
                      /\ \A w \in DOMAIN c.words :
                             Away(c.blocks[b], c.words, i + 1) <= Away(c.blocks[b], c.words, w)
    BY <1>5 DEF NearestWords, Away, FiniteInput
  <2>1. OnDeviceLookup(c)[b] = OnDeviceIndex(c.blocks[b], c.words)
    BY DEF OnDeviceLookup
  <2>2. Len(c.words) = WarpSize
    BY <1>5 DEF KernelFits
  <2>3. Distant(c.blocks[b], c.words)
    BY <1>3, <1>5 DEF FiniteInput
  <2> QED
    BY <2>1, <2>2, <2>3, DeviceIsNearest
<1> QED
  BY <1>4, <1>5

LEMMA LookupsAreNotScalars == Lookups \cap Scalars = {}
<1> SUFFICES ASSUME NEW c \in Lookups, c \in Scalars PROVE FALSE
  OBVIOUS
<1>1. "words" \in DOMAIN c
  BY LookupAssumption
<1>2. "words" \notin DOMAIN c
  BY ScalarAssumption
<1> QED
  BY <1>1, <1>2

Answers(c, r) ==
    IF c \in Lookups THEN NearestWords(c, r) ELSE NearestLevels(c, r)

(* A thread that asks for the device has a lookup that the kernel is for;  *)
(* one that waits for nothing but an availability has its last answer.     *)
ResultInv ==
    /\ DOMAIN at = Thread /\ DOMAIN call = Thread /\ DOMAIN result = Thread
    /\ \A t \in Thread :
           /\ at[t] \in {"idle", "ask", "probe", "device"}
           /\ at[t] \in {"ask", "device"} =>
                  /\ call[t] \in Lookups /\ ValidLookup(call[t])
                  /\ KernelFits(call[t]) /\ FiniteInput(call[t])
           /\ at[t] \in {"idle", "probe"} /\ call[t] # Unset
              /\ result[t] \notin {Unset, CallFailed} => Answers(call[t], result[t])

LEMMA ResultsInitially == GpuInit => ResultInv
  BY DEF GpuInit, ResultInv

LEMMA ResultsKeep == ResultInv /\ [GpuNext]_gpuVars => ResultInv'
<1> SUFFICES ASSUME ResultInv, [GpuNext]_gpuVars PROVE ResultInv'
  OBVIOUS
<1> USE DEF Goes, Returns
<1>1. ASSUME NEW t \in Thread, NEW c \in Lookups, Lookup(t, c) PROVE ResultInv'
  <2>1. DOMAIN at' = Thread /\ DOMAIN call' = Thread /\ DOMAIN result' = Thread
        /\ \A u \in Thread \ {t} : at'[u] = at[u] /\ call'[u] = call[u] /\ result'[u] = result[u]
    BY <1>1 DEF Lookup, ResultInv
  <2>2. at[t] = "idle" /\ call'[t] = c
    BY <1>1 DEF Lookup, ResultInv
  <2>3. \/ at'[t] = "idle" /\ result'[t] = CallFailed
        \/ at'[t] = "idle" /\ ValidLookup(c) /\ result'[t] = OnCpu(c)
        \/ at'[t] = "ask" /\ ValidLookup(c) /\ KernelFits(c) /\ FiniteInput(c)
    BY <1>1 DEF Lookup, ResultInv, Asks
  <2>4. ValidLookup(c) => Answers(c, OnCpu(c))
    BY LookupIsRight DEF Answers
  <2> QED
    BY <2>1, <2>2, <2>3, <2>4 DEF ResultInv
<1>2. ASSUME NEW t \in Thread, NEW s \in Scalars, LloydMaxBatch(t, s) PROVE ResultInv'
  <2>1. DOMAIN at' = Thread /\ DOMAIN call' = Thread /\ DOMAIN result' = Thread
        /\ \A u \in Thread \ {t} : at'[u] = at[u] /\ call'[u] = call[u] /\ result'[u] = result[u]
    BY <1>2 DEF LloydMaxBatch, ResultInv
  <2>2. at'[t] = "idle" /\ call'[t] = s /\ result'[t] = LloydIndices(s)
    BY <1>2 DEF LloydMaxBatch, ResultInv
  <2>3. Answers(s, LloydIndices(s))
    BY LookupsAreNotScalars, LevelsAreNearest DEF Answers
  <2> QED
    BY <2>1, <2>2, <2>3 DEF ResultInv
<1>3. ASSUME NEW t \in Thread, Probe(t) PROVE ResultInv'
  BY <1>3 DEF Probe, ResultInv
<1>4. ASSUME NEW t \in Thread, BeginInit(t) PROVE ResultInv'
  BY <1>4 DEF BeginInit, ResultInv
<1>5. ASSUME NEW t \in Thread, Answered(t) PROVE ResultInv'
  <2>1. /\ DOMAIN at' = Thread /\ DOMAIN call' = Thread /\ DOMAIN result' = Thread
        /\ \A u \in Thread \ {t} : at'[u] = at[u] /\ call'[u] = call[u] /\ result'[u] = result[u]
        /\ call'[t] = call[t]
    BY <1>5 DEF Answered, ResultInv
  <2>2. \/ at[t] = "probe" /\ at'[t] = "idle" /\ result'[t] = result[t]
        \/ at[t] = "ask" /\ at'[t] = "device" /\ result'[t] = result[t]
        \/ at[t] = "ask" /\ at'[t] = "idle" /\ result'[t] = OnCpu(call[t])
    BY <1>5 DEF Answered, ResultInv
  <2>3. at[t] = "ask" => Answers(call[t], OnCpu(call[t]))
    BY LookupIsRight DEF Answers, ResultInv
  <2> QED
    BY <2>1, <2>2, <2>3 DEF ResultInv
<1>6. ASSUME NEW t \in Thread, Launch(t) PROVE ResultInv'
  <2>1. /\ DOMAIN at' = Thread /\ DOMAIN call' = Thread /\ DOMAIN result' = Thread
        /\ \A u \in Thread \ {t} : at'[u] = at[u] /\ call'[u] = call[u] /\ result'[u] = result[u]
        /\ call'[t] = call[t] /\ at'[t] = "idle"
        /\ result'[t] \in {OnDeviceLookup(call[t]), CallFailed}
    BY <1>6 DEF Launch, ResultInv
  <2>2. Answers(call[t], OnDeviceLookup(call[t]))
    BY <1>6, LookupIsRight DEF Launch, Answers, ResultInv
  <2> QED
    BY <2>1, <2>2 DEF ResultInv
<1>7. ASSUME NEW t \in Thread, CallWrapper(t) PROVE ResultInv'
  <2>1. /\ DOMAIN at' = Thread /\ DOMAIN call' = Thread /\ DOMAIN result' = Thread
        /\ \A u \in Thread \ {t} : at'[u] = at[u] /\ call'[u] = call[u] /\ result'[u] = result[u]
        /\ at'[t] = "idle" /\ result'[t] \in {CallFailed, Unset}
    BY <1>7 DEF CallWrapper, ResultInv
  <2> QED
    BY <2>1 DEF ResultInv
<1>8. ASSUME StepFails \/ StepSucceeds \/ FinishInit PROVE ResultInv'
  BY <1>8 DEF StepFails, StepSucceeds, FinishInit, ResultInv
<1>9. CASE UNCHANGED gpuVars
  BY <1>9 DEF gpuVars, ResultInv
<1> QED
  BY <1>1, <1>2, <1>3, <1>4, <1>5, <1>6, <1>7, <1>8, <1>9 DEF GpuNext

(* Whatever becomes of the initialization and of the launches, and however *)
(* many threads there are, an index that a call returns is that of a       *)
(* nearest codeword, by the loop or by the warp's reduction for any size   *)
(* of the warp, or the packed and decoded index of a nearest level         *)
(* (codebook_lookup_batch, lloyd_max_batch).                               *)
THEOREM AnswersAreNearest == GpuSpec => []ResultsAreNearest
<1>1. ResultInv => ResultsAreNearest
  BY DEF ResultInv, ResultsAreNearest, Answers
<1> QED
  BY <1>1, ResultsInitially, ResultsKeep, PTL DEF GpuSpec

(***************************************************************************)
(* Codes and their bytes.                                                  *)
(***************************************************************************)
(* q made this code, of a norm and of indices of its codewords. *)
IndexLists(q) == [1 .. Blocks(q.profile) -> 0 .. q.profile.n - 1]

Made(q, code) ==
    \E n \in 1 .. MaxNorm, ind \in IndexLists(q) :
        CodeFor(q, n, ind).ok /\ code = CodeFor(q, n, ind).value

(* A valid profile has at least one block, and the words of its size. *)
LEMMA QuantizerIs ==
    ASSUME NEW q \in Quantizers, ValidQuantizer(q)
    PROVE  /\ q.profile.k \in Nat \ {0} /\ q.profile.n \in Nat \ {0}
           /\ Blocks(q.profile) \in Nat \ {0}
           /\ q.words \in Seq(Seq(Int)) /\ Len(q.words) = q.profile.n
           /\ \A c \in DOMAIN q.words : Len(q.words[c]) = q.profile.k
<1> DEFINE k == q.profile.k  d == q.profile.dim  n == q.profile.n
<1>1. k \in 1 .. MaxBlockDim /\ d \in 1 .. MaxAmbientDim /\ k < d /\ n \in 2 .. MaxCodebookSize
  BY Zenon DEF ValidQuantizer, ValidProfile
<1>5. MaxBlockDim \in Int /\ MaxAmbientDim \in Int /\ MaxCodebookSize \in Int
  BY DEF MaxBlockDim, MaxAmbientDim, MaxCodebookSize
<1>2. Blocks(q.profile) = d \div k
  BY DEF Blocks
<1> HIDE DEF k, d, n
<1>3. d \div k \in Nat \ {0}
  <2>1. d = (d \div k) * k + (d % k) /\ d \div k \in Nat /\ d % k \in 0 .. k - 1
    <3>1. d \in Nat /\ k \in Nat \ {0}
      BY <1>1, <1>5
    <3> QED
      BY <3>1, DivMod
  <2>2. d \div k # 0
    <3> SUFFICES ASSUME d \div k = 0 PROVE FALSE
      OBVIOUS
    <3> QED
      BY <1>1, <1>5, <2>1
  <2> QED
    BY <2>1, <2>2
<1>4. n \in Nat \ {0} /\ k \in Nat \ {0}
  BY <1>1, <1>5
<1> QED
  BY <1>2, <1>3, <1>4, QuantizerAssumption DEF ValidQuantizer, k, n

(* Both loops choose the indices of codewords. *)
LEMMA IndicesAre ==
    ASSUME NEW q \in Quantizers, ValidQuantizer(q), NEW v
    PROVE  /\ Indices(q, v, Nearest) \in IndexLists(q)
           /\ Indices(q, v, CodebookLookup) \in IndexLists(q)
<1> DEFINE n == q.profile.n  words == q.words
<1>1. Len(words) = n /\ n \in Nat \ {0} /\ DOMAIN words = 1 .. Len(words)
  BY QuantizerIs
<1> HIDE DEF n, words
<1>2. ASSUME NEW block PROVE NearestScalar(block, words) \in 0 .. n - 1
  BY <1>1, ScalarRuns, FoundInRange
<1>3. ASSUME NEW block PROVE NearestPairs(block, words) \in 0 .. n - 1
  BY <1>1, PairsRun, FoundInRange
<1>4. \A block, k : Nearest(block, words, k) \in 0 .. n - 1
  BY <1>2, <1>3 DEF Nearest
<1>5. \A block, k : CodebookLookup(block, words, k) \in 0 .. n - 1
  BY <1>2 DEF CodebookLookup
<1>6. Indices(q, v, Nearest) \in IndexLists(q)
  <2>1. Indices(q, v, Nearest)
          = [b \in 1 .. Blocks(q.profile) |-> Nearest(BlockOf(v, b, q.profile.k), words, q.profile.k)]
    BY Zenon DEF Indices, words
  <2> QED
    BY <1>4, <2>1, Zenon DEF IndexLists, n
<1>7. Indices(q, v, CodebookLookup) \in IndexLists(q)
  <2>1. Indices(q, v, CodebookLookup)
          = [b \in 1 .. Blocks(q.profile) |-> CodebookLookup(BlockOf(v, b, q.profile.k), words, q.profile.k)]
    BY Zenon DEF Indices, words
  <2> QED
    BY <1>5, <2>1, Zenon DEF IndexLists, n
<1> QED
  BY <1>6, <1>7

(* Every way of encoding makes codes of this form. *)
LEMMA CodeForIsMade ==
    ASSUME NEW q, NEW n, NEW ind \in IndexLists(q), CodeFor(q, n, ind).ok
    PROVE  Made(q, CodeFor(q, n, ind).value)
<1>1. NormEncodes(n)
  BY DEF CodeFor, Failed
<1> QED
  BY <1>1, Zenon DEF NormEncodes, Made

LEMMA EncodedIsMade ==
    ASSUME NEW q \in Quantizers, ValidQuantizer(q), NEW x, Encoded(q, x).ok
    PROVE  Made(q, Encoded(q, x).value)
<1> DEFINE ind == Indices(q, Rotate(q.profile, Direction(x)), Nearest)
<1>1. Encoded(q, x) = Failed \/ Encoded(q, x) = CodeFor(q, NormOf(x), ind)
  BY Zenon DEF Encoded
<1>2. ind \in IndexLists(q)
  BY IndicesAre
<1> HIDE DEF ind
<1> QED
  BY <1>1, <1>2, CodeForIsMade DEF Failed

(* A batch has a code for each of its vectors. *)
LEMMA BatchIsMade ==
    ASSUME NEW q \in Quantizers, ValidQuantizer(q), NEW xs, NEW gpu, BatchEncoded(q, xs, gpu).ok
    PROVE  /\ DOMAIN BatchEncoded(q, xs, gpu).value = DOMAIN xs
           /\ \A i \in DOMAIN xs : Made(q, BatchEncoded(q, xs, gpu).value[i])
<1> DEFINE r == BatchEncoded(q, xs, gpu)
           Good(c) == c.ok => Made(q, c.value)
<1>1. ASSUME NEW f, DOMAIN f = DOMAIN xs, \A i \in DOMAIN xs : Good(f[i]), Collected(f).ok
      PROVE  /\ DOMAIN Collected(f).value = DOMAIN xs
             /\ \A i \in DOMAIN xs : Made(q, Collected(f).value[i])
  BY <1>1 DEF Collected, Succeeded, Failed
<1>2. \A x : Good(Encoded(q, x))
  BY EncodedIsMade
<1>3. \A n, x : Good(CodeFor(q, n, BatchIndices(q, Len(xs), gpu, x)))
  <2> SUFFICES ASSUME NEW n, NEW x
               PROVE  Good(CodeFor(q, n, BatchIndices(q, Len(xs), gpu, x)))
    OBVIOUS
  <2>1. BatchIndices(q, Len(xs), gpu, x) \in IndexLists(q)
    <3>1. \/ BatchIndices(q, Len(xs), gpu, x)
               = Indices(q, Hadamard(q.profile, Direction(x)), CodebookLookup)
          \/ BatchIndices(q, Len(xs), gpu, x)
               = Indices(q, Rotate(q.profile, Direction(x)), Nearest)
      BY Zenon DEF BatchIndices
    <3> QED
      BY <3>1, IndicesAre
  <2> QED
    BY <2>1, CodeForIsMade
<1> DEFINE f == [i \in DOMAIN xs |-> Encoded(q, xs[i])]
           g == [i \in DOMAIN xs |->
                   CodeFor(q, NormOf(xs[i]), BatchIndices(q, Len(xs), gpu, xs[i]))]
<1>4. r = Collected(f) \/ r = Failed \/ r = Collected(g)
  BY Zenon DEF BatchEncoded
<1>5. r # Failed
  BY DEF Failed
<1>6. /\ DOMAIN f = DOMAIN xs /\ \A i \in DOMAIN xs : f[i] = Encoded(q, xs[i])
      /\ DOMAIN g = DOMAIN xs
      /\ \A i \in DOMAIN xs :
             g[i] = CodeFor(q, NormOf(xs[i]), BatchIndices(q, Len(xs), gpu, xs[i]))
  BY Zenon
<1> HIDE DEF r, f, g, Good
<1>7. /\ \A i \in DOMAIN xs : Good(f[i])
      /\ \A i \in DOMAIN xs : Good(g[i])
  BY <1>2, <1>3, <1>6
<1> QED
  BY <1>1, <1>4, <1>5, <1>6, <1>7 DEF r

(* The norm survives its two bytes. *)
LEMMA NormComesBack ==
    ASSUME NEW n \in 1 .. MaxNorm
    PROVE  /\ NormBytes(n) \in Seq(Nat) /\ Len(NormBytes(n)) = 2
           /\ NormDecoded(NormBytes(n)) = Succeeded(n)
<1> DEFINE low == n % 256  high == n \div 256
<1>1. n \in Nat /\ MaxNorm \in Int
  BY NormAssumption
<1>2. low \in Nat /\ high \in Nat /\ low + 256 * high = n
  BY <1>1
<1>3. NormBytes(n) = <<low, high>>
  BY DEF NormBytes
<1> HIDE DEF low, high
<1>4. /\ NormBytes(n) \in Seq(Nat) /\ Len(NormBytes(n)) = 2
      /\ NormBytes(n)[1] + 256 * NormBytes(n)[2] = n
  BY <1>2, <1>3
<1>5. NormDecoded(NormBytes(n)) = Succeeded(n)
  BY <1>4, Zenon DEF NormDecoded
<1> QED
  BY <1>4, <1>5

(* Indices that pack_indices takes are unpacked as they were. *)
LEMMA IndicesComeBack ==
    ASSUME NEW bits, NEW m \in Nat, NEW N \in Nat, NEW ind \in [1 .. m -> 0 .. N - 1],
           Packed(ind, bits).ok
    PROVE  LET bytes == Packed(ind, bits).value IN
           /\ bits \in 1 .. 32
           /\ bytes \in Seq(Nat) /\ Len(bytes) = Ceil8(m * bits) /\ Ceil8(m * bits) \in Nat
           /\ Unpacked(bytes, m, bits) = Succeeded(ind)
<1> DEFINE bytes == PackIndices(ind, bits)
<1>1. bits \in 1 .. 32 /\ \A i \in DOMAIN ind : ind[i] < 2 ^ bits
  BY DEF Packed, Failed
<1>2. Packed(ind, bits).value = bytes
  BY <1>1 DEF Packed, Succeeded
<1>3. ind \in Seq(Nat) /\ Len(ind) = m /\ DOMAIN ind = 1 .. m
  <2>1. ind \in [1 .. m -> Nat]
    OBVIOUS
  <2> QED
    BY <2>1, FunctionIsSeq
<1>4. /\ Len(bytes) = Ceil8(m * bits) /\ DOMAIN bytes = 1 .. Ceil8(m * bits)
      /\ Ceil8(m * bits) \in Nat
  BY <1>1, <1>3, PackedLength
<1>5. \A j \in 1 .. Ceil8(m * bits) : bytes[j] \in Nat
  <2> SUFFICES ASSUME NEW j \in 1 .. Ceil8(m * bits) PROVE bytes[j] \in Nat
    OBVIOUS
  <2> DEFINE byte == bytes[j]
  <2>1. byte \in 0 .. 255
    BY <1>1, <1>3, BytesAre
  <2> HIDE DEF byte
  <2>2. byte \in Nat
    BY <2>1
  <2> QED
    BY <2>2, Zenon DEF byte
<1>6. bytes \in Seq(Nat)
  <2> DEFINE l == Ceil8(m * bits)
  <2>1. bytes = [j \in 1 .. l |-> bytes[j]]
    <3>1. bytes = [j \in DOMAIN bytes |-> bytes[j]]
      BY Zenon DEF PackIndices, bytes
    <3> HIDE DEF bytes
    <3> QED
      BY <1>4, <3>1
  <2>2. l \in Nat /\ \A j \in 1 .. l : bytes[j] \in Nat
    BY <1>4, <1>5
  <2> HIDE DEF bytes, l
  <2>3. bytes \in [1 .. l -> Nat]
    BY <2>1, <2>2
  <2> QED
    BY <2>2, <2>3, FunctionIsSeq
<1>7. PaddingZero(bytes, m * bits)
  BY <1>1, <1>3, PackedPadding
<1>8. UnpackIndices(bytes, m, bits) = ind
  BY <1>1, <1>3, UnpackedSame
<1> HIDE DEF bytes
<1>9. Unpacked(bytes, m, bits) = Succeeded(ind)
  BY <1>1, <1>4, <1>7, <1>8, Zenon DEF Unpacked
<1> QED
  BY <1>1, <1>2, <1>4, <1>6, <1>9

(* What a reader's quantizer makes of the code's bytes. *)
Reread(q, code) == Rebuilt(q.profile, code.norm, code.indices, q.profile.bits, Blocks(q.profile))

(* What encode writes is what decode asks for. *)
LEMMA MadeIs ==
    ASSUME NEW q \in Quantizers, ValidQuantizer(q), NEW code, Made(q, code)
    PROVE  LET p == q.profile IN
           /\ code.codebook = q /\ code.bits = p.bits /\ code.blocks = Blocks(p)
           /\ code.format = p.format
           /\ HeaderFits(code, q) /\ HeaderFits(Reread(q, code), q)
           /\ code.norm \in Seq(Nat) /\ Len(code.norm) = 2 /\ NormDecoded(code.norm).ok
           /\ p.bits \in 1 .. 32 /\ Ceil8(Blocks(p) * p.bits) \in Nat
           /\ code.indices \in Seq(Nat) /\ Len(code.indices) = Ceil8(Blocks(p) * p.bits)
           /\ Unpacked(code.indices, Blocks(p), p.bits).ok
           /\ Unpacked(code.indices, Blocks(p), p.bits).value \in IndexLists(q)
<1> DEFINE p == q.profile
<1>1. PICK n \in 1 .. MaxNorm, ind \in IndexLists(q) :
          CodeFor(q, n, ind).ok /\ code = CodeFor(q, n, ind).value
  BY DEF Made
<1>2. Packed(ind, p.bits).ok
  BY <1>1 DEF CodeFor, Failed
<1>3. code = [profile |-> p, codebook |-> q, rotation |-> RotationDigest(p), dim |-> p.dim,
              k |-> p.k, format |-> p.format, norm |-> NormBytes(n), bits |-> p.bits,
              blocks |-> Blocks(p), indices |-> Packed(ind, p.bits).value]
  BY <1>1 DEF CodeFor, CodebookDigest, Succeeded, Failed
<1>4. /\ code.profile = p /\ code.codebook = q /\ code.rotation = RotationDigest(p)
      /\ code.dim = p.dim /\ code.k = p.k /\ code.format = p.format
      /\ code.norm = NormBytes(n) /\ code.bits = p.bits /\ code.blocks = Blocks(p)
      /\ code.indices = Packed(ind, p.bits).value
  BY <1>3
<1>5. HeaderFits(code, q) /\ HeaderFits(Reread(q, code), q)
  BY <1>4 DEF HeaderFits, CodebookDigest, Reread, Rebuilt
<1>6. code.norm \in Seq(Nat) /\ Len(code.norm) = 2 /\ NormDecoded(code.norm).ok
  BY <1>4, NormComesBack DEF Succeeded
<1>7. LET bytes == Packed(ind, p.bits).value IN
      /\ p.bits \in 1 .. 32 /\ Ceil8(Blocks(p) * p.bits) \in Nat
      /\ bytes \in Seq(Nat) /\ Len(bytes) = Ceil8(Blocks(p) * p.bits)
      /\ Unpacked(bytes, Blocks(p), p.bits) = Succeeded(ind)
  <2> DEFINE m == Blocks(p)  N == p.n  bits == p.bits
  <2>1. m \in Nat /\ N \in Nat /\ ind \in [1 .. m -> 0 .. N - 1] /\ Packed(ind, bits).ok
    BY <1>2, QuantizerIs DEF IndexLists
  <2> HIDE DEF m, N, bits
  <2>2. LET bytes == Packed(ind, bits).value IN
        /\ bits \in 1 .. 32
        /\ bytes \in Seq(Nat) /\ Len(bytes) = Ceil8(m * bits) /\ Ceil8(m * bits) \in Nat
        /\ Unpacked(bytes, m, bits) = Succeeded(ind)
    BY <2>1, IndicesComeBack
  <2> QED
    BY <2>2 DEF m, bits
<1>8. /\ Unpacked(code.indices, Blocks(p), p.bits).ok
      /\ Unpacked(code.indices, Blocks(p), p.bits).value \in IndexLists(q)
  BY <1>4, <1>7 DEF Succeeded
<1> HIDE DEF p
<1> QED
  BY <1>4, <1>5, <1>6, <1>7, <1>8 DEF p

(* What decoding makes of codewords and a norm. *)
Restored(p, rotated, norm) ==
    LET x == RotateBack(p, rotated) IN Succeeded([i \in DOMAIN x |-> x[i] * norm])

(* decode_batch_fast cuts out of the flat codebook what decode takes whole.*)
LEMMA MadeDecodes ==
    ASSUME NEW q \in Quantizers, ValidQuantizer(q), NEW code, Made(q, code)
    PROVE  Decode(q, code).ok /\ FastDecode(q, Reread(q, code)) = Decode(q, code)
<1> DEFINE p == q.profile
           u == Unpacked(code.indices, Blocks(p), p.bits)
           norm == NormDecoded(code.norm)
           words == [b \in 1 .. Blocks(p) |-> q.words[u.value[b] + 1]]
           cut == [b \in 1 .. Blocks(p) |->
                     SubSeq(FlattenSeq(q.words), u.value[b] * p.k + 1, u.value[b] * p.k + p.k)]
           Readable(c) == /\ HeaderFits(c, q) /\ u.ok
                          /\ \A b \in DOMAIN u.value : u.value[b] < p.n
                          /\ norm.ok
<1>1. Decode(q, code) = IF Readable(code) THEN Restored(p, FlattenSeq(words), norm.value)
                        ELSE Failed
  BY Zenon DEF Decode, Restored
<1>2. FastDecode(q, Reread(q, code))
          = IF Readable(Reread(q, code)) THEN Restored(p, FlattenSeq(cut), norm.value)
            ELSE Failed
  <2>1. Reread(q, code).indices = code.indices /\ Reread(q, code).norm = code.norm
    BY DEF Reread, Rebuilt
  <2> DEFINE c == Reread(q, code)
  <2> HIDE DEF c
  <2>2. c.indices = code.indices /\ c.norm = code.norm
    BY <2>1 DEF c
  <2>3. FastDecode(q, c)
          = IF Readable(c) THEN Restored(p, FlattenSeq(cut), norm.value) ELSE Failed
    BY <2>2, Zenon DEF FastDecode, Restored
  <2> QED
    BY <2>3 DEF c
<1>3. /\ u.ok /\ norm.ok /\ u.value \in IndexLists(q)
      /\ HeaderFits(code, q) /\ HeaderFits(Reread(q, code), q)
  BY MadeIs
<1>4. /\ p.k \in Nat /\ p.n \in Nat /\ q.words \in Seq(Seq(Int)) /\ Len(q.words) = p.n
      /\ \A c \in DOMAIN q.words : Len(q.words[c]) = p.k
  BY QuantizerIs
<1>5. DOMAIN u.value = 1 .. Blocks(p) /\ \A b \in 1 .. Blocks(p) : u.value[b] \in 0 .. p.n - 1
  BY <1>3, Zenon DEF IndexLists
<1> HIDE DEF u, norm, p
<1>6. ASSUME NEW b \in 1 .. Blocks(p) PROVE cut[b] = words[b]
  <2>1. u.value[b] \in 0 .. Len(q.words) - 1
    BY <1>4, <1>5
  <2> DEFINE v == u.value[b]  k == p.k
  <2> HIDE DEF v, k
  <2>2. SubSeq(FlattenSeq(q.words), v * k + 1, v * k + k) = q.words[v + 1]
    BY <1>4, <2>1, FlattenSlice DEF v, k
  <2> QED
    BY <2>2, Zenon DEF v, k
<1>7. cut = words
  BY <1>6, Zenon
<1>8. Readable(code) /\ Readable(Reread(q, code))
  BY <1>3, <1>4, <1>5
<1> HIDE DEF words, cut, Readable
<1> QED
  BY <1>1, <1>2, <1>7, <1>8 DEF Restored, Succeeded

(***************************************************************************)
(* Codes and their quantizers.                                             *)
(***************************************************************************)
(* Codes carry the codebook they were encoded with, and what was read of   *)
(* them was read with it. *)
CodeInv ==
    /\ quantizer = <<>> => decoded = NotRead
    /\ codes # <<>> =>
           /\ \E n \in Nat \ {0} : DOMAIN codes = 1 .. n
           /\ \A i \in DOMAIN codes : codes[i].codebook = quantizer
           /\ quantizer \in Quantizers
    /\ wire # <<>> => codes # <<>> /\ DOMAIN wire = {"magic", "body", "head"}
    /\ CodeIsBound

LEMMA NoneIsNoQuantizer == <<>> \notin Quantizers
  BY QuantizerAssumption, Zenon

LEMMA DecodedFits ==
    ASSUME NEW q, NEW c, Decode(q, c).ok
    PROVE  c.codebook \in {<<>>, q}
  BY DEF Decode, HeaderFits, CodebookDigest, Failed

LEMMA BatchFits ==
    ASSUME NEW q, NEW n \in Nat \ {0}, NEW cs, DOMAIN cs = 1 .. n,
           DecodeBatch(q, cs, Decode).ok
    PROVE  cs[1].codebook \in {<<>>, q}
<1> DEFINE f == [i \in DOMAIN cs |-> Decode(q, cs[i])]
<1>1. Collected(f).ok
  BY Zenon DEF DecodeBatch
<1>2. 1 \in DOMAIN cs
  OBVIOUS
<1>3. DOMAIN f = DOMAIN cs /\ f[1] = Decode(q, cs[1])
  BY <1>2, Zenon
<1> HIDE DEF f
<1>4. f[1].ok
  BY <1>1, <1>2, <1>3 DEF Collected, Failed
<1> QED
  BY <1>3, <1>4, DecodedFits

LEMMA FibNextBinds == CodeInv /\ [FibNext]_fibVars => CodeInv'
<1> SUFFICES ASSUME CodeInv, [FibNext]_fibVars PROVE CodeInv'
  OBVIOUS
<1> USE DEF CodeInv, CodeIsBound
<1>1. ASSUME NEW q \in Quantizers, NEW gpu \in Gpus, NEW n \in 1 .. MaxVectors,
             NEW xs \in [1 .. n -> Vectors], EncodeBatch(q, xs, gpu)
      PROVE  CodeInv'
  <2>1. quantizer = <<>> /\ codes' = BatchEncoded(q, xs, gpu).value /\ quantizer' = q
        /\ ValidQuantizer(q) /\ BatchEncoded(q, xs, gpu).ok
        /\ wire' = wire /\ decoded' = decoded
    BY <1>1 DEF EncodeBatch
  <2>2. /\ DOMAIN codes' = DOMAIN xs
        /\ \A i \in DOMAIN xs : codes'[i].codebook = q
    <3>1. /\ DOMAIN codes' = DOMAIN xs
          /\ \A i \in DOMAIN xs : Made(q, codes'[i])
      BY <2>1, BatchIsMade
    <3> QED
      BY <2>1, <3>1, MadeIs
  <2>3. DOMAIN xs = 1 .. n /\ n \in Nat \ {0}
    OBVIOUS
  <2>4. q # <<>> /\ ~decoded.ok
    BY <2>1, NoneIsNoQuantizer DEF NotRead, ReadBy, Failed
  <2> QED
    BY <2>1, <2>2, <2>3, <2>4
<1>2. CASE ToCompact
  BY <1>2 DEF ToCompact, Compact
<1>3. CASE ToBatch
  <2>1. codes # <<>> /\ wire = <<>> /\ wire' = Batched(codes, quantizer.profile).value
        /\ Batched(codes, quantizer.profile).ok /\ UNCHANGED <<quantizer, codes, decoded>>
    BY <1>3 DEF ToBatch
  <2>2. DOMAIN wire' = {"magic", "body", "head"}
    BY <2>1 DEF Batched, Succeeded, Failed
  <2> QED
    BY <2>1, <2>2
<1>4. ASSUME Cut \/ Extend \/ \E f, v : DamageHeader(f, v) PROVE CodeInv'
  <2>1. wire # <<>> /\ UNCHANGED <<quantizer, codes, decoded>>
    BY <1>4 DEF Cut, Extend, DamageHeader
  <2>2. DOMAIN wire' = DOMAIN wire
    BY <1>4 DEF Cut, Extend, DamageHeader
  <2>3. wire' # <<>>
    BY <2>1, <2>2
  <2> QED
    BY <2>1, <2>2, <2>3
<1>5. ASSUME NEW q \in Quantizers, ReadCodes(q) PROVE CodeInv'
  <2> DEFINE r == DecodeBatch(q, codes, Decode)
  <2>1. codes # <<>> /\ wire = <<>> /\ decoded' = ReadBy(q, r)
        /\ UNCHANGED <<quantizer, codes, wire>>
    BY <1>5, Zenon DEF ReadCodes
  <2>2. decoded'.ok = r.ok /\ decoded'.reader = q
    BY <2>1, Zenon DEF ReadBy
  <2>3. r.ok => q = quantizer
    <3> SUFFICES ASSUME r.ok PROVE q = quantizer
      OBVIOUS
    <3>1. PICK n \in Nat \ {0} : DOMAIN codes = 1 .. n
      BY <2>1
    <3>2. codes[1].codebook \in {<<>>, q}
      BY <3>1, BatchFits
    <3>3. 1 \in DOMAIN codes
      BY <3>1
    <3>4. codes[1].codebook = quantizer /\ quantizer # <<>>
      BY <2>1, <3>3, NoneIsNoQuantizer
    <3> QED
      BY <3>2, <3>4
  <2>4. quantizer # <<>>
    BY <2>1, NoneIsNoQuantizer
  <2> HIDE DEF r
  <2> QED
    BY <2>1, <2>2, <2>3, <2>4
<1>6. ASSUME NEW q \in Quantizers, ReadBytes(q) PROVE CodeInv'
  <2>1. wire # <<>> /\ UNCHANGED <<quantizer, codes, wire>>
    BY <1>6, Zenon DEF ReadBytes
  <2>2. quantizer # <<>>
    BY <2>1, NoneIsNoQuantizer
  <2> QED
    BY <2>1, <2>2
<1>7. CASE DropCodes
  BY <1>7 DEF DropCodes, NotRead, ReadBy, Failed
<1>8. CASE UNCHANGED fibVars
  BY <1>8 DEF fibVars
<1> QED
  BY <1>1, <1>2, <1>3, <1>4, <1>5, <1>6, <1>7, <1>8 DEF FibNext

(* A code is only ever read by the quantizer it was encoded with, however  *)
(* many quantizers share its profile (FibQuantizer::decode,                *)
(* validate_code_header).                                                  *)
THEOREM CodesAreBound == FibSpec => []CodeIsBound
<1>1. FibInit => CodeInv
  BY DEF FibInit, CodeInv, CodeIsBound, NotRead, ReadBy, Failed
<1>2. CodeInv => CodeIsBound
  BY DEF CodeInv
<1> QED
  BY <1>1, <1>2, FibNextBinds, PTL DEF FibSpec

(***************************************************************************)
(* Bytes and the mistakes that happen to them.                             *)
(***************************************************************************)
(* Within the buffer a slice has its whole length. *)
LEMMA CutLength ==
    ASSUME NEW S, NEW s \in Seq(S), NEW a \in Nat, NEW n \in Nat, a + n <= Len(s)
    PROVE  /\ Len(SubSeq(s, a + 1, a + n)) = n
           /\ Slice(s, a + 1, a + n) = SubSeq(s, a + 1, a + n)
<1> DEFINE m == Len(s)  u == SubSeq(s, a + 1, a + n)
<1>1. m \in Nat /\ a + n <= m /\ \A i \in 1 .. m : s[i] \in S
  OBVIOUS
<1>2. Slice(s, a + 1, a + n) = u
  <2>1. ~(a + n > m)
    <3> HIDE DEF m
    <3> QED
      BY <1>1
  <2> QED
    BY <2>1 DEF Slice
<1> HIDE DEF m
<1>3. \A i \in a + 1 .. a + n : s[i] \in S
  BY <1>1
<1>4. a + 1 \in Int /\ a + n \in Int
  OBVIOUS
<1>5. Len(u) = IF a + 1 <= a + n THEN (a + n) - (a + 1) + 1 ELSE 0
  BY <1>3, <1>4, SubSeqProperties
<1> HIDE DEF u
<1>6. Len(u) = n
  BY <1>5
<1> QED
  BY <1>2, <1>6 DEF u

(* Numbers of the header and bytes, whatever they say. *)
Numbers(w, fields) == w.body \in Seq(Nat) /\ \A f \in fields : w.head[f] \in Nat

CompactFields == {"version", "bits", "blocks", "norm"}
BatchFields == {"version", "bits", "blocks", "n", "norm", "indices"}

(* One code: its norm, then its indices up to the end. *)
LEMMA CompactReads ==
    ASSUME NEW w, Numbers(w, CompactFields), NEW p, FromCompact(w, p).ok
    PROVE  LET norm == w.head.norm
               rest == Ceil8(w.head.blocks * w.head.bits)
               first == SubSeq(w.body, 1, norm)
               second == SubSeq(w.body, norm + 1, norm + rest)
           IN  /\ w.head.version = 1 /\ norm \in Nat /\ rest \in Nat /\ Len(w.body) = norm + rest
               /\ Len(first) = norm /\ Len(second) = rest
               /\ FromCompact(w, p)
                    = Succeeded(<<Rebuilt(p, first, second, w.head.bits, w.head.blocks)>>)
<1> DEFINE norm == w.head.norm
           rest == Ceil8(w.head.blocks * w.head.bits)
           body == w.body
           l == Len(body)
<1>1. body \in Seq(Nat) /\ l \in Nat /\ norm \in Nat
  BY DEF Numbers, CompactFields
<1>2. w.head.version = 1 /\ l >= norm /\ l - norm = rest
  BY DEF FromCompact, Failed
<1>3. FromCompact(w, p)
        = Succeeded(<<Rebuilt(p, SubSeq(body, 1, norm), SubSeq(body, norm + 1, l),
                              w.head.bits, w.head.blocks)>>)
  BY Zenon DEF FromCompact, Failed
<1> HIDE DEF norm, rest, body, l
<1>4. rest \in Nat /\ l = norm + rest
  BY <1>1, <1>2
<1>5. Len(SubSeq(body, 1, norm)) = norm
  <2> DEFINE z == 0
  <2>1. z \in Nat /\ z + norm <= Len(body)
    BY <1>1, <1>4 DEF l
  <2>2. z + 1 = 1 /\ z + norm = norm
    BY <1>1
  <2> HIDE DEF z
  <2>3. Len(SubSeq(body, z + 1, z + norm)) = norm
    BY <1>1, <2>1, CutLength
  <2> QED
    BY <2>2, <2>3
<1>6. Len(SubSeq(body, norm + 1, norm + rest)) = rest
  BY <1>1, <1>4, CutLength DEF l
<1> QED
  BY <1>1, <1>2, <1>3, <1>4, <1>5, <1>6 DEF norm, rest, body, l

(* A batch: the codes one after the other, all of one size.                *)
CodeAt(w, i) == (i - 1) * (w.head.norm + w.head.indices)
NormAt(w, i) == SubSeq(w.body, CodeAt(w, i) + 1, CodeAt(w, i) + w.head.norm)
IndicesAt(w, i) ==
    SubSeq(w.body, CodeAt(w, i) + w.head.norm + 1,
           CodeAt(w, i) + w.head.norm + w.head.indices)

LEMMA BatchReads ==
    ASSUME NEW w, Numbers(w, BatchFields), NEW p, FromBatch(w, p).ok
    PROVE  LET value == FromBatch(w, p).value
           IN  /\ w.magic = "FB2" /\ w.head.version = 1 /\ w.head.bits = p.bits
               /\ w.head.blocks = Blocks(p) /\ w.head.format = p.format
               /\ Len(w.body) >= w.head.n * (w.head.norm + w.head.indices)
               /\ w.head.indices = Ceil8(w.head.blocks * w.head.bits)
               /\ DOMAIN value = 1 .. w.head.n
               /\ \A i \in 1 .. w.head.n :
                     /\ CodeAt(w, i) \in Nat
                     /\ CodeAt(w, i) + w.head.norm + w.head.indices <= Len(w.body)
                     /\ Len(NormAt(w, i)) = w.head.norm
                     /\ Len(IndicesAt(w, i)) = w.head.indices
                     /\ value[i] = Rebuilt(p, NormAt(w, i), IndicesAt(w, i),
                                           w.head.bits, w.head.blocks)
<1> DEFINE norm == w.head.norm
           rest == w.head.indices
           size == norm + rest
           n == w.head.n
           body == w.body
           l == Len(body)
           a(i) == Slice(body, (i - 1) * size + 1, (i - 1) * size + norm)
           b(i) == Slice(body, (i - 1) * size + norm + 1, i * size)
           value == FromBatch(w, p).value
<1>1. /\ w.magic = "FB2" /\ w.head.version = 1 /\ w.head.bits = p.bits
      /\ w.head.blocks = Blocks(p) /\ w.head.format = p.format
      /\ l >= n * size /\ rest = Ceil8(w.head.blocks * w.head.bits)
  BY Zenon DEF FromBatch, Failed
<1>2. FromBatch(w, p)
        = Succeeded([i \in 1 .. n |-> Rebuilt(p, a(i), b(i), w.head.bits, w.head.blocks)])
  BY Zenon DEF FromBatch, Failed
<1>3. value = [i \in 1 .. n |-> Rebuilt(p, a(i), b(i), w.head.bits, w.head.blocks)]
  <2> HIDE DEF a, b
  <2> QED
    BY <1>2 DEF Succeeded
<1>4. body \in Seq(Nat) /\ l \in Nat /\ norm \in Nat /\ rest \in Nat /\ n \in Nat
  BY DEF Numbers, BatchFields
<1>5. size \in Nat
  <2> HIDE DEF norm, rest
  <2> QED
    BY <1>4
<1> HIDE DEF norm, rest, n, body, l, value
<1>6. ASSUME NEW i \in 1 .. n
      PROVE  LET v == (i - 1) * size
                 first == SubSeq(body, v + 1, v + norm)
                 second == SubSeq(body, v + norm + 1, v + norm + rest)
             IN  /\ v \in Nat /\ v + norm + rest <= l
                 /\ Len(first) = norm /\ Len(second) = rest
                 /\ value[i] = Rebuilt(p, first, second, w.head.bits, w.head.blocks)
  <2> DEFINE u == i - 1  v == u * size  c == v + norm  e == n * size
  <2>1. u \in Nat /\ u < n
    BY <1>4
  <2> HIDE DEF u
  <2>2. v + size <= e /\ v \in Nat /\ e \in Nat
    <3> HIDE DEF size
    <3> QED
      BY <1>4, <1>5, <2>1, MulLess
  <2>3. i * size = v + size
    <3>1. i = u + 1
      BY <2>1 DEF u
    <3> HIDE DEF size
    <3>2. (u + 1) * size = u * size + size
      BY <1>5, <2>1
    <3> QED
      BY <3>1, <3>2
  <2>4. e <= l
    BY <1>1, <1>4, <2>2
  <2> HIDE DEF v, e
  <2>5. v + norm <= l /\ c \in Nat /\ c + rest <= l /\ v + size = c + rest
    BY <1>4, <2>2, <2>4
  <2>6. Slice(body, v + 1, v + norm) = SubSeq(body, v + 1, v + norm)
        /\ Len(SubSeq(body, v + 1, v + norm)) = norm
    BY <1>4, <2>2, <2>5, CutLength DEF l
  <2> HIDE DEF c
  <2>7. Slice(body, c + 1, c + rest) = SubSeq(body, c + 1, c + rest)
        /\ Len(SubSeq(body, c + 1, c + rest)) = rest
    BY <1>4, <2>5, CutLength DEF l
  <2>8. a(i) = Slice(body, v + 1, v + norm) /\ b(i) = Slice(body, c + 1, c + rest)
    BY <2>3, <2>5 DEF c, v, u
  <2>9. value[i] = Rebuilt(p, a(i), b(i), w.head.bits, w.head.blocks)
    <3> HIDE DEF a, b
    <3> QED
      BY <1>3
  <2> HIDE DEF a, b, size
  <2>10. value[i] = Rebuilt(p, SubSeq(body, v + 1, v + norm), SubSeq(body, c + 1, c + rest),
                            w.head.bits, w.head.blocks)
    BY <2>6, <2>7, <2>8, <2>9
  <2> QED
    BY <2>2, <2>5, <2>6, <2>7, <2>10 DEF c, v, u
<1>7. DOMAIN value = 1 .. n /\ value = [i \in 1 .. n |-> value[i]]
  <2> HIDE DEF a, b
  <2> QED
    BY <1>3
<1> HIDE DEF a, b
<1>8. ASSUME NEW i \in 1 .. n
      PROVE  /\ CodeAt(w, i) \in Nat /\ CodeAt(w, i) + norm + rest <= l
             /\ Len(NormAt(w, i)) = norm /\ Len(IndicesAt(w, i)) = rest
             /\ value[i] = Rebuilt(p, NormAt(w, i), IndicesAt(w, i),
                                   w.head.bits, w.head.blocks)
  <2> DEFINE v == (i - 1) * size
             first == SubSeq(body, v + 1, v + norm)
             second == SubSeq(body, v + norm + 1, v + norm + rest)
  <2>1. /\ v \in Nat /\ v + norm + rest <= l /\ Len(first) = norm /\ Len(second) = rest
        /\ value[i] = Rebuilt(p, first, second, w.head.bits, w.head.blocks)
    BY <1>6
  <2>2. CodeAt(w, i) = v /\ NormAt(w, i) = first /\ IndicesAt(w, i) = second
    BY DEF CodeAt, NormAt, IndicesAt, norm, rest, body, size
  <2> QED
    BY <2>1, <2>2
<1> QED
  BY <1>1, <1>7, <1>8 DEF norm, rest, n, body, l, value

(* The parts of a code that was read have the lengths the header says. *)
LEMMA PartIs ==
    ASSUME NEW w, Numbers(w, BatchFields), NEW p, FromBatch(w, p).ok, NEW i \in 1 .. w.head.n
    PROVE  LET c == FromBatch(w, p).value[i] IN
           /\ c.norm = NormAt(w, i) /\ Len(c.norm) = w.head.norm
           /\ c.indices = IndicesAt(w, i) /\ Len(c.indices) = w.head.indices
<1> DEFINE c == FromBatch(w, p).value[i]
<1>1. /\ Len(NormAt(w, i)) = w.head.norm /\ Len(IndicesAt(w, i)) = w.head.indices
      /\ c = Rebuilt(p, NormAt(w, i), IndicesAt(w, i), w.head.bits, w.head.blocks)
  BY BatchReads, Zenon
<1> HIDE DEF c
<1>2. c.norm = NormAt(w, i) /\ c.indices = IndicesAt(w, i)
  BY <1>1 DEF Rebuilt
<1> QED
  BY <1>1, <1>2 DEF c

(* Whatever a header says, what is cut out lies within the bytes. *)
LEMMA WithinBytes ==
    ASSUME NEW w, NEW p,
           w.magic = "FB1" => Numbers(w, CompactFields),
           w.magic # "FB1" => Numbers(w, BatchFields)
    PROVE  InBounds(w, ReadWire(w, p))
<1>1. CASE w.magic = "FB1"
  <2> DEFINE read == FromCompact(w, p)
             a == SubSeq(w.body, 1, w.head.norm)
             b == SubSeq(w.body, w.head.norm + 1,
                         w.head.norm + Ceil8(w.head.blocks * w.head.bits))
  <2>1. ReadWire(w, p) = read
    BY <1>1 DEF ReadWire
  <2>2. read.ok => /\ read = Succeeded(<<Rebuilt(p, a, b, w.head.bits, w.head.blocks)>>)
                   /\ Len(a) = w.head.norm
                   /\ Len(b) = Ceil8(w.head.blocks * w.head.bits)
    BY <1>1, CompactReads
  <2> HIDE DEF read, a, b
  <2> DEFINE code == Rebuilt(p, a, b, w.head.bits, w.head.blocks)
  <2>3. code.norm = a /\ code.indices = b
    BY DEF Rebuilt
  <2> HIDE DEF code
  <2>4. read.ok => read.value = <<code>>
    BY <2>2 DEF Succeeded, code
  <2>5. InBounds(w, read)
    BY <2>2, <2>3, <2>4 DEF InBounds
  <2> QED
    BY <2>1, <2>5
<1>2. CASE w.magic # "FB1"
  <2> DEFINE read == FromBatch(w, p)
  <2>1. ReadWire(w, p) = read
    BY <1>2 DEF ReadWire
  <2>2. ASSUME read.ok, NEW i \in DOMAIN read.value
        PROVE  /\ Len(read.value[i].norm) = w.head.norm
               /\ Len(read.value[i].indices) = Ceil8(w.head.blocks * w.head.bits)
    <3>1. /\ DOMAIN read.value = 1 .. w.head.n
          /\ w.head.indices = Ceil8(w.head.blocks * w.head.bits)
      BY <1>2, <2>2, BatchReads, Zenon
    <3>2. i \in 1 .. w.head.n
      BY <2>2, <3>1
    <3>3. /\ Len(read.value[i].norm) = w.head.norm
          /\ Len(read.value[i].indices) = w.head.indices
      BY <1>2, <2>2, <3>2, PartIs, Zenon
    <3> QED
      BY <3>1, <3>3
  <2> HIDE DEF read
  <2> QED
    BY <2>1, <2>2 DEF InBounds
<1> QED
  BY <1>1, <1>2

(* What the codes of a batch are, decoded one by one. *)
Vector(q, cs, i) == Decode(q, cs[i]).value
Firsts(q, cs, m) == [i \in 1 .. m |-> Vector(q, cs, i)]

(* The first vectors are a prefix of all of them. *)
LEMMA FirstsArePrefix ==
    ASSUME NEW q, NEW cs, NEW n \in Nat, NEW m \in 0 .. n
    PROVE  IsPrefix(Firsts(q, cs, m), Firsts(q, cs, n))
<1> DEFINE S == {Vector(q, cs, i) : i \in 1 .. n}
           s == Firsts(q, cs, m)  t == Firsts(q, cs, n)
<1>1. m \in Nat /\ \A i \in 1 .. m : i \in 1 .. n
  OBVIOUS
<1>2. s \in [1 .. m -> S] /\ t \in [1 .. n -> S]
  BY <1>1 DEF Firsts
<1>3. \A i \in 1 .. m : s[i] = t[i]
  BY <1>1 DEF Firsts
<1> HIDE DEF S, s, t
<1>4. s \in Seq(S) /\ t \in Seq(S) /\ Len(s) = m /\ Len(t) = n
  BY <1>1, <1>2, FunctionIsSeq
<1>5. IsPrefix(s, t)
  BY <1>3, <1>4, PrefixIs
<1> QED
  BY <1>5 DEF s, t

(* Results of n elements are collected when each of them is there. *)
LEMMA CollectedIs ==
    ASSUME NEW n, NEW f, DOMAIN f = 1 .. n
    PROVE  /\ Collected(f).ok => \A i \in 1 .. n : f[i].ok
           /\ (\A i \in 1 .. n : f[i].ok) =>
                 Collected(f) = Succeeded([i \in 1 .. n |-> f[i].value])
<1> DEFINE v == [i \in DOMAIN f |-> f[i].value]
<1>1. Collected(f) = IF \A i \in DOMAIN f : f[i].ok THEN Succeeded(v) ELSE Failed
  BY Zenon DEF Collected
<1>2. v = [i \in 1 .. n |-> f[i].value]
  BY Zenon
<1> HIDE DEF v
<1> QED
  BY <1>1, <1>2 DEF Failed

(* A quantizer decodes every code it made. *)
LEMMA WholeIs ==
    ASSUME NEW q \in Quantizers, ValidQuantizer(q), NEW n, NEW cs, DOMAIN cs = 1 .. n,
           \A i \in 1 .. n : Made(q, cs[i])
    PROVE  DecodeBatch(q, cs, Decode) = Succeeded(Firsts(q, cs, n))
<1> DEFINE f == [i \in DOMAIN cs |-> Decode(q, cs[i])]
           v == [i \in 1 .. n |-> f[i].value]
<1>1. DecodeBatch(q, cs, Decode) = Collected(f)
  BY Zenon DEF DecodeBatch
<1>2. DOMAIN f = 1 .. n /\ \A i \in 1 .. n : f[i] = Decode(q, cs[i])
  BY Zenon
<1>3. v = Firsts(q, cs, n)
  BY <1>2, Zenon DEF Firsts, Vector
<1> HIDE DEF f
<1>4. \A i \in 1 .. n : f[i].ok
  BY <1>2, MadeDecodes
<1>5. Collected(f) = Succeeded(v)
  BY <1>2, <1>4, CollectedIs, Zenon
<1> HIDE DEF v
<1> QED
  BY <1>1, <1>3, <1>5

(* What a quantizer makes of bytes. *)
Outcome(q, w) ==
    LET read == ReadWire(w, q.profile) IN
    IF read.ok THEN DecodeBatch(q, read.value, FastDecode) ELSE Failed

(* Codes whose bytes are those of the first m of a batch decode to them.   *)
LEMMA RereadDecodes ==
    ASSUME NEW q \in Quantizers, ValidQuantizer(q), NEW m, NEW cs,
           \A i \in 1 .. m : Made(q, cs[i]),
           NEW rs, DOMAIN rs = 1 .. m, \A i \in 1 .. m : rs[i] = Reread(q, cs[i])
    PROVE  DecodeBatch(q, rs, FastDecode) = Succeeded(Firsts(q, cs, m))
<1> DEFINE f == [i \in DOMAIN rs |-> FastDecode(q, rs[i])]
           v == [i \in 1 .. m |-> f[i].value]
<1>1. DecodeBatch(q, rs, FastDecode) = Collected(f)
  BY Zenon DEF DecodeBatch
<1>2. DOMAIN f = 1 .. m /\ \A i \in 1 .. m : f[i] = FastDecode(q, Reread(q, cs[i]))
  BY Zenon
<1> HIDE DEF f
<1>3. \A i \in 1 .. m : f[i] = Decode(q, cs[i]) /\ f[i].ok
  BY <1>2, MadeDecodes
<1>4. v = Firsts(q, cs, m)
  BY <1>3, Zenon DEF Firsts, Vector
<1>5. Collected(f) = Succeeded(v)
  BY <1>2, <1>3, CollectedIs, Zenon
<1> HIDE DEF v
<1> QED
  BY <1>1, <1>4, <1>5

(* If the batch is decoded, each of its codes is. *)
LEMMA AllReread ==
    ASSUME NEW q, NEW m, NEW rs, DOMAIN rs = 1 .. m, DecodeBatch(q, rs, FastDecode).ok
    PROVE  \A i \in 1 .. m : FastDecode(q, rs[i]).ok
<1> DEFINE f == [i \in DOMAIN rs |-> FastDecode(q, rs[i])]
<1>1. DecodeBatch(q, rs, FastDecode) = Collected(f)
  BY Zenon DEF DecodeBatch
<1>2. DOMAIN f = 1 .. m /\ \A i \in 1 .. m : f[i] = FastDecode(q, rs[i])
  BY Zenon
<1> HIDE DEF f
<1> QED
  BY <1>1, <1>2, CollectedIs

(* What decode_batch_fast asks of a code. *)
LEMMA FastFits ==
    ASSUME NEW q, NEW code, FastDecode(q, code).ok
    PROVE  HeaderFits(code, q) /\ Len(code.norm) = 2
<1>1. HeaderFits(code, q) /\ NormDecoded(code.norm).ok
  BY Zenon DEF FastDecode, Failed
<1> QED
  BY <1>1 DEF NormDecoded, Failed

(* The bytes of the indices of a code. *)
IndexLength(q) == Ceil8(Blocks(q.profile) * q.profile.bits)

Body(code) == code.norm \o code.indices

(* A code's bytes: two of its norm, then those of its indices. *)
LEMMA BodyIs ==
    ASSUME NEW q \in Quantizers, ValidQuantizer(q), NEW code, Made(q, code)
    PROVE  /\ code.norm \in Seq(Nat) /\ Len(code.norm) = 2
           /\ code.indices \in Seq(Nat) /\ Len(code.indices) = IndexLength(q)
           /\ IndexLength(q) \in Nat
           /\ Body(code) \in Seq(Nat) /\ Len(Body(code)) = 2 + IndexLength(q)
           /\ \A j \in 1 .. 2 : Body(code)[j] = code.norm[j]
           /\ \A j \in 1 .. IndexLength(q) : Body(code)[2 + j] = code.indices[j]
<1> DEFINE a == code.norm  b == code.indices  l == IndexLength(q)
<1>1. a \in Seq(Nat) /\ Len(a) = 2 /\ b \in Seq(Nat) /\ Len(b) = l /\ l \in Nat
  BY MadeIs DEF IndexLength
<1> HIDE DEF a, b, l
<1>2. /\ a \o b \in Seq(Nat) /\ Len(a \o b) = Len(a) + Len(b)
      /\ \A i \in 1 .. Len(a) : (a \o b)[i] = a[i]
      /\ \A i \in 1 .. Len(b) : (a \o b)[Len(a) + i] = b[i]
  <2> DEFINE S == Nat
  <2>1. a \in Seq(S) /\ b \in Seq(S)
    BY <1>1
  <2> HIDE DEF S
  <2>2. /\ a \o b \in Seq(S) /\ Len(a \o b) = Len(a) + Len(b)
        /\ \A i \in 1 .. Len(a) : (a \o b)[i] = a[i]
        /\ \A i \in 1 .. Len(b) : (a \o b)[Len(a) + i] = b[i]
    BY <2>1, ConcatIs
  <2> QED
    BY <2>2 DEF S
<1>3. Body(code) = a \o b
  BY DEF Body, a, b
<1> QED
  BY <1>1, <1>2, <1>3 DEF a, b, l

(* However the header of one code was changed, its bytes give its vector.  *)
LEMMA CompactOutcome ==
    ASSUME NEW q \in Quantizers, ValidQuantizer(q), NEW cs, Made(q, cs[1]),
           NEW w, w.magic = "FB1", Numbers(w, CompactFields), Outcome(q, w).ok
    PROVE  /\ Len(w.body) = 2 + IndexLength(q)
           /\ w.body = Body(cs[1]) => Outcome(q, w) = Succeeded(Firsts(q, cs, 1))
<1> DEFINE p == q.profile
           norm == w.head.norm
           rest == Ceil8(w.head.blocks * w.head.bits)
           first == SubSeq(w.body, 1, norm)
           second == SubSeq(w.body, norm + 1, norm + rest)
           code == Rebuilt(p, first, second, w.head.bits, w.head.blocks)
           read == FromCompact(w, p)
           rs == <<code>>
<1>1. Outcome(q, w) = IF read.ok THEN DecodeBatch(q, read.value, FastDecode) ELSE Failed
  BY Zenon DEF Outcome, ReadWire
<1>2. read.ok /\ Outcome(q, w) = DecodeBatch(q, read.value, FastDecode)
  <2> HIDE DEF read
  <2> QED
    BY <1>1 DEF Failed
<1>3. /\ norm \in Nat /\ rest \in Nat /\ Len(w.body) = norm + rest
      /\ Len(first) = norm /\ Len(second) = rest /\ read = Succeeded(rs)
  BY <1>2, CompactReads
<1> HIDE DEF read
<1>4. read.value = rs
  BY <1>3 DEF Succeeded
<1>5. DOMAIN rs = 1 .. 1 /\ \A i \in 1 .. 1 : rs[i] = code
  <2> HIDE DEF code
  <2> QED
    OBVIOUS
<1>6. code.norm = first /\ code.bits = w.head.bits /\ code.blocks = w.head.blocks
  <2> HIDE DEF first, second
  <2> QED
    BY DEF Rebuilt
<1> HIDE DEF rs, code
<1>7. FastDecode(q, code).ok
  <2>1. DecodeBatch(q, rs, FastDecode).ok
    BY <1>2, <1>4
  <2>2. \A i \in 1 .. 1 : FastDecode(q, rs[i]).ok
    BY <1>5, <2>1, AllReread, Zenon
  <2> QED
    BY <1>5, <2>2
<1>8. HeaderFits(code, q) /\ Len(code.norm) = 2
  BY <1>7, FastFits
<1>9. /\ w.head.bits = p.bits /\ w.head.blocks = Blocks(p)
      /\ norm = 2 /\ rest = IndexLength(q)
  <2>1. code.bits = p.bits /\ code.blocks = Blocks(p)
    BY <1>8 DEF HeaderFits
  <2>2. w.head.bits = p.bits /\ w.head.blocks = Blocks(p)
    BY <1>6, <2>1
  <2>3. rest = IndexLength(q)
    BY <2>2, Zenon DEF IndexLength
  <2> QED
    BY <1>3, <1>6, <1>8, <2>2, <2>3
<1>10. ASSUME w.body = Body(cs[1]) PROVE Outcome(q, w) = Succeeded(Firsts(q, cs, 1))
  <2> DEFINE a == cs[1].norm  b == cs[1].indices  l == IndexLength(q)  z == 0  two == 2
  <2>1. /\ w.body \in Seq(Nat) /\ Len(w.body) = 2 + l /\ l \in Nat
        /\ a \in Seq(Nat) /\ Len(a) = 2 /\ b \in Seq(Nat) /\ Len(b) = l
        /\ \A j \in 1 .. 2 : w.body[j] = a[j]
        /\ \A j \in 1 .. l : w.body[2 + j] = b[j]
    <3>1. w.body = Body(cs[1])
      BY <1>10
    <3>2. w.body \in Seq(Nat) /\ Len(w.body) = 2 + l /\ l \in Nat
      BY <3>1, BodyIs, Zenon
    <3>3. a \in Seq(Nat) /\ Len(a) = 2 /\ b \in Seq(Nat) /\ Len(b) = l
      BY BodyIs, Zenon
    <3>4. \A j \in 1 .. 2 : Body(cs[1])[j] = a[j]
      BY BodyIs
    <3>5. \A j \in 1 .. l : Body(cs[1])[2 + j] = b[j]
      BY BodyIs
    <3> QED
      BY <3>1, <3>2, <3>3, <3>4, <3>5
  <2> HIDE DEF a, b, l, z, two
  <2>2. first = a
    <3>1. z \in Nat /\ z + 2 <= Len(w.body) /\ \A j \in 1 .. 2 : w.body[z + j] = a[j]
      BY <2>1 DEF z
    <3>2. two \in Nat /\ Len(a) = two /\ z + two <= Len(w.body)
          /\ \A j \in 1 .. two : w.body[z + j] = a[j]
      BY <2>1, <3>1 DEF two
    <3>3. SubSeq(w.body, z + 1, z + two) = a
      BY <2>1, <3>1, <3>2, SliceIs
    <3>4. z + 1 = 1 /\ z + two = norm
      BY <1>9 DEF z, two
    <3> QED
      BY <3>3, <3>4
  <2>3. second = b
    <3>1. two \in Nat /\ two + l <= Len(w.body) /\ \A j \in 1 .. l : w.body[two + j] = b[j]
      BY <2>1 DEF two
    <3>2. SubSeq(w.body, two + 1, two + l) = b
      <4> DEFINE c == w.body  S == Nat
      <4>1. c \in Seq(S) /\ b \in Seq(S) /\ two \in Nat /\ l \in Nat /\ Len(b) = l
            /\ two + l <= Len(c) /\ \A j \in 1 .. l : c[two + j] = b[j]
        BY <2>1, <3>1
      <4> HIDE DEF c, S
      <4>2. SubSeq(c, two + 1, two + l) = b
        BY <4>1, SliceIs
      <4> QED
        BY <4>2 DEF c
    <3>3. norm = two /\ rest = l
      BY <1>9 DEF two, l
    <3> HIDE DEF norm, rest
    <3> QED
      BY <3>2, <3>3
  <2>4. code = Reread(q, cs[1])
    <3> HIDE DEF first, second
    <3> QED
      BY <1>9, <2>2, <2>3, Zenon DEF code, Reread, a, b
  <2>5. \A i \in 1 .. 1 : rs[i] = Reread(q, cs[i]) /\ Made(q, cs[i])
    BY <1>5, <2>4
  <2>6. DecodeBatch(q, rs, FastDecode) = Succeeded(Firsts(q, cs, 1))
    <3> DEFINE one == 1
    <3>1. DOMAIN rs = 1 .. one /\ \A i \in 1 .. one : rs[i] = Reread(q, cs[i])
      BY <1>5, <2>5
    <3>2. \A i \in 1 .. one : Made(q, cs[i])
      BY <2>5
    <3> HIDE DEF one
    <3>3. DecodeBatch(q, rs, FastDecode) = Succeeded(Firsts(q, cs, one))
      BY <3>1, <3>2, RereadDecodes
    <3> QED
      BY <3>3 DEF one
  <2> QED
    BY <1>2, <1>4, <2>6
<1> QED
  BY <1>3, <1>9, <1>10

(* The bytes of a code in a batch. *)
CodeLength(q) == 2 + IndexLength(q)
Bodies(cs, n) == [i \in 1 .. n |-> Body(cs[i])]

(* The codes of a quantizer always make a batch. *)
LEMMA BatchedIs ==
    ASSUME NEW q \in Quantizers, ValidQuantizer(q), NEW n \in Nat \ {0},
           NEW cs, DOMAIN cs = 1 .. n, \A i \in 1 .. n : Made(q, cs[i])
    PROVE  LET p == q.profile IN
           Batched(cs, p)
             = Succeeded([magic |-> "FB2", body |-> FlattenSeq(Bodies(cs, n)),
                          head |-> [version |-> 1, bits |-> p.bits, blocks |-> Blocks(p),
                                    format |-> p.format, n |-> n, norm |-> 2,
                                    indices |-> IndexLength(q)]])
<1> DEFINE p == q.profile
           parts == [i \in DOMAIN cs |-> cs[i].norm \o cs[i].indices]
           head == [version |-> 1, bits |-> cs[1].bits, blocks |-> cs[1].blocks,
                    format |-> cs[1].format, n |-> Len(cs),
                    norm |-> Len(cs[1].norm), indices |-> Len(cs[1].indices)]
           Alike(c) == /\ c.bits = p.bits /\ c.blocks = Blocks(p) /\ c.format = p.format
                       /\ Len(c.norm) = 2 /\ Len(c.indices) = IndexLength(q)
<1>1. \A i \in 1 .. n : Alike(cs[i])
  <2> SUFFICES ASSUME NEW i \in 1 .. n PROVE Alike(cs[i])
    OBVIOUS
  <2> DEFINE c == cs[i]
  <2>1. Made(q, c)
    OBVIOUS
  <2> HIDE DEF c
  <2>2. c.bits = p.bits /\ c.blocks = Blocks(p) /\ c.format = p.format
    BY <2>1, MadeIs, Zenon
  <2>3. Len(c.norm) = 2 /\ Len(c.indices) = IndexLength(q)
    BY <2>1, BodyIs, Zenon
  <2> QED
    BY <2>2, <2>3 DEF c
<1>2. 1 \in 1 .. n /\ Len(cs) = n /\ cs # <<>>
  <2>1. Len(cs) = n
    BY LengthIs
  <2> QED
    BY <2>1
<1>3. Alike(cs[1])
  BY <1>1, <1>2
<1>4. parts = Bodies(cs, n)
  BY Zenon DEF Bodies, Body
<1>5. Batched(cs, p) = Succeeded([magic |-> "FB2", body |-> FlattenSeq(parts), head |-> head])
  <2>1. \A i \in DOMAIN cs :
           /\ cs[i].bits = cs[1].bits /\ cs[i].blocks = cs[1].blocks
           /\ cs[i].format = cs[1].format
           /\ Len(cs[i].norm) = Len(cs[1].norm)
           /\ Len(cs[i].indices) = Len(cs[1].indices)
    BY <1>1, <1>3
  <2>2. p.bits = cs[1].bits /\ Blocks(p) = cs[1].blocks
    BY <1>3
  <2> HIDE DEF p, Alike
  <2> QED
    BY <1>2, <2>1, <2>2, Zenon DEF Batched
<1>6. head = [version |-> 1, bits |-> p.bits, blocks |-> Blocks(p), format |-> p.format,
              n |-> n, norm |-> 2, indices |-> IndexLength(q)]
  BY <1>2, <1>3, Zenon
<1> HIDE DEF parts, head
<1> QED
  BY <1>4, <1>5, <1>6

(* The bytes of a code after those of the codes before it. *)
Spaced(all, cs, n, k) ==
    \A u \in 0 .. n - 1, j \in 1 .. k : all[u * k + j] = Body(cs[u + 1])[j]

(* The bytes of a batch are those of its codes, each at its multiple. *)
LEMMA BodiesAre ==
    ASSUME NEW q \in Quantizers, ValidQuantizer(q), NEW n \in Nat \ {0},
           NEW cs, DOMAIN cs = 1 .. n, \A i \in 1 .. n : Made(q, cs[i])
    PROVE  LET all == FlattenSeq(Bodies(cs, n)) IN
           /\ all \in Seq(Nat) /\ Len(all) = n * CodeLength(q)
           /\ CodeLength(q) \in Nat \ {0}
           /\ Spaced(all, cs, n, CodeLength(q))
<1> DEFINE ss == Bodies(cs, n)  k == CodeLength(q)  S == Nat  all == FlattenSeq(ss)
<1>1. k \in Nat \ {0} /\ \A i \in 1 .. n : Body(cs[i]) \in Seq(S) /\ Len(Body(cs[i])) = k
  <2>1. ASSUME NEW i \in 1 .. n
        PROVE  IndexLength(q) \in Nat /\ Body(cs[i]) \in Seq(S) /\ Len(Body(cs[i])) = k
    <3> DEFINE c == cs[i]
    <3>1. Made(q, c)
      OBVIOUS
    <3> HIDE DEF c
    <3>2. Body(c) \in Seq(Nat) /\ Len(Body(c)) = 2 + IndexLength(q) /\ IndexLength(q) \in Nat
      BY <3>1, BodyIs, Zenon
    <3> QED
      BY <3>2 DEF CodeLength, c
  <2>2. 1 \in 1 .. n
    OBVIOUS
  <2>3. k \in Nat \ {0}
    BY <2>1, <2>2 DEF CodeLength
  <2> QED
    BY <2>1, <2>3
<1>2. \A i \in 1 .. n : ss[i] = Body(cs[i])
  BY DEF Bodies
<1> HIDE DEF k, S
<1>3. ss \in [1 .. n -> Seq(S)]
  BY <1>1 DEF Bodies
<1> HIDE DEF ss, all
<1>4. ss \in Seq(Seq(S)) /\ Len(ss) = n /\ DOMAIN ss = 1 .. n
  BY <1>3, FunctionIsSeq
<1>5. \A i \in DOMAIN ss : Len(ss[i]) = k
  BY <1>1, <1>2, <1>4
<1>6. /\ all \in Seq(S) /\ Len(all) = Len(ss) * k
      /\ \A u \in 0 .. Len(ss) - 1, j \in 1 .. k : all[u * k + j] = ss[u + 1][j]
  BY <1>1, <1>4, <1>5, FlattenPlaces DEF all
<1>7. Spaced(all, cs, n, k)
  <2> SUFFICES ASSUME NEW u \in 0 .. n - 1, NEW j \in 1 .. k
               PROVE  all[u * k + j] = Body(cs[u + 1])[j]
    BY DEF Spaced
  <2>1. u + 1 \in 1 .. n /\ u \in 0 .. Len(ss) - 1
    BY <1>4
  <2>2. all[u * k + j] = ss[u + 1][j]
    BY <1>6, <2>1
  <2> QED
    BY <1>2, <2>1, <2>2
<1> QED
  BY <1>1, <1>4, <1>6, <1>7 DEF k, S, all, ss

(* A code's bytes, cut out of a batch's, are its norm and its indices. *)
LEMMA PartsAre ==
    ASSUME NEW q \in Quantizers, ValidQuantizer(q), NEW code, Made(q, code),
           NEW s \in Seq(Nat), NEW a \in Nat, a + CodeLength(q) <= Len(s),
           \A j \in 1 .. CodeLength(q) : s[a + j] = Body(code)[j]
    PROVE  /\ SubSeq(s, a + 1, a + 2) = code.norm
           /\ SubSeq(s, a + 2 + 1, a + 2 + IndexLength(q)) = code.indices
<1> DEFINE l == IndexLength(q)  two == 2  norm == code.norm  indices == code.indices
           body == Body(code)  S == Nat
<1>1. /\ two \in Nat /\ l \in Nat /\ CodeLength(q) = two + l
      /\ norm \in Seq(S) /\ Len(norm) = two /\ indices \in Seq(S) /\ Len(indices) = l
  BY BodyIs, Zenon DEF CodeLength
<1>2. /\ \A j \in 1 .. two : body[j] = norm[j]
      /\ \A j \in 1 .. l : body[two + j] = indices[j]
  BY BodyIs
<1>3. \A j \in 1 .. CodeLength(q) : s[a + j] = body[j]
  OBVIOUS
<1>4. s \in Seq(S) /\ a + CodeLength(q) <= Len(s)
  OBVIOUS
<1> HIDE DEF l, two, norm, indices, body, S
<1>5. SubSeq(s, a + 1, a + two) = norm
  <2>1. \A j \in 1 .. two : s[a + j] = norm[j]
    <3> SUFFICES ASSUME NEW j \in 1 .. two PROVE s[a + j] = norm[j]
      OBVIOUS
    <3>1. j \in 1 .. CodeLength(q)
      BY <1>1
    <3> QED
      BY <1>2, <1>3, <3>1
  <2>2. a + two <= Len(s)
    BY <1>1, <1>4
  <2> QED
    BY <1>1, <1>4, <2>1, <2>2, SliceIs
<1>6. SubSeq(s, (a + two) + 1, (a + two) + l) = indices
  <2> DEFINE e == a + two
  <2>1. \A j \in 1 .. l : s[e + j] = indices[j]
    <3> SUFFICES ASSUME NEW j \in 1 .. l PROVE s[e + j] = indices[j]
      OBVIOUS
    <3>1. two + j \in 1 .. CodeLength(q) /\ a + (two + j) = e + j
      BY <1>1
    <3>2. s[a + (two + j)] = body[two + j]
      BY <1>3, <3>1
    <3> QED
      BY <1>2, <3>1, <3>2
  <2>2. e \in Nat /\ e + l <= Len(s)
    BY <1>1, <1>4
  <2> HIDE DEF e
  <2>3. SubSeq(s, e + 1, e + l) = indices
    BY <1>1, <1>4, <2>1, <2>2, SliceIs
  <2> QED
    BY <2>3 DEF e
<1> QED
  BY <1>5, <1>6 DEF two, l, norm, indices

(* The bytes of a batch are where they were. *)
SameBytes(q, cs, n, w) ==
    \A k \in 1 .. n * CodeLength(q) : w.body[k] = FlattenSeq(Bodies(cs, n))[k]

(* A batch with the bytes of the written one has its codes. *)
LEMMA BatchRereads ==
    ASSUME NEW q \in Quantizers, ValidQuantizer(q), NEW n \in Nat \ {0},
           NEW cs, DOMAIN cs = 1 .. n, \A i \in 1 .. n : Made(q, cs[i]),
           NEW w, Numbers(w, BatchFields), FromBatch(w, q.profile).ok,
           w.head.n <= n, w.head.n # 0 => w.head.norm = 2,
           SameBytes(q, cs, n, w)
    PROVE  DecodeBatch(q, FromBatch(w, q.profile).value, FastDecode)
             = Succeeded(Firsts(q, cs, w.head.n))
<1> DEFINE p == q.profile  m == w.head.n  rs == FromBatch(w, p).value
           body == w.body  all == FlattenSeq(Bodies(cs, n))  size == CodeLength(q)
<1>1. /\ w.head.bits = p.bits /\ w.head.blocks = Blocks(p)
      /\ w.head.indices = Ceil8(w.head.blocks * w.head.bits)
      /\ DOMAIN rs = 1 .. m
  BY BatchReads, Zenon
<1>2. m \in Nat /\ body \in Seq(Nat)
  BY DEF Numbers, BatchFields
<1>3. w.head.indices = IndexLength(q)
  BY <1>1, Zenon DEF IndexLength
<1>4. /\ size \in Nat \ {0} /\ IndexLength(q) \in Nat /\ size = 2 + IndexLength(q)
      /\ \A u \in 0 .. n - 1, j \in 1 .. size : all[u * size + j] = Body(cs[u + 1])[j]
  <2>1. 1 \in 1 .. n /\ Made(q, cs[1])
    OBVIOUS
  <2>2. IndexLength(q) \in Nat
    BY <2>1, BodyIs, Zenon
  <2>3. size = 2 + IndexLength(q)
    BY Zenon DEF CodeLength
  <2>4. Spaced(all, cs, n, size)
    BY BodiesAre, Zenon
  <2> HIDE DEF size
  <2> QED
    BY <2>2, <2>3, <2>4 DEF Spaced
<1>5. ASSUME NEW i \in 1 .. m PROVE rs[i] = Reread(q, cs[i])
  <2> DEFINE v == CodeAt(w, i)  first == NormAt(w, i)  second == IndicesAt(w, i)
  <2>1. /\ v \in Nat /\ v + w.head.norm + w.head.indices <= Len(body)
        /\ rs[i] = Rebuilt(p, first, second, w.head.bits, w.head.blocks)
    BY BatchReads, Zenon
  <2>2. w.head.norm = 2 /\ i \in 1 .. n
    BY <1>2
  <2> DEFINE u == i - 1
  <2>3. u \in 0 .. n - 1 /\ u \in Nat /\ u < n /\ u + 1 = i
    BY <2>2
  <2>4. v = u * size /\ v + size <= Len(body)
    <3>1. v = u * (w.head.norm + w.head.indices)
      BY Zenon DEF CodeAt
    <3> HIDE DEF v, size, u
    <3>2. w.head.norm + w.head.indices = size
      BY <1>3, <1>4, <2>2
    <3>3. v = u * size
      BY <3>1, <3>2
    <3> QED
      BY <1>3, <1>4, <2>1, <2>2, <3>3
  <2>5. v + size <= n * size
    <3> HIDE DEF u, size, v
    <3>1. u * size + size <= n * size
      BY <1>4, <2>3, MulLess
    <3> QED
      BY <2>4, <3>1
  <2>6. \A j \in 1 .. size : body[v + j] = Body(cs[i])[j]
    <3> SUFFICES ASSUME NEW j \in 1 .. size PROVE body[v + j] = Body(cs[i])[j]
      OBVIOUS
    <3> DEFINE k == v + j  e == n * size
    <3>0. n * CodeLength(q) = e
      OBVIOUS
    <3>1. e \in Nat
      <4> HIDE DEF size
      <4> QED
        BY <1>4
    <3>2. k \in 1 .. e
      <4> HIDE DEF v, size, e
      <4>1. v + size <= e
        BY <2>5 DEF e
      <4> QED
        BY <1>4, <2>1, <3>1, <4>1
    <3>3. body[k] = all[k]
      <4> HIDE DEF k
      <4> QED
        BY <3>0, <3>2 DEF SameBytes
    <3>4. all[u * size + j] = Body(cs[u + 1])[j]
      <4> HIDE DEF u, size, all
      <4> QED
        BY <1>4, <2>3
    <3> QED
      BY <2>3, <2>4, <3>3, <3>4
  <2>7. first = SubSeq(body, v + 1, v + 2)
        /\ second = SubSeq(body, v + 2 + 1, v + 2 + IndexLength(q))
    BY <1>3, <2>2, Zenon DEF NormAt, IndicesAt
  <2>8. first = cs[i].norm /\ second = cs[i].indices
    <3> DEFINE c == cs[i]
    <3>1. Made(q, c) /\ \A j \in 1 .. CodeLength(q) : body[v + j] = Body(c)[j]
      BY <2>2, <2>6
    <3> HIDE DEF v, body, c, first, second
    <3>2. v + CodeLength(q) <= Len(body)
      BY <2>4
    <3>3. /\ SubSeq(body, v + 1, v + 2) = c.norm
          /\ SubSeq(body, v + 2 + 1, v + 2 + IndexLength(q)) = c.indices
      BY <1>2, <2>1, <3>1, <3>2, PartsAre
    <3> QED
      BY <2>7, <3>3 DEF c
  <2> HIDE DEF rs, first, second
  <2> QED
    BY <1>1, <2>1, <2>8 DEF Reread
<1>6. \A i \in 1 .. m : i \in 1 .. n
  BY <1>2
<1>7. \A i \in 1 .. m : Made(q, cs[i])
  BY <1>6
<1>9. DOMAIN rs = 1 .. m /\ \A i \in 1 .. m : rs[i] = Reread(q, cs[i]) /\ Made(q, cs[i])
  BY <1>1, <1>5, <1>7
<1>10. DOMAIN rs = 1 .. m
  BY <1>9, Zenon
<1>11. \A i \in 1 .. m : rs[i] = Reread(q, cs[i])
  BY <1>9, Zenon
<1> HIDE DEF rs, m
<1>8. DecodeBatch(q, rs, FastDecode) = Succeeded(Firsts(q, cs, m))
  BY <1>7, <1>10, <1>11, RereadDecodes, Zenon
<1> QED
  BY <1>8 DEF rs, m

(* However its header was changed, a batch's bytes give vectors of it.     *)
LEMMA BatchOutcome ==
    ASSUME NEW q \in Quantizers, ValidQuantizer(q), NEW n \in Nat \ {0},
           NEW cs, DOMAIN cs = 1 .. n, \A i \in 1 .. n : Made(q, cs[i]),
           NEW w, w.magic = "FB2", Numbers(w, BatchFields), Outcome(q, w).ok
    PROVE  /\ Len(w.body) >= w.head.n * CodeLength(q)
           /\ (w.head.n <= n /\ SameBytes(q, cs, n, w)) =>
                 Outcome(q, w) = Succeeded(Firsts(q, cs, w.head.n))
<1> DEFINE p == q.profile  m == w.head.n  read == FromBatch(w, p)
<1>1. Outcome(q, w) = IF read.ok THEN DecodeBatch(q, read.value, FastDecode) ELSE Failed
  <2>1. w.magic # "FB1"
    OBVIOUS
  <2> QED
    BY <2>1, Zenon DEF Outcome, ReadWire
<1>2. read.ok /\ Outcome(q, w) = DecodeBatch(q, read.value, FastDecode)
  <2> HIDE DEF read
  <2> QED
    BY <1>1 DEF Failed
<1>3. /\ DOMAIN read.value = 1 .. m
      /\ Len(w.body) >= m * (w.head.norm + w.head.indices)
      /\ w.head.indices = IndexLength(q)
  <2>1. /\ w.head.bits = p.bits /\ w.head.blocks = Blocks(p)
        /\ w.head.indices = Ceil8(w.head.blocks * w.head.bits)
        /\ DOMAIN read.value = 1 .. m
        /\ Len(w.body) >= m * (w.head.norm + w.head.indices)
    BY <1>2, BatchReads, Zenon
  <2> HIDE DEF read
  <2> QED
    BY <2>1, Zenon DEF IndexLength
<1>4. m \in Nat /\ w.body \in Seq(Nat)
  BY DEF Numbers, BatchFields
<1>5. ASSUME m # 0 PROVE w.head.norm = 2
  <2> DEFINE one == 1  code == read.value[one]
  <2>1. one \in 1 .. m
    BY <1>4, <1>5
  <2>2. Len(code.norm) = w.head.norm
    BY <1>2, <2>1, PartIs, Zenon
  <2> HIDE DEF code, one, read
  <2>5. FastDecode(q, code).ok
    BY <1>2, <1>3, <2>1, AllReread DEF code
  <2>6. Len(code.norm) = 2
    BY <2>5, FastFits
  <2> QED
    BY <2>2, <2>6
<1> HIDE DEF read
<1>6. Len(w.body) >= m * CodeLength(q)
  <2> DEFINE l == IndexLength(q)  s == Len(w.body)
  <2>1. l \in Nat /\ s \in Nat
    <3>1. 1 \in 1 .. n /\ Made(q, cs[1])
      OBVIOUS
    <3>2. l \in Nat
      BY <3>1, BodyIs, Zenon
    <3> QED
      BY <1>4, <3>2
  <2>2. CASE m = 0
    <3> DEFINE k == CodeLength(q)
    <3>1. k = 2 + l
      BY DEF CodeLength
    <3> HIDE DEF k, l, s, m
    <3>2. m * k = 0
      BY <2>1, <2>2, <3>1
    <3> QED
      BY <2>1, <3>2 DEF s, k
  <2>3. CASE m # 0
    <3>1. w.head.norm + w.head.indices = CodeLength(q)
      BY <1>3, <1>5, <2>3 DEF CodeLength
    <3> QED
      BY <1>3, <3>1
  <2> QED
    BY <2>2, <2>3
<1>7. ASSUME m <= n, SameBytes(q, cs, n, w)
      PROVE  Outcome(q, w) = Succeeded(Firsts(q, cs, m))
  <2>1. FromBatch(w, q.profile).ok
    BY <1>2 DEF read
  <2>2. DecodeBatch(q, read.value, FastDecode) = Succeeded(Firsts(q, cs, m))
    BY <1>5, <1>7, <2>1, BatchRereads, Zenon DEF read
  <2> QED
    BY <1>2, <2>2
<1> QED
  BY <1>6, <1>7

(* The bytes of a batch as they were written. *)
BatchWire(q, cs, n) ==
    LET p == q.profile IN
    [magic |-> "FB2", body |-> FlattenSeq(Bodies(cs, n)),
     head |-> [version |-> 1, bits |-> p.bits, blocks |-> Blocks(p),
               format |-> p.format, n |-> n, norm |-> 2, indices |-> IndexLength(q)]]

(* A batch read as it was written gives all its vectors. *)
LEMMA BatchWireIs ==
    ASSUME NEW q \in Quantizers, ValidQuantizer(q), NEW n \in Nat \ {0},
           NEW cs, DOMAIN cs = 1 .. n, \A i \in 1 .. n : Made(q, cs[i])
    PROVE  LET w == BatchWire(q, cs, n) IN
           /\ w.magic = "FB2" /\ Numbers(w, BatchFields) /\ w.head.n = n
           /\ w.body = FlattenSeq(Bodies(cs, n)) /\ Len(w.body) = n * CodeLength(q)
           /\ Outcome(q, w) = Succeeded(Firsts(q, cs, n))
<1> DEFINE p == q.profile  w == BatchWire(q, cs, n)  l == IndexLength(q)
           all == FlattenSeq(Bodies(cs, n))  h == w.head
<1>1. /\ w.magic = "FB2" /\ w.body = all
      /\ h.version = 1 /\ h.bits = p.bits /\ h.blocks = Blocks(p) /\ h.format = p.format
      /\ h.n = n /\ h.norm = 2 /\ h.indices = l
  <2> HIDE DEF all, l, p
  <2> QED
    BY DEF BatchWire, all, l, p
<1>2. all \in Seq(Nat) /\ Len(all) = n * CodeLength(q)
  BY BodiesAre, Zenon
<1>3. l \in Nat /\ p.bits \in Nat /\ Blocks(p) \in Nat
  <2> DEFINE code == cs[1]
  <2>1. 1 \in 1 .. n /\ Made(q, code)
    OBVIOUS
  <2> HIDE DEF code
  <2>2. l \in Nat
    BY <2>1, BodyIs, Zenon
  <2> DEFINE bits == p.bits
  <2>3. bits \in 1 .. 32
    BY <2>1, MadeIs, Zenon
  <2>4. Blocks(p) \in Nat
    BY QuantizerIs
  <2> HIDE DEF l, bits
  <2>5. bits \in Nat
    BY <2>3
  <2> QED
    BY <2>2, <2>4, <2>5 DEF bits
<1> HIDE DEF w, l, all
<1>4. Numbers(w, BatchFields)
  BY <1>1, <1>2, <1>3 DEF Numbers, BatchFields
<1>5. FromBatch(w, p).ok
  <2> DEFINE size == h.norm + h.indices
  <2>1. Len(w.body) >= h.n * size
    <3>1. size = CodeLength(q)
      BY <1>1 DEF CodeLength, l
    <3> DEFINE e == n * CodeLength(q)
    <3>2. Len(all) \in Nat /\ Len(all) = e
      BY <1>2
    <3> HIDE DEF e
    <3>3. Len(all) >= e
      BY <3>2
    <3> QED
      BY <1>1, <3>1, <3>3 DEF e
  <2>2. h.indices = Ceil8(h.blocks * h.bits)
    BY <1>1, Zenon DEF l, IndexLength
  <2>3. /\ w.magic = "FB2" /\ w.head.version = 1 /\ w.head.bits = p.bits
        /\ w.head.blocks = Blocks(p) /\ w.head.format = p.format
        /\ Len(w.body) >= w.head.n * (w.head.norm + w.head.indices)
        /\ w.head.indices = Ceil8(w.head.blocks * w.head.bits)
    BY <1>1, <2>1, <2>2, Zenon
  <2> HIDE DEF p, h
  <2>4. \E v : FromBatch(w, p) = Succeeded(v)
    BY <2>3, Zenon DEF FromBatch
  <2> QED
    BY <2>4 DEF Succeeded
<1>6. SameBytes(q, cs, n, w)
  BY <1>1 DEF SameBytes, all
<1>7. w.head.n <= n /\ w.head.norm = 2
  BY <1>1
<1>8. DecodeBatch(q, FromBatch(w, p).value, FastDecode) = Succeeded(Firsts(q, cs, n))
  <2>1. DecodeBatch(q, FromBatch(w, p).value, FastDecode) = Succeeded(Firsts(q, cs, w.head.n))
    BY <1>4, <1>5, <1>6, <1>7, BatchRereads, Zenon
  <2> QED
    BY <1>1, <2>1
<1>9. Outcome(q, w) = DecodeBatch(q, FromBatch(w, p).value, FastDecode)
  <2>1. w.magic # "FB1"
    BY <1>1
  <2> QED
    BY <1>5, <2>1, Zenon DEF Outcome, ReadWire
<1> QED
  BY <1>1, <1>2, <1>4, <1>8, <1>9 DEF w, all

(* At most one thing happened to written bytes: one of them was lost or    *)
(* added at the end, or the header says something else.                    *)
OneMistake(w, written, fields) ==
    /\ Numbers(w, fields) /\ w.magic = written.magic
    /\ \/ w.body = written.body
       \/ /\ w.head = written.head
          /\ w.body \in {Front(written.body), Append(written.body, 0)}

(* Each of the mistakes is one. *)
LEMMA MistakesAre ==
    ASSUME NEW magic, NEW body, NEW head, NEW fields,
           NEW w, w = [magic |-> magic, body |-> body, head |-> head],
           Numbers(w, fields), fields \subseteq DOMAIN head, Len(body) # 0
    PROVE  /\ OneMistake(w, w, fields)
           /\ OneMistake([w EXCEPT !.body = Front(@)], w, fields)
           /\ OneMistake([w EXCEPT !.body = Append(@, 0)], w, fields)
           /\ \A f : \A v \in Nat : OneMistake([w EXCEPT !.head[f] = v], w, fields)
<1>1. /\ w.magic = magic /\ w.body = body /\ w.head = head
      /\ body \in Seq(Nat) /\ \A g \in fields : head[g] \in Nat
  BY DEF Numbers
<1>2. OneMistake(w, w, fields)
  BY DEF OneMistake
<1>3. OneMistake([w EXCEPT !.body = Front(@)], w, fields)
  <2> DEFINE u == [w EXCEPT !.body = Front(@)]
  <2>1. u.magic = magic /\ u.body = Front(body) /\ u.head = head
    OBVIOUS
  <2> HIDE DEF u
  <2> QED
    BY <1>1, <2>1, EndsAre DEF OneMistake, Numbers, u
<1>4. OneMistake([w EXCEPT !.body = Append(@, 0)], w, fields)
  <2> DEFINE u == [w EXCEPT !.body = Append(@, 0)]
  <2>1. u.magic = magic /\ u.body = Append(body, 0) /\ u.head = head
    OBVIOUS
  <2> HIDE DEF u
  <2> QED
    BY <1>1, <2>1, EndsAre DEF OneMistake, Numbers, u
<1>5. ASSUME NEW f, NEW v \in Nat PROVE OneMistake([w EXCEPT !.head[f] = v], w, fields)
  <2> DEFINE h == [w.head EXCEPT ![f] = v]  u == [w EXCEPT !.head = h]
  <2>1. [w EXCEPT !.head[f] = v] = u
    OBVIOUS
  <2>2. \A g \in fields : h[g] \in Nat
    BY <1>1
  <2> HIDE DEF h
  <2>3. u.magic = magic /\ u.body = body /\ u.head = h
    OBVIOUS
  <2> HIDE DEF u
  <2> QED
    BY <1>1, <2>1, <2>2, <2>3 DEF OneMistake, Numbers
<1> QED
  BY <1>2, <1>3, <1>4, <1>5

(* What to_compact_bytes writes. *)
LEMMA CompactIs ==
    ASSUME NEW q \in Quantizers, ValidQuantizer(q), NEW code, Made(q, code)
    PROVE  LET w == Compact(code) IN
           /\ w = [magic |-> "FB1", body |-> w.body, head |-> w.head]
           /\ w.magic = "FB1" /\ w.body = Body(code) /\ Numbers(w, CompactFields)
           /\ DOMAIN w.head = CompactFields /\ Len(w.body) # 0
<1> DEFINE w == Compact(code)  body == Body(code)  p == q.profile
           h == [version |-> 1, bits |-> code.bits, blocks |-> code.blocks,
                 norm |-> Len(code.norm)]
<1>1. w = [magic |-> "FB1", body |-> body, head |-> h]
  BY DEF Compact, Body
<1>2. body \in Seq(Nat) /\ Len(body) = 2 + IndexLength(q) /\ IndexLength(q) \in Nat
      /\ Len(code.norm) = 2
  BY BodyIs, Zenon
<1>3. code.bits \in Nat /\ code.blocks \in Nat
  <2>1. code.bits = p.bits /\ code.blocks = Blocks(p) /\ p.bits \in 1 .. 32
    BY MadeIs, Zenon
  <2>2. Blocks(p) \in Nat
    BY QuantizerIs
  <2> HIDE DEF p
  <2> QED
    BY <2>1, <2>2
<1>4. \A f \in CompactFields : h[f] \in Nat
  BY <1>2, <1>3 DEF CompactFields
<1>5. DOMAIN h = CompactFields
  BY DEF CompactFields
<1> HIDE DEF h, body, w
<1>6. w.magic = "FB1" /\ w.body = body /\ w.head = h
  BY <1>1
<1>7. Len(body) # 0
  BY <1>2
<1> QED
  BY <1>1, <1>2, <1>4, <1>5, <1>6, <1>7 DEF Numbers, w, body

(* One code, after a mistake: its vector or none. *)
LEMMA CompactMistaken ==
    ASSUME NEW q \in Quantizers, ValidQuantizer(q), NEW cs, Made(q, cs[1]),
           NEW w, OneMistake(w, Compact(cs[1]), CompactFields), Outcome(q, w).ok
    PROVE  Outcome(q, w) = Succeeded(Firsts(q, cs, 1))
<1> DEFINE c == Compact(cs[1])  body == Body(cs[1])  l == IndexLength(q)
<1>1. c.magic = "FB1" /\ c.body = body
  BY CompactIs, Zenon
<1>2. body \in Seq(Nat) /\ Len(body) = 2 + l /\ l \in Nat
  BY BodyIs, Zenon
<1>3. w.magic = "FB1" /\ Numbers(w, CompactFields)
  BY <1>1 DEF OneMistake
<1>4. /\ Len(w.body) = 2 + l
      /\ w.body = body => Outcome(q, w) = Succeeded(Firsts(q, cs, 1))
  BY <1>3, CompactOutcome, Zenon
<1>5. w.body = body \/ w.body = Front(body) \/ w.body = Append(body, 0)
  BY <1>1, Zenon DEF OneMistake
<1> HIDE DEF body, l
<1>6. Len(Front(body)) = Len(body) - 1 /\ Len(Append(body, 0)) = Len(body) + 1
  <2>1. Len(body) # 0
    BY <1>2
  <2> QED
    BY <1>2, <2>1, EndsAre
<1>7. w.body = body
  BY <1>2, <1>4, <1>5, <1>6
<1> QED
  BY <1>4, <1>7

(* A batch, after a mistake: vectors of it in its order, or none. *)
LEMMA BatchMistaken ==
    ASSUME NEW q \in Quantizers, ValidQuantizer(q), NEW n \in Nat \ {0},
           NEW cs, DOMAIN cs = 1 .. n, \A i \in 1 .. n : Made(q, cs[i]),
           NEW w, OneMistake(w, BatchWire(q, cs, n), BatchFields), Outcome(q, w).ok
    PROVE  \E m \in 0 .. n : Outcome(q, w) = Succeeded(Firsts(q, cs, m))
<1> DEFINE b == BatchWire(q, cs, n)  all == FlattenSeq(Bodies(cs, n))  k == CodeLength(q)
           m == w.head.n
<1>1. b.magic = "FB2" /\ b.body = all /\ b.head.n = n
  BY BatchWireIs, Zenon
<1>2. all \in Seq(Nat) /\ Len(all) = n * k /\ k \in Nat \ {0}
  BY BodiesAre, Zenon
<1>3. w.magic = "FB2" /\ Numbers(w, BatchFields)
  BY <1>1 DEF OneMistake
<1>4. /\ Len(w.body) >= m * k
      /\ (m <= n /\ SameBytes(q, cs, n, w)) => Outcome(q, w) = Succeeded(Firsts(q, cs, m))
  BY <1>3, BatchOutcome, Zenon
<1>5. \/ w.body = all
      \/ w.head = b.head /\ (w.body = Front(all) \/ w.body = Append(all, 0))
  BY <1>1, Zenon DEF OneMistake
<1>6. m \in Nat
  BY <1>3 DEF Numbers, BatchFields
<1> DEFINE e == n * k  d == m * k
<1>7. SameBytes(q, cs, n, w) = \A j \in 1 .. e : w.body[j] = all[j]
  BY DEF SameBytes
<1> HIDE DEF b, all, k, m
<1>8. e \in Nat \ {0} /\ d \in Nat
  BY <1>2, <1>6
<1>9. m > n => d > e
  <2> SUFFICES ASSUME m > n PROVE d > e
    OBVIOUS
  <2>1. n * k + k <= m * k
    BY <1>2, <1>6, MulLess
  <2> QED
    BY <1>2, <1>8, <2>1
<1> HIDE DEF e, d
<1>10. CASE w.body = all
  <2>1. SameBytes(q, cs, n, w)
    BY <1>7, <1>10
  <2>2. d <= e
    BY <1>2, <1>4, <1>8, <1>10 DEF d, e
  <2>3. m <= n
    BY <1>6, <1>8, <1>9, <2>2
  <2> QED
    BY <1>4, <1>6, <2>1, <2>3
<1>11. CASE w.head = b.head /\ w.body = Front(all)
  <2>1. m = n
    BY <1>1, <1>11 DEF m
  <2>2. Len(all) = e /\ d = e
    BY <1>2, <2>1 DEF d, e
  <2>3. Len(Front(all)) = e - 1
    <3>1. Len(all) # 0
      BY <1>8, <2>2
    <3> QED
      BY <1>2, <2>2, <3>1, EndsAre
  <2>4. e - 1 >= e
    <3>1. Len(w.body) >= d
      BY <1>4 DEF d
    <3> QED
      BY <1>11, <2>2, <2>3, <3>1
  <2> QED
    BY <1>8, <2>4
<1>12. CASE w.head = b.head /\ w.body = Append(all, 0)
  <2>1. m = n
    BY <1>1, <1>12 DEF m
  <2>2. Len(all) = e
    BY <1>2 DEF e
  <2>3. \A j \in 1 .. e : Append(all, 0)[j] = all[j]
    <3>1. Len(all) # 0
      BY <1>8, <2>2
    <3>2. \A j \in 1 .. Len(all) : Append(all, 0)[j] = all[j]
      BY <1>2, <3>1, EndsAre
    <3> QED
      BY <2>2, <3>2
  <2>4. SameBytes(q, cs, n, w)
    BY <1>7, <1>12, <2>3
  <2> QED
    BY <1>4, <1>6, <2>1, <2>4
<1> QED
  BY <1>5, <1>10, <1>11, <1>12

(* What encode_batch writes. *)
LEMMA BatchWireMistakes ==
    ASSUME NEW q \in Quantizers, ValidQuantizer(q), NEW n \in Nat \ {0},
           NEW cs, DOMAIN cs = 1 .. n, \A i \in 1 .. n : Made(q, cs[i])
    PROVE  LET w == BatchWire(q, cs, n) IN
           /\ w = [magic |-> "FB2", body |-> w.body, head |-> w.head]
           /\ Numbers(w, BatchFields)
           /\ DOMAIN w.head = BatchFields \cup {"format"} /\ Len(w.body) # 0
<1> DEFINE w == BatchWire(q, cs, n)  k == CodeLength(q)  all == FlattenSeq(Bodies(cs, n))
           l == IndexLength(q)  p == q.profile
           h == [version |-> 1, bits |-> p.bits, blocks |-> Blocks(p),
                 format |-> p.format, n |-> n, norm |-> 2, indices |-> l]
<1>1. Numbers(w, BatchFields) /\ Len(w.body) = n * k
  BY BatchWireIs, Zenon
<1>2. k \in Nat \ {0}
  BY BodiesAre, Zenon
<1>3. DOMAIN h = BatchFields \cup {"format"}
  BY DEF BatchFields
<1>4. w = [magic |-> "FB2", body |-> all, head |-> h]
  BY Zenon DEF BatchWire
<1> HIDE DEF w, k, h, all
<1>5. w.body = all /\ w.head = h
  BY <1>4
<1>6. n * k # 0
  BY <1>2
<1> QED
  BY <1>1, <1>3, <1>4, <1>5, <1>6 DEF w

(* The codes are those the quantizer made of vectors; their bytes have at  *)
(* most one mistake; and what it made of them when it read them are the    *)
(* first vectors, all of them where nothing was lost.                      *)
CodesMade ==
    codes # <<>> =>
        /\ quantizer \in Quantizers /\ ValidQuantizer(quantizer)
        /\ Len(codes) \in Nat \ {0} /\ DOMAIN codes = 1 .. Len(codes)
        /\ \A i \in 1 .. Len(codes) : Made(quantizer, codes[i])

WrittenBatch == BatchWire(quantizer, codes, Len(codes))

BytesMistaken ==
    wire # <<>> =>
        /\ codes # <<>>
        /\ \/ OneMistake(wire, Compact(codes[1]), CompactFields)
           \/ OneMistake(wire, WrittenBatch, BatchFields)

FirstsDecoded ==
    (codes # <<>> /\ decoded.reader = quantizer) =>
        /\ decoded.ok =>
               \E m \in 0 .. Len(codes) : decoded.value = Firsts(quantizer, codes, m)
        /\ (wire = <<>> \/ (AsWritten /\ wire.magic = "FB2")) =>
               decoded.value = Firsts(quantizer, codes, Len(codes))

WireInv == CodesMade /\ BytesMistaken /\ FirstsDecoded

(* What holds of the bytes as they were written. *)
LEMMA WrittenAre ==
    ASSUME CodesMade, codes # <<>>
    PROVE  LET w1 == Compact(codes[1]) IN
           /\ w1 # <<>> /\ WrittenBatch # <<>>
           /\ w1.magic = "FB1" /\ WrittenBatch.magic = "FB2"
           /\ w1 = [magic |-> "FB1", body |-> w1.body, head |-> w1.head]
           /\ Numbers(w1, CompactFields)
           /\ DOMAIN w1.head = CompactFields /\ Len(w1.body) # 0
           /\ WrittenBatch = [magic |-> "FB2", body |-> WrittenBatch.body,
                              head |-> WrittenBatch.head]
           /\ Numbers(WrittenBatch, BatchFields)
           /\ DOMAIN WrittenBatch.head = BatchFields \cup {"format"}
           /\ Len(WrittenBatch.body) # 0
           /\ Batched(codes, quantizer.profile) = Succeeded(WrittenBatch)
           /\ DecodeBatch(quantizer, codes, Decode)
                = Succeeded(Firsts(quantizer, codes, Len(codes)))
           /\ Outcome(quantizer, WrittenBatch)
                = Succeeded(Firsts(quantizer, codes, Len(codes)))
<1> DEFINE n == Len(codes)  q == quantizer  w1 == Compact(codes[1])
<1>1. /\ q \in Quantizers /\ ValidQuantizer(q) /\ n \in Nat \ {0} /\ DOMAIN codes = 1 .. n
      /\ \A i \in 1 .. n : Made(q, codes[i])
  BY DEF CodesMade
<1>2. Made(q, codes[1])
  <2>1. 1 \in 1 .. n
    BY <1>1
  <2> QED
    BY <1>1, <2>1
<1>3. /\ w1 = [magic |-> "FB1", body |-> w1.body, head |-> w1.head]
      /\ w1.magic = "FB1" /\ Numbers(w1, CompactFields)
      /\ DOMAIN w1.head = CompactFields /\ Len(w1.body) # 0
  BY <1>1, <1>2, CompactIs, Zenon
<1>4. Batched(codes, q.profile) = Succeeded(WrittenBatch)
  BY <1>1, BatchedIs, Zenon DEF WrittenBatch, BatchWire
<1>5. /\ WrittenBatch.magic = "FB2"
      /\ Outcome(q, WrittenBatch) = Succeeded(Firsts(q, codes, n))
  <2> DEFINE w == BatchWire(q, codes, n)
  <2>1. w.magic = "FB2"
    BY DEF BatchWire
  <2>2. Outcome(q, w) = Succeeded(Firsts(q, codes, n))
    BY <1>1, BatchWireIs, Zenon
  <2>3. w = WrittenBatch
    BY Zenon DEF WrittenBatch
  <2> HIDE DEF w
  <2> QED
    BY <2>1, <2>2, <2>3
<1>6. /\ WrittenBatch = [magic |-> "FB2", body |-> WrittenBatch.body,
                         head |-> WrittenBatch.head]
      /\ Numbers(WrittenBatch, BatchFields)
      /\ DOMAIN WrittenBatch.head = BatchFields \cup {"format"}
      /\ Len(WrittenBatch.body) # 0
  BY <1>1, BatchWireMistakes, Zenon DEF WrittenBatch
<1>7. DecodeBatch(q, codes, Decode) = Succeeded(Firsts(q, codes, n))
  BY <1>1, WholeIs, Zenon
<1>8. ASSUME NEW b, NEW h, NEW w, NEW g, w = [magic |-> g, body |-> b, head |-> h]
      PROVE  w # <<>>
  BY <1>8
<1>9. w1 # <<>> /\ WrittenBatch # <<>>
  BY <1>3, <1>6, <1>8, Zenon
<1> QED
  BY <1>3, <1>4, <1>5, <1>6, <1>7, <1>9

(* The numbers of a written header. *)
LEMMA HeaderNumbers ==
    ASSUME WireInv, wire # <<>>, AsWritten, NEW f \in DOMAIN wire.head \ {"format"}
    PROVE  wire.head[f] \in Nat
<1> DEFINE w1 == Compact(codes[1])
<1>1. codes # <<>> /\ CodesMade
  BY DEF WireInv, BytesMistaken
<1>2. /\ Numbers(w1, CompactFields) /\ DOMAIN w1.head = CompactFields
      /\ Numbers(WrittenBatch, BatchFields)
      /\ DOMAIN WrittenBatch.head = BatchFields \cup {"format"}
      /\ Batched(codes, quantizer.profile) = Succeeded(WrittenBatch)
  BY <1>1, WrittenAre, Zenon
<1>3. Batched(codes, quantizer.profile).value = WrittenBatch
  BY <1>2 DEF Succeeded
<1>4. wire = w1 \/ wire = WrittenBatch
  BY <1>3, Zenon DEF AsWritten
<1> HIDE DEF w1
<1> QED
  BY <1>2, <1>4, Zenon DEF Numbers

LEMMA WireInitially == FibInit => WireInv
  BY DEF FibInit, WireInv, CodesMade, BytesMistaken, FirstsDecoded

(* The mistakes all happen to bytes as they were written. *)
LEMMA MistakeKeeps ==
    ASSUME WireInv, wire # <<>>, AsWritten, UNCHANGED <<quantizer, codes, decoded>>,
           wire'.magic = wire.magic, wire' # <<>>,
           \A fields : (/\ wire = [magic |-> wire.magic, body |-> wire.body,
                                   head |-> wire.head]
                        /\ Numbers(wire, fields)
                        /\ fields \subseteq DOMAIN wire.head /\ Len(wire.body) # 0)
                       => OneMistake(wire', wire, fields)
    PROVE  WireInv'
<1> DEFINE w1 == Compact(codes[1])
<1>1. codes # <<>> /\ CodesMade
  BY DEF WireInv, BytesMistaken
<1>2. /\ w1.magic = "FB1" /\ WrittenBatch.magic = "FB2"
      /\ Batched(codes, quantizer.profile) = Succeeded(WrittenBatch)
  BY <1>1, WrittenAre, Zenon
<1>3. wire = w1 \/ wire = WrittenBatch
  <2>1. Batched(codes, quantizer.profile).value = WrittenBatch
    BY <1>2 DEF Succeeded
  <2> QED
    BY <2>1, Zenon DEF AsWritten
<1>4. CodesMade' /\ WrittenBatch' = WrittenBatch /\ codes' = codes
  BY DEF WireInv, CodesMade, WrittenBatch
<1>5. CASE wire = w1
  <2>1. OneMistake(wire', wire, CompactFields)
    <3>1. /\ w1 = [magic |-> "FB1", body |-> w1.body, head |-> w1.head]
          /\ Numbers(w1, CompactFields)
          /\ DOMAIN w1.head = CompactFields /\ Len(w1.body) # 0
      BY <1>1, WrittenAre, Zenon
    <3> QED
      BY <1>2, <1>5, <3>1, Zenon
  <2>2. wire'.magic # "FB2"
    BY <1>2, <1>5
  <2>3. BytesMistaken'
    BY <1>1, <1>4, <1>5, <2>1 DEF BytesMistaken
  <2>4. FirstsDecoded'
    BY <2>2 DEF WireInv, FirstsDecoded
  <2> QED
    BY <1>4, <2>3, <2>4 DEF WireInv
<1>6. CASE wire = WrittenBatch
  <2>1. OneMistake(wire', wire, BatchFields)
    <3>1. /\ WrittenBatch = [magic |-> "FB2", body |-> WrittenBatch.body,
                             head |-> WrittenBatch.head]
          /\ Numbers(WrittenBatch, BatchFields)
          /\ DOMAIN WrittenBatch.head = BatchFields \cup {"format"}
          /\ Len(WrittenBatch.body) # 0
      BY <1>1, WrittenAre, Zenon
    <3> QED
      BY <1>2, <1>6, <3>1, Zenon
  <2>2. BytesMistaken'
    BY <1>1, <1>4, <1>6, <2>1 DEF BytesMistaken
  <2>3. FirstsDecoded'
    BY DEF WireInv, FirstsDecoded
  <2> QED
    BY <1>4, <2>2, <2>3 DEF WireInv
<1> QED
  BY <1>3, <1>5, <1>6

LEMMA FibNextKeeps == CodeInv /\ WireInv /\ [FibNext]_fibVars => WireInv'
<1> SUFFICES ASSUME CodeInv, WireInv, [FibNext]_fibVars PROVE WireInv'
  OBVIOUS
<1>1. ASSUME NEW q \in Quantizers, NEW gpu \in Gpus, NEW n \in 1 .. MaxVectors,
             NEW xs \in [1 .. n -> Vectors], EncodeBatch(q, xs, gpu)
      PROVE  WireInv'
  <2>1. /\ quantizer = <<>> /\ ValidQuantizer(q) /\ BatchEncoded(q, xs, gpu).ok
        /\ codes' = BatchEncoded(q, xs, gpu).value /\ quantizer' = q
        /\ wire' = wire /\ decoded' = decoded
    BY <1>1, Zenon DEF EncodeBatch
  <2>2. /\ DOMAIN codes' = DOMAIN xs
        /\ \A i \in DOMAIN xs : Made(q, codes'[i])
    BY <2>1, BatchIsMade
  <2>3. DOMAIN xs = 1 .. n /\ n \in Nat \ {0}
    OBVIOUS
  <2>4. Len(codes') = n
    BY <2>2, <2>3, LengthIs
  <2>5. wire' = <<>> /\ decoded'.reader # quantizer'
    <3>1. codes = <<>>
      BY <2>1, NoneIsNoQuantizer DEF CodeInv
    <3>2. wire = <<>> /\ decoded = NotRead
      BY <2>1, <3>1 DEF CodeInv
    <3>3. NotRead.reader = <<>>
      BY DEF NotRead, ReadBy
    <3> QED
      BY <2>1, <3>2, <3>3, NoneIsNoQuantizer
  <2>6. CodesMade'
    BY <2>1, <2>2, <2>3, <2>4 DEF CodesMade
  <2> QED
    BY <2>5, <2>6 DEF WireInv, BytesMistaken, FirstsDecoded
<1>2. CASE ToCompact
  <2> DEFINE w == Compact(codes[1])
  <2>1. /\ codes # <<>> /\ wire = <<>> /\ wire' = w
        /\ UNCHANGED <<quantizer, codes, decoded>>
    BY <1>2, Zenon DEF ToCompact
  <2>2. OneMistake(w, w, CompactFields)
    <3>1. Numbers(w, CompactFields)
      BY <2>1, WrittenAre, Zenon DEF WireInv
    <3> QED
      BY <3>1, Zenon DEF OneMistake
  <2>3. CodesMade' /\ FirstsDecoded'
    BY <2>1 DEF WireInv, CodesMade, FirstsDecoded
  <2>4. BytesMistaken'
    BY <2>1, <2>2 DEF BytesMistaken
  <2> QED
    BY <2>3, <2>4 DEF WireInv
<1>3. CASE ToBatch
  <2> DEFINE b == Batched(codes, quantizer.profile)
  <2>1. /\ codes # <<>> /\ wire = <<>> /\ wire' = b.value
        /\ UNCHANGED <<quantizer, codes, decoded>>
    BY <1>3, Zenon DEF ToBatch
  <2>2. b = Succeeded(WrittenBatch) /\ Numbers(WrittenBatch, BatchFields)
    BY <2>1, WrittenAre, Zenon DEF WireInv
  <2> HIDE DEF b
  <2>3. wire' = WrittenBatch
    BY <2>1, <2>2 DEF Succeeded
  <2>4. OneMistake(WrittenBatch, WrittenBatch, BatchFields)
    BY <2>2, Zenon DEF OneMistake
  <2>5. CodesMade' /\ FirstsDecoded'
    BY <2>1 DEF WireInv, CodesMade, FirstsDecoded
  <2>6. WrittenBatch' = WrittenBatch
    BY <2>1, Zenon DEF WrittenBatch
  <2>7. BytesMistaken'
    BY <2>1, <2>3, <2>4, <2>6 DEF BytesMistaken
  <2> QED
    BY <2>5, <2>7 DEF WireInv
<1> DEFINE Whole(w, fields) ==
             /\ w = [magic |-> w.magic, body |-> w.body, head |-> w.head]
             /\ Numbers(w, fields)
             /\ fields \subseteq DOMAIN w.head /\ Len(w.body) # 0
<1>4. ASSUME NEW f, NEW v, wire # <<>>, AsWritten, UNCHANGED <<quantizer, codes, decoded>>,
             \/ wire' = [wire EXCEPT !.body = Front(@)]
             \/ wire' = [wire EXCEPT !.body = Append(@, 0)]
             \/ v \in Nat /\ wire' = [wire EXCEPT !.head[f] = v]
      PROVE  WireInv'
  <2>1. DOMAIN wire' = DOMAIN wire /\ DOMAIN wire = {"magic", "body", "head"}
    BY <1>4 DEF CodeInv
  <2>2. wire' # <<>> /\ wire'.magic = wire.magic
    BY <1>4, <2>1
  <2>3. \A fields : Whole(wire, fields) => OneMistake(wire', wire, fields)
    <3> SUFFICES ASSUME NEW fields, Whole(wire, fields)
                 PROVE  OneMistake(wire', wire, fields)
      OBVIOUS
    <3> DEFINE magic == wire.magic  body == wire.body  head == wire.head
    <3>1. /\ wire = [magic |-> magic, body |-> body, head |-> head]
          /\ Numbers(wire, fields) /\ fields \subseteq DOMAIN head /\ Len(body) # 0
      OBVIOUS
    <3> HIDE DEF magic, body, head
    <3>2. OneMistake([wire EXCEPT !.body = Front(@)], wire, fields)
      BY <3>1, MistakesAre, Zenon
    <3>3. OneMistake([wire EXCEPT !.body = Append(@, 0)], wire, fields)
      BY <3>1, MistakesAre, Zenon
    <3>4. v \in Nat => OneMistake([wire EXCEPT !.head[f] = v], wire, fields)
      BY <3>1, MistakesAre, Zenon
    <3> QED
      BY <1>4, <3>2, <3>3, <3>4, Zenon
  <2> QED
    BY <1>4, <2>2, <2>3, MistakeKeeps
<1>5. ASSUME Cut \/ Extend PROVE WireInv'
  <2>1. /\ wire # <<>> /\ AsWritten /\ UNCHANGED <<quantizer, codes, decoded>>
        /\ \/ wire' = [wire EXCEPT !.body = Front(@)]
           \/ wire' = [wire EXCEPT !.body = Append(@, 0)]
    BY <1>5 DEF Cut, Extend
  <2> QED
    BY <1>4, <2>1
<1>6. ASSUME NEW f \in DOMAIN wire.head \ {"format"},
             NEW v \in {wire.head[f] - 1, wire.head[f] + 1},
             wire # <<>>, DamageHeader(f, v)
      PROVE  WireInv'
  <2>1. /\ AsWritten /\ v >= 0 /\ UNCHANGED <<quantizer, codes, decoded>>
        /\ wire' = [wire EXCEPT !.head[f] = v]
    BY <1>6 DEF DamageHeader
  <2>2. v \in Nat
    <3> DEFINE number == wire.head[f]
    <3>1. number \in Nat /\ v \in {number - 1, number + 1}
      BY <1>6, <2>1, HeaderNumbers
    <3> HIDE DEF number
    <3> QED
      BY <2>1, <3>1
  <2> QED
    BY <1>4, <1>6, <2>1, <2>2
<1>7. ASSUME NEW q \in Quantizers, ReadCodes(q) PROVE WireInv'
  <2> DEFINE r == DecodeBatch(q, codes, Decode)
  <2>1. codes # <<>> /\ decoded' = ReadBy(q, r) /\ UNCHANGED <<quantizer, codes, wire>>
    BY <1>7, Zenon DEF ReadCodes
  <2>2. q = quantizer => r = Succeeded(Firsts(quantizer, codes, Len(codes)))
    BY <2>1, WrittenAre, Zenon DEF WireInv
  <2> HIDE DEF r
  <2>3. decoded'.reader = q /\ decoded'.value = r.value
    BY <2>1 DEF ReadBy
  <2>4. q = quantizer => decoded'.value = Firsts(quantizer, codes, Len(codes))
    BY <2>2, <2>3 DEF Succeeded
  <2>5. Len(codes) \in 0 .. Len(codes)
    BY <2>1 DEF WireInv, CodesMade
  <2>6. FirstsDecoded'
    BY <2>1, <2>3, <2>4, <2>5, Zenon DEF FirstsDecoded
  <2>7. CodesMade' /\ BytesMistaken'
    BY <2>1 DEF WireInv, CodesMade, BytesMistaken, WrittenBatch
  <2> QED
    BY <2>6, <2>7 DEF WireInv
<1>8. ASSUME NEW q \in Quantizers, ReadBytes(q) PROVE WireInv'
  <2> DEFINE r == Outcome(q, wire)  n == Len(codes)
  <2>1. wire # <<>> /\ decoded' = ReadBy(q, r) /\ UNCHANGED <<quantizer, codes, wire>>
    BY <1>8, Zenon DEF ReadBytes, Outcome
  <2>2. /\ codes # <<>> /\ CodesMade
        /\ \/ OneMistake(wire, Compact(codes[1]), CompactFields)
           \/ OneMistake(wire, WrittenBatch, BatchFields)
    BY <2>1 DEF WireInv, BytesMistaken
  <2>3. /\ quantizer \in Quantizers /\ ValidQuantizer(quantizer)
        /\ n \in Nat \ {0} /\ DOMAIN codes = 1 .. n
        /\ \A i \in 1 .. n : Made(quantizer, codes[i])
    BY <2>2 DEF CodesMade
  <2>4. 1 \in 1 .. n /\ 1 \in 0 .. n
    BY <2>3
  <2>5. ASSUME q = quantizer, r.ok
        PROVE  \E m \in 0 .. n : r = Succeeded(Firsts(quantizer, codes, m))
    <3>1. ASSUME OneMistake(wire, Compact(codes[1]), CompactFields)
          PROVE  r = Succeeded(Firsts(quantizer, codes, 1))
      BY <2>3, <2>4, <2>5, <3>1, CompactMistaken, Zenon
    <3>2. ASSUME OneMistake(wire, WrittenBatch, BatchFields)
          PROVE  \E m \in 0 .. n : r = Succeeded(Firsts(quantizer, codes, m))
      <4>1. OneMistake(wire, BatchWire(quantizer, codes, n), BatchFields)
        BY <3>2, Zenon DEF WrittenBatch
      <4>2. Outcome(quantizer, wire).ok /\ r = Outcome(quantizer, wire)
        BY <2>5, Zenon
      <4> HIDE DEF n, r
      <4>3. \E m \in 0 .. n : Outcome(quantizer, wire) = Succeeded(Firsts(quantizer, codes, m))
        BY <2>3, <4>1, <4>2, BatchMistaken
      <4> QED
        BY <4>2, <4>3
    <3> QED
      BY <2>2, <2>4, <3>1, <3>2
  <2>6. ASSUME q = quantizer, AsWritten, wire.magic = "FB2"
        PROVE  r = Succeeded(Firsts(quantizer, codes, n))
    <3>1. /\ Compact(codes[1]).magic = "FB1"
          /\ Batched(codes, quantizer.profile) = Succeeded(WrittenBatch)
          /\ Outcome(quantizer, WrittenBatch) = Succeeded(Firsts(quantizer, codes, n))
      BY <2>2, WrittenAre, Zenon
    <3>2. Batched(codes, quantizer.profile).value = WrittenBatch
      BY <3>1 DEF Succeeded
    <3>3. wire # Compact(codes[1])
      BY <2>6, <3>1
    <3>4. wire = WrittenBatch
      BY <2>6, <3>2, <3>3, Zenon DEF AsWritten
    <3> QED
      BY <2>6, <3>1, <3>4
  <2> HIDE DEF r, n
  <2>7. decoded'.reader = q /\ decoded'.value = r.value /\ decoded'.ok = r.ok
    BY <2>1 DEF ReadBy
  <2>8. \A m : r = Succeeded(Firsts(quantizer, codes, m)) =>
                 decoded'.value = Firsts(quantizer, codes, m)
    BY <2>7 DEF Succeeded
  <2>9. ASSUME q = quantizer
        PROVE  /\ decoded'.ok => \E m \in 0 .. n : decoded'.value = Firsts(quantizer, codes, m)
               /\ (AsWritten /\ wire.magic = "FB2") =>
                      decoded'.value = Firsts(quantizer, codes, n)
    BY <2>5, <2>6, <2>7, <2>8, <2>9, Zenon
  <2>10. AsWritten' = AsWritten
    BY <2>1 DEF AsWritten
  <2>11. FirstsDecoded'
    BY <2>1, <2>7, <2>9, <2>10, Zenon DEF FirstsDecoded, n
  <2>12. CodesMade' /\ BytesMistaken'
    BY <2>1 DEF WireInv, CodesMade, BytesMistaken, WrittenBatch
  <2> QED
    BY <2>11, <2>12 DEF WireInv
<1>9. CASE DropCodes
  BY <1>9 DEF DropCodes, WireInv, CodesMade, BytesMistaken, FirstsDecoded
<1>10. CASE UNCHANGED fibVars
  BY <1>10 DEF fibVars, WireInv, CodesMade, BytesMistaken, FirstsDecoded, WrittenBatch,
               AsWritten
<1> QED
  BY <1>1, <1>2, <1>3, <1>5, <1>6, <1>7, <1>8, <1>9, <1>10 DEF FibNext

LEMMA WireDecodes == WireInv => WireDecodesOrFails
<1> SUFFICES ASSUME WireInv, wire # <<>>
             PROVE  /\ InBounds(wire, ReadWire(wire, quantizer.profile))
                    /\ (decoded.ok /\ decoded.reader = quantizer) =>
                           IsPrefix(decoded.value, DecodeBatch(quantizer, codes, Decode).value)
                    /\ (AsWritten /\ wire.magic = "FB2" /\ decoded.reader = quantizer) =>
                           decoded.value = DecodeBatch(quantizer, codes, Decode).value
  BY DEF WireDecodesOrFails
<1> DEFINE n == Len(codes)  w1 == Compact(codes[1])  whole == Firsts(quantizer, codes, n)
           r == DecodeBatch(quantizer, codes, Decode)
<1>1. /\ codes # <<>> /\ CodesMade
      /\ \/ OneMistake(wire, w1, CompactFields)
         \/ OneMistake(wire, WrittenBatch, BatchFields)
  BY DEF WireInv, BytesMistaken
<1>2. w1.magic = "FB1" /\ WrittenBatch.magic = "FB2" /\ r = Succeeded(whole)
  BY <1>1, WrittenAre, Zenon
<1>3. InBounds(wire, ReadWire(wire, quantizer.profile))
  <2>1. \/ wire.magic = "FB1" /\ Numbers(wire, CompactFields)
        \/ wire.magic # "FB1" /\ Numbers(wire, BatchFields)
    BY <1>1, <1>2 DEF OneMistake
  <2> QED
    BY <2>1, WithinBytes
<1> HIDE DEF r, whole
<1>4. r.value = whole
  BY <1>2 DEF Succeeded
<1>5. n \in Nat
  BY <1>1 DEF CodesMade
<1>6. ASSUME decoded.ok, decoded.reader = quantizer PROVE IsPrefix(decoded.value, whole)
  <2>1. PICK m \in 0 .. n : decoded.value = Firsts(quantizer, codes, m)
    BY <1>1, <1>6 DEF WireInv, FirstsDecoded
  <2>2. IsPrefix(Firsts(quantizer, codes, m), whole)
    BY <1>5, FirstsArePrefix DEF whole
  <2> QED
    BY <2>1, <2>2
<1>7. ASSUME AsWritten, wire.magic = "FB2", decoded.reader = quantizer
      PROVE  decoded.value = whole
  BY <1>1, <1>7 DEF WireInv, FirstsDecoded, whole
<1> QED
  BY <1>3, <1>4, <1>6, <1>7 DEF r

(* Bytes decode to the vectors of the codes they were made of or to their  *)
(* first ones, or reading them fails: whichever one byte was lost or added *)
(* at the end and whichever one number of the header was changed, in FB1   *)
(* and in FB2; and nothing is read outside of them (from_compact_bytes,    *)
(* FibCodeV1::decode_batch, decode_batch_fast).                            *)
THEOREM BytesDecodeOrFail == FibSpec => []WireDecodesOrFails
<1>1. FibInit => CodeInv
  BY DEF FibInit, CodeInv, CodeIsBound, NotRead, ReadBy, Failed
<1> QED
  BY <1>1, FibNextBinds, WireInitially, FibNextKeeps, WireDecodes, PTL DEF FibSpec

(***************************************************************************)
(* Choices of codewords.                                                   *)
(***************************************************************************)
(* A squared distance is the sum of the squares of the differences. *)
LEMMA DistanceIsTotal ==
    ASSUME NEW n \in Nat, NEW u \in [1 .. n -> Int], NEW v \in [1 .. n -> Int]
    PROVE  SquaredDistance(u, v) = Total(Apart(u, v), 1 .. n)
<1> DEFINE S == 1 .. n
           part(j) == (u[j] - v[j]) * (u[j] - v[j])
           G == Apart(u, v)
           Solves(f) == f = [s \in SUBSET S |->
                IF s = {} THEN 0 ELSE part(Picked(s)) + f[s \ {Picked(s)}]]
           iter == CHOOSE f : Solves(f)
<1>1. IsFiniteSet(S) /\ G \in [S -> Int]
  <2>1. Apart(u, v) \in [1 .. n -> Int]
    BY ApartIs
  <2> QED
    BY <2>1, FS_Interval
<1>2. \A s \in SUBSET S : s # {} => G[Picked(s)] = part(Picked(s))
  BY DEF Picked, Apart
<1>3. Len(u) = n
  OBVIOUS
<1>4. SquaredDistance(u, v) = iter[S]
  <2>1. SquaredDistance(u, v) = SumOf(n, LAMBDA j : (u[j] - v[j]) * (u[j] - v[j]))
    BY <1>3 DEF SquaredDistance, SumOf, MapThenSumSet, MapThenFoldSet
  <2> QED
    BY <2>1 DEF SumOf, MapThenSumSet, MapThenFoldSet, Picked, part
<1> HIDE DEF G, part
<1>5. Solves(iter)
  <2>1. PICK f \in [SUBSET S -> Int] : SumsAll(f, S, G)
    BY <1>1, SumsExist
  <2>2. Solves(f)
    BY <1>2, <2>1 DEF Sums, SumsAll
  <2> QED
    BY <2>2
<1> HIDE DEF iter
<1>6. SumsAll(iter, S, G)
  BY <1>2, <1>5 DEF Sums, SumsAll
<1> QED
  BY <1>1, <1>4, <1>6, TotalIs DEF G

(* What the two rotations sum for one coordinate. *)
RowSum(M, i, x, n) == SumOf(n, LAMBDA c : M[i][c] * x[c])
ColumnSum(M, j, y, n) == SumOf(n, LAMBDA r : M[r][j] * y[r])

LEMMA RowSumIs ==
    ASSUME NEW n \in Nat, NEW M \in [1 .. n -> [1 .. n -> Int]], NEW i \in 1 .. n,
           NEW x \in [1 .. n -> Int]
    PROVE  RowSum(M, i, x, n) = Inner(M[i], x, n)
<1> DEFINE S == 1 .. n
           part(c) == M[i][c] * x[c]
           G == Terms(M[i], x)
           Solves(f) == f = [s \in SUBSET S |->
                IF s = {} THEN 0 ELSE part(Picked(s)) + f[s \ {Picked(s)}]]
           iter == CHOOSE f : Solves(f)
<1>1. IsFiniteSet(S) /\ G \in [S -> Int]
  <2> DEFINE m == M[i]
  <2>1. m \in [1 .. n -> Int]
    OBVIOUS
  <2> HIDE DEF m
  <2>2. Terms(m, x) \in [1 .. n -> Int]
    BY <2>1, InnerIs
  <2> QED
    BY <2>2, FS_Interval DEF m
<1>2. \A s \in SUBSET S : s # {} => G[Picked(s)] = part(Picked(s))
  BY DEF Picked, Terms
<1>4. RowSum(M, i, x, n) = iter[S]
  BY DEF RowSum, SumOf, MapThenSumSet, MapThenFoldSet, Picked, part
<1> HIDE DEF G, part
<1>5. Solves(iter)
  <2>1. PICK f \in [SUBSET S -> Int] : SumsAll(f, S, G)
    BY <1>1, SumsExist
  <2>2. Solves(f)
    BY <1>2, <2>1 DEF Sums, SumsAll
  <2> QED
    BY <2>2
<1> HIDE DEF iter
<1>6. SumsAll(iter, S, G)
  BY <1>2, <1>5 DEF Sums, SumsAll
<1> QED
  BY <1>1, <1>4, <1>6, TotalIs DEF G, Inner

LEMMA ColumnSumIs ==
    ASSUME NEW n \in Nat, NEW M \in [1 .. n -> [1 .. n -> Int]], NEW j \in 1 .. n,
           NEW y \in [1 .. n -> Int]
    PROVE  ColumnSum(M, j, y, n) = Inner(Column(M, n, j), y, n)
<1> DEFINE S == 1 .. n
           part(r) == M[r][j] * y[r]
           G == Terms(Column(M, n, j), y)
           Solves(f) == f = [s \in SUBSET S |->
                IF s = {} THEN 0 ELSE part(Picked(s)) + f[s \ {Picked(s)}]]
           iter == CHOOSE f : Solves(f)
<1>1. IsFiniteSet(S) /\ G \in [S -> Int]
  <2> DEFINE m == Column(M, n, j)
  <2>1. m \in [1 .. n -> Int]
    BY DEF Column
  <2> HIDE DEF m
  <2>2. Terms(m, y) \in [1 .. n -> Int]
    BY <2>1, InnerIs
  <2> QED
    BY <2>2, FS_Interval DEF m
<1>2. \A s \in SUBSET S : s # {} => G[Picked(s)] = part(Picked(s))
  BY DEF Picked, Terms, Column
<1>4. ColumnSum(M, j, y, n) = iter[S]
  BY DEF ColumnSum, SumOf, MapThenSumSet, MapThenFoldSet, Picked, part
<1> HIDE DEF G, part
<1>5. Solves(iter)
  <2>1. PICK f \in [SUBSET S -> Int] : SumsAll(f, S, G)
    BY <1>1, SumsExist
  <2>2. Solves(f)
    BY <1>2, <2>1 DEF Sums, SumsAll
  <2> QED
    BY <2>2
<1> HIDE DEF iter
<1>6. SumsAll(iter, S, G)
  BY <1>2, <1>5 DEF Sums, SumsAll
<1> QED
  BY <1>1, <1>4, <1>6, TotalIs DEF G, Inner

(* The matrix of a quantizer's rotation. *)
MatrixOf(p) == Orthogonal(p.dim, p.seed)

LEMMA RotateIs ==
    ASSUME NEW p, p.dim \in Nat, MatrixOf(p) \in [1 .. p.dim -> [1 .. p.dim -> Int]],
           NEW x \in [1 .. p.dim -> Int]
    PROVE  /\ Rotate(p, x) = ByRows(MatrixOf(p), p.dim, x)
           /\ RotateBack(p, x) = ByColumns(MatrixOf(p), p.dim, x)
<1> DEFINE n == p.dim  M == MatrixOf(p)
<1>1. Rotate(p, x) = [i \in 1 .. n |-> RowSum(M, i, x, n)]
  BY DEF Rotate, Coordinates, RowSum, SumOf, MapThenSumSet, MapThenFoldSet, MatrixOf
<1>2. RotateBack(p, x) = [i \in 1 .. n |-> ColumnSum(M, i, x, n)]
  BY DEF RotateBack, Coordinates, ColumnSum, SumOf, MapThenSumSet, MapThenFoldSet, MatrixOf
<1> HIDE DEF n, M
<1>3. n \in Nat /\ M \in [1 .. n -> [1 .. n -> Int]] /\ x \in [1 .. n -> Int]
  BY DEF n, M
<1>4. \A i \in 1 .. n : RowSum(M, i, x, n) = Inner(M[i], x, n)
  BY <1>3, RowSumIs
<1>5. \A i \in 1 .. n : ColumnSum(M, i, x, n) = Inner(Column(M, n, i), x, n)
  BY <1>3, ColumnSumIs
<1>6. Rotate(p, x) = ByRows(M, n, x)
  BY <1>1, <1>4, Zenon DEF ByRows
<1>7. RotateBack(p, x) = ByColumns(M, n, x)
  BY <1>2, <1>5, Zenon DEF ByColumns
<1> QED
  BY <1>6, <1>7 DEF n, M

(* The largest codebook has indices of 20 bits. *)
LEMMA LargestCodebook == MaxCodebookSize \in Nat /\ 2 ^ 20 = MaxCodebookSize
  BY SMT DEF MaxCodebookSize

(* The bits of an index have room for every codeword. *)
LEMMA BitsAre ==
    ASSUME NEW n \in 2 .. MaxCodebookSize
    PROVE  IndexBits(n) \in 1 .. 20 /\ n <= 2 ^ IndexBits(n)
<1> DEFINE Fits(b) == n <= 2 ^ b /\ n > 2 ^ (b - 1)
           Above == {b \in Nat : b <= 20 => n > 2 ^ b}
<1>0. MaxCodebookSize \in Nat /\ 2 ^ 20 = MaxCodebookSize
  BY LargestCodebook
<1>1. n \in Nat /\ n > 1 /\ n <= MaxCodebookSize
  BY <1>0
<1>2. \E b \in 1 .. 20 : Fits(b)
  <2> SUFFICES ASSUME \A b \in 1 .. 20 : ~Fits(b) PROVE FALSE
    OBVIOUS
  <2>1. 0 \in Above
    <3>1. 2 ^ 0 = 1
      OBVIOUS
    <3> QED
      BY <1>1, <3>1
  <2>2. ASSUME NEW b \in Nat, b \in Above PROVE b + 1 \in Above
    <3> SUFFICES ASSUME b + 1 <= 20 PROVE n > 2 ^ (b + 1)
      OBVIOUS
    <3>1. n > 2 ^ b /\ b + 1 \in 1 .. 20 /\ (b + 1) - 1 = b /\ b + 1 \in 0 .. 32
      BY <2>2
    <3>2. ~Fits(b + 1)
      BY <3>1
    <3>3. ~(n <= 2 ^ (b + 1))
      BY <3>1, <3>2
    <3>4. 2 ^ (b + 1) \in Nat
      BY <3>1, Powers
    <3> QED
      BY <1>1, <3>3, <3>4
  <2> HIDE DEF Above
  <2>3. 20 \in Above
    BY <2>1, <2>2, NatSetInduction
  <2>4. 20 \in Nat /\ 20 <= 20
    OBVIOUS
  <2>5. n > 2 ^ 20
    BY <2>3, <2>4, Zenon DEF Above
  <2> QED
    BY <1>0, <1>1, <2>5
<1>3. IndexBits(n) = CHOOSE b \in 1 .. 20 : Fits(b)
  BY DEF IndexBits
<1> HIDE DEF Above
<1>4. IndexBits(n) \in 1 .. 20 /\ Fits(IndexBits(n))
  <2> HIDE DEF Fits
  <2> QED
    BY <1>2, <1>3, Zenon
<1> QED
  BY <1>4

(* The codewords of a choice, one for each block, and all coordinates.     *)
WordsOf(q, ind) == [b \in 1 .. Blocks(q.profile) |-> q.words[ind[b] + 1]]

(* Every choice of codewords has a code, which decodes to them. *)
LEMMA ChoiceDecodes ==
    ASSUME NEW q \in Quantizers, ValidQuantizer(q), NEW N \in 1 .. MaxNorm,
           NEW ind \in IndexLists(q)
    PROVE  LET c == CodeFor(q, N, ind) IN
           c.ok /\ Decode(q, c.value) = Restored(q.profile, FlattenSeq(WordsOf(q, ind)), N)
<1> DEFINE p == q.profile  m == Blocks(p)  n == p.n  bits == p.bits
           packed == Packed(ind, bits)  c == CodeFor(q, N, ind)
<1>1. /\ m \in Nat /\ n \in Nat /\ n \in 2 .. MaxCodebookSize /\ bits = IndexBits(n)
  BY QuantizerIs, Zenon DEF ValidQuantizer, ValidProfile
<1>2. bits \in 1 .. 32 /\ n <= 2 ^ bits /\ 2 ^ bits \in Nat
  <2>1. bits \in 1 .. 20 /\ n <= 2 ^ bits
    BY <1>1, BitsAre
  <2>2. bits \in 0 .. 32 /\ bits \in 1 .. 32
    BY <2>1
  <2> QED
    BY <2>1, <2>2, Powers
<1>3. ind \in [1 .. m -> 0 .. n - 1]
  BY DEF IndexLists
<1>4. packed.ok
  <2>1. \A b \in DOMAIN ind : ind[b] < 2 ^ bits
    <3> HIDE DEF m, n, bits
    <3> QED
      BY <1>1, <1>2, <1>3
  <2> QED
    BY <1>2, <2>1, Zenon DEF Packed, Succeeded
<1>5. Unpacked(packed.value, m, bits) = Succeeded(ind)
  <2> HIDE DEF m, n, bits
  <2>1. Packed(ind, bits).ok
    BY <1>4
  <2>2. LET bytes == Packed(ind, bits).value IN
        /\ bits \in 1 .. 32
        /\ bytes \in Seq(Nat) /\ Len(bytes) = Ceil8(m * bits) /\ Ceil8(m * bits) \in Nat
        /\ Unpacked(bytes, m, bits) = Succeeded(ind)
    BY <1>1, <1>3, <2>1, IndicesComeBack
  <2> QED
    BY <2>2
<1>6. c = Succeeded([profile |-> p, codebook |-> q, rotation |-> RotationDigest(p), dim |-> p.dim,
              k |-> p.k, format |-> p.format, norm |-> NormBytes(N), bits |-> bits,
              blocks |-> m, indices |-> packed.value])
  BY <1>4 DEF CodeFor, CodebookDigest, NormEncodes
<1>7. c.ok /\ c.value.indices = packed.value /\ c.value.norm = NormBytes(N)
  <2> HIDE DEF p, m, n, bits, packed, c
  <2> QED
    BY <1>6 DEF Succeeded
<1>8. HeaderFits(c.value, q)
  <2>1. Made(q, c.value)
    BY <1>7, Zenon DEF Made
  <2> QED
    BY <2>1, MadeIs
<1>9. NormDecoded(c.value.norm) = Succeeded(N)
  BY <1>7, NormComesBack
<1> DEFINE u == Unpacked(c.value.indices, m, bits)  norm == NormDecoded(c.value.norm)
           words == [b \in 1 .. m |-> q.words[u.value[b] + 1]]
<1>10. Decode(q, c.value) =
         IF HeaderFits(c.value, q) /\ u.ok /\ (\A b \in DOMAIN u.value : u.value[b] < p.n) /\ norm.ok
         THEN Restored(p, FlattenSeq(words), norm.value) ELSE Failed
  BY Zenon DEF Decode, Restored
<1>11. u.ok /\ u.value = ind /\ norm.ok /\ norm.value = N
  BY <1>5, <1>7, <1>9 DEF Succeeded
<1>12. words = WordsOf(q, ind)
  BY <1>11, Zenon DEF WordsOf
<1>13. \A b \in DOMAIN u.value : u.value[b] < p.n
  BY <1>1, <1>3, <1>11
<1>14. c.ok
  BY <1>7
<1> HIDE DEF words, u, norm, c, p
<1>15. Decode(q, c.value) = Restored(p, FlattenSeq(WordsOf(q, ind)), N)
  BY <1>8, <1>10, <1>11, <1>12, <1>13
<1> QED
  BY <1>14, <1>15 DEF c, p

(* The rotation of a quantizer and its blocks. *)
LEMMA RotationIs ==
    ASSUME NEW q \in Quantizers, ValidQuantizer(q)
    PROVE  LET p == q.profile IN
           /\ p.dim \in Nat /\ Blocks(p) * p.k = p.dim
           /\ MatrixOf(p) \in [1 .. p.dim -> [1 .. p.dim -> Int]]
           /\ Orthonormal(MatrixOf(p), p.dim)
<1> DEFINE p == q.profile  d == p.dim  k == p.k  M == MatrixOf(p)
<1>1. d \in 1 .. MaxAmbientDim /\ k \in 1 .. MaxBlockDim /\ d % k = 0 /\ Blocks(p) = d \div k
  BY Zenon DEF ValidQuantizer, ValidProfile, Blocks
<1>2. d \in Nat /\ k \in Nat \ {0}
  <2>1. MaxAmbientDim \in Nat /\ MaxBlockDim \in Nat
    BY SMT DEF MaxAmbientDim, MaxBlockDim
  <2> HIDE DEF d, k
  <2> QED
    BY <1>1, <2>1
<1>3. Blocks(p) * k = d
  <2> HIDE DEF d, k, p
  <2>1. d = (d \div k) * k + (d % k) /\ d \div k \in Nat
    BY <1>2, DivMod
  <2> QED
    BY <1>1, <1>2, <2>1
<1>4. /\ M \in [1 .. d -> [1 .. d -> Int]]
      /\ \A i, j \in 1 .. d : RowSum(M, i, M[j], d) = IF i = j THEN 1 ELSE 0
  <2>1. /\ M \in [1 .. d -> [1 .. d -> Int]]
        /\ \A i, j \in 1 .. d : SumOf(d, LAMBDA c : M[i][c] * M[j][c]) = IF i = j THEN 1 ELSE 0
    BY RotationAssumption DEF MatrixOf, SumOf, MapThenSumSet, MapThenFoldSet
  <2> QED
    BY <2>1 DEF RowSum, SumOf, MapThenSumSet, MapThenFoldSet
<1>5. Orthonormal(M, d)
  <2> HIDE DEF M, d
  <2> SUFFICES ASSUME NEW i \in 1 .. d, NEW j \in 1 .. d
               PROVE  Inner(M[i], M[j], d) = IF i = j THEN 1 ELSE 0
    BY DEF Orthonormal
  <2> DEFINE m == M[j]
  <2>1. m \in [1 .. d -> Int] /\ RowSum(M, i, m, d) = IF i = j THEN 1 ELSE 0
    BY <1>4
  <2> HIDE DEF m
  <2>2. RowSum(M, i, m, d) = Inner(M[i], m, d)
    BY <1>2, <1>4, <2>1, RowSumIs
  <2> QED
    BY <2>1, <2>2 DEF m
<1> QED
  BY <1>2, <1>3, <1>4, <1>5

(* A block of coordinates. *)
LEMMA BlockOfIs ==
    ASSUME NEW m \in Nat, NEW k \in Nat, NEW z \in [1 .. m * k -> Int], NEW b \in 1 .. m
    PROVE  /\ BlockOf(z, b, k) \in [1 .. k -> Int]
           /\ \A j \in 1 .. k : /\ (b - 1) * k + j \in 1 .. m * k
                                /\ BlockOf(z, b, k)[j] = z[(b - 1) * k + j]
<1> DEFINE l == m * k  a == (b - 1) * k  t == [j \in 1 .. k |-> z[a + j]]
<1>1. l \in Nat /\ b - 1 \in Nat /\ b - 1 < m
  OBVIOUS
<1>2. a + k <= l /\ a \in Nat
  BY <1>1, MulLess
<1>3. b * k = a + k
  OBVIOUS
<1>4. z \in [1 .. l -> Int]
  OBVIOUS
<1> HIDE DEF l, a
<1>5. \A j \in 1 .. k : a + j \in 1 .. l
  BY <1>1, <1>2
<1>6. t \in [1 .. k -> Int]
  BY <1>4, <1>5
<1>7. \A j \in 1 .. k : t[j] = z[a + j]
  OBVIOUS
<1> HIDE DEF t
<1>8. t \in Seq(Int) /\ Len(t) = k /\ z \in Seq(Int) /\ Len(z) = l
  BY <1>1, <1>4, <1>6, FunctionIsSeq
<1>9. SubSeq(z, a + 1, a + k) = t
  BY <1>2, <1>7, <1>8, SliceIs
<1>10. BlockOf(z, b, k) = t
  BY <1>3, <1>9 DEF BlockOf, a
<1> QED
  BY <1>5, <1>6, <1>7, <1>10 DEF a, l

(* The coordinates of the codewords of a choice. *)
LEMMA WordsAre ==
    ASSUME NEW q \in Quantizers, ValidQuantizer(q), NEW ind \in IndexLists(q)
    PROVE  LET p == q.profile  w == FlattenSeq(WordsOf(q, ind)) IN
           /\ w \in [1 .. p.dim -> Int]
           /\ \A b \in 1 .. Blocks(p) :
                  /\ ind[b] + 1 \in DOMAIN q.words
                  /\ q.words[ind[b] + 1] \in [1 .. p.k -> Int]
                  /\ \A j \in 1 .. p.k : w[(b - 1) * p.k + j] = q.words[ind[b] + 1][j]
<1> DEFINE p == q.profile  d == p.dim  k == p.k  n == p.n  m == Blocks(p)
           words == q.words  ss == WordsOf(q, ind)  w == FlattenSeq(ss)
<1>1. /\ k \in Nat /\ m \in Nat /\ n \in Nat /\ m * k = d /\ d \in Nat
      /\ words \in Seq(Seq(Int)) /\ Len(words) = n /\ \A c \in DOMAIN words : Len(words[c]) = k
  BY QuantizerIs, RotationIs
<1>2. ind \in [1 .. m -> 0 .. n - 1] /\ ss = [b \in 1 .. m |-> words[ind[b] + 1]]
  BY Zenon DEF IndexLists, WordsOf
<1> HIDE DEF p, d, k, n, m, words, ss
<1>3. ASSUME NEW b \in 1 .. m
      PROVE  /\ ind[b] + 1 \in DOMAIN words /\ words[ind[b] + 1] \in Seq(Int)
             /\ Len(words[ind[b] + 1]) = k /\ words[ind[b] + 1] \in [1 .. k -> Int]
  <2>1. ind[b] \in 0 .. n - 1
    BY <1>2
  <2>2. ind[b] + 1 \in 1 .. Len(words)
    BY <1>1, <2>1
  <2> DEFINE t == words[ind[b] + 1]
  <2>3. t \in Seq(Int) /\ Len(t) = k
    BY <1>1, <2>2
  <2> HIDE DEF t
  <2>4. t \in [1 .. k -> Int]
    BY <2>3
  <2> QED
    BY <1>1, <2>2, <2>3, <2>4 DEF t
<1>4. ss \in Seq(Seq(Int)) /\ Len(ss) = m /\ \A b \in DOMAIN ss : Len(ss[b]) = k
  <2>1. ss \in [1 .. m -> Seq(Int)]
    BY <1>2, <1>3
  <2>2. ss \in Seq(Seq(Int)) /\ Len(ss) = m
    BY <1>1, <2>1, FunctionIsSeq
  <2> QED
    BY <1>2, <1>3, <2>1, <2>2
<1>5. /\ w \in Seq(Int) /\ Len(w) = m * k
      /\ \A u \in 0 .. m - 1, j \in 1 .. k : w[u * k + j] = ss[u + 1][j]
  BY <1>1, <1>4, FlattenPlaces
<1> HIDE DEF w
<1>6. w \in [1 .. d -> Int]
  BY <1>1, <1>5
<1>7. ASSUME NEW b \in 1 .. m, NEW j \in 1 .. k
      PROVE  w[(b - 1) * k + j] = words[ind[b] + 1][j]
  <2>1. b - 1 \in 0 .. m - 1 /\ (b - 1) + 1 = b
    BY <1>1
  <2>2. w[(b - 1) * k + j] = ss[b][j]
    BY <1>5, <2>1
  <2> QED
    BY <1>2, <2>2
<1> QED
  BY <1>3, <1>6, <1>7 DEF p, d, k, m, words, ss, w

(* How far the codewords of a choice are from the blocks, all together. *)
Gaps(q, z, ind) ==
    [b \in 1 .. Blocks(q.profile) |-> Away(BlockOf(z, b, q.profile.k), q.words, ind[b] + 1)]

LEMMA GapsAre ==
    ASSUME NEW q \in Quantizers, ValidQuantizer(q), NEW ind \in IndexLists(q),
           NEW z \in [1 .. q.profile.dim -> Int]
    PROVE  LET m == Blocks(q.profile) IN
           /\ Gaps(q, z, ind) \in [1 .. m -> Int]
           /\ Total(Gaps(q, z, ind), 1 .. m)
                = Total(Apart(z, FlattenSeq(WordsOf(q, ind))), 1 .. q.profile.dim)
<1> DEFINE p == q.profile  d == p.dim  k == p.k  m == Blocks(p)  words == q.words
           w == FlattenSeq(WordsOf(q, ind))  G == Apart(z, w)  H == Gaps(q, z, ind)
           P == InBlocks(G, m, k)
<1>1. k \in Nat /\ m \in Nat /\ m * k = d /\ d \in Nat
  BY QuantizerIs, RotationIs
<1>2. /\ w \in [1 .. d -> Int]
      /\ \A b \in 1 .. m : /\ words[ind[b] + 1] \in [1 .. k -> Int]
                           /\ \A j \in 1 .. k : w[(b - 1) * k + j] = words[ind[b] + 1][j]
  BY WordsAre
<1>3. H = [b \in 1 .. m |-> Away(BlockOf(z, b, k), words, ind[b] + 1)]
  BY DEF Gaps
<1>4. z \in [1 .. d -> Int]
  OBVIOUS
<1> HIDE DEF p, d, k, m, words, w, H
<1>5. G \in [1 .. d -> Int]
  BY <1>1, <1>2, <1>4, ApartIs
<1>6. ASSUME NEW b \in 1 .. m
      PROVE  H[b] \in Int /\ H[b] = Total(P[b], 1 .. k)
  <2> DEFINE block == BlockOf(z, b, k)  word == words[ind[b] + 1]
             part == P[b]  apart == Apart(block, word)
  <2>1. /\ block \in [1 .. k -> Int]
        /\ \A j \in 1 .. k : (b - 1) * k + j \in 1 .. d /\ block[j] = z[(b - 1) * k + j]
    <3>1. z \in [1 .. m * k -> Int]
      BY <1>1, <1>4
    <3>2. block \in [1 .. k -> Int]
      BY <1>1, <3>1, BlockOfIs
    <3>3. \A j \in 1 .. k : (b - 1) * k + j \in 1 .. m * k /\ block[j] = z[(b - 1) * k + j]
      BY <1>1, <3>1, BlockOfIs
    <3> QED
      BY <1>1, <3>2, <3>3
  <2>2. word \in [1 .. k -> Int] /\ \A j \in 1 .. k : w[(b - 1) * k + j] = word[j]
    BY <1>2
  <2>3. H[b] = SquaredDistance(block, word)
    BY <1>3 DEF Away
  <2>4. apart = part
    <3>1. apart = [j \in 1 .. k |-> (block[j] - word[j]) * (block[j] - word[j])]
      BY <2>1 DEF Apart
    <3>2. \A j \in 1 .. k : part[j] = (block[j] - word[j]) * (block[j] - word[j])
      BY <1>4, <2>1, <2>2 DEF Apart, InBlocks
    <3>3. part = [j \in 1 .. k |-> part[j]]
      BY DEF InBlocks
    <3> HIDE DEF apart, part, block, word
    <3> QED
      BY <3>1, <3>2, <3>3, Zenon
  <2>5. apart \in [1 .. k -> Int]
    <3> HIDE DEF block, word
    <3> QED
      BY <1>1, <2>1, <2>2, ApartIs
  <2> HIDE DEF block, word, part
  <2>6. SquaredDistance(block, word) = Total(apart, 1 .. k)
    BY <1>1, <2>1, <2>2, DistanceIsTotal
  <2> HIDE DEF apart
  <2>7. Total(apart, 1 .. k) \in Int
    <3>1. IsFiniteSet(1 .. k) /\ \A j \in 1 .. k : apart[j] \in Int
      BY <1>1, <2>5, FS_Interval
    <3> QED
      BY <3>1, TotalIs
  <2> QED
    BY <2>3, <2>4, <2>6, <2>7 DEF part
<1> HIDE DEF G
<1>7. Total(H, 1 .. m) = Total(G, 1 .. d)
  <2>1. SumsOfBlocks(H, G, m, k)
    BY <1>6, Zenon DEF SumsOfBlocks
  <2>2. m \in Nat /\ k \in Nat
    BY <1>1
  <2>3. d = m * k
    BY <1>1
  <2> QED
    BY <1>5, <2>1, <2>2, <2>3, TotalOfBlocks
<1>8. H \in [1 .. m -> Int]
  <2>1. H = [b \in 1 .. m |-> H[b]]
    BY <1>3
  <2> QED
    BY <1>6, <2>1
<1> QED
  BY <1>1, <1>7, <1>8 DEF p, d, m, w, G, H

(* The error of a choice of codewords: the same for every choice, but for  *)
(* the distances of the codewords from the blocks.                         *)
ErrorOf(q, N, u, ind) ==
    (N * N) * (Shortened(MatrixOf(q.profile), q.profile.dim, u)
                 + Total(Gaps(q, Rotate(q.profile, u), ind), 1 .. Blocks(q.profile)))

LEMMA ErrorIs ==
    ASSUME NEW q \in Quantizers, ValidQuantizer(q), NEW ind \in IndexLists(q), NEW N \in Int,
           NEW u \in [1 .. q.profile.dim -> Int], NEW x \in [1 .. q.profile.dim -> Int],
           \A i \in 1 .. q.profile.dim : x[i] = N * u[i]
    PROVE  SquaredDistance(x, Restored(q.profile, FlattenSeq(WordsOf(q, ind)), N).value)
             = ErrorOf(q, N, u, ind)
<1> DEFINE p == q.profile  d == p.dim  M == MatrixOf(p)  w == FlattenSeq(WordsOf(q, ind))
           z == Rotate(p, u)  c == RotateBack(p, w)  y == [i \in DOMAIN c |-> c[i] * N]
<1>1. d \in Nat /\ M \in [1 .. d -> [1 .. d -> Int]] /\ Orthonormal(M, d)
  BY RotationIs
<1>2. w \in [1 .. d -> Int]
  BY WordsAre
<1>3. Restored(p, w, N).value = y
  BY DEF Restored, Succeeded
<1>4. u \in [1 .. d -> Int] /\ x \in [1 .. d -> Int] /\ \A i \in 1 .. d : x[i] = N * u[i]
  OBVIOUS
<1>5. Total(Gaps(q, z, ind), 1 .. Blocks(p)) = Total(Apart(z, w), 1 .. d)
  <2>1. z \in [1 .. d -> Int]
    <3> HIDE DEF p, M
    <3>1. z = ByRows(M, d, u)
      BY <1>1, <1>4, RotateIs DEF M
    <3> HIDE DEF z, d
    <3>2. ByRows(M, d, u) \in [1 .. d -> Int]
      BY <1>1, <1>4, ProductsAre
    <3> QED
      BY <3>1, <3>2
  <2> HIDE DEF z
  <2> QED
    BY <2>1, GapsAre
<1> HIDE DEF p, w
<1>6. z = ByRows(M, d, u) /\ c = ByColumns(M, d, w)
  BY <1>1, <1>2, <1>4, RotateIs
<1> HIDE DEF d, M, z, c
<1>7. z \in [1 .. d -> Int] /\ c \in [1 .. d -> Int]
  BY <1>1, <1>2, <1>4, <1>6, ProductsAre
<1>8. x = Times(N, u) /\ y = Times(N, c)
  <2>1. y = Times(N, c)
    <3>1. \A i \in 1 .. d : c[i] * N = N * c[i]
      BY <1>7
    <3> QED
      BY <1>7, <3>1 DEF Times
  <2>2. x = [i \in 1 .. d |-> x[i]]
    BY <1>4
  <2>3. x = Times(N, u)
    BY <1>4, <2>2 DEF Times
  <2> QED
    BY <2>1, <2>3
<1>16. x \in [1 .. d -> Int] /\ y \in [1 .. d -> Int]
  <2>1. y \in [1 .. d -> Int]
    BY <1>7
  <2> QED
    BY <1>4, <2>1
<1> HIDE DEF y
<1>9. SquaredDistance(x, y) = Total(Apart(x, y), 1 .. d)
  BY <1>1, <1>16, DistanceIsTotal
<1>14. d \in Nat
  BY <1>1
<1>15. u \in [1 .. d -> Int]
  BY <1>4
<1>10. Total(Apart(x, y), 1 .. d) = (N * N) * Total(Apart(u, c), 1 .. d)
  <2>1. c \in [1 .. d -> Int]
    BY <1>7
  <2>2. Total(Apart(Times(N, u), Times(N, c)), 1 .. d) = (N * N) * Total(Apart(u, c), 1 .. d)
    BY <1>14, <1>15, <2>1, ScaledApart
  <2> QED
    BY <1>8, <2>2, Zenon
<1>11. Total(Apart(u, c), 1 .. d) = Shortened(M, d, u) + Total(Apart(z, w), 1 .. d)
  <2>1. Total(Apart(u, ByColumns(M, d, w)), 1 .. d)
          = Shortened(M, d, u) + Total(Apart(ByRows(M, d, u), w), 1 .. d)
    <3>1. M \in [1 .. d -> [1 .. d -> Int]]
      BY <1>1
    <3>2. Orthonormal(M, d)
      BY <1>1
    <3>3. \A K \in [1 .. d -> [1 .. d -> Int]], a \in [1 .. d -> Int], b \in [1 .. d -> Int] :
              Orthonormal(K, d) =>
                  Total(Apart(a, ByColumns(K, d, b)), 1 .. d)
                    = Shortened(K, d, a) + Total(Apart(ByRows(K, d, a), b), 1 .. d)
      BY <1>14, RotatedApart
    <3> QED
      BY <1>2, <1>15, <3>1, <3>2, <3>3, Zenon
  <2> QED
    BY <1>6, <2>1, Zenon
<1>13. SquaredDistance(x, y) = ErrorOf(q, N, u, ind)
  BY <1>5, <1>9, <1>10, <1>11, Zenon DEF ErrorOf, p, d, M, z
<1> QED
  BY <1>3, <1>13 DEF p, w

(* What encode makes of a vector that can be encoded. *)
LEMMA DirectionIs ==
    ASSUME NEW p, NEW x \in Vectors, Encodable(p, x), NormEncodes(NormOf(x)), p.dim \in Nat
    PROVE  LET d == p.dim  N == NormOf(x)  u == Direction(x) IN
           /\ N \in 1 .. MaxNorm /\ N \in Nat \ {0}
           /\ x \in [1 .. d -> Int] /\ u \in [1 .. d -> Int]
           /\ \A i \in 1 .. d : x[i] = N * u[i]
<1> DEFINE d == p.dim  N == NormOf(x)  u == Direction(x)
<1>1. N \in 1 .. MaxNorm
  BY DEF NormEncodes
<1>2. Len(x) = d /\ (\A i \in DOMAIN x : x[i] # NaN) /\ N # 0
  BY DEF Encodable
<1>3. x \in Seq(Int) /\ \A i \in DOMAIN x : x[i] % N = 0
  BY <1>2, VectorAssumption
<1>4. u = [i \in DOMAIN x |-> x[i] \div N]
  BY DEF Direction
<1> HIDE DEF d, N, u
<1>5. N \in Nat \ {0}
  BY <1>1, NormAssumption
<1>6. x \in [1 .. d -> Int]
  BY <1>2, <1>3
<1>7. \A i \in 1 .. d : x[i] \div N \in Int /\ x[i] = N * (x[i] \div N)
  <2> SUFFICES ASSUME NEW i \in 1 .. d PROVE x[i] \div N \in Int /\ x[i] = N * (x[i] \div N)
    OBVIOUS
  <2> DEFINE a == x[i]
  <2>1. a \in Int /\ a % N = 0
    BY <1>3, <1>6
  <2> HIDE DEF a
  <2>2. a \div N \in Int /\ a = N * (a \div N)
    BY <1>5, <2>1, DivExact
  <2> QED
    BY <2>2 DEF a
<1>8. DOMAIN x = 1 .. d
  BY <1>6
<1>9. u \in [1 .. d -> Int] /\ \A i \in 1 .. d : u[i] = x[i] \div N
  BY <1>4, <1>7, <1>8, Zenon
<1>10. \A i \in 1 .. d : x[i] = N * u[i]
  BY <1>7, <1>9, Zenon
<1> QED
  BY <1>1, <1>5, <1>6, <1>9, <1>10 DEF d, N, u

LEMMA RotatedIs ==
    ASSUME NEW q \in Quantizers, ValidQuantizer(q), NEW u \in [1 .. q.profile.dim -> Int]
    PROVE  Rotate(q.profile, u) \in [1 .. q.profile.dim -> Int]
<1> DEFINE p == q.profile  d == p.dim  M == MatrixOf(p)
<1>1. d \in Nat /\ M \in [1 .. d -> [1 .. d -> Int]] /\ u \in [1 .. d -> Int]
  BY RotationIs
<1>2. Rotate(p, u) = ByRows(M, d, u)
  BY <1>1, RotateIs
<1> HIDE DEF M, d
<1>3. ByRows(M, d, u) \in [1 .. d -> Int]
  BY <1>1, ProductsAre
<1> QED
  BY <1>2, <1>3 DEF d

(* The indices encode chooses have the least gaps, block by block. *)
LEMMA GapsAreLeast ==
    ASSUME NEW q \in Quantizers, ValidQuantizer(q), NEW x \in Vectors, Encodable(q.profile, x),
           Rotate(q.profile, Direction(x)) \in [1 .. q.profile.dim -> Int],
           NEW choice \in IndexLists(q)
    PROVE  LET p == q.profile  z == Rotate(p, Direction(x))  ind == Indices(q, z, Nearest) IN
           \A b \in 1 .. Blocks(p) : Gaps(q, z, ind)[b] <= Gaps(q, z, choice)[b]
<1> DEFINE p == q.profile  z == Rotate(p, Direction(x))  ind == Indices(q, z, Nearest)
           words == q.words  k == p.k  m == Blocks(p)
<1> SUFFICES ASSUME NEW b \in 1 .. m PROVE Gaps(q, z, ind)[b] <= Gaps(q, z, choice)[b]
  OBVIOUS
<1> DEFINE block == BlockOf(z, b, k)
<1>1. /\ words \in Seq(Seq(Int)) /\ Len(words) = p.n /\ p.n \in Nat \ {0} /\ k \in Nat
      /\ \A c \in DOMAIN words : Len(words[c]) = k
  BY QuantizerIs
<1>2. \A c \in DOMAIN words : SquaredDistance(block, words[c]) < Infinity
  BY DistanceAssumption
<1>3. \A c \in DOMAIN words : SquaredDistance(block, words[c]) \in Int
  <2>1. m \in Nat /\ m * k = p.dim
    BY QuantizerIs, RotationIs
  <2>2. z \in [1 .. m * k -> Int]
    BY <2>1
  <2> HIDE DEF z, m, k, words, p
  <2>3. block \in [1 .. k -> Int]
    BY <1>1, <2>1, <2>2, BlockOfIs
  <2> HIDE DEF block
  <2>4. block \in Seq(Int) /\ Len(block) = k
    BY <1>1, <2>3, FunctionIsSeq
  <2> SUFFICES ASSUME NEW c \in DOMAIN words PROVE SquaredDistance(block, words[c]) \in Int
    OBVIOUS
  <2>5. words[c] \in Seq(Int) /\ Len(words[c]) = k
    BY <1>1
  <2> QED
    BY <2>4, <2>5, DistanceIs
<1>4. ind[b] = Nearest(block, words, k) /\ choice[b] \in 0 .. p.n - 1
  BY Zenon DEF Indices, IndexLists
<1>5. Gaps(q, z, ind)[b] = Away(block, words, ind[b] + 1)
      /\ Gaps(q, z, choice)[b] = Away(block, words, choice[b] + 1)
  BY DEF Gaps
<1> HIDE DEF words, block, z, ind, k, p
<1>6. Distant(block, words)
  BY <1>1, <1>2, <1>3 DEF Distant, Away
<1>7. Found(block, words, ind[b])
  <2>1. Len(words) \in Nat /\ DOMAIN words = 1 .. Len(words)
    BY <1>1
  <2>2. Found(block, words, NearestScalar(block, words))
    BY <2>1, ScalarRuns
  <2>3. Found(block, words, NearestPairs(block, words))
    BY <2>1, PairsRun
  <2> QED
    BY <1>4, <2>2, <2>3 DEF Nearest
<1>8. \A w \in DOMAIN words : Away(block, words, ind[b] + 1) <= Away(block, words, w)
  BY <1>6, <1>7, FoundIsNearest
<1>9. choice[b] + 1 \in DOMAIN words
  BY <1>1, <1>4
<1> QED
  BY <1>5, <1>8, <1>9

(* No choice has a smaller error than the indices encode chooses. *)
LEMMA ErrorIsLeast ==
    ASSUME NEW q \in Quantizers, ValidQuantizer(q), NEW x \in Vectors, Encodable(q.profile, x),
           NormEncodes(NormOf(x)), NEW choice \in IndexLists(q)
    PROVE  ErrorOf(q, NormOf(x), Direction(x), Indices(q, Rotate(q.profile, Direction(x)), Nearest))
             <= ErrorOf(q, NormOf(x), Direction(x), choice)
<1> DEFINE p == q.profile  d == p.dim  m == Blocks(p)  N == NormOf(x)  u == Direction(x)
           z == Rotate(p, u)  ind == Indices(q, z, Nearest)
           g == Gaps(q, z, ind)  h == Gaps(q, z, choice)  s == Shortened(MatrixOf(p), d, u)
<1>1. d \in Nat /\ m \in Nat /\ MatrixOf(p) \in [1 .. d -> [1 .. d -> Int]]
  BY QuantizerIs, RotationIs
<1>2. N \in Nat \ {0} /\ u \in [1 .. d -> Int]
  BY <1>1, DirectionIs
<1>3. z \in [1 .. d -> Int]
  <2> HIDE DEF u
  <2> QED
    BY <1>2, RotatedIs
<1>4. ind \in IndexLists(q)
  BY IndicesAre
<1>5. \A b \in 1 .. m : g[b] <= h[b]
  BY <1>3, GapsAreLeast
<1>6. g \in [1 .. m -> Int] /\ h \in [1 .. m -> Int]
  <2> HIDE DEF ind, z
  <2>1. g \in [1 .. m -> Int]
    BY <1>3, <1>4, GapsAre
  <2>2. h \in [1 .. m -> Int]
    BY <1>3, GapsAre
  <2> QED
    BY <2>1, <2>2
<1>7. s \in Int
  <2> DEFINE M == MatrixOf(p)  y == ByRows(M, d, u)
  <2> HIDE DEF M, d, u
  <2>1. y \in [1 .. d -> Int]
    BY <1>1, <1>2, ProductsAre DEF M
  <2> HIDE DEF y
  <2>2. Inner(u, u, d) \in Int
    BY <1>1, <1>2, InnerIs
  <2>3. Inner(y, y, d) \in Int
    BY <1>1, <2>1, InnerIs
  <2>4. s = Inner(u, u, d) - Inner(y, y, d)
    BY DEF Shortened, y, M
  <2> QED
    BY <2>2, <2>3, <2>4
<1> DEFINE a == Total(g, 1 .. m)  e == Total(h, 1 .. m)
<1>8. /\ ErrorOf(q, N, u, ind) = (N * N) * (s + a)
      /\ ErrorOf(q, N, u, choice) = (N * N) * (s + e)
  BY DEF ErrorOf
<1> HIDE DEF g, h, s, m, ind, N, u
<1>9. IsFiniteSet(1 .. m)
  <2>1. m \in Int /\ 1 \in Int
    BY <1>1
  <2> QED
    BY <2>1, FS_Interval
<1>10. a \in Int /\ e \in Int /\ a <= e
  <2>1. \A b \in 1 .. m : g[b] \in Int /\ h[b] \in Int /\ g[b] <= h[b]
    BY <1>5, <1>6
  <2>2. a <= e
    BY <1>9, <2>1, TotalOrder
  <2>3. a \in Int
    BY <1>9, <2>1, TotalIs
  <2>4. e \in Int
    BY <1>9, <2>1, TotalIs
  <2> QED
    BY <2>2, <2>3, <2>4
<1> HIDE DEF a, e
<1>11. (N * N) * (s + a) <= (N * N) * (s + e)
  <2> DEFINE n == N * N  gap == e - a
  <2>1. n \in Nat
    BY <1>2
  <2>2. gap \in Nat
    BY <1>10
  <2> HIDE DEF n, gap
  <2>3. n * gap \in Nat
    BY <2>1, <2>2
  <2>4. s + e = (s + a) + gap
    BY <1>7, <1>10 DEF gap
  <2> DEFINE r == s + a
  <2>5. r \in Int
    BY <1>7, <1>10
  <2> HIDE DEF r
  <2>6. n * (r + gap) = n * r + n * gap /\ n * r \in Int
    BY <2>1, <2>2, <2>5
  <2>7. n * r <= n * (r + gap)
    BY <2>3, <2>6
  <2> QED
    BY <2>4, <2>7, Zenon DEF n, r
<1> QED
  BY <1>8, <1>11 DEF N, u, ind

(* The codes are those of vectors that can be encoded. *)
InputsInv ==
    codes # <<>> =>
        /\ quantizer \in Quantizers /\ ValidQuantizer(quantizer)
        /\ \A i \in DOMAIN inputs :
               /\ inputs[i] \in Vectors /\ Encodable(quantizer.profile, inputs[i])
               /\ NormEncodes(NormOf(inputs[i]))

LEMMA BatchOfEncodable ==
    ASSUME NEW q, NEW xs, NEW gpu, BatchEncoded(q, xs, gpu).ok, NEW i \in DOMAIN xs
    PROVE  Encodable(q.profile, xs[i]) /\ NormEncodes(NormOf(xs[i]))
<1> DEFINE f == [j \in DOMAIN xs |-> Encoded(q, xs[j])]
           g == [j \in DOMAIN xs |->
                   CodeFor(q, NormOf(xs[j]), BatchIndices(q, Len(xs), gpu, xs[j]))]
           r == BatchEncoded(q, xs, gpu)
<1>1. \/ r = Collected(f)
      \/ r = Failed
      \/ r = Collected(g) /\ \A j \in DOMAIN xs : Encodable(q.profile, xs[j])
  BY Zenon DEF BatchEncoded
<1>2. r.ok /\ ~Failed.ok
  BY DEF Failed
<1>3. ASSUME NEW n, NEW ind, CodeFor(q, n, ind).ok PROVE NormEncodes(n)
  BY <1>2, <1>3, Zenon DEF CodeFor
<1>4. ASSUME NEW t, Collected(t).ok, NEW j \in DOMAIN t PROVE t[j].ok
  BY <1>2, <1>4, Zenon DEF Collected
<1>5. CASE r = Collected(f)
  <2>1. f[i].ok /\ f[i] = Encoded(q, xs[i])
    BY <1>2, <1>4, <1>5
  <2>2. Encodable(q.profile, xs[i])
    BY <1>2, <2>1, Zenon DEF Encoded
  <2>3. Encoded(q, xs[i])
          = CodeFor(q, NormOf(xs[i]), Indices(q, Rotate(q.profile, Direction(xs[i])), Nearest))
    BY <2>2, Zenon DEF Encoded
  <2>4. NormEncodes(NormOf(xs[i]))
    BY <1>3, <2>1, <2>3, Zenon
  <2> QED
    BY <2>2, <2>4
<1>6. CASE r = Collected(g) /\ \A j \in DOMAIN xs : Encodable(q.profile, xs[j])
  <2>1. g[i].ok /\ g[i] = CodeFor(q, NormOf(xs[i]), BatchIndices(q, Len(xs), gpu, xs[i]))
    BY <1>2, <1>4, <1>6
  <2> QED
    BY <1>3, <1>6, <2>1, Zenon
<1> HIDE DEF r, f, g
<1> QED
  BY <1>1, <1>2, <1>5, <1>6

LEMMA InputsInitially == FibInit => InputsInv
  BY DEF FibInit, InputsInv

LEMMA InputsKeep == InputsInv /\ [FibNext]_fibVars => InputsInv'
<1> SUFFICES ASSUME InputsInv, [FibNext]_fibVars PROVE InputsInv'
  OBVIOUS
<1> USE DEF InputsInv
<1>1. ASSUME NEW q \in Quantizers, NEW gpu \in Gpus, NEW n \in 1 .. MaxVectors,
             NEW xs \in [1 .. n -> Vectors], EncodeBatch(q, xs, gpu)
      PROVE  InputsInv'
  <2>1. quantizer' = q /\ inputs' = xs /\ ValidQuantizer(q) /\ BatchEncoded(q, xs, gpu).ok
    BY <1>1 DEF EncodeBatch
  <2>2. \A i \in DOMAIN xs : /\ Encodable(q.profile, xs[i]) /\ NormEncodes(NormOf(xs[i]))
                             /\ xs[i] \in Vectors
    BY <2>1, BatchOfEncodable
  <2> QED
    BY <2>1, <2>2
<1>2. ASSUME UNCHANGED <<quantizer, inputs, codes>> PROVE InputsInv'
  BY <1>2
<1>3. CASE DropCodes
  BY <1>3 DEF DropCodes
<1>4. ASSUME ToCompact \/ ToBatch \/ Cut \/ Extend \/ (\E f, v : DamageHeader(f, v))
                \/ \E q \in Quantizers : ReadCodes(q) \/ ReadBytes(q)
      PROVE  UNCHANGED <<quantizer, inputs, codes>>
  BY <1>4, Zenon DEF ToCompact, ToBatch, Cut, Extend, DamageHeader, ReadCodes, ReadBytes
<1>5. CASE UNCHANGED fibVars
  BY <1>2, <1>5 DEF fibVars
<1> HIDE DEF InputsInv
<1> QED
  BY <1>1, <1>2, <1>3, <1>4, <1>5 DEF FibNext

LEMMA NearestAreEncoded == InputsInv => EncodesToNearest
<1> SUFFICES ASSUME InputsInv, codes # <<>>, NEW x \in Range(inputs),
                    NEW choice \in IndexLists(quantizer)
             PROVE  Receipt(quantizer, x).value.error
                      <= SquaredDistance(x, Decode(quantizer,
                             CodeFor(quantizer, NormOf(x), choice).value).value)
  BY Zenon DEF EncodesToNearest, IndexLists
<1> DEFINE q == quantizer  p == q.profile  N == NormOf(x)  u == Direction(x)
           ind == Indices(q, Rotate(p, u), Nearest)
<1>1. /\ q \in Quantizers /\ ValidQuantizer(q)
      /\ x \in Vectors /\ Encodable(p, x) /\ NormEncodes(N)
  BY DEF InputsInv, Range
<1>2. p.dim \in Nat
  BY <1>1, RotationIs
<1>3. /\ N \in 1 .. MaxNorm /\ N \in Int /\ x \in [1 .. p.dim -> Int]
      /\ u \in [1 .. p.dim -> Int] /\ \A i \in 1 .. p.dim : x[i] = N * u[i]
  BY <1>1, <1>2, DirectionIs
<1>4. ind \in IndexLists(q)
  BY <1>1, IndicesAre
<1>5. ASSUME NEW c \in IndexLists(q)
      PROVE  /\ CodeFor(q, N, c).ok /\ Decode(q, CodeFor(q, N, c).value).ok
             /\ SquaredDistance(x, Decode(q, CodeFor(q, N, c).value).value) = ErrorOf(q, N, u, c)
  <2> HIDE DEF N, u
  <2>1. /\ CodeFor(q, N, c).ok
        /\ Decode(q, CodeFor(q, N, c).value) = Restored(p, FlattenSeq(WordsOf(q, c)), N)
    BY <1>1, <1>3, ChoiceDecodes
  <2>2. SquaredDistance(x, Restored(p, FlattenSeq(WordsOf(q, c)), N).value) = ErrorOf(q, N, u, c)
    BY <1>1, <1>3, ErrorIs
  <2>3. Restored(p, FlattenSeq(WordsOf(q, c)), N).ok
    BY Zenon DEF Restored, Succeeded
  <2> QED
    BY <2>1, <2>2, <2>3
<1>6. ErrorOf(q, N, u, ind) <= ErrorOf(q, N, u, choice)
  BY <1>1, ErrorIsLeast
<1>7. Encoded(q, x) = CodeFor(q, N, ind)
  BY <1>1, Zenon DEF Encoded
<1> HIDE DEF q, p, N, u, ind
<1>8. Receipt(q, x).value.error
        = SquaredDistance(x, Decode(q, CodeFor(q, N, ind).value).value)
  BY <1>4, <1>5, <1>7 DEF Receipt, Succeeded
<1>9. choice \in IndexLists(q)
  BY DEF q
<1>10. Receipt(q, x).value.error
         <= SquaredDistance(x, Decode(q, CodeFor(q, N, choice).value).value)
  BY <1>4, <1>5, <1>6, <1>8, <1>9
<1> QED
  BY <1>10 DEF q, N

(* No choice of codewords decodes nearer to a vector than the one encode   *)
(* makes (FibQuantizer::encode, nearest_codeword): a rotation keeps        *)
(* distances up to the same amount for every choice, so that the error is  *)
(* least when that of every block is.                                      *)
THEOREM CodesAreNearest == FibSpec => []EncodesToNearest
  BY InputsInitially, InputsKeep, NearestAreEncoded, PTL DEF FibSpec
=============================================================================
