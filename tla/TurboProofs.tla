---------------------------- MODULE TurboProofs -----------------------------
(***************************************************************************)
(* Theorems about turbo-quant: the sparse prefill plans of a head's cache  *)
(* (TurboKv), the codecs for radii (RadiusCodec), the searches of an index *)
(* (TurboScoring) and the wire formats (TurboWire), for every value of     *)
(* their constants.                                                        *)
(***************************************************************************)
EXTENDS TurboKv, RadiusCodec, TurboScoring, TurboWire, FoldFacts, FiniteSetTheorems

(***************************************************************************)
(* Rankings.                                                               *)
(***************************************************************************)
(* What goes before i in the ranking of I by k. *)
Above(I, k, i) == {j \in I : k[j] > k[i] \/ (k[j] = k[i] /\ j < i)}

(* The ranking TopIndices takes the first n of. *)
Top(I, k, n) == {i \in I : Cardinality(Above(I, k, i)) < n}

LEMMA Interval ==
    ASSUME NEW n \in Nat
    PROVE  IsFiniteSet(0 .. n - 1) /\ Cardinality(0 .. n - 1) = n
<1>1. 0 \in Int /\ n - 1 \in Int /\ n = IF 0 > n - 1 THEN 0 ELSE (n - 1) - 0 + 1
  OBVIOUS
<1> DEFINE m == n - 1
<1>2. IsFiniteSet(0 .. m) /\ Cardinality(0 .. m) = IF 0 > m THEN 0 ELSE m - 0 + 1
  <2> HIDE DEF m
  <2> QED
    BY <1>1, FS_Interval DEF m
<1> QED
  BY <1>1, <1>2

(* What is among the first n of a set is so in any smaller set.            *)
LEMMA TopOfLess ==
    ASSUME NEW I, IsFiniteSet(I), NEW J \in SUBSET I, NEW k, NEW m \in Nat, NEW n \in Nat,
           m <= n, NEW i \in Top(I, k, m), i \in J
    PROVE  i \in Top(J, k, n)
<1>1. Above(J, k, i) \subseteq Above(I, k, i) /\ Above(I, k, i) \subseteq I
  BY DEF Above
<1>2. /\ IsFiniteSet(Above(I, k, i)) /\ IsFiniteSet(Above(J, k, i))
      /\ Cardinality(Above(J, k, i)) <= Cardinality(Above(I, k, i))
      /\ Cardinality(Above(J, k, i)) \in Nat /\ Cardinality(Above(I, k, i)) \in Nat
  BY <1>1, FS_Subset, FS_CardinalityType
<1> QED
  BY <1>2 DEF Top

(* The ranking is total: the first n are n, if there are as many.          *)
LEMMA TopCounts ==
    ASSUME NEW I \in SUBSET Nat, IsFiniteSet(I), NEW k \in [I -> Int],
           NEW n \in 0 .. Cardinality(I)
    PROVE  IsFiniteSet(Top(I, k, n)) /\ Cardinality(Top(I, k, n)) = n
<1> DEFINE N == Cardinality(I)
           rank(i) == Cardinality(Above(I, k, i))
           f == [i \in I |-> rank(i)]
           R == {rank(i) : i \in I}
<1>1. N \in Nat
  BY FS_CardinalityType
<1>2. ASSUME NEW i \in I PROVE rank(i) \in 0 .. N - 1
  <2>1. Above(I, k, i) \subseteq I \ {i}
    BY DEF Above
  <2>2. IsFiniteSet(I \ {i}) /\ Cardinality(I \ {i}) = N - 1
    BY FS_RemoveElement
  <2> QED
    BY <1>1, <2>1, <2>2, FS_Subset, FS_CardinalityType
<1>3. ASSUME NEW i \in I, NEW j \in Above(I, k, i) PROVE rank(j) < rank(i)
  <2>1. Above(I, k, j) \subseteq Above(I, k, i) /\ j \notin Above(I, k, j)
        /\ Above(I, k, i) \subseteq I /\ j \in I
    <3>1. j \in I /\ (k[j] > k[i] \/ (k[j] = k[i] /\ j < i))
      BY DEF Above
    <3>2. \A m \in I : k[m] \in Int /\ m \in Nat
      OBVIOUS
    <3>3. ASSUME NEW m \in Above(I, k, j) PROVE m \in Above(I, k, i)
      BY <3>1, <3>2 DEF Above
    <3>4. j \notin Above(I, k, j)
      BY <3>1, <3>2 DEF Above
    <3>5. Above(I, k, i) \subseteq I
      BY DEF Above
    <3> QED
      BY <3>1, <3>3, <3>4, <3>5
  <2>2. IsFiniteSet(Above(I, k, i)) /\ IsFiniteSet(Above(I, k, j))
    BY <2>1, FS_Subset
  <2>3. rank(j) <= rank(i) /\ rank(j) # rank(i)
    BY <2>1, <2>2, FS_Subset
  <2> QED
    BY <1>2, <1>1, <2>1, <2>3
<1>4. ASSUME NEW i \in I, NEW j \in I, rank(i) = rank(j) PROVE i = j
  <2>1. j \notin Above(I, k, i) /\ i \notin Above(I, k, j)
    BY <1>2, <1>3, <1>4
  <2> QED
    BY <2>1 DEF Above
<1> HIDE DEF rank
<1>5. IsFiniteSet(R) /\ Cardinality(R) = N
  <2>1. f \in Injection(I, R) /\ f \in Surjection(I, R)
    BY <1>4 DEF Injection, IsInjective, Surjection
  <2> HIDE DEF f, R
  <2> QED
    BY <2>1, FS_Surjection
<1>6. R = 0 .. N - 1
  <2>1. R \subseteq 0 .. N - 1
    BY <1>2
  <2>2. IsFiniteSet(0 .. N - 1) /\ Cardinality(0 .. N - 1) = N
    BY <1>1, Interval
  <2> HIDE DEF R
  <2> QED
    BY <1>5, <2>1, <2>2, FS_Subset
<1> DEFINE T == {i \in I : rank(i) < n}
           g == [i \in T |-> rank(i)]
<1>7. g \in Injection(T, 0 .. n - 1) /\ g \in Surjection(T, 0 .. n - 1)
  <2>1. \A i \in T : rank(i) \in 0 .. n - 1
    BY <1>1, <1>2
  <2>2. \A m \in 0 .. n - 1 : \E i \in T : rank(i) = m
    <3> SUFFICES ASSUME NEW m \in 0 .. n - 1 PROVE \E i \in T : rank(i) = m
      OBVIOUS
    <3>1. m \in 0 .. N - 1 /\ m < n
      <4> HIDE DEF N
      <4>1. n \in 0 .. N
        BY DEF N
      <4> QED
        BY <1>1, <4>1
    <3>2. PICK i \in I : rank(i) = m
      BY <1>6, <3>1
    <3> QED
      BY <3>1, <3>2
  <2> QED
    BY <1>4, <2>1, <2>2 DEF Injection, IsInjective, Surjection
<1>8. IsFiniteSet(T)
  BY FS_Subset
<1>9. IsFiniteSet(0 .. n - 1) /\ Cardinality(0 .. n - 1) = n
  BY <1>1, Interval
<1>10. Cardinality(T) = n
  <2> HIDE DEF T, g
  <2> QED
    BY <1>7, <1>8, <1>9, FS_Surjection
<1> QED
  BY <1>8, <1>10 DEF Top, rank

(***************************************************************************)
(* The plans of a cache.                                                   *)
(***************************************************************************)
(* The scores and the weights of a sequence, and its rankings by them.     *)
ScoresOf(s) == [i \in Indices(s) |-> At(s, i)]
ByScore(s, I, n) == TopIndices(I, LAMBDA i : At(s, i), n)

WeightsOf(s) == [i \in Indices(s) |-> Weight(s, i)]
ByWeight(s, n) == TopIndices(Indices(s), LAMBDA i : Weight(s, i), n)

LEMMA ByScoreIs ==
    ASSUME NEW s, NEW I \in SUBSET Indices(s), NEW n
    PROVE  ByScore(s, I, n) = Top(I, ScoresOf(s), n)
<1> DEFINE k == ScoresOf(s)
           above(i) == {j \in I : At(s, j) > At(s, i) \/ (At(s, j) = At(s, i) /\ j < i)}
<1>1. ByScore(s, I, n) = {i \in I : Cardinality(above(i)) < n}
  BY Zenon DEF ByScore, TopIndices
<1>2. \A i \in I : k[i] = At(s, i)
  BY DEF ScoresOf
<1> HIDE DEF k
<1>3. \A i \in I : above(i) = Above(I, k, i)
  BY <1>2 DEF Above
<1> HIDE DEF above
<1> QED
  BY <1>1, <1>3 DEF Top, k

LEMMA ByWeightIs ==
    ASSUME NEW s, NEW n
    PROVE  ByWeight(s, n) = Top(Indices(s), WeightsOf(s), n)
<1> DEFINE k == WeightsOf(s)
           I == Indices(s)
           above(i) == {j \in I : Weight(s, j) > Weight(s, i)
                                  \/ (Weight(s, j) = Weight(s, i) /\ j < i)}
<1>1. ByWeight(s, n) = {i \in I : Cardinality(above(i)) < n}
  BY Zenon DEF ByWeight, TopIndices
<1>2. \A i \in I : k[i] = Weight(s, i)
  BY DEF WeightsOf
<1> HIDE DEF k, I
<1>3. \A i \in I : above(i) = Above(I, k, i)
  BY <1>2 DEF Above
<1> HIDE DEF above
<1> QED
  BY <1>1, <1>3 DEF Top, k, I

LEMMA IndicesAre ==
    ASSUME NEW S, NEW s \in Seq(S)
    PROVE  /\ Len(s) \in Nat /\ Indices(s) \in SUBSET Nat /\ IsFiniteSet(Indices(s))
           /\ Cardinality(Indices(s)) = Len(s)
<1>1. Len(s) \in Nat
  OBVIOUS
<1> QED
  BY <1>1, Interval DEF Indices

(* Whatever a pattern expands to are tokens of the cache. *)
LEMMA ExpandedIsIndices ==
    ASSUME NEW s, NEW c, NEW p \in Patterns
    PROVE  Expanded(s, p, c) \subseteq Indices(s)
<1>1. Anchors(s, c) \subseteq Indices(s) /\ Recent(s, c) \subseteq Indices(s)
      /\ \A b : Block(s, c, b) \subseteq Indices(s)
  BY DEF Anchors, Recent, Block
<1>2. Adaptive(s, c) \subseteq Indices(s)
  BY DEF Adaptive, TopIndices
<1>3. CASE p = "AShape"
  BY <1>1, <1>3 DEF Expanded
<1>4. CASE p = "VerticalSlash"
  BY <1>1, <1>4 DEF Expanded
<1>5. CASE p = "BlockSparse"
  BY <1>1, <1>5 DEF Expanded
<1>6. CASE p = "Hybrid"
  BY <1>1, <1>6 DEF Expanded
<1>7. CASE p = "AdaptiveMass"
  BY <1>2, <1>7 DEF Expanded
<1> QED
  BY <1>3, <1>4, <1>5, <1>6, <1>7 DEF Patterns

LEMMA CompareParts ==
    ASSUME NEW s, NEW p, NEW c
    PROVE  LET r == Comparison(s, p, c) IN
           /\ r.scores = s /\ r.pattern = p /\ r.config = c
           /\ r.selected = Selected(s, p, c)
           /\ r.full_top = ByScore(s, Indices(s), TopK(s, c))
           /\ r.sparse_top = ByScore(s, Selected(s, p, c), TopK(s, c))
           /\ s # <<>> => r.mass = <<WeightOf(s, Selected(s, p, c)), WeightOf(s, Indices(s))>>
  BY DEF Comparison, ByScore

LEMMA SelectedIs ==
    ASSUME NEW s, NEW p, NEW c
    PROVE  Selected(s, p, c) = ByScore(s, Expanded(s, p, c), c.max_tokens)
  BY Zenon DEF Selected, ByScore

(* What a comparison keeps of the full top k. *)
LEMMA ComparisonRecalls ==
    ASSUME NEW s \in Seq(Int), NEW p \in Patterns, NEW c \in Plans,
           c.max_tokens >= c.top_k,
           NEW i \in ByScore(s, Indices(s), TopK(s, c)), i \in Expanded(s, p, c)
    PROVE  i \in ByScore(s, Selected(s, p, c), TopK(s, c))
<1> DEFINE I == Indices(s)
           E == Expanded(s, p, c)
           k == ScoresOf(s)
           m == TopK(s, c)
           n == c.max_tokens
           X == Selected(s, p, c)
<1>1. IsFiniteSet(I) /\ Len(s) \in Nat /\ E \subseteq I
  BY IndicesAre, ExpandedIsIndices
<1>2. m \in Nat /\ n \in Nat /\ m <= n
  BY <1>1, KvAssumption DEF TopK, MinOf
<1>3. X = Top(E, k, n)
  BY <1>1, SelectedIs, ByScoreIs
<1>4. X \subseteq E
  BY <1>3 DEF Top
<1>5. i \in Top(I, k, m)
  BY ByScoreIs
<1> HIDE DEF I, E, k, m, n, X
<1>6. i \in E
  BY DEF E
<1>7. i \in X
  BY <1>1, <1>2, <1>3, <1>5, <1>6, TopOfLess
<1>8. X \in SUBSET I
  BY <1>1, <1>4
<1>9. i \in Top(X, k, m)
  BY <1>1, <1>2, <1>5, <1>7, <1>8, TopOfLess
<1>10. ByScore(s, X, m) = Top(X, k, m)
  BY <1>8, ByScoreIs DEF I, k
<1> QED
  BY <1>9, <1>10 DEF X, m

(* The tokens fit the configuration, and a comparison is one of scores     *)
(* that are finite, under a plan that did not fail.                        *)
Entry == [ck : Int \cup {None}, cv : Int \cup {None},
          ek : Int \cup {NaN, None}, ev : Int \cup {NaN, None}]

IsComparison(r) ==
    \E s \in Seq(Int), p \in Patterns, c \in Plans :
        ~PlanFails(s, p, c) /\ r = Comparison(s, p, c)

KvInv ==
    /\ tokens \in Seq(Entry)
    /\ config = <<>> => tokens = <<>>
    /\ config # <<>> /\ config.key # "Exact" => \A i \in DOMAIN tokens : tokens[i].ck \in Int
    /\ receipts # <<>> => receipts = <<receipts[1]>> /\ IsComparison(receipts[1])

LEMMA CompressTokenKeeps ==
    ASSUME KvInv, NEW pair \in TokenPairs, CompressToken(pair)
    PROVE  KvInv'
<1> DEFINE e == [ck |-> Compressed(config.key, pair[1]),
                 cv |-> Compressed(config.value, pair[2]),
                 ek |-> Shadow(config, pair[1]), ev |-> Shadow(config, pair[2])]
<1>1. config # <<>> /\ config' = config /\ receipts' = receipts
      /\ tokens' = IF Error \in {e.ck, e.cv} THEN tokens ELSE Append(tokens, e)
  BY DEF CompressToken, Tokens
<1>2. pair[1] \in Int \cup {NaN} /\ pair[2] \in Int \cup {NaN}
  BY KvAssumption
<1>3. ASSUME NEW x \in Int \cup {NaN}
      PROVE  /\ Coarse(x) \in Int \cup {Error}
             /\ \A policy : /\ Compressed(policy, x) \in Int \cup {None, Error}
                            /\ policy # "Exact" => Compressed(policy, x) \in Int \cup {Error}
             /\ Shadow(config, x) \in Int \cup {NaN, None}
  BY DEF Coarse, Compressed, Shadow
<1>4. CASE Error \in {e.ck, e.cv}
  BY <1>1, <1>4 DEF KvInv
<1>5. CASE Error \notin {e.ck, e.cv}
  <2>1. e \in Entry
    BY <1>2, <1>3, <1>5 DEF Entry
  <2>2. config.key # "Exact" => e.ck \in Int
    BY <1>2, <1>3, <1>5
  <2> HIDE DEF e
  <2>3. tokens' = Append(tokens, e) /\ tokens \in Seq(Entry)
    BY <1>1, <1>5 DEF KvInv
  <2>4. tokens' \in Seq(Entry) /\ DOMAIN tokens' = 1 .. Len(tokens) + 1
        /\ DOMAIN tokens = 1 .. Len(tokens)
        /\ tokens'[Len(tokens) + 1] = e
        /\ \A i \in DOMAIN tokens : tokens'[i] = tokens[i]
    BY <2>1, <2>3, AppendProperties
  <2>5. ASSUME NEW i \in DOMAIN tokens', config.key # "Exact" PROVE tokens'[i].ck \in Int
    <3>1. i \in DOMAIN tokens \/ i = Len(tokens) + 1
      BY <2>3, <2>4
    <3> QED
      BY <1>1, <2>2, <2>4, <2>5, <3>1 DEF KvInv
  <2> QED
    BY <1>1, <2>4, <2>5 DEF KvInv
<1> QED
  BY <1>4, <1>5

(* The scores that are compared are numbers. *)
LEMMA ComparedAreScores ==
    ASSUME KvInv, config # <<>>, NEW s \in {ExactScores, AttentionScores} \ {Error},
           NaN \notin Range(s)
    PROVE  s \in Seq(Int)
<1>1. tokens \in Seq(Entry) /\ Len(tokens) \in Nat /\ DOMAIN tokens = 1 .. Len(tokens)
  BY DEF KvInv
<1>2. \A i \in DOMAIN tokens : tokens[i] \in Entry
  BY <1>1
<1>3. CASE s = ExactScores
  <2>1. /\ \A i \in DOMAIN tokens : tokens[i].ek # None
        /\ s = [i \in DOMAIN tokens |-> tokens[i].ek]
    BY <1>3 DEF ExactScores
  <2>2. \A i \in DOMAIN tokens : s[i] \in Int
    BY <1>2, <2>1 DEF Entry, Range
  <2> QED
    BY <1>1, <2>1, <2>2
<1>4. CASE s = AttentionScores /\ config.key # "Exact"
  <2>1. s = [i \in DOMAIN tokens |-> tokens[i].ck]
    BY <1>4 DEF AttentionScores
  <2>2. \A i \in DOMAIN tokens : s[i] \in Int
    BY <1>4, <2>1 DEF KvInv
  <2> QED
    BY <1>1, <2>1, <2>2
<1> QED
  BY <1>3, <1>4 DEF AttentionScores

LEMMA KvNextKeeps == KvInv /\ [KvNext]_kvVars => KvInv'
<1> SUFFICES ASSUME KvInv, [KvNext]_kvVars PROVE KvInv'
  OBVIOUS
<1>1. ASSUME NEW c \in Policies, NewRuntime(c) PROVE KvInv'
  BY <1>1 DEF NewRuntime, KvInv
<1>2. ASSUME NEW pair \in TokenPairs, CompressToken(pair) PROVE KvInv'
  BY <1>2, CompressTokenKeeps
<1>3. ASSUME NEW s \in {ExactScores, AttentionScores}, NEW p \in Patterns,
             NEW c \in Plans, Compare(s, p, c)
      PROVE  KvInv'
  <2>1. /\ config # <<>> /\ s \in {ExactScores, AttentionScores} \ {Error}
        /\ ~PlanFails(s, p, c) /\ NaN \notin Range(s)
        /\ receipts' = <<Comparison(s, p, c)>> /\ UNCHANGED <<config, tokens>>
    BY <1>3 DEF Compare, PlanFails
  <2>2. s \in Seq(Int)
    BY <2>1, ComparedAreScores
  <2> DEFINE r == Comparison(s, p, c)
  <2>3. IsComparison(r)
    BY <2>1, <2>2 DEF IsComparison
  <2> HIDE DEF r
  <2>4. receipts' = <<r>>
    BY <2>1 DEF r
  <2> QED
    BY <2>1, <2>3, <2>4 DEF KvInv
<1>4. CASE DropCache
  BY <1>4 DEF DropCache, KvInv
<1>5. CASE UNCHANGED kvVars
  BY <1>5 DEF kvVars, KvInv
<1> QED
  BY <1>1, <1>2, <1>3, <1>4, <1>5 DEF KvNext

(* The cache and the comparison kept of it are well formed, whatever was   *)
(* compressed and planned (KvHead::compress_token, simulate_sparse_prefill).*)
THEOREM PlansAreSound == KvSpec => []KvInv
<1>1. KvInit => KvInv
  BY DEF KvInit, KvInv
<1> QED
  BY <1>1, KvNextKeeps, PTL DEF KvSpec

LEMMA ReceiptIsComparison ==
    ASSUME KvInv, NEW n \in DOMAIN receipts
    PROVE  IsComparison(receipts[n])
<1>1. receipts # <<>>
  OBVIOUS
<1>2. receipts = <<receipts[1]>> /\ IsComparison(receipts[1])
  BY <1>1 DEF KvInv
<1>3. n = 1
  BY <1>2
<1> QED
  BY <1>2, <1>3

(* Capping a plan costs no recall while the cap leaves room for the top k, *)
(* for every pattern, score and plan (build_sparse_prefill_plan,           *)
(* cap_selected_by_score, top_indices).                                    *)
THEOREM CappingKeepsTheTop == KvSpec => []CapCostsNoRecall
<1>1. KvInv => CapCostsNoRecall
  <2> SUFFICES ASSUME KvInv, NEW n \in DOMAIN receipts,
                      receipts[n].config.max_tokens >= receipts[n].config.top_k,
                      NEW i \in receipts[n].full_top
                                  \intersect Expanded(receipts[n].scores,
                                                      receipts[n].pattern,
                                                      receipts[n].config)
               PROVE  i \in receipts[n].sparse_top
    BY DEF CapCostsNoRecall
  <2>1. PICK s \in Seq(Int), p \in Patterns, c \in Plans :
          receipts[n] = Comparison(s, p, c)
    BY ReceiptIsComparison DEF IsComparison
  <2> DEFINE r == receipts[n]
  <2>2. /\ r.scores = s /\ r.pattern = p /\ r.config = c
        /\ r.full_top = ByScore(s, Indices(s), TopK(s, c))
        /\ r.sparse_top = ByScore(s, Selected(s, p, c), TopK(s, c))
    BY <2>1, CompareParts
  <2>3. c.max_tokens >= c.top_k /\ i \in ByScore(s, Indices(s), TopK(s, c))
        /\ i \in Expanded(s, p, c)
    BY <2>2
  <2> QED
    BY <2>2, <2>3, ComparisonRecalls
<1> QED
  BY <1>1, PlansAreSound, PTL

(* Weights are numbers, so that the ranking by weight is total.            *)
LEMMA WeightType ==
    ASSUME NEW s \in Seq(Int), s # <<>>
    PROVE  WeightsOf(s) \in [Indices(s) -> Int]
<1> SUFFICES ASSUME NEW i \in Indices(s) PROVE Weight(s, i) \in Int
  BY DEF WeightsOf
<1>1. i + 1 \in DOMAIN s /\ s[i + 1] \in Int /\ s[i + 1] \in Range(s)
  BY DEF Indices, Range
<1>2. Best(s) \in Int /\ Best(s) >= At(s, i) /\ At(s, i) \in Int
  BY <1>1, RangeMaxMin DEF Best, At
<1> DEFINE d == Best(s) - At(s, i)
<1>3. d \in Nat
  BY <1>2
<1> HIDE DEF d
<1>4. d <= Underflow => Underflow - d \in Nat /\ 2 ^ (Underflow - d) \in Int
  <2> DEFINE e == Underflow - d
  <2> SUFFICES ASSUME d <= Underflow PROVE e \in Nat /\ 2 ^ e \in Int
    OBVIOUS
  <2>1. e \in Nat
    BY <1>3, KvAssumption
  <2> HIDE DEF e
  <2> QED
    BY <2>1
<1>5. Weight(s, i) = IF d > Underflow THEN 0 ELSE 2 ^ (Underflow - d)
  BY DEF Weight, d
<1> QED
  BY <1>3, <1>4, <1>5, KvAssumption

LEMMA TokenCapType ==
    ASSUME NEW s \in Seq(Int), s # <<>>, NEW c \in Plans, c.max_tokens # 0
    PROVE  TokenCap(s, c) \in Nat /\ 1 <= TokenCap(s, c)
           /\ TokenCap(s, c) <= Len(s) /\ TokenCap(s, c) <= c.max_tokens
<1> DEFINE n == Len(s)
           a == c.saved[1]
           b == c.saved[2]
           left == (n * (b - a)) \div b
<1>1. n \in Nat /\ n >= 1 /\ a \in Nat /\ b \in Nat \ {0} /\ a <= b /\ c.max_tokens \in Nat
  BY KvAssumption
<1>2. TokenCap(s, c) = IF MinOf(c.max_tokens, left) < 1 THEN 1 ELSE MinOf(c.max_tokens, left)
  BY DEF TokenCap
<1> HIDE DEF n, a, b
<1>3. n * (b - a) \in Nat /\ n * (b - a) <= n * b
  BY <1>1
<1>4. left \in Nat /\ left <= n
  <2> DEFINE m == n * (b - a)
  <2> HIDE DEF m
  <2>1. m \in Nat /\ m <= n * b
    BY <1>3 DEF m
  <2>2. m \div b \in Nat /\ m % b \in 0 .. b - 1 /\ m = (m \div b) * b + (m % b)
    BY <1>1, <2>1, DivMod
  <2>3. m \div b <= n
    <3> DEFINE q == m \div b
    <3> HIDE DEF q
    <3> SUFFICES ASSUME n < q PROVE FALSE
      BY <1>1, <2>2 DEF q
    <3>1. q \in Nat /\ q * b <= n * b
      BY <1>1, <2>1, <2>2 DEF q
    <3>2. n * b + b <= q * b
      BY <1>1, <3>1, MulLess
    <3> QED
      BY <1>1, <3>1, <3>2
  <2> QED
    BY <2>2, <2>3 DEF m
<1> HIDE DEF left
<1> QED
  BY <1>1, <1>2, <1>4 DEF MinOf, n

(* Where the selection stops: at the target or the cap, or at the end.     *)
Stops(s, c, n) ==
    LET least == IF c.include_top_k THEN TopK(s, c) ELSE 0
    IN  n >= least /\ (Reached(s, c, ByWeight(s, n)) \/ n >= TokenCap(s, c))

LEMMA AdaptiveStops ==
    ASSUME NEW s \in Seq(Int), s # <<>>, NEW c \in Plans, c.max_tokens # 0,
           ~AdaptiveRefuses(s, c)
    PROVE  \E n \in 0 .. TokenCap(s, c) :
               /\ Adaptive(s, c) = ByWeight(s, n)
               /\ Reached(s, c, ByWeight(s, n)) \/ n = TokenCap(s, c)
<1> DEFINE cap == TokenCap(s, c)
           L == Len(s)
           least == IF c.include_top_k THEN TopK(s, c) ELSE 0
           P(n) == /\ Stops(s, c, n) \/ n = L
                   /\ \A m \in least .. n - 1 : ~Stops(s, c, m)
           stop == CHOOSE n \in least .. L : P(n)
<1>1. Adaptive(s, c) = ByWeight(s, stop)
  BY Zenon DEF Adaptive, Stops, ByWeight
<1>2. L \in Nat /\ cap \in Nat /\ 1 <= cap /\ cap <= L
  BY TokenCapType
<1>3. least \in Nat /\ least <= cap
  <2>1. TopK(s, c) \in Nat
    BY <1>2, KvAssumption DEF TopK, MinOf
  <2> HIDE DEF cap
  <2>2. c.include_top_k => ~(TopK(s, c) > cap)
    BY DEF AdaptiveRefuses, cap
  <2> QED
    BY <1>2, <2>1, <2>2
<1>4. \A n \in Nat : Stops(s, c, n) <=> n >= least /\ (Reached(s, c, ByWeight(s, n)) \/ n >= cap)
  BY DEF Stops
<1> HIDE DEF cap, L, least
<1>5. \E n \in least .. L : P(n)
  <2> DEFINE T == {n \in least .. L : Stops(s, c, n)}
  <2>1. cap \in T
    BY <1>2, <1>3, <1>4
  <2>2. T \in SUBSET Nat
    BY <1>2, <1>3
  <2>3. PICK n \in T : \A m \in T : n <= m
    BY <2>1, <2>2, LeastMember
  <2>4. \A m \in least .. n - 1 : m \notin T /\ m \in least .. L
    BY <1>2, <1>3, <2>3
  <2> QED
    BY <2>3, <2>4
<1>6. stop \in least .. L /\ P(stop)
  BY <1>5
<1> HIDE DEF stop
<1>7. stop <= cap
  <2> SUFFICES ASSUME cap < stop PROVE FALSE
    BY <1>2, <1>3, <1>6
  <2>1. cap \in least .. stop - 1
    BY <1>2, <1>3, <1>6
  <2>2. ~Stops(s, c, cap)
    <3>1. \A m \in least .. stop - 1 : ~Stops(s, c, m)
      BY <1>6
    <3> QED
      BY <2>1, <3>1
  <2>3. Stops(s, c, cap)
    BY <1>2, <1>3, <1>4
  <2> QED
    BY <2>2, <2>3
<1>8. stop \in Nat
  BY <1>2, <1>3, <1>6
<1>9. Reached(s, c, ByWeight(s, stop)) \/ stop = cap
  BY <1>2, <1>4, <1>6, <1>7, <1>8
<1> QED
  BY <1>1, <1>2, <1>7, <1>8, <1>9 DEF cap

LEMMA AdaptiveBudget ==
    ASSUME NEW s \in Seq(Int), s # <<>>, NEW c \in Plans, c.max_tokens # 0,
           ~AdaptiveRefuses(s, c)
    PROVE  LET X == Selected(s, "AdaptiveMass", c) IN
           /\ Cardinality(X) <= TokenCap(s, c)
           /\ Reached(s, c, X) \/ Cardinality(X) = TokenCap(s, c)
<1> DEFINE I == Indices(s)
           w == WeightsOf(s)
           k == ScoresOf(s)
           cap == TokenCap(s, c)
           E == Expanded(s, "AdaptiveMass", c)
           X == Selected(s, "AdaptiveMass", c)
<1>1. I \in SUBSET Nat /\ IsFiniteSet(I) /\ Cardinality(I) = Len(s)
  BY IndicesAre
<1>2. w \in [I -> Int]
  BY WeightType
<1>3. k \in [I -> Int]
  BY DEF ScoresOf, Indices, At
<1>4. cap \in Nat /\ cap <= Len(s) /\ cap <= c.max_tokens /\ c.max_tokens \in Nat
      /\ Len(s) \in Nat
  BY TokenCapType, KvAssumption
<1>5. E = Adaptive(s, c)
  BY DEF Expanded
<1>6. PICK n \in 0 .. cap : /\ E = ByWeight(s, n)
                            /\ Reached(s, c, E) \/ n = cap
  BY <1>5, AdaptiveStops
<1>7. E = Top(I, w, n)
  BY <1>6, ByWeightIs
<1> HIDE DEF I, w, k, cap, E, X
<1>8. IsFiniteSet(E) /\ Cardinality(E) = n /\ E \subseteq I
  <2>1. n \in 0 .. Cardinality(I)
    BY <1>1, <1>4
  <2> QED
    BY <1>1, <1>2, <1>7, <2>1, TopCounts DEF Top
<1>9. X = Top(E, k, c.max_tokens)
  BY <1>8, SelectedIs, ByScoreIs DEF E, X, I, k
<1>10. X = E
  <2>1. \A i \in E : Above(E, k, i) \subseteq E \ {i}
    <3> SUFFICES ASSUME NEW i \in E PROVE i \notin Above(E, k, i)
      BY DEF Above
    <3>1. k[i] \in Int /\ i \in Nat
      BY <1>1, <1>3, <1>8
    <3> QED
      BY <3>1 DEF Above
  <2>2. ASSUME NEW i \in E PROVE Cardinality(Above(E, k, i)) < c.max_tokens
    <3>1. IsFiniteSet(E \ {i}) /\ Cardinality(E \ {i}) = n - 1
      BY <1>8, <2>2, FS_RemoveElement
    <3>2. IsFiniteSet(Above(E, k, i)) /\ Cardinality(Above(E, k, i)) <= n - 1
      BY <2>1, <3>1, FS_Subset
    <3> QED
      BY <1>4, <3>2, FS_CardinalityType
  <2> QED
    BY <1>9, <2>2 DEF Top
<1> QED
  BY <1>4, <1>6, <1>8, <1>10 DEF X, cap

(* An adaptive plan keeps the savings it was asked for, the top k within   *)
(* them, and stops short of the target mass only at its cap                *)
(* (adaptive_mass_selection, adaptive_mass_token_cap).                     *)
THEOREM BudgetIsKept == KvSpec => []AdaptiveKeepsItsBudget
<1>1. KvInv => AdaptiveKeepsItsBudget
  <2> SUFFICES ASSUME KvInv, NEW n \in DOMAIN receipts,
                      receipts[n].pattern = "AdaptiveMass", receipts[n].scores # <<>>
               PROVE  LET r == receipts[n]  cap == TokenCap(r.scores, r.config) IN
                      /\ Cardinality(r.selected) <= cap
                      /\ AtLeast(r.mass, r.config.target) \/ Cardinality(r.selected) = cap
    BY DEF AdaptiveKeepsItsBudget
  <2>1. PICK s \in Seq(Int), p \in Patterns, c \in Plans :
          ~PlanFails(s, p, c) /\ receipts[n] = Comparison(s, p, c)
    BY ReceiptIsComparison DEF IsComparison
  <2> DEFINE r == receipts[n]
             X == Selected(s, p, c)
  <2>2. /\ r.scores = s /\ r.pattern = p /\ r.config = c /\ r.selected = X
        /\ s # <<>> => r.mass = <<WeightOf(s, X), WeightOf(s, Indices(s))>>
    BY <2>1, CompareParts
  <2>3. p = "AdaptiveMass" /\ s # <<>> /\ c.max_tokens # 0 /\ ~AdaptiveRefuses(s, c)
    BY <2>1, <2>2 DEF PlanFails
  <2>4. /\ Cardinality(X) <= TokenCap(s, c)
        /\ Reached(s, c, X) \/ Cardinality(X) = TokenCap(s, c)
    BY <2>3, AdaptiveBudget
  <2>5. Reached(s, c, X) => AtLeast(r.mass, c.target)
    BY <2>2, <2>3 DEF Reached, AtLeast
  <2> HIDE DEF r, X
  <2> QED
    BY <2>2, <2>4, <2>5 DEF r
<1> QED
  BY <1>1, PlansAreSound, PTL

(***************************************************************************)
(* The codecs for radii.                                                   *)
(***************************************************************************)
(* How far off a level is of what it stands for, in parts of the range. *)
LevelError(x, lo, hi, span, n) == (hi - lo) * Quantized(x, lo, span, n) - n * (x - lo)

(* Whatever span the levels divide that is no narrower than the range:     *)
(* none stands for more than half a level too much or for anything outside *)
(* the range, and the least is level 0.  If they divide the range itself,  *)
(* none stands for more than half a level too little either, and the       *)
(* greatest is the last level.                                             *)
LEMMA QuantizedIsNear ==
    ASSUME NEW lo \in Int, NEW hi \in Int, lo <= hi, NEW x \in lo .. hi,
           NEW n \in Nat \ {0}, NEW span \in Nat \ {0}, hi - lo <= span
    PROVE  LET off == LevelError(x, lo, hi, span, n)
           IN  /\ Quantized(x, lo, span, n) \in 0 .. n
               /\ 2 * off <= hi - lo
               /\ x = lo => off = 0
               /\ span = hi - lo => /\ -2 * off <= hi - lo
                                    /\ x = hi => off = 0
<1> DEFINE w == hi - lo
           a == x - lo
           P == n * a
           N == 2 * P + span
           D == 2 * span
           q == N \div D
           r == N % D
<1>1. w \in Nat /\ a \in 0 .. w /\ a \in Nat /\ w <= span
  OBVIOUS
<1>2. Quantized(x, lo, span, n) = q
  <2>1. 2 * (x - lo) * n + span = 2 * (n * (x - lo)) + span
    OBVIOUS
  <2> QED
    BY <2>1 DEF Quantized
<1>3. LevelError(x, lo, hi, span, n) = w * q - P
  BY <1>2 DEF LevelError
<1>4. x = lo <=> a = 0
  OBVIOUS
<1>5. x = hi <=> a = w
  OBVIOUS
<1> HIDE DEF w, a
<1>6. P \in Nat /\ P <= n * span /\ n * span \in Nat
  BY <1>1, MulMonotone
<1> HIDE DEF P
<1>7. N \in Nat /\ D \in Nat \ {0} /\ span \in 0 .. D - 1
  BY <1>6
<1>8. q \in Nat /\ r \in 0 .. D - 1 /\ N = q * D + r
  <2> HIDE DEF N, D
  <2> QED
    BY <1>7, DivMod
<1>9. q <= n
  <2>1. n * D + span \in Nat /\ N <= n * D + span
    BY <1>6, <1>7
  <2> HIDE DEF N, D
  <2>2. (n * D + span) \div D = n
    BY <1>7, DivModUnique
  <2> QED
    BY <1>7, <2>1, <2>2, DivMonotone
<1>10. 2 * (span * q) <= 2 * P + span /\ 2 * P + span = 2 * (span * q) + r
       /\ span * q \in Nat /\ r \in 0 .. 2 * span - 1
  <2>1. q * D = 2 * (span * q) /\ span * q \in Nat
    <3> HIDE DEF q
    <3> QED
      BY <1>8
  <2> HIDE DEF q, r
  <2> QED
    BY <1>8, <2>1
<1> HIDE DEF q, r
<1>11. w * q \in Nat /\ 2 * (w * q) <= 2 * P + w
  <2>1. CASE q = 0
    BY <1>1, <1>6, <2>1
  <2>2. CASE q # 0
    <3> DEFINE k == 2 * q - 1
    <3>1. k \in Nat
      BY <1>8, <2>2
    <3>2. k * w <= k * span
      <4> HIDE DEF k
      <4> QED
        BY <1>1, <3>1, MulMonotone
    <3>3. k * w = 2 * (w * q) - w /\ k * span = 2 * (span * q) - span /\ w * q \in Nat
      BY <1>1, <1>8
    <3> HIDE DEF k
    <3> QED
      BY <1>1, <1>6, <1>10, <3>2, <3>3
  <2> QED
    BY <2>1, <2>2
<1>12. a = 0 => w * q - P = 0
  <2> SUFFICES ASSUME a = 0 PROVE w * q - P = 0
    OBVIOUS
  <2>1. P = 0
    BY DEF P
  <2>2. 2 * (span * q) <= span
    BY <1>10, <2>1
  <2>3. q = 0
    <3> SUFFICES ASSUME q # 0 PROVE FALSE
      OBVIOUS
    <3>1. span * 1 <= span * q
      BY <1>8, MulMonotone
    <3> QED
      BY <1>10, <2>2, <3>1
  <2> QED
    BY <1>1, <2>1, <2>3
<1>13. span = w => -2 * (w * q - P) <= w
  <2> SUFFICES ASSUME span = w PROVE -2 * (w * q - P) <= w
    OBVIOUS
  <2>1. span * q = w * q
    OBVIOUS
  <2> QED
    BY <1>6, <1>10, <1>11, <2>1
<1>14. span = w /\ a = w => w * q - P = 0
  <2> SUFFICES ASSUME span = w, a = w PROVE w * q - P = 0
    OBVIOUS
  <2>1. P = w * n
    BY <1>1 DEF P
  <2>2. N = n * D + span
    BY <1>1, <2>1
  <2>3. q = n
    <3> HIDE DEF N, D
    <3> QED
      BY <1>7, <2>2, DivModUnique DEF q
  <2> QED
    BY <1>1, <2>1, <2>3
<1>15. 2 * (w * q - P) <= w
  BY <1>1, <1>6, <1>11
<1>16. q \in 0 .. n
  BY <1>8, <1>9
<1> DEFINE e == w * q - P
<1>17. LevelError(x, lo, hi, span, n) = e
  BY <1>3
<1>18. hi - lo = w
  BY DEF w
<1> HIDE DEF e
<1> QED
  BY <1>2, <1>4, <1>5, <1>12, <1>13, <1>14, <1>15, <1>16, <1>17, <1>18 DEF e

LEMMA QuantizedMonotone ==
    ASSUME NEW lo \in Int, NEW x \in Int, lo <= x, NEW y \in Int, x <= y,
           NEW n \in Nat \ {0}, NEW span \in Nat \ {0}
    PROVE  Quantized(x, lo, span, n) <= Quantized(y, lo, span, n)
<1> DEFINE N(z) == 2 * (z - lo) * n + span
           D == 2 * span
<1>1. D \in Nat \ {0}
  OBVIOUS
<1>2. n * (x - lo) <= n * (y - lo) /\ n * (x - lo) \in Nat /\ n * (y - lo) \in Nat
  <2>1. x - lo \in Nat /\ y - lo \in Nat /\ x - lo <= y - lo
    OBVIOUS
  <2> QED
    BY <2>1, MulMonotone
<1>3. N(x) = 2 * (n * (x - lo)) + span /\ N(y) = 2 * (n * (y - lo)) + span
  OBVIOUS
<1>4. N(x) \in Nat /\ N(y) \in Nat /\ N(x) <= N(y)
  <2> DEFINE p == n * (x - lo)
             q == n * (y - lo)
  <2>1. p <= q /\ p \in Nat /\ q \in Nat /\ N(x) = 2 * p + span /\ N(y) = 2 * q + span
    BY <1>2, <1>3
  <2> HIDE DEF p, q, N
  <2> QED
    BY <2>1
<1>5. Quantized(x, lo, span, n) = N(x) \div D /\ Quantized(y, lo, span, n) = N(y) \div D
  BY DEF Quantized
<1> HIDE DEF N, D
<1> QED
  BY <1>1, <1>4, <1>5, DivMonotone

(* A block is what it was made of, or spoiled: then it lost a value, or    *)
(* its first radius, or its range.                                         *)
Code == [profile : Profiles, count : Nat, min : Int, max : Int,
         payload : Seq(Int \cup {NotARadius})]

Spoiled(c) ==
    /\ c \in Code /\ Len(c.payload) <= c.count
    /\ \/ Len(c.payload) < c.count
       \/ c.profile = "F32" /\ c.payload # <<>> /\ c.payload[1] = NotARadius
       \/ c.profile # "F32" /\ c.min > c.max

Made(b, r, p) ==
    /\ ValidRadii(r) /\ b.of = Scale(r, p)
    /\ \/ b.whole = TRUE /\ b.code = CompressedBlock(r, p)
       \/ b.whole = FALSE /\ Spoiled(b.code)

IsMade(b) == \E r \in Radii, p \in Profiles : Made(b, r, p)

RadiusInv == block # <<>> => block = <<block[1]>> /\ IsMade(block[1])

LEMMA ScaleType ==
    ASSUME NEW r \in Radii, ValidRadii(r), NEW p
    PROVE  /\ Scale(r, p) \in Seq(Int) /\ Len(Scale(r, p)) = Len(r)
           /\ Len(r) \in Nat /\ DOMAIN Scale(r, p) = 1 .. Len(r)
<1>1. r \in Seq(Int \cup {Zero, NotARadius})
  BY RadiusAssumption
<1>2. Len(r) \in Nat /\ DOMAIN r = 1 .. Len(r)
  BY <1>1
<1>3. \A i \in DOMAIN r : r[i] \in Int \cup {Zero}
  BY <1>1 DEF ValidRadii, Range
<1>4. Scale(r, p) \in [1 .. Len(r) -> Int]
  BY <1>2, <1>3, RadiusAssumption DEF Scale
<1> QED
  BY <1>2, <1>4, FunctionIsSeq

LEMMA ExtremesAre ==
    ASSUME NEW v \in Seq(Int)
    PROVE  /\ Extremes(v)[1] \in Int /\ Extremes(v)[2] \in Int
           /\ Extremes(v)[1] <= Extremes(v)[2]
           /\ v # <<>> => /\ Extremes(v) = <<Min(Range(v)), Max(Range(v))>>
                          /\ \A i \in DOMAIN v : v[i] \in Extremes(v)[1] .. Extremes(v)[2]
<1>1. CASE v = <<>>
  BY <1>1 DEF Extremes
<1>2. CASE v # <<>>
  <2> DEFINE lo == Min(Range(v))
             hi == Max(Range(v))
  <2>1. lo \in Int /\ hi \in Int /\ lo <= hi /\ \A y \in Range(v) : lo <= y /\ y <= hi /\ y \in Int
    BY <1>2, RangeMaxMin
  <2>2. Extremes(v) = <<lo, hi>>
    BY <1>2 DEF Extremes
  <2>3. \A i \in DOMAIN v : v[i] \in Range(v)
    BY DEF Range
  <2> HIDE DEF lo, hi
  <2>4. Extremes(v)[1] = lo /\ Extremes(v)[2] = hi
    BY <2>2
  <2>5. \A i \in DOMAIN v : v[i] \in lo .. hi
    BY <2>1, <2>3
  <2> QED
    BY <2>1, <2>2, <2>4, <2>5 DEF lo, hi
<1> QED
  BY <1>1, <1>2

LEMMA SpanIs ==
    ASSUME NEW v \in Seq(Int), NEW p \in Profiles
    PROVE  /\ Span(Extremes(v), p) \in Nat \ {0}
           /\ Extremes(v)[2] - Extremes(v)[1] <= Span(Extremes(v), p)
           /\ Extremes(v)[2] - Extremes(v)[1] >= Epsilon[p]
                => Span(Extremes(v), p) = Extremes(v)[2] - Extremes(v)[1]
<1> DEFINE lo == Extremes(v)[1]
           hi == Extremes(v)[2]
<1>1. lo \in Int /\ hi \in Int /\ lo <= hi
  BY ExtremesAre
<1>2. Epsilon[p] \in Nat \ {0}
  BY RadiusAssumption
<1>3. Span(Extremes(v), p) = IF hi - lo > Epsilon[p] THEN hi - lo ELSE Epsilon[p]
  BY DEF Span
<1> DEFINE span == Span(Extremes(v), p)
           eps == Epsilon[p]
<1>4. span = IF hi - lo > eps THEN hi - lo ELSE eps
  BY <1>3
<1>5. eps \in Nat \ {0}
  BY <1>2
<1> HIDE DEF lo, hi, span, eps
<1>6. CASE hi - lo > eps
  <2>1. span = hi - lo
    BY <1>4, <1>6
  <2>2. hi - lo \in Nat \ {0}
    BY <1>1, <1>5, <1>6
  <2> QED
    BY <1>1, <2>1, <2>2 DEF lo, hi, span, eps
<1>7. CASE ~(hi - lo > eps)
  <2>1. span = eps
    BY <1>4, <1>7
  <2>2. hi - lo <= eps /\ (hi - lo >= eps => eps = hi - lo)
    BY <1>1, <1>5, <1>7
  <2> QED
    BY <1>5, <2>1, <2>2 DEF lo, hi, span, eps
<1> QED
  BY <1>6, <1>7

(* The levels of a block. *)
LevelOf(v, p, i) == Quantized(v[i], Extremes(v)[1], Span(Extremes(v), p), Levels[p])

LEMMA LevelType ==
    ASSUME NEW v \in Seq(Int), NEW p \in Profiles, NEW i \in DOMAIN v
    PROVE  LevelOf(v, p, i) \in Nat
<1> DEFINE lo == Extremes(v)[1]
           hi == Extremes(v)[2]
           span == Span(Extremes(v), p)
<1>1. lo \in Int /\ hi \in Int /\ lo <= hi /\ v[i] \in lo .. hi
  <2>1. v # <<>>
    OBVIOUS
  <2> QED
    BY <2>1, ExtremesAre
<1>2. span \in Nat \ {0} /\ hi - lo <= span
  BY SpanIs
<1>3. Levels[p] \in Nat \ {0}
  BY RadiusAssumption
<1>4. LevelOf(v, p, i) = Quantized(v[i], lo, span, Levels[p])
  BY DEF LevelOf
<1> HIDE DEF lo, hi, span
<1>5. Quantized(v[i], lo, span, Levels[p]) \in 0 .. Levels[p]
  BY <1>1, <1>2, <1>3, QuantizedIsNear
<1> QED
  BY <1>3, <1>4, <1>5

LEMMA CompressedIs ==
    ASSUME NEW r \in Radii, ValidRadii(r), NEW p \in Profiles
    PROVE  LET b == CompressedBlock(r, p)  v == Scale(r, p) IN
           /\ b \in Code /\ b.profile = p /\ b.count = Len(r)
           /\ Len(b.payload) = Len(r) /\ DOMAIN b.payload = DOMAIN v
           /\ p = "F32" => b.payload = v
           /\ p # "F32" => /\ b.min = Extremes(v)[1] /\ b.max = Extremes(v)[2]
                           /\ \A i \in DOMAIN v : b.payload[i] = LevelOf(v, p, i)
<1> DEFINE v == Scale(r, p)
           f == [i \in DOMAIN v |-> LevelOf(v, p, i)]
           b == CompressedBlock(r, p)
           lim == Extremes(v)
<1>1. v \in Seq(Int) /\ Len(v) = Len(r) /\ Len(r) \in Nat /\ DOMAIN v = 1 .. Len(r)
  BY ScaleType
<1>3. lim[1] \in Int /\ lim[2] \in Int
  BY <1>1, ExtremesAre
<1>4. b = [profile |-> p, count |-> Len(r),
           min |-> IF p = "F32" THEN 0 ELSE lim[1],
           max |-> IF p = "F32" THEN 0 ELSE lim[2],
           payload |-> IF p = "F32" THEN v ELSE f]
  BY Zenon DEF CompressedBlock, LevelOf
<1> HIDE DEF v, lim
<1>5. f \in [1 .. Len(r) -> Nat] /\ \A i \in DOMAIN v : f[i] = LevelOf(v, p, i)
  BY <1>1, LevelType
<1> HIDE DEF f
<1>6. f \in Seq(Nat) /\ Len(f) = Len(r)
  BY <1>1, <1>5, FunctionIsSeq
<1>7. \A q \in Seq(Nat) \cup Seq(Int) : q \in Seq(Int \cup {NotARadius})
  OBVIOUS
<1>8. b.payload \in Seq(Int \cup {NotARadius})
  BY <1>1, <1>4, <1>6, <1>7
<1> QED
  BY <1>1, <1>3, <1>4, <1>5, <1>6, <1>8 DEF Code, lim, v

LEMMA CompressKeeps ==
    ASSUME NEW r \in Radii, NEW p \in Profiles, Compress(r, p)
    PROVE  RadiusInv'
<1> DEFINE b == [of |-> Scale(r, p), code |-> CompressedBlock(r, p), whole |-> TRUE]
<1>1. ValidRadii(r) /\ block' = <<b>>
  BY DEF Compress
<1>2. Made(b, r, p)
  BY <1>1 DEF Made
<1> HIDE DEF b
<1>3. IsMade(b)
  BY <1>2 DEF IsMade
<1> QED
  BY <1>1, <1>3 DEF RadiusInv

(* Spoiling it again does not mend a block. *)
LEMMA SpoilBlockKeeps ==
    ASSUME RadiusInv, SpoilBlock
    PROVE  RadiusInv'
<1> DEFINE b == block[1]
           c == b.code
<1>1. PICK r \in Radii, p \in Profiles : Made(b, r, p)
  BY DEF RadiusInv, IsMade, SpoilBlock
<1>2. c \in Code /\ Len(c.payload) <= c.count
  <2>1. CompressedBlock(r, p) \in Code
        /\ Len(CompressedBlock(r, p).payload) = CompressedBlock(r, p).count
    BY <1>1, CompressedIs DEF Made
  <2>2. CompressedBlock(r, p).count \in Nat
    BY <2>1 DEF Code
  <2> QED
    BY <1>1, <2>1, <2>2 DEF Made, Spoiled
<1>3. /\ c.payload # <<>>
      /\ \E d \in {[c EXCEPT !.payload = Front(@)]} \cup
               IF c.profile = "F32"
               THEN {[c EXCEPT !.payload[1] = NotARadius]}
               ELSE {[c EXCEPT !.min = c.max + 1]} :
           block' = <<[of |-> b.of, code |-> d, whole |-> FALSE]>>
  BY DEF SpoilBlock
<1> HIDE DEF b, c
<1>4. PICK d : /\ \/ d = [c EXCEPT !.payload = Front(@)]
                  \/ c.profile = "F32" /\ d = [c EXCEPT !.payload[1] = NotARadius]
                  \/ c.profile # "F32" /\ d = [c EXCEPT !.min = c.max + 1]
               /\ block' = <<[of |-> b.of, code |-> d, whole |-> FALSE]>>
  BY <1>3
<1> DEFINE q == c.payload
<1>5. /\ q \in Seq(Int \cup {NotARadius}) /\ q # <<>> /\ c.profile \in Profiles
      /\ c.count \in Nat /\ c.min \in Int /\ c.max \in Int /\ Len(q) <= c.count
      /\ c = [profile |-> c.profile, count |-> c.count, min |-> c.min, max |-> c.max,
              payload |-> q]
  BY <1>2, <1>3 DEF Code
<1>9. Len(q) \in Nat /\ Len(q) >= 1
  <2> HIDE DEF q
  <2> QED
    BY <1>5
<1>6. Spoiled(d)
  <2>1. CASE d = [c EXCEPT !.payload = Front(@)]
    <3>1. Front(q) \in Seq(Int \cup {NotARadius}) /\ Len(Front(q)) = Len(q) - 1
      <4> HIDE DEF q
      <4>1. 1 \in 1 .. Len(q) + 1 /\ Len(q) - 1 \in 0 .. Len(q)
        BY <1>9
      <4>2. /\ SubSeq(q, 1, Len(q) - 1) \in Seq(Int \cup {NotARadius})
            /\ Len(SubSeq(q, 1, Len(q) - 1)) = IF 1 <= Len(q) - 1 THEN (Len(q) - 1) - 1 + 1 ELSE 0
        BY <1>5, <4>1, SubSeqProperties
      <4> DEFINE f == SubSeq(q, 1, Len(q) - 1)
                 m == Len(q)
      <4>3. Front(q) = f
        BY DEF Front
      <4> HIDE DEF f
      <4>4. Len(f) = m - 1
        <5>1. Len(f) = IF 1 <= m - 1 THEN (m - 1) - 1 + 1 ELSE 0
          BY <4>2 DEF f
        <5> HIDE DEF m
        <5> QED
          BY <1>9, <5>1 DEF m
      <4> QED
        BY <4>2, <4>3, <4>4 DEF f
    <3>2. d = [c EXCEPT !.payload = Front(q)]
      BY <2>1
    <3> HIDE DEF q
    <3>3. d = [profile |-> c.profile, count |-> c.count, min |-> c.min, max |-> c.max,
               payload |-> Front(q)]
      BY <1>5, <3>2
    <3>4. d.payload = Front(q) /\ d.count = c.count
      BY <3>3
    <3>5. d \in Code
      BY <1>5, <3>1, <3>3 DEF Code
    <3> QED
      BY <1>5, <1>9, <3>1, <3>4, <3>5 DEF Spoiled
  <2>2. CASE c.profile = "F32" /\ d = [c EXCEPT !.payload[1] = NotARadius]
    <3> DEFINE f == [q EXCEPT ![1] = NotARadius]
    <3>1. f \in Seq(Int \cup {NotARadius}) /\ Len(f) = Len(q) /\ f # <<>> /\ f[1] = NotARadius
      <4> HIDE DEF q
      <4> QED
        BY <1>5, <1>9
    <3>2. d = [c EXCEPT !.payload = f]
      BY <2>2
    <3> HIDE DEF q, f
    <3>3. d = [profile |-> c.profile, count |-> c.count, min |-> c.min, max |-> c.max,
               payload |-> f]
      BY <1>5, <3>2
    <3>4. d.payload = f /\ d.count = c.count /\ d.profile = "F32"
      BY <2>2, <3>3
    <3>5. d \in Code
      BY <1>5, <3>1, <3>3 DEF Code
    <3> QED
      BY <1>5, <3>1, <3>4, <3>5 DEF Spoiled
  <2>3. CASE c.profile # "F32" /\ d = [c EXCEPT !.min = c.max + 1]
    <3>1. c.max + 1 \in Int /\ c.max + 1 > c.max
      BY <1>5
    <3> HIDE DEF q
    <3>2. d = [profile |-> c.profile, count |-> c.count, min |-> c.max + 1, max |-> c.max,
               payload |-> q]
      BY <1>5, <2>3
    <3>3. d \in Code /\ d.payload = q /\ d.count = c.count /\ d.profile = c.profile
          /\ d.min = c.max + 1 /\ d.max = c.max
      BY <1>5, <3>1, <3>2 DEF Code
    <3> QED
      BY <1>5, <2>3, <3>1, <3>3 DEF Spoiled
  <2> QED
    BY <1>4, <2>1, <2>2, <2>3
<1> DEFINE e == [of |-> b.of, code |-> d, whole |-> FALSE]
<1>7. Made(e, r, p)
  <2>1. e.of = b.of /\ e.code = d /\ e.whole = FALSE
    OBVIOUS
  <2> QED
    BY <1>1, <1>6, <2>1 DEF Made
<1> HIDE DEF e
<1>8. IsMade(e) /\ block' = <<e>>
  BY <1>4, <1>7 DEF IsMade, e
<1> QED
  BY <1>8 DEF RadiusInv

LEMMA SpoiledIsUnreadable ==
    ASSUME NEW c, Spoiled(c)
    PROVE  ~ReadableBlock(c)
<1>1. /\ c.payload \in Seq(Int \cup {NotARadius}) /\ Len(c.payload) \in Nat /\ c.count \in Nat
      /\ c.min \in Int /\ c.max \in Int
  BY DEF Spoiled, Code
<1>2. CASE Len(c.payload) < c.count
  BY <1>1, <1>2 DEF ReadableBlock
<1>3. CASE c.profile = "F32" /\ c.payload # <<>> /\ c.payload[1] = NotARadius
  <2>1. NotARadius \in Range(c.payload)
    BY <1>1, <1>3 DEF Range
  <2> QED
    BY <1>3, <2>1 DEF ReadableBlock, ValidRadii
<1>4. CASE c.profile # "F32" /\ c.min > c.max
  BY <1>1, <1>4 DEF ReadableBlock
<1> QED
  BY <1>2, <1>3, <1>4 DEF Spoiled

(* What a radius decompresses to, next to what it was. *)
Off(v, b, i) == Decompressed(b)[i] - Levels[b.profile] * v[i]
Least(v) == Min(Range(v))
Most(v) == Max(Range(v))

(* The levels divide the range itself, or the codec has none. *)
Even(v, p) == p = "F32" \/ Most(v) - Least(v) >= Epsilon[p]

LEMMA TimesKeepsOrder ==
    ASSUME NEW n \in Nat, NEW x \in Int, NEW y \in Int, x <= y
    PROVE  n * x \in Int /\ n * y \in Int /\ n * x <= n * y
  OBVIOUS

LEMMA DecompressedIsNear ==
    ASSUME NEW r \in Radii, ValidRadii(r), NEW p \in Profiles,
           NEW i \in DOMAIN Scale(r, p)
    PROVE  LET v == Scale(r, p)  b == CompressedBlock(r, p) IN
           /\ Levels[p] * Least(v) <= Decompressed(b)[i]
           /\ Decompressed(b)[i] <= Levels[p] * Most(v)
           /\ 2 * Off(v, b, i) <= Most(v) - Least(v)
           /\ v[i] = Least(v) => Off(v, b, i) = 0
           /\ Even(v, p) => /\ -2 * Off(v, b, i) <= Most(v) - Least(v)
                            /\ v[i] = Most(v) => Off(v, b, i) = 0
<1> DEFINE v == Scale(r, p)
           b == CompressedBlock(r, p)
           n == Levels[p]
           lo == Least(v)
           hi == Most(v)
           span == Span(Extremes(v), p)
           q == b.payload[i]
           out == Decompressed(b)[i]
<1>1. /\ v \in Seq(Int) /\ v # <<>> /\ i \in DOMAIN v /\ v[i] \in Int
      /\ b.profile = p /\ DOMAIN b.payload = DOMAIN v
      /\ p = "F32" => q = v[i]
      /\ p # "F32" => b.min = Extremes(v)[1] /\ b.max = Extremes(v)[2] /\ q = LevelOf(v, p, i)
  BY ScaleType, CompressedIs
<1>2. n \in Nat \ {0}
  BY RadiusAssumption
<1>3. Extremes(v)[1] = lo /\ Extremes(v)[2] = hi /\ v[i] \in lo .. hi
      /\ lo \in Int /\ hi \in Int /\ lo <= hi
  <2> HIDE DEF v
  <2>1. Extremes(v) = <<lo, hi>>
    BY <1>1, ExtremesAre DEF Least, Most
  <2>2. Extremes(v)[1] \in Int /\ Extremes(v)[2] \in Int /\ Extremes(v)[1] <= Extremes(v)[2]
        /\ v[i] \in Extremes(v)[1] .. Extremes(v)[2]
    BY <1>1, ExtremesAre
  <2> HIDE DEF lo, hi
  <2> QED
    BY <2>1, <2>2
<1>4. out = IF p = "F32" THEN q * Levels["F32"] ELSE b.min * n + (b.max - b.min) * q
  <2> HIDE DEF v, b, n
  <2> QED
    BY <1>1 DEF Decompressed, n
<1>5. Off(v, b, i) = out - n * v[i]
  BY <1>1 DEF Off
<1>6. /\ span \in Nat \ {0} /\ hi - lo <= span
      /\ Even(v, p) /\ p # "F32" => span = hi - lo
  <2> HIDE DEF v
  <2>1. /\ span \in Nat \ {0}
        /\ Extremes(v)[2] - Extremes(v)[1] <= span
        /\ Extremes(v)[2] - Extremes(v)[1] >= Epsilon[p]
             => span = Extremes(v)[2] - Extremes(v)[1]
    BY <1>1, SpanIs
  <2> QED
    BY <1>3, <2>1 DEF Even
<1>7. n * lo <= n * v[i] /\ n * v[i] <= n * hi /\ n * lo \in Int /\ n * v[i] \in Int
      /\ n * hi \in Int
  <2> HIDE DEF v, n, lo, hi
  <2>1. lo <= v[i] /\ v[i] <= hi
    BY <1>3
  <2> QED
    BY <1>1, <1>2, <1>3, <2>1, TimesKeepsOrder
<1> HIDE DEF v, b, n, lo, hi, q, span, out
<1>8. CASE p = "F32"
  <2>1. out = n * v[i]
    BY <1>1, <1>2, <1>4, <1>8 DEF n
  <2>2. Off(v, b, i) = 0
    BY <1>5, <1>7, <2>1
  <2>3. 0 <= hi - lo
    BY <1>3
  <2> QED
    BY <1>7, <2>1, <2>2, <2>3 DEF v, b, n, lo, hi, out
<1>9. CASE p # "F32"
  <2> DEFINE e == LevelError(v[i], lo, hi, span, n)
  <2>1. q = Quantized(v[i], lo, span, n)
    BY <1>1, <1>3, <1>9 DEF LevelOf, span, n
  <2>2. /\ q \in 0 .. n
        /\ 2 * e <= hi - lo
        /\ v[i] = lo => e = 0
        /\ span = hi - lo => /\ -2 * e <= hi - lo
                             /\ v[i] = hi => e = 0
    <3>1. hi - lo <= span /\ span \in Nat \ {0} /\ v[i] \in lo .. hi
      BY <1>3, <1>6
    <3> DEFINE x == v[i]
    <3> HIDE DEF x, e
    <3>2. x \in lo .. hi /\ lo <= hi /\ lo \in Int /\ hi \in Int
      BY <1>3, <3>1 DEF x
    <3>3. /\ Quantized(x, lo, span, n) \in 0 .. n
          /\ 2 * LevelError(x, lo, hi, span, n) <= hi - lo
          /\ x = lo => LevelError(x, lo, hi, span, n) = 0
          /\ span = hi - lo => /\ -2 * LevelError(x, lo, hi, span, n) <= hi - lo
                               /\ x = hi => LevelError(x, lo, hi, span, n) = 0
      BY <1>2, <3>1, <3>2, QuantizedIsNear
    <3> QED
      BY <2>1, <3>3 DEF x, e
  <2>3. out = lo * n + (hi - lo) * q
    BY <1>1, <1>3, <1>4, <1>9
  <2>4. e = (hi - lo) * q - n * (v[i] - lo)
    BY <2>1 DEF LevelError
  <2>5. Off(v, b, i) = e
    BY <1>1, <1>2, <1>3, <1>5, <2>2, <2>3, <2>4
  <2>6. (hi - lo) * 0 <= (hi - lo) * q /\ (hi - lo) * q <= (hi - lo) * n
    <3>1. hi - lo \in Nat /\ q \in Nat /\ 0 <= q /\ q <= n
      BY <1>2, <1>3, <2>2
    <3> QED
      BY <1>2, <3>1, MulMonotone
  <2>7. n * lo <= out /\ out <= n * hi
    <3>1. (hi - lo) * n = n * hi - n * lo /\ (hi - lo) * 0 = 0 /\ lo * n = n * lo
      BY <1>2, <1>3
    <3>2. (hi - lo) * q \in Int
      BY <1>2, <1>3, <2>2
    <3> QED
      BY <1>7, <2>3, <2>6, <3>1, <3>2
  <2>8. Even(v, p) => span = hi - lo
    BY <1>6, <1>9
  <2> HIDE DEF e
  <2>9. /\ 2 * Off(v, b, i) <= hi - lo
        /\ v[i] = lo => Off(v, b, i) = 0
        /\ Even(v, p) => /\ -2 * Off(v, b, i) <= hi - lo
                         /\ v[i] = hi => Off(v, b, i) = 0
    BY <2>2, <2>5, <2>8
  <2> QED
    BY <2>7, <2>9 DEF v, b, n, lo, hi, out
<1> QED
  BY <1>8, <1>9

LEMMA DecompressedInOrder ==
    ASSUME NEW r \in Radii, ValidRadii(r), NEW p \in Profiles,
           NEW i \in DOMAIN Scale(r, p), NEW j \in DOMAIN Scale(r, p),
           Scale(r, p)[i] < Scale(r, p)[j]
    PROVE  Decompressed(CompressedBlock(r, p))[i] <= Decompressed(CompressedBlock(r, p))[j]
<1> DEFINE v == Scale(r, p)
           b == CompressedBlock(r, p)
           n == Levels[p]
           lo == Extremes(v)[1]
           hi == Extremes(v)[2]
           span == Span(Extremes(v), p)
           level(k) == LevelOf(v, p, k)
<1>1. /\ v \in Seq(Int) /\ v # <<>> /\ v[i] \in Int /\ v[j] \in Int
      /\ b.profile = p /\ DOMAIN b.payload = DOMAIN v
      /\ p = "F32" => b.payload = v
      /\ p # "F32" => /\ b.min = lo /\ b.max = hi
                      /\ b.payload[i] = level(i) /\ b.payload[j] = level(j)
  BY ScaleType, CompressedIs
<1>2. n \in Nat \ {0}
  BY RadiusAssumption
<1>3. lo \in Int /\ hi \in Int /\ v[i] \in lo .. hi /\ v[j] \in lo .. hi
  <2> HIDE DEF v
  <2> QED
    BY <1>1, ExtremesAre DEF v
<1>4. \A k \in {i, j} :
         Decompressed(b)[k] = IF p = "F32" THEN b.payload[k] * Levels["F32"]
                              ELSE b.min * n + (b.max - b.min) * b.payload[k]
  <2>1. i \in DOMAIN v /\ j \in DOMAIN v
    OBVIOUS
  <2> HIDE DEF v, b, n
  <2> QED
    BY <1>1, <2>1 DEF Decompressed, n
<1>5. v[i] < v[j]
  OBVIOUS
<1>8. span \in Nat \ {0} /\ hi - lo <= span
  <2> HIDE DEF v
  <2> QED
    BY <1>1, SpanIs
<1> HIDE DEF v, b, n, lo, hi, span
<1>6. CASE p = "F32"
  <2>1. Decompressed(b)[i] = v[i] * n /\ Decompressed(b)[j] = v[j] * n
    BY <1>1, <1>4, <1>6 DEF n
  <2>2. v[i] * n <= v[j] * n
    BY <1>1, <1>2, <1>5
  <2> QED
    BY <2>1, <2>2 DEF b
<1>7. CASE p # "F32"
  <2>1. lo < hi
    BY <1>3, <1>5
  <2>2. level(i) = Quantized(v[i], lo, span, n) /\ level(j) = Quantized(v[j], lo, span, n)
    BY DEF LevelOf, lo, span, n
  <2>3. level(i) <= level(j) /\ level(i) \in Nat /\ level(j) \in Nat
    <3> HIDE DEF level
    <3>1. Quantized(v[i], lo, span, n) \in 0 .. n /\ Quantized(v[j], lo, span, n) \in 0 .. n
      <4>1. lo <= hi
        BY <1>3, <1>5
      <4> QED
        BY <1>2, <1>3, <1>8, <4>1, QuantizedIsNear
    <3>2. v[i] <= v[j]
      BY <1>1, <1>5
    <3>3. Quantized(v[i], lo, span, n) <= Quantized(v[j], lo, span, n)
      <4>1. lo <= v[i]
        BY <1>3
      <4> QED
        BY <1>1, <1>2, <1>3, <1>8, <3>2, <4>1, QuantizedMonotone
    <3> QED
      BY <1>2, <1>3, <2>2, <3>1, <3>3
  <2> HIDE DEF level
  <2>4. (hi - lo) * level(i) <= (hi - lo) * level(j)
        /\ (hi - lo) * level(i) \in Nat /\ (hi - lo) * level(j) \in Nat
    <3>1. hi - lo \in Nat
      BY <1>3, <2>1
    <3> QED
      BY <2>3, <3>1, MulMonotone
  <2>5. /\ Decompressed(b)[i] = lo * n + (hi - lo) * level(i)
        /\ Decompressed(b)[j] = lo * n + (hi - lo) * level(j)
    BY <1>1, <1>4, <1>7
  <2>6. lo * n \in Int
    BY <1>2, <1>3
  <2> QED
    BY <2>4, <2>5, <2>6 DEF b
<1> QED
  BY <1>6, <1>7

(* A block decompresses in order to values inside its range, none more     *)
(* than half a level above its radius, and none more than half a level     *)
(* below where the range is no narrower than f32::EPSILON; a spoiled block *)
(* does not decompress (CompressedRadiiV1::compress and decompress).       *)
THEOREM RadiiComeBack == RadiusSpec => []RadiiSurvive
<1>1. RadiusInit => RadiusInv
  BY DEF RadiusInit, RadiusInv
<1>2. RadiusInv /\ [RadiusNext]_block => RadiusInv'
  <2>1. CASE \E r \in Radii, p \in Profiles : Compress(r, p)
    BY <2>1, CompressKeeps
  <2>2. CASE RadiusInv /\ SpoilBlock
    BY <2>2, SpoilBlockKeeps
  <2>3. CASE RadiusInv /\ block' = block
    BY <2>3 DEF RadiusInv
  <2> QED
    BY <2>1, <2>2, <2>3 DEF RadiusNext
<1>3. RadiusInv => RadiiSurvive
  <2> SUFFICES ASSUME RadiusInv, block # <<>> PROVE RadiiSurvive
    BY DEF RadiiSurvive
  <2> DEFINE b == block[1]
             v == b.of
             c == b.code
             out == Decompressed(c)
  <2>1. PICK r \in Radii, p \in Profiles : Made(b, r, p)
    BY DEF RadiusInv, IsMade
  <2>2. CASE b.whole = FALSE
    <3>1. ~ReadableBlock(c)
      BY <2>1, <2>2, SpoiledIsUnreadable DEF Made
    <3> QED
      BY <2>2, <3>1 DEF RadiiSurvive
  <2>3. CASE b.whole = TRUE
    <3>1. ValidRadii(r) /\ v = Scale(r, p) /\ c = CompressedBlock(r, p)
      BY <2>1, <2>3 DEF Made
    <3>2. /\ c.profile = p /\ Len(c.payload) = c.count /\ DOMAIN c.payload = DOMAIN v
          /\ p = "F32" => c.payload = v
          /\ p # "F32" => c.min <= c.max
          /\ v \in Seq(Int)
      <4>1. v \in Seq(Int)
        BY <3>1, ScaleType
      <4>2. Extremes(v)[1] <= Extremes(v)[2]
        BY <4>1, ExtremesAre
      <4> QED
        BY <3>1, <4>1, <4>2, CompressedIs
    <3>3. ReadableBlock(c)
      <4>1. NotARadius \notin Range(v)
        BY <3>2, RadiusAssumption DEF Range
      <4> QED
        BY <3>2, <4>1 DEF ReadableBlock, ValidRadii
    <3>4. DOMAIN out = DOMAIN v
      BY <3>2 DEF Decompressed
    <3>5. ASSUME NEW i \in DOMAIN v
          PROVE  /\ Levels[p] * Least(v) <= out[i] /\ out[i] <= Levels[p] * Most(v)
                 /\ 2 * Off(v, c, i) <= Most(v) - Least(v)
                 /\ v[i] = Least(v) => Off(v, c, i) = 0
                 /\ Even(v, p) => /\ -2 * Off(v, c, i) <= Most(v) - Least(v)
                                  /\ v[i] = Most(v) => Off(v, c, i) = 0
      <4> HIDE DEF v, c
      <4> QED
        BY <3>1, DecompressedIsNear
    <3>6. ASSUME NEW i \in DOMAIN v, NEW j \in DOMAIN v, v[i] < v[j]
          PROVE  out[i] <= out[j]
      <4> HIDE DEF v, c
      <4> QED
        BY <3>1, <3>6, DecompressedInOrder
    <3>7. \A i \in DOMAIN v : Off(v, c, i) = out[i] - Levels[c.profile] * v[i]
      BY DEF Off
    <3> DEFINE Whole == LET L == Levels[p]
                            off(i) == out[i] - L * v[i]
                        IN  /\ \A i \in DOMAIN out :
                                   /\ L * Least(v) =< out[i] /\ out[i] =< L * Most(v)
                                   /\ 2 * off(i) =< Most(v) - Least(v)
                                   /\ v[i] = Least(v) => off(i) = 0
                                   /\ Even(v, p) =>
                                         /\ -2 * off(i) =< Most(v) - Least(v)
                                         /\ v[i] = Most(v) => off(i) = 0
                            /\ \A i, j \in DOMAIN out : v[i] < v[j] => out[i] =< out[j]
    <3>9. Whole
      <4> HIDE DEF out, v, c
      <4>1. c.profile = p
        BY <3>2
      <4>2. ASSUME NEW i \in DOMAIN v
            PROVE  Off(v, c, i) = out[i] - Levels[p] * v[i]
        BY <3>7, <4>1
      <4> QED
        BY <3>4, <3>5, <3>6, <4>2
    <3> HIDE DEF out, v, c
    <3> QED
      BY <2>3, <3>2, <3>3, <3>4, <3>9 DEF RadiiSurvive, Least, Most, Even, out, v, c
  <2> QED
    BY <2>1, <2>2, <2>3 DEF Made
<1> QED
  BY <1>1, <1>2, <1>3, PTL DEF RadiusSpec

(***************************************************************************)
(* The searches of an index.  Scores are integers, so that the candidates  *)
(* are ranked by a total order.                                            *)
(***************************************************************************)
Row(s) == [1 .. s.dim -> Int]

LEMMA DotType ==
    ASSUME NEW n \in Nat, NEW u \in [1 .. n -> Int], NEW v \in [1 .. n -> Int]
    PROVE  Dot(u, v) \in Int
<1>1. [i \in DOMAIN u |-> u[i] * v[i]] \in [1 .. n -> Int]
  OBVIOUS
<1> QED
  BY <1>1, SumType DEF Dot

(* A pass over blocks of twice the step stays inside the vector.           *)
LEMMA ButterfliesType ==
    ASSUME NEW step \in Nat \ {0}, NEW q \in Nat, NEW d \in Nat, d = q * (2 * step),
           NEW v \in [1 .. d -> Int]
    PROVE  Butterflies(v, step) \in [1 .. d -> Int]
<1> SUFFICES ASSUME NEW i \in 1 .. d
             PROVE  (IF ((i - 1) \div step) % 2 = 0 THEN v[i] + v[i + step]
                     ELSE v[i - step] - v[i]) \in Int
  BY DEF Butterflies
<1> DEFINE k == (i - 1) \div step
           r == (i - 1) % step
<1>1. k \in Nat /\ r \in 0 .. step - 1 /\ i - 1 = k * step + r
  <2>1. i - 1 \in Nat
    OBVIOUS
  <2> QED
    BY <2>1, DivMod
<1> HIDE DEF k, r
<1>2. CASE k % 2 = 0
  <2> DEFINE a == k \div 2
  <2>1. a \in Nat /\ k = 2 * a
    BY <1>1, <1>2
  <2> HIDE DEF a
  <2>2. k * step = a * (2 * step) /\ a * (2 * step) \in Nat
    BY <2>1
  <2>3. a < q
    <3> SUFFICES ASSUME q <= a PROVE FALSE
      BY <2>1
    <3>1. (2 * step) * q <= (2 * step) * a
      BY <2>1, MulMonotone
    <3>2. d <= k * step
      BY <2>1, <2>2, <3>1
    <3> QED
      BY <1>1, <2>2, <3>2
  <2>4. a * (2 * step) + (2 * step) <= d
    BY <2>1, <2>3, MulLess
  <2>5. i + step \in 1 .. d
    BY <1>1, <2>2, <2>4
  <2> QED
    BY <1>2, <2>5 DEF k
<1>3. CASE k % 2 # 0
  <2>1. 1 <= k
    BY <1>1, <1>3
  <2>2. step * 1 <= step * k
    BY <1>1, <2>1, MulMonotone
  <2>3. step <= i - 1
    BY <1>1, <2>2
  <2>4. i - step \in 1 .. d
    BY <2>3
  <2> QED
    BY <1>3, <2>4 DEF k
<1> QED
  BY <1>2, <1>3

(* f[k] is the vector after k passes.                                      *)
Passes(f, v, n) ==
    f = [k \in 0 .. n |-> IF k = 0 THEN v ELSE Butterflies(f[k - 1], 2 ^ (k - 1))]

HasPasses(v, n) == \E f : Passes(f, v, n)

LEMMA PassesExist ==
    ASSUME NEW v, NEW n \in Nat
    PROVE  HasPasses(v, n)
<1> DEFINE Done == {m \in Nat : HasPasses(v, m)}
<1>1. 0 \in Done
  <2> DEFINE f == [k \in 0 .. 0 |-> v]
  <2>1. f = [k \in 0 .. 0 |-> IF k = 0 THEN v ELSE Butterflies(f[k - 1], 2 ^ (k - 1))]
    OBVIOUS
  <2> HIDE DEF f
  <2> QED
    BY <2>1 DEF HasPasses, Passes
<1>2. ASSUME NEW m \in Nat, m \in Done PROVE m + 1 \in Done
  <2>1. PICK g : Passes(g, v, m)
    BY <1>2 DEF HasPasses
  <2> DEFINE last == Butterflies(g[m], 2 ^ m)
             f == [k \in 0 .. m + 1 |-> IF k = m + 1 THEN last ELSE g[k]]
             next(k) == Butterflies(f[k - 1], 2 ^ (k - 1))
  <2>2. ASSUME NEW k \in 0 .. m + 1
        PROVE  f[k] = IF k = 0 THEN v ELSE next(k)
    <3>1. CASE k = 0
      BY <2>1, <3>1 DEF Passes
    <3>2. CASE k # 0 /\ k # m + 1
      <4>1. k \in 0 .. m /\ k - 1 \in 0 .. m + 1 /\ k - 1 # m + 1
        BY <3>2
      <4>2. f[k] = g[k] /\ f[k - 1] = g[k - 1]
        BY <3>2, <4>1
      <4>3. g[k] = Butterflies(g[k - 1], 2 ^ (k - 1))
        BY <2>1, <3>2, <4>1 DEF Passes
      <4> QED
        BY <3>2, <4>2, <4>3
    <3>3. CASE k = m + 1
      <4>1. k - 1 = m /\ f[k] = last /\ m \in 0 .. m + 1 /\ m # m + 1
        BY <3>3
      <4>2. f[m] = g[m]
        BY <4>1
      <4> QED
        BY <3>3, <4>1, <4>2
    <3> QED
      BY <3>1, <3>2, <3>3
  <2>3. f = [k \in 0 .. m + 1 |-> f[k]]
    OBVIOUS
  <2> HIDE DEF f
  <2>4. Passes(f, v, m + 1)
    BY <2>2, <2>3 DEF Passes
  <2> QED
    BY <2>4 DEF HasPasses
<1> HIDE DEF Done
<1>3. n \in Done
  BY <1>1, <1>2, NatSetInduction
<1> QED
  BY <1>3 DEF Done

(* The steps of the passes divide the dimension, a power of two.           *)
LEMMA StepsDivide ==
    ASSUME NEW n \in 0 .. 10, NEW k \in 1 .. 10, k <= n
    PROVE  /\ 2 ^ (k - 1) \in Nat \ {0}
           /\ \E q \in Nat : 2 ^ n = q * (2 * 2 ^ (k - 1))
<1> DEFINE b == 2 ^ (k - 1)  c == 2 ^ n  l == k - 1
<1>1. l \in 0 .. 9 /\ l < n
  OBVIOUS
<1>2. IsPower(l, b) /\ IsPower(n, c)
  <2>1. l \in 0 .. 10
    BY <1>1
  <2>2. IsPower(l, 2 ^ l) /\ IsPower(n, 2 ^ n)
    <3> HIDE DEF l
    <3> QED
      BY <2>1, PowersOfTwo
  <2> QED
    BY <2>2, Zenon
<1> HIDE DEF b, c, l
<1>5. b \in Nat \ {0}
  BY <1>1, <1>2 DEF IsPower
<1> DEFINE Q(q) == c = q * (2 * b)
<1>6. Q(1) \/ Q(2) \/ Q(4) \/ Q(8) \/ Q(16) \/ Q(32) \/ Q(64) \/ Q(128) \/ Q(256) \/ Q(512)
  BY <1>1, <1>2 DEF IsPower
<1>7. \E q \in Nat : Q(q)
  <2> HIDE DEF Q
  <2> QED
    BY <1>6
<1> QED
  BY <1>5, <1>7 DEF b, c

LEMMA FwhtType ==
    ASSUME NEW d \in Nat, \E n \in 0 .. 10 : 2 ^ n = d, NEW v \in [1 .. d -> Int]
    PROVE  Fwht(v) \in [1 .. d -> Int]
<1> DEFINE N == CHOOSE n \in 0 .. 10 : 2 ^ n = d
           f == CHOOSE g : Passes(g, v, 10)
<1>1. N \in 0 .. 10 /\ 2 ^ N = d
  OBVIOUS
<1>2. Passes(f, v, 10)
  <2>1. HasPasses(v, 10)
    BY PassesExist
  <2> QED
    BY <2>1 DEF HasPasses
<1>3. Len(v) = d
  BY FunctionIsSeq
<1>4. Fwht(v) = f[N]
  <2>1. f = CHOOSE g : g = [k \in 0 .. 10 |->
              IF k = 0 THEN v ELSE Butterflies(g[k - 1], 2 ^ (k - 1))]
    BY DEF Passes
  <2> QED
    BY <1>3, <2>1 DEF Fwht
<1> HIDE DEF N, f
<1> DEFINE Done == {k \in Nat : k <= N => f[k] \in [1 .. d -> Int]}
<1>5. 0 \in Done
  BY <1>1, <1>2 DEF Passes
<1>6. ASSUME NEW k \in Nat, k \in Done PROVE k + 1 \in Done
  <2> SUFFICES ASSUME k + 1 <= N PROVE f[k + 1] \in [1 .. d -> Int]
    OBVIOUS
  <2>1. k + 1 \in 1 .. 10 /\ k + 1 \in 0 .. 10 /\ (k + 1) - 1 = k /\ k <= N
    BY <1>1
  <2>2. f[k + 1] = Butterflies(f[k], 2 ^ k)
    <3>1. ASSUME NEW j \in 1 .. 10 PROVE f[j] = Butterflies(f[j - 1], 2 ^ (j - 1))
      <4>1. j \in 0 .. 10 /\ j # 0
        OBVIOUS
      <4> QED
        BY <1>2, <4>1 DEF Passes
    <3>2. f[k + 1] = Butterflies(f[(k + 1) - 1], 2 ^ ((k + 1) - 1))
      BY <2>1, <3>1
    <3> QED
      BY <2>1, <3>2, Zenon
  <2>3. 2 ^ k \in Nat \ {0} /\ \E q \in Nat : 2 ^ N = q * (2 * 2 ^ k)
    BY <1>1, <2>1, StepsDivide
  <2>4. f[k] \in [1 .. d -> Int]
    BY <1>6, <2>1
  <2> DEFINE step == 2 ^ k
  <2>5. PICK q \in Nat : d = q * (2 * step)
    BY <1>1, <2>3
  <2>6. step \in Nat \ {0}
    BY <2>3
  <2> HIDE DEF step
  <2>7. Butterflies(f[k], step) \in [1 .. d -> Int]
    BY <2>4, <2>5, <2>6, ButterfliesType
  <2> QED
    BY <2>2, <2>7 DEF step
<1> HIDE DEF Done
<1>7. N \in Done
  BY <1>1, <1>5, <1>6, NatSetInduction
<1> QED
  BY <1>4, <1>7 DEF Done

LEMMA VectorType ==
    ASSUME NEW s \in Scorers, NEW v \in Vectors(s), Len(v) = s.dim
    PROVE  v \in Row(s) /\ s.dim \in Nat /\ s.rows \in Seq(Row(s))
<1>1. v \in Seq(Int) /\ IsScorer(s)
  BY ScoringAssumption
<1>2. s.dim \in Nat /\ s.rows \in Seq(Row(s))
  BY <1>1 DEF IsScorer, Row
<1>3. v \in [1 .. Len(v) -> Int]
  BY <1>1
<1> QED
  BY <1>2, <1>3 DEF Row

LEMMA ApplyType ==
    ASSUME NEW s \in Scorers, NEW v \in Row(s)
    PROVE  Apply(s, v) \in Row(s)
<1>1. IsScorer(s) /\ s.dim \in Nat
  BY ScoringAssumption DEF IsScorer
<1>2. CASE IsHadamard(s)
  <2>1. s.signs \in [1 .. s.dim -> {-1, 1}] /\ \E n \in 0 .. 10 : 2 ^ n = s.dim
    BY <1>1, <1>2 DEF IsScorer
  <2>2. Scaled(v, s.signs) \in [1 .. s.dim -> Int]
    BY <2>1 DEF Scaled, Row
  <2>3. Fwht(Scaled(v, s.signs)) \in [1 .. s.dim -> Int]
    BY <1>1, <2>1, <2>2, FwhtType
  <2> QED
    BY <1>2, <2>3 DEF Apply, Row
<1>3. CASE ~IsHadamard(s)
  <2>1. s.matrix \in [1 .. s.dim -> [1 .. s.dim -> Int]]
    BY <1>1, <1>3 DEF IsScorer
  <2>2. \A i \in 1 .. s.dim : Dot(s.matrix[i], v) \in Int
    BY <1>1, <2>1, DotType DEF Row
  <2> QED
    BY <1>3, <2>2 DEF Apply, Row
<1> QED
  BY <1>2, <1>3

(***************************************************************************)
(* What the index holds.                                                   *)
(***************************************************************************)
PolarCode(s) == [1 .. s.dim \div 2 -> [r : Int, angle : 0 .. 3]]

Numbers(s) == [DOMAIN s.rows -> Int]

IndexEntry(s) == [id : Nat, code : [polar : PolarCode(s), sketch : Numbers(s)], of : Seq(Int)]

LEMMA PairsOf ==
    ASSUME NEW s \in Scorers, NEW i \in 1 .. s.dim \div 2
    PROVE  s.dim \in Nat /\ s.dim \div 2 \in Nat /\ 2 * i - 1 \in 1 .. s.dim /\ 2 * i \in 1 .. s.dim
<1>1. s.dim \in Nat
  BY ScoringAssumption DEF IsScorer
<1> DEFINE d == s.dim
<1> HIDE DEF d
<1> QED
  BY <1>1 DEF d

LEMMA PolarType ==
    ASSUME NEW s \in Scorers, NEW v \in Vectors(s), Len(v) = s.dim
    PROVE  PolarEncode(s, v) \in PolarCode(s)
<1> DEFINE w == Apply(s, v)
<1>1. v \in Row(s) /\ HasRadii(w) /\ s.dim \in Nat
  BY VectorType, ScoringAssumption
<1>2. w \in Row(s)
  BY <1>1, ApplyType
<1> HIDE DEF w
<1>3. Len(w) = s.dim
  BY <1>1, <1>2, FunctionIsSeq DEF Row
<1>4. ASSUME NEW i \in 1 .. s.dim \div 2
      PROVE  [r |-> Radius(w[2 * i - 1], w[2 * i]), angle |-> Sector(w[2 * i - 1], w[2 * i])]
                 \in [r : Int, angle : 0 .. 3]
  <2> DEFINE a == w[2 * i - 1]  b == w[2 * i]
  <2>1. a \in Int /\ b \in Int
    BY <1>2, PairsOf DEF Row
  <2>2. \E r \in 0 .. 50 : r * r = a * a + b * b
    BY <1>1, <1>3 DEF HasRadii
  <2> HIDE DEF a, b
  <2>3. Radius(a, b) \in Int
    <3> DEFINE r == Radius(a, b)
    <3>1. r \in 0 .. 50
      BY <2>2, Zenon DEF Radius
    <3> HIDE DEF r
    <3>2. r \in Int
      BY <3>1
    <3> QED
      BY <3>2 DEF r
  <2>4. Sector(a, b) \in 0 .. 3
    BY <2>1 DEF Sector
  <2> QED
    BY <2>3, <2>4 DEF a, b
<1> QED
  BY <1>4 DEF PolarEncode, PolarCode, w

LEMMA EncodeType ==
    ASSUME NEW s \in Scorers, NEW v \in Vectors(s), Len(v) = s.dim
    PROVE  Encode(s, v) \in [polar : PolarCode(s), sketch : Numbers(s)]
<1>1. PolarEncode(s, v) \in PolarCode(s)
  BY PolarType
<1>2. Sketch(s, Residual(s, v)) \in Numbers(s)
  <2> DEFINE x == Residual(s, v)
  <2> HIDE DEF x
  <2> SUFFICES Sketch(s, x) \in Numbers(s)
    BY DEF x
  <2> QED
    BY DEF Sketch, Numbers
<1> QED
  BY <1>1, <1>2 DEF Encode

LEMMA ScoreType ==
    ASSUME NEW s \in Scorers, NEW q \in Vectors(s), Len(q) = s.dim,
           NEW code \in [polar : PolarCode(s), sketch : Numbers(s)]
    PROVE  Score(s, code, Prepare(s, q)) \in Int
<1> DEFINE p == Prepare(s, q)
           polar == code.polar
<1>1. q \in Row(s) /\ s.dim \in Nat /\ s.rows \in Seq(Row(s))
  BY VectorType
<1>2. p.rotated \in Row(s) /\ p.projected \in Numbers(s)
  <2>1. ASSUME NEW k \in DOMAIN s.rows PROVE Dot(s.rows[k], q) \in Int
    <3>1. s.rows[k] \in Row(s)
      BY <1>1
    <3> QED
      BY <1>1, <3>1, DotType DEF Row
  <2> QED
    BY <1>1, <2>1, ApplyType DEF Prepare, Projected, Numbers
<1>3. polar \in PolarCode(s) /\ code.sketch \in Numbers(s)
  OBVIOUS
<1> HIDE DEF p, polar
<1>4. PolarScore(s, polar, p) \in Int
  <2> DEFINE term(i) == polar[i].r * (p.rotated[2 * i - 1] * Direction[polar[i].angle][1]
                                       + p.rotated[2 * i] * Direction[polar[i].angle][2])
  <2>1. ASSUME NEW i \in 1 .. s.dim \div 2 PROVE term(i) \in Int
    <3>1. polar[i] \in [r : Int, angle : 0 .. 3]
      BY <1>3 DEF PolarCode
    <3>2. p.rotated[2 * i - 1] \in Int /\ p.rotated[2 * i] \in Int
      BY <1>2, PairsOf DEF Row
    <3>3. Direction[polar[i].angle][1] \in Int /\ Direction[polar[i].angle][2] \in Int
      BY <3>1 DEF Direction
    <3> DEFINE a == p.rotated[2 * i - 1]  b == Direction[polar[i].angle][1]
               c == p.rotated[2 * i]      d == Direction[polar[i].angle][2]
               e == polar[i].r
    <3>4. e \in Int /\ a * b \in Int /\ c * d \in Int
      <4>1. e \in Int /\ a \in Int /\ b \in Int /\ c \in Int /\ d \in Int
        BY <3>1, <3>2, <3>3
      <4> HIDE DEF a, b, c, d, e
      <4> QED
        BY <4>1
    <3>5. e * (a * b + c * d) \in Int
      <4> DEFINE x == a * b  y == c * d
      <4> HIDE DEF e, x, y
      <4> QED
        BY <3>4 DEF x, y
    <3> QED
      BY <3>5
  <2>2. s.dim \div 2 \in Nat
    BY <1>1
  <2> DEFINE G == [i \in DOMAIN polar |-> term(i)]
  <2>3. G \in [1 .. s.dim \div 2 -> Int]
    <3> HIDE DEF term
    <3> QED
      BY <1>3, <2>1 DEF PolarCode
  <2>4. SumFunction(G) \in Int
    <3> HIDE DEF G
    <3> QED
      BY <2>2, <2>3, SumType
  <2> QED
    BY <2>4 DEF PolarScore
<1>5. SketchScore(s, code.sketch, p) \in Int
  <2>1. DOMAIN s.rows = 1 .. Len(s.rows) /\ Len(s.rows) \in Nat
    BY <1>1
  <2> QED
    BY <1>2, <1>3, <2>1, DotType DEF SketchScore, Numbers
<1> QED
  BY <1>4, <1>5 DEF Score, p, polar

(***************************************************************************)
(* The invariant of the index.                                             *)
(***************************************************************************)
ScoringInv ==
    /\ scorer \in Scorers \cup {<<>>}
    /\ IF scorer = <<>> THEN entries = <<>> ELSE entries \in Seq(IndexEntry(scorer))
    /\ SearchIgnoresInsertionOrder

(* The entries are ranked by a total order.                                *)
LEMMA AheadIsOrder ==
    ASSUME NEW s \in Scorers, NEW q \in Vectors(s), Len(q) = s.dim,
           entries \in Seq(IndexEntry(s)), NEW n, n = Len(entries)
    PROVE  IsOrder(1 .. n, {r \in (1 .. n) \X (1 .. n) : Ahead(s, Prepare(s, q), r[1], r[2])})
<1> DEFINE p == Prepare(s, q)
           score(i) == Score(s, entries[i].code, p)
           before == {r \in (1 .. n) \X (1 .. n) : Ahead(s, p, r[1], r[2])}
<1>1. ASSUME NEW i \in 1 .. n PROVE score(i) \in Int /\ entries[i].id \in Nat
  <2>1. entries[i] \in IndexEntry(s)
    OBVIOUS
  <2>2. entries[i].code \in [polar : PolarCode(s), sketch : Numbers(s)] /\ entries[i].id \in Nat
    BY <2>1 DEF IndexEntry
  <2> QED
    BY <2>2, ScoreType
<1>2. ASSUME NEW i \in 1 .. n, NEW j \in 1 .. n
      PROVE  <<i, j>> \in before <=> \/ score(i) > score(j)
                                     \/ score(i) = score(j) /\ entries[i].id < entries[j].id
                                     \/ /\ score(i) = score(j) /\ entries[i].id = entries[j].id
                                        /\ i < j
  BY DEF Ahead
<1> HIDE DEF p, score, before
<1>3. \A x, y \in 1 .. n : <<x, y>> \in before => <<y, x>> \notin before
  BY <1>1, <1>2
<1>6. n \in Nat
  OBVIOUS
<1>4. ASSUME NEW x \in 1 .. n, NEW y \in 1 .. n
      PROVE  x = y \/ <<x, y>> \in before \/ <<y, x>> \in before
  <2>1. x \in Int /\ y \in Int /\ score(x) \in Int /\ score(y) \in Int
        /\ entries[x].id \in Int /\ entries[y].id \in Int
    BY <1>1, <1>6
  <2> QED
    BY <1>2, <2>1
<1>5. ASSUME NEW x \in 1 .. n, NEW y \in 1 .. n, NEW z \in 1 .. n,
             <<x, y>> \in before, <<y, z>> \in before
      PROVE  <<x, z>> \in before
  <2>1. x \in Int /\ y \in Int /\ z \in Int
        /\ score(x) \in Int /\ score(y) \in Int /\ score(z) \in Int
        /\ entries[x].id \in Int /\ entries[y].id \in Int /\ entries[z].id \in Int
    BY <1>1, <1>6
  <2> QED
    BY <1>2, <1>5, <2>1
<1> QED
  BY <1>3, <1>4, <1>5 DEF IsOrder, before, p

LEMMA SearchKeeps ==
    ASSUME ScoringInv, scorer # <<>>, NEW q \in Vectors(scorer), NEW l \in Limits, Search(q, l)
    PROVE  SearchIgnoresInsertionOrder'
<1> DEFINE s == scorer
           p == Prepare(s, q)
           N == Len(entries)
           before == {r \in (1 .. N) \X (1 .. N) : Ahead(s, p, r[1], r[2])}
           ranked == Ranked(s, q)
           limit == CandidateLimit(l)
           n == IF limit < Len(ranked) THEN limit ELSE Len(ranked)
           c == found'.candidates
<1>1. s \in Scorers /\ Len(q) = s.dim /\ entries \in Seq(IndexEntry(s)) /\ N \in Nat
      /\ entries' = entries /\ scorer' = scorer
  BY DEF ScoringInv, Search
<1>2. IsFiniteSet(1 .. N) /\ Cardinality(1 .. N) = N /\ DOMAIN entries = 1 .. N
  <2>1. 1 \in Int /\ N \in Int /\ N = IF 1 > N THEN 0 ELSE N - 1 + 1
    BY <1>1
  <2> HIDE DEF N
  <2>2. IsFiniteSet(1 .. N) /\ Cardinality(1 .. N) = IF 1 > N THEN 0 ELSE N - 1 + 1
    BY <2>1, FS_Interval
  <2>3. DOMAIN entries = 1 .. N
    BY <1>1 DEF N
  <2> QED
    BY <2>1, <2>2, <2>3
<1>3. IsOrder(1 .. N, before)
  BY <1>1, AheadIsOrder
<1>4. ranked = Ordered(1 .. N, before)
  BY <1>2 DEF Ranked
<1>5. /\ ranked \in [1 .. N -> 1 .. N]
      /\ \A x \in 1 .. N : \E i \in 1 .. N : ranked[i] = x
      /\ \A i, j \in 1 .. N : i < j <=> <<ranked[i], ranked[j]>> \in before
  <2> DEFINE S == 1 .. N
  <2>1. IsFiniteSet(S) /\ IsOrder(S, before) /\ Cardinality(S) = N
    BY <1>2, <1>3
  <2> HIDE DEF before, ranked, S
  <2>2. /\ Ordered(S, before) \in [1 .. Cardinality(S) -> S]
        /\ \A x \in S : \E i \in 1 .. Cardinality(S) : Ordered(S, before)[i] = x
        /\ \A i, j \in 1 .. Cardinality(S) :
               i < j <=> <<Ordered(S, before)[i], Ordered(S, before)[j]>> \in before
    BY <2>1, OrderedIs
  <2>3. ranked = Ordered(S, before)
    BY <1>4 DEF S
  <2>4. /\ ranked \in [1 .. N -> S]
        /\ \A x \in S : \E i \in 1 .. N : ranked[i] = x
        /\ \A i, j \in 1 .. N : i < j <=> <<ranked[i], ranked[j]>> \in before
    BY <2>1, <2>2, <2>3
  <2> QED
    BY <2>4 DEF S
<1>6. limit \in Nat /\ Len(ranked) = N /\ n \in Nat /\ n <= N
  <2>1. l.top_k \in Nat /\ l.oversample \in Nat
    BY ScoringAssumption
  <2>2. limit \in Nat
    BY <2>1 DEF CandidateLimit
  <2>3. Len(ranked) = N
    <3> HIDE DEF ranked, N
    <3> QED
      BY <1>1, <1>5, FunctionIsSeq
  <2> HIDE DEF limit, ranked, N
  <2> QED
    BY <1>1, <2>2, <2>3
<1>7. found'.query = q /\ DOMAIN c = 1 .. n
      /\ \A k \in 1 .. n : /\ c[k].id = entries[ranked[k]].id
                           /\ c[k].score = Score(s, entries[ranked[k]].code, p)
  BY DEF Search
<1> SUFFICES ASSUME NEW k \in 1 .. n, NEW i \in 1 .. N,
                    \/ Score(s, entries[i].code, p) > c[k].score
                    \/ /\ Score(s, entries[i].code, p) = c[k].score
                       /\ entries[i].id < c[k].id
             PROVE  \E m \in 1 .. n : ~(m >= k) /\ c[m].id = entries[i].id
  <2> HIDE DEF n, c, ranked
  <2>1. \A k \in 1 .. n : \A i \in 1 .. N :
            \/ Score(s, entries[i].code, p) > c[k].score
            \/ /\ Score(s, entries[i].code, p) = c[k].score
               /\ entries[i].id < c[k].id
            => \E m \in 1 .. n \ {m \in 1 .. n : m >= k} : c[m].id = entries[i].id
    OBVIOUS
  <2>2. DOMAIN entries' = 1 .. N /\ DOMAIN c = 1 .. n /\ found'.query = q
        /\ entries' = entries /\ scorer' = s
    BY <1>1, <1>2, <1>7
  <2> HIDE DEF N
  <2> QED
    BY <2>1, <2>2 DEF SearchIgnoresInsertionOrder, c
<1> HIDE DEF ranked, n, c, before
<1>8. k \in 1 .. N /\ ranked[k] \in 1 .. N
  <2>1. N \in Nat
    BY <1>1
  <2> HIDE DEF N, limit
  <2>2. k \in 1 .. N
    BY <1>6, <2>1
  <2> QED
    BY <1>5, <2>2
<1>9. <<i, ranked[k]>> \in before
  BY <1>7, <1>8 DEF before, Ahead
<1>10. PICK m \in 1 .. N : ranked[m] = i
  BY <1>5
<1>11. m < k
  <2> HIDE DEF N, limit
  <2> QED
    BY <1>5, <1>8, <1>9, <1>10
<1>12. m \in 1 .. n /\ ~(m >= k)
  BY <1>6, <1>11
<1> QED
  BY <1>7, <1>10, <1>12

LEMMA IndexIsSound == ScoringSpec => []ScoringInv
<1>1. ScoringInit => ScoringInv
  BY DEF ScoringInit, ScoringInv, SearchIgnoresInsertionOrder
<1>2. ScoringInv /\ [ScoringNext]_scoringVars => ScoringInv'
  <2> SUFFICES ASSUME ScoringInv, [ScoringNext]_scoringVars PROVE ScoringInv'
    OBVIOUS
  <2>1. CASE \E s \in Scorers : NewIndex(s)
    <3>1. scorer' \in Scorers /\ entries' = <<>> /\ found' = found
      BY <2>1 DEF NewIndex, ScoringInv
    <3>2. found = NoSearch \/ found # NoSearch
      OBVIOUS
    <3> QED
      BY <3>1 DEF ScoringInv, SearchIgnoresInsertionOrder
  <2>2. ASSUME scorer # <<>>, NEW id \in Ids, NEW v \in Vectors(scorer), Add(id, v)
        PROVE  ScoringInv'
    <3>1. scorer \in Scorers /\ Len(v) = scorer.dim /\ entries \in Seq(IndexEntry(scorer))
          /\ scorer' = scorer /\ found' = NoSearch
      BY <2>2 DEF Add, ScoringInv
    <3> DEFINE e == [id |-> id, code |-> Encode(scorer, v), of |-> v]
    <3>2. e \in IndexEntry(scorer)
      BY <3>1, EncodeType, ScoringAssumption DEF IndexEntry
    <3>3. entries' = Append(entries, e)
      BY <2>2 DEF Add
    <3> HIDE DEF e
    <3>4. entries' \in Seq(IndexEntry(scorer))
      BY <3>1, <3>2, <3>3
    <3> QED
      BY <2>2, <3>1, <3>4 DEF ScoringInv, SearchIgnoresInsertionOrder
  <2>3. ASSUME scorer # <<>>, NEW q \in Vectors(scorer), NEW l \in Limits, Search(q, l)
        PROVE  ScoringInv'
    <3>1. scorer' = scorer /\ entries' = entries
      BY <2>3 DEF Search
    <3>2. SearchIgnoresInsertionOrder'
      BY <2>3, SearchKeeps
    <3> QED
      BY <3>1, <3>2 DEF ScoringInv
  <2>4. CASE DropIndex
    BY <2>4 DEF DropIndex, ScoringInv, SearchIgnoresInsertionOrder
  <2>5. CASE UNCHANGED scoringVars
    BY <2>5 DEF scoringVars, ScoringInv, SearchIgnoresInsertionOrder
  <2> QED
    BY <2>1, <2>2, <2>3, <2>4, <2>5 DEF ScoringNext
<1> QED
  BY <1>1, <1>2, PTL DEF ScoringSpec

(* The candidates of a search do not depend on the order the entries were  *)
(* added in: every entry that scores better than a candidate, or as well   *)
(* and with a smaller id, is a candidate before it (search_prepared).      *)
THEOREM SearchesAreOrdered == ScoringSpec => []SearchIgnoresInsertionOrder
<1>1. ScoringInv => SearchIgnoresInsertionOrder
  BY DEF ScoringInv
<1> QED
  BY <1>1, IndexIsSound, PTL

(***************************************************************************)
(* Scores.  Rotating back is the adjoint of rotating: a matrix is moved to *)
(* the other side of an inner product, and the passes of the Hadamard      *)
(* transform are symmetric and commute.                                    *)
(***************************************************************************)
(* An inner product is the sum of its terms. *)
LEMMA DotIsTotal ==
    ASSUME NEW n \in Nat, NEW u \in [1 .. n -> Int], NEW v \in [1 .. n -> Int]
    PROVE  Dot(u, v) = Total(Terms(u, v), 1 .. n) /\ Terms(u, v) \in [1 .. n -> Int]
<1>1. Terms(u, v) \in [1 .. n -> Int]
  BY DEF Terms
<1>2. Dot(u, v) = SumFunction(Terms(u, v))
  BY DEF Dot, Terms
<1> QED
  BY <1>1, <1>2, SumIsTotal

(* A matrix times a vector, and its columns with the vector. *)
Rows(M, n, v) == [i \in 1 .. n |-> Dot(M[i], v)]
Columns(M, n, w) == [j \in 1 .. n |-> Dot([i \in 1 .. n |-> M[i][j]], w)]

LEMMA DotMoves ==
    ASSUME NEW n \in Nat, NEW M \in [1 .. n -> [1 .. n -> Int]],
           NEW v \in [1 .. n -> Int], NEW w \in [1 .. n -> Int]
    PROVE  Dot(Columns(M, n, w), v) = Dot(w, Rows(M, n, v))
<1>1. ASSUME NEW x \in [1 .. n -> Int], NEW y \in [1 .. n -> Int] PROVE Dot(x, y) = Inner(x, y, n)
  BY DotIsTotal DEF Inner
<1>2. Rows(M, n, v) = ByRows(M, n, v)
  <2>1. \A i \in 1 .. n : Dot(M[i], v) = Inner(M[i], v, n)
    BY <1>1
  <2> QED
    BY <2>1, Zenon DEF Rows, ByRows
<1>3. Columns(M, n, w) = ByColumns(M, n, w)
  <2>1. \A j \in 1 .. n : Dot([i \in 1 .. n |-> M[i][j]], w) = Inner(Column(M, n, j), w, n)
    <3> SUFFICES ASSUME NEW j \in 1 .. n
                 PROVE  Dot([i \in 1 .. n |-> M[i][j]], w) = Inner(Column(M, n, j), w, n)
      OBVIOUS
    <3>1. Column(M, n, j) \in [1 .. n -> Int]
      BY DEF Column
    <3>2. Dot(Column(M, n, j), w) = Inner(Column(M, n, j), w, n)
      BY <1>1, <3>1
    <3> QED
      BY <3>2, Zenon DEF Column
  <2> QED
    BY <2>1, Zenon DEF Columns, ByColumns
<1> DEFINE c == ByColumns(M, n, w)  r == ByRows(M, n, v)
<1>4. c \in [1 .. n -> Int] /\ r \in [1 .. n -> Int]
  BY ProductsAre
<1>5. Inner(c, v, n) = Inner(w, r, n)
  BY MatrixMoves
<1> HIDE DEF c, r
<1>6. Dot(c, v) = Inner(c, v, n) /\ Dot(w, r) = Inner(w, r, n)
  BY <1>1, <1>4
<1> QED
  BY <1>2, <1>3, <1>5, <1>6 DEF c, r

(***************************************************************************)
(* The passes of the Hadamard transform.                                   *)
(***************************************************************************)
(* Is i the first of its pair, and which is the other? *)
First(i, t) == ((i - 1) \div t) % 2 = 0
Partner(i, t) == IF First(i, t) THEN i + t ELSE i - t
Sign(i, t) == IF First(i, t) THEN 1 ELSE -1

LEMMA DivDiv ==
    ASSUME NEW x \in Nat, NEW m \in Nat \ {0}, NEW c \in Nat \ {0}
    PROVE  x \div (c * m) = (x \div m) \div c
<1> DEFINE a == x \div m  r == x % m  b == a \div c  e == a % c
<1>1. a \in Nat /\ r \in 0 .. m - 1 /\ x = a * m + r
  BY DivMod
<1> HIDE DEF a, r
<1>2. b \in Nat /\ e \in 0 .. c - 1 /\ a = b * c + e
  BY <1>1, DivMod
<1> HIDE DEF b, e
<1> DEFINE n == c * m  u == e * m
<1>3. n \in Nat \ {0} /\ u \in Nat
  BY <1>2
<1>4. e * m + m <= c * m
  BY <1>2, MulLess
<1>5. (b * c + e) * m = b * (c * m) + e * m
  BY <1>2
<1>6. x = b * n + (u + r) /\ u + r \in 0 .. n - 1
  <2>1. x = b * n + u + r /\ u + m <= n
    BY <1>1, <1>2, <1>4, <1>5
  <2>2. b * n \in Nat
    BY <1>2, <1>3
  <2> HIDE DEF n, u
  <2> QED
    BY <1>1, <1>3, <2>1, <2>2
<1>7. x \div n = b
  <2> DEFINE w == u + r
  <2>1. w \in 0 .. n - 1 /\ x = b * n + w
    BY <1>6
  <2> HIDE DEF n, w
  <2> QED
    BY <1>2, <1>3, <2>1, DivModUnique
<1> QED
  BY <1>7 DEF n, a, b

(* Where the first of a pair is, and that pairs are inside the vector. *)
LEMMA PairIs ==
    ASSUME NEW t \in Nat \ {0}, NEW q \in Nat, NEW d \in Nat, d = q * (2 * t),
           NEW i \in 1 .. d
    PROVE  /\ Partner(i, t) \in 1 .. d
           /\ First(Partner(i, t), t) <=> ~ First(i, t)
           /\ (Partner(i, t) - 1) \div (2 * t) = (i - 1) \div (2 * t)
<1> DEFINE n == 2 * t
           a == (i - 1) \div n
           e == (i - 1) % n
<1>1. n \in Nat \ {0} /\ i - 1 \in Nat
  OBVIOUS
<1>2. a \in Nat /\ e \in 0 .. n - 1 /\ i - 1 = a * n + e
  BY <1>1, DivMod
<1> HIDE DEF a, e
<1>3. a < q
  <2> SUFFICES ASSUME q <= a PROVE FALSE
    BY <1>2
  <2>1. n * q <= n * a
    BY <1>1, <1>2, MulMonotone
  <2>2. n * q = d /\ n * a = a * n
    BY <1>2
  <2>3. a * n \in Nat
    BY <1>1, <1>2
  <2> HIDE DEF n
  <2> QED
    BY <1>1, <1>2, <2>1, <2>2, <2>3
<1>4. a * n + n <= d
  BY <1>1, <1>2, <1>3, MulLess
<1>5. a * n \in Nat /\ a * n = (2 * a) * t /\ (2 * a + 1) * t = a * n + t
  BY <1>1, <1>2
<1>6. ASSUME NEW x \in 0 .. n - 1
      PROVE  First(a * n + x + 1, t) <=> x < t
  <2> DEFINE y == a * n + x
  <2>1. y + 1 - 1 = y /\ y \in Nat
    BY <1>5
  <2>2. CASE x < t
    <3>1. y = (2 * a) * t + x /\ x \in 0 .. t - 1 /\ 2 * a \in Nat
      BY <1>2, <1>5, <2>2
    <3>2. y \div t = 2 * a
      <4> DEFINE k == 2 * a
      <4>1. k \in Nat /\ y = k * t + x
        BY <3>1
      <4> HIDE DEF k, y
      <4>2. y \div t = k
        BY <2>1, <3>1, <4>1, DivModUnique
      <4> QED
        BY <4>2 DEF k
    <3>3. (2 * a) % 2 = 0
      BY <1>2
    <3> HIDE DEF y
    <3>4. First(y + 1, t)
      BY <2>1, <3>2, <3>3 DEF First
    <3>5. First(a * n + x + 1, t)
      BY <3>4, Zenon DEF y
    <3> QED
      BY <2>2, <3>5, Zenon
  <2>3. CASE ~(x < t)
    <3> DEFINE z == x - t
    <3>1. y = (2 * a + 1) * t + z /\ z \in 0 .. t - 1 /\ 2 * a + 1 \in Nat
      BY <1>2, <1>5, <2>3
    <3>2. y \div t = 2 * a + 1
      <4> DEFINE k == 2 * a + 1
      <4>1. k \in Nat /\ y = k * t + z
        BY <3>1
      <4> HIDE DEF k, y, z
      <4>2. y \div t = k
        BY <2>1, <3>1, <4>1, DivModUnique
      <4> QED
        BY <4>2 DEF k
    <3>3. (2 * a + 1) % 2 # 0
      BY <1>2
    <3> HIDE DEF y
    <3>4. ~ First(y + 1, t)
      BY <2>1, <3>2, <3>3 DEF First
    <3>5. ~ First(a * n + x + 1, t)
      BY <3>4, Zenon DEF y
    <3> QED
      BY <2>3, <3>5, Zenon
  <2> QED
    BY <2>2, <2>3
<1>7. First(i, t) <=> e < t
  <2>1. i = a * n + e + 1
    BY <1>2, <1>5
  <2>2. First(a * n + e + 1, t) <=> e < t
    BY <1>2, <1>6
  <2> QED
    BY <2>1, <2>2, Zenon
<1> DEFINE x == IF e < t THEN e + t ELSE e - t
<1>8. x \in 0 .. n - 1 /\ (x < t <=> ~(e < t))
  BY <1>2
<1>9. Partner(i, t) = a * n + x + 1
  <2> DEFINE z == a * n
  <2>1. z \in Nat /\ i = z + e + 1
    BY <1>2, <1>5
  <2> HIDE DEF z
  <2>2. Partner(i, t) = IF e < t THEN i + t ELSE i - t
    <3>1. CASE e < t
      <4>1. First(i, t)
        BY <1>7, <3>1, Zenon
      <4> QED
        BY <3>1, <4>1, Zenon DEF Partner
    <3>2. CASE ~(e < t)
      <4>1. ~ First(i, t)
        BY <1>7, <3>2, Zenon
      <4> QED
        BY <3>2, <4>1, Zenon DEF Partner
    <3> QED
      BY <3>1, <3>2
  <2>3. Partner(i, t) = z + x + 1
    BY <1>2, <2>1, <2>2
  <2> QED
    BY <2>3 DEF z
<1>10. First(Partner(i, t), t) <=> ~ First(i, t)
  <2>1. First(a * n + x + 1, t) <=> x < t
    BY <1>6, <1>8
  <2> HIDE DEF x, n
  <2> QED
    BY <1>7, <1>8, <1>9, <2>1, Zenon
<1>12. Partner(i, t) \in 1 .. d
  <2> DEFINE z == a * n
  <2>1. z \in Nat /\ z + n <= d /\ Partner(i, t) = z + x + 1
    BY <1>4, <1>5, <1>9
  <2> HIDE DEF z, x
  <2> QED
    BY <1>1, <1>8, <2>1
<1>13. (Partner(i, t) - 1) \div n = a
  <2> DEFINE z == a * n + x
  <2>1. Partner(i, t) - 1 = z /\ z \in Nat
    <3> DEFINE w == a * n
    <3>1. w \in Nat /\ Partner(i, t) = w + x + 1
      BY <1>5, <1>9
    <3> HIDE DEF w, x
    <3>2. Partner(i, t) - 1 = w + x /\ w + x \in Nat
      BY <1>8, <3>1
    <3> QED
      BY <3>2 DEF w
  <2>2. z \div n = a
    <3>1. z = a * n + x /\ x \in 0 .. n - 1 /\ a \in Nat /\ n \in Nat \ {0}
      BY <1>1, <1>2, <1>8
    <3> HIDE DEF z, x, n
    <3>2. (a * n + x) \div n = a
      BY <3>1, DivModUnique
    <3> QED
      BY <3>1, <3>2, Zenon
  <2> QED
    BY <2>1, <2>2
<1> QED
  BY <1>10, <1>12, <1>13 DEF a

(* The partner of the partner. *)
LEMMA PartnerBack ==
    ASSUME NEW t \in Nat \ {0}, NEW q \in Nat, NEW d \in Nat, d = q * (2 * t),
           NEW i \in 1 .. d
    PROVE  Partner(Partner(i, t), t) = i
<1>10. First(Partner(i, t), t) <=> ~ First(i, t)
  BY PairIs, Zenon
<1>11. Partner(Partner(i, t), t) = i
  <2> DEFINE j == Partner(i, t)
  <2>1. (First(j, t) <=> ~ First(i, t)) /\ j = IF First(i, t) THEN i + t ELSE i - t
    BY <1>10 DEF Partner
  <2>2. Partner(j, t) = IF First(j, t) THEN j + t ELSE j - t
    BY DEF Partner
  <2> HIDE DEF j
  <2>3. Partner(j, t) = i
    <3>1. CASE First(i, t)
      <4>1. j = i + t /\ Partner(j, t) = j - t
        BY <2>1, <2>2, <3>1
      <4> QED
        BY <4>1
    <3>2. CASE ~ First(i, t)
      <4>1. j = i - t /\ Partner(j, t) = j + t
        BY <2>1, <2>2, <3>2
      <4> QED
        BY <4>1
    <3> QED
      BY <3>1, <3>2
  <2> QED
    BY <2>3 DEF j
<1> QED
  BY <1>11
LEMMA FirstIsBool == ASSUME NEW i, NEW t PROVE First(i, t) \in BOOLEAN
  BY DEF First

(* A pass adds to each value, or subtracts it from, its partner. *)
LEMMA PassIs ==
    ASSUME NEW t \in Nat \ {0}, NEW q \in Nat, NEW d \in Nat, d = q * (2 * t),
           NEW v \in [1 .. d -> Int]
    PROVE  /\ Butterflies(v, t) \in [1 .. d -> Int]
           /\ \A i \in 1 .. d : Butterflies(v, t)[i] = Sign(i, t) * v[i] + v[Partner(i, t)]
<1>1. Butterflies(v, t) \in [1 .. d -> Int]
  BY ButterfliesType
<1>2. ASSUME NEW i \in 1 .. d
      PROVE  Butterflies(v, t)[i] = Sign(i, t) * v[i] + v[Partner(i, t)]
  <2>1. Butterflies(v, t)[i] = IF First(i, t) THEN v[i] + v[i + t] ELSE v[i - t] - v[i]
    BY DEF Butterflies, First
  <2>2. Partner(i, t) \in 1 .. d
    BY PairIs
  <2>3. CASE First(i, t)
    <3>1. Butterflies(v, t)[i] = v[i] + v[i + t] /\ Partner(i, t) = i + t /\ Sign(i, t) = 1
      BY <2>1, <2>3, Zenon DEF Partner, Sign
    <3>2. v[i] \in Int /\ v[i + t] \in Int
      BY <2>2, <3>1
    <3> QED
      BY <3>1, <3>2
  <2>4. CASE ~ First(i, t)
    <3>1. Butterflies(v, t)[i] = v[i - t] - v[i] /\ Partner(i, t) = i - t /\ Sign(i, t) = -1
      BY <2>1, <2>4, Zenon DEF Partner, Sign
    <3>2. v[i] \in Int /\ v[i - t] \in Int
      BY <2>2, <3>1
    <3> QED
      BY <3>1, <3>2
  <2> QED
    BY <2>3, <2>4
<1> QED
  BY <1>1, <1>2

LEMMA PassValues ==
    ASSUME NEW t \in Nat \ {0}, NEW q \in Nat, NEW d \in Nat, d = q * (2 * t)
    PROVE  \A v \in [1 .. d -> Int] : \A i \in 1 .. d :
               Butterflies(v, t)[i] = Sign(i, t) * v[i] + v[Partner(i, t)]
<1> SUFFICES ASSUME NEW v \in [1 .. d -> Int]
             PROVE  \A i \in 1 .. d :
                        Butterflies(v, t)[i] = Sign(i, t) * v[i] + v[Partner(i, t)]
  OBVIOUS
<1> QED
  BY PassIs

(* A pass may be moved to the other side of an inner product. *)
LEMMA PassMoves ==
    ASSUME NEW t \in Nat \ {0}, NEW q \in Nat, NEW d \in Nat, d = q * (2 * t),
           NEW v \in [1 .. d -> Int], NEW u \in [1 .. d -> Int]
    PROVE  Dot(Butterflies(v, t), u) = Dot(v, Butterflies(u, t))
<1>a. ASSUME NEW i \in 1 .. d PROVE Partner(i, t) \in 1 .. d /\ Partner(Partner(i, t), t) = i
  <2>1. Partner(i, t) \in 1 .. d
    BY PairIs
  <2>2. Partner(Partner(i, t), t) = i
    BY PartnerBack
  <2> QED
    BY <2>1, <2>2
<1>b. \A i \in 1 .. d : Butterflies(v, t)[i] = Sign(i, t) * v[i] + v[Partner(i, t)]
  BY PassIs
<1>c. \A i \in 1 .. d : Butterflies(u, t)[i] = Sign(i, t) * u[i] + u[Partner(i, t)]
  BY PassIs
<1> DEFINE N == 1 .. d
           p == [i \in N |-> Partner(i, t)]
           b == Butterflies(v, t)  c == Butterflies(u, t)
           A == [i \in N |-> Sign(i, t) * v[i] * u[i]]
           G == [i \in N |-> v[i] * u[p[i]]]
           H == [i \in N |-> v[p[i]] * u[i]]
<1>0. IsFiniteSet(N)
  BY FS_Interval
<1>1. b \in [1 .. d -> Int] /\ c \in [1 .. d -> Int]
  BY PassIs
<1>2. ASSUME NEW i \in N
      PROVE  /\ b[i] = Sign(i, t) * v[i] + v[p[i]] /\ c[i] = Sign(i, t) * u[i] + u[p[i]]
             /\ p[i] \in N /\ p[p[i]] = i /\ Sign(i, t) \in Int
             /\ v[i] \in Int /\ u[i] \in Int
  <2>1. Partner(i, t) \in N /\ Partner(Partner(i, t), t) = i
    BY <1>a
  <2>2. b[i] = Sign(i, t) * v[i] + v[Partner(i, t)]
    BY <1>b
  <2>3. c[i] = Sign(i, t) * u[i] + u[Partner(i, t)]
    BY <1>c
  <2>4. Sign(i, t) \in Int
    BY DEF Sign
  <2> HIDE DEF b, c
  <2> QED
    BY <2>1, <2>2, <2>3, <2>4
<1> DEFINE x == Terms(b, u)  y == Terms(v, c)
<1>3. Dot(b, u) = Total(x, N) /\ Dot(v, c) = Total(y, N)
      /\ x \in [N -> Int] /\ y \in [N -> Int]
  <2> HIDE DEF b, c
  <2>1. Dot(b, u) = Total(x, N) /\ x \in [N -> Int]
    BY <1>1, DotIsTotal
  <2>2. Dot(v, c) = Total(y, N) /\ y \in [N -> Int]
    BY <1>1, DotIsTotal
  <2> QED
    BY <2>1, <2>2
<1>4. ASSUME NEW i \in N
      PROVE  /\ A[i] \in Int /\ G[i] \in Int /\ H[i] \in Int
             /\ x[i] = A[i] + H[i] /\ y[i] = A[i] + G[i] /\ H[i] = G[p[i]]
  <2> DEFINE j == p[i]  e == Sign(i, t)  vi == v[i]  ui == u[i]  vj == v[j]  uj == u[j]
  <2>1. j \in N /\ p[j] = i /\ e \in Int /\ vi \in Int /\ ui \in Int /\ vj \in Int /\ uj \in Int
    BY <1>2
  <2>2. b[i] = e * vi + vj /\ c[i] = e * ui + uj
    BY <1>2
  <2>3. x[i] = b[i] * ui /\ y[i] = vi * c[i]
    BY <1>1 DEF Terms
  <2>4. A[i] = e * vi * ui /\ G[i] = vi * uj /\ H[i] = vj * ui /\ G[j] = vj * ui
    <3> HIDE DEF p
    <3> QED
      BY <2>1
  <2> HIDE DEF A, G, H, x, y, b, c, p, j, e, vi, ui, vj, uj
  <2>5. (e * vi + vj) * ui = e * vi * ui + vj * ui /\ vi * (e * ui + uj) = e * vi * ui + vi * uj
    BY <2>1
  <2>6. e * vi * ui \in Int /\ vi * uj \in Int /\ vj * ui \in Int
    BY <2>1
  <2> QED
    BY <2>2, <2>3, <2>4, <2>5, <2>6 DEF j
<1>5. p \in [N -> N] /\ (\A i \in N : \E k \in N : p[k] = i)
      /\ (\A i \in N, k \in N : p[i] = p[k] => i = k)
  <2>1. \A i \in N : p[i] \in N /\ p[p[i]] = i
    BY <1>2
  <2>2. p \in [N -> N]
    <3>1. p = [i \in N |-> p[i]]
      OBVIOUS
    <3> HIDE DEF p, N
    <3> QED
      BY <2>1, <3>1
  <2> HIDE DEF p, N
  <2>3. \A i \in N : \E k \in N : p[k] = i
    BY <2>1
  <2>4. \A i \in N, k \in N : p[i] = p[k] => i = k
    <3> SUFFICES ASSUME NEW i \in N, NEW k \in N, p[i] = p[k] PROVE i = k
      OBVIOUS
    <3>1. p[p[i]] = i /\ p[p[k]] = k
      BY <2>1
    <3> QED
      BY <3>1
  <2> QED
    BY <2>2, <2>3, <2>4
<1> HIDE DEF N, p, A, G, H, x, y, b, c
<1>6. Total(x, N) = Total(A, N) + Total(H, N)
  <2>1. \A i \in N : A[i] \in Int /\ H[i] \in Int /\ x[i] = A[i] + H[i]
    BY <1>4
  <2> QED
    BY <1>0, <2>1, TotalSums
<1>7. Total(y, N) = Total(A, N) + Total(G, N)
  <2>1. \A i \in N : A[i] \in Int /\ G[i] \in Int /\ y[i] = A[i] + G[i]
    BY <1>4
  <2> QED
    BY <1>0, <2>1, TotalSums
<1>8. Total(H, N) = Total(G, N)
  <2>1. \A i \in N : G[i] \in Int /\ H[i] = G[p[i]]
    BY <1>4
  <2> QED
    BY <1>0, <1>5, <2>1, TotalPermutes
<1> QED
  BY <1>3, <1>6, <1>7, <1>8 DEF b, c

(* Passes of different steps may change places.                            *)
LEMMA PassesCommute ==
    ASSUME NEW s \in Nat \ {0}, NEW c \in Nat \ {0}, NEW t, t = c * (2 * s),
           NEW q \in Nat, NEW d \in Nat, d = q * (2 * t), NEW v \in [1 .. d -> Int]
    PROVE  Butterflies(Butterflies(v, s), t) = Butterflies(Butterflies(v, t), s)
<1> DEFINE m == 2 * s  n == 2 * t  N == 1 .. d
           vs == Butterflies(v, s)  vt == Butterflies(v, t)
           a == Butterflies(vs, t)  b == Butterflies(vt, s)
<1>0. t \in Nat \ {0} /\ q * (2 * c) \in Nat
  OBVIOUS
<1>1. d = (q * (2 * c)) * (2 * s)
  OBVIOUS
<1>2. vs \in [1 .. d -> Int] /\ vt \in [1 .. d -> Int]
  <2>1. vs \in [1 .. d -> Int]
    BY <1>0, <1>1, PassIs
  <2>2. vt \in [1 .. d -> Int]
    BY <1>0, PassIs
  <2> QED
    BY <2>1, <2>2
<1>a. /\ \A i \in N : vs[i] = Sign(i, s) * v[i] + v[Partner(i, s)]
      /\ \A i \in N : b[i] = Sign(i, s) * vt[i] + vt[Partner(i, s)]
  <2> DEFINE k == q * (2 * c)
  <2>0. k \in Nat /\ d = k * (2 * s)
    BY <1>0, <1>1
  <2> HIDE DEF k
  <2>1. \A w \in [1 .. d -> Int] : \A i \in 1 .. d :
            Butterflies(w, s)[i] = Sign(i, s) * w[i] + w[Partner(i, s)]
    BY <2>0, PassValues
  <2> HIDE DEF vt
  <2> QED
    BY <1>2, <2>1
<1>b. /\ \A i \in N : vt[i] = Sign(i, t) * v[i] + v[Partner(i, t)]
      /\ \A i \in N : a[i] = Sign(i, t) * vs[i] + vs[Partner(i, t)]
  <2>0. t \in Nat \ {0} /\ d = q * (2 * t)
    BY <1>0
  <2>1. \A w \in [1 .. d -> Int] : \A i \in 1 .. d :
            Butterflies(w, t)[i] = Sign(i, t) * w[i] + w[Partner(i, t)]
    BY <2>0, PassValues, Zenon
  <2> HIDE DEF vs
  <2> QED
    BY <1>2, <2>1
<1>3. ASSUME NEW i \in N
      PROVE  Partner(i, s) \in N /\ vs[i] = Sign(i, s) * v[i] + v[Partner(i, s)]
             /\ b[i] = Sign(i, s) * vt[i] + vt[Partner(i, s)]
  <2> DEFINE k == q * (2 * c)
  <2>0. k \in Nat /\ d = k * (2 * s)
    BY <1>0, <1>1
  <2> HIDE DEF k
  <2>1. Partner(i, s) \in 1 .. d
    BY <2>0, PairIs
  <2> QED
    BY <1>a, <2>1
<1>4. ASSUME NEW i \in N
      PROVE  Partner(i, t) \in N /\ vt[i] = Sign(i, t) * v[i] + v[Partner(i, t)]
             /\ a[i] = Sign(i, t) * vs[i] + vs[Partner(i, t)]
  <2>1. Partner(i, t) \in 1 .. d
    BY <1>0, PairIs
  <2> QED
    BY <1>b, <2>1
<1>5. ASSUME NEW i \in N PROVE First(Partner(i, s), t) <=> First(i, t)
  <2> DEFINE j == Partner(i, s)
  <2>1. (j - 1) \div m = (i - 1) \div m
    <3> DEFINE k == q * (2 * c)
    <3>0. k \in Nat /\ d = k * (2 * s)
      BY <1>0, <1>1
    <3> HIDE DEF k
    <3> QED
      BY <3>0, PairIs, Zenon
  <2>2. j \in 1 .. d
    BY <1>3
  <2>3. ASSUME NEW x \in 1 .. d PROVE (x - 1) \div t = ((x - 1) \div m) \div c
    <3>1. x - 1 \in Nat /\ m \in Nat \ {0} /\ t = c * m
      OBVIOUS
    <3> HIDE DEF m
    <3>2. (x - 1) \div (c * m) = ((x - 1) \div m) \div c
      BY <3>1, DivDiv
    <3> QED
      BY <3>1, <3>2, Zenon
  <2> HIDE DEF j, m
  <2>4. (j - 1) \div t = (i - 1) \div t
    <3>1. (j - 1) \div t = ((j - 1) \div m) \div c
      BY <2>2, <2>3
    <3>2. (i - 1) \div t = ((i - 1) \div m) \div c
      BY <2>3
    <3> QED
      BY <2>1, <3>1, <3>2, Zenon
  <2>5. First(j, t) <=> First(i, t)
    BY <2>4, Zenon DEF First
  <2> QED
    BY <2>5 DEF j
<1>6. ASSUME NEW i \in N PROVE First(Partner(i, t), s) <=> First(i, s)
  <2> DEFINE j == Partner(i, t)  k == (i - 1) \div s  r == (i - 1) % s  e == 2 * c
  <2>0. i - 1 \in Nat /\ j \in 1 .. d /\ j - 1 \in Nat /\ e \in Nat
    <3>1. j \in 1 .. d
      BY <1>4
    <3> HIDE DEF j
    <3> QED
      BY <3>1
  <2>1. k \in Nat /\ r \in 0 .. s - 1 /\ i - 1 = k * s + r
    BY <2>0, DivMod
  <2>2. j = i + t \/ j = i - t
    <3>1. First(i, t) \/ ~ First(i, t)
      OBVIOUS
    <3> QED
      BY <3>1, Zenon DEF Partner
  <2>3. t = e * s
    OBVIOUS
  <2> HIDE DEF j, k, r
  <2>4. ASSUME NEW x \in Nat, NEW l \in Int, x = l * s + r PROVE l \in Nat /\ x \div s = l
    <3>1. l \in Nat
      <4> SUFFICES ASSUME l < 0 PROVE FALSE
        OBVIOUS
      <4> DEFINE z == -l - 1
      <4>1. z \in Nat /\ l = -(z + 1)
        OBVIOUS
      <4>2. z * s \in Nat
        BY <4>1
      <4> HIDE DEF z
      <4>3. l * s = -(z * s) - s
        BY <4>1
      <4> QED
        BY <2>1, <2>4, <4>2, <4>3
    <3> QED
      BY <2>1, <2>4, <3>1, DivModUnique
  <2>5. CASE j = i + t
    <3>1. j - 1 = (k + e) * s + r /\ k + e \in Int
      <4>1. (k + e) * s = k * s + e * s
        BY <2>0, <2>1
      <4> HIDE DEF e
      <4> QED
        BY <2>0, <2>1, <2>3, <2>5, <4>1
    <3>2. (j - 1) \div s = k + e
      BY <2>0, <2>4, <3>1
    <3>3. (k + e) % 2 = k % 2
      BY <2>1
    <3>4. First(j, s) <=> k % 2 = 0
      BY <3>2, <3>3, Zenon DEF First
    <3> QED
      BY <3>4, Zenon DEF First, k, j
  <2>6. CASE j = i - t
    <3>1. j - 1 = (k - e) * s + r /\ k - e \in Int
      <4>1. (k - e) * s = k * s - e * s
        BY <2>0, <2>1
      <4> HIDE DEF e
      <4> QED
        BY <2>0, <2>1, <2>3, <2>6, <4>1
    <3>2. (j - 1) \div s = k - e
      BY <2>0, <2>4, <3>1
    <3>3. (k - e) % 2 = k % 2
      BY <2>1
    <3>4. First(j, s) <=> k % 2 = 0
      BY <3>2, <3>3, Zenon DEF First
    <3> QED
      BY <3>4, Zenon DEF First, k, j
  <2> QED
    BY <2>2, <2>5, <2>6
<1>7. ASSUME NEW i \in N
      PROVE  /\ Partner(Partner(i, s), t) = Partner(Partner(i, t), s)
             /\ Sign(Partner(i, s), t) = Sign(i, t) /\ Sign(Partner(i, t), s) = Sign(i, s)
  <2> DEFINE j == Partner(i, s)  k == Partner(i, t)
  <2>1. (First(j, t) <=> First(i, t)) /\ (First(k, s) <=> First(i, s))
    BY <1>5, <1>6
  <2>2. j = (IF First(i, s) THEN i + s ELSE i - s) /\ k = (IF First(i, t) THEN i + t ELSE i - t)
    BY Zenon DEF Partner
  <2>3. /\ Partner(j, t) = IF First(j, t) THEN j + t ELSE j - t
        /\ Partner(k, s) = IF First(k, s) THEN k + s ELSE k - s
    BY Zenon DEF Partner
  <2>4. Sign(j, t) = Sign(i, t) /\ Sign(k, s) = Sign(i, s)
    BY <2>1, Zenon DEF Sign
  <2> HIDE DEF j, k
  <2>5. Partner(j, t) = Partner(k, s)
    <3>1. i \in Int /\ s \in Int /\ t \in Int
      BY <1>0
    <3>2. CASE First(i, s) /\ First(i, t)
      <4>1. j = i + s /\ k = i + t /\ Partner(j, t) = j + t /\ Partner(k, s) = k + s
        BY <2>1, <2>2, <2>3, <3>2, Zenon
      <4> QED
        BY <3>1, <4>1
    <3>3. CASE First(i, s) /\ ~ First(i, t)
      <4>1. j = i + s /\ k = i - t /\ Partner(j, t) = j - t /\ Partner(k, s) = k + s
        BY <2>1, <2>2, <2>3, <3>3, Zenon
      <4> QED
        BY <3>1, <4>1
    <3>4. CASE ~ First(i, s) /\ First(i, t)
      <4>1. j = i - s /\ k = i + t /\ Partner(j, t) = j + t /\ Partner(k, s) = k - s
        BY <2>1, <2>2, <2>3, <3>4, Zenon
      <4> QED
        BY <3>1, <4>1
    <3>5. CASE ~ First(i, s) /\ ~ First(i, t)
      <4>1. j = i - s /\ k = i - t /\ Partner(j, t) = j - t /\ Partner(k, s) = k - s
        BY <2>1, <2>2, <2>3, <3>5, Zenon
      <4> QED
        BY <3>1, <4>1
    <3> QED
      BY <3>2, <3>3, <3>4, <3>5
  <2> QED
    BY <2>4, <2>5 DEF j, k
<1>8. ASSUME NEW i \in N PROVE a[i] = b[i]
  <2> DEFINE j == Partner(i, s)  k == Partner(i, t)  l == Partner(j, t)
             x == Sign(i, s)  y == Sign(i, t)
             vi == v[i]  vj == v[j]  vk == v[k]  vl == v[l]
  <2>1. j \in N /\ k \in N /\ l = Partner(k, s) /\ l \in N
        /\ Sign(j, t) = y /\ Sign(k, s) = x
    <3>1. j \in N /\ k \in N
      BY <1>3, <1>4
    <3>2. l \in N
      BY <1>4, <3>1
    <3> QED
      BY <1>7, <3>1, <3>2
  <2>2. x \in Int /\ y \in Int
    BY DEF Sign
  <2>3. a[i] = y * vs[i] + vs[k] /\ b[i] = x * vt[i] + vt[j]
    BY <1>3, <1>4
  <2>4. vs[i] = x * vi + vj /\ vs[k] = x * vk + vl
    <3>1. vs[k] = Sign(k, s) * v[k] + v[Partner(k, s)]
      BY <1>3, <2>1
    <3>2. vs[i] = x * vi + vj
      BY <1>3
    <3> HIDE DEF vs, j, k, l, x, y, N
    <3> QED
      BY <2>1, <3>1, <3>2
  <2>5. vt[i] = y * vi + vk /\ vt[j] = y * vj + vl
    <3>1. vt[j] = Sign(j, t) * v[j] + v[Partner(j, t)]
      BY <1>4, <2>1
    <3>2. vt[i] = y * vi + vk
      BY <1>4
    <3> HIDE DEF vt, j, k, x, y, N
    <3> QED
      BY <2>1, <3>1, <3>2 DEF l
  <2>6. vi \in Int /\ vj \in Int /\ vk \in Int /\ vl \in Int
    <3> HIDE DEF j, k, l
    <3> QED
      BY <2>1
  <2> HIDE DEF a, b, vs, vt, j, k, l, x, y, vi, vj, vk, vl
  <2>7. y * (x * vi + vj) + (x * vk + vl) = x * (y * vi + vk) + (y * vj + vl)
    BY <2>2, <2>6
  <2> QED
    BY <2>3, <2>4, <2>5, <2>7
<1>9. a \in [1 .. d -> Int] /\ b \in [1 .. d -> Int]
  <2> DEFINE k == q * (2 * c)
  <2>0. k \in Nat /\ d = k * (2 * s)
    BY <1>0, <1>1
  <2> HIDE DEF k, vs, vt
  <2>1. a \in [1 .. d -> Int]
    BY <1>0, <1>2, PassIs
  <2>2. b \in [1 .. d -> Int]
    BY <1>2, <2>0, PassIs
  <2> QED
    BY <2>1, <2>2
<1> HIDE DEF a, b
<1>10. a = b
  BY <1>8, <1>9
<1> QED
  BY <1>10 DEF a, b

(* The vector after k passes. *)
AllPasses(v) == CHOOSE g : Passes(g, v, 10)
After(v, k) == AllPasses(v)[k]

Step(k) == 2 ^ k

LEMMA AfterIs ==
    ASSUME NEW v
    PROVE  /\ After(v, 0) = v
           /\ \A k \in 0 .. 9 : After(v, k + 1) = Butterflies(After(v, k), Step(k))
<1> DEFINE f == AllPasses(v)
<1>1. Passes(f, v, 10)
  <2>1. HasPasses(v, 10)
    BY PassesExist
  <2> QED
    BY <2>1 DEF HasPasses, AllPasses
<1> HIDE DEF f
<1>2. f[0] = v
  BY <1>1 DEF Passes
<1>3. ASSUME NEW k \in 0 .. 9 PROVE f[k + 1] = Butterflies(f[k], 2 ^ k)
  <2>1. ASSUME NEW j \in 1 .. 10 PROVE f[j] = Butterflies(f[j - 1], 2 ^ (j - 1))
    <3>1. j \in 0 .. 10 /\ j # 0
      OBVIOUS
    <3> QED
      BY <1>1, <3>1 DEF Passes
  <2>2. k + 1 \in 1 .. 10 /\ (k + 1) - 1 = k
    OBVIOUS
  <2>3. f[k + 1] = Butterflies(f[(k + 1) - 1], 2 ^ ((k + 1) - 1))
    BY <2>1, <2>2
  <2> QED
    BY <2>2, <2>3, Zenon
<1> QED
  BY <1>2, <1>3 DEF After, Step, f

LEMMA FwhtIs ==
    ASSUME NEW d \in Nat, NEW n \in 0 .. 10, Step(n) = d, NEW v \in [1 .. d -> Int]
    PROVE  Fwht(v) = After(v, n)
<1>1. Len(v) = d
  BY FunctionIsSeq
<1> DEFINE m == CHOOSE m \in 0 .. 10 : 2 ^ m = d
<1>2. m \in 0 .. 10 /\ 2 ^ m = d
  BY DEF Step
<1>3. Fwht(v) = AllPasses(v)[m]
  <2>1. AllPasses(v) = CHOOSE g : g = [k \in 0 .. 10 |->
              IF k = 0 THEN v ELSE Butterflies(g[k - 1], 2 ^ (k - 1))]
    BY DEF Passes, AllPasses
  <2> QED
    BY <1>1, <2>1 DEF Fwht
<1> HIDE DEF m
<1>4. m = n
  <2>1. IsPower(m, 2 ^ m)
    BY <1>2, PowersOfTwo
  <2>2. IsPower(n, 2 ^ n)
    BY PowersOfTwo
  <2> DEFINE x == 2 ^ m  y == 2 ^ n
  <2>3. x = y
    BY <1>2 DEF Step
  <2> HIDE DEF x, y
  <2>4. IsPower(m, x) /\ IsPower(n, x)
    BY <2>1, <2>2, <2>3 DEF x, y
  <2> QED
    BY <1>2, <2>4 DEF IsPower
<1> QED
  BY <1>3, <1>4 DEF After

(* The steps of the passes over a vector of d values. *)
StepsFit(d, n) ==
    /\ \A k \in 0 .. 9 : k < n =>
           Step(k) \in Nat \ {0} /\ \E q \in Nat : d = q * (2 * Step(k))
    /\ \A j \in 0 .. 9, k \in 0 .. 9 : j < k /\ k < n =>
           \E c \in Nat \ {0} : Step(k) = c * (2 * Step(j))

LEMMA StepsDo ==
    ASSUME NEW d \in Nat, NEW n \in 0 .. 10, Step(n) = d
    PROVE  StepsFit(d, n)
<1>1. ASSUME NEW k \in 0 .. 9, NEW m \in 0 .. 10, k < m
      PROVE  Step(k) \in Nat \ {0} /\ \E q \in Nat : Step(m) = q * (2 * Step(k))
  <2> DEFINE j == k + 1
  <2>1. j \in 1 .. 10 /\ j <= m /\ j - 1 = k
    BY <1>1
  <2> HIDE DEF j
  <2>2. 2 ^ (j - 1) \in Nat \ {0} /\ \E q \in Nat : 2 ^ m = q * (2 * 2 ^ (j - 1))
    BY <2>1, StepsDivide
  <2> QED
    BY <2>1, <2>2, Zenon DEF Step
<1>2. ASSUME NEW k \in 0 .. 9, k < n
      PROVE  Step(k) \in Nat \ {0} /\ \E q \in Nat : d = q * (2 * Step(k))
  <2>1. Step(k) \in Nat \ {0} /\ \E q \in Nat : Step(n) = q * (2 * Step(k))
    BY <1>1, <1>2
  <2> QED
    BY <2>1, Zenon
<1>3. ASSUME NEW j \in 0 .. 9, NEW k \in 0 .. 9, j < k, k < n
      PROVE  \E c \in Nat \ {0} : Step(k) = c * (2 * Step(j))
  <2>1. k \in 0 .. 10
    OBVIOUS
  <2>2. Step(j) \in Nat \ {0} /\ \E q \in Nat : Step(k) = q * (2 * Step(j))
    BY <1>1, <1>3, <2>1
  <2>3. PICK q \in Nat : Step(k) = q * (2 * Step(j))
    BY <2>2
  <2>4. Step(k) \in Nat \ {0}
    BY <1>2, <1>3
  <2>5. q # 0
    BY <2>2, <2>3, <2>4
  <2> QED
    BY <2>3, <2>5
<1> QED
  BY <1>2, <1>3 DEF StepsFit

LEMMA AfterType ==
    ASSUME NEW d \in Nat, NEW n \in 0 .. 10, StepsFit(d, n), NEW v \in [1 .. d -> Int],
           NEW k \in 0 .. n
    PROVE  After(v, k) \in [1 .. d -> Int]
<1> DEFINE Done == {m \in Nat : m <= n => After(v, m) \in [1 .. d -> Int]}
<1>1. 0 \in Done
  BY AfterIs
<1>2. ASSUME NEW m \in Nat, m \in Done PROVE m + 1 \in Done
  <2> SUFFICES ASSUME m + 1 <= n PROVE After(v, m + 1) \in [1 .. d -> Int]
    OBVIOUS
  <2>1. m \in 0 .. 9 /\ m < n /\ m <= n
    OBVIOUS
  <2>2. Step(m) \in Nat \ {0} /\ \E q \in Nat : d = q * (2 * Step(m))
    BY <2>1 DEF StepsFit
  <2>3. After(v, m) \in [1 .. d -> Int]
    BY <1>2, <2>1
  <2>4. After(v, m + 1) = Butterflies(After(v, m), Step(m))
    BY <2>1, AfterIs
  <2>5. Butterflies(After(v, m), Step(m)) \in [1 .. d -> Int]
    BY <2>2, <2>3, ButterfliesType
  <2> QED
    BY <2>4, <2>5
<1> HIDE DEF Done
<1>3. k \in Done
  <2>1. k \in Nat
    OBVIOUS
  <2> QED
    BY <1>1, <1>2, <2>1, NatSetInduction
<1> QED
  BY <1>3 DEF Done

(* A pass may be made before or after those of smaller steps. *)
LEMMA PassOvertakes ==
    ASSUME NEW d \in Nat, NEW n \in 0 .. 10, StepsFit(d, n), NEW v \in [1 .. d -> Int],
           NEW m \in 0 .. 9, m < n, NEW k \in 0 .. m
    PROVE  After(Butterflies(v, Step(m)), k) = Butterflies(After(v, k), Step(m))
<1> DEFINE u == Butterflies(v, Step(m))
           Done == {j \in Nat : j <= m => After(u, j) = Butterflies(After(v, j), Step(m))}
<1>1. 0 \in Done
  BY AfterIs
<1>2. ASSUME NEW j \in Nat, j \in Done PROVE j + 1 \in Done
  <2> SUFFICES ASSUME j + 1 <= m
               PROVE  After(u, j + 1) = Butterflies(After(v, j + 1), Step(m))
    OBVIOUS
  <2>1. j \in 0 .. 9 /\ j < m /\ j < n /\ j \in 0 .. n /\ j <= m
    OBVIOUS
  <2>2. After(u, j) = Butterflies(After(v, j), Step(m))
    BY <1>2, <2>1
  <2>3. After(u, j + 1) = Butterflies(After(u, j), Step(j))
    BY <2>1, AfterIs
  <2>4. After(v, j + 1) = Butterflies(After(v, j), Step(j))
    BY <2>1, AfterIs
  <2> DEFINE w == After(v, j)
  <2>5. w \in [1 .. d -> Int]
    BY <2>1, AfterType
  <2>6. /\ Step(j) \in Nat \ {0} /\ \E q \in Nat : d = q * (2 * Step(m))
        /\ \E c \in Nat \ {0} : Step(m) = c * (2 * Step(j))
    BY <2>1 DEF StepsFit
  <2> HIDE DEF w, u
  <2>7. Butterflies(Butterflies(w, Step(j)), Step(m)) = Butterflies(Butterflies(w, Step(m)), Step(j))
    <3> DEFINE a == Step(j)  b == Step(m)
    <3>1. a \in Nat \ {0} /\ (\E q \in Nat : d = q * (2 * b))
          /\ \E c \in Nat \ {0} : b = c * (2 * a)
      BY <2>6
    <3> HIDE DEF a, b
    <3>2. PICK q \in Nat : d = q * (2 * b)
      BY <3>1
    <3>3. PICK c \in Nat \ {0} : b = c * (2 * a)
      BY <3>1
    <3>4. Butterflies(Butterflies(w, a), b) = Butterflies(Butterflies(w, b), a)
      <4>1. a \in Nat \ {0}
        BY <3>1
      <4> QED
        BY <2>5, <4>1, <3>2, <3>3, PassesCommute
    <3> QED
      BY <3>4 DEF a, b
  <2> QED
    BY <2>2, <2>3, <2>4, <2>7 DEF w
<1> HIDE DEF Done
<1>3. k \in Done
  <2>1. k \in Nat
    OBVIOUS
  <2> QED
    BY <1>1, <1>2, <2>1, NatSetInduction
<1> QED
  BY <1>3 DEF Done

(* The passes together may be moved to the other side. *)
LEMMA PassesMove ==
    ASSUME NEW d \in Nat, NEW n \in 0 .. 10, StepsFit(d, n), NEW k \in 0 .. n,
           NEW v \in [1 .. d -> Int], NEW u \in [1 .. d -> Int]
    PROVE  Dot(After(v, k), u) = Dot(v, After(u, k))
<1> DEFINE Right(j) == \A x \in [1 .. d -> Int] : Dot(After(v, j), x) = Dot(v, After(x, j))
           Done == {j \in Nat : j <= n => Right(j)}
<1>1. 0 \in Done
  BY AfterIs
<1>2. ASSUME NEW j \in Nat, j \in Done PROVE j + 1 \in Done
  <2> SUFFICES ASSUME j + 1 <= n, NEW x \in [1 .. d -> Int]
               PROVE  Dot(After(v, j + 1), x) = Dot(v, After(x, j + 1))
    OBVIOUS
  <2>1. j \in 0 .. 9 /\ j < n /\ j \in 0 .. n /\ j <= n /\ j \in 0 .. j
    OBVIOUS
  <2> DEFINE w == After(v, j)  y == Butterflies(x, Step(j))
  <2>2. After(v, j + 1) = Butterflies(w, Step(j))
    BY <2>1, AfterIs
  <2>3. After(x, j + 1) = Butterflies(After(x, j), Step(j))
    BY <2>1, AfterIs
  <2>4. w \in [1 .. d -> Int]
    BY <2>1, AfterType
  <2>5. Step(j) \in Nat \ {0} /\ \E q \in Nat : d = q * (2 * Step(j))
    BY <2>1 DEF StepsFit
  <2>6. y \in [1 .. d -> Int]
    BY <2>5, ButterfliesType
  <2>7. After(y, j) = Butterflies(After(x, j), Step(j))
    BY <2>1, PassOvertakes
  <2>8. Dot(w, y) = Dot(v, After(y, j))
    <3>1. Right(j)
      BY <1>2, <2>1
    <3> HIDE DEF y
    <3> QED
      BY <2>6, <3>1
  <2> HIDE DEF w
  <2>9. Dot(Butterflies(w, Step(j)), x) = Dot(w, y)
    BY <2>4, <2>5, PassMoves
  <2> HIDE DEF y
  <2> QED
    BY <2>2, <2>3, <2>7, <2>8, <2>9
<1> HIDE DEF Done
<1>3. k \in Done
  <2>1. k \in Nat
    OBVIOUS
  <2> QED
    BY <1>1, <1>2, <2>1, NatSetInduction
<1> QED
  BY <1>3 DEF Done

LEMMA FwhtMoves ==
    ASSUME NEW d \in Nat, \E n \in 0 .. 10 : 2 ^ n = d,
           NEW v \in [1 .. d -> Int], NEW u \in [1 .. d -> Int]
    PROVE  Dot(Fwht(v), u) = Dot(v, Fwht(u))
<1>1. PICK n \in 0 .. 10 : Step(n) = d
  BY DEF Step
<1>2. Fwht(v) = After(v, n)
  BY <1>1, FwhtIs
<1>3. Fwht(u) = After(u, n)
  BY <1>1, FwhtIs
<1>4. StepsFit(d, n)
  BY <1>1, StepsDo
<1>5. n \in 0 .. n
  OBVIOUS
<1>6. Dot(After(v, n), u) = Dot(v, After(u, n))
  BY <1>4, <1>5, PassesMove
<1> QED
  BY <1>2, <1>3, <1>6

(* Rotating back is the adjoint of rotating. *)
LEMMA ApplyMoves ==
    ASSUME NEW s \in Scorers, NEW w \in Row(s), NEW q \in Row(s)
    PROVE  Dot(ApplyInverse(s, w), q) = Dot(w, Apply(s, q)) /\ ApplyInverse(s, w) \in Row(s)
<1> DEFINE d == s.dim
<1>1. IsScorer(s) /\ d \in Nat /\ w \in [1 .. d -> Int] /\ q \in [1 .. d -> Int]
  BY ScoringAssumption DEF IsScorer, Row
<1>2. CASE IsHadamard(s)
  <2> DEFINE g == s.signs  x == Fwht(w)  y == Scaled(q, g)  z == Scaled(x, g)
  <2>1. g \in [1 .. d -> {-1, 1}] /\ \E n \in 0 .. 10 : 2 ^ n = d
    BY <1>1, <1>2 DEF IsScorer
  <2>2. x \in [1 .. d -> Int]
    BY <1>1, <2>1, FwhtType
  <2>3. ApplyInverse(s, w) = z /\ Apply(s, q) = Fwht(y)
    BY <1>2 DEF ApplyInverse, Apply
  <2> HIDE DEF d, x, g
  <2>4. y \in [1 .. d -> Int] /\ z \in [1 .. d -> Int]
        /\ \A i \in 1 .. d : y[i] = q[i] * g[i] /\ z[i] = x[i] * g[i]
    <3>1. DOMAIN q = 1 .. d /\ DOMAIN x = 1 .. d
      BY <1>1, <2>2
    <3>2. y = [i \in 1 .. d |-> q[i] * g[i]] /\ z = [i \in 1 .. d |-> x[i] * g[i]]
      BY <3>1 DEF Scaled
    <3>3. ASSUME NEW i \in 1 .. d PROVE q[i] * g[i] \in Int /\ x[i] * g[i] \in Int
      <4>1. q[i] \in Int /\ x[i] \in Int /\ g[i] \in Int
        BY <1>1, <2>1, <2>2
      <4> DEFINE a == q[i]  b == x[i]  e == g[i]
      <4>2. a * e \in Int /\ b * e \in Int
        <5> HIDE DEF a, b, e
        <5> QED
          BY <4>1 DEF a, b, e
      <4> QED
        BY <4>2
    <3> HIDE DEF y, z
    <3> QED
      BY <3>2, <3>3
  <2> HIDE DEF y, z
  <2>5. Terms(z, q) = Terms(x, y)
    <3>1. DOMAIN z = 1 .. d /\ DOMAIN x = 1 .. d
      BY <2>2, <2>4
    <3>2. ASSUME NEW i \in 1 .. d PROVE z[i] * q[i] = x[i] * y[i]
      <4>1. x[i] \in Int /\ g[i] \in Int /\ q[i] \in Int
        BY <1>1, <2>1, <2>2
      <4> DEFINE a == x[i]  b == g[i]  e == q[i]
      <4>2. a * b * e = a * (e * b)
        <5> HIDE DEF a, b, e
        <5> QED
          BY <4>1 DEF a, b, e
      <4> QED
        BY <2>4, <4>2
    <3> QED
      BY <3>1, <3>2 DEF Terms
  <2>6. Dot(z, q) = Dot(x, y)
    <3>1. Dot(z, q) = Total(Terms(z, q), 1 .. d)
      BY <1>1, <2>4, DotIsTotal
    <3>2. Dot(x, y) = Total(Terms(x, y), 1 .. d)
      BY <1>1, <2>2, <2>4, DotIsTotal
    <3> QED
      BY <2>5, <3>1, <3>2
  <2>7. Dot(x, y) = Dot(w, Fwht(y))
    BY <1>1, <2>1, <2>4, FwhtMoves DEF x
  <2> QED
    BY <2>3, <2>4, <2>6, <2>7 DEF Row, d
<1>3. CASE ~IsHadamard(s)
  <2> DEFINE M == s.matrix
  <2>1. M \in [1 .. d -> [1 .. d -> Int]]
    BY <1>1, <1>3 DEF IsScorer
  <2>2. ApplyInverse(s, w) = Columns(M, d, w) /\ Apply(s, q) = Rows(M, d, q)
    <3>1. DOMAIN w = 1 .. d /\ DOMAIN q = 1 .. d
      BY <1>1
    <3> HIDE DEF d
    <3> QED
      BY <1>3, <3>1 DEF ApplyInverse, Apply, Columns, Rows
  <2>3. Columns(M, d, w) \in [1 .. d -> Int]
    <3> SUFFICES ASSUME NEW j \in 1 .. d PROVE Dot([i \in 1 .. d |-> M[i][j]], w) \in Int
      BY DEF Columns
    <3> DEFINE c == [i \in 1 .. d |-> M[i][j]]
    <3>1. c \in [1 .. d -> Int]
      BY <2>1
    <3> HIDE DEF c, d
    <3>2. Dot(c, w) \in Int
      BY <1>1, <3>1, DotType
    <3> QED
      BY <3>2 DEF c
  <2> HIDE DEF M, d
  <2>4. Dot(Columns(M, d, w), q) = Dot(w, Rows(M, d, q))
    BY <1>1, <2>1, DotMoves
  <2> QED
    BY <2>2, <2>3, <2>4 DEF Row, d
<1> QED
  BY <1>2, <1>3

LEMMA DirectionType ==
    ASSUME NEW k \in 0 .. 3
    PROVE  Direction[k][1] \in Int /\ Direction[k][2] \in Int
  BY DEF Direction

(* A score in the rotated space, and the inner product with the decoded.   *)
LEMMA PolarScoreIs ==
    ASSUME NEW s \in Scorers, NEW q \in Row(s), NEW polar \in PolarCode(s)
    PROVE  PolarScore(s, polar, Prepare(s, q)) = Dot(Decode(s, polar), q)
<1> DEFINE d == s.dim
           z == Apply(s, q)
           w == DecodeToRotated(s, polar)
           term(i) == polar[i].r * (z[2 * i - 1] * Direction[polar[i].angle][1]
                                     + z[2 * i] * Direction[polar[i].angle][2])
           H == [i \in 1 .. d \div 2 |-> term(i)]
           G == Terms(w, z)
<1>1. d \in Nat /\ d % 2 = 0 /\ z \in [1 .. d -> Int]
  BY ScoringAssumption, ApplyType DEF IsScorer, Row
<1>2. polar \in [1 .. d \div 2 -> [r : Int, angle : 0 .. 3]]
  BY DEF PolarCode
<1>3. PolarScore(s, polar, Prepare(s, q)) = SumFunction(H)
  <2>1. DOMAIN polar = 1 .. d \div 2
    BY <1>2
  <2> QED
    BY <2>1 DEF PolarScore, Prepare
<1> HIDE DEF d, z
<1>4. ASSUME NEW j \in 1 .. d
      PROVE  (j + 1) \div 2 \in 1 .. d \div 2 /\ ((j + 1) % 2) + 1 \in {1, 2}
  BY <1>1
<1>5. ASSUME NEW j \in 1 .. d
      PROVE  /\ w[j] = polar[(j + 1) \div 2].r
                         * Direction[polar[(j + 1) \div 2].angle][((j + 1) % 2) + 1]
             /\ w[j] \in Int
  <2> DEFINE i == (j + 1) \div 2  e == ((j + 1) % 2) + 1
  <2>1. w[j] = polar[i].r * Direction[polar[i].angle][e]
    BY DEF DecodeToRotated, d
  <2>2. i \in 1 .. d \div 2 /\ e \in {1, 2}
    BY <1>4
  <2> HIDE DEF i, e, w
  <2>3. polar[i].r \in Int /\ polar[i].angle \in 0 .. 3
    BY <1>2, <2>2
  <2>4. Direction[polar[i].angle][e] \in Int
    BY <2>2, <2>3, DirectionType
  <2>5. polar[i].r * Direction[polar[i].angle][e] \in Int
    BY <2>3, <2>4
  <2> QED
    BY <2>1, <2>5 DEF i, e
<1>6. w \in [1 .. d -> Int]
  <2>1. w = [j \in 1 .. d |-> w[j]]
    BY DEF DecodeToRotated, d
  <2> HIDE DEF w
  <2> QED
    BY <1>5, <2>1
<1> HIDE DEF w
<1>7. Dot(w, z) = Total(G, 1 .. d) /\ G \in [1 .. d -> Int]
  BY <1>1, <1>6, DotIsTotal
<1>8. ASSUME NEW i \in 1 .. d \div 2
      PROVE  H[i] = G[2 * i - 1] + G[2 * i] /\ H[i] \in Int
  <2> DEFINE a == 2 * i - 1  b == 2 * i  p == polar[i]
             x == Direction[p.angle][1]  y == Direction[p.angle][2]
  <2>1. a \in 1 .. d /\ b \in 1 .. d /\ (a + 1) \div 2 = i /\ ((a + 1) % 2) + 1 = 1
        /\ (b + 1) \div 2 = i /\ ((b + 1) % 2) + 1 = 2
    BY <1>1
  <2>2. w[a] = polar[(a + 1) \div 2].r
                         * Direction[polar[(a + 1) \div 2].angle][((a + 1) % 2) + 1]
    BY <1>5, <2>1
  <2>3. w[b] = polar[(b + 1) \div 2].r
                         * Direction[polar[(b + 1) \div 2].angle][((b + 1) % 2) + 1]
    BY <1>5, <2>1
  <2>4. H[i] = p.r * (z[a] * x + z[b] * y)
    OBVIOUS
  <2> HIDE DEF a, b, H
  <2>5. w[a] = p.r * x
    BY <2>1, <2>2
  <2>6. w[b] = p.r * y
    BY <2>1, <2>3
  <2>7. G[a] = w[a] * z[a] /\ G[b] = w[b] * z[b]
    BY <1>6, <2>1 DEF Terms
  <2>8. p \in [r : Int, angle : 0 .. 3]
    BY <1>2
  <2> HIDE DEF p, G
  <2>9. p.r \in Int /\ p.angle \in 0 .. 3
    BY <2>8
  <2>10. x \in Int /\ y \in Int
    BY <2>9, DirectionType
  <2>11. z[a] \in Int /\ z[b] \in Int
    BY <1>1, <2>1
  <2> DEFINE r == p.r  u == z[a]  v == z[b]
  <2>12. r \in Int /\ u \in Int /\ v \in Int
    BY <2>9, <2>11
  <2> HIDE DEF x, y, r, u, v
  <2>13. r * (u * x + v * y) = r * x * u + r * y * v /\ r * (u * x + v * y) \in Int
    BY <2>10, <2>12
  <2> QED
    BY <2>4, <2>5, <2>6, <2>7, <2>13 DEF a, b, r, u, v
<1>9. SumFunction(H) = Total(H, 1 .. d \div 2)
  <2>1. H \in [1 .. d \div 2 -> Int] /\ d \div 2 \in Nat
    <3>1. H = [i \in 1 .. d \div 2 |-> H[i]] /\ d \div 2 \in Nat
      BY <1>1
    <3> HIDE DEF H
    <3> QED
      BY <1>8, <3>1
  <2> HIDE DEF H
  <2> QED
    BY <2>1, SumIsTotal
<1>10. Total(H, 1 .. d \div 2) = Total(G, 1 .. d)
  <2>1. \A i \in 1 .. d \div 2 : H[i] = G[2 * i - 1] + G[2 * i]
    BY <1>8
  <2> HIDE DEF H, G
  <2> QED
    BY <1>1, <1>7, <2>1, PairsTotal
<1>11. Dot(Decode(s, polar), q) = Dot(w, z)
  <2>1. w \in Row(s)
    BY <1>6 DEF Row, d
  <2>2. Dot(ApplyInverse(s, w), q) = Dot(w, Apply(s, q))
    BY <2>1, ApplyMoves
  <2> QED
    BY <2>2 DEF Decode, w, z
<1> HIDE DEF H, G
<1> QED
  BY <1>3, <1>7, <1>9, <1>10, <1>11

(* A score taken in the rotated space, pair by pair, is the inner product  *)
(* of the query with what the code decodes to, for a rotation by signs and *)
(* Hadamard passes as for one by any matrix (turbo.rs, inner product       *)
(* without decoding).                                                      *)
THEOREM ScoresAreOfTheDecoded == ScoringSpec => []ScoreIsOfTheDecoded
<1>1. ScoringInv => ScoreIsOfTheDecoded
  <2> SUFFICES ASSUME ScoringInv, NEW i \in DOMAIN entries, NEW q \in Vectors(scorer),
                      Len(q) = scorer.dim
               PROVE  LET polar == entries[i].code.polar
                      IN  PolarScore(scorer, polar, Prepare(scorer, q))
                              = Dot(Decode(scorer, polar), q)
    BY DEF ScoreIsOfTheDecoded
  <2>1. scorer \in Scorers /\ entries \in Seq(IndexEntry(scorer))
    BY DEF ScoringInv
  <2>2. entries[i] \in IndexEntry(scorer)
    BY <2>1
  <2>3. entries[i].code.polar \in PolarCode(scorer)
    BY <2>2 DEF IndexEntry
  <2>4. q \in Row(scorer)
    BY <2>1, VectorType
  <2> QED
    BY <2>1, <2>3, <2>4, PolarScoreIs
<1> QED
  BY <1>1, IndexIsSound, PTL


(***************************************************************************)
(* The wire formats.                                                       *)
(***************************************************************************)
Senders == {Quantizer(c) : c \in {d \in Configs : ValidConfig(d)}}

LEMMA SenderIs ==
    ASSUME NEW q \in Senders
    PROVE  /\ q \in [dim : Nat, bits : Nat, proj : Nat, seed : Nat,
                     mode : {"PolarOnly", "PolarWithQjl"}, rot : {"FastHadamard", "StoredQr"}]
           /\ PolarBits(q) \in 1 .. 32 /\ Pairs(q) \in Nat \ {0} /\ Signs(q) \in Nat
           /\ q.mode = "PolarWithQjl" => q.proj > 0
<1>1. PICK c \in Configs : ValidConfig(c) /\ q = Quantizer(c)
  BY DEF Senders
<1>2. c \in [dim : Nat, bits : Nat, proj : Nat, seed : Nat,
             mode : {"PolarOnly", "PolarWithQjl"}, rot : {"Auto", "FastHadamard", "StoredQr"}]
  BY WireAssumption
<1>3. Rotation(c.rot, c.dim) \in {"FastHadamard", "StoredQr"}
  BY <1>2 DEF Rotation
<1>4. /\ q \in [dim : Nat, bits : Nat, proj : Nat, seed : Nat,
                mode : {"PolarOnly", "PolarWithQjl"}, rot : {"FastHadamard", "StoredQr"}]
      /\ q.dim = c.dim /\ q.bits = c.bits /\ q.proj = c.proj /\ q.mode = c.mode
  BY <1>1, <1>2, <1>3 DEF Quantizer
<1>5. c.dim > 0 /\ c.dim % 2 = 0 /\ c.bits \in (IF c.mode = "PolarOnly" THEN 1 ELSE 2) .. 16
      /\ (c.mode = "PolarWithQjl" => c.proj > 0)
  BY <1>1 DEF ValidConfig
<1>6. PolarBits(q) \in 1 .. 32
  BY <1>4, <1>5 DEF PolarBits
<1>7. Pairs(q) \in Nat \ {0}
  BY <1>4, <1>5 DEF Pairs
<1>8. Signs(q) \in Nat
  BY <1>4 DEF Signs
<1> QED
  BY <1>4, <1>5, <1>6, <1>7, <1>8

(* Codes of a vector under q. *)
CodesOf(q) == {code \in CodeType : ValidCode(code, q)}

(* Signs come back as they were packed. *)
LEMMA SignsComeBack ==
    ASSUME NEW signs \in Seq(Int), \A i \in DOMAIN signs : signs[i] \in {-1, 1}
    PROVE  /\ UnpackSigns(PackSigns(signs), Len(signs)) = signs
           /\ PaddingZero(PackSigns(signs), Len(signs))
<1> DEFINE n == Len(signs)
           v == [i \in DOMAIN signs |-> (signs[i] + 1) \div 2]
           bytes == PackIndices(v, 1)
           u == UnpackSigns(bytes, n)
<1>1. n \in Nat /\ DOMAIN signs = 1 .. n /\ \A i \in 1 .. n : signs[i] \in {-1, 1}
  OBVIOUS
<1>2. \A i \in 1 .. n : v[i] \in {0, 1} /\ 2 * v[i] - 1 = signs[i]
  BY <1>1
<1>3. v \in Seq(Nat) /\ Len(v) = n
  <2>1. DOMAIN v = 1 .. n /\ v = [i \in DOMAIN v |-> v[i]]
    BY <1>1
  <2> HIDE DEF v, n
  <2>2. \A i \in 1 .. n : v[i] \in Nat
    BY <1>2
  <2>3. v \in [1 .. n -> Nat]
    BY <2>1, <2>2, Zenon
  <2> QED
    BY <1>1, <2>3, FunctionIsSeq
<1> HIDE DEF v
<1> DEFINE w == 1
<1>4. w \in 1 .. 32 /\ w = 1
  OBVIOUS
<1> HIDE DEF w, n, bytes
<1>5. ASSUME NEW i \in 1 .. n PROVE u[i] = signs[i]
  <2> DEFINE k == i - 1
  <2>1. k \in Nat /\ k < n /\ k \div 1 = k /\ k % 1 = 0 /\ k + 1 = i
    BY <1>1
  <2>2. k < 8 * Ceil8(n * w)
    <3>1. Ceil8(n * w) \in Nat /\ n * w <= 8 * Ceil8(n * w)
      BY <1>3, <1>4, PackedLength
    <3>2. n * w = n
      BY <1>1, <1>4
    <3> QED
      BY <1>1, <2>1, <3>1, <3>2
  <2> HIDE DEF k
  <2>3. BitOf(PackIndices(v, w), k) = PackedDigit(v, w, k)
    BY <1>3, <1>4, <2>1, <2>2, PackedBitIs
  <2>4. PackedDigit(v, w, k) = Digit(v[i], 0)
    <3>1. k \div w = k /\ k % w = 0 /\ k < Len(v) * w
      BY <1>1, <1>3, <1>4, <2>1
    <3> QED
      BY <2>1, <3>1, Zenon DEF PackedDigit
  <2>5. Digit(v[i], 0) = v[i]
    BY <1>2 DEF Digit
  <2>6. u[i] = 2 * BitOf(bytes, k) - 1
    BY <1>1 DEF UnpackSigns, k
  <2> QED
    BY <1>2, <1>4, <2>3, <2>4, <2>5, <2>6 DEF bytes
<1>6. u = signs
  <2>1. u = [i \in 1 .. n |-> u[i]]
    BY DEF UnpackSigns
  <2>2. signs = [i \in 1 .. n |-> signs[i]]
    BY <1>1
  <2> HIDE DEF u
  <2> QED
    BY <1>5, <2>1, <2>2
<1>7. PaddingZero(bytes, n)
  <2>1. PaddingZero(PackIndices(v, w), Len(v) * w)
    BY <1>3, <1>4, PackedPadding
  <2>2. Len(v) * w = n
    BY <1>1, <1>3, <1>4
  <2> QED
    BY <1>4, <2>1, <2>2 DEF bytes
<1>8. PackSigns(signs) = bytes
  BY DEF PackSigns, bytes, v
<1> QED
  BY <1>6, <1>7, <1>8 DEF n

(* A payload read under the quantizer it was made under. *)
LEMMA PayloadComesBack ==
    ASSUME NEW q \in Senders, NEW code \in CodesOf(q)
    PROVE  Readable(Payload(code), q) /\ CodeOf(Payload(code), q) = code
<1>1. /\ code \in CodeType /\ code.dim = q.dim /\ code.bits = PolarBits(q)
      /\ Len(code.angles) = Pairs(q) /\ Len(code.signs) = Signs(q)
      /\ \A i \in DOMAIN code.angles : code.angles[i] < 2 ^ PolarBits(q)
      /\ \A i \in DOMAIN code.signs : code.signs[i] \in {-1, 1}
  BY DEF CodesOf, ValidCode
<1>2. PolarBits(q) \in 1 .. 32 /\ code.angles \in Seq(Nat) /\ code.signs \in Seq(Int)
  BY <1>1, SenderIs DEF CodeType
<1>3. UnpackIndices(PackIndices(code.angles, code.bits), Pairs(q), PolarBits(q)) = code.angles
  <2>1. DOMAIN code.angles = 1 .. Len(code.angles)
    BY <1>2
  <2>2. \A i \in 1 .. Len(code.angles) : code.angles[i] < 2 ^ PolarBits(q)
    BY <1>1, <2>1, Zenon
  <2>3. UnpackIndices(PackIndices(code.angles, PolarBits(q)), Len(code.angles), PolarBits(q))
            = code.angles
    BY <1>2, <2>2, UnpackedSame
  <2> QED
    BY <1>1, <2>3
<1>4. PaddingZero(PackIndices(code.angles, code.bits), Pairs(q) * PolarBits(q))
  BY <1>1, <1>2, PackedPadding
<1>5. UnpackSigns(PackSigns(code.signs), Signs(q)) = code.signs
      /\ PaddingZero(PackSigns(code.signs), Signs(q))
  BY <1>1, <1>2, SignsComeBack
<1>6. code = [dim |-> code.dim, bits |-> code.bits, radii |-> code.radii,
              angles |-> code.angles, signs |-> code.signs]
  BY <1>1 DEF CodeType
<1> QED
  BY <1>1, <1>3, <1>4, <1>5, <1>6 DEF Readable, CodeOf, Payload

Payloads(codes) == [i \in DOMAIN codes |-> Payload(codes[i])]

LEMMA SentIsRead ==
    ASSUME NEW q \in Senders, NEW codes \in Seq(CodesOf(q)), NEW w, w.payloads = Payloads(codes)
    PROVE  Read(w, q) = [ok |-> TRUE, codes |-> codes]
<1> DEFINE D == DOMAIN codes
           read == [i \in DOMAIN w.payloads |-> CodeOf(w.payloads[i], q)]
<1>1. DOMAIN w.payloads = D /\ \A i \in D : w.payloads[i] = Payload(codes[i])
  BY DEF Payloads
<1>2. \A i \in D : codes[i] \in CodesOf(q)
  OBVIOUS
<1>3. \A i \in D : Readable(w.payloads[i], q) /\ CodeOf(w.payloads[i], q) = codes[i]
  BY <1>1, <1>2, PayloadComesBack
<1>4. \A i \in D : ValidCode(codes[i], q)
  BY <1>2 DEF CodesOf
<1>5. read = codes
  <2>1. read = [i \in D |-> read[i]] /\ codes = [i \in D |-> codes[i]]
    BY <1>1
  <2>2. \A i \in D : read[i] = codes[i]
    BY <1>1, <1>3
  <2> HIDE DEF read, D
  <2> QED
    BY <2>1, <2>2
<1> HIDE DEF D
<1> QED
  BY <1>1, <1>3, <1>4, <1>5, Zenon DEF Read, D

(* What fits the profile of another quantizer, the signs included, is its own. *)
LEMMA SenderIsKnown ==
    ASSUME NEW q \in Senders, NEW s \in Senders,
           RotationFlag(s) = RotationFlag(q), s.dim = q.dim, PolarBits(s) = PolarBits(q),
           s.proj = q.proj, s.seed = q.seed, Signs(s) = Signs(q)
    PROVE  s = q
<1> DEFINE Sets == [dim : Nat, bits : Nat, proj : Nat, seed : Nat,
                    mode : {"PolarOnly", "PolarWithQjl"}, rot : {"FastHadamard", "StoredQr"}]
<1>1. /\ q \in Sets /\ s \in Sets
      /\ q.mode = "PolarWithQjl" => q.proj > 0
      /\ s.mode = "PolarWithQjl" => s.proj > 0
  BY SenderIs
<1>2. s.mode = q.mode
  BY <1>1 DEF Signs
<1>3. s.rot = q.rot
  BY <1>1 DEF RotationFlag
<1>4. s.bits = q.bits
  BY <1>1, <1>2 DEF PolarBits
<1>5. s.dim = q.dim /\ s.proj = q.proj /\ s.seed = q.seed
  OBVIOUS
<1> QED
  BY <1>1, <1>2, <1>3, <1>4, <1>5

LEMMA SameBytesSameSigns ==
    ASSUME NEW q \in Senders, NEW s \in Senders, NEW codec \in {"F32", "BlockLogU8"},
           s.dim = q.dim, PolarBits(s) = PolarBits(q), s.proj = q.proj,
           PayloadBytes(s, codec) = PayloadBytes(q, codec)
    PROVE  Signs(s) = Signs(q)
<1> DEFINE r == RadiiBytes(codec, Pairs(q))
           a == Ceil8(Pairs(q) * PolarBits(q))
<1>1. Pairs(s) = Pairs(q) /\ Pairs(q) \in Nat /\ PolarBits(q) \in Nat
      /\ Signs(q) \in Nat /\ Signs(s) \in Nat
  BY SenderIs DEF Pairs
<1>2. r \in Nat
  BY <1>1 DEF RadiiBytes
<1>3. a \in Nat
  <2>1. Pairs(q) * PolarBits(q) \in Nat
    BY <1>1
  <2> QED
    BY <2>1 DEF Ceil8
<1>4. PayloadBytes(s, codec) = r + a + Ceil8(Signs(s))
      /\ PayloadBytes(q, codec) = r + a + Ceil8(Signs(q))
  BY <1>1 DEF PayloadBytes
<1> HIDE DEF r, a
<1>5. Ceil8(Signs(s)) = Ceil8(Signs(q))
  <2> DEFINE x == Ceil8(Signs(s))
             y == Ceil8(Signs(q))
  <2>1. x \in Nat /\ y \in Nat
    BY <1>1 DEF Ceil8
  <2>2. r + a + x = r + a + y
    BY <1>4
  <2> HIDE DEF x, y
  <2>3. x = y
    BY <1>2, <1>3, <2>1, <2>2
  <2> QED
    BY <2>3 DEF x, y
<1>6. /\ q.proj \in Nat /\ Signs(q) \in {0, q.proj} /\ Signs(s) \in {0, q.proj}
  BY SenderIs DEF Signs
<1>7. \A n \in Nat : n > 0 => Ceil8(n) > 0
  BY DEF Ceil8
<1>8. Ceil8(0) = 0
  BY DEF Ceil8
<1> QED
  BY <1>1, <1>5, <1>6, <1>7, <1>8

(* A damaged padding is found. *)
Damaged(p, used) == [p EXCEPT !.angles[Ceil8(used)] = @ + 2 ^ (used % 8)]

LEMMA DamageIsFound ==
    ASSUME NEW q \in Senders, NEW code \in CodesOf(q),
           (Pairs(q) * PolarBits(q)) % 8 # 0
    PROVE  ~Readable(Damaged(Payload(code), Pairs(q) * PolarBits(q)), q)
<1> DEFINE used == Pairs(q) * PolarBits(q)
           bytes == PackIndices(code.angles, PolarBits(q))
           n == Ceil8(used)
           c == used % 8
           p == 2 ^ c
           worse == [bytes EXCEPT ![n] = @ + p]
<1>1. /\ code \in CodeType /\ code.bits = PolarBits(q) /\ Len(code.angles) = Pairs(q)
      /\ PolarBits(q) \in 1 .. 32 /\ code.angles \in Seq(Nat) /\ Pairs(q) \in Nat \ {0}
  BY SenderIs DEF CodesOf, ValidCode, CodeType
<1>2. used \in Nat /\ n \in Nat /\ used <= 8 * n /\ Len(bytes) = n /\ DOMAIN bytes = 1 .. n
  BY <1>1, PackedLength
<1>3. Damaged(Payload(code), used).angles = worse
  BY <1>1 DEF Damaged, Payload
<1> HIDE DEF bytes
<1>4. c \in 1 .. 7 /\ n = (used \div 8) + 1 /\ used < 8 * n /\ n \in 1 .. n
  <2> HIDE DEF used
  <2> QED
    BY <1>2 DEF Ceil8, used
<1>5. BitOf(bytes, used) = 0
  <2> HIDE DEF used, n
  <2>1. used \in used .. 8 * Len(bytes) - 1
    BY <1>2, <1>4
  <2>2. PaddingZero(bytes, used)
    BY <1>1, PackedPadding DEF bytes, used
  <2> QED
    BY <2>1, <2>2 DEF PaddingZero
<1>6. BitOf(worse, used) = 1
  <2> DEFINE x == bytes[n]
  <2>1. worse[n] = x + p
    BY <1>2, <1>4
  <2>2. BitOf(bytes, used) = (x \div p) % 2
    BY <1>4 DEF BitOf
  <2>3. BitOf(worse, used) = ((x + p) \div p) % 2
    BY <1>4, <2>1 DEF BitOf
  <2>4. x \in Nat
    <3>1. n \in 1 .. Ceil8(Len(code.angles) * PolarBits(q))
      BY <1>1, <1>4
    <3> HIDE DEF n
    <3>2. PackIndices(code.angles, PolarBits(q))[n] \in 0 .. 255
      BY <1>1, <3>1, BytesAre
    <3> QED
      BY <3>2 DEF bytes
  <2>5. p \in Nat \ {0}
    <3>1. c \in 0 .. 32
      BY <1>4
    <3> QED
      BY <3>1, Powers, Zenon
  <2> HIDE DEF x, p
  <2>6. (x + p) \div p = (x \div p) + 1 /\ x \div p \in Nat
    BY <2>4, <2>5
  <2> QED
    BY <1>5, <2>2, <2>3, <2>6
<1>7. Len(worse) = n
  <2>1. worse = [j \in 1 .. n |-> worse[j]] 
    BY <1>2
  <2> HIDE DEF worse, n
  <2> QED
    BY <1>2, <2>1
<1>8. ~PaddingZero(worse, used)
  <2> HIDE DEF used, n, worse
  <2>1. used \in used .. 8 * Len(worse) - 1
    BY <1>2, <1>4, <1>7
  <2> QED
    BY <1>6, <2>1 DEF PaddingZero
<1> QED
  BY <1>3, <1>8 DEF Readable

(* The reader has nothing else than what was sent. *)
Faithful(g, s, codes) == g.ok => g.codes = codes /\ g.reader = s

(* The payloads on their way are the ones that were sent, or the first of  *)
(* them shows its damage.                                                  *)
WireInv ==
    /\ Faithful(got, sender, sent)
    /\ wire = <<>> => ~got.ok
    /\ wire # <<>> =>
           /\ sender \in Senders /\ sent \in Seq(CodesOf(sender)) /\ sent # <<>>
           /\ wire = [magic |-> wire.magic, payloads |-> wire.payloads, len |-> wire.len,
                      head |-> wire.head]
           /\ wire.magic \in {"TQW1", "TQB1"}
           /\ wire.magic = "TQW1" => Len(sent) = 1
           /\ \/ wire.payloads = Payloads(sent)
              \/ 1 \in DOMAIN wire.payloads /\ ~Readable(wire.payloads[1], sender)

LEMMA PayloadBytesIs ==
    ASSUME NEW q \in Senders, NEW codec \in {"F32", "BlockLogU8"}
    PROVE  PayloadBytes(q, codec) \in Nat
<1>1. Pairs(q) \in Nat /\ PolarBits(q) \in Nat /\ Signs(q) \in Nat
  BY SenderIs
<1>2. RadiiBytes(codec, Pairs(q)) \in Nat
  BY <1>1 DEF RadiiBytes
<1>3. Ceil8(Pairs(q) * PolarBits(q)) \in Nat
  <2>1. Pairs(q) * PolarBits(q) \in Nat
    BY <1>1
  <2> QED
    BY <2>1 DEF Ceil8
<1>4. Ceil8(Signs(q)) \in Nat
  BY <1>1 DEF Ceil8
<1> QED
  BY <1>2, <1>3, <1>4 DEF PayloadBytes

(* Bytes as they were written are read under their own quantizer only. *)
LEMMA OneIsItsOwn ==
    ASSUME NEW s \in Senders, NEW q \in Senders, NEW code, Decoded(Encoded(code, s), q).ok
    PROVE  q = s
<1> DEFINE w == Encoded(code, s)
<1>1. ProfileFits(w.head, q) /\ w.head.signs = Signs(q)
  BY DEF Decoded, Failed
<1>2. /\ RotationFlag(s) = RotationFlag(q) /\ s.dim = q.dim /\ PolarBits(s) = PolarBits(q)
      /\ s.proj = q.proj /\ s.seed = q.seed /\ Signs(s) = Signs(q)
  BY <1>1 DEF ProfileFits, Encoded
<1> QED
  BY <1>2, SenderIsKnown

LEMMA BatchIsItsOwn ==
    ASSUME NEW s \in Senders, NEW q \in Senders, NEW codes, NEW codec \in RadiusCodecs,
           BatchDecoded(BatchEncoded(codes, s, codec), q).ok
    PROVE  q = s
<1> DEFINE w == BatchEncoded(codes, s, codec)
<1>1. /\ ProfileFits(w.head, q)
      /\ w.head.vlen = PayloadBytes(q, IF w.head.radii = 0 THEN "F32" ELSE "BlockLogU8")
  BY DEF BatchDecoded, Failed
<1>2. /\ RotationFlag(s) = RotationFlag(q) /\ s.dim = q.dim /\ PolarBits(s) = PolarBits(q)
      /\ s.proj = q.proj /\ s.seed = q.seed
  BY <1>1 DEF ProfileFits, BatchEncoded
<1>3. codec \in {"F32", "BlockLogU8"}
  BY WireAssumption
<1>4. PayloadBytes(s, codec) = PayloadBytes(q, codec)
  BY <1>1, <1>3 DEF BatchEncoded, RadiiFlag
<1>5. Signs(s) = Signs(q)
  BY <1>2, <1>3, <1>4, SameBytesSameSigns
<1> QED
  BY <1>2, <1>5, SenderIsKnown

(* What a decoder returns it has read from the payloads. *)
LEMMA DecodedIsRead ==
    ASSUME NEW w, NEW q
    PROVE  /\ Decoded(w, q).ok => w.magic = "TQW1" /\ Decoded(w, q) = Read(w, q)
           /\ BatchDecoded(w, q).ok => w.magic = "TQB1" /\ BatchDecoded(w, q) = Read(w, q)
  BY DEF Decoded, BatchDecoded, Failed

LEMMA DamagedIsNotRead ==
    ASSUME NEW w, NEW q, 1 \in DOMAIN w.payloads, ~Readable(w.payloads[1], q)
    PROVE  ~Read(w, q).ok
  BY DEF Read, Failed

(* Under the sender's quantizer only what was sent can be read. *)
LEMMA OwnReadIsSent ==
    ASSUME WireInv, wire # <<>>, Read(wire, sender).ok
    PROVE  Read(wire, sender).codes = sent
<1>1. wire.payloads = Payloads(sent)
  BY DamagedIsNotRead DEF WireInv
<1>2. sender \in Senders /\ sent \in Seq(CodesOf(sender))
  BY DEF WireInv
<1> QED
  BY <1>1, <1>2, SentIsRead

LEMMA Reads ==
    ASSUME WireInv, NEW c \in Configs, ReadOne(c) \/ ReadBatch(c)
    PROVE  WireInv'
<1> DEFINE q == Quantizer(c)
<1>1. wire # <<>> /\ q \in Senders /\ UNCHANGED <<sender, sent, wire>>
  BY DEF ReadOne, ReadBatch, Senders
<1>2. sender \in Senders
  BY <1>1 DEF WireInv
<1>3. \/ got' = ReadBy(q, Decoded(wire, q))
      \/ got' = ReadBy(q, BatchDecoded(wire, q))
  BY DEF ReadOne, ReadBatch
<1>4. AsWritten \/ q = sender
  BY DEF ReadOne, ReadBatch
<1> HIDE DEF q
<1>5. Faithful(got', sender, sent)
  <2> SUFFICES ASSUME got'.ok PROVE got'.codes = sent /\ got'.reader = sender
    BY DEF Faithful
  <2>1. /\ got'.reader = q
        /\ \/ Decoded(wire, q).ok /\ got'.codes = Decoded(wire, q).codes
           \/ BatchDecoded(wire, q).ok /\ got'.codes = BatchDecoded(wire, q).codes
    BY <1>3 DEF ReadBy
  <2>2. Read(wire, q).ok /\ got'.codes = Read(wire, q).codes
    BY <2>1, DecodedIsRead
  <2>3. q = sender
    <3>1. CASE wire = Encoded(sent[1], sender)
      <4>1. wire.magic = "TQW1"
        BY <3>1 DEF Encoded
      <4>2. Decoded(wire, q).ok
        BY <2>1, <4>1, DecodedIsRead
      <4> QED
        BY <1>1, <1>2, <3>1, <4>2, OneIsItsOwn
    <3>2. ASSUME NEW r \in RadiusCodecs, wire = BatchEncoded(sent, sender, r)
          PROVE  q = sender
      <4>1. wire.magic = "TQB1"
        BY <3>2 DEF BatchEncoded
      <4>2. BatchDecoded(wire, q).ok
        BY <2>1, <4>1, DecodedIsRead
      <4> QED
        BY <1>1, <1>2, <3>2, <4>2, BatchIsItsOwn
    <3> QED
      BY <1>4, <3>1, <3>2 DEF AsWritten
  <2> QED
    BY <1>1, <2>1, <2>2, <2>3, OwnReadIsSent
<1> QED
  BY <1>1, <1>5 DEF WireInv

(* A batch a caller can have. *)
Batches(c) == {codes \in Seq(Codes(Quantizer(c))) : codes # <<>>}

LEMMA Sends ==
    ASSUME WireInv, NEW c \in Configs, NEW codes \in Batches(c), NEW w, Send(c, codes, w),
           w = [magic |-> w.magic, payloads |-> w.payloads, len |-> w.len, head |-> w.head],
           w.magic \in {"TQW1", "TQB1"}, w.magic = "TQW1" => Len(codes) = 1,
           w.payloads = Payloads(codes)
    PROVE  WireInv'
<1> DEFINE q == Quantizer(c)
<1>1. /\ wire = <<>> /\ ValidConfig(c) /\ \A i \in DOMAIN codes : ValidCode(codes[i], q)
      /\ sender' = q /\ sent' = codes /\ wire' = w /\ got' = got
  BY DEF Send
<1>2. ~got.ok
  BY <1>1 DEF WireInv
<1>3. q \in Senders
  BY <1>1 DEF Senders
<1>4. codes \in Seq(Codes(q)) /\ codes # <<>> /\ \A code \in Codes(q) : code \in CodeType
  BY <1>1, CodeAssumption DEF Batches
<1> HIDE DEF q
<1>5. codes \in Seq(CodesOf(q))
  <2>1. \A i \in 1 .. Len(codes) : codes[i] \in CodesOf(q)
    BY <1>1, <1>4 DEF CodesOf
  <2>2. codes = [i \in 1 .. Len(codes) |-> codes[i]] /\ Len(codes) \in Nat
    BY <1>4
  <2> DEFINE n == Len(codes)
  <2> HIDE DEF n
  <2>3. codes = [i \in 1 .. n |-> codes[i]] /\ n \in Nat /\ \A i \in 1 .. n : codes[i] \in CodesOf(q)
    BY <2>1, <2>2 DEF n
  <2> QED
    BY <2>3, FunctionIsSeq
<1> QED
  BY <1>1, <1>2, <1>3, <1>4, <1>5 DEF WireInv, Faithful

LEMMA OneIsSent ==
    ASSUME WireInv, NEW c \in Configs, NEW code \in Codes(Quantizer(c)), EncodeOne(c, code)
    PROVE  WireInv'
<1> DEFINE w == Encoded(code, Quantizer(c))
<1>1. Send(c, <<code>>, w)
  BY DEF EncodeOne
<1>2. <<code>> \in Batches(c) /\ Len(<<code>>) = 1
  BY DEF Batches
<1>3. /\ w = [magic |-> w.magic, payloads |-> w.payloads, len |-> w.len, head |-> w.head]
      /\ w.magic = "TQW1"
  BY DEF Encoded
<1>4. w.payloads = Payloads(<<code>>)
  <2>1. w.payloads = <<Payload(code)>>
    BY DEF Encoded
  <2>2. DOMAIN <<code>> = 1 .. 1 /\ <<code>>[1] = code
    OBVIOUS
  <2>3. Payloads(<<code>>) = [i \in 1 .. 1 |-> Payload(code)]
    BY <2>2 DEF Payloads
  <2> QED
    BY <2>1, <2>3
<1> HIDE DEF w
<1> QED
  BY <1>1, <1>2, <1>3, <1>4, Sends

LEMMA BatchIsSent ==
    ASSUME WireInv, NEW c \in Configs, NEW codec \in RadiusCodecs, NEW n \in 1 .. MaxBatch,
           NEW codes \in [1 .. n -> Codes(Quantizer(c))], EncodeBatch(c, codes, codec)
    PROVE  WireInv'
<1> DEFINE w == BatchEncoded(codes, Quantizer(c), codec)
<1>1. Send(c, codes, w) /\ codes # <<>>
  BY DEF EncodeBatch
<1>2. codes \in Batches(c)
  <2>1. codes \in Seq(Codes(Quantizer(c)))
    BY WireAssumption
  <2> QED
    BY <1>1, <2>1 DEF Batches
<1>3. /\ w = [magic |-> w.magic, payloads |-> w.payloads, len |-> w.len, head |-> w.head]
      /\ w.magic = "TQB1" /\ w.payloads = Payloads(codes)
  BY DEF BatchEncoded, Payloads
<1> HIDE DEF w
<1> QED
  BY <1>1, <1>2, <1>3, Sends

LEMMA WireInitially == WireInit => WireInv
  BY DEF WireInit, WireInv, Faithful, Nothing, ReadBy, Failed

(* What changes no payload. *)
LEMMA ChangesOutside ==
    ASSUME WireInv, Intact, UNCHANGED <<sender, sent, got>>,
           NEW len, NEW head,
           wire' = [magic |-> wire.magic, payloads |-> wire.payloads, len |-> len, head |-> head]
    PROVE  WireInv'
<1>1. wire # <<>> /\ ~got.ok
  BY DEF Intact, Nothing, ReadBy, Failed
<1>2. wire'.magic = wire.magic /\ wire'.payloads = wire.payloads
      /\ wire' = [magic |-> wire'.magic, payloads |-> wire'.payloads, len |-> wire'.len,
                  head |-> wire'.head]
  OBVIOUS
<1> QED
  BY <1>1, <1>2 DEF WireInv, Faithful

LEMMA Resizes ==
    ASSUME WireInv, NEW n, Resize(n)
    PROVE  WireInv'
<1>1. /\ Intact /\ UNCHANGED <<sender, sent, got>>
      /\ wire' = [wire EXCEPT !.len = n]
  BY DEF Resize
<1>2. wire = [magic |-> wire.magic, payloads |-> wire.payloads, len |-> wire.len,
              head |-> wire.head]
  BY <1>1 DEF WireInv, Intact
<1>3. wire' = [magic |-> wire.magic, payloads |-> wire.payloads, len |-> n, head |-> wire.head]
  BY <1>1, <1>2
<1> QED
  BY <1>1, <1>3, ChangesOutside

LEMMA FieldDamages ==
    ASSUME WireInv, NEW f, NEW v, DamageField(f, v)
    PROVE  WireInv'
<1> DEFINE head == [wire.head EXCEPT ![f] = v]
<1>1. /\ Intact /\ UNCHANGED <<sender, sent, got>>
      /\ wire' = [wire EXCEPT !.head = head]
  BY DEF DamageField
<1>2. wire = [magic |-> wire.magic, payloads |-> wire.payloads, len |-> wire.len,
              head |-> wire.head]
  BY <1>1 DEF WireInv, Intact
<1> HIDE DEF head
<1>3. wire' = [magic |-> wire.magic, payloads |-> wire.payloads, len |-> wire.len,
               head |-> head]
  BY <1>1, <1>2
<1> QED
  BY <1>1, <1>3, ChangesOutside

LEMMA PaddingDamages ==
    ASSUME WireInv, DamagePadding
    PROVE  WireInv'
<1> DEFINE used == Pairs(sender) * PolarBits(sender)
           payloads == [wire.payloads EXCEPT ![1] = Damaged(@, used)]
<1>1. /\ Intact /\ UNCHANGED <<sender, sent, got>> /\ used % 8 # 0
      /\ wire' = [wire EXCEPT !.payloads = payloads]
  BY DEF DamagePadding, Damaged
<1>2. /\ wire # <<>> /\ ~got.ok /\ AsWritten
      /\ sender \in Senders /\ sent \in Seq(CodesOf(sender)) /\ sent # <<>>
      /\ wire = [magic |-> wire.magic, payloads |-> wire.payloads, len |-> wire.len,
                 head |-> wire.head]
  BY <1>1 DEF Intact, WireInv, Nothing, ReadBy, Failed
<1>3. sent[1] \in CodesOf(sender) /\ 1 \in DOMAIN sent
  BY <1>2
<1>4. 1 \in DOMAIN wire.payloads /\ wire.payloads[1] = Payload(sent[1])
  <2>1. CASE wire = Encoded(sent[1], sender)
    <3>1. wire.payloads = <<Payload(sent[1])>>
      BY <2>1 DEF Encoded
    <3> QED
      BY <3>1
  <2>2. ASSUME NEW r \in RadiusCodecs, wire = BatchEncoded(sent, sender, r)
        PROVE  1 \in DOMAIN wire.payloads /\ wire.payloads[1] = Payload(sent[1])
    <3>1. wire.payloads = [i \in DOMAIN sent |-> Payload(sent[i])]
      BY <2>2 DEF BatchEncoded
    <3> QED
      BY <1>3, <3>1
  <2> QED
    BY <1>2, <2>1, <2>2 DEF AsWritten
<1>5. 1 \in DOMAIN payloads /\ payloads[1] = Damaged(Payload(sent[1]), used)
  BY <1>4
<1>6. ~Readable(payloads[1], sender)
  BY <1>1, <1>2, <1>3, <1>5, DamageIsFound
<1> HIDE DEF payloads, used
<1>7. wire' = [magic |-> wire.magic, payloads |-> payloads, len |-> wire.len,
               head |-> wire.head]
  BY <1>1, <1>2
<1>8. wire'.magic = wire.magic /\ wire'.payloads = payloads
      /\ wire' = [magic |-> wire'.magic, payloads |-> wire'.payloads, len |-> wire'.len,
                  head |-> wire'.head]
  BY <1>7
<1> QED
  BY <1>1, <1>2, <1>5, <1>6, <1>8 DEF WireInv, Faithful

LEMMA WireNextKeeps == WireInv /\ [WireNext]_wireVars => WireInv'
<1> SUFFICES ASSUME WireInv, [WireNext]_wireVars PROVE WireInv'
  OBVIOUS
<1>1. CASE \E c \in Configs : \E code \in Codes(Quantizer(c)) : EncodeOne(c, code)
  BY <1>1, OneIsSent
<1>2. CASE \E c \in Configs, codec \in RadiusCodecs :
               \E n \in 1 .. MaxBatch : \E codes \in [1 .. n -> Codes(Quantizer(c))] :
                   EncodeBatch(c, codes, codec)
  BY <1>2, BatchIsSent
<1>3. CASE \E n : Resize(n)
  BY <1>3, Resizes
<1>4. CASE \E f, v : DamageField(f, v)
  BY <1>4, FieldDamages
<1>5. CASE DamagePadding
  BY <1>5, PaddingDamages
<1>6. CASE \E c \in Configs : ReadOne(c) \/ ReadBatch(c)
  BY <1>6, Reads
<1>7. CASE Drop
  BY <1>7 DEF Drop, WireInv, Faithful, Nothing, ReadBy, Failed
<1>8. CASE UNCHANGED wireVars
  BY <1>8 DEF wireVars, WireInv, Faithful
<1> QED
  BY <1>1, <1>2, <1>3, <1>4, <1>5, <1>6, <1>7, <1>8 DEF WireNext

(* Whatever happened to the bytes on their way, or whatever quantizer they *)
(* are read under, decode and decode_batch return an error or exactly the  *)
(* codes that were sent, and those only under the sender's own quantizer.  *)
THEOREM DecodesToTheSent == WireSpec => []DecodedIsSent
<1>1. WireInv => DecodedIsSent
  BY DEF WireInv, Faithful, DecodedIsSent
<1> QED
  BY <1>1, WireInitially, WireNextKeeps, PTL DEF WireSpec

LEMMA OwnOneDecodes ==
    ASSUME NEW q \in Senders, NEW code \in CodesOf(q)
    PROVE  Decoded(Encoded(code, q), q) = Read(Encoded(code, q), q)
<1> DEFINE n == PayloadBytes(q, "F32")
           w == Encoded(code, q)
<1>1. n \in Nat
  BY PayloadBytesIs
<1> HIDE DEF n
<1>2. /\ w.magic = "TQW1" /\ w.len = 46 + n /\ w.head.variant = 1 /\ w.head.reserved = 0
      /\ w.head.blocks = Pairs(q) /\ w.head.signs = Signs(q) /\ w.head.plen = n
      /\ ProfileFits(w.head, q)
  BY DEF Encoded, ProfileFits, n
<1>3. w.len >= 46 /\ w.len = 46 + w.head.plen
  BY <1>1, <1>2
<1> HIDE DEF w
<1> QED
  BY <1>2, <1>3, Zenon DEF Decoded, w, n

LEMMA OwnBatchDecodes ==
    ASSUME NEW q \in Senders, NEW codes \in Seq(CodesOf(q)), NEW codec \in {"F32", "BlockLogU8"}
    PROVE  BatchDecoded(BatchEncoded(codes, q, codec), q) = Read(BatchEncoded(codes, q, codec), q)
<1> DEFINE n == PayloadBytes(q, codec)
           w == BatchEncoded(codes, q, codec)
<1>1. n \in Nat /\ Len(codes) \in Nat
  BY PayloadBytesIs
<1> HIDE DEF n
<1>2. /\ w.magic = "TQB1" /\ w.len = 38 + Len(codes) * n /\ w.head.variant = 2
      /\ w.head.radii = RadiiFlag(codec) /\ w.head.n = Len(codes) /\ w.head.vlen = n
      /\ ProfileFits(w.head, q)
  BY DEF BatchEncoded, ProfileFits, n
<1>3. w.head.radii \in {0, 1}
      /\ n = PayloadBytes(q, IF w.head.radii = 0 THEN "F32" ELSE "BlockLogU8")
  BY <1>2 DEF RadiiFlag, n
<1>4. w.len >= 38 /\ w.len = 38 + w.head.n * w.head.vlen
  <2>1. Len(codes) * n \in Nat
    BY <1>1
  <2> HIDE DEF w
  <2> QED
    BY <1>2, <2>1
<1> HIDE DEF w
<1> QED
  BY <1>2, <1>3, <1>4, Zenon DEF BatchDecoded, w

(* Bytes that arrive as encode, or encode_batch_with_radii under F32 or    *)
(* BlockLogU8, wrote them are read back under their own quantizer, and a   *)
(* packed sidecar unpacks to the code it was made from.                    *)
THEOREM OwnBytesComeBack == WireSpec => []OwnWireDecodes
<1>1. ASSUME WireInv PROVE OwnWireDecodes
  <2> SUFFICES ASSUME wire # <<>>
               PROVE  /\ Repacked(sent[1], sender) = sent[1]
                      /\ wire = Encoded(sent[1], sender) =>
                             Decoded(wire, sender) = [ok |-> TRUE, codes |-> sent]
                      /\ wire \in {BatchEncoded(sent, sender, r) : r \in {"F32", "BlockLogU8"}} =>
                             BatchDecoded(wire, sender) = [ok |-> TRUE, codes |-> sent]
    BY DEF OwnWireDecodes
  <2>1. sender \in Senders /\ sent \in Seq(CodesOf(sender)) /\ sent # <<>>
        /\ (wire.magic = "TQW1" => Len(sent) = 1)
    BY <1>1 DEF WireInv
  <2>2. sent[1] \in CodesOf(sender)
    BY <2>1
  <2>3. Repacked(sent[1], sender) = sent[1]
    BY <2>1, <2>2, PayloadComesBack DEF Repacked
  <2>4. ASSUME wire = Encoded(sent[1], sender)
        PROVE  Decoded(wire, sender) = [ok |-> TRUE, codes |-> sent]
    <3>1. wire.magic = "TQW1" /\ wire.payloads = <<Payload(sent[1])>>
      BY <2>4 DEF Encoded
    <3>2. wire.payloads = Payloads(sent)
      <4>1. DOMAIN sent = 1 .. 1
        BY <2>1, <3>1
      <4>2. Payloads(sent) = [i \in 1 .. 1 |-> Payload(sent[1])]
        BY <4>1 DEF Payloads
      <4> QED
        BY <3>1, <4>2
    <3>3. Decoded(wire, sender) = Read(wire, sender)
      BY <2>1, <2>2, <2>4, OwnOneDecodes
    <3> QED
      BY <2>1, <3>2, <3>3, SentIsRead
  <2>5. ASSUME NEW r \in {"F32", "BlockLogU8"}, wire = BatchEncoded(sent, sender, r)
        PROVE  BatchDecoded(wire, sender) = [ok |-> TRUE, codes |-> sent]
    <3>1. wire.payloads = Payloads(sent)
      BY <2>5 DEF BatchEncoded, Payloads
    <3>2. BatchDecoded(wire, sender) = Read(wire, sender)
      BY <2>1, <2>5, OwnBatchDecodes
    <3> QED
      BY <2>1, <3>1, <3>2, SentIsRead
  <2> QED
    BY <2>3, <2>4, <2>5
<1> QED
  BY <1>1, WireInitially, WireNextKeeps, PTL DEF WireSpec
=============================================================================
