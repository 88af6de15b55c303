------------------------------- MODULE TurboKv -------------------------------
(***************************************************************************)
(* The key/value cache of one attention head (turbo-quant kv.rs) and the   *)
(* sparse prefill plans made from its scores (sparse_prefill.rs).          *)
(*                                                                         *)
(* A key is its score against the one query and a value a number.  The     *)
(* estimate from a compressed key is its score rounded down to an even     *)
(* number; NaN is a vector that is not finite.  The exponential of a score *)
(* below the best by d is 2^(Underflow - d), and nothing when d is more    *)
(* than Underflow.  Ratios are pairs of numbers.                           *)
(*                                                                         *)
(* A definition whose name starts with Wrong is a mistake the definition   *)
(* after it could have had.                                                *)
(***************************************************************************)
EXTENDS Integers, Sequences, FiniteSets, FiniteSetsExt, SequencesExt

CONSTANTS
    Policies,   \* runtime configurations: key and value policy, shadow
    TokenPairs, \* key and value vectors of tokens
    NaN,        \* a key or value that is not finite
    None,       \* a part that a token does not keep
    Error,      \* the error of a call
    MaxTokens,  \* tokens in the cache
    Underflow,  \* the distance at which an exponential is nothing
    Plans       \* sparse prefill configurations

(* Vectors are finite or NaN, no mark is a number, and the savings that a  *)
(* plan asks for are no more than everything.                              *)
ASSUME KvAssumption ==
    /\ Underflow \in Nat
    /\ {NaN, None, Error} \cap Int = {} /\ NaN # None /\ NaN # Error /\ None # Error
    /\ TokenPairs \subseteq (Int \cup {NaN}) \X (Int \cup {NaN})
    /\ \A c \in Plans :
           /\ c.top_k \in Nat /\ c.max_tokens \in Nat
           /\ c.saved \in Nat \X (Nat \ {0}) /\ c.saved[1] <= c.saved[2]

VARIABLES
    config,     \* the configuration of the cache, <<>> for none
    tokens,     \* its tokens
    receipts    \* the comparison made last, <<>> for none

kvVars == <<config, tokens, receipts>>

-----------------------------------------------------------------------------
(* The cache.                                                              *)

(* quantizer.encode: an error for a vector that is not finite. *)
Coarse(x) == IF x = NaN THEN Error ELSE 2 * (x \div 2)

Compressed(policy, x) == IF policy = "Exact" THEN None ELSE Coarse(x)

Shadow(c, x) == IF c.shadow THEN x ELSE None

(* compress_token: both vectors are encoded before the token is pushed.    *)
Tokens(c, pair) ==
    IF Error \in {Compressed(c.key, pair[1]), Compressed(c.value, pair[2])} THEN tokens
    ELSE Append(tokens,
             [ck |-> Compressed(c.key, pair[1]), cv |-> Compressed(c.value, pair[2]),
              ek |-> Shadow(c, pair[1]), ev |-> Shadow(c, pair[2])])

(* exact_attention_scores and attention_scores. *)
ExactScores ==
    IF \E i \in DOMAIN tokens : tokens[i].ek = None THEN Error
    ELSE [i \in DOMAIN tokens |-> tokens[i].ek]

AttentionScores ==
    IF config.key = "Exact" THEN ExactScores
    ELSE [i \in DOMAIN tokens |-> tokens[i].ck]

-----------------------------------------------------------------------------
(* Sparse prefill.  Indices count from 0, as in the code.                  *)

Indices(s) == 0 .. Len(s) - 1
At(s, i) == s[i + 1]
Best(s) == IF s = <<>> THEN 0 ELSE Max(Range(s))

(* (score - max).exp() *)
Weight(s, i) ==
    LET d == Best(s) - At(s, i) IN IF d > Underflow THEN 0 ELSE 2 ^ (Underflow - d)

WeightOf(s, I) == MapThenSumSet(LAMBDA i : Weight(s, i), I)

(* The first n of I by falling key, equal ones by index: top_indices,      *)
(* cap_selected_by_score and the rankings of adaptive_mass_selection.      *)
TopIndices(I, key(_), n) ==
    {i \in I : Cardinality({j \in I : key(j) > key(i) \/ (key(j) = key(i) /\ j < i)}) < n}

Recent(s, c) == {i \in Indices(s) : i >= Len(s) - c.recent}
Anchors(s, c) == {i \in Indices(s) : i < c.anchors}

Blocks(s, c) == {b \in Indices(s) : b % c.block_size = 0}
Block(s, c, b) == {i \in Indices(s) : b <= i /\ i < b + c.block_size}

(* block_scores_excluding: what is selected already adds nothing to its    *)
(* block, which still competes. *)
TopBlocks(s, c, excluded) ==
    TopIndices(Blocks(s, c), LAMBDA b : WeightOf(s, Block(s, c, b) \ excluded), c.max_blocks)

MinOf(a, b) == IF a < b THEN a ELSE b

(* adaptive_mass_selection: the tokens that the savings leave, at least    *)
(* one. *)
TokenCap(s, c) ==
    LET left == (Len(s) * (c.saved[2] - c.saved[1])) \div c.saved[2]
        cap == MinOf(c.max_tokens, left)
    IN IF cap < 1 THEN 1 ELSE cap

TopK(s, c) == MinOf(c.top_k, Len(s))

WrongAdaptiveRefuses(s, c) == FALSE
AdaptiveRefuses(s, c) == s # <<>> /\ c.include_top_k /\ TopK(s, c) > TokenCap(s, c)

Reached(s, c, I) ==
    WeightOf(s, I) * c.target[2] >= c.target[1] * WeightOf(s, Indices(s))

(* Tokens by falling weight: those of the top k, then until the target or  *)
(* the cap. *)
Adaptive(s, c) ==
    LET First(n) == TopIndices(Indices(s), LAMBDA i : Weight(s, i), n)
        least == IF c.include_top_k THEN TopK(s, c) ELSE 0
        Stops(n) == n >= least /\ (Reached(s, c, First(n)) \/ n >= TokenCap(s, c))
    IN IF s = <<>> THEN {}
       ELSE First(CHOOSE n \in least .. Len(s) :
                (Stops(n) \/ n = Len(s)) /\ \A m \in least .. n - 1 : ~Stops(m))

Expanded(s, pattern, c) ==
    CASE pattern = "AShape" -> Anchors(s, c) \union Recent(s, c)
      [] pattern = "VerticalSlash" ->
             {i \in Indices(s) : i % c.stride = 0} \union Recent(s, c)
      [] pattern = "BlockSparse" ->
             UNION {Block(s, c, b) : b \in TopBlocks(s, c, {})}
      [] pattern = "Hybrid" ->
             LET kept == Anchors(s, c) \union Recent(s, c)
             IN kept \union UNION {Block(s, c, b) : b \in TopBlocks(s, c, kept)}
      [] pattern = "AdaptiveMass" -> Adaptive(s, c)

(* build_sparse_prefill_plan: the hard cap keeps the best scores. *)
WrongSelected(s, pattern, c) ==
    TopIndices(Expanded(s, pattern, c), LAMBDA i : -i, c.max_tokens)

Selected(s, pattern, c) ==
    TopIndices(Expanded(s, pattern, c), LAMBDA i : At(s, i), c.max_tokens)

PlanFails(s, pattern, c) ==
    \/ NaN \in Range(s)
    \/ 0 \in {c.stride, c.block_size, c.max_blocks, c.max_tokens}
    \/ pattern = "AdaptiveMass" /\ AdaptiveRefuses(s, c)

(* compare_sparse_prefill. *)
Comparison(s, pattern, c) ==
    LET selected == Selected(s, pattern, c)
        full == TopIndices(Indices(s), LAMBDA i : At(s, i), TopK(s, c))
    IN [scores |-> s, pattern |-> pattern, config |-> c, selected |-> selected,
        full_top |-> full,
        sparse_top |-> TopIndices(selected, LAMBDA i : At(s, i), TopK(s, c)),
        recall |-> IF full = {} THEN <<0, 1>>
                   ELSE <<Cardinality(full \intersect selected), Cardinality(full)>>,
        mass |-> IF s = <<>> THEN <<0, 1>>
                 ELSE <<WeightOf(s, selected), WeightOf(s, Indices(s))>>,
        saved |-> IF s = <<>> THEN <<0, 1>>
                  ELSE <<Len(s) - Cardinality(selected), Len(s)>>]

-----------------------------------------------------------------------------
KvInit ==
    config = <<>> /\ tokens = <<>> /\ receipts = <<>>

NewRuntime(c) ==
    /\ config = <<>>
    /\ config' = c
    /\ UNCHANGED <<tokens, receipts>>

CompressToken(pair) ==
    /\ config # <<>>
    /\ tokens' = Tokens(config, pair)
    /\ UNCHANGED <<config, receipts>>

(* compare_cache_sparse_prefill, and with_options, which takes the scores  *)
(* of the configured path. *)
Compare(s, pattern, c) ==
    /\ config # <<>> /\ s \in {ExactScores, AttentionScores} \ {Error}
    /\ ~PlanFails(s, pattern, c)
    /\ receipts = <<>>
    /\ receipts' = <<Comparison(s, pattern, c)>>
    /\ UNCHANGED <<config, tokens>>

DropCache ==
    /\ config # <<>>
    /\ config' = <<>> /\ tokens' = <<>> /\ receipts' = <<>>

Patterns == {"AShape", "VerticalSlash", "BlockSparse", "Hybrid", "AdaptiveMass"}

KvNext ==
    \/ \E c \in Policies : NewRuntime(c)
    \/ \E pair \in TokenPairs :
           Len(tokens) < MaxTokens /\ CompressToken(pair)
    \/ config # <<>> /\
           \E s \in {ExactScores, AttentionScores}, pattern \in Patterns, c \in Plans :
               Compare(s, pattern, c)
    \/ DropCache

KvSpec == KvInit /\ [][KvNext]_kvVars

-----------------------------------------------------------------------------
(* Properties.                                                             *)

(* The hard cap of a plan costs no recall as long as it leaves room for    *)
(* the top k: whatever the pattern, a full-attention top-k token that it   *)
(* expanded to is selected, and it is among the sparse top k.              *)
CapCostsNoRecall ==
    \A n \in DOMAIN receipts :
        LET r == receipts[n] IN
        r.config.max_tokens >= r.config.top_k =>
            r.full_top \intersect Expanded(r.scores, r.pattern, r.config) \subseteq r.sparse_top

AtLeast(r, bound) == r[1] * bound[2] >= bound[1] * r[2]

(* An adaptive plan keeps the savings it was asked for, top-k tokens       *)
(* included, down to the one token it always selects, and stops short of   *)
(* the target mass only when no token is left of them. *)
AdaptiveKeepsItsBudget ==
    \A n \in DOMAIN receipts :
        LET r == receipts[n]  cap == TokenCap(r.scores, r.config) IN
        r.pattern = "AdaptiveMass" /\ r.scores # <<>> =>
            /\ Cardinality(r.selected) <= cap
            /\ AtLeast(r.mass, r.config.target) \/ Cardinality(r.selected) = cap
=============================================================================
