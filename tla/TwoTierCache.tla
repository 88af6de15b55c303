---------------------------- MODULE TwoTierCache ----------------------------
(***************************************************************************)
(* The two tiers of compressed KV vectors: the shared pool that fib-quant  *)
(* encodes once (pool.rs) and the shells that turbo-quant encodes per      *)
(* agent (shell.rs), with the adapters (codec.rs), the policy, the shapes  *)
(* and the manifests they are checked against.                             *)
(*                                                                         *)
(* A vector of head_dim floats is one unit: the unit <<o, t, i>> is the    *)
(* i-th vector of token t of owner o, and encoding it and decoding it      *)
(* under the same profile gives the unit back (the loss is not modelled).  *)
(* Layers, heads and tokens count from 1, offsets in a token from 0.       *)
(*                                                                         *)
(* A definition whose name starts with Wrong is a mistake the definition   *)
(* after it could have had.                                                *)
(***************************************************************************)
EXTENDS Naturals, FiniteSets, Sequences, KvShape

CONSTANTS
    Policies,   \* CompressionPolicy values a caller may pass
    Shapes,     \* KvTensorShape values a caller may pass
    Seeds,      \* seeds of builds, materializations and decodes
    AgentId,    \* whom shells are for
    MaxTokens   \* tokens in a corpus

(* Layers and KV heads are counts, and the owner of the pool is no agent.  *)
ASSUME TierAssumption ==
    /\ \A s \in Shapes : s.layers \in Nat /\ s.kv \in Nat
    /\ MaxTokens \in Nat
    /\ "pool" \notin AgentId /\ "nobody" \notin AgentId

VARIABLES
    job,        \* the build or materialization in progress: at most one
    pool,       \* sequence of the SharedKVPool built: empty or one
    shells      \* agent -> its AgentShells, empty or one

tierVars == <<job, pool, shells>>

-----------------------------------------------------------------------------
(* Policies, shapes and codec ids.                                         *)

FibIds == {"fib_k4_n32", "fib_k4_n32_batched"}
Exact == "exact_f32_fallback"

(* turbo_<bits>bit_batched[_lossy], kept as the two facts it encodes. *)
TurboId(bits, lossy) == <<"turbo_batched", bits, lossy>>

(* The ids that is_batched_turbo and is_batched_turbo_lossy accept. *)
TurboBatchedIds == {TurboId(b, y) : b \in 2 .. 16, y \in BOOLEAN}

LegacyTurboIds == {<<"turbo", 8, FALSE>>, <<Exact, 0, FALSE>>}

ValidPolicy(p) ==
    /\ p.shared \in FibIds \cup {Exact}
    /\ p.shell \in TurboBatchedIds \cup LegacyTurboIds
    /\ p.k \in 1 .. 256
    /\ p.bits \in 2 .. 16 /\ p.projections > 0

(* FibQuantAdapter::new and TurboQuantAdapter::with_radii_compression. *)
FibFits(p, s) == s.dim % p.k = 0
TurboFits(s) == s.dim % 2 = 0

-----------------------------------------------------------------------------
(* A token's vectors and the two batches of a layer.                       *)

Token(owner, t, s) == [i \in 0 .. 2 * s.layers * s.kv - 1 |-> <<owner, t, i>>]

(* Mistake: all keys of a layer come before its values. *)
WrongOffset(s, l, h, side) == (l - 1) * s.kv * 2 + side * s.kv + (h - 1)

(* Where head h of layer l has its key (side 0) and its value (side 1). *)
Offset(s, l, h, side) == (l - 1) * s.kv * 2 + (h - 1) * 2 + side

(* Token outer, head inner: the order in which a layer is encoded. *)
Batch(owner, n, s, l, side) ==
    [k \in 1 .. n * s.kv |->
        LET t == ((k - 1) \div s.kv) + 1
            h == ((k - 1) % s.kv) + 1
        IN  Token(owner, t, s)[Offset(s, l, h, side)]]

Block(codec, magic, seed, p, items) ==
    [codec |-> codec,
     payload |-> [magic |-> magic, seed |-> seed, bits |-> p.bits, items |-> items]]

FibLayer(j, l) ==
    [index |-> l,
     keys |-> <<Block("fib_k4_n32_batched", "FB2", j.seed, j.policy,
                      Batch(j.owner, j.tokens, j.shape, l, 0))>>,
     values |-> <<Block("fib_k4_n32_batched", "FB2", j.seed, j.policy,
                        Batch(j.owner, j.tokens, j.shape, l, 1))>>]

ShellId(p) == TurboId(p.bits, p.lossy)

TurboLayer(j, l) ==
    [index |-> l,
     keys |-> <<Block(ShellId(j.policy), "TQB1", j.seed, j.policy,
                      Batch(j.owner, j.tokens, j.shape, l, 0))>>,
     values |-> <<Block(ShellId(j.policy), "TQB1", j.seed, j.policy,
                        Batch(j.owner, j.tokens, j.shape, l, 1))>>]

-----------------------------------------------------------------------------
(* Decoding.  A decoder gives the batch in a singleton, {} for an error.   *)

(* FB2, and FB1 for one vector, do not say which seed they were encoded    *)
(* with: under another seed the rotation and the codebook are others, and  *)
(* so are the vectors.                                                     *)
FibDecode(payload, seed) ==
    IF payload.magic \notin {"FB2", "FB1"} THEN {}
    ELSE {IF seed = payload.seed THEN payload.items
          ELSE [k \in DOMAIN payload.items |-> <<"noise", seed, payload.items[k]>>]}

(* Mistake: the seed in the TQB1 header is not compared. *)
WrongTurboDecode(payload, bits, seed) ==
    IF payload.magic # "TQB1" \/ payload.bits # bits THEN {}
    ELSE {IF seed = payload.seed THEN payload.items
          ELSE [k \in DOMAIN payload.items |-> <<"noise", seed, payload.items[k]>>]}

(* The quantizer is made anew from bits and seed, and the header of the    *)
(* batch must name both.                                                   *)
TurboDecode(payload, bits, seed) ==
    IF payload.magic # "TQB1" \/ payload.bits # bits \/ payload.seed # seed
    THEN {} ELSE {payload.items}

(* The vectors of each head in token order. *)
PerHead(items, kv) ==
    [h \in 1 .. kv |-> [t \in 1 .. (Len(items) \div kv) |-> items[(t - 1) * kv + h]]]

(* Back to one sequence, token outer, head inner. *)
Flatten(perHead, n, kv) ==
    [k \in 1 .. n * kv |-> perHead[((k - 1) % kv) + 1][((k - 1) \div kv) + 1]]

FibBatched(layer) ==
    /\ Len(layer.keys) = 1 /\ Len(layer.values) = 1
    /\ layer.keys[1].codec = "fib_k4_n32_batched"

(* One block per vector, in the batch order. *)
BlocksDecode(blocks, seed) ==
    IF \E k \in DOMAIN blocks : FibDecode(blocks[k].payload, seed) = {} THEN {}
    ELSE {[k \in DOMAIN blocks |->
              CHOOSE x \in FibDecode(blocks[k].payload, seed) : TRUE]}

(* decompress_layer: the codec comes from the manifest, the form of the    *)
(* layer from its blocks, the seed from the manifest.                      *)
LayerSide(pl, blocks, batched) ==
    IF batched
    THEN IF pl.policy.shared \in FibIds
         THEN FibDecode(blocks[1].payload, pl.seed) ELSE {}
    ELSE BlocksDecode(blocks, pl.seed)

DecompressLayer(pl, l) ==
    LET layer == pl.layers[l]
        kv == pl.shape.kv
        batched == FibBatched(layer)
        sides == {d \in LayerSide(pl, layer.keys, batched)
                           \X LayerSide(pl, layer.values, batched) :
                      Len(d[1]) = Len(d[2]) /\ Len(d[1]) % kv = 0}
    IN  {[keys |-> PerHead(d[1], kv), values |-> PerHead(d[2], kv)] : d \in sides}

(* decompress_all_layers_with_seed of a pool; its seed argument is unused. *)
PoolTensors(pl) ==
    IF \E l \in DOMAIN pl.layers : DecompressLayer(pl, l) = {} THEN {}
    ELSE {[l \in DOMAIN pl.layers |->
              LET d == CHOOSE d \in DecompressLayer(pl, l) : TRUE
              IN  <<Flatten(d.keys, pl.tokens, pl.shape.kv),
                    Flatten(d.values, pl.tokens, pl.shape.kv)>>]}

(* decompress_all_layers_with_seed of a shell: always the batched form. *)
ShellTensors(sh, seed) ==
    LET side(blocks) == TurboDecode(blocks[1].payload, sh.bits, seed)
        tensor(blocks) ==
            Flatten(PerHead(CHOOSE x \in side(blocks) : TRUE, sh.kv), sh.tokens, sh.kv)
    IN  IF \E l \in DOMAIN sh.layers :
               side(sh.layers[l].keys) = {} \/ side(sh.layers[l].values) = {}
        THEN {}
        ELSE {[l \in DOMAIN sh.layers |->
                  <<tensor(sh.layers[l].keys), tensor(sh.layers[l].values)>>]}

-----------------------------------------------------------------------------
NoJob == [owner |-> "nobody"]

TierInit ==
    /\ job = NoJob
    /\ pool = <<>>
    /\ shells = [a \in AgentId |-> <<>>]

(* build_with_policy up to the loop over the layers. *)
BeginPool(p, s, n, seed) ==
    /\ job = NoJob /\ pool = <<>>
    /\ n > 0 /\ ValidShape(s) /\ ValidPolicy(p) /\ FibFits(p, s)
    /\ job' = [owner |-> "pool", policy |-> p, shape |-> s, tokens |-> n,
               seed |-> seed, done |-> {}]
    /\ UNCHANGED <<pool, shells>>

(* One layer is built.  Rayon builds them in any order; each goes to the   *)
(* place of its index.                                                     *)
BuildLayer(l) ==
    /\ job # NoJob
    /\ l \in 1 .. job.shape.layers
    /\ l \notin {d.index : d \in job.done}
    /\ job' = [job EXCEPT !.done = @ \cup
                  {IF job.owner = "pool" THEN FibLayer(job, l) ELSE TurboLayer(job, l)}]
    /\ UNCHANGED <<pool, shells>>

Built == Cardinality(job.done) = job.shape.layers

Layers(j) == [l \in 1 .. j.shape.layers |-> CHOOSE d \in j.done : d.index = l]

(* PoolManifest::new validates the shape and the policy once more. *)
FinishPool ==
    /\ job # NoJob /\ job.owner = "pool" /\ Built
    /\ pool' = <<[policy |-> job.policy, shape |-> job.shape,
                  tokens |-> job.tokens, seed |-> job.seed,
                  layers |-> Layers(job)]>>
    /\ job' = NoJob
    /\ UNCHANGED shells

(* materialize_shell up to the loop over the layers. *)
BeginShell(a, n, seed) ==
    /\ job = NoJob /\ pool # <<>> /\ shells[a] = <<>>
    /\ n > 0 /\ TurboFits(pool[1].shape)
    /\ job' = [owner |-> a, policy |-> pool[1].policy, shape |-> pool[1].shape,
               tokens |-> n, seed |-> seed, done |-> {}]
    /\ UNCHANGED <<pool, shells>>

(* ShellManifest::new: the codec id is the one the configuration implies. *)
ManifestOK(p) == p.shell = ShellId(p)

ShellOf(p, s, n, seed, layers) ==
    [codec |-> p.shell, bits |-> p.bits, kv |-> s.kv, tokens |-> n,
     seed |-> seed, layers |-> layers]

FinishShell ==
    /\ job # NoJob /\ job.owner \in AgentId /\ Built
    /\ shells' = IF ManifestOK(job.policy)
                 THEN [shells EXCEPT ![job.owner] =
                          <<ShellOf(job.policy, job.shape, job.tokens, job.seed,
                                    Layers(job))>>]
                 ELSE shells
    /\ job' = NoJob
    /\ UNCHANGED pool

(* materialize_shell of no tokens: a shell without layers. *)
EmptyShell(a, seed) ==
    /\ job = NoJob /\ pool # <<>> /\ shells[a] = <<>>
    /\ ManifestOK(pool[1].policy)
    /\ shells' = [shells EXCEPT ![a] =
                     <<ShellOf(pool[1].policy, pool[1].shape, 0, seed, <<>>)>>]
    /\ UNCHANGED <<job, pool>>

(* The caller lets go of a shell. *)
DropShell(a) ==
    /\ shells[a] # <<>>
    /\ shells' = [shells EXCEPT ![a] = <<>>]
    /\ UNCHANGED <<job, pool>>

(* A layer in the form older versions wrote: one block per vector. *)
OldLayer(layer) ==
    LET split(b) == [k \in DOMAIN b.payload.items |->
                        [codec |-> "fib_k4_n32",
                         payload |-> [b.payload EXCEPT !.magic = "FB1",
                                                       !.items = @[k]]]]
    IN  [layer EXCEPT !.keys = split(layer.keys[1]),
                      !.values = split(layer.values[1])]

LoadOldLayer(l) ==
    /\ job = NoJob /\ pool # <<>>
    /\ l \in DOMAIN pool[1].layers /\ FibBatched(pool[1].layers[l])
    /\ pool[1].policy.shared \in FibIds
    /\ pool' = <<[pool[1] EXCEPT !.layers[l] = OldLayer(@)]>>
    /\ UNCHANGED <<job, shells>>

TierNext ==
    \/ \E p \in Policies, s \in Shapes, n \in 0 .. MaxTokens, seed \in Seeds :
           BeginPool(p, s, n, seed)
    \/ \E s \in Shapes : \E l \in 1 .. s.layers : BuildLayer(l)
    \/ FinishPool
    \/ \E a \in AgentId, n \in 0 .. MaxTokens, seed \in Seeds : BeginShell(a, n, seed)
    \/ FinishShell
    \/ \E a \in AgentId, seed \in Seeds : EmptyShell(a, seed)
    \/ \E a \in AgentId : DropShell(a)
    \/ \E s \in Shapes : \E l \in 1 .. s.layers : LoadOldLayer(l)

TierSpec == TierInit /\ [][TierNext]_tierVars

-----------------------------------------------------------------------------
(* Properties.                                                             *)

(* The layout build documents: layer by layer, head by head, the key and   *)
(* then the value (pool.rs:138).                                           *)
Before(x, y) ==
    \/ x[1] < y[1]
    \/ x[1] = y[1] /\ x[2] < y[2]
    \/ x[1] = y[1] /\ x[2] = y[2] /\ x[3] < y[3]

DocumentedPlace(s, x) ==
    Cardinality({y \in (1 .. s.layers) \X (1 .. s.kv) \X {0, 1} : Before(y, x)})

(* The vectors of a layer as a cache takes them: token outer, head inner.  *)
InPlace(owner, n, s) ==
    [l \in 1 .. s.layers |->
        [side \in {1, 2} |->
            [k \in 1 .. n * s.kv |->
                <<owner, ((k - 1) \div s.kv) + 1,
                  DocumentedPlace(s, <<l, ((k - 1) % s.kv) + 1, side - 1>>)>>]]]

(* A pool decodes to the corpus it was built from, every vector in its     *)
(* place, whatever order the layers were built in and whichever layers are *)
(* in the older form.                                                      *)
PoolDecodesInPlace ==
    pool # <<>> /\ pool[1].policy.shared \in FibIds =>
        PoolTensors(pool[1]) = {InPlace("pool", pool[1].tokens, pool[1].shape)}

(* A shell decodes to its agent's tokens under the seed it was made with,  *)
(* and to an error, never to other vectors, under every other seed; and    *)
(* "the manifest cannot lie about what codec was actually used to build    *)
(* the per-layer blocks" (manifest.rs:236).                                *)
ShellDecodesOrFails ==
    \A a \in AgentId, seed \in Seeds : shells[a] # <<>> =>
        LET sh == shells[a][1] IN
        /\ sh.layers # <<>> =>
               ShellTensors(sh, seed) =
                   IF seed = sh.seed THEN {InPlace(a, sh.tokens, pool[1].shape)} ELSE {}
        /\ \A l \in DOMAIN sh.layers :
               \A b \in {sh.layers[l].keys[1], sh.layers[l].values[1]} : b.codec = sh.codec
=============================================================================
