----------------------------- MODULE GpuBackend -----------------------------
(***************************************************************************)
(* gpu-backend (lib.rs, cuda.rs, error.rs, fallback.rs): the process-wide  *)
(* CUDA context that the first caller initializes while the others wait,   *)
(* the dispatch of codebook lookups to the device or to the CPU, and the   *)
(* operations that always run on the CPU.  Threads call it concurrently.   *)
(*                                                                         *)
(* The driver, NVRTC and the device are external: each step of the         *)
(* initialization, and each launch, may fail.  GPU_CTX is a OnceLock: the  *)
(* outcome of the first initialization is the only one there will be.      *)
(*                                                                         *)
(* A definition whose name starts with Wrong is a mistake the definition   *)
(* after it could have had.                                                *)
(***************************************************************************)
EXTENDS Codewords

CONSTANTS
    Thread,
    Lookups,    \* arguments of codebook_lookup_batch: n, d, k, words, blocks,
                \* and whether the codebook is finite
    Wild,       \* a block with a NaN or an infinity among its coordinates
    Scalars,    \* arguments of lloyd_max_batch: a block, its norm, centroids
    Unset,      \* GPU_CTX before it is set, a thread that has asked nothing
    CallFailed, \* a call that failed
    WithGpu,    \* the crate is compiled with the gpu feature
    MinBatch, MinDim,   \* GPU_MIN_BATCH_SIZE and GPU_MIN_DIM
    WarpSize    \* codewords the kernel is for, a power of 2: 32 in the code

VARIABLES
    context,    \* GPU_CTX: Unset, or the availability it holds
    loaded,     \* CUDA_STATE is set
    step,       \* how far the initialization has come
    at,         \* where each thread is
    call,       \* what each thread called codebook_lookup_batch with
    result,     \* what its last call returned
    seen        \* the availability it saw last

gpuVars == <<context, loaded, step, at, call, result, seen>>

-----------------------------------------------------------------------------
(* Initialization: what each step finds missing, in their order.           *)

InitSteps ==
    <<"driver_unavailable", "nvrtc_unavailable", "driver_unavailable",
      "source_compile_failed", "module_load_failed", "kernel_missing">>

Outcomes == {"ready", "feature_disabled"} \cup {InitSteps[i] : i \in DOMAIN InitSteps}

ASSUME UnsetAssumption == Unset \notin Outcomes

-----------------------------------------------------------------------------
(* codebook_lookup_batch.                                                  *)

ValidLookup(c) ==
    /\ c.k > 0 /\ c.d % c.k = 0 /\ Len(c.blocks) = c.n * (c.d \div c.k)
    /\ c.words # <<>> /\ \A w \in DOMAIN c.words : Len(c.words[w]) = c.k
    /\ c.finiteWords

(* codebook_lookup_supports_gpu, but for is_available. *)
KernelFits(c) ==
    /\ c.k = LookupDim /\ Len(c.words) = WarpSize
    /\ c.n >= MinBatch /\ c.d >= MinDim

ASSUME WarpAssumption == WarpSize \in {2 ^ e : e \in 0 .. 10}

(* Blocks have k coordinates, and no squared distance of a finite one      *)
(* overflows to the infinity that the loops begin with.                    *)
ASSUME LookupAssumption ==
    /\ Lookups \subseteq
           [n : Nat, d : Nat, k : Nat, words : Seq(Seq(Int)),
            blocks : Seq(Seq(Int) \cup {Wild}), finiteWords : BOOLEAN]
    /\ \A c \in Lookups : ValidLookup(c) =>
           \A b \in DOMAIN c.blocks, w \in DOMAIN c.words :
               c.blocks[b] # Wild =>
                   /\ Len(c.blocks[b]) = c.k
                   /\ SquaredDistance(c.blocks[b], c.words[w]) < Infinity

FiniteInput(c) == \A b \in DOMAIN c.blocks : c.blocks[b] # Wild

(* No distance from a wild block is less than infinity, so the loop keeps  *)
(* the index it begins with.                                               *)
OnCpu(c) ==
    [b \in DOMAIN c.blocks |->
        IF c.blocks[b] = Wild THEN Farthest.index
        ELSE NearestScalar(c.blocks[b], c.words)]

Rounds == CHOOSE e \in 0 .. 10 : 2 ^ e = WarpSize

(* Mistake: the last exchange of the warp is left out. *)
WrongExchanges == [e \in 1 .. Rounds - 1 |-> WarpSize \div 2 ^ e]

(* The distances between the lanes that compare, halved down to 1. *)
Exchanges == [e \in 1 .. Rounds |-> WarpSize \div 2 ^ e]

(* What every lane holds after one exchange: its own codeword, unless the  *)
(* other lane's is strictly nearer.                                        *)
Exchange(lanes, offset) ==
    LET other(i) == IF (i \div offset) % 2 = 0 THEN i + offset ELSE i - offset
    IN  [i \in DOMAIN lanes |-> Nearer(lanes[i], lanes[other(i)].index, lanes[other(i)].dist)]

(* codebook_lookup_kernel: lane 0 writes the index it holds at the end. *)
OnDeviceIndex(block, words) ==
    LET first == [i \in 0 .. WarpSize - 1 |->
                     [index |-> i, dist |-> SquaredDistance(block, words[i + 1])]]
    IN  FoldLeft(Exchange, first, Exchanges)[0].index

OnDeviceLookup(c) == [b \in DOMAIN c.blocks |-> OnDeviceIndex(c.blocks[b], c.words)]

-----------------------------------------------------------------------------
(* lloyd_max_batch, its decoder and bitpack, all on the CPU.  A centroid   *)
(* is a number of thousandths.                                             *)

(* gaussian_centroids has tables for these numbers of levels. *)
ASSUME ScalarAssumption ==
    /\ Scalars \subseteq [block : Seq(Int), norm : Nat, centroids : Seq(Int)]
    /\ \A s \in Scalars : Len(s.centroids) \in {4, 8, 16, 32}

Abs(n) == IF n < 0 THEN -n ELSE n

(* The first centroid nearest to the value over the norm; 0 where the norm *)
(* is nothing.  The index is kept in a byte.                               *)
LloydIndex(value, norm, centroids) ==
    LET off(c) == Abs(1000 * value - centroids[c] * norm)
    IN  IF norm = 0 THEN 0
        ELSE ((CHOOSE c \in DOMAIN centroids :
                   \A e \in DOMAIN centroids :
                       off(c) < off(e) \/ (off(c) = off(e) /\ c =< e)) - 1) % 256

LloydIndices(s) == [j \in DOMAIN s.block |-> LloydIndex(s.block[j], s.norm, s.centroids)]

(* An index beyond the centroids decodes to 0. *)
LloydDecode(indices, norm, centroids) ==
    [j \in DOMAIN indices |->
        IF indices[j] + 1 \in DOMAIN centroids THEN centroids[indices[j] + 1] * norm ELSE 0]

(* bitpack_cpu: a value beyond its bits is cut off. *)
Bitpack(indices, bits) ==
    PackIndices([i \in DOMAIN indices |-> indices[i] % 2 ^ bits], bits)

-----------------------------------------------------------------------------
GpuInit ==
    /\ context = Unset
    /\ loaded = FALSE
    /\ step = 0
    /\ at = [t \in Thread |-> "idle"]
    /\ call = [t \in Thread |-> Unset]
    /\ result = [t \in Thread |-> Unset]
    /\ seen = [t \in Thread |-> Unset]

Goes(t, place) == at' = [at EXCEPT ![t] = place]
Returns(t, value) == result' = [result EXCEPT ![t] = value]

(* Mistake: the device's availability is not asked for. *)
WrongAsks == "device"

(* supports_gpu asks for the availability before a device is used. *)
Asks == "ask"

(* codebook_lookup_batch: an error, the CPU, or on to the availability. *)
Lookup(t, c) ==
    /\ at[t] = "idle"
    /\ call' = [call EXCEPT ![t] = c]
    /\ \/ /\ ~ValidLookup(c) /\ Returns(t, CallFailed) /\ UNCHANGED at
       \/ /\ ValidLookup(c) /\ ~(FiniteInput(c) /\ WithGpu /\ KernelFits(c))
          /\ Returns(t, OnCpu(c)) /\ UNCHANGED at
       \/ /\ ValidLookup(c) /\ FiniteInput(c) /\ WithGpu /\ KernelFits(c)
          /\ Goes(t, Asks) /\ UNCHANGED result
    /\ UNCHANGED <<context, loaded, step, seen>>

(* availability, asked by a receipt. *)
Probe(t) ==
    /\ at[t] = "idle"
    /\ Goes(t, "probe")
    /\ UNCHANGED <<context, loaded, step, call, result, seen>>

(* get_or_init: the first of the threads that ask runs the initialization. *)
BeginInit(t) ==
    /\ at[t] \in {"ask", "probe"}
    /\ context = Unset /\ step = 0
    /\ IF WithGpu
       THEN step' = 1 /\ UNCHANGED context
       ELSE context' = "feature_disabled" /\ UNCHANGED step
    /\ UNCHANGED <<loaded, at, call, result, seen>>

StepFails ==
    /\ step \in DOMAIN InitSteps /\ context = Unset
    /\ context' = InitSteps[step]
    /\ UNCHANGED <<loaded, step, at, call, result, seen>>

(* After the last step CUDA_STATE is set, and only then GPU_CTX. *)
StepSucceeds ==
    /\ step \in DOMAIN InitSteps /\ context = Unset
    /\ step' = step + 1
    /\ loaded' = (step = Len(InitSteps))
    /\ UNCHANGED <<context, at, call, result, seen>>

FinishInit ==
    /\ loaded /\ context = Unset
    /\ context' = "ready"
    /\ UNCHANGED <<loaded, step, at, call, result, seen>>

(* A thread that asked learns the outcome and goes its way. *)
Answered(t) ==
    /\ at[t] \in {"ask", "probe"} /\ context # Unset
    /\ seen' = [seen EXCEPT ![t] = context]
    /\ CASE at[t] = "probe" -> Goes(t, "idle") /\ UNCHANGED result
         [] at[t] = "ask" /\ context = "ready" -> Goes(t, "device") /\ UNCHANGED result
         [] OTHER -> Goes(t, "idle") /\ Returns(t, OnCpu(call[t]))
    /\ UNCHANGED <<context, loaded, step, call>>

(* The launch: the kernel's indices, or an error of the driver. *)
Launch(t) ==
    /\ at[t] = "device"
    /\ Goes(t, "idle")
    /\ Returns(t, OnDeviceLookup(call[t])) \/ Returns(t, CallFailed)
    /\ UNCHANGED <<context, loaded, step, call, seen>>

(* lloyd_max_batch: always the CPU, the device or not. *)
LloydMaxBatch(t, s) ==
    /\ at[t] = "idle"
    /\ call' = [call EXCEPT ![t] = s]
    /\ Returns(t, LloydIndices(s))
    /\ UNCHANGED <<context, loaded, step, at, seen>>

(* hadamard, lloyd_max and bitpack in cuda.rs: the loaded module exports   *)
(* none of their symbols, so they work until the device is ready.          *)
CallWrapper(t) ==
    /\ at[t] = "idle"
    /\ Returns(t, IF loaded THEN CallFailed ELSE Unset)
    /\ UNCHANGED <<context, loaded, step, at, call, seen>>

GpuNext ==
    \/ \E t \in Thread :
          \/ \E c \in Lookups : Lookup(t, c)
          \/ \E s \in Scalars : LloydMaxBatch(t, s)
          \/ Probe(t) \/ BeginInit(t) \/ Answered(t) \/ Launch(t) \/ CallWrapper(t)
    \/ StepFails \/ StepSucceeds \/ FinishInit

GpuSpec == GpuInit /\ [][GpuNext]_gpuVars

-----------------------------------------------------------------------------
(* Properties.                                                             *)

(* Whichever threads race to the first use, a thread uses the device only  *)
(* once its kernel is loaded (the expect of cuda.rs cannot fail), and all  *)
(* threads see one availability.                                           *)
DispatchOnlyWhenReady ==
    /\ \A t \in Thread : at[t] = "device" => loaded /\ seen[t] = "ready"
    /\ \A t, u \in Thread : Unset \in {seen[t], seen[u]} \/ seen[t] = seen[u]

(* r has the index of a nearest codeword for each block of a lookup, and   *)
(* that of the first for a wild one.                                       *)
NearestWords(c, r) ==
    \A b \in DOMAIN c.blocks :
        /\ r[b] + 1 \in DOMAIN c.words
        /\ IF c.blocks[b] = Wild THEN r[b] = 0
           ELSE \A w \in DOMAIN c.words :
                    SquaredDistance(c.blocks[b], c.words[r[b] + 1])
                        =< SquaredDistance(c.blocks[b], c.words[w])

(* r reads back from every packed form that has room for the levels, and   *)
(* decodes to the centroid nearest to each value, the norm applied.        *)
NearestLevels(s, r) ==
    /\ \A bits \in 1 .. 8 : 2 ^ bits >= Len(s.centroids) =>
           UnpackIndices(Bitpack(r, bits), Len(r), bits) = r
    /\ \A j \in DOMAIN s.block, m \in DOMAIN s.centroids :
           Abs(1000 * s.block[j] - LloydDecode(r, s.norm, s.centroids)[j])
               =< Abs(1000 * s.block[j] - s.centroids[m] * s.norm)

(* Every index a lookup returns, on the CPU or on the device, is that of a *)
(* nearest codeword, also for the finite blocks of a batch that has others *)
(* with NaN or infinity, which the kernel is not for.  Every index of the  *)
(* scalar quantizer reads back from its packed form, and decodes to the    *)
(* centroid that is nearest to the value, the norm applied.                *)
ResultsAreNearest ==
    \A t \in Thread :
        at[t] = "idle" /\ call[t] # Unset /\ result[t] \notin {Unset, CallFailed} =>
            IF call[t] \in Lookups THEN NearestWords(call[t], result[t])
            ELSE NearestLevels(call[t], result[t])
=============================================================================
