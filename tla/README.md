# TLA+ models of proveKV

This directory holds TLA+ modules that model proveKV, configurations that
model-check them with TLC on small instances, and proofs that TLAPS checks for
every instance.  Definitions carry the names of the code where that is
possible; a comment over each action says what of the code it stands for.

## The system

proveKV keeps compressed key/value caches of language models as immutable,
content-addressed states.  A state is a manifest; its id is the digest of the
manifest; the manifest lists the digests of the pages that hold the data.

| Component | State it keeps | Operations | Where |
| --- | --- | --- | --- |
| State store | `states`: id to node (parent, children, leases, released); `leases` | `commit_root`, `fork`, `register_lease`, `revoke_lease`, `release`, `open` | `proveKV/src/state_store.rs`, `branch.rs` |
| Collector | none; reads the store, deletes page files | `collect` | `gc.rs` |
| Page store | files on disk, temporary files | `write_page`, `read_page`, `delete_page`, `recover` | `page_store.rs`, `recovery.rs` |
| Stream processor | queue, acknowledged sequences, latest snapshot, a store | `deliver`, `receive`, `acknowledge`, `capture_snapshot`, `standby_resume`, `collect` | `stream.rs` |
| Leases | rights, expiry, epoch of each lease | `new`, `status`, `authorize` | `lease.rs`, `principal.rs` |
| Agent sessions | parent state, forks made | `fork`, `replay` | `apps/agent.rs` |
| Application adapters | window of tokens, checkpoints, chat, tool results, caches | push, checkpoint, resume, record, find | `apps/`, `state_reuse.rs`, `bridge/` |
| MCP server | a store behind a mutex | four tools, one of which forks | `mcp_server.rs` |
| Transport | none | `send_page`, `receive_page` | `transport.rs` |
| Manifests, page headers, limits, policies | none | validation, digests, resolution | `hybrid_manifest.rs`, `page_format.rs`, `limits.rs`, `state_policy.rs` |
| Pool and shell | compressed blocks per layer | build, decompress | `pool.rs`, `shell.rs`, `codec.rs` |
| turbo-quant | quantizers, wire bytes, an index, the cache of a head | encode, decode, score, search, sparse plans | `turbo-quant/src` |
| fib-quant | quantizers, codebooks, wire bytes, KV pages | train, encode, decode | `fib-quant/src` |
| GPU backend | one context, made once | codebook lookup on GPU or CPU | `gpu-backend/src` |

How they interact: the store owns a page store and the collector deletes
through it.  A stream processor owns a store, forks none of it and pins the
states it captures with leases.  Agent sessions, the MCP server and the
transport are callers of a store; all but the MCP server hold it exclusively,
the MCP server behind a mutex.  A pool encodes its vectors with fib-quant and a
shell with turbo-quant; fib-quant calls gpu-backend for a batch.  Nothing orders `write_page` with `commit_root`:
a page may reach the disk before or after a manifest that lists it.

What is hard here:

- the life of a state depends on its own release flag and leases and on those
  of all its ancestors, so a long sequence of legal calls decides what a
  collection deletes;
- pages are shared between manifests by digest, and a collection looks at one
  manifest at a time;
- states and leases are memory, pages are files: a restart splits them;
- `write_page` must be atomic across crashes, failing calls and other writers;
- deliveries are repeated, lost by failing workers, and outlive the process;
- a lease is checked on the holder's copy, against a clock that moves;
- codes are written under one quantizer and read under another, perhaps cut or
  damaged, and a wrong vector looks like any other vector;
- the same vectors go through different code alone, in a batch and on a device,
  and are expected to come out the same;
- layers, heads and tokens are spread over batches and pages and put together
  again by arithmetic on offsets;
- threads race to initialise one device, whose steps may each fail.

`PROJECT.json` lists these hazards at their lines, with the properties that
cover each.

What makes each component correct: the two indexes of leases agree, lineage is
a forest, the collector takes exactly what nothing retains and deletes exactly
its pages, garbage stays garbage (store, collector; that the pages of retained
states stay is promised and not kept where garbage lists them too); no torn page under a
final name, an acknowledged write survives (page store); effects at most once
and in the end once (stream); a revoked or expired lease authorizes nothing
(leases); replay returns the whole lineage (sessions); a retried fork is
harmless (MCP server); only listed pages leave, and a header accepted counts
the bytes there are (transport); a vector decodes in its own place or not at
all (pool, shells, KV pages, wire formats); a code is the nearest one, whichever
path computed it (codecs, GPU); plans respect their caps (sparse prefill).

## Modules

| Module | Content |
| --- | --- |
| `StateStore` | the store with its collector and restart |
| `StateLifecycle` | what callers may rely on: absent, retained, garbage |
| `StateStoreProofs` | theorems about the two |
| `PageStore` | `write_page` one system call at a time, on a file system that may crash |
| `PageRegistry` | the set of whole pages that PageStore implements |
| `PageStoreProofs` | theorems about the two |
| `StreamDelivery` | deliver, receive, acknowledge, failing workers, restarts |
| `StreamDeliveryProofs` | theorems about it |
| `StreamSnapshots` | capture, resume and collect of a processor that owns a `StateStore` (`INSTANCE`) |
| `StreamSnapshotsProofs` | theorems about it, from those about `StateStore` |
| `AgentSessions` | leases, a clock and agent sessions, extending `StateStore` |
| `AppSessions` | the other application adapters and the capture of a conversation |
| `Serving` | `PageTransfer` and the MCP server, with headers and manifests |
| `KvShape`, `TwoTierCache` | the pool and the shells, with policies and shapes |
| `ApplicationsProofs` | theorems about `AgentSessions`, from those about `StateStore`, and about `Serving`, `AppSessions` and `TwoTierCache` |
| `BitPacking` | indices of a fixed width in bytes, as both quantizers pack them |
| `TurboWire` | TQW1 and TQB1 between two quantizers |
| `TurboScoring` | encode, decode, score, and the candidate index |
| `TurboKv` | the cache of an attention head and sparse prefill |
| `RadiusCodec` | the three codecs for radii |
| `Codewords` | the two loops that look for the nearest codeword |
| `FibCodec` | FibQuant and its wire formats FB1 and FB2 |
| `FibLloyd` | the training of a codebook |
| `FibKv` | tensors to pages and back |
| `GpuBackend` | initialisation and dispatch of gpu-backend |
| `TurboProofs` | theorems about `TurboWire`, `TurboScoring`, `TurboKv` and `RadiusCodec` |
| `FibProofs` | theorems about `GpuBackend`, `FibCodec`, `FibLloyd` and `FibKv` |
| `Sorting` | the members of a set in an order, for the loops and sorts of `FibKv` and `TurboScoring` |
| `FoldFacts` | lemmas on folds, sums, inner products, sorting, recursive functions, division, binary digits, packing and finite sets of integers |
| `MC...` | instances for TLC |

`StateStore` and `PageStore` meet in one variable: `stored` of `StateStore` is
the set of pages with a final name, `WritePage(p)` of the first is the `Rename`
of the second, and a deletion by `Collect` is a `Delete`.  `StateStore` needs
no more of a page than that, which `PageRegistry` states.

Components that share no state with each other are explored in one run: each
behaviour of `MCApplications`, `MCTurbo` and `MCFib` chooses a `part` and moves
only that.  Definitions whose name starts with `Wrong` are mistakes: each shows
that a property would notice it, and none is used by a model.

### StateStore

`states` maps a committed id to its node; `parent`, `children`, `active` and
`released` are the fields of `StateNode`.  `PageRefs` is a constant because a
manifest never changes once its digest is taken.  Lists whose order and
repetition nothing observes are sets.  A call that returns an error without a
change is no step, so the guards are the early returns.  Each operation takes
`&mut StateStore`, so each is one step; `collect` is one step too, but may fail
at a page (`CollectFails`), in which case an arbitrary part of the other doomed
pages is gone, because the states are visited in the order of a hash map.
`Reachable` is the least set that has the roots and the children of its
members, which is what the work list computes; `report` is the `GcReport` of
the step just taken.  A lease id may be registered again after its revocation,
and for another state, which the code permits but random ids do not produce.
The field `page_store` is public; deleting a page through it, which nothing in
the repository but the collector does, is not modelled.

### PageStore

A file system is inodes and names.  `dir` says where the temporary and the
final name of each page lead, `data` what readers see of an inode, `disk` what
is durable.  A crash picks one of the directory's values since its last fsync
(`dirLog`) and for each inode any set of parts between what is durable and what
was written.  The file system is assumed to keep to that: it journals names in
order and does not expose a name before the inode exists.  A header and a
payload are the two parts of a file.  `MayShare` says whether two callers may
write the same page at once: the API allows it (`&self`), and without it the
protocol is right.  Errors of `remove_file` on a stale temporary file are
ignored by the code and not modelled apart: `File::create` empties what it
finds.

### StreamDelivery

The processor is `delivered` and `pending`; `holding`, `applied` and `faults`
belong to its callers.  The callers are modelled from what the comments ask of
them: the upstream repeats a delivery until it is acknowledged, a worker
applies an effect together with an `acknowledge` that returned true, and after
a restart the sequences in the sink are acknowledged to the new processor
first.

### StreamSnapshots

The two halves of the processor share no state, so each has its own module.
This one is composed with the store: its store variables are those of an
instance of `StateStore` and change only by its actions.  The field `store` is
public, so `OwnerCall` makes any other call on it, and `OwnerRevokes` any lease
revocation, also of a snapshot's lease.  `captured` and `revoked` are history;
`revoked` also keeps lease ids, which are random, from being issued twice.
`CaptureFails` stands for the failures of `StateLease::new` and of
`register_lease` after the counter has moved.  `MaxSequence` stands for the
largest `u64`, where the counter saturates.

### AgentSessions

`held` is every lease issued, as its holder keeps it; `leases` of the store is
what is registered.  `authorize` reads the first, so both are kept.  `clock`
never goes back; `issued + ttl` is taken modulo `Width`, which is what a release
build does where a debug build panics, and `Valid` refuses what has wrapped.
The code keeps the sum and forgets the ttl, so a lease has a history field
`asked`, without which it could not be said that a lease lives for its own ttl
and not for that of another.
A session is memory and `Restart` of the store takes it too; leases, which are
serializable, survive.  `replay` returns the ancestors of the session's parent
after that parent, as the code does.  Every operation of the store stays open to
other callers of it.

### AppSessions

What each adapter keeps beside the store, of which only the set of states
matters here: states are committed and collected while the adapters hold their
ids.  The window counts what it was given in a history field, without which
"every token" could not be said.  The tolerance of `similarity_check` is a
ratio, and its comparison is done with integers.

### Serving

A digest is the value it is taken of, and a state is its manifest.  Files are
those `PageStore` leaves, which something else may move or delete; an endpoint
is external and may change one field of what it returns, or return the envelope
of another transfer.  `Product` of the dimensions is checked as
`checked_mul` does, in words of `Word` values.  Handlers of the MCP
server run at once, but each tool holds the lock of the store for its whole call
and the other methods read nothing that changes, so a request is one step; a
client may lose a reply and ask again.

### TwoTierCache

A unit `<<o, t, i>>` is the `i`-th vector of token `t` of owner `o`, and a code
is the unit with the profile and seed it was made under; decoding under another
one gives something else.  So the loss of the codecs is left out and everything
about places is kept: which layer, which batch, which offset.  Layers of a build
finish in any order, as `rayon` lets them.  Layers written before batches
existed keep their own path, `LoadOldLayer`.

### turbo-quant

`TurboWire` keeps the header's fields, the payloads and the number of bytes.
Bytes may be cut, extended or have one thing changed; a reader of another
configuration reads them.  `TurboScoring` replaces real arithmetic by integers
in which the same identities hold: rotations without their factor, directions
of two bits, vectors whose radii are whole.  `TurboKv` has scores for keys and
powers of two for exponentials, which vanish at a distance, as they do in f32.
`RadiusCodec` keeps the rounding of a quantized radius, not that of the floats
around it.  Quantizing divides by the block's range or by `Epsilon`, which is
`f32::EPSILON` in the units of the codec, if that is wider; decompressing
multiplies by the range.

### fib-quant and gpu-backend

In `FibCodec` directions have integer coordinates and rotations are integer
matrices; the range of the norm's f16 is kept (`MaxNorm`) and so is the choice
between the single, the batch and the device path.  `FibLloyd` trains on a line,
where means of the samples are whole; `Step` is the code's 1e-6.  In `FibKv` a
vector is a number and the quantizer adds `Loss`, so a raw and a compressed
vector differ; pages are lost, repeated, reversed or damaged between encode and
decode.  `GpuBackend` has threads that race through `OnceLock`: one runs the
steps of the initialisation, each of which may fail, the others wait, and what
it finds is final.  The warp's reduction is step by step as in the kernel.  A
block with a NaN or an infinity among its coordinates is the value `Wild`: a
lookup that has one stays on the CPU, where no distance from it is less than
infinity, so that it gets the index the loop begins with.

## Runs

| Run | Shows |
| --- | --- |
| `store_lineage` | lineage in both directions and without cycles, the collector's exactness against a definition along the other direction, no resurrection, and the deletion of exactly the pages that garbage lists, where manifests share pages and passes fail |
| `store_lifecycle` | the two lease indexes, refinement of `StateLifecycle`, with shared pages |
| `page_crash` | types, no torn page, no lost acknowledged page, refinement of `PageRegistry` |
| `stream_delivery` | one effect for each sequence, and only one |
| `stream_snapshots` | a standby finds the latest snapshot's state, and while its lease is registered that state loses no page but one that garbage lists too |
| `applications` | pool and shells decode in place; only listed pages leave and headers count their bytes; windows hold every token; leases last the time they were asked for, forks had theirs, replay and collection agree with them |
| `turbo` | wire formats, radii, scores, searches and sparse plans |
| `fib` | nearest codewords on every path, bound codes, wire formats, training, KV pages, GPU dispatch |
| `gc_shared_page` | finding: a pass deletes a page a reachable state lists |
| `page_shared_writers` | finding: two writers of one page can publish an empty file |
| `stream_leases` | finding: `collect` does not release the leases of old snapshots |
| `fib_gpu_batch` | finding: with a device a batch is rotated by a Hadamard transform and decodes to other vectors than single codes |

Bounds.  Four states give a chain with a branch and a released state between
two roots, the least in which marking that stops at children, or forgets a
branch, differs from the code's.  Two states share a page in `store_lineage`,
`store_lifecycle`, `stream_snapshots` and the findings, as a state and its fork
do.
One or two leases: a second is needed only for the two indexes to disagree
about which lease is left.  Two writers and two pages reach every pair of
positions in `write_page`; three inodes allow an old file, a new file and an
orphan.  Three sequences, two workers and two faults reach a copy in the queue
while another is held and a third acknowledged, twice interrupted.
Two states and three leases
in `stream_snapshots` reach a snapshot of a fork whose parent is released, a
second snapshot and a lease of the owner, and three numbers reach saturation.
The headers of `MCApplications`, `MCTurbo` and `MCFib` name the case each value
is there for: two layers and two heads, because with one a swapped index does
not show; three bits to an angle, so that one straddles two bytes; a number of
codewords that is neither even nor a power of two; a last page shorter than the
others; a clock of three instants with counts modulo four, so that an expiry
wraps; dimensions whose product wraps to the payload's length.

Bounds that are not sizes of sets: `MaxFaults`, `MaxSequence` (where the counter
saturates), `MaxTime` and `Width` of the clock, `Word` and `MaxPayload` of page
sizes, `MaxTokens`, `MaxPushed`, `MaxSteps`, `MaxBatch`, `MaxEntries`,
`MaxVectors`, `Restarts` and `Iterations`.  Leases, states without pages,
writers, pages and inodes are symmetric where a run declares it; runs with
liveness use no symmetry.  `stream_delivery` has end states (all applied, no
fault left), so its deadlock check is off; all others check it.

Fairness.  Only `stream_delivery` uses it: weak fairness of each sequence's
`Deliver` and of each worker's `Receive` and `Acknowledge`.  Nothing in the
processor blocks or delays a call, so these are assumptions about the callers:
the upstream repeats what is not acknowledged, workers do not stop for ever.
`Drop` and `Restart` have none and are bounded.

Each counterexample of a finding is a few steps long and can be replayed against
the code.

## Proofs

Each theorem holds for every value of the constants that satisfies the
assumption its module names; these say what the code's types say (a number of
heads is a natural number, `None` is no state) and are evaluated by every run.
Each invariant was checked by TLC before it was proved.

### The store

From `StoreAssumption` (`PageRefs` maps states to sets of pages, `NoParent` is
no state), in `StateStoreProofs`:

- `TypeCorrect`, `LeasesAgree`, `LineageSound`, `WalksEnd`.  The inductive
  invariant `IInv` is the conjunction of the four.  `LineageAgrees` needs
  `TypeOK`, and `LineageEnds` needs `LineageAgrees`: a new state has no
  children yet, so no cycle can close through it.
- `CollectorIsExact`: the least set closed under children and the states with
  a root among their ancestors are the same set.  `Reachable` is defined with
  a quantifier over sets, so both inclusions are shown by exhibiting closed
  sets, without induction over paths.
- `StoreImplementsLifecycle`: each step maps to one of the abstract steps or a
  stutter.  The mapping is `LifeStatus`.  The heart of it is that after any
  step a state that was not reachable is still not (`release` and
  `revoke_lease` only shrink the reachable set, `commit_root` and `fork` add
  one state to it, `register_lease` takes an unreleased state, which was a
  root).
- `NothingIsResurrected` follows from the same lemmas.
- `SweepIsExact`: what a pass collects is the garbage, so the pages it deletes
  are those that garbage lists, all of them if it succeeds.  Nothing is assumed
  about which manifests share pages.  A reachable state therefore loses just the
  pages that garbage lists as well; that it loses none, as `gc.rs` promises, is
  refuted by the run `gc_shared_page`.

### The page store

From `PageStoreAssumption` (`NoInode` is no inode), in `PageStoreProofs`.
`TypeCorrect` holds whoever shares a page.  The others have the hypothesis
`MayShare = FALSE`, without which the run `page_shared_writers` refutes
`NoTornPage`.  None of them is inductive; `IInv` adds four parts:

- `Alone`: two running writers have different pages;
- `FilesArePrivate`: the inode of a writer that has its file open is behind no
  name but its own temporary one, now or after a crash, so a write cannot spoil
  a page that readers see;
- `Progress`: what the position of a writer in `write_page` says of its file
  (header written, whole, durable, renamed, directory synced);
- `NamesAreDurable`: every final name that a crash may leave leads to a durable
  whole file, and those of acknowledged pages lead to some file.

`NoPageIsTorn` and `OkIsDurable` read off the last part, and
`RegistryImplemented` shows that a step of `PageStore` maps to a step of
`PageRegistry` or a stutter.

### The stream

From `DeliveryAssumption`, `TypeCorrect` and `AtMostOnce` in
`StreamDeliveryProofs`: `AppliedOnce` is not inductive, a sequence must moreover
be unapplied while it is unacknowledged (`SinkAgrees`).

From `SnapshotAssumption` (`MaxSequence` is positive) in `StreamSnapshotsProofs`:
`StoreIsUsed` shows that the store moves by its own steps, so the theorems of
the store are cited for it by name.  `SnapshotIsRetained` joins two invariants:
the processor's `Pinned` (until it is revoked, the latest snapshot's lease is
registered on its state) and the store's `LeaseIndexesAgree` (so the collector
sees that lease on the state and starts from it).  A state that is a root is an
ancestor of itself and hence no garbage, so with the store's `SweepIsExact` the
latest snapshot's state loses only pages that some other state lists which is
garbage (`SnapshotKeepsUnshared`); forks that share their parent's pages are not
excluded.  `StandbyResumes`, `TypeCorrect` and `NumbersGrow` follow
from the invariant.

### Leases and sessions

From `SessionAssumption` (a time to live and the clock are below the width of
the time, and `None` is none of these times), in `ApplicationsProofs`.  `SessionsUseTheStore` proves the types and
that the store moves by its own steps.

- `LeasesProtect`: a registered lease makes its state a root
  (`LeaseIndexesAgree`), so by `CollectedExactly` no pass collects anything below
  it.
- `ForksAreAuthorized`: leases are only added, and a session grows only through
  a `fork` that `authorize` let pass.
- `TtlIsKept`: where `issued + ttl` wraps, the expiry is before the issue, and
  `validate` refuses it; where it does not, expiry less issue is the ttl that
  this lease was asked for.
- `SessionsReplay`: the invariant is `SessionsFollow`, every fork of a session is
  a child of the session's state before it and both are in the store.  The
  lineages of a session's states are then nested, and of two ancestors of a state
  one is an ancestor of the other, so a lineage has one order in which a state
  comes after its ancestors (`LineageEnds` excludes a cycle).  A sequence of all
  of a lineage exists because it is finite: each step adds at most one state
  (`StatesAreFinite`).  The set of ids may be infinite.

### The applications

In `ApplicationsProofs`, one inductive invariant for each module, since they
share no state.

- `HeadersCountTheirBytes`, from `ServingAssumption`: `element_count` multiplies
  modulo the word, `payload_size_bytes` checks.  The argument is that a product
  which fits has no partial product that does not, unless a dimension is zero,
  and then both are zero.  It goes by induction over the dimensions.
- `OnlyListedLeave`: the endpoint may change one thing of an envelope, so either
  the payload matches the digest and is listed, or the two differ and the
  receiver refuses it (`Sent`).
- `NoTokenIsLost`, from `WindowAssumption`: captures and active tokens joined
  are what was pushed; a slide moves tokens from one to the other
  (`WindowInv`).
- `PoolIsInPlace` and `ShellsAreHonest`, from `TierAssumption`, through
  `TiersAreRight`.  The arithmetic part: the offset of a layer, a head and a
  side is a bijection onto the blocks of a token, by division with remainder,
  and batches of any size joined give the whole layer.  The other part is the
  invariant `TierInv`: what is done of a build is what its owner's tokens give,
  in whichever order layers finish and in whichever form they were written.

### The codecs

In `TurboProofs`:

- `CappingKeepsTheTop` and `BudgetIsKept`, from `KvAssumption`.  The order by
  score and position is total, so the top `n` of a set are those with fewer than
  `n` above them; the top `k` of all tokens that a plan contains are then the top
  `k` of the plan, and a cap of at least `k` keeps them.  The budget follows from
  the loop of the adaptive plan, which stops at the cap or at the target.
- `RadiiComeBack`, from `RadiusAssumption`: rounding to the nearest of the levels
  is monotone, and if the levels divide a span no narrower than the block's range
  it stays in the range and is at most half a level too high
  (`QuantizedIsNear`).  It is at most half a level too low if the span is the
  range, that is, where the range is no narrower than `Epsilon`; for any range
  and any number of levels.  The smallest positive number that stands for a zero
  keeps the order.
- `PlansAreSound` is the invariant the two theorems about plans rest on.
- `SearchesAreOrdered`, from `ScoringAssumption` (a quantizer's dimension is even
  and for the Hadamard transform a power of two, vectors have pairs of whole
  radius): every score is an integer, whatever passes the transform makes and
  however long the sums (`ScoringInv`, `FwhtType`, `SumType`), so score, id and
  place order the entries totally, a search lists them in that order
  (`OrderedIs`) and cuts the list at its end.
- `ScoresAreOfTheDecoded`, from the same assumption: rotating back is the adjoint
  of rotating.  For the dense rotation that is an exchange of two sums
  (`MatrixMoves`); for the Hadamard transform each pass pairs an index with its
  partner and is symmetric (`PassMoves`), and passes of different strides commute,
  so that the transform is its own adjoint (`PassesCommute`, `FwhtMoves`), and the
  signs multiply on either side.  The score itself is the sum over pairs
  (`PolarScoreIs`).  Neither needs that the rotation is orthogonal, so the
  theorem holds for any matrix of integers, of any even dimension; a Hadamard
  transform has a dimension that is a power of two, up to 1024.

- `DecodesToTheSent` and `OwnBytesComeBack`, from `WireAssumption` and
  `CodeAssumption`.  Packed indices come back at any width from 1 to 32
  (`UnpackedSame`), so a payload read under the quantizer that wrote it is the
  code (`PayloadComesBack`).  Bytes that are intact are read only under that
  quantizer: the header gives dimension, bits, projections, seed and rotation,
  and whether there are signs the payload's length.  Bytes to which one thing
  happened are read to what was sent or to an error: a changed number is
  compared with one that did not change, a changed length with the header's, and
  a bit set in the padding is found (`DamageIsFound`); `WireInv` says which of
  these happened.  `WireAssumption` leaves out the radius codec
  `BlockLinearU16`, with which nothing in the repository writes a batch
  (`wire.rs:434`); its bytes would be flagged as those of another codec.

In `FibProofs`:

- `DeviceIsReady`, from `UnsetAssumption`, for any number of threads: what a
  thread saw is the one outcome there is, and `ready` is found only after the
  last step (`GpuInv`).
- `AnswersAreNearest`, from `WarpAssumption` (the lanes are a power of two),
  `LookupAssumption` (typed arguments, distances of finite blocks short of the
  loops' infinity)
  and `ScalarAssumption` (the numbers of levels there are tables for).  Each loop
  of `Codewords` has after each codeword what the rounds of the other have
  (`Runs`, `Found`), whether it takes them one by one or in pairs: that is
  `LoopsAgree`, for ties and any distances.  What it holds is the first nearest
  of the codewords so far (`BestOf`, `FoundIsNearest`).  In the kernel, after r exchanges and for every
  codeword, one of the first W ÷ 2^r lanes holds a codeword that is no farther,
  and in the end that is lane 0 (`Held`, `Covers`, `WarpIs`); which of several
  nearest ones it holds depends on the lanes.  A scalar index is less
  than the levels, so it fits its bits and packing returns it (`LevelIs`,
  `LevelsAreNearest`).  `ResultInv` has this of every result, and of a
  thread on its way to the device that its lookup fits the kernel and is finite.
- `CodesAreBound`, from `QuantizerAssumption` and `NormAssumption`: while the
  codes are not on the wire they are those the quantizer made, each with its
  digests (`CodeInv`), and one reader that accepts one code has the same profile
  and codewords.
- `BytesDecodeOrFail`, from the same assumptions.  Every code is made of a norm
  and of indices of codewords (`Made`), so its quantizer decodes it, and
  `decode_batch_fast`, which cuts the codewords out of one flat array, decodes it
  alike (`MadeDecodes`).  The bytes differ from the written ones by at most one
  mistake (`OneMistake`).  Where a reader does not fail, the header has the
  number of bits, of blocks and of bytes that were written, since they are
  compared with its profile or with each other, and a norm has two bytes
  (`CompactOutcome`, `BatchOutcome`).  Only the number of codes may be another;
  more do not fit in the buffer, and fewer give the first vectors, which is why
  the property has a prefix.  A byte too many is not looked at, a byte too few
  is missed.  `WireInv` is this and that what was decoded of whole bytes is all
  vectors; that no slice leaves the buffer needs only that the numbers in a
  header are natural (`WithinBytes`).
- `CodesAreNearest`, from `RotationAssumption` (the rows of a quantizer's matrix
  are of length 1 and at right angles, which QR gives), `VectorAssumption` (a
  vector is its norm times a direction with integer coordinates) and
  `DistanceAssumption` (no distance reaches the loops' infinity), besides the
  two above.  It is about single vectors and says nothing of a batch.  A choice of codewords decodes to N·Mᵀw, where N is the norm and w
  the codewords one after the other (`ChoiceDecodes`).  As M moves to the other
  side of an inner product (`MatrixMoves`) and Mᵀ keeps lengths
  (`OrthonormalKeeps`), its squared distance from the vector N·u is
  N²·(|u|² − |Mu|² + |Mu − w|²) (`ErrorIs`): only the last term depends on the
  choice, and it is the sum of the distances of the blocks (`GapsAre`).  Both
  loops find the nearest codeword of every block, so the sum is least
  (`GapsAreLeast`).  `InputsInv` says that whatever was encoded could be: no NaN,
  the right dimension, a norm in range.  Integer matrices of this kind only
  permute coordinates and change signs; the argument uses nothing of them but
  that the sums are exact, and the rows' right angles.
- `PagesDecodeInPlace`, from `FibKvAssumption`, for any shape, profile, policy
  and tensor.  Position in the tensor is a number in mixed radix, so two places
  have two positions (`PositionsDiffer`) and they are those of the strides
  (`StridesAgree`); every token is on a page (`TokenHasPage`); every page is
  one that encoding made, with at most one change, and a change spoils the
  digest (`FibKvInv`, `ChangeSpoils`).  What decoding leaves at a place is the
  last block for it, all of which say the same, or zero if a page is lost
  (`PlacedIs`).
- `TrainingImproves`, from `LloydAssumption`, which says what the line of
  integers stands for: the mean of any cell is on it.  The mean is the best
  codeword for its cell, and one step beside it costs one for each sample
  (`MeanIsLeast`); a repair splits a cell of several samples, so that next to
  each mean there is still a codeword whose cell is not empty (`SplitKeeps`),
  and the nearest codewords do no worse than these (`DistortionIsLeast`).  So an
  iteration that split nothing does not get worse, and one that did loses at most one per
  sample (`IterationBound`); `LloydInv` carries the best codebook and its
  distortion over iterations and restarts.

`FoldFacts` has the induction these need.  The induction theorems of the library
take the formula as a parameter, which the provers cannot instantiate, so
`NatSetInduction` is stated over a set and proved from the well-foundedness of
the naturals; from it come the existence of the recursive functions behind
`Product`, `FlattenSeq`, `MapThenFoldSet` and the loops of `TurboKv`, that
`Ordered` lists every member of a set once and in order (`OrderedIs`), and that
a sum over a set does not depend on the order it is taken in (`SumTakesOut`).
`Total` is that sum; it grows with its summands and is linear in them
(`TotalOrder`, `TotalCombines`), a double sum may be taken in either order, a
sum is not changed by a permutation, and it is the sum of the sums of its blocks
(`TotalExchange`, `TotalPermutes`, `TotalOfBlocks`).  Inner products, matrices
and squared distances are such sums (`MatrixMoves`, `ApartIs`).  The last part is about numbers as digits: a
number below a power of two is the sum of its binary digits (`BinaryIs`), the
bytes of a packing are below 256 and their digits are those of the indices, one
after the other (`PackedBitIs`), then zeros (`PackedPadding`).  Parts of one
length that were joined are cut out again as they were (`FlattenSlice`).

The type invariants of `StateStore`, `StreamDelivery` and `StreamSnapshots` are
proved and no longer part of the runs.

### Only model-checked

- `EventuallyApplied`: liveness under fairness is out of the prover's reach.
  All else that a passing run checks is stated by a theorem.

## Divergences without a run

Places where the code and what is said of it differ, that need no model to be
seen.  Those that a model contains are modelled as the code has them.

Store, pages, stream

- `gc.rs:3` and `gc.rs:27` speak of unreachable pages and states removed; the
  code deletes pages of manifests in the store only, and keeps the nodes
  (`gc.rs:68`, `gc.rs:83`).  `gc.rs:25` says non-expired leases; expiry is not
  looked at.
- `page_store.rs:57` leaves the temporary file behind when it fails.
- `stream.rs:1` promises exactly one processing; a repeated delivery reaches a
  second worker (`stream.rs:119`), and only the effect is applied once.

Sessions, serving

- `apps/agent.rs:60`: replay lists the ancestors of the parent after it.
- Workflows and chats keep ids of states that the store may have collected;
  `tool.rs:51` verifies that a result is present, not what it is;
  `detect_fork_opportunity` does not look at the order of pages; a search among
  document caches returns the oldest.
- The MCP server advertises `provekv_get_page` in a spelling that it does not
  match (`mcp_server.rs:112`); its store starts empty and no tool commits; a
  fork that is retried is refused because it exists.
- The digest of a page header is never computed again; `receive_page` does not
  look at the transfer id; `find_page` takes the layer for the first position.
- `state_policy.rs:64` says unknown kinds are rejected; they resolve to exact.

Pool and shells

- A `shell_codec` of turbo_8bit or of the exact fallback passes validation, and
  every materialization under it fails; a pool built under the exact fallback
  cannot be decoded.  `decompress_all_layers_with_seed` ignores its seed
  (`pool.rs:468`).

turbo-quant

- `wire.rs:621` checks for 44 bytes and slices 46; a batch of linear radii is
  flagged as logarithmic (`wire.rs:337`); reserved bytes of a batch are ignored.
- `polar.rs:270` says nearest neighbour; the angle is rounded down.
- Radii whose range is positive and below `f32::EPSILON` are quantized as if it
  were `f32::EPSILON` (`radius.rs:44`, `radius.rs:65`) and decompressed with the
  true one (`radius.rs:118`, `radius.rs:139`): they are squeezed towards the least
  of the block, by up to its whole range.  Nothing says how exact the codec is;
  `RadiiSurvive` says what holds.
- The top k of an adaptive plan is lost where weights vanish
  (`sparse_prefill.rs:57`); the blocks reported are those before the cap
  (`sparse_prefill.rs:231`).
- A cache with an exact policy and no shadow accepts tokens that it cannot read.

fib-quant, gpu-backend

- The empty digests of FB1 and FB2 are not compared (`codec.rs:165`); bytes
  after them are accepted; making FB2 does not compare the codes' digests.
- `decode_kv_pages` does not check that the pages cover all tokens;
  `raw_fallback_available` is ignored; keys of the role-aware axis are raw.
- A profile with k = 1 is valid and cannot be built.  No restart can end worse
  than it began, so the comparison with the initial codebook is never true.
- The lookup kernel breaks exact ties otherwise than the CPU, which
  `codec.rs:626` takes for byte-identical.  Wrappers for other kernels load
  symbols the module lacks; the Hadamard transform is reported as accelerated
  and always runs on the CPU; an index of more than 256 levels wraps.
- Centroids for a number of levels without a table are to be approximate
  (`fallback.rs:191`); `probit` takes the root of a negative logarithm
  (`fallback.rs:208`), so with more than one level they are NaN, and every value has index 0.

## Not modelled

- `limits.rs` and `state_policy.rs`: a table and a match.  `quant-codec-core`:
  traits and identifiers.  Python bindings, scripts, vendored code.
- Rounding of floats, and what exists only in them: the initial codebook
  (`beta_inv`, `spherical_beta`, `directions`), random matrices, calibration,
  quality measures, evaluation and baselines, the summary of the sparse-prefill
  benchmark.
- Digests, which are taken to be injective, and serialization as JSON.
- Receipts, footprints, counts of tokens and bytes of the bridge.
- Whether temporary files are gone after a recovery: `Recover` removes them, but
  `PageRegistry` does not see them and no property is about them.  Page files that a restart of the store
  orphans stay, and no property says who removes them.
- The threshold of `lloyd_max_batch`: a block whose norm is positive and at most
  1e-10 counts as zero (`fallback.rs:119`); norms are whole numbers in the model.
- `selected_blocks` of a sparse plan, which no property is about.
- JSON, HTTP and the poisoning of the MCP server's lock.
- `verify_branch_isolation`, which follows first children and changes nothing;
  deletion of pages through the public field `page_store`.

## Plan

Done: the models of all parts listed above, and proofs for the store, its pages,
the stream, leases and sessions, transport and window, pool and shells, sparse
plans, radii, scores and search, the wire formats of turbo-quant, codes and what they
decode to, KV pages, training, the dispatch to the device and its lookups.
Nothing of the plan is left.
