------------------------ MODULE StreamSnapshotsProofs ------------------------
(***************************************************************************)
(* Theorems about StreamSnapshots for every set of states, leases and      *)
(* pages.  The store of a processor moves by steps of StateStore           *)
(* (StoreIsUsed), so the theorems of StateStoreProofs hold of it.          *)
(***************************************************************************)
EXTENDS StreamSnapshots, TLAPS

Proved == INSTANCE StateStoreProofs

LEMMA StepUsesStore == [Next]_vars => [Store!Next]_(Store!vars)
<1> SUFFICES ASSUME [Next]_vars PROVE [Store!Next]_(Store!vars)
  OBVIOUS
<1> USE DEF Store!vars, storeVars
<1>1. ASSUME NEW i \in StateId, NEW l \in LeaseId, Capture(i, l)
      PROVE  Store!Next
  BY <1>1 DEF Capture, Store!Next
<1>2. CASE CaptureFails
  BY <1>2 DEF CaptureFails
<1>3. CASE Collect
  BY <1>3 DEF Collect, Store!Next
<1>4. CASE OwnerCall
  BY <1>4 DEF OwnerCall, Store!Next
<1>5. ASSUME NEW l \in LeaseId, OwnerRevokes(l)
      PROVE  Store!Next
  BY <1>5 DEF OwnerRevokes, Store!Next
<1>6. CASE Restart
  BY <1>6 DEF Restart, Store!Next
<1>7. CASE UNCHANGED vars
  BY <1>7 DEF vars
<1> QED
  BY <1>1, <1>2, <1>3, <1>4, <1>5, <1>6, <1>7 DEF Next

(* Whatever the processor does, its store moves by the store's own steps.  *)
THEOREM StoreIsUsed == Spec => Store!Spec
<1>1. Init => Store!Init
  BY DEF Init
<1> QED
  BY <1>1, StepUsesStore, PTL DEF Spec, Store!Spec

(* The instance that StreamSnapshots declares and the one whose theorems   *)
(* are cited here have the same definitions.                               *)
LEMMA SameView ==
    /\ Store!Known = Proved!Known
    /\ Store!Roots = Proved!Roots
    /\ Store!Reachable = Proved!Reachable
    /\ Store!Collectable = Proved!Collectable
    /\ Store!Doomed = Proved!Doomed
    /\ Store!NoReport = Proved!NoReport
    /\ Store!Garbage = Proved!Garbage
    /\ \A S : Store!PagesOf(S) = Proved!PagesOf(S)
<1>1. Store!Known = Proved!Known /\ Store!NoReport = Proved!NoReport
  BY DEF Store!Known, Proved!Known, Store!NoReport, Proved!NoReport
<1>2. Store!Roots = Proved!Roots
  BY <1>1 DEF Store!Roots, Proved!Roots
<1>3. Store!Reachable = Proved!Reachable
  BY <1>1, <1>2
  DEF Store!Reachable, Proved!Reachable, Store!ChildClosed, Proved!ChildClosed
<1>4. Store!Collectable = Proved!Collectable
  BY <1>1, <1>3 DEF Store!Collectable, Proved!Collectable
<1>5. Store!Doomed = Proved!Doomed
  BY <1>4 DEF Store!Doomed, Proved!Doomed, Store!PagesOf, Proved!PagesOf
<1>6. Store!Garbage = Proved!Garbage
  BY <1>1, <1>2 DEF Store!Garbage, Proved!Garbage, Store!Lineage, Proved!Lineage,
                    Store!ParentClosed, Proved!ParentClosed
<1>7. \A S : Store!PagesOf(S) = Proved!PagesOf(S)
  BY DEF Store!PagesOf, Proved!PagesOf
<1> QED
  BY <1>1, <1>2, <1>3, <1>4, <1>5, <1>6, <1>7

LEMMA SameInit == Store!Init => Proved!Init
  BY DEF Store!Init, Proved!Init, Store!NewNode, Proved!NewNode,
         Store!NoReport, Proved!NoReport

LEMMA SameNext == Store!Next => Proved!Next
<1> SUFFICES ASSUME Store!Next PROVE Proved!Next
  OBVIOUS
<1> USE SameView
<1>1. ASSUME NEW i \in StateId, Store!CommitRoot(i) PROVE Proved!CommitRoot(i)
  BY <1>1 DEF Store!CommitRoot, Proved!CommitRoot, Store!Insert, Proved!Insert,
              Store!NewNode, Proved!NewNode
<1>2. ASSUME NEW p \in StateId, NEW c \in StateId, Store!Fork(p, c)
      PROVE  Proved!Fork(p, c)
  BY <1>2 DEF Store!Fork, Proved!Fork, Store!Insert, Proved!Insert,
              Store!NewNode, Proved!NewNode
<1>3. ASSUME NEW l \in LeaseId, NEW i \in StateId, Store!RegisterLease(l, i)
      PROVE  Proved!RegisterLease(l, i)
  BY <1>3 DEF Store!RegisterLease, Proved!RegisterLease
<1>4. ASSUME NEW l \in LeaseId, Store!RevokeLease(l) PROVE Proved!RevokeLease(l)
  BY <1>4 DEF Store!RevokeLease, Proved!RevokeLease
<1>5. ASSUME NEW i \in StateId, Store!Release(i) PROVE Proved!Release(i)
  BY <1>5 DEF Store!Release, Proved!Release
<1>6. ASSUME NEW p \in Page, Store!WritePage(p) PROVE Proved!WritePage(p)
  BY <1>6 DEF Store!WritePage, Proved!WritePage
<1>7. Store!Collect => Proved!Collect
  BY DEF Store!Collect, Proved!Collect
<1>8. ASSUME NEW p \in Page, NEW D \in SUBSET Page, Store!CollectFails(p, D)
      PROVE  Proved!CollectFails(p, D)
  BY <1>8 DEF Store!CollectFails, Proved!CollectFails
<1>9. Store!Reopen => Proved!Reopen
  BY DEF Store!Reopen, Proved!Reopen, Store!NewNode, Proved!NewNode
<1> QED
  BY <1>1, <1>2, <1>3, <1>4, <1>5, <1>6, <1>7, <1>8, <1>9
  DEF Store!Next, Proved!Next

LEMMA ProvedSpec == Spec => Proved!Spec
<1>1. [Store!Next]_(Store!vars) => [Proved!Next]_(Proved!vars)
  BY SameNext DEF Store!vars, Proved!vars
<1> QED
  BY <1>1, SameInit, StoreIsUsed, PTL
  DEF Store!Spec, Proved!Spec

LEMMA ProvedAssumption == Proved!StoreAssumption
  BY SnapshotAssumption DEF Proved!StoreAssumption

LEMMA StoreInvariant == Spec => []Proved!IInv
<1>1. Proved!Spec => []Proved!IInv
  BY ProvedAssumption, Proved!Invariance
<1> QED
  BY <1>1, ProvedSpec, PTL

(***************************************************************************)
(* The inductive invariant: the processor's own variables are well formed, *)
(* and the latest snapshot is pinned until its lease is revoked.  Together *)
(* with the store's LeaseIndexesAgree the second makes its state a root.   *)
(***************************************************************************)
OwnTypes ==
    /\ next_sequence \in 0 .. MaxSequence
    /\ Taken => latest \in [sequence : 1 .. next_sequence,
                            state : StateId, lease : captured]
    /\ captured \subseteq LeaseId
    /\ revoked \subseteq LeaseId /\ revoked \cap DOMAIN leases = {}

Pinned ==
    Taken => /\ latest.state \in Store!Known
             /\ latest.lease \notin revoked => /\ latest.lease \in DOMAIN leases
                                               /\ leases[latest.lease] = latest.state

SInv == OwnTypes /\ Pinned

LEMMA SuccIsNext ==
    ASSUME NEW n \in 0 .. MaxSequence
    PROVE  Succ(n) \in 1 .. MaxSequence /\ Succ(n) >= n
  BY SnapshotAssumption DEF Succ

LEMMA CapturePins ==
    ASSUME SInv, NEW i \in StateId, NEW l \in LeaseId, Capture(i, l)
    PROVE  SInv'
<1> USE DEF SInv
<1>1. next_sequence' = Succ(next_sequence) /\ next_sequence' \in 1 .. MaxSequence
  BY SuccIsNext DEF OwnTypes, Capture
<1>2. latest' = [sequence |-> next_sequence', state |-> i, lease |-> l]
  BY DEF Capture
<1>3. latest'.state = i /\ latest'.lease = l
  BY <1>2
<1>4. captured' = captured \cup {l} /\ revoked' = revoked /\ l \notin revoked
  BY DEF Capture
<1>5. /\ DOMAIN leases' = DOMAIN leases \cup {l} /\ leases'[l] = i
      /\ i \in Store!Known'
  BY DEF Capture, Store!RegisterLease, Store!Known
<1>6. OwnTypes'
  <2>1. latest' \in [sequence : 1 .. next_sequence', state : StateId, lease : captured']
    BY <1>1, <1>2, <1>4
  <2> QED
    BY <1>1, <1>4, <1>5, <2>1 DEF OwnTypes
<1>7. Pinned'
  BY <1>3, <1>5 DEF Pinned
<1> QED
  BY <1>6, <1>7

LEMMA CaptureFailsPins ==
    ASSUME SInv, CaptureFails
    PROVE  SInv'
<1> USE DEF SInv
<1>1. /\ next_sequence' \in 1 .. MaxSequence /\ next_sequence' >= next_sequence
      /\ UNCHANGED <<states, leases, latest, captured, revoked>>
  BY SuccIsNext DEF OwnTypes, CaptureFails, storeVars
<1>2. Taken' => latest' \in [sequence : 1 .. next_sequence',
                             state : StateId, lease : captured']
  <2> SUFFICES ASSUME Taken
               PROVE  latest \in [sequence : 1 .. next_sequence',
                                  state : StateId, lease : captured]
    BY <1>1 DEF Taken
  <2>1. latest \in [sequence : 1 .. next_sequence, state : StateId, lease : captured]
    BY DEF OwnTypes
  <2>2. \A n \in 1 .. next_sequence : n \in 1 .. next_sequence'
    BY <1>1 DEF OwnTypes
  <2> QED
    BY <2>1, <2>2
<1>3. OwnTypes'
  BY <1>1, <1>2 DEF OwnTypes
<1>4. Pinned'
  BY <1>1 DEF Pinned, Taken, Store!Known
<1> QED
  BY <1>3, <1>4

(* Calls that change nothing of the processor and forget neither a state   *)
(* nor a lease.                                                            *)
LEMMA KeepingPins ==
    ASSUME SInv, UNCHANGED <<streamVars, revoked>>,
           Store!Known \subseteq Store!Known',
           DOMAIN leases \subseteq DOMAIN leases',
           DOMAIN leases' \cap revoked = {},
           \A k \in DOMAIN leases : leases'[k] = leases[k]
    PROVE  SInv'
  BY DEF SInv, OwnTypes, Pinned, Taken, streamVars

LEMMA OwnerCallPins ==
    ASSUME SInv, OwnerCall
    PROVE  SInv'
<1> USE DEF Store!Known
<1>1. UNCHANGED <<streamVars, revoked>>
  BY DEF OwnerCall
<1>2. DOMAIN leases \cap revoked = {}
  BY DEF SInv, OwnTypes
<1>3. ASSUME NEW i \in StateId, Store!CommitRoot(i) PROVE SInv'
  BY <1>1, <1>2, <1>3, KeepingPins DEF Store!CommitRoot, Store!Insert
<1>4. ASSUME NEW i \in StateId, Store!Release(i) PROVE SInv'
  BY <1>1, <1>2, <1>4, KeepingPins DEF Store!Release
<1>5. ASSUME NEW p \in StateId, NEW c \in StateId, Store!Fork(p, c) PROVE SInv'
  BY <1>1, <1>2, <1>5, KeepingPins DEF Store!Fork, Store!Insert
<1>6. ASSUME NEW l \in LeaseId \ revoked, NEW i \in StateId, Store!RegisterLease(l, i)
      PROVE  SInv'
  BY <1>1, <1>2, <1>6, KeepingPins DEF Store!RegisterLease
<1>7. ASSUME NEW p \in Page, Store!WritePage(p) PROVE SInv'
  BY <1>1, <1>2, <1>7, KeepingPins DEF Store!WritePage
<1> QED
  BY <1>3, <1>4, <1>5, <1>6, <1>7 DEF OwnerCall

LEMMA RevokePins ==
    ASSUME SInv, NEW l \in LeaseId, OwnerRevokes(l)
    PROVE  SInv'
<1> USE DEF SInv
<1>1. /\ UNCHANGED streamVars /\ revoked' = revoked \cup {l}
      /\ leases' = [k \in DOMAIN leases \ {l} |-> leases[k]]
      /\ Store!Known' = Store!Known
  BY DEF OwnerRevokes, Store!RevokeLease, Store!Known
<1>2. OwnTypes'
  BY <1>1 DEF OwnTypes, Taken, streamVars
<1>3. Pinned'
  BY <1>1 DEF Pinned, Taken, streamVars
<1> QED
  BY <1>2, <1>3

LEMMA RestartPins ==
    ASSUME SInv, Restart, DOMAIN leases \subseteq LeaseId
    PROVE  SInv'
<1> USE DEF SInv
<1>1. /\ next_sequence' = 0 /\ latest' = NoSnapshot /\ captured' = {}
      /\ revoked' = revoked \cup DOMAIN leases /\ DOMAIN leases' = {}
  BY DEF Restart, Store!Reopen
<1>2. ~Taken'
  BY <1>1 DEF Taken
<1>3. 0 \in 0 .. MaxSequence
  BY SnapshotAssumption
<1> QED
  BY <1>1, <1>2, <1>3 DEF OwnTypes, Pinned

LEMMA NextPins ==
    ASSUME SInv, Proved!IInv, [Next]_vars
    PROVE  SInv'
<1>1. DOMAIN leases \subseteq LeaseId
  BY DEF Proved!IInv, Proved!TypeOK
<1>2. CASE Collect
  <2>1. UNCHANGED <<states, leases, streamVars, revoked>>
    BY <1>2 DEF Collect, Store!Collect, Store!CollectFails
  <2> QED
    BY <2>1, KeepingPins DEF Store!Known, SInv, OwnTypes
<1>3. CASE UNCHANGED vars
  <2>1. UNCHANGED <<states, leases, streamVars, revoked>>
    BY <1>3 DEF vars, storeVars
  <2> QED
    BY <2>1, KeepingPins DEF Store!Known, SInv, OwnTypes
<1> QED
  BY <1>1, <1>2, <1>3, CapturePins, CaptureFailsPins, OwnerCallPins, RevokePins,
     RestartPins DEF Next

(* The invariant holds in every state of a processor and its store.        *)
THEOREM Invariance == Spec => [](SInv /\ Proved!IInv)
<1>1. Init => SInv
  BY SnapshotAssumption
  DEF Init, SInv, OwnTypes, Pinned, Taken, Store!Init
<1>2. SInv /\ Proved!IInv /\ [Next]_vars => SInv'
  BY NextPins
<1> QED
  BY <1>1, <1>2, StoreInvariant, PTL DEF Spec

(* The processor's variables and its store's are well formed.              *)
THEOREM TypeCorrect == Spec => []TypeOK
<1>1. SInv /\ Proved!IInv => TypeOK
  <2> SUFFICES ASSUME SInv, Proved!IInv PROVE TypeOK
    OBVIOUS
  <2>1. Store!TypeOK
    BY DEF Proved!IInv, Proved!TypeOK, Proved!Known, Proved!Node, Proved!Report,
           Store!TypeOK, Store!Known, Store!Node, Store!Report
  <2> QED
    BY <2>1 DEF SInv, OwnTypes, TypeOK
<1> QED
  BY <1>1, Invariance, PTL

(* standby_resume finds the state of the latest snapshot.                  *)
THEOREM StandbyResumes == Spec => []StandbyFindsState
<1>1. SInv => StandbyFindsState
  BY DEF SInv, Pinned, StandbyFindsState
<1> QED
  BY <1>1, Invariance, PTL

LEMMA PinnedIsRoot ==
    ASSUME SInv, Proved!IInv, Taken, latest.lease \notin revoked
    PROVE  latest.state \in Proved!Known /\ latest.state \in Proved!Roots
<1>1. latest.state \in Proved!Known
  BY DEF SInv, Pinned, Store!Known, Proved!Known
<1>2. latest.lease \in states[latest.state].active
  <2>1. latest.lease \in DOMAIN leases /\ leases[latest.lease] = latest.state
    BY DEF SInv, Pinned
  <2>2. latest.lease \in LeaseId
    BY <2>1 DEF Proved!IInv, Proved!TypeOK
  <2> QED
    BY <1>1, <2>1, <2>2 DEF Proved!IInv, Proved!LeaseIndexesAgree
<1> QED
  BY <1>1, <1>2 DEF Proved!Roots

LEMMA PinnedIsRetained == SInv /\ Proved!IInv => SnapshotRetained
<1> SUFFICES ASSUME SInv, Proved!IInv, Taken, latest.lease \notin revoked
             PROVE  latest.state \in Store!Reachable
  BY DEF SnapshotRetained
<1>1. latest.state \in Proved!Reachable
  BY PinnedIsRoot DEF Proved!Reachable
<1> QED
  BY <1>1, SameView

(* The collector retains the latest snapshot's state until its lease is    *)
(* revoked.                                                                *)
THEOREM SnapshotIsRetained == Spec => []SnapshotRetained
  BY PinnedIsRetained, Invariance, PTL

(* Until its lease is revoked, the latest snapshot's state is its own      *)
(* ancestor and a root, so it is never garbage.                            *)
LEMMA PinnedIsNoGarbage ==
    ASSUME SInv, Proved!IInv, Taken, latest.lease \notin revoked
    PROVE  latest.state \notin Proved!Garbage
<1>1. latest.state \in Proved!Lineage(latest.state)
  BY PinnedIsRoot DEF Proved!Lineage
<1> QED
  BY <1>1, PinnedIsRoot DEF Proved!Garbage

(* Whichever manifests share pages, and whatever the collector does or     *)
(* fails at, until its lease is revoked the latest snapshot's state loses  *)
(* a page only to a pass that takes another state which lists that page.   *)
THEOREM SnapshotKeepsUnshared == Spec => SnapshotLosesOnlyShared
<1>1. Proved!Spec => Proved!SweptExactly
  BY ProvedAssumption, Proved!SweepIsExact
<1>2. /\ SInv /\ Proved!IInv
      /\ [/\ stored \ stored' \subseteq Proved!PagesOf(Proved!Garbage)
          /\ report' # Proved!NoReport =>
                 stored' \cap Proved!PagesOf(Proved!Garbage) = {}]_(Proved!vars)
      => [Taken /\ latest.lease \notin revoked =>
             (stored \ stored') \cap PageRefs[latest.state]
                 \subseteq Store!PagesOf(Store!Garbage \ {latest.state})]_vars
  <2> SUFFICES ASSUME SInv, Proved!IInv, Taken, latest.lease \notin revoked,
                      [stored \ stored' \subseteq
                          Proved!PagesOf(Proved!Garbage)]_(Proved!vars)
               PROVE  stored \ stored'
                          \subseteq Store!PagesOf(Store!Garbage \ {latest.state})
    OBVIOUS
  <2>1. Store!Garbage \ {latest.state} = Proved!Garbage
    BY PinnedIsNoGarbage, SameView
  <2>2. stored \ stored' \subseteq Proved!PagesOf(Proved!Garbage)
    BY DEF Proved!vars
  <2> QED
    BY <2>1, <2>2, SameView
<1> QED
  BY <1>1, <1>2, ProvedSpec, Invariance, PTL
  DEF Proved!SweptExactly, SnapshotLosesOnlyShared

(* A later snapshot has a greater number until numbers run out.            *)
THEOREM NumbersGrow == Spec => LaterIsGreater
<1>1. SInv /\ [Next]_vars
        => [Taken /\ Taken' /\ latest' # latest =>
              \/ latest'.sequence > latest.sequence
              \/ latest.sequence = MaxSequence]_vars
  <2> SUFFICES ASSUME SInv, [Next]_vars, Taken, Taken', latest' # latest
               PROVE  \/ latest'.sequence > latest.sequence
                      \/ latest.sequence = MaxSequence
    OBVIOUS
  <2>1. PICK i \in StateId, l \in LeaseId : Capture(i, l)
    BY DEF Next, vars, streamVars, CaptureFails, Collect, OwnerCall, OwnerRevokes,
           Restart, Taken
  <2>2. latest'.sequence = Succ(next_sequence)
    BY <2>1 DEF Capture
  <2>3. latest.sequence \in 1 .. next_sequence /\ next_sequence \in 0 .. MaxSequence
    BY DEF SInv, OwnTypes
  <2>4. CASE next_sequence = MaxSequence
    BY <2>2, <2>3, <2>4, SnapshotAssumption DEF Succ
  <2>5. CASE next_sequence # MaxSequence
    BY <2>2, <2>3, <2>5, SnapshotAssumption DEF Succ
  <2> QED
    BY <2>4, <2>5
<1> QED
  BY <1>1, Invariance, PTL DEF Spec, LaterIsGreater
=============================================================================
