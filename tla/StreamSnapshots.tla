--------------------------- MODULE StreamSnapshots ---------------------------
(***************************************************************************)
(* The snapshot half of StreamProcessor (stream.rs), which owns a state    *)
(* store: capture_snapshot pins a state with a lease and remembers it as   *)
(* the latest, standby_resume goes back to it, collect runs the collector. *)
(* The field `store` is public, so between two calls the owner may make    *)
(* any call of the store, and may revoke a snapshot's lease by its id.     *)
(* The store is an instance of StateStore and moves only by its steps.     *)
(*                                                                         *)
(* Lease ids are random: one that was revoked is not issued again.         *)
(* snapshot_scheduler calls capture_snapshot when enough time has passed;  *)
(* here a capture may come at any time.                                    *)
(*                                                                         *)
(* A definition whose name starts with Wrong is a mistake the definition   *)
(* after it could have had; no specification uses it.                      *)
(***************************************************************************)
EXTENDS Naturals

CONSTANTS
    StateId, LeaseId, Page, PageRefs, NoParent,     \* as in StateStore
    NoSnapshot,     \* latest = None
    MaxSequence     \* u64::MAX

ASSUME SnapshotAssumption ==
    /\ PageRefs \in [StateId -> SUBSET Page]
    /\ NoParent \notin StateId
    /\ MaxSequence \in Nat \ {0}
    /\ NoSnapshot \notin [sequence : Nat, state : StateId, lease : LeaseId]

VARIABLES
    states, leases, stored, report,     \* StreamProcessor.store
    next_sequence,  \* StreamProcessor.next_sequence
    latest,         \* StreamProcessor.latest
    captured,       \* lease ids of the snapshots returned so far
    revoked         \* lease ids that were revoked, or lost in a restart

Store == INSTANCE StateStore

storeVars == <<states, leases, stored, report>>
streamVars == <<next_sequence, latest, captured>>
vars == <<storeVars, streamVars, revoked>>
-----------------------------------------------------------------------------
(* Mistake: the counter wraps. *)
WrongSucc(n) == (n + 1) % (MaxSequence + 1)

(* saturating_add *)
Succ(n) == IF n = MaxSequence THEN n ELSE n + 1

Init ==
    /\ Store!Init
    /\ next_sequence = 0
    /\ latest = NoSnapshot
    /\ captured = {}
    /\ revoked = {}

(* Mistake: the lease is made and not registered. *)
WrongCapture(i, l) ==
    /\ l \notin revoked \cup captured
    /\ i \in Store!Known
    /\ ~states[i].released
    /\ next_sequence' = Succ(next_sequence)
    /\ latest' = [sequence |-> Succ(next_sequence), state |-> i, lease |-> l]
    /\ captured' = captured \cup {l}
    /\ UNCHANGED <<storeVars, revoked>>

(* capture_snapshot returns a snapshot: the lease was registered.  The     *)
(* lease of the snapshot before it is not touched.                         *)
Capture(i, l) ==
    /\ l \notin revoked
    /\ Store!RegisterLease(l, i)
    /\ next_sequence' = Succ(next_sequence)
    /\ latest' = [sequence |-> Succ(next_sequence), state |-> i, lease |-> l]
    /\ captured' = captured \cup {l}
    /\ UNCHANGED revoked

(* The state is there, but StateLease::new fails (a time to live of zero,  *)
(* the clock, the random source) or register_lease refuses a released      *)
(* state.  The sequence number is gone.                                    *)
CaptureFails ==
    /\ Store!Known # {}
    /\ next_sequence' = Succ(next_sequence)
    /\ UNCHANGED <<storeVars, latest, captured, revoked>>

(* collect, or the owner's own call of gc::collect. *)
Collect ==
    /\ \/ Store!Collect
       \/ \E p \in Page, D \in SUBSET Page : Store!CollectFails(p, D)
    /\ UNCHANGED <<streamVars, revoked>>

(* Another call of the owner on its store. *)
OwnerCall ==
    /\ \/ \E i \in StateId : Store!CommitRoot(i) \/ Store!Release(i)
       \/ \E p, c \in StateId : Store!Fork(p, c)
       \/ \E l \in LeaseId \ revoked, i \in StateId : Store!RegisterLease(l, i)
       \/ \E p \in Page : Store!WritePage(p)
    /\ UNCHANGED <<streamVars, revoked>>

OwnerRevokes(l) ==
    /\ Store!RevokeLease(l)
    /\ revoked' = revoked \cup {l}
    /\ UNCHANGED streamVars

(* Mistake: the latest snapshot is kept across a restart, the store is not. *)
WrongRestart ==
    /\ Store!Reopen
    /\ next_sequence' = 0
    /\ captured' = {}
    /\ UNCHANGED <<latest, revoked>>

(* The process ends; a new processor is made over the reopened store. *)
Restart ==
    /\ Store!Reopen
    /\ next_sequence' = 0
    /\ latest' = NoSnapshot
    /\ captured' = {}
    /\ revoked' = revoked \cup DOMAIN leases

Next ==
    \/ \E i \in StateId, l \in LeaseId : Capture(i, l)
    \/ CaptureFails
    \/ Collect
    \/ OwnerCall
    \/ \E l \in LeaseId : OwnerRevokes(l)
    \/ Restart

Spec == Init /\ [][Next]_vars
-----------------------------------------------------------------------------
(* Properties.                                                             *)

Taken == latest # NoSnapshot

(* Every variable has its type; a snapshot's number has been given out and *)
(* its lease counted as captured; revoked ids are not registered.          *)
TypeOK ==
    /\ Store!TypeOK
    /\ next_sequence \in 0 .. MaxSequence
    /\ Taken => latest \in [sequence : 1 .. next_sequence,
                            state : StateId, lease : captured]
    /\ captured \subseteq LeaseId
    /\ revoked \subseteq LeaseId /\ revoked \cap DOMAIN leases = {}

(* standby_resume finds the state of the latest snapshot, whatever the     *)
(* owner released, revoked or collected since.                             *)
StandbyFindsState == Taken => latest.state \in Store!Known

(* As long as nobody revokes its lease, the collector retains the state of *)
(* the latest snapshot: also when it is released and all its ancestors are. *)
SnapshotRetained ==
    Taken /\ latest.lease \notin revoked => latest.state \in Store!Reachable

(* ... and deletes no page of it but one that it shares with garbage: with *)
(* another state that is released and unleased, as are all its ancestors.  *)
SnapshotLosesOnlyShared ==
    [][Taken /\ latest.lease \notin revoked =>
         (stored \ stored') \cap PageRefs[latest.state]
             \subseteq Store!PagesOf(Store!Garbage \ {latest.state})]_vars

(* A later snapshot has a greater number, through failed captures and as   *)
(* long as numbers last.                                                   *)
LaterIsGreater ==
    [][Taken /\ Taken' /\ latest' # latest =>
         \/ latest'.sequence > latest.sequence
         \/ latest.sequence = MaxSequence]_vars

(* stream.rs:143, "Release old snapshot leases and run the existing        *)
(* collector": after a pass only the latest snapshot has its lease.  The   *)
(* code runs the collector and releases nothing.                           *)
OldLeasesReleased ==
    report # Store!NoReport /\ Taken =>
        captured \cap DOMAIN leases \subseteq {latest.lease}
=============================================================================
