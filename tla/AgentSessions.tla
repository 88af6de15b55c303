---------------------------- MODULE AgentSessions ----------------------------
(***************************************************************************)
(* Leases and the agent sessions that fork under them (lease.rs,           *)
(* apps/agent.rs), over the state store.  A lease is a value its holder    *)
(* keeps; the store learns of it only when it is registered, and authorize *)
(* reads the holder's copy.  A session is memory of the process, like the  *)
(* store, and is lost with it; leases are serializable and survive.        *)
(*                                                                         *)
(* A definition whose name starts with Wrong is a mistake the definition   *)
(* after it could have had.                                                *)
(***************************************************************************)
EXTENDS StateStore, Naturals, Sequences, SequencesExt, Functions, Sorting

CONSTANTS
    Agent,      \* AgentSession values
    Grant,      \* arguments of StateLease::new: principal, rights, ttl, epoch
    Caller,     \* arguments of a fork: principal, epoch
    None,       \* the None of an Option
    MaxTime,    \* the clock stops there
    Width       \* 2^64 in the code: milliseconds are counted modulo Width

ASSUME SessionAssumption ==
    /\ \A g \in Grant : g.ttl \in 0 .. Width - 1 \cup {None}
    /\ MaxTime \in Nat /\ Width \in Nat /\ MaxTime < Width
    /\ None \notin 0 .. Width - 1

VARIABLES
    clock,      \* SystemTime::now
    held,       \* the leases issued so far: id -> StateLease
    session     \* agent -> its AgentSession, None before it starts

sessionVars == <<clock, held, session>>

-----------------------------------------------------------------------------
(* Leases.                                                                 *)

(* Mistake: a lease whose expiry has wrapped around is issued. *)
WrongValid(lease) == lease.rights # {}

Valid(lease) ==
    /\ lease.rights # {}
    /\ lease.expires # None => lease.expires > lease.issued

(* StateLease::new.  issued + ttl wraps around in a release build; a debug *)
(* build panics there and issues nothing.  asked is history: the code      *)
(* keeps the sum and forgets the ttl.                                      *)
NewLease(i, g) ==
    [state |-> i, principal |-> g.principal, rights |-> g.rights,
     epoch |-> g.epoch, issued |-> clock, asked |-> g.ttl,
     expires |-> IF g.ttl = None THEN None ELSE (clock + g.ttl) % Width]

Expired(lease) == lease.expires # None /\ clock >= lease.expires

(* The state a session's next fork starts from. *)
Current(s) == IF s.forks = <<>> THEN s.parent ELSE Last(s.forks)

(* Mistake: the lease may name any state of the session. *)
WrongAuthorized(lease, right, caller, s) ==
    /\ caller.principal = lease.principal
    /\ lease.state \in {s.parent} \cup {s.forks[k] : k \in DOMAIN s.forks}
    /\ ~Expired(lease)
    /\ caller.epoch <= lease.epoch
    /\ right \in lease.rights

(* authorize: every check of status passes, so their order is of no matter. *)
Authorized(lease, right, caller, s) ==
    /\ caller.principal = lease.principal
    /\ lease.state = Current(s)
    /\ ~Expired(lease)
    /\ caller.epoch <= lease.epoch
    /\ right \in lease.rights

-----------------------------------------------------------------------------
(* replay.                                                                 *)

(* The states of S, each before its descendants: the walk along parent_id  *)
(* from a state to its root, reversed, without the states not in S.        *)
Ancestry == {p \in Known \X Known : p[1] # p[2] /\ p[1] \in Lineage(p[2])}

Descending(S) == Ordered(S, Ancestry)

(* Mistake: a state is not remembered once it is listed. *)
WrongReplay(s) ==
    FoldLeft(LAMBDA done, f : done \o Descending(Lineage(f)), <<s.parent>>, s.forks)

(* For each fork in turn, the states of its path that are not listed yet.  *)
(* Read where every fork of s is known; replay is an error elsewhere.      *)
Replay(s) ==
    FoldLeft(LAMBDA done, f : done \o Descending(Lineage(f) \ Range(done)),
             <<s.parent>>, s.forks)

Replayable(s) == \A k \in DOMAIN s.forks : s.forks[k] \in Known

-----------------------------------------------------------------------------
SessionInit ==
    /\ Init
    /\ clock = 0
    /\ held = [l \in {} |-> None]
    /\ session = [a \in Agent |-> None]

Tick ==
    /\ clock < MaxTime
    /\ clock' = clock + 1
    /\ UNCHANGED <<vars, held, session>>

Issue(l, i, g) ==
    /\ l \notin DOMAIN held
    /\ Valid(NewLease(i, g))
    /\ held' = Insert(held, l, NewLease(i, g))
    /\ UNCHANGED <<vars, clock, session>>

StartSession(a, i) ==
    /\ session[a] = None
    /\ session' = [session EXCEPT ![a] = [parent |-> i, forks |-> <<>>]]
    /\ UNCHANGED <<vars, clock, held>>

AgentFork(a, l, caller, c) ==
    /\ session[a] # None
    /\ l \in DOMAIN held
    /\ Authorized(held[l], "Fork", caller, session[a])
    /\ Fork(Current(session[a]), c)
    /\ session' = [session EXCEPT ![a].forks = Append(@, c)]
    /\ UNCHANGED <<clock, held>>

StoreStep ==
    /\ \/ \E i \in StateId : CommitRoot(i) \/ Release(i)
       \/ \E p, c \in StateId : Fork(p, c)
       \/ \E l \in DOMAIN held : RegisterLease(l, held[l].state)
       \/ \E l \in LeaseId : RevokeLease(l)
       \/ Collect
    /\ UNCHANGED sessionVars

(* The process ends: its store and its sessions go, leases and time stay. *)
Restart ==
    /\ Reopen
    /\ session' = [a \in Agent |-> None]
    /\ UNCHANGED <<clock, held>>

SessionNext ==
    \/ Tick
    \/ \E l \in LeaseId, i \in StateId, g \in Grant : Issue(l, i, g)
    \/ \E a \in Agent, i \in StateId : StartSession(a, i)
    \/ \E a \in Agent, l \in LeaseId, caller \in Caller, c \in StateId :
           AgentFork(a, l, caller, c)
    \/ StoreStep
    \/ Restart

SessionSpec == SessionInit /\ [][SessionNext]_<<vars, sessionVars>>

-----------------------------------------------------------------------------
(* Properties.                                                             *)

Sessions == {a \in Agent : session[a] # None}

(* A lease lives for the ttl it was asked for itself, or for ever if for   *)
(* none, whatever the addition of the ttl to the time does (lease.rs:131). *)
LeaseLivesItsTtl ==
    \A l \in DOMAIN held : LET lease == held[l] IN
        IF lease.asked = None THEN lease.expires = None
        ELSE lease.expires # None /\ lease.expires - lease.issued = lease.asked

(* Each state of a session was forked under a lease on the state before    *)
(* it: a lease on the session's parent, or any other one lease, does not   *)
(* allow a second fork.                                                    *)
EveryForkHadItsLease ==
    \A a \in Sessions : LET s == session[a] IN
        \A k \in DOMAIN s.forks : \E l \in DOMAIN held :
            /\ held[l].state = IF k = 1 THEN s.parent ELSE s.forks[k - 1]
            /\ "Fork" \in held[l].rights

(* A session's own states, in their order. *)
Own(s) == <<s.parent>> \o s.forks

(* Whatever is released, revoked, collected or forked by others, replay    *)
(* finds all of a session: it lists no state twice, every ancestor of a    *)
(* fork, and the parent and the forks in their order.                      *)
ReplayFindsTheSession ==
    \A a \in Sessions : LET s == session[a]  all == Replay(s) IN
        /\ Replayable(s)
        /\ IsInjective(all)
        /\ \A k \in DOMAIN s.forks : Lineage(s.forks[k]) \subseteq Range(all)
        /\ \E place \in [DOMAIN Own(s) -> DOMAIN all] :
               /\ \A j, k \in DOMAIN Own(s) : j < k => place[j] < place[k]
               /\ \A k \in DOMAIN Own(s) : all[place[k]] = Own(s)[k]

(* A pass takes no state that an unexpired registered lease protects, on   *)
(* the state or on an ancestor.                                            *)
CollectedAreUnleased ==
    \A l \in DOMAIN leases : ~Expired(held[l]) =>
        \A i \in report.collected : leases[l] \notin Lineage(i)
=============================================================================
