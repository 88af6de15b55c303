--------------------------- MODULE StreamDelivery ---------------------------
(***************************************************************************)
(* The delivery half of StreamProcessor (stream.rs): deliver queues a      *)
(* numbered delivery, receive hands out the oldest, acknowledge records    *)
(* that it was processed.  Every method takes &mut self, so each is one    *)
(* step; a call that returns false or None without a change is the absence *)
(* of a step.                                                              *)
(*                                                                         *)
(* The processor's callers are external.  An upstream delivers sequences   *)
(* in any order and delivers one again as long as it is not acknowledged.  *)
(* Workers hold one delivery each, for any time, and apply its effect in   *)
(* the sink together with an acknowledge that returned true, as the        *)
(* comment on acknowledge asks.  A worker may drop what it holds.  A       *)
(* restart loses the processor; the caller tells the new one about the     *)
(* sequences its sink has, with acknowledge.                               *)
(*                                                                         *)
(* A definition whose name starts with Wrong is a mistake the definition   *)
(* after it could have had; no specification uses it.                      *)
(***************************************************************************)
EXTENDS Naturals, SequencesExt

CONSTANTS
    Sequence,   \* the sequence numbers the upstream delivers
    Worker,     \* callers of receive
    Idle,       \* what a worker without a delivery holds
    MaxFaults   \* bound on dropped deliveries and restarts together

ASSUME DeliveryAssumption ==
    /\ Idle \notin Sequence
    /\ MaxFaults \in Nat

VARIABLES
    delivered,  \* StreamProcessor.delivered: acknowledged sequences
    pending,    \* StreamProcessor.pending: the queue
    holding,    \* what each worker has received and not acknowledged
    applied,    \* how often the sink has applied each sequence
    faults      \* dropped deliveries and restarts so far

vars == <<delivered, pending, holding, applied, faults>>
callerVars == <<holding, applied, faults>>
-----------------------------------------------------------------------------
(* StreamProcessor::new, over a sink that has applied nothing. *)
Init ==
    /\ delivered = {}
    /\ pending = <<>>
    /\ holding = [w \in Worker |-> Idle]
    /\ applied = [q \in Sequence |-> 0]
    /\ faults = 0

(* deliver returns true.  A sequence that a worker holds is neither        *)
(* acknowledged nor queued, so it is accepted.                             *)
Deliver(q) ==
    /\ q \notin delivered
    /\ q \notin ToSet(pending)
    /\ pending' = Append(pending, q)
    /\ UNCHANGED <<delivered, callerVars>>

(* Mistake: a delivery counts as acknowledged when it is handed out. *)
WrongReceive(w) ==
    /\ holding[w] = Idle
    /\ pending # <<>>
    /\ pending' = Tail(pending)
    /\ delivered' = delivered \cup {Head(pending)}
    /\ holding' = [holding EXCEPT ![w] = Head(pending)]
    /\ UNCHANGED <<applied, faults>>

Receive(w) ==
    /\ holding[w] = Idle
    /\ pending # <<>>
    /\ pending' = Tail(pending)
    /\ holding' = [holding EXCEPT ![w] = Head(pending)]
    /\ UNCHANGED <<delivered, applied, faults>>

(* Mistake: acknowledge returns true for an acknowledged sequence too. *)
WrongAcknowledge(w) ==
    /\ holding[w] # Idle
    /\ delivered' = delivered \cup {holding[w]}
    /\ applied' = [applied EXCEPT ![holding[w]] = @ + 1]
    /\ holding' = [holding EXCEPT ![w] = Idle]
    /\ UNCHANGED <<pending, faults>>

(* HashSet::insert: true, and so an effect in the sink, the first time. *)
Acknowledge(w) ==
    /\ holding[w] # Idle
    /\ delivered' = delivered \cup {holding[w]}
    /\ applied' = [applied EXCEPT ![holding[w]] =
                       IF holding[w] \in delivered THEN @ ELSE @ + 1]
    /\ holding' = [holding EXCEPT ![w] = Idle]
    /\ UNCHANGED <<pending, faults>>

(* A worker fails with a delivery in hand; receive keeps no copy. *)
Drop(w) ==
    /\ holding[w] # Idle
    /\ faults < MaxFaults
    /\ faults' = faults + 1
    /\ holding' = [holding EXCEPT ![w] = Idle]
    /\ UNCHANGED <<delivered, pending, applied>>

(* The process ends.  The new processor is told of the applied sequences   *)
(* before anyone delivers to it.                                           *)
Restart ==
    /\ faults < MaxFaults
    /\ faults' = faults + 1
    /\ delivered' = {q \in Sequence : applied[q] > 0}
    /\ pending' = <<>>
    /\ holding' = [w \in Worker |-> Idle]
    /\ UNCHANGED applied

Next ==
    \/ \E q \in Sequence : Deliver(q)
    \/ \E w \in Worker : Receive(w) \/ Acknowledge(w) \/ Drop(w)
    \/ Restart

(* The upstream delivers again what is not acknowledged, and a worker that *)
(* does not fail receives and acknowledges: the callers' promises.  Nothing *)
(* in the processor delays a call.                                         *)
Fairness ==
    /\ \A q \in Sequence : WF_vars(Deliver(q))
    /\ \A w \in Worker : WF_vars(Receive(w)) /\ WF_vars(Acknowledge(w))

Spec == Init /\ [][Next]_vars

FairSpec == Spec /\ Fairness
-----------------------------------------------------------------------------
(* Properties.                                                             *)

(* Every variable has its type, and no sequence is queued twice, so the    *)
(* queue is never longer than the set of sequences.                        *)
TypeOK ==
    /\ delivered \subseteq Sequence
    /\ pending \in Seq(Sequence)
    /\ \A k, m \in DOMAIN pending : pending[k] = pending[m] => k = m
    /\ holding \in [Worker -> Sequence \cup {Idle}]
    /\ applied \in [Sequence -> Nat]
    /\ faults \in 0 .. MaxFaults

(* stream.rs:27, "a sequence is acknowledged at most once": a sink that    *)
(* applies an effect only when acknowledge returns true applies each       *)
(* sequence at most once, though workers may hold copies of it, drop them  *)
(* and outlive its acknowledgement, and the process may restart.           *)
AppliedOnce == \A q \in Sequence : applied[q] <= 1

(* Each sequence is applied in the end.  This needs deliver to accept      *)
(* again a sequence that was handed out and not acknowledged.              *)
EventuallyApplied == \A q \in Sequence : <>[](applied[q] = 1)
=============================================================================
