------------------------ MODULE StreamDeliveryProofs ------------------------
(***************************************************************************)
(* Theorems about StreamDelivery for every set of sequences and workers    *)
(* and any number of faults.  AppliedOnce is not inductive: a sequence     *)
(* must not be applied while it is not acknowledged, which SinkAgrees      *)
(* says.                                                                   *)
(***************************************************************************)
EXTENDS StreamDelivery, TLAPS

(* The acknowledged sequences are those the sink has applied. *)
SinkAgrees ==
    \A q \in Sequence : applied[q] = IF q \in delivered THEN 1 ELSE 0

IInv == TypeOK /\ SinkAgrees

LEMMA InitIInv == Init => IInv
  BY DeliveryAssumption DEF Init, IInv, TypeOK, SinkAgrees

(* deliver appends a sequence that is not in the queue.                    *)
LEMMA DeliverIInv ==
    ASSUME IInv, NEW q \in Sequence, Deliver(q)
    PROVE  IInv'
<1> USE DEF IInv
<1>1. pending \in Seq(Sequence) /\ pending' = Append(pending, q)
  BY DEF TypeOK, Deliver
<1>2. \A k \in 1 .. Len(pending) : pending[k] # q
  BY <1>1 DEF Deliver, ToSet
<1>3. \A k, m \in DOMAIN pending' : pending'[k] = pending'[m] => k = m
  BY <1>1, <1>2 DEF TypeOK
<1>4. TypeOK'
  BY <1>1, <1>3 DEF TypeOK, Deliver, callerVars
<1> QED
  BY <1>4 DEF SinkAgrees, Deliver, callerVars

(* receive takes the head of a queue without duplicates.                   *)
LEMMA ReceiveIInv ==
    ASSUME IInv, NEW w \in Worker, Receive(w)
    PROVE  IInv'
<1> USE DEF IInv
<1>1. pending \in Seq(Sequence) /\ pending # <<>> /\ pending' = Tail(pending)
  BY DEF TypeOK, Receive
<1>2. Head(pending) \in Sequence /\ pending' \in Seq(Sequence)
  BY <1>1
<1>3. \A k, m \in DOMAIN pending' : pending'[k] = pending'[m] => k = m
  <2> SUFFICES ASSUME NEW k \in DOMAIN pending', NEW m \in DOMAIN pending',
                      pending'[k] = pending'[m]
               PROVE  k = m
    OBVIOUS
  <2>1. k + 1 \in DOMAIN pending /\ m + 1 \in DOMAIN pending
    BY <1>1
  <2>2. pending'[k] = pending[k + 1] /\ pending'[m] = pending[m + 1]
    BY <1>1
  <2>3. k + 1 = m + 1
    BY <2>1, <2>2 DEF TypeOK
  <2> QED
    BY <1>1, <2>3
<1>4. holding' \in [Worker -> Sequence \cup {Idle}]
  BY <1>2 DEF TypeOK, Receive
<1>5. TypeOK'
  BY <1>2, <1>3, <1>4 DEF TypeOK, Receive
<1> QED
  BY <1>5 DEF SinkAgrees, Receive

(* The sink applies what acknowledge takes for the first time.             *)
LEMMA AcknowledgeIInv ==
    ASSUME IInv, NEW w \in Worker, Acknowledge(w)
    PROVE  IInv'
<1> USE DEF IInv
<1>1. holding[w] \in Sequence
  BY DEF TypeOK, Acknowledge
<1>2. SinkAgrees'
  BY <1>1 DEF SinkAgrees, TypeOK, Acknowledge
<1>3. applied' \in [Sequence -> Nat]
  BY <1>1 DEF TypeOK, Acknowledge
<1>4. TypeOK'
  BY <1>1, <1>3 DEF TypeOK, Acknowledge
<1> QED
  BY <1>2, <1>4

(* A worker that drops a delivery, and a restart, leave the sink alone.    *)
LEMMA FaultIInv ==
    ASSUME IInv, Restart \/ \E w \in Worker : Drop(w)
    PROVE  IInv'
<1> USE DeliveryAssumption DEF IInv
<1>1. CASE Restart
  <2>1. pending' = <<>> /\ pending' \in Seq(Sequence)
    BY <1>1 DEF Restart
  <2>2. TypeOK'
    BY <1>1, <2>1 DEF TypeOK, Restart
  <2>3. SinkAgrees'
    BY <1>1 DEF SinkAgrees, Restart
  <2> QED
    BY <2>2, <2>3
<1>2. CASE \E w \in Worker : Drop(w)
  <2>1. PICK w \in Worker : Drop(w)
    BY <1>2
  <2>2. TypeOK'
    BY <2>1 DEF TypeOK, Drop
  <2> QED
    BY <2>1, <2>2 DEF SinkAgrees, Drop
<1> QED
  BY <1>1, <1>2

LEMMA NextIInv == IInv /\ [Next]_vars => IInv'
<1> SUFFICES ASSUME IInv, [Next]_vars PROVE IInv'
  OBVIOUS
<1>1. CASE UNCHANGED vars
  BY <1>1 DEF IInv, TypeOK, SinkAgrees, vars
<1>2. CASE Next
  BY <1>2, DeliverIInv, ReceiveIInv, AcknowledgeIInv, FaultIInv DEF Next
<1> QED
  BY <1>1, <1>2

(* In every behaviour, fair or not, the invariant holds.                   *)
THEOREM Invariance == Spec => []IInv
<1>1. Init => IInv
  BY InitIInv
<1>2. IInv /\ [Next]_vars => IInv'
  BY NextIInv
<1> QED
  BY <1>1, <1>2, PTL DEF Spec

(* Types, and a queue without duplicates, whatever order the upstream      *)
(* delivers in.                                                            *)
THEOREM TypeCorrect == Spec => []TypeOK
<1>1. IInv => TypeOK
  BY DEF IInv
<1> QED
  BY <1>1, Invariance, PTL

(* The sink applies each sequence at most once, across redeliveries,       *)
(* dropped deliveries and restarts.                                        *)
THEOREM AtMostOnce == Spec => []AppliedOnce
<1>1. IInv => AppliedOnce
  BY DEF IInv, TypeOK, SinkAgrees, AppliedOnce
<1> QED
  BY <1>1, Invariance, PTL
=============================================================================
