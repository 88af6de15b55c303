------------------------------ MODULE FibLloyd ------------------------------
(***************************************************************************)
(* The training of a FibQuant codebook (fib-quant, lloyd.rs): restarts     *)
(* from rotations of the initial codebook, Lloyd iterations with the       *)
(* repair of empty cells, and the choice of the best codebook.             *)
(*                                                                         *)
(* Samples and codewords lie on a line.  Samples are integers such that    *)
(* the mean of any cell is an integer too; the step that splits a cell,    *)
(* 1e-6 in the code, is Step.                                              *)
(*                                                                         *)
(* A definition whose name starts with Wrong is a mistake the definition   *)
(* after it could have had.                                                *)
(***************************************************************************)
EXTENDS Integers, Sequences, FiniteSetsExt, SequencesExt, Functions, Sorting

CONSTANTS
    Initials,   \* initial codebooks
    Samples,    \* sequences of training samples
    Policies,   \* EmptyCellPolicy
    Restarts, Iterations

(* What the header says of the samples; a codebook has a codeword. *)
ASSUME LloydAssumption ==
    /\ Initials \subseteq Seq(Int) \ {<<>>}
    /\ Samples \subseteq Seq(Int)
    /\ \A xs \in Samples : \A cell \in SUBSET DOMAIN xs :
           cell # {} => MapThenSumSet(LAMBDA i : xs[i], cell) % Cardinality(cell) = 0
    /\ Restarts \in Nat /\ Iterations \in Nat

VARIABLES
    samples, initial, policy,
    restart,    \* the restart under way, from 0
    iteration,  \* iterations of it done
    codebook,   \* its codewords
    best,       \* the best codebook so far, its distortion and its restart
    repairs,    \* LloydRepairEventV1 of all restarts
    ended,      \* the distortions restarts ended with
    phase       \* "idle", "training", "done" or "failed"

lloydVars ==
    <<samples, initial, policy, restart, iteration, codebook, best, repairs, ended, phase>>

Step == 1

-----------------------------------------------------------------------------
Squared(a, b) == (a - b) * (a - b)

(* nearest_index: the first of the nearest codewords. *)
NearestIndex(x, words) ==
    CHOOSE c \in DOMAIN words : \A d \in DOMAIN words :
        /\ Squared(x, words[c]) <= Squared(x, words[d])
        /\ d < c => Squared(x, words[c]) < Squared(x, words[d])

(* mse_for_codebook, times the number of samples. *)
Distortion(words, xs) ==
    MapThenSumSet(LAMBDA i : Squared(xs[i], words[NearestIndex(xs[i], words)]), DOMAIN xs)

(* assign_samples, and what update_centroids gathers about the cells: the  *)
(* distortion and the farthest sample are with respect to the codewords    *)
(* before they move.                                                       *)
Cell(c, words, xs) == {i \in DOMAIN xs : NearestIndex(xs[i], words) = c}

FarthestSample(cell, word, xs) ==
    LET first == CHOOSE i \in cell : \A j \in cell :
                     /\ Squared(xs[j], word) <= Squared(xs[i], word)
                     /\ j < i => Squared(xs[j], word) < Squared(xs[i], word)
    IN  IF cell = {} THEN 0 ELSE xs[first]

Cells(words, xs) ==
    [c \in DOMAIN words |->
        LET cell == Cell(c, words, xs) IN
        [count      |-> Cardinality(cell),
         distortion |-> MapThenSumSet(LAMBDA i : Squared(xs[i], words[c]), cell),
         farthest   |-> FarthestSample(cell, words[c], xs)]]

(* Mistake: the sum of a cell is divided by the number of all samples. *)
WrongCentroids(words, xs) ==
    [c \in DOMAIN words |->
        LET cell == Cell(c, words, xs) IN
        IF cell = {} THEN words[c]
        ELSE MapThenSumSet(LAMBDA i : xs[i], cell) \div Len(xs)]

Centroids(words, xs) ==
    [c \in DOMAIN words |->
        LET cell == Cell(c, words, xs) IN
        IF cell = {} THEN words[c]
        ELSE MapThenSumSet(LAMBDA i : xs[i], cell) \div Cardinality(cell)]

(* The occupied cell with the highest distortion, the last of equals. *)
Donors(cells) == {c \in DOMAIN cells : cells[c].count > 1}

Donor(cells) ==
    CHOOSE c \in Donors(cells) : \A d \in Donors(cells) :
        /\ cells[d].distortion <= cells[c].distortion
        /\ d > c => cells[d].distortion < cells[c].distortion

(* A cell that gave a sample away or got one. *)
Recounted(cell, count) == [count |-> count, distortion |-> 0, farthest |-> cell.farthest]

(* The repair of one empty cell. *)
Split(state, empty) ==
    LET donor == Donor(state.cells)
        residual == state.cells[donor].farthest - state.words[donor]
        toward == IF residual > 0 THEN Step ELSE -Step
    IN  IF ~state.ok \/ Donors(state.cells) = {} THEN [state EXCEPT !.ok = FALSE]
        ELSE IF residual = 0 THEN [state EXCEPT !.ok = FALSE]
        ELSE [ok |-> TRUE,
              words |-> [state.words EXCEPT
                            ![donor] = @ - toward, ![empty] = state.words[donor] + toward],
              cells |-> [state.cells EXCEPT
                            ![donor] = Recounted(@, @.count - 1), ![empty] = Recounted(@, 1)],
              events |-> Append(state.events, [empty |-> empty, donor |-> donor])]

(* update_centroids, with the assignment before it. *)
Updated(words, xs, how) ==
    LET cells == Cells(words, xs)
        empty == InOrder({c \in DOMAIN words : cells[c].count = 0})
        moved == [ok |-> TRUE, words |-> Centroids(words, xs), cells |-> cells, events |-> <<>>]
    IN  IF empty = <<>> THEN moved
        ELSE IF how = "FailClosed" THEN [moved EXCEPT !.ok = FALSE]
        ELSE FoldLeft(Split, moved, empty)

-----------------------------------------------------------------------------
LloydInit ==
    /\ samples = <<>> /\ initial = <<>> /\ policy = "none"
    /\ restart = 0 /\ iteration = 0 /\ codebook = <<>>
    /\ best = [words |-> <<>>, distortion |-> 0, restart |-> 0]
    /\ repairs = <<>> /\ ended = {} /\ phase = "idle"

BeginTraining(words, xs, how) ==
    /\ phase = "idle"
    /\ Len(xs) >= Len(words)
    /\ samples' = xs /\ initial' = words /\ policy' = how
    /\ codebook' = words
    /\ best' = [words |-> words, distortion |-> Distortion(words, xs), restart |-> 0]
    /\ phase' = "training"
    /\ UNCHANGED <<restart, iteration, repairs, ended>>

Iterate ==
    /\ phase = "training" /\ iteration < Iterations
    /\ LET u == Updated(codebook, samples, policy) IN
           /\ codebook' = u.words
           /\ repairs' = repairs \o u.events
           /\ phase' = IF u.ok THEN "training" ELSE "failed"
    /\ iteration' = iteration + 1
    /\ UNCHANGED <<samples, initial, policy, restart, best, ended>>

Better(old, words, d, r) ==
    IF d < old.distortion THEN [words |-> words, distortion |-> d, restart |-> r] ELSE old

(* The end of a restart, and the begin of the next with rotated_initial,   *)
(* which turns the line or not.                                            *)
EndRestart ==
    /\ phase = "training" /\ iteration = Iterations
    /\ LET d == Distortion(codebook, samples) IN
           /\ best' = Better(best, codebook, d, restart)
           /\ ended' = ended \cup {d}
    /\ IF restart + 1 < Restarts
       THEN \E sign \in {-1, 1} :
                /\ codebook' = [c \in DOMAIN initial |-> sign * initial[c]]
                /\ restart' = restart + 1 /\ iteration' = 0
                /\ UNCHANGED phase
       ELSE phase' = "done" /\ UNCHANGED <<codebook, restart, iteration>>
    /\ UNCHANGED <<samples, initial, policy, repairs>>

(* The codebook goes to its quantizer. *)
Hand ==
    /\ phase \in {"done", "failed"}
    /\ samples' = <<>> /\ initial' = <<>> /\ policy' = "none"
    /\ restart' = 0 /\ iteration' = 0 /\ codebook' = <<>>
    /\ best' = [words |-> <<>>, distortion |-> 0, restart |-> 0]
    /\ repairs' = <<>> /\ ended' = {} /\ phase' = "idle"

LloydNext ==
    \/ \E words \in Initials, xs \in Samples, how \in Policies : BeginTraining(words, xs, how)
    \/ Iterate \/ EndRestart \/ Hand

LloydSpec == LloydInit /\ [][LloydNext]_lloydVars

-----------------------------------------------------------------------------
(* Properties.                                                             *)

(* An iteration never makes the codebook worse, if not by the width of the *)
(* split of a cell, and what training returns is as good as it says, as    *)
(* good as the initial codebook and as the end of every restart.           *)
TrainingNeverWorse ==
    [][/\ Iterate /\ phase' = "training" =>
              Distortion(codebook', samples)
                  <= Distortion(codebook, samples) + Len(samples) * (Len(repairs') - Len(repairs))
       /\ phase' = "done" =>
              /\ best'.distortion = Distortion(best'.words, samples)
              /\ \A d \in ended' \cup {Distortion(initial, samples)} : best'.distortion <= d
      ]_lloydVars
=============================================================================
