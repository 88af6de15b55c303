---------------------------- MODULE TurboScoring ----------------------------
(***************************************************************************)
(* Encoding, decoding and scoring of vectors by turbo-quant (turbo.rs,     *)
(* polar.rs, qjl.rs, rotation.rs) and its candidate index (index.rs).      *)
(*                                                                         *)
(* Arithmetic is exact: a rotation is left without its factor 1/sqrt(n),   *)
(* so that rotating forth and back multiplies by norm, and angles have two *)
(* bits, which decode to the four directions of the axes.  Vectors are     *)
(* those whose rotated pairs have an integer radius.  The weight of the    *)
(* sketch in a score, sqrt(pi/2)/m, is left out.                           *)
(*                                                                         *)
(* A definition whose name starts with Wrong is a mistake the definition   *)
(* after it could have had.                                                *)
(***************************************************************************)
EXTENDS Integers, Sequences, SequencesExt, Sorting

CONSTANTS
    Scorers,    \* quantizers: dim, norm, signs (Hadamard) or matrix, and the
                \* rows of the projection matrix, none in polar-only mode
    Vectors(_), \* the vectors callers add to and ask of the index of a quantizer
    Ids,        \* the callers' ids
    MaxEntries, \* entries in an index
    Limits      \* top_k and oversample of a search

VARIABLES
    scorer,     \* the quantizer of the index, <<>> for none
    entries,    \* the index: the caller's id, the code, and the vector it is of
    found       \* the last search: query, number of candidates and candidates

scoringVars == <<scorer, entries, found>>

Dot(u, v) == SumFunction([i \in DOMAIN u |-> u[i] * v[i]])
Scaled(u, v) == [i \in DOMAIN u |-> u[i] * v[i]]

-----------------------------------------------------------------------------
(* Rotations.                                                              *)

(* One pass of the butterflies of fwht_normalized, which overwrite both    *)
(* values of a pair from copies.                                           *)
Butterflies(v, step) ==
    [i \in DOMAIN v |->
        IF ((i - 1) \div step) % 2 = 0 THEN v[i] + v[i + step]
        ELSE v[i - step] - v[i]]

Fwht(v) ==
    LET After[n \in 0 .. 10] ==
            IF n = 0 THEN v ELSE Butterflies(After[n - 1], 2 ^ (n - 1))
    IN After[CHOOSE n \in 0 .. 10 : 2 ^ n = Len(v)]

IsHadamard(s) == "signs" \in DOMAIN s

Apply(s, v) ==
    IF IsHadamard(s) THEN Fwht(Scaled(v, s.signs))
    ELSE [i \in DOMAIN v |-> Dot(s.matrix[i], v)]

WrongApplyInverse(s, v) ==
    IF IsHadamard(s) THEN Fwht(Scaled(v, s.signs))
    ELSE [i \in DOMAIN v |-> Dot([j \in DOMAIN v |-> s.matrix[j][i]], v)]

ApplyInverse(s, v) ==
    IF IsHadamard(s) THEN Scaled(Fwht(v), s.signs)
    ELSE [i \in DOMAIN v |-> Dot([j \in DOMAIN v |-> s.matrix[j][i]], v)]

-----------------------------------------------------------------------------
(* Polar codes and sketches.                                               *)

Radius(a, b) == CHOOSE r \in 0 .. 50 : r * r = a * a + b * b

(* encode_pair: the quarter of the circle, counted from -pi, that the      *)
(* angle is in.  The angle pi itself is past the last one and wraps.       *)
Sector(a, b) ==
    CASE b < 0 /\ a < 0 -> 0
      [] b < 0 /\ a >= 0 -> 1
      [] b >= 0 /\ a > 0 -> 2
      [] b > 0 /\ a <= 0 -> 3
      [] b = 0 /\ a < 0 -> 4 % 4
      [] OTHER -> 2

(* What a quantizer is: the state that new() of a rotation and of a sketch *)
(* leaves.                                                                 *)
IsScorer(s) ==
    /\ s.dim \in Nat /\ s.dim % 2 = 0
    /\ s.rows \in Seq([1 .. s.dim -> Int])
    /\ IF IsHadamard(s)
       THEN s.signs \in [1 .. s.dim -> {-1, 1}] /\ \E n \in 0 .. 10 : 2 ^ n = s.dim
       ELSE s.matrix \in [1 .. s.dim -> [1 .. s.dim -> Int]]

HasRadii(w) ==
    \A i \in 1 .. Len(w) \div 2 :
        \E r \in 0 .. 50 : r * r = w[2 * i - 1] * w[2 * i - 1] + w[2 * i] * w[2 * i]

ASSUME ScoringAssumption ==
    /\ \A s \in Scorers :
           IsScorer(s) /\ \A v \in Vectors(s) : v \in Seq(Int) /\ HasRadii(Apply(s, v))
    /\ Ids \subseteq Nat
    /\ Limits \subseteq [top_k : Nat, oversample : Nat]

PolarEncode(s, v) ==
    LET w == Apply(s, v) IN
    [i \in 1 .. s.dim \div 2 |->
        LET a == w[2 * i - 1]  b == w[2 * i]
        IN [r |-> Radius(a, b), angle |-> Sector(a, b)]]

(* Cosine and sine of dequantize_angle. *)
Direction == [k \in 0 .. 3 |-> << <<-1, 0>>, <<0, -1>>, <<1, 0>>, <<0, 1>> >>[k + 1]]

DecodeToRotated(s, polar) ==
    [j \in 1 .. s.dim |->
        LET p == polar[(j + 1) \div 2]
        IN p.r * Direction[p.angle][((j + 1) % 2) + 1]]

(* PolarQuantizer::decode, and decode_batch of each: norm times the vector.*)
Decode(s, polar) == ApplyInverse(s, DecodeToRotated(s, polar))

Projected(s, v) == [k \in DOMAIN s.rows |-> Dot(s.rows[k], v)]

Sketch(s, v) ==
    [k \in DOMAIN s.rows |-> IF Projected(s, v)[k] >= 0 THEN 1 ELSE -1]

(* TurboQuantizer::encode: the polar code, and the sketch of what the code *)
(* leaves of the vector. *)
Residual(s, v) ==
    [i \in 1 .. s.dim |-> s.norm * v[i] - Decode(s, PolarEncode(s, v))[i]]

Encode(s, v) == [polar |-> PolarEncode(s, v), sketch |-> Sketch(s, Residual(s, v))]

-----------------------------------------------------------------------------
(* Scores.                                                                 *)

Prepare(s, q) == [rotated |-> Apply(s, q), projected |-> Projected(s, q)]

PolarScore(s, polar, p) ==
    SumFunction([i \in DOMAIN polar |->
        polar[i].r * (p.rotated[2 * i - 1] * Direction[polar[i].angle][1]
                        + p.rotated[2 * i] * Direction[polar[i].angle][2])])

SketchScore(s, sketch, p) == Dot(sketch, p.projected)

Score(s, code, p) == PolarScore(s, code.polar, p) + SketchScore(s, code.sketch, p)

(* search_prepared: all entries by falling score, equal ones by id.        *)
WrongAhead(s, p, i, j) ==
    LET x == Score(s, entries[i].code, p)  y == Score(s, entries[j].code, p)
    IN x > y \/ (x = y /\ i < j)

Ahead(s, p, i, j) ==
    LET x == Score(s, entries[i].code, p)  y == Score(s, entries[j].code, p)
    IN \/ x > y
       \/ x = y /\ entries[i].id < entries[j].id
       \/ x = y /\ entries[i].id = entries[j].id /\ i < j

Ranked(s, q) ==
    LET p == Prepare(s, q)
        all == DOMAIN entries
    IN  Ordered(all, {r \in all \X all : Ahead(s, p, r[1], r[2])})

CandidateLimit(l) == l.top_k * (IF l.oversample = 0 THEN 1 ELSE l.oversample)

-----------------------------------------------------------------------------
NoSearch == [query |-> <<>>]

ScoringInit == scorer = <<>> /\ entries = <<>> /\ found = NoSearch

NewIndex(s) ==
    /\ scorer = <<>>
    /\ scorer' = s
    /\ UNCHANGED <<entries, found>>

Add(id, v) ==
    /\ scorer # <<>> /\ Len(v) = scorer.dim
    /\ entries' = Append(entries, [id |-> id, code |-> Encode(scorer, v), of |-> v])
    /\ found' = NoSearch
    /\ UNCHANGED scorer

Search(q, l) ==
    /\ scorer # <<>> /\ Len(q) = scorer.dim
    /\ l.top_k > 0
    /\ LET ranked == Ranked(scorer, q)
           n == IF CandidateLimit(l) < Len(ranked) THEN CandidateLimit(l) ELSE Len(ranked)
       IN found' = [query |-> q, limit |-> CandidateLimit(l),
                    candidates |->
                        [k \in 1 .. n |->
                            [id |-> entries[ranked[k]].id,
                             score |-> Score(scorer, entries[ranked[k]].code,
                                             Prepare(scorer, q))]]]
    /\ UNCHANGED <<scorer, entries>>

DropIndex ==
    /\ scorer # <<>>
    /\ scorer' = <<>> /\ entries' = <<>> /\ found' = NoSearch

ScoringNext ==
    \/ \E s \in Scorers : NewIndex(s)
    \/ scorer # <<>> /\ \E id \in Ids, v \in Vectors(scorer) :
           Len(entries) < MaxEntries /\ Add(id, v)
    \/ scorer # <<>> /\ \E q \in Vectors(scorer), l \in Limits :
           found = NoSearch /\ Search(q, l)
    \/ DropIndex

ScoringSpec == ScoringInit /\ [][ScoringNext]_scoringVars

-----------------------------------------------------------------------------
(* Properties.                                                             *)

(* A score taken in the rotated space without decoding is the inner        *)
(* product of the query with what the code decodes to.                     *)
ScoreIsOfTheDecoded ==
    \A i \in DOMAIN entries : \A q \in Vectors(scorer) : Len(q) = scorer.dim =>
        LET polar == entries[i].code.polar
        IN PolarScore(scorer, polar, Prepare(scorer, q)) = Dot(Decode(scorer, polar), q)

(* A search finds the same ids in the same order however the index was     *)
(* filled: an entry with a better score than a candidate, or with its      *)
(* score and a smaller id, is a candidate before it.                       *)
SearchIgnoresInsertionOrder ==
    found # NoSearch =>
        LET p == Prepare(scorer, found.query) IN
        \A k \in DOMAIN found.candidates :
            \A i \in DOMAIN entries :
                LET x == Score(scorer, entries[i].code, p)
                    c == found.candidates[k]
                    later == {m \in DOMAIN found.candidates : m >= k}
                IN (x > c.score \/ (x = c.score /\ entries[i].id < c.id)) =>
                       \E m \in DOMAIN found.candidates \ later :
                           found.candidates[m].id = entries[i].id
=============================================================================
