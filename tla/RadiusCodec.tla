---------------------------- MODULE RadiusCodec -----------------------------
(***************************************************************************)
(* The three codecs for a block of radii (radius.rs): exact, linear        *)
(* between the block's extremes, and linear between the extremes of the    *)
(* radii's logarithms.  A radius is a whole number of some unit, and for   *)
(* the logarithmic codec a number of logarithmic units: the rounding of    *)
(* f32 and of ln and exp is left out, the rounding of the codec is not.    *)
(*                                                                         *)
(* A definition whose name starts with Wrong is a mistake the definition   *)
(* after it could have had.                                                *)
(***************************************************************************)
EXTENDS Integers, Sequences, SequencesExt, FiniteSetsExt, Functions

CONSTANTS
    Radii,      \* blocks of radii callers compress: sequences, Zero and
                \* NotARadius (negative or not finite) among their members
    Zero,       \* the radius 0 of the logarithmic codec
    NotARadius,
    LogOfTiny,  \* the logarithm of f32::MIN_POSITIVE
    Levels,     \* the largest value of a quantized radius, per codec
    Epsilon     \* f32::EPSILON in the codec's own units

Profiles == {"F32", "BlockLinearU16", "BlockLogU8"}

(* Radii are whole numbers but for the two marks, levels go up to one at   *)
(* least, and f32::EPSILON is positive.                                    *)
ASSUME RadiusAssumption ==
    /\ Radii \subseteq Seq(Int \cup {Zero, NotARadius})
    /\ Zero \notin Int /\ NotARadius \notin Int /\ Zero # NotARadius
    /\ LogOfTiny \in Int
    /\ Levels \in [Profiles -> Nat \ {0}]
    /\ Epsilon \in [Profiles -> Nat \ {0}]

VARIABLE block \* the CompressedRadiiV1 and what it was made of, <<>> for none

-----------------------------------------------------------------------------
ValidRadii(r) == NotARadius \notin Range(r)

(* What is laid between the extremes: a zero radius counts as the smallest *)
(* positive one, however far below the others that is.                     *)
Scale(r, profile) ==
    [i \in DOMAIN r |->
        IF r[i] # Zero THEN r[i] ELSE IF profile = "BlockLogU8" THEN LogOfTiny ELSE 0]

Extremes(v) == IF v = <<>> THEN <<0, 0>> ELSE <<Min(Range(v)), Max(Range(v))>>

(* What the levels divide: not the block's range where that is narrower    *)
(* than f32::EPSILON, as it is in a block of one value.                    *)
Span(lim, profile) ==
    IF lim[2] - lim[1] > Epsilon[profile] THEN lim[2] - lim[1] ELSE Epsilon[profile]

(* Mistake: the fraction is cut off. *)
WrongQuantized(x, lo, span, levels) == ((x - lo) * levels) \div span

(* The nearest level. *)
Quantized(x, lo, span, levels) == (2 * (x - lo) * levels + span) \div (2 * span)

CompressedBlock(r, profile) ==
    LET v == Scale(r, profile)
        lim == Extremes(v)
    IN  [profile |-> profile, count |-> Len(r),
         min |-> IF profile = "F32" THEN 0 ELSE lim[1],
         max |-> IF profile = "F32" THEN 0 ELSE lim[2],
         payload |-> IF profile = "F32" THEN v
                     ELSE [i \in DOMAIN v |->
                              Quantized(v[i], lim[1], Span(lim, profile),
                                        Levels[profile])]]

(* A value of the payload stands for its 4, 2 or 1 bytes. *)
ReadableBlock(b) ==
    /\ Len(b.payload) = b.count
    /\ IF b.profile = "F32" THEN ValidRadii(b.payload) ELSE b.min =< b.max

(* Levels[profile] times the radii, in the codec's own units.  Here the    *)
(* levels divide the block's range, however narrow it is.                  *)
Decompressed(b) ==
    [i \in DOMAIN b.payload |->
        IF b.profile = "F32" THEN b.payload[i] * Levels["F32"]
        ELSE b.min * Levels[b.profile] + (b.max - b.min) * b.payload[i]]

-----------------------------------------------------------------------------
RadiusInit == block = <<>>

Compress(r, profile) ==
    /\ ValidRadii(r)
    /\ block' = <<[of |-> Scale(r, profile), code |-> CompressedBlock(r, profile),
                   whole |-> TRUE]>>

(* The code loses a value, its range is turned round or a radius spoiled. *)
SpoilBlock ==
    /\ block # <<>> /\ block[1].code.payload # <<>>
    /\ LET c == block[1].code IN
       \E d \in {[c EXCEPT !.payload = Front(@)]} \cup
               IF c.profile = "F32"
               THEN {[c EXCEPT !.payload[1] = NotARadius]}
               ELSE {[c EXCEPT !.min = c.max + 1]} :
           block' = <<[of |-> block[1].of, code |-> d, whole |-> FALSE]>>

RadiusNext == \/ \E r \in Radii, p \in Profiles : Compress(r, p)
              \/ SpoilBlock

RadiusSpec == RadiusInit /\ [][RadiusNext]_block

-----------------------------------------------------------------------------
(* Properties.                                                             *)

(* A block decompresses to one value per radius, in their order, none      *)
(* outside the block's range or more than half a level above its radius,   *)
(* the least exact.  None is more than half a level below either and the   *)
(* greatest is exact too, though a zero radius stretches the levels of the *)
(* logarithmic codec, unless the range is narrower than f32::EPSILON: such *)
(* a block is squeezed towards its least radius.  A block that lost a      *)
(* value or whose range or radius is spoiled does not decompress.          *)
RadiiSurvive ==
    block # <<>> =>
        LET b == block[1]
            L == Levels[b.code.profile]
            out == Decompressed(b.code)
            off(i) == out[i] - L * b.of[i]
            least == Min(Range(b.of))
            most == Max(Range(b.of))
            even == b.code.profile = "F32" \/ most - least >= Epsilon[b.code.profile]
        IN  IF ~b.whole THEN ~ReadableBlock(b.code)
            ELSE /\ ReadableBlock(b.code)
                 /\ DOMAIN out = DOMAIN b.of
                 /\ \A i \in DOMAIN out :
                        /\ L * least =< out[i] /\ out[i] =< L * most
                        /\ 2 * off(i) =< most - least
                        /\ b.of[i] = least => off(i) = 0
                        /\ even => /\ -2 * off(i) =< most - least
                                   /\ b.of[i] = most => off(i) = 0
                 /\ \A i, j \in DOMAIN out : b.of[i] < b.of[j] => out[i] =< out[j]
=============================================================================
