---------------------------- MODULE TurnAdvantage ----------------------------
(***************************************************************************)
(* The advantage GRSD trains with: the group-relative advantage of GRPO,   *)
(* refined by how much more (or less) likely a prior-informed teacher      *)
(* finds what the policy did.                                              *)
(*                                                                         *)
(* compute_grsd_turn_advantage gives every row (one turn) one coefficient, *)
(* compute_grsd_token_advantage every token its own; both are the same     *)
(* computation on different cells: RowOf is one to one at the turn level.  *)
(* A row has a group (uid) and a score, a cell the teacher-student gap of  *)
(* its turn or token; a masked cell is padding.  The first token of a row  *)
(* is real: a response is never empty.                                     *)
(*                                                                         *)
(* Abstractions.  Numbers are integers, a real x standing as One * x,      *)
(* rounded towards zero; the advantage is multiplied by the size of its    *)
(* group instead of divided by it, and the positive factor 1/(std + eps)   *)
(* is left out, which keeps signs and order.  Gaps are whole, and expm1 on *)
(* the clamped range is a constant with the facts used of it.              *)
(***************************************************************************)
EXTENDS FiniteSetsExt

CONSTANTS
    Rows,        \* the rows of a batch, one for each turn
    Cells,       \* the rows again (turn level) or their tokens (token level)
    RowOf,       \* the row of each cell
    FirstCells,  \* a cell of each row that is never padding
    Uids,        \* groups
    Scores,      \* row scores: episode reward less invalid-action penalty
    Gaps,        \* log pi_teacher - log pi_student
    ExpClip,     \* _EXP_INPUT_CLIP
    Expm1,       \* One * expm1(q) for q in -ExpClip..ExpClip
    One,         \* the integer that stands for 1.0
    Lambdas,     \* values of grsd_lambda to explore
    Eta,         \* eta
    GHatMax,     \* g_hat_max
    Norms        \* token_norm: "group" (always at turn level), "none"

ASSUME AdvantageAssumption ==
    /\ IsFiniteSet(Rows) /\ IsFiniteSet(Cells)
    /\ RowOf \in [Cells -> Rows]
    /\ FirstCells \subseteq Cells
    /\ \A r \in Rows : \E c \in FirstCells : RowOf[c] = r
    /\ Scores \subseteq Int
    /\ Gaps \subseteq Int
    /\ ExpClip \in Nat
    /\ One \in Nat /\ One >= 10
    /\ Lambdas \subseteq Nat
    /\ Eta \in Nat
    /\ GHatMax \in Nat
    /\ Norms \subseteq {"group", "none"}
    /\ Expm1 \in [(-ExpClip)..ExpClip -> Int]
    /\ Expm1[0] = 0
    /\ \A p, q \in (-ExpClip)..ExpClip : p < q => Expm1[p] < Expm1[q]

(* The integers are fine enough for the batch: the mean over a group does  *)
(* not lose the signal of one of its cells.                                *)
ASSUME ResolutionAssumption ==
    /\ One % 10 = 0
    /\ \A q \in (-ExpClip)..ExpClip \ {0} :
          \/ Expm1[q] >= 10 * Cardinality(Cells)
          \/ -Expm1[q] >= 10 * Cardinality(Cells)

(* The floor of 0.1 that keeps an attenuated advantage from flipping. *)
Floor == One \div 10

Abs(x)  == IF x < 0 THEN -x ELSE x
Sign(x) == IF x > 0 THEN 1 ELSE IF x < 0 THEN -1 ELSE 0
Clamp(x, low, high) == IF x < low THEN low ELSE IF x > high THEN high ELSE x

(* x * y / One, rounded towards zero *)
Times(x, y) == Sign(x) * Sign(y) * ((Abs(x) * Abs(y)) \div One)

VARIABLES
    uid, score,                \* per row: its group and score
    gap, mask,                 \* per cell: its gap and response_mask
    valid,                     \* m_x of each group
    lambda, norm,
    adv                        \* the result, per cell; NotYet before

vars == <<uid, score, gap, mask, valid, lambda, norm, adv>>
input == <<uid, score, gap, mask, valid, lambda, norm>>

NotYet == [c \in {} |-> 0]

TypeOK ==
    /\ uid \in [Rows -> Uids]
    /\ score \in [Rows -> Scores]
    /\ gap \in [Cells -> Gaps]
    /\ mask \in [Cells -> {0, 1}]
    /\ valid \in [Uids -> {0, 1}]
    /\ lambda \in Lambdas
    /\ norm \in Norms
    /\ adv = NotYet \/ adv \in [Cells -> Int]

Init ==
    /\ uid \in [Rows -> Uids]
    /\ score \in [Rows -> Scores]
    /\ gap \in [Cells -> Gaps]
    /\ mask \in [Cells -> {0, 1}]
    /\ \A c \in FirstCells : mask[c] = 1
    /\ valid \in [Uids -> {0, 1}]
    /\ lambda \in Lambdas
    /\ norm \in Norms
    /\ adv = NotYet

-----------------------------------------------------------------------------
(* compute_grpo_outcome_advantage *)

GroupOf(r) == {s \in Rows : uid[s] = uid[r]}

(* A row's group size times (score - mean); a group of one has mean 0. *)
GrpoOfRow(r) ==
    IF Cardinality(GroupOf(r)) = 1
    THEN score[r]
    ELSE Cardinality(GroupOf(r)) * score[r]
            - MapThenSumSet(LAMBDA s : score[s], GroupOf(r))

(* A_row: every token of a row has the row's advantage. *)
Grpo(c) == GrpoOfRow(RowOf[c])

UidOf(c) == uid[RowOf[c]]

(* compute_grsd_turn_advantage, compute_grsd_token_advantage *)

(* Mutant: the teacher's gap is not aligned with the outcome. *)
SignalUnaligned(c) == Expm1[Clamp(gap[c], -ExpClip, ExpClip)]

(* q_exp: the gap aligned with the outcome's sign, exponentiated. *)
Signal(c) == Expm1[Clamp(Sign(Grpo(c)) * gap[c], -ExpClip, ExpClip)]

(* Mutant: one scale for the whole batch. *)
PeersAll(c) == {d \in Cells : mask[d] = 1 /\ valid[UidOf(d)] = 1}

(* The cells a cell's scale is taken over: valid ones of its own group. *)
Peers(c) ==
    {d \in Cells : UidOf(d) = UidOf(c) /\ mask[d] = 1 /\ valid[UidOf(d)] = 1}

(* g_mean_abs *)
MeanAbs(c) ==
    IF Peers(c) = {} THEN 0
    ELSE MapThenSumSet(LAMBDA d : Abs(Signal(d)), Peers(c)) \div Cardinality(Peers(c))

(* q_norm; the epsilon of the code only matters when the mean is zero. *)
QNorm(c) ==
    IF norm = "none" THEN Signal(c)
    ELSE IF MeanAbs(c) = 0 THEN One * Signal(c)
    ELSE Sign(Signal(c)) * ((One * Abs(Signal(c))) \div MeanAbs(c))

(* g_hat: the dead zone, then the clip. *)
GHat(c) ==
    Clamp(IF Abs(QNorm(c)) > Eta THEN QNorm(c) ELSE 0, -GHatMax, GHatMax)

(* Mutant: no floor. *)
ModulationUnfloored(c) == One + Times(lambda, GHat(c)) * mask[c] * valid[UidOf(c)]

Modulation(c) ==
    LET m == One + Times(lambda, GHat(c)) * mask[c] * valid[UidOf(c)]
    IN  IF m >= Floor THEN m ELSE Floor

Compute ==
    /\ adv = NotYet
    /\ adv' = [c \in Cells |-> Grpo(c) * Modulation(c) * mask[c]]
    /\ UNCHANGED input

Next == Compute
Spec == Init /\ [][Next]_vars

-----------------------------------------------------------------------------
(* Properties *)

Computed == adv # NotYet
Real(c)  == mask[c] = 1

(* In a group with different scores a best row is pushed up and a worst    *)
(* one pushed down, in every token and whatever the teacher thinks of it.  *)
ContrastDecides(c) ==
    LET group == {score[r] : r \in GroupOf(RowOf[c])}
        own   == score[RowOf[c]]
    IN  Cardinality(group) > 1 =>
            /\ (\A x \in group : x <= own) => adv[c] > 0
            /\ (\A x \in group : x >= own) => adv[c] < 0

(* Every advantage keeps its sign, and its size within the floor and what  *)
(* lambda * g_hat_max allows; without a prior it stays as it was.          *)
TeacherIsBounded(c) ==
    LET most == Times(lambda, GHatMax)
    IN  /\ Sign(adv[c]) = Sign(Grpo(c))
        /\ Abs(adv[c]) >= Floor * Abs(Grpo(c))
        /\ Abs(adv[c]) >= (One - most) * Abs(Grpo(c))
        /\ Abs(adv[c]) <= (One + most) * Abs(Grpo(c))
        /\ valid[UidOf(c)] = 0 => adv[c] = One * Grpo(c)

(* README: the teacher's view is "a bounded, turn-level modulation" of the *)
(* advantage, "without changing its verifier-determined sign".             *)
VerifierDecidesSign ==
    Computed => \A c \in Cells : Real(c) => ContrastDecides(c) /\ TeacherIsBounded(c)

(* "Turns from different prompts or task types never affect each other's   *)
(* scale": whatever the other groups of the batch are like, the size of    *)
(* the normalised signals of a valid group averages to 1 (with a tenth for *)
(* the rounding), padding not counted.                                     *)
ScaleIsGroupLocal ==
    Computed /\ norm = "group" =>
        \A u \in Uids :
            LET own == {c \in Cells : Real(c) /\ UidOf(c) = u}
            IN  valid[u] = 1 /\ (\E c \in own : Signal(c) # 0) =>
                    Abs(MapThenSumSet(LAMBDA c : Abs(QNorm(c)), own)
                            - One * Cardinality(own))
                        <= Floor * Cardinality(own)

(* Credit follows the teacher in the direction of the outcome: of two      *)
(* cells of a group with the same advantage, the one the informed teacher  *)
(* agrees with more gets at least as much credit, be it praise or blame.   *)
CreditFollowsTeacher ==
    Computed =>
        \A c, d \in Cells :
            /\ Real(c) /\ Real(d)
            /\ UidOf(c) = UidOf(d)
            /\ Grpo(c) = Grpo(d)
            /\ Sign(Grpo(c)) * gap[c] >= Sign(Grpo(c)) * gap[d]
            => Abs(adv[c]) >= Abs(adv[d])
=============================================================================
