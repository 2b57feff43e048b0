------------------------- MODULE TurnAdvantageProofs -------------------------
(***************************************************************************)
(* Proofs about TurnAdvantage: the three properties of the refined         *)
(* advantage, for every batch, grouping and setting.                       *)
(*                                                                         *)
(* GrpoIs and MeanIs give the two sums a form the provers can use (SumOver *)
(* of CommonLemmas).  From them follow, of the inputs alone: a best row is  *)
(* above its group's mean and a worst one below (VerifierDecidesGrpo); the *)
(* factor grows with the signal (FactorFollowsSignal), stage by stage; the *)
(* normalised signals of a group average to 1 (GroupScale).  The invariant *)
(* IInv adds that adv is the result of the inputs (ResultKept).            *)
(***************************************************************************)
EXTENDS TurnAdvantage, CommonLemmas, TLAPS

-----------------------------------------------------------------------------
(* Arithmetic *)

(* Multiplying by a natural keeps the order. *)
LEMMA TimesMonotone ==
    ASSUME NEW k \in Nat, NEW x \in Int, NEW y \in Int, x <= y
    PROVE  k * x <= k * y /\ k * x \in Int /\ k * y \in Int
<1>1. k * (y - x) >= 0
  <2>1. \A a, b \in Nat : a * b >= 0
    OBVIOUS
  <2>2. y - x \in Nat
    OBVIOUS
  <2> QED
    BY <2>1, <2>2
<1>2. k * (y - x) = k * y - k * x
  OBVIOUS
<1>3. k * x \in Int /\ k * y \in Int
  OBVIOUS
<1> QED
  BY <1>1, <1>2, <1>3

(* The quotient and its remainder. *)
LEMMA Quotient ==
    ASSUME NEW a \in Nat, NEW m \in Nat, m >= 1
    PROVE  a \div m \in Nat /\ m * (a \div m) <= a /\ a < m * ((a \div m) + 1)
OBVIOUS

(* Dividing keeps the order. *)
LEMMA QuotientMonotone ==
    ASSUME NEW a \in Nat, NEW b \in Nat, a <= b, NEW m \in Nat, m >= 1
    PROVE  a \div m <= b \div m
<1> DEFINE p == a \div m
           q == b \div m
<1>1. p \in Nat /\ q \in Nat /\ m * p <= a /\ b < m * (q + 1)
  BY Quotient
<1> HIDE DEF p, q
<1>2. SUFFICES ASSUME q + 1 <= p PROVE FALSE
  BY <1>1 DEF p, q
<1>3. m * (q + 1) <= m * p
  BY <1>1, <1>2, TimesMonotone
<1>4. m * p \in Int /\ m * (q + 1) \in Int
  BY <1>1
<1> QED
  BY <1>1, <1>3, <1>4

(* x scaled by k / m and rounded towards zero. *)
Scaled(k, m, x) == Sign(x) * ((k * Abs(x)) \div m)

(* It keeps the order. *)
LEMMA ScaledMonotone ==
    ASSUME NEW k \in Nat, NEW m \in Nat, m >= 1
    PROVE  /\ \A x \in Int : Scaled(k, m, x) \in Int
           /\ \A x, y \in Int : x <= y => Scaled(k, m, x) <= Scaled(k, m, y)
<1>1. ASSUME NEW x \in Int
      PROVE  /\ Abs(x) \in Nat /\ k * Abs(x) \in Nat
             /\ (k * Abs(x)) \div m \in Nat
             /\ x > 0 => Scaled(k, m, x) = (k * Abs(x)) \div m /\ Abs(x) = x
             /\ x = 0 => Scaled(k, m, x) = 0
             /\ x < 0 => Scaled(k, m, x) = -((k * Abs(x)) \div m) /\ Abs(x) = -x
  <2>1. Abs(x) \in Nat
    BY DEF Abs
  <2>2. k * Abs(x) \in Nat
    BY <2>1
  <2>3. (k * Abs(x)) \div m \in Nat
    BY <2>2, Quotient
  <2> DEFINE d == (k * Abs(x)) \div m
  <2> HIDE DEF d
  <2>4. d \in Nat
    BY <2>3 DEF d
  <2>5. /\ x > 0 => Sign(x) * d = d
        /\ x = 0 => Sign(x) * d = 0
        /\ x < 0 => Sign(x) * d = -d
    BY <2>4 DEF Sign
  <2>6. Scaled(k, m, x) = Sign(x) * d
    BY DEF Scaled, d
  <2> QED
    BY <2>1, <2>2, <2>4, <2>5, <2>6 DEF d, Abs
<1>2. ASSUME NEW x \in Int PROVE Scaled(k, m, x) \in Int
  <2>1. x > 0 \/ x = 0 \/ x < 0
    OBVIOUS
  <2> DEFINE d == (k * Abs(x)) \div m
  <2> HIDE DEF d
  <2>2. d \in Nat /\ Scaled(k, m, x) \in {d, 0, -d}
    BY <1>1, <2>1 DEF d
  <2> QED
    BY <2>2
<1>3. ASSUME NEW x \in Int, NEW y \in Int, x <= y
      PROVE  Scaled(k, m, x) <= Scaled(k, m, y)
  <2> DEFINE d == (k * Abs(x)) \div m
             e == (k * Abs(y)) \div m
  <2>0. Abs(x) \in Int /\ Abs(y) \in Int
    BY <1>1
  <2>1. Abs(x) <= Abs(y) => d <= e
    <3> SUFFICES ASSUME Abs(x) <= Abs(y) PROVE d <= e
      OBVIOUS
    <3>1. k * Abs(x) <= k * Abs(y)
      BY <2>0, TimesMonotone, Zenon
    <3>2. k * Abs(x) \in Nat /\ k * Abs(y) \in Nat
      BY <1>1
    <3> QED
      BY <3>1, <3>2, QuotientMonotone, Zenon
  <2>2. Abs(y) <= Abs(x) => e <= d
    <3> SUFFICES ASSUME Abs(y) <= Abs(x) PROVE e <= d
      OBVIOUS
    <3>1. k * Abs(y) <= k * Abs(x)
      BY <2>0, TimesMonotone, Zenon
    <3>2. k * Abs(x) \in Nat /\ k * Abs(y) \in Nat
      BY <1>1
    <3> QED
      BY <3>1, <3>2, QuotientMonotone, Zenon
  <2>3. /\ d \in Nat /\ e \in Nat
        /\ x > 0 => Scaled(k, m, x) = d /\ Abs(x) = x
        /\ x = 0 => Scaled(k, m, x) = 0
        /\ x < 0 => Scaled(k, m, x) = -d /\ Abs(x) = -x
        /\ y > 0 => Scaled(k, m, y) = e /\ Abs(y) = y
        /\ y = 0 => Scaled(k, m, y) = 0
        /\ y < 0 => Scaled(k, m, y) = -e /\ Abs(y) = -y
    BY <1>1
  <2> HIDE DEF d, e
  <2>4. CASE x > 0
    BY <1>3, <2>1, <2>3, <2>4
  <2>5. CASE x <= 0 /\ y >= 0
    BY <2>3, <2>5
  <2>6. CASE y < 0
    BY <1>3, <2>2, <2>3, <2>6
  <2> QED
    BY <1>3, <2>4, <2>5, <2>6
<1> QED
  BY <1>2, <1>3

(* Clamping keeps the order. *)
LEMMA ClampMonotone ==
    ASSUME NEW k \in Nat
    PROVE  /\ \A x \in Int : Clamp(x, -k, k) \in (-k)..k
           /\ \A x, y \in Int : x <= y => Clamp(x, -k, k) <= Clamp(y, -k, k)
BY DEF Clamp

-----------------------------------------------------------------------------
(* Types *)

(* The types of a batch's inputs. *)
InputOK ==
    /\ uid \in [Rows -> Uids]
    /\ score \in [Rows -> Scores]
    /\ gap \in [Cells -> Gaps]
    /\ mask \in [Cells -> {0, 1}]
    /\ valid \in [Uids -> {0, 1}]
    /\ lambda \in Lambdas
    /\ norm \in Norms

(* The constants. *)
LEMMA Constants ==
    /\ IsFiniteSet(Rows) /\ IsFiniteSet(Cells)
    /\ RowOf \in [Cells -> Rows]
    /\ Scores \subseteq Int /\ Gaps \subseteq Int
    /\ ExpClip \in Nat /\ Eta \in Nat /\ GHatMax \in Nat /\ Lambdas \subseteq Nat
    /\ One \in Nat /\ One >= 10 /\ Floor \in Nat /\ Floor >= 1
    /\ Expm1 \in [(-ExpClip)..ExpClip -> Int] /\ Expm1[0] = 0
    /\ \A p, q \in (-ExpClip)..ExpClip : p <= q => Expm1[p] <= Expm1[q]
<1>1. One \in Nat /\ One >= 10 /\ Floor \in Nat /\ Floor >= 1
  BY AdvantageAssumption DEF Floor
<1>2. /\ IsFiniteSet(Rows) /\ IsFiniteSet(Cells)
      /\ RowOf \in [Cells -> Rows]
      /\ Scores \subseteq Int /\ Gaps \subseteq Int
      /\ ExpClip \in Nat /\ Eta \in Nat /\ GHatMax \in Nat /\ Lambdas \subseteq Nat
      /\ Expm1 \in [(-ExpClip)..ExpClip -> Int] /\ Expm1[0] = 0
  BY AdvantageAssumption
<1>3. ASSUME NEW p \in (-ExpClip)..ExpClip, NEW q \in (-ExpClip)..ExpClip, p <= q
      PROVE  Expm1[p] <= Expm1[q]
  <2>1. CASE p = q
    BY <1>2, <2>1
  <2>2. CASE p < q
    <3>1. Expm1[p] < Expm1[q]
      BY <2>2, AdvantageAssumption
    <3>2. Expm1[p] \in Int /\ Expm1[q] \in Int
      BY <1>2
    <3> QED
      BY <3>1, <3>2
  <2> QED
    BY <1>2, <1>3, <2>1, <2>2
<1> QED
  BY <1>1, <1>2, <1>3

(* A row's group, and its group size times its distance from the mean. *)
GrpoForm ==
    \A c \in Cells :
        LET G == GroupOf(RowOf[c])
            s == score[RowOf[c]]
        IN  /\ IsFiniteSet(G) /\ RowOf[c] \in G /\ G \subseteq Rows
            /\ Grpo(c) \in Int
            /\ Cardinality(G) = 1 => Grpo(c) = s
            /\ Cardinality(G) # 1 => Grpo(c) = Cardinality(G) * s - SumOver(score, G)

(* It has that form. *)
LEMMA GrpoIs == InputOK => GrpoForm
<1> SUFFICES ASSUME InputOK, NEW c \in Cells
             PROVE  LET G == GroupOf(RowOf[c])
                        s == score[RowOf[c]]
                    IN  /\ IsFiniteSet(G) /\ RowOf[c] \in G /\ G \subseteq Rows
                        /\ Grpo(c) \in Int
                        /\ Cardinality(G) = 1 => Grpo(c) = s
                        /\ Cardinality(G) # 1 =>
                              Grpo(c) = Cardinality(G) * s - SumOver(score, G)
  BY Zenon DEF GrpoForm
<1> DEFINE r == RowOf[c]
           G == GroupOf(r)
<1>1. r \in Rows
  BY Constants
<1>2. r \in G /\ G \in SUBSET Rows
  BY <1>1 DEF GroupOf
<1>3. IsFiniteSet(G) /\ Cardinality(G) \in Nat
  BY <1>2, Constants, FS_Subset, FS_CardinalityType
<1>4. \A s \in Rows : score[s] \in Int
  BY Constants DEF InputOK
<1>5. SumOver(score, G) \in Int
  BY <1>2, <1>3, <1>4, SumDef
<1>6. MapThenSumSet(LAMBDA s : score[s], G) = SumOver(score, G)
  BY MapThenSumIsSumOver
<1>7. Grpo(c) = IF Cardinality(G) = 1 THEN score[r]
                ELSE Cardinality(G) * score[r] - MapThenSumSet(LAMBDA s : score[s], G)
  BY Zenon DEF Grpo, GrpoOfRow
<1>8. Grpo(c) = IF Cardinality(G) = 1 THEN score[r]
                ELSE Cardinality(G) * score[r] - SumOver(score, G)
  BY <1>6, <1>7, Zenon
<1> HIDE DEF r, G
<1>9. Grpo(c) \in Int
  BY <1>1, <1>3, <1>4, <1>5, <1>8
<1> QED
  BY <1>2, <1>3, <1>8, <1>9 DEF r, G

(* A signal is a number; so is the mean size of those of a group. *)
LEMMA SignalType ==
    ASSUME InputOK, NEW c \in Cells
    PROVE  Signal(c) \in Int
<1>1. Grpo(c) \in Int
  BY GrpoIs, Zenon DEF GrpoForm
<1>2. Sign(Grpo(c)) \in {-1, 0, 1} /\ gap[c] \in Int
  BY <1>1, Constants DEF Sign, InputOK
<1>3. Sign(Grpo(c)) * gap[c] \in Int
  BY <1>2
<1>4. Clamp(Sign(Grpo(c)) * gap[c], -ExpClip, ExpClip) \in (-ExpClip)..ExpClip
  BY <1>3, Constants, ClampMonotone
<1> QED
  BY <1>4, Constants DEF Signal

(* The sizes of the signals of some cells, summed. *)
LEMMA SignalSum ==
    ASSUME NEW S, IsFiniteSet(S), NEW f, \A c \in S : f[c] \in Int /\ f[c] = Abs(Signal(c))
    PROVE  MapThenSumSet(LAMBDA d : Abs(Signal(d)), S) = SumOver(f, S)
<1> DEFINE Step(it) == [s \in SUBSET S |->
              IF s = {} THEN 0
              ELSE Abs(Signal(CHOOSE x \in s : TRUE)) + it[s \ {CHOOSE x \in s : TRUE}]]
           it == CHOOSE sum : sum = Step(sum)
<1>1. MapThenSumSet(LAMBDA d : Abs(Signal(d)), S) = it[S]
  BY Zenon DEF MapThenSumSet, MapThenFoldSet
<1>2. ASSUME NEW sum PROVE sum = Step(sum) <=> IsSum(sum, f, S)
  <2>1. ASSUME NEW s \in SUBSET S, s # {}
        PROVE  f[CHOOSE x \in s : TRUE] = Abs(Signal(CHOOSE x \in s : TRUE))
    <3>1. (CHOOSE x \in s : TRUE) \in S
      BY <2>1
    <3> QED
      BY <3>1
  <2>2. Step(sum) = [T \in SUBSET S |-> SumStep(sum, f, T)]
    BY <2>1 DEF SumStep
  <2> QED
    BY <2>2 DEF IsSum
<1>3. PICK sum : IsSum(sum, f, S)
  BY SumExists
<1>4. it = Step(it)
  <2>1. sum = Step(sum)
    BY <1>2, <1>3
  <2> QED
    BY <2>1
<1>5. IsSum(it, f, S)
  BY <1>2, <1>4
<1> HIDE DEF it
<1> QED
  BY <1>1, <1>5, SumRecognised

(* The sizes of the signals of some cells. *)
SizeOf(T) == [d \in T |-> Abs(Signal(d))]

(* The peers of a cell and the mean size of their signals. *)
MeanForm ==
    \A c \in Cells :
        /\ IsFiniteSet(Peers(c)) /\ Peers(c) \subseteq Cells
        /\ \A d \in Peers(c) : SizeOf(Peers(c))[d] \in Nat
        /\ SumOver(SizeOf(Peers(c)), Peers(c)) \in Nat
        /\ MeanAbs(c) \in Nat
        /\ MeanAbs(c) = IF Peers(c) = {} THEN 0
                        ELSE SumOver(SizeOf(Peers(c)), Peers(c)) \div Cardinality(Peers(c))

(* It has that form. *)
LEMMA MeanIs == InputOK => MeanForm
<1> SUFFICES ASSUME InputOK, NEW c \in Cells
             PROVE  /\ IsFiniteSet(Peers(c)) /\ Peers(c) \subseteq Cells
                    /\ \A d \in Peers(c) : SizeOf(Peers(c))[d] \in Nat
                    /\ SumOver(SizeOf(Peers(c)), Peers(c)) \in Nat
                    /\ MeanAbs(c) \in Nat
                    /\ MeanAbs(c) = IF Peers(c) = {} THEN 0
                          ELSE SumOver(SizeOf(Peers(c)), Peers(c)) \div Cardinality(Peers(c))
  BY Zenon DEF MeanForm
<1> DEFINE T == Peers(c)
           f == SizeOf(T)
<1>1. T \in SUBSET Cells
  BY DEF Peers
<1>2. IsFiniteSet(T) /\ Cardinality(T) \in Nat /\ (T # {} => Cardinality(T) >= 1)
  <2>1. IsFiniteSet(T) /\ Cardinality(T) \in Nat
    BY <1>1, Constants, FS_Subset, FS_CardinalityType
  <2> QED
    BY <2>1, FS_EmptySet
<1>3. \A d \in T : f[d] = Abs(Signal(d)) /\ f[d] \in Nat
  BY <1>1, SignalType DEF SizeOf, Abs
<1> HIDE DEF T, f
<1>4. SumOver(f, T) \in Nat
  <2> DEFINE z == [d \in T |-> 0]
  <2>1. SumOver(f, T) \in Int
    BY <1>2, <1>3, SumDef
  <2>2. \A d \in T : z[d] = 0 /\ z[d] \in Int /\ f[d] \in Int /\ z[d] <= f[d]
    BY <1>3
  <2> HIDE DEF z
  <2>3. SumOver(z, T) = Cardinality(T) * 0
    BY <1>2, <2>2, SumConstant
  <2>4. SumOver(z, T) <= SumOver(f, T)
    BY <1>2, <2>2, SumMonotone
  <2> QED
    BY <1>2, <2>1, <2>3, <2>4
<1>5. MapThenSumSet(LAMBDA d : Abs(Signal(d)), T) = SumOver(f, T)
  <2>1. \A d \in T : f[d] \in Int /\ f[d] = Abs(Signal(d))
    BY <1>3
  <2> QED
    BY <1>2, <2>1, SignalSum, Zenon
<1>6. MeanAbs(c) = IF T = {} THEN 0
                   ELSE MapThenSumSet(LAMBDA d : Abs(Signal(d)), T) \div Cardinality(T)
  BY Zenon DEF MeanAbs, T
<1>7. MeanAbs(c) = IF T = {} THEN 0 ELSE SumOver(f, T) \div Cardinality(T)
  BY <1>5, <1>6, Zenon
<1>8. MeanAbs(c) \in Nat
  <2>1. T # {} => SumOver(f, T) \div Cardinality(T) \in Nat
    BY <1>2, <1>4, Quotient
  <2> QED
    BY <1>7, <2>1
<1> QED
  BY <1>1, <1>2, <1>3, <1>4, <1>7, <1>8 DEF T, f

-----------------------------------------------------------------------------
(* From the signal to the factor *)

(* q_norm of a signal x in a group of mean size m. *)
QNormOf(m, x) ==
    IF norm = "none" THEN x
    ELSE IF m = 0 THEN One * x
    ELSE Scaled(One, m, x)

(* g_hat of q. *)
GHatOf(q) == Clamp(IF Abs(q) > Eta THEN q ELSE 0, -GHatMax, GHatMax)

(* Normalising keeps the order. *)
LEMMA QNormMonotone ==
    ASSUME NEW m \in Nat
    PROVE  /\ \A x \in Int : QNormOf(m, x) \in Int
           /\ \A x, y \in Int : x <= y => QNormOf(m, x) <= QNormOf(m, y)
<1>1. CASE norm = "none"
  BY <1>1 DEF QNormOf
<1>2. CASE norm # "none" /\ m = 0
  <2>1. \A x \in Int : QNormOf(m, x) = One * x
    BY <1>2 DEF QNormOf
  <2>2. One \in Nat
    BY Constants
  <2>3. \A x, y \in Int : x <= y => One * x <= One * y /\ One * x \in Int /\ One * y \in Int
    BY <2>2, TimesMonotone
  <2> QED
    BY <2>1, <2>2, <2>3
<1>3. CASE norm # "none" /\ m # 0
  <2>1. \A x \in Int : QNormOf(m, x) = Scaled(One, m, x)
    BY <1>3 DEF QNormOf
  <2>2. One \in Nat /\ m >= 1
    BY <1>3, Constants
  <2>3. /\ \A x \in Int : Scaled(One, m, x) \in Int
        /\ \A x, y \in Int : x <= y => Scaled(One, m, x) <= Scaled(One, m, y)
    BY <2>2, ScaledMonotone
  <2> QED
    BY <2>1, <2>3
<1> QED
  BY <1>1, <1>2, <1>3

(* So do the dead zone and the clip. *)
LEMMA GHatMonotone ==
    /\ \A q \in Int : GHatOf(q) \in Int
    /\ \A p, q \in Int : p <= q => GHatOf(p) <= GHatOf(q)
<1>1. Eta \in Nat /\ GHatMax \in Nat
  BY Constants
<1> QED
  BY <1>1 DEF GHatOf, Clamp, Abs

(* The factor, from the g_hat of a cell. *)
LEMMA ModulationIs ==
    ASSUME InputOK, NEW c \in Cells
    PROVE  /\ MeanAbs(c) \in Nat /\ QNorm(c) \in Int /\ GHat(c) \in Int
           /\ QNorm(c) = QNormOf(MeanAbs(c), Signal(c))
           /\ GHat(c) = GHatOf(QNorm(c))
           /\ Times(lambda, GHat(c)) \in Int
           /\ mask[c] \in {0, 1} /\ valid[UidOf(c)] \in {0, 1}
           /\ Modulation(c) \in Int /\ Modulation(c) >= Floor
<1>1. MeanAbs(c) \in Nat
  BY MeanIs, Zenon DEF MeanForm
<1>2. Signal(c) \in Int
  BY SignalType
<1>3. QNorm(c) = QNormOf(MeanAbs(c), Signal(c))
  BY DEF QNorm, QNormOf, Scaled
<1>4. QNorm(c) \in Int
  BY <1>1, <1>2, <1>3, QNormMonotone
<1>5. GHat(c) = GHatOf(QNorm(c))
  BY DEF GHat, GHatOf
<1>6. GHat(c) \in Int
  BY <1>4, <1>5, GHatMonotone
<1>7. Times(lambda, GHat(c)) \in Int
  <2>1. lambda \in Nat /\ One \in Nat /\ One >= 1
    BY Constants DEF InputOK
  <2>2. Scaled(lambda, One, GHat(c)) \in Int
    BY <1>6, <2>1, ScaledMonotone
  <2>3. Times(lambda, GHat(c)) = Sign(lambda) * Scaled(lambda, One, GHat(c))
    <3>1. Abs(lambda) = lambda
      BY <2>1 DEF Abs
    <3> DEFINE d == (lambda * Abs(GHat(c))) \div One
    <3>2. d \in Nat
      <4>1. lambda * Abs(GHat(c)) \in Nat
        BY <1>6, <2>1 DEF Abs
      <4> QED
        BY <2>1, <4>1, Quotient
    <3>3. Times(lambda, GHat(c)) = Sign(lambda) * Sign(GHat(c)) * d
      BY <3>1 DEF Times
    <3>4. Scaled(lambda, One, GHat(c)) = Sign(GHat(c)) * d
      BY DEF Scaled
    <3>5. Sign(lambda) \in {0, 1} /\ Sign(GHat(c)) \in {-1, 0, 1}
      BY <1>6, <2>1 DEF Sign
    <3> HIDE DEF d
    <3> QED
      BY <3>2, <3>3, <3>4, <3>5
  <2>4. Sign(lambda) \in {0, 1}
    BY <2>1 DEF Sign
  <2> QED
    BY <2>2, <2>3, <2>4
<1>8. mask[c] \in {0, 1} /\ valid[UidOf(c)] \in {0, 1}
  BY Constants DEF InputOK, UidOf
<1>9. Modulation(c) \in Int /\ Modulation(c) >= Floor
  <2> DEFINE m == One + Times(lambda, GHat(c)) * mask[c] * valid[UidOf(c)]
  <2>1. m \in Int /\ Floor \in Int
    BY <1>7, <1>8, Constants
  <2>2. Modulation(c) = IF m >= Floor THEN m ELSE Floor
    BY DEF Modulation
  <2> HIDE DEF m
  <2> QED
    BY <2>1, <2>2
<1> QED
  BY <1>1, <1>3, <1>4, <1>5, <1>6, <1>7, <1>8, <1>9

(* What the refinement multiplies by keeps the order, lambda >= 0. *)
LEMMA RefinementMonotone ==
    ASSUME lambda \in Nat, NEW x \in Int, NEW y \in Int, x <= y
    PROVE  Times(lambda, x) <= Times(lambda, y)
<1>1. One \in Nat /\ One >= 1
  BY Constants
<1>2. CASE lambda = 0
  <2>1. \A z \in Int : Times(lambda, z) = 0
    <3> SUFFICES ASSUME NEW z \in Int PROVE Times(lambda, z) = 0
      OBVIOUS
    <3> DEFINE d == (Abs(lambda) * Abs(z)) \div One
    <3>1. d \in Nat
      <4>1. Abs(lambda) * Abs(z) \in Nat
        BY <1>2 DEF Abs
      <4> QED
        BY <1>1, <4>1, Quotient
    <3>2. Sign(lambda) = 0 /\ Sign(z) \in Int
      BY <1>2 DEF Sign
    <3>3. Times(lambda, z) = Sign(lambda) * Sign(z) * d
      BY DEF Times
    <3> HIDE DEF d
    <3> QED
      BY <3>1, <3>2, <3>3
  <2> QED
    BY <2>1
<1>3. CASE lambda > 0
  <2>1. \A z \in Int : Times(lambda, z) = Scaled(lambda, One, z)
    <3> SUFFICES ASSUME NEW z \in Int PROVE Times(lambda, z) = Scaled(lambda, One, z)
      OBVIOUS
    <3> DEFINE d == (lambda * Abs(z)) \div One
    <3>1. d \in Nat
      <4>1. lambda * Abs(z) \in Nat
        BY DEF Abs
      <4> QED
        BY <1>1, <4>1, Quotient
    <3>2. Sign(lambda) = 1 /\ Sign(z) \in Int /\ Abs(lambda) = lambda
      BY <1>3 DEF Sign, Abs
    <3>3. Times(lambda, z) = Sign(lambda) * Sign(z) * d
      BY <3>2 DEF Times
    <3>4. Scaled(lambda, One, z) = Sign(z) * d
      BY DEF Scaled
    <3> HIDE DEF d
    <3> QED
      BY <3>1, <3>2, <3>3, <3>4
  <2>2. Scaled(lambda, One, x) <= Scaled(lambda, One, y)
    BY <1>1, ScaledMonotone
  <2> QED
    BY <2>1, <2>2
<1> QED
  BY <1>2, <1>3

(* Two cells of a group are scaled alike, so the one with the greater      *)
(* signal has the greater factor.                                          *)
LEMMA FactorFollowsSignal ==
    ASSUME InputOK, NEW c \in Cells, NEW d \in Cells,
           mask[c] = 1, mask[d] = 1, UidOf(c) = UidOf(d), Signal(d) <= Signal(c)
    PROVE  Modulation(d) <= Modulation(c)
<1>1. Peers(c) = Peers(d)
  BY DEF Peers
<1>2. MeanAbs(c) = MeanAbs(d)
  BY <1>1, MeanIs, Zenon DEF MeanForm
<1>3. Signal(c) \in Int /\ Signal(d) \in Int
  BY SignalType
<1>4. QNorm(d) <= QNorm(c)
  <2>1. MeanAbs(c) \in Nat
    BY ModulationIs
  <2>2. QNormOf(MeanAbs(c), Signal(d)) <= QNormOf(MeanAbs(c), Signal(c))
    BY <1>3, <2>1, QNormMonotone
  <2>3. QNorm(c) = QNormOf(MeanAbs(c), Signal(c)) /\ QNorm(d) = QNormOf(MeanAbs(c), Signal(d))
    BY <1>2, ModulationIs
  <2> QED
    BY <2>2, <2>3, Zenon
<1>5. GHat(d) <= GHat(c)
  <2>1. QNorm(c) \in Int /\ QNorm(d) \in Int
    BY ModulationIs
  <2>2. GHat(c) = GHatOf(QNorm(c)) /\ GHat(d) = GHatOf(QNorm(d))
    BY ModulationIs
  <2> QED
    BY <1>4, <2>1, <2>2, GHatMonotone
<1>6. Times(lambda, GHat(d)) <= Times(lambda, GHat(c))
  <2>1. GHat(c) \in Int /\ GHat(d) \in Int
    BY ModulationIs
  <2>2. lambda \in Nat
    BY Constants DEF InputOK
  <2> QED
    BY <1>5, <2>1, <2>2, RefinementMonotone
<1> DEFINE x == Times(lambda, GHat(c))
           y == Times(lambda, GHat(d))
           v == valid[UidOf(c)]
<1>7. x \in Int /\ y \in Int /\ y <= x /\ v \in {0, 1}
  BY <1>6, ModulationIs
<1>8. /\ Modulation(c) = IF One + x * 1 * v >= Floor THEN One + x * 1 * v ELSE Floor
      /\ Modulation(d) = IF One + y * 1 * v >= Floor THEN One + y * 1 * v ELSE Floor
  BY DEF Modulation
<1> HIDE DEF x, y, v
<1>9. y * 1 * v <= x * 1 * v /\ y * 1 * v \in Int /\ x * 1 * v \in Int
  BY <1>7
<1>10. One \in Int /\ Floor \in Int
  BY Constants
<1> QED
  BY <1>8, <1>9, <1>10

-----------------------------------------------------------------------------
(* The properties, of a batch whose advantage is computed *)

(* adv is what Compute makes of the inputs. *)
Result == adv = [c \in Cells |-> Grpo(c) * Modulation(c) * mask[c]]

(* With different scores in its group, a best row is above the mean and a  *)
(* worst one below: the score is the bound of those the mean is taken of,  *)
(* reached by not all of them.                                             *)
LEMMA VerifierDecidesGrpo ==
    ASSUME InputOK, NEW c \in Cells,
           Cardinality({score[r] : r \in GroupOf(RowOf[c])}) > 1
    PROVE  /\ (\A r \in GroupOf(RowOf[c]) : score[r] <= score[RowOf[c]]) => Grpo(c) > 0
           /\ (\A r \in GroupOf(RowOf[c]) : score[r] >= score[RowOf[c]]) => Grpo(c) < 0
<1> DEFINE G == GroupOf(RowOf[c])
           own == score[RowOf[c]]
           level == [r \in G |-> own]
<1>1. /\ IsFiniteSet(G) /\ RowOf[c] \in G /\ G \subseteq Rows
      /\ Cardinality(G) = 1 => Grpo(c) = own
      /\ Cardinality(G) # 1 => Grpo(c) = Cardinality(G) * own - SumOver(score, G)
  BY GrpoIs DEF GrpoForm
<1>2. \A r \in G : score[r] \in Int /\ level[r] = own /\ own \in Int /\ level[r] \in Int
  BY <1>1, Constants DEF InputOK
<1>3. \E r \in G : score[r] # own
  <2> SUFFICES ASSUME \A r \in G : score[r] = own PROVE FALSE
    OBVIOUS
  <2>1. {score[r] : r \in G} = {own}
    BY <1>1
  <2>2. Cardinality({own}) = 1
    BY FS_Singleton
  <2> QED
    BY <2>1, <2>2
<1>4. Cardinality(G) # 1
  <2> SUFFICES ASSUME Cardinality(G) = 1 PROVE FALSE
    OBVIOUS
  <2>1. PICK x : G = {x}
    BY <1>1, FS_Singleton
  <2> QED
    BY <1>1, <1>3, <2>1
<1> HIDE DEF G, own, level
<1>5. Cardinality(G) \in Nat /\ own \in Int
  BY <1>1, <1>2, FS_CardinalityType
<1>6. SumOver(level, G) = Cardinality(G) * own
  BY <1>1, <1>2, <1>5, SumConstant
<1>7. SumOver(score, G) \in Int /\ Cardinality(G) * own \in Int
  BY <1>1, <1>2, <1>5, SumDef
<1>8. ASSUME \A r \in G : score[r] <= own PROVE Grpo(c) > 0
  <2>1. /\ \A r \in G : score[r] \in Int /\ level[r] \in Int /\ score[r] <= level[r]
        /\ \E r \in G : score[r] < level[r]
    BY <1>2, <1>3, <1>8
  <2>2. SumOver(score, G) < SumOver(level, G)
    BY <1>1, <2>1, SumMonotone
  <2> QED
    BY <1>1, <1>4, <1>6, <1>7, <2>2
<1>9. ASSUME \A r \in G : score[r] >= own PROVE Grpo(c) < 0
  <2>1. /\ \A r \in G : score[r] \in Int /\ level[r] \in Int /\ level[r] <= score[r]
        /\ \E r \in G : level[r] < score[r]
    BY <1>2, <1>3, <1>9
  <2>2. SumOver(level, G) < SumOver(score, G)
    BY <1>1, <2>1, SumMonotone
  <2> QED
    BY <1>1, <1>4, <1>6, <1>7, <2>2
<1> QED
  BY <1>8, <1>9 DEF G, own

(* The factor keeps within the floor and what lambda * g_hat_max allows;   *)
(* it is One for a group without a prior.                                  *)
LEMMA ModulationBounds ==
    ASSUME InputOK, NEW c \in Cells, Real(c)
    PROVE  /\ Times(lambda, GHatMax) \in Int
           /\ Modulation(c) \in Int
           /\ Modulation(c) >= Floor /\ Modulation(c) >= 1
           /\ Modulation(c) >= One - Times(lambda, GHatMax)
           /\ Modulation(c) <= One + Times(lambda, GHatMax)
           /\ valid[UidOf(c)] = 0 => Modulation(c) = One
<1> DEFINE x == Times(lambda, GHat(c))
           most == Times(lambda, GHatMax)
           least == Times(lambda, -GHatMax)
           v == valid[UidOf(c)]
<1>1. lambda \in Nat /\ GHatMax \in Nat /\ One \in Nat /\ One >= 10
      /\ Floor \in Nat /\ Floor >= 1
  BY Constants DEF InputOK
<1>2. /\ GHat(c) \in Int /\ x \in Int /\ v \in {0, 1}
      /\ Modulation(c) \in Int /\ Modulation(c) >= Floor
  BY ModulationIs
<1>3. -GHatMax <= GHat(c) /\ GHat(c) <= GHatMax
  BY <1>1, <1>2 DEF GHat, Clamp
<1>4. least <= x /\ x <= most
  <2>1. -GHatMax \in Int /\ GHatMax \in Int
    BY <1>1
  <2> QED
    BY <1>1, <1>2, <1>3, <2>1, RefinementMonotone
<1>5. most \in Nat /\ least = -most
  <2> DEFINE d == (Abs(lambda) * Abs(GHatMax)) \div One
             s == Sign(lambda)
             g == Sign(GHatMax)
  <2>1. Abs(GHatMax) = GHatMax /\ Abs(-GHatMax) = GHatMax /\ Abs(lambda) = lambda
    BY <1>1 DEF Abs
  <2>2. s \in {0, 1} /\ g \in {0, 1} /\ Sign(-GHatMax) = -g
    BY <1>1 DEF Sign
  <2>3. d \in Nat
    <3>1. lambda * GHatMax \in Nat
      BY <1>1
    <3> QED
      BY <1>1, <2>1, <3>1, Quotient
  <2>4. most = s * g * d /\ least = s * Sign(-GHatMax) * d
    BY <2>1 DEF Times
  <2> HIDE DEF d, s, g, most, least
  <2> QED
    BY <2>2, <2>3, <2>4
<1>6. Floor <= One
  BY <1>1 DEF Floor
<1>7. /\ mask[c] = 1
      /\ Modulation(c) = IF One + x * mask[c] * v >= Floor THEN One + x * mask[c] * v ELSE Floor
  BY DEF Modulation, Real
<1> HIDE DEF x, most, least, v
<1>8. CASE v = 0
  <2>1. One + x * mask[c] * v = One
    BY <1>1, <1>2, <1>7, <1>8
  <2>2. Modulation(c) = One
    BY <1>1, <1>6, <1>7, <2>1
  <2> QED
    BY <1>1, <1>2, <1>5, <2>2 DEF most, v
<1>9. CASE v = 1
  <2>1. One + x * mask[c] * v = One + x
    BY <1>1, <1>2, <1>7, <1>9
  <2>2. Modulation(c) = IF One + x >= Floor THEN One + x ELSE Floor
    BY <1>7, <2>1
  <2>3. Modulation(c) >= One - most /\ Modulation(c) <= One + most
    BY <1>1, <1>2, <1>4, <1>5, <1>6, <2>2
  <2> QED
    BY <1>1, <1>2, <1>5, <1>9, <2>3 DEF most, v
<1> QED
  BY <1>2, <1>8, <1>9

(* Scaling by a positive factor m: sign and size. *)
LEMMA ScaledBy ==
    ASSUME NEW g \in Int, NEW m \in Int, m >= 1, NEW a, a = g * m * 1
    PROVE  a \in Int /\ Sign(a) = Sign(g) /\ Abs(a) = Abs(g) * m /\ Abs(g) \in Nat
<1>1. CASE g = 0
  BY <1>1 DEF Sign, Abs
<1>2. CASE g > 0
  <2>1. g * m > 0 /\ g * m \in Int /\ a = g * m
    BY <1>2
  <2> QED
    BY <1>2, <2>1 DEF Sign, Abs
<1>3. CASE g < 0
  <2>1. g * m < 0 /\ g * m \in Int /\ a = g * m /\ -(g * m) = (-g) * m
    BY <1>3
  <2> QED
    BY <1>3, <2>1 DEF Sign, Abs
<1> QED
  BY <1>1, <1>2, <1>3

(* The advantage has the sign of GRPO's and a size within the factor's     *)
(* bounds, and the verifier decides GRPO's sign in a contrastive group.    *)
LEMMA SignFromResult ==
    ASSUME InputOK, Result
    PROVE  VerifierDecidesSign
<1> SUFFICES ASSUME NEW c \in Cells, Real(c)
             PROVE  ContrastDecides(c) /\ TeacherIsBounded(c)
  BY DEF VerifierDecidesSign
<1>1. adv[c] = Grpo(c) * Modulation(c) * 1
  BY DEF Result, Real
<1>2. Grpo(c) \in Int
  BY GrpoIs, Zenon DEF GrpoForm
<1>3. /\ Times(lambda, GHatMax) \in Int
      /\ Modulation(c) \in Int
      /\ Modulation(c) >= Floor /\ Modulation(c) >= 1
      /\ Modulation(c) >= One - Times(lambda, GHatMax)
      /\ Modulation(c) <= One + Times(lambda, GHatMax)
      /\ valid[UidOf(c)] = 0 => Modulation(c) = One
  BY ModulationBounds
<1>4. /\ adv[c] \in Int /\ Sign(adv[c]) = Sign(Grpo(c))
      /\ Abs(adv[c]) = Abs(Grpo(c)) * Modulation(c) /\ Abs(Grpo(c)) \in Nat
  BY <1>1, <1>2, <1>3, ScaledBy
<1>5. ContrastDecides(c)
  <2>1. /\ Grpo(c) > 0 => adv[c] > 0
        /\ Grpo(c) < 0 => adv[c] < 0
    BY <1>2, <1>4 DEF Sign
  <2>2. Cardinality({score[r] : r \in GroupOf(RowOf[c])}) > 1 =>
          /\ (\A r \in GroupOf(RowOf[c]) : score[r] <= score[RowOf[c]]) => Grpo(c) > 0
          /\ (\A r \in GroupOf(RowOf[c]) : score[r] >= score[RowOf[c]]) => Grpo(c) < 0
    BY VerifierDecidesGrpo
  <2> QED
    BY <2>1, <2>2 DEF ContrastDecides
<1>6. TeacherIsBounded(c)
  <2> DEFINE k == Abs(Grpo(c))
             m == Modulation(c)
             most == Times(lambda, GHatMax)
  <2>1. One \in Int /\ Floor \in Int
    BY Constants
  <2> HIDE DEF k, m, most
  <2>2. k \in Nat /\ m \in Int /\ most \in Int /\ Abs(adv[c]) = k * m
        /\ Floor <= m /\ One - most <= m /\ m <= One + most
        /\ One - most \in Int /\ One + most \in Int
    BY <1>3, <1>4, <2>1 DEF k, m, most
  <2>3. k * Floor <= k * m /\ k * (One - most) <= k * m /\ k * m <= k * (One + most)
    BY <2>1, <2>2, TimesMonotone
  <2>4. k * Floor = Floor * k /\ k * (One - most) = (One - most) * k
        /\ k * (One + most) = (One + most) * k
    BY <2>1, <2>2
  <2>5. /\ Abs(adv[c]) >= Floor * k
        /\ Abs(adv[c]) >= (One - most) * k
        /\ Abs(adv[c]) <= (One + most) * k
    <3>1. /\ k * Floor \in Int /\ k * (One - most) \in Int
          /\ k * (One + most) \in Int /\ k * m \in Int
      BY <2>1, <2>2
    <3> QED
      BY <2>2, <2>3, <2>4, <3>1
  <2>6. valid[UidOf(c)] = 0 => adv[c] = One * Grpo(c)
    BY <1>1, <1>2, <1>3, <2>1
  <2> QED
    BY <1>4, <2>5, <2>6 DEF TeacherIsBounded, k, most
<1> QED
  BY <1>5, <1>6

(* Of two cells with the same GRPO advantage the one whose aligned gap is  *)
(* greater has the greater signal.                                         *)
LEMMA SignalFollowsGap ==
    ASSUME InputOK, NEW c \in Cells, NEW d \in Cells, Grpo(c) = Grpo(d),
           Sign(Grpo(c)) * gap[c] >= Sign(Grpo(c)) * gap[d]
    PROVE  Signal(d) <= Signal(c)
<1> DEFINE x == Sign(Grpo(c)) * gap[c]
           y == Sign(Grpo(d)) * gap[d]
<1>1. Grpo(c) \in Int
  BY GrpoIs, Zenon DEF GrpoForm
<1>2. Sign(Grpo(c)) \in {-1, 0, 1} /\ gap[c] \in Int /\ gap[d] \in Int
  BY <1>1, Constants DEF Sign, InputOK
<1>3. x \in Int /\ y \in Int /\ y <= x
  <2>1. Sign(Grpo(d)) = Sign(Grpo(c))
    BY Zenon
  <2> QED
    BY <1>2, <2>1
<1>4. Signal(c) = Expm1[Clamp(x, -ExpClip, ExpClip)] /\ Signal(d) = Expm1[Clamp(y, -ExpClip, ExpClip)]
  BY DEF Signal
<1> HIDE DEF x, y
<1>5. /\ Clamp(x, -ExpClip, ExpClip) \in (-ExpClip)..ExpClip
      /\ Clamp(y, -ExpClip, ExpClip) \in (-ExpClip)..ExpClip
      /\ Clamp(y, -ExpClip, ExpClip) <= Clamp(x, -ExpClip, ExpClip)
  BY <1>3, Constants, ClampMonotone
<1> QED
  BY <1>4, <1>5, Constants

(* Its factor is greater, and with it the size of its advantage. *)
LEMMA CreditFromResult ==
    ASSUME InputOK, Result
    PROVE  CreditFollowsTeacher
<1> SUFFICES ASSUME NEW c \in Cells, NEW d \in Cells, Real(c), Real(d), UidOf(c) = UidOf(d),
                    Grpo(c) = Grpo(d),
                    Sign(Grpo(c)) * gap[c] >= Sign(Grpo(c)) * gap[d]
             PROVE  Abs(adv[c]) >= Abs(adv[d])
  BY Zenon DEF CreditFollowsTeacher
<1>1. Modulation(d) <= Modulation(c)
  BY SignalFollowsGap, FactorFollowsSignal DEF Real
<1>2. adv[c] = Grpo(c) * Modulation(c) * 1 /\ adv[d] = Grpo(c) * Modulation(d) * 1
  BY DEF Result, Real
<1>3. /\ Grpo(c) \in Int /\ Modulation(c) \in Nat /\ Modulation(d) \in Nat
  <2>1. Grpo(c) \in Int
    BY GrpoIs, Zenon DEF GrpoForm
  <2>2. /\ Modulation(c) \in Int /\ Modulation(c) >= Floor
        /\ Modulation(d) \in Int /\ Modulation(d) >= Floor
    BY ModulationIs
  <2> QED
    BY <2>1, <2>2, Constants
<1>4. \A g \in Int : \A m \in Nat : Abs(g * m * 1) = Abs(g) * m /\ Abs(g) \in Nat
  <2> SUFFICES ASSUME NEW g \in Int, NEW m \in Nat
               PROVE  Abs(g * m * 1) = Abs(g) * m /\ Abs(g) \in Nat
    OBVIOUS
  <2>1. g * m * 1 = g * m /\ (-g) * m = -(g * m)
    OBVIOUS
  <2>2. /\ g >= 0 => g * m >= 0
        /\ g < 0 => g * m <= 0
    OBVIOUS
  <2>3. g * m \in Int
    OBVIOUS
  <2> QED
    BY <2>1, <2>2, <2>3 DEF Abs
<1>5. Abs(adv[c]) = Abs(Grpo(c)) * Modulation(c) /\ Abs(adv[d]) = Abs(Grpo(c)) * Modulation(d)
  BY <1>2, <1>3, <1>4
<1>6. Abs(Grpo(c)) * Modulation(d) <= Abs(Grpo(c)) * Modulation(c)
  <2>1. Abs(Grpo(c)) \in Nat /\ Modulation(c) \in Int /\ Modulation(d) \in Int
    BY <1>3, <1>4
  <2> QED
    BY <1>1, <2>1, TimesMonotone
<1>7. Abs(Grpo(c)) * Modulation(d) \in Int /\ Abs(Grpo(c)) * Modulation(c) \in Int
  BY <1>3, <1>4
<1> QED
  BY <1>5, <1>6, <1>7

-----------------------------------------------------------------------------
(* The scale of a group *)

(* The sizes of the normalised signals of some cells, summed. *)
LEMMA QNormSum ==
    ASSUME NEW S, IsFiniteSet(S), NEW f, \A c \in S : f[c] \in Int /\ f[c] = Abs(QNorm(c))
    PROVE  MapThenSumSet(LAMBDA c : Abs(QNorm(c)), S) = SumOver(f, S)
<1> DEFINE Step(it) == [s \in SUBSET S |->
              IF s = {} THEN 0
              ELSE Abs(QNorm(CHOOSE x \in s : TRUE)) + it[s \ {CHOOSE x \in s : TRUE}]]
           it == CHOOSE sum : sum = Step(sum)
<1>1. MapThenSumSet(LAMBDA c : Abs(QNorm(c)), S) = it[S]
  BY Zenon DEF MapThenSumSet, MapThenFoldSet
<1>2. ASSUME NEW sum PROVE sum = Step(sum) <=> IsSum(sum, f, S)
  <2>1. ASSUME NEW s \in SUBSET S, s # {}
        PROVE  f[CHOOSE x \in s : TRUE] = Abs(QNorm(CHOOSE x \in s : TRUE))
    <3>1. (CHOOSE x \in s : TRUE) \in S
      BY <2>1
    <3> QED
      BY <3>1
  <2>2. Step(sum) = [T \in SUBSET S |-> SumStep(sum, f, T)]
    BY <2>1 DEF SumStep
  <2> QED
    BY <2>2 DEF IsSum
<1>3. PICK sum : IsSum(sum, f, S)
  BY SumExists
<1>4. it = Step(it)
  <2>1. sum = Step(sum)
    BY <1>2, <1>3
  <2> QED
    BY <2>1
<1>5. IsSum(it, f, S)
  BY <1>2, <1>4
<1> HIDE DEF it
<1> QED
  BY <1>1, <1>5, SumRecognised

(* A positive factor can be cancelled. *)
LEMMA Cancel ==
    ASSUME NEW m \in Nat, m >= 1, NEW a \in Int, NEW b \in Int, m * a <= m * b
    PROVE  a <= b
<1> SUFFICES ASSUME b + 1 <= a PROVE FALSE
  OBVIOUS
<1>1. m * (b + 1) <= m * a
  BY TimesMonotone
<1>2. m * (b + 1) = m * b + m /\ m * b \in Int /\ m * a \in Int
  OBVIOUS
<1> QED
  BY <1>1, <1>2

(* Rounding: n numbers that sum to s, each multiplied by 10 * f and        *)
(* divided by their mean m, sum to 10 * f * n, give or take f * n.         *)
LEMMA Rounding ==
    ASSUME NEW m \in Nat, NEW n \in Nat, NEW s \in Nat, NEW q \in Nat, NEW f \in Nat,
           m >= 10, f >= 1,
           n * m <= s, s <= n * m + n,
           m * q <= (10 * f) * s, (10 * f) * s - n * m <= m * q
    PROVE  q <= (10 * f) * n + f * n /\ (10 * f) * n - f * n <= q
<1> DEFINE k == 10 * f
<1>1. k \in Nat
  OBVIOUS
<1>2. q <= k * n + f * n
  <2>1. k * s <= k * (n * m + n)
    <3>1. n * m + n \in Int /\ s \in Int
      OBVIOUS
    <3> HIDE DEF k
    <3> QED
      BY <1>1, <3>1, TimesMonotone
  <2>2. k * (n * m + n) = m * (k * n) + 10 * (f * n)
    OBVIOUS
  <2>3. 10 * (f * n) <= m * (f * n)
    <3>1. f * n \in Nat
      OBVIOUS
    <3>2. \A a, b, c \in Nat : a <= b => a * c <= b * c
      <4> SUFFICES ASSUME NEW a \in Nat, NEW b \in Nat, NEW c \in Nat, a <= b
                   PROVE  a * c <= b * c
        OBVIOUS
      <4>1. c * a <= c * b
        BY TimesMonotone
      <4>2. c * a = a * c /\ c * b = b * c
        OBVIOUS
      <4> QED
        BY <4>1, <4>2
    <3> QED
      BY <3>1, <3>2
  <2>4. m * (k * n) + m * (f * n) = m * (k * n + f * n)
    OBVIOUS
  <2>5. /\ k * s \in Int /\ k * (n * m + n) \in Int /\ m * (k * n) \in Int
        /\ f * n \in Nat /\ m * (f * n) \in Int /\ m * q \in Int /\ k * n + f * n \in Int
    OBVIOUS
  <2>6. m * q <= k * s
    OBVIOUS
  <2> HIDE DEF k
  <2>7. m * q <= m * (k * n + f * n)
    BY <2>1, <2>2, <2>3, <2>4, <2>5, <2>6
  <2> QED
    BY <2>5, <2>7, Cancel
<1>3. k * n - f * n <= q
  <2>1. k * (n * m) <= k * s
    <3>1. n * m \in Int /\ s \in Int
      OBVIOUS
    <3> HIDE DEF k
    <3> QED
      BY <1>1, <3>1, TimesMonotone
  <2>2. k * (n * m) - n * m = m * (k * n - n)
    OBVIOUS
  <2>3. k * s - n * m <= m * q
    OBVIOUS
  <2>4. /\ k * s \in Int /\ k * (n * m) \in Int /\ n * m \in Int /\ m * q \in Int
        /\ k * n - n \in Int /\ m * (k * n - n) \in Int /\ k * n \in Int /\ f * n \in Int
    OBVIOUS
  <2>5. n * 1 <= n * f
    BY TimesMonotone
  <2>6. n * 1 = n /\ n * f = f * n
    OBVIOUS
  <2> HIDE DEF k
  <2>7. m * (k * n - n) <= m * q
    BY <2>1, <2>2, <2>3, <2>4
  <2>8. k * n - n <= q
    BY <2>4, <2>7, Cancel
  <2> QED
    BY <2>4, <2>5, <2>6, <2>8
<1> QED
  BY <1>2, <1>3

(* One is ten times the floor. *)
LEMMA OneIsTenFloors == One = 10 * Floor
BY Constants, ResolutionAssumption DEF Floor

(* A signal that is not zero is big. *)
LEMMA BigSignal ==
    ASSUME InputOK, NEW c \in Cells, Signal(c) # 0
    PROVE  Abs(Signal(c)) >= 10 * Cardinality(Cells)
<1> DEFINE q == Clamp(Sign(Grpo(c)) * gap[c], -ExpClip, ExpClip)
<1>1. Grpo(c) \in Int
  BY GrpoIs, Zenon DEF GrpoForm
<1>2. Sign(Grpo(c)) \in {-1, 0, 1} /\ gap[c] \in Int
  BY <1>1, Constants DEF Sign, InputOK
<1>3. Sign(Grpo(c)) * gap[c] \in Int
  BY <1>2
<1>4. q \in (-ExpClip)..ExpClip
  BY <1>3, Constants, ClampMonotone
<1>5. Signal(c) = Expm1[q]
  BY DEF Signal
<1> HIDE DEF q
<1>6. q # 0
  BY <1>5, Constants
<1>7. Cardinality(Cells) \in Nat /\ Expm1[q] \in Int
  BY <1>4, Constants, FS_CardinalityType
<1>8. Expm1[q] >= 10 * Cardinality(Cells) \/ -Expm1[q] >= 10 * Cardinality(Cells)
  BY <1>4, <1>6, ResolutionAssumption
<1> QED
  BY <1>5, <1>7, <1>8 DEF Abs

(* The normalised signals of a valid group average to 1. *)
LEMMA GroupScale ==
    ASSUME InputOK, norm = "group", NEW u \in Uids, valid[u] = 1,
           NEW own, own = {c \in Cells : Real(c) /\ UidOf(c) = u},
           NEW e \in own, Signal(e) # 0
    PROVE  Abs(MapThenSumSet(LAMBDA c : Abs(QNorm(c)), own) - One * Cardinality(own))
                <= Floor * Cardinality(own)
<1> DEFINE m == MeanAbs(e)
           n == Cardinality(own)
           f == SizeOf(own)
           g == [c \in own |-> Abs(QNorm(c))]
           s == SumOver(f, own)
           q == SumOver(g, own)
<1>1. own \subseteq Cells /\ \A c \in own : Peers(c) = own
  BY DEF Peers, Real
<1>2. /\ IsFiniteSet(own) /\ n \in Nat /\ n <= Cardinality(Cells) /\ Cardinality(Cells) \in Nat
      /\ n >= 1
  <2>1. IsFiniteSet(own) /\ n \in Nat /\ n <= Cardinality(Cells) /\ Cardinality(Cells) \in Nat
    BY <1>1, Constants, FS_Subset, FS_CardinalityType
  <2> QED
    BY <2>1, FS_EmptySet
<1>3. \A c \in own : MeanAbs(c) = m
  <2>1. \A c \in own : MeanAbs(c) = IF own = {} THEN 0 ELSE SumOver(SizeOf(own), own) \div n
    BY <1>1, MeanIs DEF MeanForm
  <2> QED
    BY <2>1
<1>4. /\ \A c \in own : f[c] \in Nat /\ f[c] = Abs(Signal(c))
      /\ s \in Nat
      /\ m \in Nat /\ m = s \div n
  <2>1. e \in Cells /\ Peers(e) = own /\ own # {}
    BY <1>1
  <2>2. MeanForm
    BY MeanIs
  <2>3. /\ \A d \in Peers(e) : SizeOf(Peers(e))[d] \in Nat
        /\ SumOver(SizeOf(Peers(e)), Peers(e)) \in Nat
        /\ MeanAbs(e) \in Nat
        /\ MeanAbs(e) = IF Peers(e) = {} THEN 0
                        ELSE SumOver(SizeOf(Peers(e)), Peers(e)) \div Cardinality(Peers(e))
    BY <2>1, <2>2, Zenon DEF MeanForm
  <2>4. \A c \in own : f[c] = Abs(Signal(c))
    BY DEF SizeOf
  <2>5. m = s \div n
    BY <2>1, <2>3, Zenon
  <2> QED
    BY <2>1, <2>3, <2>4, <2>5, Zenon
<1>5. n * m <= s /\ s <= n * m + n
  <2>1. n * (s \div n) <= s /\ s < n * ((s \div n) + 1)
    BY <1>2, <1>4, Quotient
  <2>2. n * m <= s /\ s < n * (m + 1)
    BY <1>4, <2>1, Zenon
  <2> HIDE DEF m, n, s
  <2> QED
    BY <1>2, <1>4, <2>2
<1>6. s >= 10 * n
  <2>1. s = f[e] + SumOver(f, own \ {e})
    BY <1>2, <1>4, SumRemove
  <2>2. SumOver(f, own \ {e}) \in Int /\ SumOver(f, own \ {e}) >= 0
    <3> DEFINE T == own \ {e}
               z == [c \in T |-> 0]
    <3>1. IsFiniteSet(T) /\ Cardinality(T) \in Nat
      BY <1>2, FS_RemoveElement, FS_CardinalityType
    <3>2. \A c \in T : z[c] = 0 /\ z[c] \in Int /\ f[c] \in Int /\ z[c] <= f[c]
      BY <1>4
    <3> HIDE DEF T, z, f
    <3>3. SumOver(z, T) = Cardinality(T) * 0
      BY <3>1, <3>2, SumConstant
    <3>4. SumOver(z, T) <= SumOver(f, T)
      BY <3>1, <3>2, SumMonotone
    <3>5. SumOver(f, T) \in Int
      BY <3>1, <3>2, SumDef
    <3> QED
      BY <3>1, <3>3, <3>4, <3>5 DEF T
  <2>3. f[e] >= 10 * Cardinality(Cells) /\ f[e] \in Nat
    BY <1>1, <1>4, BigSignal
  <2> HIDE DEF f, s, n
  <2> QED
    BY <1>2, <2>1, <2>2, <2>3
<1>7. m >= 10
  <2> HIDE DEF m, n, s
  <2> SUFFICES ASSUME m + 1 <= 10 PROVE FALSE
    BY <1>4
  <2>1. n * (m + 1) <= n * 10
    BY <1>2, <1>4, TimesMonotone
  <2>2. s < n * (m + 1)
    BY <1>2, <1>4, Quotient DEF m, n, s
  <2> QED
    BY <1>2, <1>4, <1>6, <2>1, <2>2
<1>8. /\ \A c \in own : g[c] \in Nat /\ g[c] = Abs(QNorm(c))
      /\ \A c \in own : m * g[c] <= One * f[c] /\ One * f[c] + (-m) <= m * g[c]
  <2> SUFFICES ASSUME NEW c \in own
               PROVE  /\ g[c] \in Nat /\ g[c] = Abs(QNorm(c))
                      /\ m * g[c] <= One * f[c] /\ One * f[c] + (-m) <= m * g[c]
    BY Zenon
  <2> DEFINE x == Signal(c)
             d == (One * Abs(x)) \div m
  <2>1. c \in Cells /\ MeanAbs(c) = m /\ g[c] = Abs(QNorm(c)) /\ f[c] = Abs(x) /\ f[c] \in Nat
    BY <1>1, <1>3, <1>4
  <2>2. QNorm(c) = Sign(x) * d
    <3>1. m # 0 /\ norm # "none"
      BY <1>4, <1>7
    <3> QED
      BY <2>1, <3>1, Zenon DEF QNorm
  <2>3. x \in Int
    BY <2>1, SignalType
  <2>4. One * Abs(x) \in Nat /\ m \in Nat /\ m >= 1
    <3>1. One \in Nat
      BY Constants
    <3> QED
      BY <1>4, <1>7, <2>1, <3>1
  <2>5. d \in Nat /\ m * d <= One * Abs(x) /\ One * Abs(x) < m * (d + 1)
    BY <2>4, Quotient
  <2>6. Abs(QNorm(c)) = d
    <3>1. CASE x = 0
      <4>1. Abs(x) = 0
        BY <3>1 DEF Abs
      <4>2. One * Abs(x) = 0
        BY <4>1, Constants
      <4>3. m * d <= 0 /\ d \in Nat
        BY <2>5, <4>2
      <4> HIDE DEF d, m
      <4>4. d = 0
        <5> SUFFICES ASSUME d >= 1 PROVE FALSE
          BY <4>3
        <5>1. m * 1 <= m * d
          BY <2>4, <4>3, TimesMonotone
        <5> QED
          BY <2>4, <4>3, <5>1
      <4>5. Sign(x) = 0
        BY <3>1 DEF Sign
      <4> QED
        BY <2>2, <4>4, <4>5 DEF Abs
    <3>2. CASE x # 0
      <4>1. Sign(x) \in {-1, 1}
        BY <2>3, <3>2 DEF Sign
      <4> HIDE DEF d
      <4> QED
        BY <2>2, <2>5, <4>1 DEF Abs
    <3> QED
      BY <3>1, <3>2
  <2>7. g[c] = d
    BY <2>1, <2>6, Zenon
  <2> HIDE DEF m, f, g, x, d
  <2>8. m * (d + 1) = m * d + m
    BY <2>4, <2>5
  <2>9. m * d \in Int
    BY <2>4, <2>5
  <2> QED
    BY <2>1, <2>4, <2>5, <2>7, <2>8, <2>9
<1>9. /\ q \in Nat /\ m * q <= One * s /\ One * s - n * m <= m * q
  <2> DEFINE mg == [c \in own |-> m * g[c] + 0]
             kf == [c \in own |-> One * f[c] + 0]
             low == [c \in own |-> One * f[c] + (-m)]
             z == [c \in own |-> 0]
  <2>1. One \in Int /\ m \in Int /\ -m \in Int /\ 0 \in Int
    BY <1>4, Constants
  <2>2. \A c \in own : g[c] \in Int /\ f[c] \in Int /\ z[c] \in Int /\ z[c] <= g[c] /\ z[c] = 0
    BY <1>4, <1>8
  <2>3. \A c \in own : /\ mg[c] = m * g[c] + 0 /\ kf[c] = One * f[c] + 0
                       /\ low[c] = One * f[c] + (-m)
    OBVIOUS
  <2>4. \A c \in own : /\ mg[c] \in Int /\ kf[c] \in Int /\ low[c] \in Int
                       /\ mg[c] <= kf[c] /\ low[c] <= mg[c]
    <3> SUFFICES ASSUME NEW c \in own
                 PROVE  /\ mg[c] \in Int /\ kf[c] \in Int /\ low[c] \in Int
                        /\ mg[c] <= kf[c] /\ low[c] <= mg[c]
      OBVIOUS
    <3>1. m * g[c] <= One * f[c] /\ One * f[c] + (-m) <= m * g[c]
      BY <1>8, Zenon
    <3>2. m * g[c] \in Int /\ One * f[c] \in Int
      BY <2>1, <2>2
    <3> HIDE DEF m, mg, kf, low
    <3> QED
      BY <2>1, <2>3, <3>1, <3>2
  <2> HIDE DEF mg, kf, low, z, m, f, g
  <2>5. SumOver(mg, own) = m * q + n * 0
    BY <1>2, <2>1, <2>2, <2>3, SumAffine
  <2>6. SumOver(kf, own) = One * s + n * 0
    BY <1>2, <2>1, <2>2, <2>3, SumAffine
  <2>7. SumOver(low, own) = One * s + n * (-m)
    BY <1>2, <2>1, <2>2, <2>3, SumAffine
  <2>8. SumOver(mg, own) <= SumOver(kf, own) /\ SumOver(low, own) <= SumOver(mg, own)
    BY <1>2, <2>4, SumMonotone
  <2>9. q \in Int
    BY <1>2, <2>2, SumDef
  <2>10. q >= 0
    <3>1. SumOver(z, own) <= q
      BY <1>2, <2>2, SumMonotone
    <3>2. SumOver(z, own) = n * 0
      BY <1>2, <2>1, <2>2, SumConstant
    <3> QED
      BY <1>2, <2>9, <3>1, <3>2
  <2>11. m * q \in Int /\ One * s \in Int /\ n * m \in Int /\ n * (-m) = -(n * m) /\ n * 0 = 0
    <3>1. q \in Int /\ m \in Int /\ One \in Int /\ s \in Int /\ n \in Int
      BY <1>2, <1>4, <2>1, <2>9
    <3> HIDE DEF q, s, n
    <3> QED
      BY <3>1
  <2> HIDE DEF q, s, n
  <2> QED
    BY <2>5, <2>6, <2>7, <2>8, <2>9, <2>10, <2>11
<1>10. q <= One * n + Floor * n /\ One * n - Floor * n <= q
  <2>1. Floor \in Nat /\ Floor >= 1 /\ One = 10 * Floor
    BY Constants, OneIsTenFloors
  <2> HIDE DEF q, s, n, m
  <2>2. m * q <= (10 * Floor) * s /\ (10 * Floor) * s - n * m <= m * q
    BY <1>9, <2>1, Zenon
  <2>3. q <= (10 * Floor) * n + Floor * n /\ (10 * Floor) * n - Floor * n <= q
    BY <1>2, <1>4, <1>5, <1>7, <1>9, <2>1, <2>2, Rounding
  <2> QED
    BY <2>1, <2>3, Zenon
<1>11. MapThenSumSet(LAMBDA c : Abs(QNorm(c)), own) = q
  <2>1. \A c \in own : g[c] \in Int /\ g[c] = Abs(QNorm(c))
    BY <1>8
  <2> HIDE DEF g
  <2> QED
    BY <1>2, <2>1, QNormSum
<1>12. Abs(q - One * n) <= Floor * n
  <2>1. One * n \in Int /\ Floor * n \in Int /\ q \in Int
    BY <1>2, <1>9, Constants
  <2> HIDE DEF q, n
  <2> QED
    BY <1>10, <2>1 DEF Abs
<1> QED
  BY <1>11, <1>12, Zenon

(* In every state. *)
LEMMA ScaleFromInput == ASSUME InputOK PROVE ScaleIsGroupLocal
<1> SUFFICES ASSUME norm = "group", NEW u \in Uids, valid[u] = 1,
                    \E c \in {c \in Cells : Real(c) /\ UidOf(c) = u} : Signal(c) # 0
             PROVE  Abs(MapThenSumSet(LAMBDA c : Abs(QNorm(c)),
                                      {c \in Cells : Real(c) /\ UidOf(c) = u})
                            - One * Cardinality({c \in Cells : Real(c) /\ UidOf(c) = u}))
                        <= Floor * Cardinality({c \in Cells : Real(c) /\ UidOf(c) = u})
  BY Zenon DEF ScaleIsGroupLocal
<1> QED
  BY GroupScale, Zenon

-----------------------------------------------------------------------------
(* The inductive invariant: a step changes no input, so what the advantage *)
(* was computed from is what the properties read.                          *)

(* GrpoIs, of the next state. *)
LEMMA GrpoIsNext == (InputOK => GrpoForm)'
BY GrpoIs, PTL

(* MeanIs, of the next state. *)
LEMMA MeanIsNext == (InputOK => MeanForm)'
BY MeanIs, PTL

(* The inputs keep their type. *)
LEMMA InputKept ==
    ASSUME InputOK, UNCHANGED input
    PROVE  InputOK'
BY DEF InputOK, input

(* The same inputs give the same GRPO advantage. *)
LEMMA GrpoKept ==
    ASSUME InputOK, UNCHANGED input, NEW c \in Cells
    PROVE  Grpo(c)' = Grpo(c)
<1> DEFINE G == GroupOf(RowOf[c])
           s == score[RowOf[c]]
<1>1. GroupOf(RowOf[c])' = G /\ score' = score
  BY DEF input, GroupOf
<1>2. /\ Cardinality(G) = 1 => Grpo(c) = s
      /\ Cardinality(G) # 1 => Grpo(c) = Cardinality(G) * s - SumOver(score, G)
  BY GrpoIs DEF GrpoForm
<1>3. GrpoForm'
  BY GrpoIsNext, InputKept
<1>4. /\ Cardinality(GroupOf(RowOf[c])') = 1 => Grpo(c)' = score'[RowOf[c]]
      /\ Cardinality(GroupOf(RowOf[c])') # 1 =>
            Grpo(c)' = Cardinality(GroupOf(RowOf[c])') * score'[RowOf[c]]
                          - SumOver(score', GroupOf(RowOf[c])')
  BY <1>3 DEF GrpoForm
<1> HIDE DEF G
<1> QED
  BY <1>1, <1>2, <1>4

(* The same signals. *)
LEMMA SignalKept ==
    ASSUME InputOK, UNCHANGED input, NEW c \in Cells
    PROVE  Signal(c)' = Signal(c)
<1>1. Grpo(c)' = Grpo(c) /\ gap' = gap
  BY GrpoKept DEF input
<1> QED
  BY <1>1, Zenon DEF Signal

(* And the same factors. *)
LEMMA ModulationKept ==
    ASSUME InputOK, UNCHANGED input, NEW c \in Cells
    PROVE  Modulation(c)' = Modulation(c)
<1> DEFINE T == Peers(c)
<1>1. Peers(c)' = T
  BY DEF input, Peers, UidOf
<1>2. T \subseteq Cells
  BY DEF Peers
<1>3. SizeOf(Peers(c))' = SizeOf(T)
  <2>1. \A d \in T : Signal(d)' = Signal(d)
    BY <1>2, SignalKept
  <2> QED
    BY <1>1, <2>1 DEF SizeOf
<1>4. MeanAbs(c)' = MeanAbs(c)
  <2>1. MeanForm'
    BY MeanIsNext, InputKept
  <2>2. MeanAbs(c)' = IF Peers(c)' = {} THEN 0
                      ELSE SumOver(SizeOf(Peers(c))', Peers(c)') \div Cardinality(Peers(c)')
    BY <2>1, Zenon DEF MeanForm
  <2>3. MeanAbs(c) = IF Peers(c) = {} THEN 0
                     ELSE SumOver(SizeOf(Peers(c)), Peers(c)) \div Cardinality(Peers(c))
    BY MeanIs, Zenon DEF MeanForm
  <2> QED
    BY <1>1, <1>3, <2>2, <2>3, Zenon
<1>5. QNorm(c)' = QNorm(c)
  <2>1. Signal(c)' = Signal(c) /\ norm' = norm
    BY SignalKept DEF input
  <2> QED
    BY <1>4, <2>1, Zenon DEF QNorm
<1>6. GHat(c)' = GHat(c)
  BY <1>5, Zenon DEF GHat
<1>7. lambda' = lambda /\ mask' = mask /\ valid' = valid /\ UidOf(c)' = UidOf(c)
  BY DEF input, UidOf
<1> QED
  BY <1>6, <1>7, Zenon DEF Modulation

(* So the result of the old inputs is that of the new ones. *)
LEMMA ResultKept ==
    ASSUME InputOK, UNCHANGED input,
           adv' = [c \in Cells |-> Grpo(c) * Modulation(c) * mask[c]]
    PROVE  Result'
<1>1. \A c \in Cells : Grpo(c)' = Grpo(c) /\ Modulation(c)' = Modulation(c)
  BY GrpoKept, ModulationKept
<1>2. mask' = mask
  BY DEF input
<1> QED
  BY <1>1, <1>2 DEF Result

(* The inductive invariant. *)
IInv == InputOK /\ (adv = NotYet \/ Result)

(* It holds at first and every step keeps it. *)
LEMMA Invariance == Spec => []IInv
<1>1. Init => IInv
  BY DEF Init, IInv, InputOK
<1>2. IInv /\ [Next]_vars => IInv'
  <2> SUFFICES ASSUME IInv, [Next]_vars PROVE IInv'
    OBVIOUS
  <2>1. CASE Compute
    <3>1. UNCHANGED input /\ adv' = [c \in Cells |-> Grpo(c) * Modulation(c) * mask[c]]
      BY <2>1 DEF Compute
    <3> QED
      BY <3>1, InputKept, ResultKept DEF IInv
  <2>2. CASE UNCHANGED vars
    <3>1. UNCHANGED input /\ adv' = adv
      BY <2>2 DEF vars, input
    <3>2. CASE adv = NotYet
      BY <3>1, <3>2, InputKept DEF IInv, NotYet
    <3>3. CASE Result
      BY <3>1, <3>3, InputKept, ResultKept DEF IInv, Result
    <3> QED
      BY <3>2, <3>3 DEF IInv
  <2> QED
    BY <2>1, <2>2 DEF Next
<1> QED
  BY <1>1, <1>2, PTL DEF Spec

(* Type correctness, the computed advantage included: every step of        *)
(* compute_grsd_turn_advantage and compute_grsd_token_advantage yields a   *)
(* number for every cell, a lone row, an empty group, a mean of zero and   *)
(* padding included.                                                       *)
THEOREM TypesHold == Spec => []TypeOK
<1>1. IInv => TypeOK
  <2> SUFFICES ASSUME IInv PROVE adv = NotYet \/ adv \in [Cells -> Int]
    BY DEF IInv, InputOK, TypeOK
  <2>1. ASSUME NEW c \in Cells PROVE Grpo(c) * Modulation(c) * mask[c] \in Int
    <3>1. Grpo(c) \in Int
      BY GrpoIs, Zenon DEF GrpoForm, IInv
    <3>2. Modulation(c) \in Int /\ mask[c] \in {0, 1}
      BY ModulationIs DEF IInv
    <3> QED
      BY <3>1, <3>2
  <2> QED
    BY <2>1 DEF IInv, Result
<1> QED
  BY <1>1, Invariance, PTL

(* VerifierDecidesSign, of every batch: however far the teacher's gap is   *)
(* from the outcome, an advantage keeps its sign, a share of at least the  *)
(* floor and at most 1 + lambda * g_hat_max of its size, all of it without *)
(* a prior; best and worst rows of a contrastive group go up and down.     *)
THEOREM SignHolds == Spec => []VerifierDecidesSign
<1>1. IInv => VerifierDecidesSign
  <2>1. CASE adv = NotYet
    BY <2>1 DEF VerifierDecidesSign, Computed
  <2>2. CASE adv # NotYet
    BY <2>2, SignFromResult DEF IInv
  <2> QED
    BY <2>1, <2>2
<1> QED
  BY <1>1, Invariance, PTL

(* CreditFollowsTeacher, of every batch: every stage from the gap to the   *)
(* factor (clamp, expm1, scaling with rounding, dead zone, clip, floor)    *)
(* keeps the order of two cells of a group.                                *)
THEOREM CreditHolds == Spec => []CreditFollowsTeacher
<1>1. IInv => CreditFollowsTeacher
  <2>1. CASE adv = NotYet
    BY <2>1 DEF CreditFollowsTeacher, Computed
  <2>2. CASE adv # NotYet
    BY <2>2, CreditFromResult DEF IInv
  <2> QED
    BY <2>1, <2>2
<1> QED
  BY <1>1, Invariance, PTL

(* ScaleIsGroupLocal, of every batch: the signals of a valid group average *)
(* to 1 up to rounding, whatever the other groups are.                     *)
THEOREM ScaleHolds == Spec => []ScaleIsGroupLocal
<1>1. IInv => ScaleIsGroupLocal
  BY ScaleFromInput DEF IInv
<1> QED
  BY <1>1, Invariance, PTL
==============================================================================
