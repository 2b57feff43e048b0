----------------------------- MODULE CommonLemmas -----------------------------
(***************************************************************************)
(* Lemmas shared by the proofs of the components: induction over the       *)
(* naturals and over finite sets with the hypothesis given as a set (the   *)
(* provers cannot instantiate the library's theorems, which take it as an  *)
(* operator), what the sums of the models compute (over a finite set,      *)
(* MapThenSumSet, and over the first n items of a sequence), that a        *)
(* recursive function exists, and what inserting into, permuting, cutting  *)
(* and flattening sequences does to their items.                           *)
(***************************************************************************)
EXTENDS FiniteSetTheorems, FiniteSetsExt, SequencesExt, SequenceTheorems, TLAPS

-----------------------------------------------------------------------------
(* Induction *)

(* Induction over the naturals. *)
LEMMA NatSetInduction ==
    ASSUME NEW S, 0 \in S, \A n \in Nat : n \in S => n + 1 \in S
    PROVE  Nat \subseteq S
<1> DEFINE T == {n \in Nat : n \notin S}
<1>1. SUFFICES ASSUME T # {} PROVE FALSE
  OBVIOUS
<1>2. PICK x \in T : \A y \in T : <<y, x>> \notin OpToRel(<, Nat)
  <2>1. T \subseteq Nat
    OBVIOUS
  <2> HIDE DEF T
  <2> QED
    BY <1>1, <2>1, WFMin, NatLessThanWellFounded
<1>3. \A y \in T : ~(y < x)
  <2>1. \A y, z \in Nat : y < z => <<y, z>> \in OpToRel(<, Nat)
    BY DEF OpToRel
  <2> QED
    BY <1>2, <2>1
<1>4. x \in Nat /\ x # 0 /\ x \notin S
  OBVIOUS
<1>5. x - 1 \in Nat /\ (x - 1) + 1 = x /\ x - 1 < x
  BY <1>4
<1>6. x - 1 \in S
  BY <1>3, <1>5
<1> QED
  BY <1>4, <1>5, <1>6

(* Induction over the subsets of a finite set, one element at a time. *)
LEMMA SubsetInduction ==
    ASSUME NEW S, IsFiniteSet(S), NEW P,
           {} \in P,
           \A T \in SUBSET S : \A x \in S \ T : T \in P => T \cup {x} \in P
    PROVE  SUBSET S \subseteq P
<1> DEFINE Z == {n \in Nat : \A T \in SUBSET S : Cardinality(T) = n => T \in P}
<1>1. \A T \in SUBSET S : IsFiniteSet(T) /\ Cardinality(T) \in Nat
  BY FS_Subset, FS_CardinalityType
<1>2. 0 \in Z
  BY <1>1, FS_EmptySet
<1>3. ASSUME NEW n \in Nat, n \in Z PROVE n + 1 \in Z
  <2> SUFFICES ASSUME NEW T \in SUBSET S, Cardinality(T) = n + 1 PROVE T \in P
    OBVIOUS
  <2>1. T # {}
    <3>1. Cardinality({}) = 0 /\ n + 1 # 0
      BY FS_EmptySet
    <3> QED
      BY <3>1
  <2>2. PICK x : x \in T
    BY <2>1
  <2>3. Cardinality(T \ {x}) = n
    <3>1. Cardinality(T \ {x}) = Cardinality(T) - 1
      BY <1>1, <2>2, FS_RemoveElement
    <3> QED
      BY <3>1
  <2>4. T \ {x} \in SUBSET S /\ x \in S \ (T \ {x}) /\ T = (T \ {x}) \cup {x}
    BY <2>2
  <2>5. T \ {x} \in P
    BY <1>3, <2>3, <2>4
  <2> QED
    BY <2>4, <2>5
<1>4. Nat \subseteq Z
  <2> HIDE DEF Z
  <2> QED
    BY <1>2, <1>3, NatSetInduction
<1>5. ASSUME NEW T \in SUBSET S PROVE T \in P
  <2>1. Cardinality(T) \in Z
    BY <1>1, <1>4
  <2> QED
    BY <2>1
<1> QED
  BY <1>5

-----------------------------------------------------------------------------
(* Sums over a finite set *)

(* What the iteration of a fold does to a set of items, sum being what it  *)
(* does to the smaller ones.                                               *)
SumStep(sum, f, T) ==
    IF T = {} THEN 0
    ELSE f[CHOOSE x \in T : TRUE] + sum[T \ {CHOOSE x \in T : TRUE}]

IsSum(sum, f, S) == sum = [T \in SUBSET S |-> SumStep(sum, f, T)]

(* The sum of f over S. *)
SumOver(f, S) == (CHOOSE sum : IsSum(sum, f, S))[S]

(* SumOver is the sum of the community modules. *)
LEMMA MapThenSumIsSumOver ==
    ASSUME NEW f, NEW S
    PROVE  MapThenSumSet(LAMBDA x : f[x], S) = SumOver(f, S)
BY Zenon DEF MapThenSumSet, MapThenFoldSet, SumOver, IsSum, SumStep

(* A sum exists. *)
LEMMA SumExists ==
    ASSUME NEW S, IsFiniteSet(S), NEW f, \A x \in S : f[x] \in Int
    PROVE  \E sum \in [SUBSET S -> Int] : IsSum(sum, f, S)
<1> DEFINE Z == {n \in Nat : \E sum \in [SUBSET S -> Int] :
                    \A T \in SUBSET S : Cardinality(T) <= n => sum[T] = SumStep(sum, f, T)}
<1>1. \A T \in SUBSET S : IsFiniteSet(T) /\ Cardinality(T) \in Nat
  BY FS_Subset, FS_CardinalityType
<1>2. 0 \in Z
  <2>1. [T \in SUBSET S |-> 0] \in [SUBSET S -> Int]
    OBVIOUS
  <2>2. \A T \in SUBSET S : Cardinality(T) <= 0 => T = {}
    BY <1>1, FS_EmptySet
  <2> QED
    BY <2>1, <2>2 DEF SumStep
<1>3. ASSUME NEW n \in Nat, n \in Z PROVE n + 1 \in Z
  <2>1. PICK sum \in [SUBSET S -> Int] :
            \A T \in SUBSET S : Cardinality(T) <= n => sum[T] = SumStep(sum, f, T)
    BY <1>3
  <2> DEFINE next == [T \in SUBSET S |-> SumStep(sum, f, T)]
  <2>2. ASSUME NEW T \in SUBSET S, T # {}
        PROVE  /\ (CHOOSE x \in T : TRUE) \in S
               /\ T \ {CHOOSE x \in T : TRUE} \in SUBSET S
               /\ Cardinality(T \ {CHOOSE x \in T : TRUE}) = Cardinality(T) - 1
    <3>1. (CHOOSE x \in T : TRUE) \in T
      BY <2>2
    <3> QED
      BY <3>1, <1>1, FS_RemoveElement
  <2>3. next \in [SUBSET S -> Int]
    BY <2>2 DEF SumStep
  <2>4. ASSUME NEW T \in SUBSET S, Cardinality(T) <= n + 1
        PROVE  next[T] = SumStep(next, f, T)
    <3>1. CASE T = {}
      BY <3>1 DEF SumStep
    <3>2. CASE T # {}
      <4> DEFINE c == CHOOSE x \in T : TRUE
      <4>1. Cardinality(T \ {c}) <= n /\ T \ {c} \in SUBSET S
        BY <2>2, <2>4, <3>2, <1>1
      <4>2. sum[T \ {c}] = next[T \ {c}]
        BY <4>1, <2>1
      <4> QED
        BY <4>2, <3>2 DEF SumStep
    <3> QED
      BY <3>1, <3>2
  <2> HIDE DEF next
  <2> QED
    BY <2>3, <2>4
<1>4. Cardinality(S) \in Z
  <2>1. Nat \subseteq Z
    <3> HIDE DEF Z
    <3> QED
      BY <1>2, <1>3, NatSetInduction
  <2> QED
    BY <1>1, <2>1
<1>5. PICK sum \in [SUBSET S -> Int] :
          \A T \in SUBSET S : Cardinality(T) <= Cardinality(S) => sum[T] = SumStep(sum, f, T)
  BY <1>4
<1>6. \A T \in SUBSET S : sum[T] = SumStep(sum, f, T)
  BY <1>5, FS_Subset
<1>7. sum = [T \in SUBSET S |-> SumStep(sum, f, T)]
  BY <1>6
<1> QED
  BY <1>7 DEF IsSum

(* There is only one. *)
LEMMA SumUnique ==
    ASSUME NEW S, IsFiniteSet(S), NEW f, NEW a, NEW b, IsSum(a, f, S), IsSum(b, f, S)
    PROVE  a = b
<1> DEFINE Z == {n \in Nat : \A T \in SUBSET S : Cardinality(T) = n => a[T] = b[T]}
<1>1. \A T \in SUBSET S : IsFiniteSet(T) /\ Cardinality(T) \in Nat
  BY FS_Subset, FS_CardinalityType
<1>2. \A T \in SUBSET S : a[T] = SumStep(a, f, T) /\ b[T] = SumStep(b, f, T)
  BY DEF IsSum
<1>3. 0 \in Z
  BY <1>1, <1>2, FS_EmptySet DEF SumStep
<1>4. ASSUME NEW n \in Nat, n \in Z PROVE n + 1 \in Z
  <2> SUFFICES ASSUME NEW T \in SUBSET S, Cardinality(T) = n + 1 PROVE a[T] = b[T]
    OBVIOUS
  <2> DEFINE c == CHOOSE x \in T : TRUE
  <2>1. T # {}
    BY FS_EmptySet
  <2>2. c \in T
    BY <2>1
  <2>3. Cardinality(T \ {c}) = Cardinality(T) - 1
    BY <1>1, <2>2, FS_RemoveElement
  <2>4. a[T \ {c}] = b[T \ {c}]
    <3>1. T \ {c} \in SUBSET S
      OBVIOUS
    <3>2. Cardinality(T \ {c}) = n
      BY <2>3
    <3> QED
      BY <3>1, <3>2, <1>4
  <2> QED
    BY <1>2, <2>4 DEF SumStep
<1>5. Nat \subseteq Z
  <2> HIDE DEF Z
  <2> QED
    BY <1>3, <1>4, NatSetInduction
<1>6. \A T \in SUBSET S : a[T] = b[T]
  BY <1>1, <1>5
<1>7. a = [T \in SUBSET S |-> SumStep(a, f, T)] /\ b = [T \in SUBSET S |-> SumStep(b, f, T)]
  BY DEF IsSum
<1> QED
  BY <1>6, <1>7

(* The equation of the sum, and its type. *)
LEMMA SumDef ==
    ASSUME NEW S, IsFiniteSet(S), NEW f, \A x \in S : f[x] \in Int
    PROVE  /\ SumOver(f, S) \in Int
           /\ S = {} => SumOver(f, S) = 0
           /\ S # {} => \E x \in S : SumOver(f, S) = f[x] + SumOver(f, S \ {x})
<1> DEFINE sum == CHOOSE s : IsSum(s, f, S)
<1>1. IsSum(sum, f, S)
  BY SumExists
<1>2. PICK s \in [SUBSET S -> Int] : IsSum(s, f, S)
  BY SumExists
<1>3. sum = s
  BY <1>1, <1>2, SumUnique
<1>4. SumOver(f, S) = sum[S] /\ sum[S] = SumStep(sum, f, S)
  BY <1>1 DEF SumOver, IsSum
<1>5. SumOver(f, S) \in Int
  BY <1>2, <1>3, <1>4
<1>6. ASSUME S = {} PROVE SumOver(f, S) = 0
  BY <1>4, <1>6 DEF SumStep
<1>7. ASSUME S # {} PROVE \E x \in S : SumOver(f, S) = f[x] + SumOver(f, S \ {x})
  <2> DEFINE c == CHOOSE x \in S : TRUE
             R == S \ {c}
             rest == [T \in SUBSET R |-> sum[T]]
  <2>1. c \in S
    BY <1>7
  <2>2. IsSum(rest, f, R)
    <3>1. ASSUME NEW T \in SUBSET R PROVE rest[T] = SumStep(rest, f, T)
      <4>1. T \in SUBSET S
        OBVIOUS
      <4>2. rest[T] = SumStep(sum, f, T)
        BY <1>1, <4>1 DEF IsSum
      <4>3. T \ {CHOOSE x \in T : TRUE} \in SUBSET R
        OBVIOUS
      <4>4. rest[T \ {CHOOSE x \in T : TRUE}] = sum[T \ {CHOOSE x \in T : TRUE}]
        BY <4>3
      <4> QED
        BY <4>2, <4>4 DEF SumStep
    <3>2. rest = [T \in SUBSET R |-> SumStep(rest, f, T)]
      BY <3>1
    <3> QED
      BY <3>2 DEF IsSum
  <2>3. IsFiniteSet(R)
    BY FS_RemoveElement
  <2>4. (CHOOSE s1 : IsSum(s1, f, R)) = rest
    <3>1. IsSum(CHOOSE s1 : IsSum(s1, f, R), f, R)
      BY <2>2
    <3> HIDE DEF R, rest
    <3> QED
      BY <2>2, <2>3, <3>1, SumUnique
  <2>5. SumOver(f, R) = sum[R]
    BY <2>4 DEF SumOver
  <2> QED
    BY <1>4, <1>7, <2>1, <2>5 DEF SumStep
<1> QED
  BY <1>5, <1>6, <1>7

(* Any item may be taken out first. *)
LEMMA SumRemove ==
    ASSUME NEW S, IsFiniteSet(S), NEW f, \A x \in S : f[x] \in Int, NEW x \in S
    PROVE  SumOver(f, S) = f[x] + SumOver(f, S \ {x})
<1> DEFINE Z == {n \in Nat : \A T \in SUBSET S : Cardinality(T) = n =>
                    \A y \in T : SumOver(f, T) = f[y] + SumOver(f, T \ {y})}
<1>1. \A T \in SUBSET S : IsFiniteSet(T) /\ Cardinality(T) \in Nat
  BY FS_Subset, FS_CardinalityType
<1>2. 0 \in Z
  BY <1>1, FS_EmptySet
<1>3. ASSUME NEW n \in Nat, n \in Z PROVE n + 1 \in Z
  <2> SUFFICES ASSUME NEW T \in SUBSET S, Cardinality(T) = n + 1, NEW y \in T
               PROVE  SumOver(f, T) = f[y] + SumOver(f, T \ {y})
    OBVIOUS
  <2>1. PICK c \in T : SumOver(f, T) = f[c] + SumOver(f, T \ {c})
    BY <1>1, SumDef
  <2>2. CASE c = y
    BY <2>1, <2>2
  <2>3. CASE c # y
    <3>1. ASSUME NEW z \in T
          PROVE  Cardinality(T \ {z}) = n /\ T \ {z} \in SUBSET S
      <4>1. Cardinality(T \ {z}) = Cardinality(T) - 1
        BY <1>1, FS_RemoveElement
      <4> QED
        BY <4>1
    <3>2. SumOver(f, T \ {c}) = f[y] + SumOver(f, (T \ {c}) \ {y})
      <4>1. y \in T \ {c}
        BY <2>3
      <4> QED
        BY <1>3, <3>1, <4>1
    <3>3. SumOver(f, T \ {y}) = f[c] + SumOver(f, (T \ {y}) \ {c})
      <4>1. c \in T \ {y}
        BY <2>3
      <4> QED
        BY <1>3, <3>1, <4>1
    <3>4. (T \ {c}) \ {y} = (T \ {y}) \ {c}
      OBVIOUS
    <3>5. SumOver(f, (T \ {y}) \ {c}) \in Int
      <4>1. (T \ {y}) \ {c} \in SUBSET S
        OBVIOUS
      <4> QED
        BY <1>1, <4>1, SumDef
    <3>6. f[c] \in Int /\ f[y] \in Int
      OBVIOUS
    <3> DEFINE rest == SumOver(f, (T \ {y}) \ {c})
    <3>7. SumOver(f, T) = f[c] + (f[y] + rest)
      BY <2>1, <3>2, <3>4, Zenon
    <3>8. SumOver(f, T \ {y}) = f[c] + rest
      BY <3>3
    <3> HIDE DEF rest
    <3>9. f[c] + (f[y] + rest) = f[y] + (f[c] + rest)
      BY <3>5, <3>6 DEF rest
    <3> QED
      BY <3>7, <3>8, <3>9, Zenon
  <2> QED
    BY <2>2, <2>3
<1>4. Nat \subseteq Z
  <2> HIDE DEF Z
  <2> QED
    BY <1>2, <1>3, NatSetInduction
<1>5. Cardinality(S) \in Z
  BY <1>1, <1>4
<1> QED
  BY <1>5

(* One item more. *)
LEMMA SumAdd ==
    ASSUME NEW S, IsFiniteSet(S), NEW f, NEW x, x \notin S, \A y \in S \cup {x} : f[y] \in Int
    PROVE  SumOver(f, S \cup {x}) = f[x] + SumOver(f, S)
<1>1. IsFiniteSet(S \cup {x})
  BY FS_AddElement
<1>2. (S \cup {x}) \ {x} = S
  OBVIOUS
<1>3. SumOver(f, S \cup {x}) = f[x] + SumOver(f, (S \cup {x}) \ {x})
  BY <1>1, SumRemove
<1> QED
  BY <1>2, <1>3

(* The sum of an affine function of f. *)
LEMMA SumAffine ==
    ASSUME NEW S, IsFiniteSet(S), NEW f, \A x \in S : f[x] \in Int,
           NEW k \in Int, NEW c \in Int,
           NEW g, \A x \in S : g[x] = k * f[x] + c
    PROVE  SumOver(g, S) = k * SumOver(f, S) + Cardinality(S) * c
<1> DEFINE P == {T \in SUBSET S : SumOver(g, T) = k * SumOver(f, T) + Cardinality(T) * c}
<1>1. \A T \in SUBSET S : IsFiniteSet(T) /\ Cardinality(T) \in Nat
  BY FS_Subset, FS_CardinalityType
<1>2. \A x \in S : g[x] \in Int
  OBVIOUS
<1>3. {} \in P
  <2>1. SumOver(g, {}) = 0 /\ SumOver(f, {}) = 0 /\ Cardinality({}) = 0
    BY FS_EmptySet, SumDef
  <2>2. k * 0 + 0 * c = 0
    OBVIOUS
  <2>3. SumOver(g, {}) = k * SumOver(f, {}) + Cardinality({}) * c
    BY <2>1, <2>2, Zenon
  <2> QED
    BY <2>3
<1>4. ASSUME NEW T \in SUBSET S, NEW x \in S \ T, T \in P PROVE T \cup {x} \in P
  <2>1. SumOver(g, T \cup {x}) = g[x] + SumOver(g, T)
    BY <1>1, <1>2, SumAdd
  <2>2. SumOver(f, T \cup {x}) = f[x] + SumOver(f, T)
    BY <1>1, SumAdd
  <2>3. Cardinality(T \cup {x}) = Cardinality(T) + 1
    BY <1>1, FS_AddElement
  <2>4. SumOver(f, T) \in Int /\ f[x] \in Int /\ Cardinality(T) \in Int
    <3>1. SumOver(f, T) \in Int
      BY <1>1, SumDef
    <3>2. Cardinality(T) \in Int
      BY <1>1
    <3> QED
      BY <3>1, <3>2
  <2>5. \A a, b, n \in Int : (k * a + c) + (k * b + n * c) = k * (a + b) + (n + 1) * c
    OBVIOUS
  <2>6. g[x] = k * f[x] + c /\ SumOver(g, T) = k * SumOver(f, T) + Cardinality(T) * c
    BY <1>4
  <2>7. SumOver(g, T \cup {x})
            = k * SumOver(f, T \cup {x}) + Cardinality(T \cup {x}) * c
    <3>1. SumOver(g, T \cup {x})
              = (k * f[x] + c) + (k * SumOver(f, T) + Cardinality(T) * c)
      BY <2>1, <2>6, Zenon
    <3>2. (k * f[x] + c) + (k * SumOver(f, T) + Cardinality(T) * c)
              = k * (f[x] + SumOver(f, T)) + (Cardinality(T) + 1) * c
      BY <2>4, <2>5, Zenon
    <3> QED
      BY <2>2, <2>3, <3>1, <3>2, Zenon
  <2> QED
    BY <2>7
<1>5. SUBSET S \subseteq P
  <2> HIDE DEF P
  <2> QED
    BY <1>3, <1>4, SubsetInduction
<1> QED
  BY <1>5

(* A sum is monotone, strictly when one item is. *)
LEMMA SumMonotone ==
    ASSUME NEW S, IsFiniteSet(S), NEW f, NEW g,
           \A x \in S : f[x] \in Int /\ g[x] \in Int /\ f[x] <= g[x]
    PROVE  /\ SumOver(f, S) <= SumOver(g, S)
           /\ (\E x \in S : f[x] < g[x]) => SumOver(f, S) < SumOver(g, S)
<1> DEFINE P == {T \in SUBSET S : SumOver(f, T) <= SumOver(g, T)}
<1>1. \A T \in SUBSET S : IsFiniteSet(T)
  BY FS_Subset
<1>2. \A T \in SUBSET S : SumOver(f, T) \in Int /\ SumOver(g, T) \in Int
  BY <1>1, SumDef
<1>3. {} \in P
  BY SumDef, FS_EmptySet
<1>4. ASSUME NEW T \in SUBSET S, NEW x \in S \ T, T \in P PROVE T \cup {x} \in P
  <2>1. SumOver(g, T \cup {x}) = g[x] + SumOver(g, T)
    BY <1>1, SumAdd
  <2>2. SumOver(f, T \cup {x}) = f[x] + SumOver(f, T)
    BY <1>1, SumAdd
  <2> QED
    BY <1>2, <1>4, <2>1, <2>2
<1>5. SUBSET S \subseteq P
  <2> HIDE DEF P
  <2> QED
    BY <1>3, <1>4, SubsetInduction
<1>6. ASSUME NEW x \in S, f[x] < g[x] PROVE SumOver(f, S) < SumOver(g, S)
  <2>1. SumOver(f, S) = f[x] + SumOver(f, S \ {x}) /\ SumOver(g, S) = g[x] + SumOver(g, S \ {x})
    BY SumRemove
  <2>2. S \ {x} \in P /\ S \ {x} \in SUBSET S
    BY <1>5
  <2>3. SumOver(f, S \ {x}) <= SumOver(g, S \ {x})
    BY <2>2
  <2> QED
    BY <1>2, <1>6, <2>1, <2>2, <2>3
<1> QED
  BY <1>5, <1>6

(* Items that are 0 may be left out. *)
LEMMA SumSupport ==
    ASSUME NEW S, IsFiniteSet(S), NEW f, \A x \in S : f[x] \in Int,
           NEW T \in SUBSET S, \A x \in S \ T : f[x] = 0
    PROVE  SumOver(f, S) = SumOver(f, T)
<1> DEFINE P == {U \in SUBSET S : SumOver(f, U) = SumOver(f, U \cap T)}
<1>1. \A U \in SUBSET S : IsFiniteSet(U)
  BY FS_Subset
<1>2. \A U \in SUBSET S : SumOver(f, U) \in Int
  BY <1>1, SumDef
<1>3. {} \in P
  <2>1. {} \cap T = {}
    OBVIOUS
  <2> QED
    BY <2>1
<1>4. ASSUME NEW U \in SUBSET S, NEW x \in S \ U, U \in P PROVE U \cup {x} \in P
  <2>1. SumOver(f, U \cup {x}) = f[x] + SumOver(f, U)
    BY <1>1, SumAdd
  <2>2. CASE x \in T
    <3>1. (U \cup {x}) \cap T = (U \cap T) \cup {x} /\ x \notin U \cap T
      BY <2>2
    <3>2. SumOver(f, (U \cap T) \cup {x}) = f[x] + SumOver(f, U \cap T)
      BY <1>1, <3>1, SumAdd
    <3> QED
      BY <1>4, <2>1, <3>1, <3>2
  <2>3. CASE x \notin T
    <3>1. (U \cup {x}) \cap T = U \cap T
      BY <2>3
    <3>2. f[x] = 0
      BY <2>3
    <3>3. SumOver(f, U \cup {x}) = SumOver(f, U)
      BY <1>2, <2>1, <3>2
    <3> QED
      BY <1>4, <3>1, <3>3
  <2> QED
    BY <2>2, <2>3
<1>5. SUBSET S \subseteq P
  <2> HIDE DEF P
  <2> QED
    BY <1>3, <1>4, SubsetInduction
<1>6. S \cap T = T
  OBVIOUS
<1> QED
  BY <1>5, <1>6

(* The sum of a constant. *)
LEMMA SumConstant ==
    ASSUME NEW S, IsFiniteSet(S), NEW f, NEW c \in Int, \A x \in S : f[x] = c
    PROVE  SumOver(f, S) = Cardinality(S) * c
<1>1. Cardinality(S) \in Int
  BY FS_CardinalityType
<1>2. \A x \in S : f[x] \in Int /\ f[x] = 0 * f[x] + c
  OBVIOUS
<1>3. SumOver(f, S) = 0 * SumOver(f, S) + Cardinality(S) * c
  <2>1. 0 \in Int
    OBVIOUS
  <2> QED
    BY <1>2, <2>1, SumAffine, Zenon
<1>4. SumOver(f, S) \in Int
  BY <1>2, SumDef
<1>5. \A a, b \in Int : 0 * a + b = b
  OBVIOUS
<1>6. Cardinality(S) * c \in Int
  BY <1>1
<1> QED
  BY <1>3, <1>4, <1>5, <1>6, Zenon

(* Whatever has the equation of the sum is the sum. *)
LEMMA SumRecognised ==
    ASSUME NEW S, IsFiniteSet(S), NEW f, \A x \in S : f[x] \in Int, NEW it, IsSum(it, f, S)
    PROVE  it[S] = SumOver(f, S)
<1>1. IsSum(CHOOSE sum : IsSum(sum, f, S), f, S)
  BY Zenon
<1>2. it = CHOOSE sum : IsSum(sum, f, S)
  BY <1>1, SumUnique
<1> QED
  BY <1>2 DEF SumOver

(* Sums of the same items are the same. *)
LEMMA SumSame ==
    ASSUME NEW S, IsFiniteSet(S), NEW f, NEW g,
           \A x \in S : f[x] \in Int /\ f[x] = g[x]
    PROVE  SumOver(f, S) = SumOver(g, S)
<1>1. \A x \in S : f[x] \in Int /\ g[x] \in Int /\ f[x] <= g[x] /\ g[x] <= f[x]
  OBVIOUS
<1>2. SumOver(f, S) <= SumOver(g, S)
  BY <1>1, SumMonotone
<1>3. SumOver(g, S) <= SumOver(f, S)
  BY <1>1, SumMonotone
<1>4. SumOver(f, S) \in Int /\ SumOver(g, S) \in Int
  BY <1>1, SumDef
<1> QED
  BY <1>2, <1>3, <1>4

-----------------------------------------------------------------------------
(* Sums over the first items of a sequence *)

(* f[i] is the sum of the first i items of s, for i up to k. *)
IsPrefixSum(f, s, k) == f = [i \in 0..k |-> IF i = 0 THEN 0 ELSE f[i - 1] + s[i]]

(* A step of the recursion. *)
LEMMA PrefixSumStep ==
    ASSUME NEW k \in Nat, NEW s, NEW f, IsPrefixSum(f, s, k)
    PROVE  /\ f[0] = 0
           /\ \A i \in 0..k : i + 1 \in 0..k => f[i + 1] = f[i] + s[i + 1]
<1>1. \A i \in 0..k : f[i] = IF i = 0 THEN 0 ELSE f[i - 1] + s[i]
  BY DEF IsPrefixSum
<1>2. f[0] = 0
  BY <1>1
<1>3. ASSUME NEW i \in 0..k, i + 1 \in 0..k PROVE f[i + 1] = f[i] + s[i + 1]
  <2>1. i + 1 # 0 /\ (i + 1) - 1 = i
    OBVIOUS
  <2> QED
    BY <1>1, <1>3, <2>1
<1> QED
  BY <1>2, <1>3

(* The prefix sums exist. *)
LEMMA PrefixSumExists ==
    ASSUME NEW k \in Nat, NEW s
    PROVE  \E f : IsPrefixSum(f, s, k)
<1> DEFINE Z == {n \in Nat : \E f : IsPrefixSum(f, s, n)}
<1>1. 0 \in Z
  <2>1. IsPrefixSum([i \in 0..0 |-> 0], s, 0)
    BY DEF IsPrefixSum
  <2> QED
    BY <2>1
<1>2. ASSUME NEW n \in Nat, n \in Z PROVE n + 1 \in Z
  <2>1. PICK f : IsPrefixSum(f, s, n)
    BY <1>2
  <2> DEFINE g == [i \in 0..(n + 1) |-> IF i = 0 THEN 0 ELSE f[i - 1] + s[i]]
  <2>2. \A i \in 0..n : g[i] = f[i]
    BY <2>1 DEF IsPrefixSum
  <2>3. ASSUME NEW i \in 0..(n + 1) PROVE g[i] = IF i = 0 THEN 0 ELSE g[i - 1] + s[i]
    <3>1. CASE i = 0
      BY <3>1
    <3>2. CASE i # 0
      <4>1. i - 1 \in 0..n
        BY <3>2
      <4>2. g[i - 1] = f[i - 1]
        BY <2>2, <4>1
      <4> QED
        BY <3>2, <4>2
    <3> QED
      BY <3>1, <3>2
  <2>4. IsPrefixSum(g, s, n + 1)
    <3>1. g = [i \in 0..(n + 1) |-> g[i]]
      OBVIOUS
    <3> HIDE DEF g
    <3> QED
      BY <2>3, <3>1 DEF IsPrefixSum
  <2> QED
    BY <2>4
<1>3. Nat \subseteq Z
  <2> HIDE DEF Z
  <2> QED
    BY <1>1, <1>2, NatSetInduction
<1> QED
  BY <1>3

(* The prefix sums of natural numbers are natural numbers. *)
LEMMA PrefixSumNat ==
    ASSUME NEW k \in Nat, NEW s, \A i \in 1..k : s[i] \in Nat,
           NEW f, IsPrefixSum(f, s, k)
    PROVE  \A i \in 0..k : f[i] \in Nat
<1> DEFINE Z == {n \in Nat : n \in 0..k => f[n] \in Nat}
<1>1. 0 \in Z
  BY PrefixSumStep
<1>2. ASSUME NEW n \in Nat, n \in Z PROVE n + 1 \in Z
  <2> SUFFICES ASSUME n + 1 \in 0..k PROVE f[n + 1] \in Nat
    OBVIOUS
  <2>1. n \in 0..k /\ n + 1 \in 1..k
    OBVIOUS
  <2>2. f[n + 1] = f[n] + s[n + 1] /\ f[n] \in Nat
    BY <1>2, <2>1, PrefixSumStep
  <2> QED
    BY <2>1, <2>2
<1>3. Nat \subseteq Z
  <2> HIDE DEF Z
  <2> QED
    BY <1>1, <1>2, NatSetInduction
<1> QED
  BY <1>3

-----------------------------------------------------------------------------
(* Recursive functions *)

(* What a recursion over 1..N with a step in Y computes exists. *)
StaysIn(G, N, Y) == \A n \in 1..N : \A y \in Y : G[<<n, y>>] \in Y

(* f is a recursion over 1..N that starts at y0. *)
Recursion(f, y0, G, N) == f[0] = y0 /\ \A n \in 1..N : f[n] = G[<<n, f[n - 1]>>]

(* What a recursion over 1..N with a step in Y computes exists. *)
LEMMA RecursionExists ==
    ASSUME NEW Y, NEW y0 \in Y, NEW N \in Nat, NEW G, StaysIn(G, N, Y)
    PROVE  \E f \in [0..N -> Y] : Recursion(f, y0, G, N)
<1> USE DEF StaysIn, Recursion
<1> DEFINE OK(f, m) == f[0] = y0 /\ \A n \in 1..m : f[n] = G[<<n, f[n - 1]>>]
           Z == {m \in Nat : m <= N => \E f \in [0..m -> Y] : OK(f, m)}
<1>1. 0 \in Z
  <2>1. [i \in 0..0 |-> y0] \in [0..0 -> Y] /\ OK([i \in 0..0 |-> y0], 0)
    OBVIOUS
  <2> QED
    BY <2>1
<1>2. ASSUME NEW m \in Nat, m \in Z PROVE m + 1 \in Z
  <2> SUFFICES ASSUME m + 1 <= N PROVE \E f \in [0..(m + 1) -> Y] : OK(f, m + 1)
    OBVIOUS
  <2>1. PICK f \in [0..m -> Y] : OK(f, m)
    BY <1>2
  <2> DEFINE last == G[<<m + 1, f[m]>>]
             g    == [i \in 0..(m + 1) |-> IF i = m + 1 THEN last ELSE f[i]]
  <2>2. last \in Y
    <3>1. f[m] \in Y /\ m + 1 \in 1..N
      OBVIOUS
    <3> QED
      BY <3>1
  <2>3. g \in [0..(m + 1) -> Y]
    <3> HIDE DEF last
    <3>1. \A i \in 0..(m + 1) : i # m + 1 => i \in 0..m
      OBVIOUS
    <3> QED
      BY <2>2, <3>1
  <2>4. \A i \in 0..m : g[i] = f[i]
    OBVIOUS
  <2>5. g[m + 1] = last
    OBVIOUS
  <2>6. ASSUME NEW n \in 1..(m + 1) PROVE g[n] = G[<<n, g[n - 1]>>]
    <3>1. CASE n = m + 1
      <4>1. n - 1 = m /\ g[m] = f[m]
        BY <3>1, <2>4
      <4> HIDE DEF g
      <4> QED
        BY <2>5, <3>1, <4>1
    <3>2. CASE n # m + 1
      <4>1. n \in 1..m /\ n \in 0..m /\ n - 1 \in 0..m
        BY <3>2
      <4> HIDE DEF g
      <4> QED
        BY <2>1, <2>4, <4>1
    <3> QED
      BY <3>1, <3>2
  <2>7. g[0] = y0
    BY <2>1, <2>4
  <2> HIDE DEF g
  <2> QED
    BY <2>3, <2>6, <2>7
<1>3. Nat \subseteq Z
  <2> HIDE DEF Z
  <2> QED
    BY <1>1, <1>2, NatSetInduction
<1> QED
  BY <1>3


-----------------------------------------------------------------------------
(* Sequences: elements, permutations, insertion *)

Elems(s) == {s[i] : i \in 1..Len(s)}

Distinct(s) == \A i, j \in 1..Len(s) : s[i] = s[j] => i = j

(* p is a permutation of 1..n. *)
Permutes(p, n) ==
    /\ p \in [1..n -> 1..n]
    /\ \A i, j \in 1..n : p[i] = p[j] => i = j
    /\ \A j \in 1..n : \E i \in 1..n : p[i] = j

(* out has the first m items of s, in some order. *)
Arranged(out, s, m) == \E p : Permutes(p, m) /\ \A i \in 1..m : out[i] = s[p[i]]

(* out has the items of s, in some order. *)
Rearranged(out, s) == Len(out) = Len(s) /\ Arranged(out, s, Len(s))

(* r is q with x at p, what was there and behind it a place further. *)
Inserted(r, q, p, x) ==
    \A i \in 1..(Len(q) + 1) : r[i] = IF i < p THEN q[i] ELSE IF i = p THEN x ELSE q[i - 1]

(* InsertAt makes room at its place and keeps the rest in order. *)
LEMMA InsertAtIs ==
    ASSUME NEW S, NEW q \in Seq(S), NEW x \in S, NEW p \in 1..(Len(q) + 1)
    PROVE  /\ InsertAt(q, p, x) \in Seq(S)
           /\ Len(InsertAt(q, p, x)) = Len(q) + 1
           /\ Inserted(InsertAt(q, p, x), q, p, x)
<1> DEFINE r == InsertAt(q, p, x)
<1> DEFINE a == SubSeq(q, 1, p - 1)
           c == SubSeq(q, p, Len(q))
           ab == a \o <<x>>
<1>1. r = ab \o c
  BY DEF InsertAt
<1>2. PICK n \in Nat : n = Len(q)
  OBVIOUS
<1>3. p \in Int /\ 1 <= p /\ p <= n + 1
  BY <1>2
<1>4. \A i \in 1..n : q[i] \in S
  BY <1>2
<1>5. a \in Seq(S) /\ Len(a) = p - 1 /\ \A i \in 1..(p - 1) : a[i] = q[i]
  <2>1. \A i \in 1..(p - 1) : q[i] \in S /\ 1 + i - 1 = i
    BY <1>3, <1>4
  <2>2. p - 1 \in Int /\ 1 \in Int /\ (IF 1 <= p - 1 THEN (p - 1) - 1 + 1 ELSE 0) = p - 1
        /\ (p - 1) - 1 + 1 = p - 1
    BY <1>3
  <2>3. /\ SubSeq(q, 1, p - 1) \in Seq(S)
        /\ Len(SubSeq(q, 1, p - 1)) = IF 1 <= p - 1 THEN (p - 1) - 1 + 1 ELSE 0
        /\ \A i \in 1..((p - 1) - 1 + 1) : SubSeq(q, 1, p - 1)[i] = q[1 + i - 1]
    BY <2>1, <2>2, SubSeqProperties
  <2> QED
    BY <2>1, <2>2, <2>3
<1>6. c \in Seq(S) /\ Len(c) = n - p + 1 /\ \A i \in 1..(n - p + 1) : c[i] = q[p + i - 1]
  <2>1. \A i \in p..n : q[i] \in S
    BY <1>3, <1>4
  <2>2. (IF p <= n THEN n - p + 1 ELSE 0) = n - p + 1
    BY <1>3
  <2>3. /\ SubSeq(q, p, n) \in Seq(S)
        /\ Len(SubSeq(q, p, n)) = IF p <= n THEN n - p + 1 ELSE 0
        /\ \A i \in 1..(n - p + 1) : SubSeq(q, p, n)[i] = q[p + i - 1]
    BY <1>3, <2>1, SubSeqProperties
  <2> QED
    BY <1>2, <2>2, <2>3
<1>7. <<x>> \in Seq(S) /\ Len(<<x>>) = 1 /\ <<x>>[1] = x
  OBVIOUS
<1> HIDE DEF a, c
<1>8. /\ ab \in Seq(S) /\ Len(ab) = p
      /\ \A i \in 1..p : ab[i] = IF i <= p - 1 THEN a[i] ELSE x
  <2>1. /\ ab \in Seq(S) /\ Len(ab) = Len(a) + Len(<<x>>)
        /\ \A i \in 1..(Len(a) + Len(<<x>>)) :
              ab[i] = IF i <= Len(a) THEN a[i] ELSE <<x>>[i - Len(a)]
    BY <1>5, <1>7, ConcatProperties
  <2>2. Len(a) + Len(<<x>>) = p
    BY <1>3, <1>5, <1>7
  <2> HIDE DEF ab
  <2>3. ASSUME NEW i \in 1..p PROVE ab[i] = IF i <= p - 1 THEN a[i] ELSE x
    <3>1. i > p - 1 => i - Len(a) = 1
      BY <1>3, <1>5
    <3> QED
      BY <1>5, <1>7, <2>1, <2>2, <3>1
  <2> QED
    BY <2>1, <2>2, <2>3
<1> HIDE DEF ab, r
<1>9. /\ r \in Seq(S) /\ Len(r) = n + 1
      /\ \A i \in 1..(n + 1) : r[i] = IF i <= p THEN ab[i] ELSE c[i - p]
  <2>1. /\ ab \o c \in Seq(S) /\ Len(ab \o c) = Len(ab) + Len(c)
        /\ \A i \in 1..(Len(ab) + Len(c)) :
              (ab \o c)[i] = IF i <= Len(ab) THEN ab[i] ELSE c[i - Len(ab)]
    BY <1>6, <1>8, ConcatProperties
  <2>2. Len(ab) + Len(c) = n + 1
    BY <1>3, <1>6, <1>8
  <2> QED
    BY <1>1, <1>8, <2>1, <2>2
<1>10. ASSUME NEW i \in 1..(n + 1)
       PROVE  r[i] = IF i < p THEN q[i] ELSE IF i = p THEN x ELSE q[i - 1]
  <2>1. CASE i < p
    <3>1. i \in 1..(p - 1) /\ i \in 1..p
      BY <1>3, <2>1
    <3> QED
      BY <1>5, <1>8, <1>9, <2>1, <3>1
  <2>2. CASE i = p
    <3>1. i \in 1..p /\ ~(i <= p - 1) /\ i <= p
      BY <1>3, <2>2
    <3> QED
      BY <1>8, <1>9, <2>2, <3>1
  <2>3. CASE i > p
    <3>1. /\ ~(i <= p) /\ ~(i < p) /\ i # p
          /\ i - p \in 1..(n - p + 1) /\ p + (i - p) - 1 = i - 1
      BY <1>3, <2>3
    <3> QED
      BY <1>6, <1>9, <3>1
  <2> QED
    BY <1>3, <2>1, <2>2, <2>3
<1>11. Inserted(r, q, p, x)
  BY <1>2, <1>10 DEF Inserted
<1> QED
  BY <1>2, <1>9, <1>11 DEF r

(* rho is pi with m + 1 at p. *)
MadeRoom(rho, pi, m, p) ==
    /\ rho = [i \in 1..(m + 1) |-> rho[i]]
    /\ \A i \in 1..(m + 1) :
          /\ i < p => i \in 1..m /\ rho[i] = pi[i]
          /\ i = p => rho[i] = m + 1
          /\ i > p => i - 1 \in 1..m /\ rho[i] = pi[i - 1]

(* A permutation with one number more is a permutation. *)
LEMMA MakingRoom ==
    ASSUME NEW m \in Nat, NEW pi, NEW p \in 1..(m + 1), NEW rho,
           Permutes(pi, m), MadeRoom(rho, pi, m, p)
    PROVE  Permutes(rho, m + 1)
<1>0. /\ \A i \in 1..m : pi[i] \in 1..m
      /\ \A i, j \in 1..m : pi[i] = pi[j] => i = j
      /\ \A j \in 1..m : \E i \in 1..m : pi[i] = j
      /\ p \in Int /\ 1 <= p /\ p <= m + 1
      /\ \A i \in 1..(m + 1) :
            /\ i < p => i \in 1..m /\ pi[i] \in 1..m /\ rho[i] = pi[i]
            /\ i = p => rho[i] = m + 1
            /\ i > p => i - 1 \in 1..m /\ pi[i - 1] \in 1..m /\ rho[i] = pi[i - 1]
  <2>1. /\ \A i \in 1..m : pi[i] \in 1..m
        /\ \A i, j \in 1..m : pi[i] = pi[j] => i = j
        /\ \A j \in 1..m : \E i \in 1..m : pi[i] = j
    BY DEF Permutes
  <2>2. \A i \in 1..(m + 1) :
            /\ i < p => i \in 1..m /\ rho[i] = pi[i]
            /\ i = p => rho[i] = m + 1
            /\ i > p => i - 1 \in 1..m /\ rho[i] = pi[i - 1]
    BY Zenon DEF MadeRoom
  <2> QED
    BY <2>1, <2>2
<1> USE <1>0
<1>1. \A x \in 1..m : x \in 1..(m + 1) /\ x # m + 1
  OBVIOUS
<1>2. m + 1 \in 1..(m + 1) /\ p \in 1..(m + 1)
  OBVIOUS
<1>3. \A i \in 1..(m + 1) : i < p \/ i = p \/ i > p
  OBVIOUS
<1>4. ASSUME NEW i \in 1..(m + 1) PROVE rho[i] \in 1..(m + 1)
  BY <1>1, <1>2, <1>3, Zenon
<1>5. ASSUME NEW i \in 1..(m + 1), NEW j \in 1..(m + 1), rho[i] = rho[j] PROVE i = j
  <2>1. i \in Int /\ j \in Int
    OBVIOUS
  <2>2. CASE i = p
    <3>1. rho[i] = m + 1
      BY <2>2
    <3>2. ~(j < p) /\ ~(j > p)
      BY <1>1, <1>5, <3>1, Zenon
    <3> QED
      BY <1>3, <2>2, <3>2, Zenon
  <2>3. CASE j = p
    <3>1. rho[j] = m + 1
      BY <2>3
    <3>2. ~(i < p) /\ ~(i > p)
      BY <1>1, <1>5, <3>1, Zenon
    <3> QED
      BY <1>3, <2>3, <3>2, Zenon
  <2>4. CASE i < p /\ j < p
    BY <1>5, <2>4, Zenon
  <2>8. PICK a : a = i - 1
    OBVIOUS
  <2>9. PICK b : b = j - 1
    OBVIOUS
  <2>10. i > p => a \in 1..m /\ rho[i] = pi[a]
    BY <2>8
  <2>11. j > p => b \in 1..m /\ rho[j] = pi[b]
    BY <2>9
  <2>12. i < p => i \in 1..m /\ rho[i] = pi[i]
    OBVIOUS
  <2>13. j < p => j \in 1..m /\ rho[j] = pi[j]
    OBVIOUS
  <2>5. CASE i > p /\ j > p
    <3>1. a = b
      <4>1. a \in 1..m /\ b \in 1..m /\ pi[a] = pi[b]
        BY <1>5, <2>5, <2>10, <2>11
      <4> QED
        BY <4>1
    <3> QED
      BY <2>1, <2>8, <2>9, <3>1
  <2>6. CASE i < p /\ j > p
    <3>1. i = b
      <4>1. i \in 1..m /\ b \in 1..m /\ pi[i] = pi[b]
        BY <1>5, <2>6, <2>11, <2>12
      <4> QED
        BY <4>1
    <3> QED
      BY <2>1, <2>6, <2>9, <3>1
  <2>7. CASE i > p /\ j < p
    <3>1. a = j
      <4>1. a \in 1..m /\ j \in 1..m /\ pi[a] = pi[j]
        BY <1>5, <2>7, <2>10, <2>13
      <4> QED
        BY <4>1
    <3> QED
      BY <2>1, <2>7, <2>8, <3>1
  <2> QED
    BY <1>3, <2>2, <2>3, <2>4, <2>5, <2>6, <2>7, Zenon
<1>6. ASSUME NEW j \in 1..(m + 1) PROVE \E i \in 1..(m + 1) : rho[i] = j
  <2>1. CASE j = m + 1
    BY <1>2, <2>1, Zenon
  <2>2. CASE j # m + 1
    <3>1. j \in 1..m
      BY <2>2
    <3>2. PICK i \in 1..m : pi[i] = j
      BY <3>1
    <3>3. i \in 1..(m + 1) /\ i + 1 \in 1..(m + 1) /\ (i + 1) - 1 = i
      OBVIOUS
    <3>4. CASE i < p
      BY <3>2, <3>3, <3>4, Zenon
    <3>5. CASE ~(i < p)
      <4>1. PICK i1 \in 1..(m + 1) : i1 = i + 1
        BY <3>3
      <4>2. i1 > p /\ i1 - 1 = i
        BY <3>5, <4>1
      <4>3. rho[i1] = pi[i1 - 1]
        BY <4>2
      <4>4. rho[i1] = j
        BY <3>2, <4>2, <4>3
      <4> QED
        BY <4>4
    <3> QED
      BY <3>4, <3>5
  <2> QED
    BY <2>1, <2>2
<1>7. rho \in [1..(m + 1) -> 1..(m + 1)]
  <2>1. rho = [i \in 1..(m + 1) |-> rho[i]]
    BY Zenon DEF MadeRoom
  <2> QED
    BY <1>4, <2>1, Zenon
<1> QED
  BY <1>5, <1>6, <1>7, Zenon DEF Permutes

(* One item more, inserted somewhere. *)
LEMMA InsertionRearranges ==
    ASSUME NEW S, NEW s, NEW m \in Nat, s[m + 1] \in S,
           NEW q \in Seq(S), Len(q) = m, Arranged(q, s, m),
           NEW p \in 1..(m + 1)
    PROVE  /\ InsertAt(q, p, s[m + 1]) \in Seq(S)
           /\ Len(InsertAt(q, p, s[m + 1])) = m + 1
           /\ Arranged(InsertAt(q, p, s[m + 1]), s, m + 1)
<1>0. PICK pi : Permutes(pi, m) /\ \A i \in 1..m : q[i] = s[pi[i]]
  BY DEF Arranged
<1> DEFINE rho == [i \in 1..(m + 1) |->
                      IF i < p THEN pi[i] ELSE IF i = p THEN m + 1 ELSE pi[i - 1]]
           x == s[m + 1]
           r == InsertAt(q, p, x)
<1>1. ASSUME NEW i \in 1..(m + 1)
      PROVE  /\ i < p => i \in 1..m /\ rho[i] = pi[i]
             /\ i = p => rho[i] = m + 1
             /\ i > p => i - 1 \in 1..m /\ rho[i] = pi[i - 1]
  <2>1. rho[i] = IF i < p THEN pi[i] ELSE IF i = p THEN m + 1 ELSE pi[i - 1]
    OBVIOUS
  <2>2. i < p => i \in 1..m
    OBVIOUS
  <2>3. i > p => i - 1 \in 1..m
    OBVIOUS
  <2>4. i > p => ~(i < p) /\ i # p
    OBVIOUS
  <2>5. i = p => ~(i < p)
    OBVIOUS
  <2> HIDE DEF rho
  <2> QED
    BY <2>1, <2>2, <2>3, <2>4, <2>5, Zenon
<1>2. rho = [i \in 1..(m + 1) |-> rho[i]]
  OBVIOUS
<1> HIDE DEF rho, x, r
<1>3. Permutes(rho, m + 1)
  <2>1. MadeRoom(rho, pi, m, p)
    BY <1>1, <1>2, Zenon DEF MadeRoom
  <2> QED
    BY <1>0, <2>1, MakingRoom
<1>4. r \in Seq(S) /\ Len(r) = Len(q) + 1 /\ Inserted(r, q, p, x)
  <2>1. x \in S
    BY DEF x
  <2>2. p \in 1..(Len(q) + 1)
    OBVIOUS
  <2> QED
    BY <2>1, <2>2, InsertAtIs DEF r
<1>5. ASSUME NEW i \in 1..(m + 1) PROVE r[i] = s[rho[i]]
  <2>1. r[i] = IF i < p THEN q[i] ELSE IF i = p THEN x ELSE q[i - 1]
    BY <1>4 DEF Inserted
  <2>2. i > p => ~(i < p) /\ i # p
    OBVIOUS
  <2>3. i = p => ~(i < p)
    OBVIOUS
  <2>4. i < p \/ i = p \/ i > p
    OBVIOUS
  <2> QED
    BY <1>0, <1>1, <2>1, <2>2, <2>3, <2>4, Zenon DEF x
<1>6. Len(r) = m + 1
  BY <1>4
<1>7. Arranged(r, s, m + 1)
  BY <1>3, <1>5, Zenon DEF Arranged
<1> QED
  BY <1>4, <1>6, <1>7 DEF r, x

(* Rearranging keeps the elements, and whether they are distinct. *)
LEMMA RearrangedElems ==
    ASSUME NEW S, NEW s \in Seq(S), NEW out, Rearranged(out, s)
    PROVE  Elems(out) = Elems(s) /\ (Distinct(s) => Distinct(out))
<1>1. PICK p : /\ Permutes(p, Len(s))
               /\ \A i \in 1..Len(s) : out[i] = s[p[i]]
  BY DEF Rearranged, Arranged
<1>2. Len(out) = Len(s)
  BY DEF Rearranged
<1>3. \A i \in 1..Len(s) : p[i] \in 1..Len(s)
  BY <1>1 DEF Permutes
<1>4. Elems(out) = Elems(s)
  <2>1. ASSUME NEW x \in Elems(out) PROVE x \in Elems(s)
    BY <1>1, <1>2, <1>3 DEF Elems
  <2>2. ASSUME NEW x \in Elems(s) PROVE x \in Elems(out)
    <3>1. PICK j \in 1..Len(s) : x = s[j]
      BY DEF Elems
    <3>2. PICK i \in 1..Len(s) : p[i] = j
      BY <1>1 DEF Permutes
    <3> QED
      BY <1>1, <1>2, <3>1, <3>2 DEF Elems
  <2> QED
    BY <2>1, <2>2
<1>5. ASSUME Distinct(s) PROVE Distinct(out)
  <2> SUFFICES ASSUME NEW i \in 1..Len(s), NEW j \in 1..Len(s), out[i] = out[j] PROVE i = j
    BY <1>2 DEF Distinct
  <2>1. s[p[i]] = s[p[j]]
    BY <1>1
  <2>2. p[i] = p[j]
    BY <1>3, <1>5, <2>1 DEF Distinct
  <2> QED
    BY <1>1, <2>2 DEF Permutes
<1> QED
  BY <1>4, <1>5

(* The number of places an item passes is bounded by the sequence. *)
LEMMA PlaceBound ==
    ASSUME NEW n \in Nat, NEW T, T \subseteq 1..n
    PROVE  1 + Cardinality(T) \in 1..(n + 1)
<1>1. IsFiniteSet(1..n) /\ Cardinality(1..n) = n
  <2>1. 1 \in Int /\ n \in Int /\ 1 <= n + 1
    OBVIOUS
  <2>2. IsFiniteSet(1..n) /\ Cardinality(1..n) = IF 1 > n THEN 0 ELSE n - 1 + 1
    BY <2>1, FS_Interval
  <2>3. (IF 1 > n THEN 0 ELSE n - 1 + 1) = n
    OBVIOUS
  <2> QED
    BY <2>2, <2>3
<1>2. IsFiniteSet(T) /\ Cardinality(T) <= Cardinality(1..n)
  BY <1>1, FS_Subset
<1>3. Cardinality(T) \in Nat
  BY <1>2, FS_CardinalityType
<1> QED
  BY <1>1, <1>2, <1>3

(* f is how Sorted goes through s, place being where it inserts. *)
Insertion(f, s, place, S) ==
    /\ f[0] = <<>>
    /\ \A n \in 1..Len(s) :
          f[n - 1] \in Seq(S) => f[n] = InsertAt(f[n - 1], place[<<n, f[n - 1]>>], s[n])

Placed(place, s, S) ==
    \A n \in 1..Len(s) : \A x \in Seq(S) : place[<<n, x>>] \in 1..(Len(x) + 1)

(* Inserting the items of s one after the other gives them back in some *)
(* order, after every step.                                             *)
LEMMA InsertionSteps ==
    ASSUME NEW S, NEW s \in Seq(S), NEW place, Placed(place, s, S),
           NEW f, Insertion(f, s, place, S)
    PROVE  /\ f[Len(s)] \in Seq(S) /\ Rearranged(f[Len(s)], s)
           /\ \A n \in 0..Len(s) : f[n] \in Seq(S) /\ Len(f[n]) = n /\ Arranged(f[n], s, n)
<1> DEFINE OK(n) == f[n] \in Seq(S) /\ Len(f[n]) = n /\ Arranged(f[n], s, n)
           Z == {n \in Nat : n <= Len(s) => OK(n)}
<1>1. 0 \in Z
  <2>1. [i \in 1..0 |-> i] \in [1..0 -> 1..0]
    OBVIOUS
  <2>2. \A i \in 1..0 : FALSE
    OBVIOUS
  <2>3. Permutes([i \in 1..0 |-> i], 0)
    BY <2>1, <2>2 DEF Permutes
  <2>4. <<>> \in Seq(S) /\ Len(<<>>) = 0
    OBVIOUS
  <2>5. OK(0)
    BY <2>2, <2>3, <2>4, Zenon DEF Arranged, Insertion
  <2> HIDE DEF OK
  <2> QED
    BY <2>5
<1>2. ASSUME NEW m \in Nat, m \in Z PROVE m + 1 \in Z
  <2> SUFFICES ASSUME m + 1 <= Len(s) PROVE OK(m + 1)
    OBVIOUS
  <2>1. Len(s) \in Nat /\ m + 1 \in 1..Len(s) /\ (m + 1) - 1 = m /\ m <= Len(s)
    OBVIOUS
  <2>2. OK(m)
    BY <1>2, <2>1
  <2>3. s[m + 1] \in S
    BY <2>1
  <2>4. PICK p \in 1..(m + 1) : p = place[<<m + 1, f[m]>>]
    BY <2>1, <2>2 DEF Placed
  <2>5. f[m + 1] = InsertAt(f[m], p, s[m + 1])
    BY <2>1, <2>2, <2>4 DEF Insertion
  <2> QED
    BY <2>2, <2>3, <2>5, InsertionRearranges
<1>3. Nat \subseteq Z
  <2> HIDE DEF Z
  <2> QED
    BY <1>1, <1>2, NatSetInduction
<1>4. Len(s) \in Nat /\ Len(s) \in 0..Len(s) /\ \A n \in 0..Len(s) : n \in Nat /\ n <= Len(s)
  OBVIOUS
<1>5. \A n \in 0..Len(s) : OK(n)
  BY <1>3, <1>4
<1>6. OK(Len(s))
  BY <1>4, <1>5
<1> QED
  BY <1>5, <1>6, Zenon DEF Rearranged

(* A recursion that inserts the items of s one after the other exists. *)
LEMMA InsertionExists ==
    ASSUME NEW S, NEW s \in Seq(S), NEW place, Placed(place, s, S)
    PROVE  \E f \in [0..Len(s) -> Seq(S)] : Insertion(f, s, place, S)
<1> DEFINE G == [p \in (1..Len(s)) \X Seq(S) |-> InsertAt(p[2], place[p], s[p[1]])]
<1>1. Len(s) \in Nat /\ <<>> \in Seq(S)
  OBVIOUS
<1>2. ASSUME NEW n \in 1..Len(s), NEW x \in Seq(S)
      PROVE  G[<<n, x>>] = InsertAt(x, place[<<n, x>>], s[n]) /\ G[<<n, x>>] \in Seq(S)
  <2>1. G[<<n, x>>] = InsertAt(x, place[<<n, x>>], s[n])
    OBVIOUS
  <2>2. s[n] \in S /\ place[<<n, x>>] \in 1..(Len(x) + 1)
    BY DEF Placed
  <2> HIDE DEF G
  <2> QED
    BY <2>1, <2>2, InsertAtIs
<1> HIDE DEF G
<1>3. StaysIn(G, Len(s), Seq(S))
  BY <1>2 DEF StaysIn
<1>4. PICK f \in [0..Len(s) -> Seq(S)] : Recursion(f, <<>>, G, Len(s))
  BY <1>1, <1>3, RecursionExists
<1>5. ASSUME NEW n \in 1..Len(s)
      PROVE  f[n] = InsertAt(f[n - 1], place[<<n, f[n - 1]>>], s[n])
  <2>1. f[n - 1] \in Seq(S)
    OBVIOUS
  <2> QED
    BY <1>2, <1>4, <2>1 DEF Recursion
<1> QED
  BY <1>4, <1>5 DEF Recursion, Insertion

(* A function of 1..n is a sequence. *)
LEMMA FunctionIsSeq ==
    ASSUME NEW Q, NEW n \in Nat, NEW m \in [1..n -> Q]
    PROVE  m \in Seq(Q) /\ Len(m) = n
OBVIOUS

(* Two sequences, one after the other *)
LEMMA ConcatElems ==
    ASSUME NEW S, NEW x \in Seq(S), NEW y \in Seq(S)
    PROVE  /\ x \o y \in Seq(S) /\ Len(x \o y) = Len(x) + Len(y)
           /\ Elems(x \o y) = Elems(x) \cup Elems(y)
           /\ Distinct(x) /\ Distinct(y) /\ Elems(x) \cap Elems(y) = {} => Distinct(x \o y)
<1> DEFINE z == x \o y
<1>1. PICK n \in Nat : n = Len(x)
  OBVIOUS
<1>2. PICK l \in Nat : l = Len(y)
  OBVIOUS
<1>3. /\ z \in Seq(S) /\ Len(z) = n + l
      /\ \A i \in 1..(n + l) : z[i] = IF i <= n THEN x[i] ELSE y[i - n]
  BY <1>1, <1>2, ConcatProperties
<1> HIDE DEF z
<1>4. \A i \in 1..(n + l) : \/ i \in 1..n /\ z[i] = x[i]
                            \/ i - n \in 1..l /\ z[i] = y[i - n]
  BY <1>3
<1>5. \A i \in 1..n : i \in 1..(n + l) /\ z[i] = x[i]
  BY <1>3
<1>6. ASSUME NEW i \in 1..l PROVE i + n \in 1..(n + l) /\ z[i + n] = y[i]
  <2>1. i + n \in 1..(n + l) /\ ~(i + n <= n) /\ (i + n) - n = i
    OBVIOUS
  <2> QED
    BY <1>3, <2>1
<1>7. Elems(z) = Elems(x) \cup Elems(y)
  <2>1. ASSUME NEW r \in Elems(z) PROVE r \in Elems(x) \cup Elems(y)
    <3>1. PICK i \in 1..(n + l) : z[i] = r
      BY <1>3, <2>1 DEF Elems
    <3> QED
      BY <1>1, <1>2, <1>4, <3>1 DEF Elems
  <2>2. Elems(x) \subseteq Elems(z)
    BY <1>1, <1>3, <1>5 DEF Elems
  <2>3. ASSUME NEW r \in Elems(y) PROVE r \in Elems(z)
    <3>1. PICK i \in 1..l : y[i] = r
      BY <1>2, <2>3 DEF Elems
    <3> QED
      BY <1>3, <1>6, <3>1 DEF Elems
  <2> QED
    BY <2>1, <2>2, <2>3
<1>8. ASSUME Distinct(x), Distinct(y), Elems(x) \cap Elems(y) = {} PROVE Distinct(z)
  <2>1. \A i, j \in 1..n : x[i] = x[j] => i = j
    BY <1>1, <1>8 DEF Distinct
  <2>2. \A i, j \in 1..l : y[i] = y[j] => i = j
    BY <1>2, <1>8 DEF Distinct
  <2>3. \A i \in 1..n, j \in 1..l : x[i] # y[j]
    BY <1>1, <1>2, <1>8 DEF Elems
  <2>4. ASSUME NEW i \in 1..(n + l), NEW j \in 1..(n + l), z[i] = z[j] PROVE i = j
    <3>1. CASE i \in 1..n /\ z[i] = x[i]
      <4>1. j \in 1..n /\ z[j] = x[j]
        BY <1>4, <2>3, <2>4, <3>1
      <4> QED
        BY <2>1, <2>4, <3>1, <4>1
    <3>2. CASE i - n \in 1..l /\ z[i] = y[i - n]
      <4>1. j - n \in 1..l /\ z[j] = y[j - n]
        BY <1>4, <2>3, <2>4, <3>2
      <4>2. i - n = j - n
        BY <2>2, <2>4, <3>2, <4>1
      <4> QED
        BY <4>2
    <3> QED
      BY <1>4, <3>1, <3>2
  <2> QED
    BY <1>3, <2>4 DEF Distinct
<1> QED
  BY <1>1, <1>2, <1>3, <1>7, <1>8 DEF z


-----------------------------------------------------------------------------
(* Finite sets *)

(* R is a total order of S, given as the set of its pairs. *)
Orders(R, S) ==
    /\ \A a, b \in S : a # b => <<a, b>> \in R \/ <<b, a>> \in R
    /\ \A a, b, c \in S : <<a, b>> \in R /\ <<b, c>> \in R => <<a, c>> \in R

(* A finite set with a total order has a first element. *)
LEMMA FirstExists ==
    ASSUME NEW S, IsFiniteSet(S), S # {}, NEW R, Orders(R, S)
    PROVE  \E a \in S : \A b \in S \ {a} : <<a, b>> \in R
<1> USE DEF Orders
<1> DEFINE P == {T \in SUBSET S : T # {} => \E a \in T : \A b \in T \ {a} : <<a, b>> \in R}
<1>1. {} \in P
  OBVIOUS
<1>2. ASSUME NEW T \in SUBSET S, NEW x \in S \ T, T \in P PROVE T \cup {x} \in P
  <2>1. CASE T = {}
    BY <2>1
  <2>2. CASE T # {}
    <3>1. PICK a \in T : \A b \in T \ {a} : <<a, b>> \in R
      BY <1>2, <2>2
    <3>2. CASE <<a, x>> \in R
      <4>1. \A b \in (T \cup {x}) \ {a} : <<a, b>> \in R
        BY <3>1, <3>2
      <4> QED
        BY <4>1
    <3>3. CASE <<x, a>> \in R
      <4>1. ASSUME NEW b \in (T \cup {x}) \ {x} PROVE <<x, b>> \in R
        <5>1. CASE b = a
          BY <3>3, <5>1
        <5>2. CASE b # a
          <6>1. <<a, b>> \in R /\ a \in S /\ b \in S /\ x \in S
            BY <3>1, <4>1, <5>2
          <6> QED
            BY <3>3, <6>1
        <5> QED
          BY <5>1, <5>2
      <4> QED
        BY <4>1
    <3>4. a # x /\ a \in S /\ x \in S
      BY <3>1
    <3> QED
      BY <3>2, <3>3, <3>4
  <2> QED
    BY <2>1, <2>2
<1>3. SUBSET S \subseteq P
  <2> HIDE DEF P
  <2> QED
    BY <1>1, <1>2, SubsetInduction
<1>4. S \in P
  BY <1>3
<1> QED
  BY <1>4

(* What a finite set is mapped to is finite. *)
LEMMA ImageFinite ==
    ASSUME NEW S, IsFiniteSet(S), NEW f
    PROVE  IsFiniteSet({f[x] : x \in S})
<1> DEFINE T == {f[x] : x \in S}
           g == [x \in S |-> f[x]]
<1>1. g \in Surjection(S, T)
  BY DEF Surjection
<1> QED
  BY <1>1, FS_Surjection


-----------------------------------------------------------------------------
(* Blocks of k numbers *)

(* Division *)
LEMMA DivMod ==
    ASSUME NEW a \in Nat, NEW k \in Nat, k > 0
    PROVE  a = ((a \div k) * k) + (a % k) /\ (a % k) \in 0..(k - 1) /\ (a \div k) \in Nat
OBVIOUS

(* A number is in one block of k, at one place. *)
LEMMA BlockUnique ==
    ASSUME NEW g \in Int, NEW h \in Int, NEW k \in Nat, k > 0,
           NEW e \in 1..k, NEW f \in 1..k, g * k + e = h * k + f
    PROVE  g = h /\ e = f
<1>1. (g - h) * k = f - e
  OBVIOUS
<1>2. \A x \in Int : x >= 1 => x * k >= k
  OBVIOUS
<1>3. \A x \in Int : x <= -1 => x * k <= -k
  OBVIOUS
<1>4. g - h = 0
  BY <1>1, <1>2, <1>3
<1> QED
  BY <1>4

(* The numbers of the first m blocks of k are those up to m * k. *)
LEMMA BlockIn ==
    ASSUME NEW m \in Nat, NEW k \in Nat, k > 0, NEW g \in 0..(m - 1), NEW e \in 1..k
    PROVE  g * k + e \in 1..(m * k)
<1>1. \A x \in Nat : x * k >= 0 /\ x * k \in Int
  OBVIOUS
<1>2. (m - 1 - g) * k = m * k - k - g * k /\ m - 1 - g \in Nat
  OBVIOUS
<1>3. g * k >= 0 /\ g * k \in Int /\ m * k \in Int /\ m * k - k - g * k >= 0
  BY <1>1, <1>2
<1> QED
  BY <1>3

(* The e-th of block g is number j. *)
IsAt(j, g, e, k) == j = g * k + e

(* Each of them is in a block. *)
LEMMA BlockOf ==
    ASSUME NEW m \in Nat, NEW k \in Nat, k > 0, NEW j \in 1..(m * k)
    PROVE  \E g \in 0..(m - 1) : \E e \in 1..k : IsAt(j, g, e, k)
<1> DEFINE g == (j - 1) \div k
           e == ((j - 1) % k) + 1
<1>1. j - 1 \in Nat /\ m * k \in Int
  OBVIOUS
<1>2. j - 1 = (g * k) + (e - 1) /\ e \in 1..k /\ g \in Nat
  BY <1>1, DivMod
<1> HIDE DEF g, e
<1>3. g * k + e <= m * k /\ j = g * k + e
  BY <1>1, <1>2
<1>4. g < m
  <2> SUFFICES ASSUME g >= m PROVE FALSE
    BY <1>2
  <2>1. (g - m) * k = g * k - m * k /\ g - m \in Nat
    BY <1>2
  <2>2. (g - m) * k >= 0
    BY <2>1
  <2> QED
    BY <1>1, <1>2, <1>3, <2>1, <2>2
<1>5. IsAt(j, g, e, k)
  BY <1>3 DEF IsAt
<1>6. g \in 0..(m - 1)
  BY <1>2, <1>4
<1> QED
  BY <1>2, <1>5, <1>6


-----------------------------------------------------------------------------
(* Flattening *)

(* What FlattenSeq has put together of the first sequences *)
IsFlatten(f, s) == f = [i \in 1..Len(s) |-> IF i = 1 THEN s[i] ELSE f[i - 1] \o s[i]]

Flattens(f, s, S) ==
    /\ f \in [0..Len(s) -> Seq(S)]
    /\ f[0] = <<>>
    /\ \A i \in 1..Len(s) : f[i] = f[i - 1] \o s[i]

(* FlattenSeq is the recursion it is defined by, and it exists. *)
LEMMA FlattenIs ==
    ASSUME NEW S, NEW s \in Seq(Seq(S))
    PROVE  \E f : Flattens(f, s, S) /\ FlattenSeq(s) = f[Len(s)]
<1> DEFINE Q == Seq(S)
           N == Len(s)
           G == [p \in (1..N) \X Q |-> p[2] \o s[p[1]]]
<1>1. N \in Nat /\ \A i \in 1..N : s[i] \in Q
  <2>1. s \in Seq(Q)
    OBVIOUS
  <2> HIDE DEF Q
  <2> QED
    BY <2>1
<1>2. \A x, y \in Q : x \o y \in Q
  OBVIOUS
<1>3. <<>> \in Q
  OBVIOUS
<1>9. \A x \in Q : <<>> \o x = x
  OBVIOUS
<1>10. N = 0 => s = <<>>
  OBVIOUS
<1> HIDE DEF Q
<1>4. \A i \in 1..N, y \in Q : G[<<i, y>>] = y \o s[i]
  OBVIOUS
<1> HIDE DEF G
<1>5. StaysIn(G, N, Q)
  BY <1>1, <1>2, <1>4 DEF StaysIn
<1> HIDE DEF N
<1>6. PICK f \in [0..N -> Q] : Recursion(f, <<>>, G, N)
  BY <1>1, <1>3, <1>5, RecursionExists
<1>7. ASSUME NEW i \in 1..N PROVE f[i] = f[i - 1] \o s[i] /\ f[i - 1] \in Q
  <2>1. i - 1 \in 0..N
    BY <1>1
  <2>2. f[i - 1] \in Q
    BY <2>1
  <2> QED
    BY <1>4, <1>6, <2>2 DEF Recursion
<1>8. f[0] = <<>>
  BY <1>6 DEF Recursion
<1>11. Flattens(f, s, S)
  BY <1>6, <1>7, <1>8 DEF Flattens, N, Q
<1>12. CASE N = 0
  <2>1. FlattenSeq(s) = s
    BY <1>12 DEF FlattenSeq, N
  <2>2. s = <<>> /\ f[N] = <<>>
    BY <1>8, <1>10, <1>12
  <2> QED
    BY <1>11, <2>1, <2>2 DEF N
<1>13. CASE N # 0
  <2> DEFINE flatten == CHOOSE g : IsFlatten(g, s)
             h == [i \in 1..N |-> f[i]]
  <2>1. FlattenSeq(s) = flatten[N]
    BY <1>13, Zenon DEF FlattenSeq, IsFlatten, N
  <2>2. IsFlatten(h, s)
    <3>1. ASSUME NEW i \in 1..N PROVE h[i] = IF i = 1 THEN s[i] ELSE h[i - 1] \o s[i]
      <4>1. CASE i = 1
        <5>1. f[1] = f[1 - 1] \o s[1] /\ s[1] \in Q
          BY <1>1, <1>7, <4>1
        <5>2. f[1 - 1] = <<>>
          BY <1>8
        <5>3. f[1] = s[1]
          BY <1>9, <5>1, <5>2
        <5> QED
          BY <4>1, <5>3
      <4>2. CASE i # 1
        <5>1. i - 1 \in 1..N
          BY <1>1, <4>2
        <5> QED
          BY <1>7, <4>2, <5>1
      <4> QED
        BY <4>1, <4>2
    <3>2. h = [i \in 1..N |-> h[i]]
      OBVIOUS
    <3> HIDE DEF h
    <3>3. h = [i \in 1..N |-> IF i = 1 THEN s[i] ELSE h[i - 1] \o s[i]]
      BY <3>1, <3>2, Zenon
    <3> QED
      BY <3>3, Zenon DEF IsFlatten, N
  <2>3. IsFlatten(flatten, s)
    BY <2>2, Zenon
  <2> HIDE DEF flatten, h
  <2>4. \A i \in 1..N : flatten[i] = IF i = 1 THEN s[i] ELSE flatten[i - 1] \o s[i]
    <3>1. flatten = [i \in 1..N |-> IF i = 1 THEN s[i] ELSE flatten[i - 1] \o s[i]]
      BY <2>3, Zenon DEF IsFlatten, N
    <3> QED
      BY <3>1, Zenon
  <2> DEFINE Z == {n \in Nat : n + 1 <= N => flatten[n + 1] = f[n + 1]}
  <2>5. 0 \in Z
    <3> SUFFICES ASSUME 0 + 1 <= N PROVE flatten[1] = f[1]
      OBVIOUS
    <3>1. 1 \in 1..N
      BY <1>1
    <3>2. f[1] = f[1 - 1] \o s[1] /\ s[1] \in Q /\ flatten[1] = s[1]
      BY <1>1, <1>7, <2>4, <3>1
    <3>3. f[1 - 1] = <<>>
      BY <1>8
    <3> QED
      BY <1>9, <3>2, <3>3
  <2>6. ASSUME NEW n \in Nat, n \in Z PROVE n + 1 \in Z
    <3> SUFFICES ASSUME (n + 1) + 1 <= N PROVE flatten[(n + 1) + 1] = f[(n + 1) + 1]
      OBVIOUS
    <3>1. (n + 1) + 1 \in 1..N /\ (n + 1) + 1 # 1 /\ n + 1 <= N
      BY <1>1
    <3>2. ((n + 1) + 1) - 1 = n + 1
      OBVIOUS
    <3>3. flatten[(n + 1) + 1] = flatten[n + 1] \o s[(n + 1) + 1]
      BY <2>4, <3>1, <3>2
    <3>4. f[(n + 1) + 1] = f[n + 1] \o s[(n + 1) + 1]
      BY <1>7, <3>1, <3>2
    <3>5. flatten[n + 1] = f[n + 1]
      BY <2>6, <3>1
    <3> QED
      BY <3>3, <3>4, <3>5
  <2>7. Nat \subseteq Z
    <3> HIDE DEF Z
    <3> QED
      BY <2>5, <2>6, NatSetInduction
  <2>8. flatten[N] = f[N]
    <3>1. N - 1 \in Nat /\ (N - 1) + 1 <= N /\ (N - 1) + 1 = N
      BY <1>1, <1>13
    <3>2. N - 1 \in Z
      BY <2>7, <3>1
    <3> QED
      BY <3>1, <3>2
  <2> QED
    BY <1>11, <2>1, <2>8 DEF N
<1> QED
  BY <1>12, <1>13

(* Sequences of one length, one after the other *)
OfLength(s, L) == \A i \in 1..Len(s) : Len(s[i]) = L

(* Parts of L items each, one after the other: item b of part a is at (a *)
(* - 1) * L + b.                                                         *)
LEMMA FlattenEven ==
    ASSUME NEW S, NEW s \in Seq(Seq(S)), NEW f, Flattens(f, s, S), NEW n \in 0..Len(s),
           NEW L \in Nat, OfLength(s, L)
    PROVE  /\ f[n] \in Seq(S) /\ Len(f[n]) = n * L
           /\ \A a \in 1..n : \A b \in 1..L : f[n][(a - 1) * L + b] = s[a][b]
<1> DEFINE Q == Seq(S)
           N == Len(s)
           OK(m) == /\ Len(f[m]) = m * L
                    /\ \A a \in 1..m : \A b \in 1..L : f[m][(a - 1) * L + b] = s[a][b]
           Z == {m \in Nat : m <= N => OK(m)}
<1>1. N \in Nat /\ \A i \in 1..N : s[i] \in Q
  <2>1. s \in Seq(Q)
    OBVIOUS
  <2> HIDE DEF Q
  <2> QED
    BY <2>1
<1>2. /\ \A m \in 0..N : f[m] \in Q
      /\ f[0] = <<>>
      /\ \A i \in 1..N : f[i] = f[i - 1] \o s[i]
  <2> HIDE DEF Q
  <2> QED
    BY DEF Flattens, Q
<1>3. 0 \in Z
  BY <1>2
<1>4. ASSUME NEW m \in Nat, m \in Z PROVE m + 1 \in Z
  <2> SUFFICES ASSUME m + 1 <= N PROVE OK(m + 1)
    OBVIOUS
  <2>1. m + 1 \in 1..N /\ (m + 1) - 1 = m /\ m \in 0..N /\ m <= N
    BY <1>1
  <2>2. PICK x \in Seq(S) : x = f[m]
    BY <1>2, <2>1
  <2>3. PICK y \in Seq(S) : y = s[m + 1]
    BY <1>1, <2>1
  <2>4. f[m + 1] = x \o y
    BY <1>2, <2>1, <2>2, <2>3
  <2>5. Len(x) = m * L /\ Len(y) = L /\ m * L \in Nat
    BY <1>4, <2>1, <2>2, <2>3 DEF OfLength
  <2>6. PICK z : z = x \o y
    OBVIOUS
  <2>7. PICK c \in Nat : c = m * L
    BY <2>5
  <2>8. /\ Len(z) = c + L
        /\ \A i \in 1..(c + L) : z[i] = IF i <= c THEN x[i] ELSE y[i - c]
    <3>1. /\ Len(x \o y) = Len(x) + Len(y)
          /\ \A i \in 1..(Len(x) + Len(y)) :
                (x \o y)[i] = IF i <= Len(x) THEN x[i] ELSE y[i - Len(x)]
      BY ConcatProperties
    <3>2. Len(x) = c /\ Len(y) = L
      BY <2>5, <2>7
    <3> QED
      BY <2>6, <3>1, <3>2, Zenon
  <2>9. Len(z) = (m + 1) * L
    BY <2>7, <2>8
  <2>10. ASSUME NEW a \in 1..(m + 1), NEW b \in 1..L PROVE z[(a - 1) * L + b] = s[a][b]
    <3>1. CASE a = m + 1
      <4>1. (a - 1) * L = c
        BY <2>7, <3>1
      <4>2. c + b \in 1..(c + L) /\ ~(c + b <= c) /\ (c + b) - c = b
        OBVIOUS
      <4>3. z[c + b] = y[b]
        BY <2>8, <4>2
      <4> QED
        BY <2>3, <3>1, <4>1, <4>3
    <3>2. CASE a # m + 1
      <4>1. a \in 1..m
        BY <3>2
      <4>2. PICK e \in Int : e = (a - 1) * L + b
        OBVIOUS
      <4>3. e \in 1..c
        <5>1. L > 0 /\ a - 1 \in 0..(m - 1)
          BY <4>1
        <5> QED
          BY <2>7, <4>2, <5>1, BlockIn
      <4>4. e \in 1..(c + L) /\ e <= c
        BY <4>3
      <4>5. z[e] = x[e]
        BY <2>8, <4>4
      <4>6. x[e] = s[a][b]
        BY <1>4, <2>1, <2>2, <4>1, <4>2
      <4> QED
        BY <4>2, <4>5, <4>6
    <3> QED
      BY <3>1, <3>2
  <2> QED
    BY <2>4, <2>6, <2>9, <2>10
<1>5. Nat \subseteq Z
  <2> HIDE DEF Z
  <2> QED
    BY <1>3, <1>4, NatSetInduction
<1>6. OK(n)
  <2>1. n \in Nat /\ n <= N
    BY <1>1
  <2>2. n \in Z
    BY <1>5, <2>1
  <2> HIDE DEF OK
  <2> QED
    BY <2>1, <2>2
<1> QED
  BY <1>2, <1>6

(* A sequence that has each number of 1..n once *)
LEMMA ElemsPermute ==
    ASSUME NEW n \in Nat, NEW s \in Seq(1..n), Distinct(s), Elems(s) = 1..n
    PROVE  Len(s) = n /\ Permutes(s, n)
<1>1. PICK m \in Nat : m = Len(s)
  OBVIOUS
<1>2. s \in [1..m -> 1..n]
  BY <1>1
<1>3. /\ \A i, j \in 1..m : s[i] = s[j] => i = j
      /\ \A j \in 1..n : \E i \in 1..m : s[i] = j
  BY <1>1 DEF Distinct, Elems
<1>4. s \in Bijection(1..m, 1..n)
  BY <1>2, <1>3 DEF Bijection, Injection, Surjection, IsInjective
<1>5. IsFiniteSet(1..m) /\ Cardinality(1..m) = m /\ Cardinality(1..n) = n
  <2>1. Cardinality(1..m) = (IF 1 > m THEN 0 ELSE m - 1 + 1) /\ IsFiniteSet(1..m)
    BY FS_Interval
  <2>2. Cardinality(1..n) = IF 1 > n THEN 0 ELSE n - 1 + 1
    BY FS_Interval
  <2> QED
    BY <2>1, <2>2
<1>6. m = n
  BY <1>4, <1>5, FS_Bijection DEF ExistsBijection
<1> QED
  BY <1>1, <1>2, <1>3, <1>6 DEF Permutes


-----------------------------------------------------------------------------
(* Parts of sequences, intervals *)

(* A part of a sequence *)
LEMMA PartOf ==
    ASSUME NEW T, NEW s \in Seq(T), NEW a \in Nat, NEW P \in Nat, a + P <= Len(s)
    PROVE  /\ SubSeq(s, a + 1, a + P) \in Seq(T)
           /\ Len(SubSeq(s, a + 1, a + P)) = P
           /\ \A b \in 1..P : SubSeq(s, a + 1, a + P)[b] = s[a + b]
<1>1. \A i \in (a + 1)..(a + P) : s[i] \in T
  OBVIOUS
<1>2. /\ SubSeq(s, a + 1, a + P) \in Seq(T)
      /\ Len(SubSeq(s, a + 1, a + P)) = (IF a + 1 <= a + P THEN (a + P) - (a + 1) + 1 ELSE 0)
      /\ \A i \in 1..((a + P) - (a + 1) + 1) : SubSeq(s, a + 1, a + P)[i] = s[(a + 1) + i - 1]
  <2>1. a + 1 \in Int /\ a + P \in Int
    OBVIOUS
  <2> QED
    BY <1>1, <2>1, SubSeqProperties
<1>3. (IF a + 1 <= a + P THEN (a + P) - (a + 1) + 1 ELSE 0) = P
      /\ (a + P) - (a + 1) + 1 = P /\ \A i \in 1..P : (a + 1) + i - 1 = a + i
  OBVIOUS
<1> QED
  BY <1>2, <1>3

(* The least of an interval, and how many it has *)
LEMMA MinInterval ==
    ASSUME NEW a \in Int, NEW n \in Nat, n > 0
    PROVE  Min(a..(a + n - 1)) = a /\ Cardinality(a..(a + n - 1)) = n
<1>1. a \in a..(a + n - 1)
  OBVIOUS
<1>2. Min(a..(a + n - 1)) = a
  BY <1>1 DEF Min
<1>3. Cardinality(a..(a + n - 1)) = IF a > a + n - 1 THEN 0 ELSE (a + n - 1) - a + 1
  BY FS_Interval
<1> QED
  BY <1>2, <1>3

(* The largest of a finite set of numbers is one of them. *)
LEMMA MaxIs ==
    ASSUME NEW S, IsFiniteSet(S), S # {}, S \subseteq Nat
    PROVE  Max(S) \in S
<1> DEFINE R == {p \in S \X S : p[1] >= p[2]}
<1>1. \A a, b \in S : <<a, b>> \in R <=> a >= b
  OBVIOUS
<1> HIDE DEF R
<1>2. \A a, b \in S : a # b => <<a, b>> \in R \/ <<b, a>> \in R
  BY <1>1
<1>3. \A a, b, c \in S : <<a, b>> \in R /\ <<b, c>> \in R => <<a, c>> \in R
  BY <1>1
<1>4. \E a \in S : \A b \in S \ {a} : <<a, b>> \in R
  <2>1. Orders(R, S)
    BY <1>2, <1>3 DEF Orders
  <2> QED
    BY <2>1, FirstExists
<1>5. PICK a \in S : \A b \in S \ {a} : <<a, b>> \in R
  BY <1>4
<1>6. ASSUME NEW b \in S PROVE a >= b
  <2>1. a \in Nat
    OBVIOUS
  <2>2. CASE b = a
    BY <2>1, <2>2
  <2>3. CASE b # a
    BY <1>1, <1>5, <2>3
  <2> QED
    BY <2>2, <2>3
<1> QED
  BY <1>6 DEF Max

(* Sequences with the same items are the same. *)
LEMMA SameItems ==
    ASSUME NEW S, NEW T, NEW s \in Seq(S), NEW t \in Seq(T), Len(s) = Len(t),
           \A i \in 1..Len(s) : s[i] = t[i]
    PROVE  s = t
<1>1. PICK n \in Nat : n = Len(s)
  OBVIOUS
<1>2. s = [i \in 1..n |-> s[i]] /\ t = [i \in 1..n |-> t[i]]
  BY <1>1
<1>3. \A i \in 1..n : s[i] = t[i]
  BY <1>1
<1> QED
  BY <1>2, <1>3, Zenon

(* t is s and then u. *)
Follows(t, s, u) ==
    /\ Len(t) = Len(s) + Len(u)
    /\ \A i \in 1..(Len(s) + Len(u)) : t[i] = IF i <= Len(s) THEN s[i] ELSE u[i - Len(s)]

(* So is one sequence after the other. *)
LEMMA ConcatFollows ==
    ASSUME NEW T, NEW s \in Seq(T), NEW u \in Seq(T)
    PROVE  s \o u \in Seq(T) /\ Follows(s \o u, s, u)
BY ConcatProperties DEF Follows

(* What is flattened is a sequence of the items. *)
LEMMA FlattenSeqs ==
    ASSUME NEW S, NEW s \in Seq(Seq(S))
    PROVE  FlattenSeq(s) \in Seq(S)
<1>1. PICK f : Flattens(f, s, S) /\ FlattenSeq(s) = f[Len(s)]
  BY FlattenIs
<1>2. PICK n \in Nat : n = Len(s)
  OBVIOUS
<1> QED
  BY <1>1, <1>2 DEF Flattens

(* The first sequence, and what the others make *)
LEMMA FlattenHead ==
    ASSUME NEW S, NEW s \in Seq(Seq(S)), s # <<>>
    PROVE  FlattenSeq(s) = Head(s) \o FlattenSeq(Tail(s))
<1> DEFINE Q == Seq(S)
<1>1. s \in Seq(Q)
  OBVIOUS
<1>2. \A x, y, z \in Q : (x \o y) \o z = x \o (y \o z) /\ x \o <<>> = x /\ <<>> \o x = x
  <2>1. \A x \in Q : x \o <<>> = x /\ <<>> \o x = x
    BY ConcatEmptySeq
  <2>2. \A x, y, z \in Q : (x \o y) \o z = x \o (y \o z)
    <3> SUFFICES ASSUME NEW x \in Q, NEW y \in Q, NEW z \in Q
                 PROVE  (x \o y) \o z = x \o (y \o z)
      OBVIOUS
    <3>1. x \in Seq(S) /\ y \in Seq(S) /\ z \in Seq(S)
      OBVIOUS
    <3> QED
      BY <3>1, ConcatAssociative
  <2> QED
    BY <2>1, <2>2
<1> HIDE DEF Q
<1>3. PICK n \in Nat : Len(s) = n + 1
  <2>1. Len(s) \in Nat /\ Len(s) # 0
    BY <1>1
  <2>2. Len(s) - 1 \in Nat /\ Len(s) = (Len(s) - 1) + 1
    BY <2>1
  <2> QED
    BY <2>2
<1>4. PICK t \in Seq(Q) : t = Tail(s) /\ Len(t) = n /\ \A i \in 1..n : t[i] = s[i + 1]
  <2>1. /\ Tail(s) \in Seq(Q) /\ Len(Tail(s)) = Len(s) - 1
        /\ \A i \in 1..Len(Tail(s)) : Tail(s)[i] = s[i + 1]
    BY <1>1, HeadTailProperties
  <2>2. Len(s) - 1 = n
    BY <1>3
  <2> QED
    BY <2>1, <2>2
<1>5. PICK h \in Q : h = Head(s) /\ h = s[1]
  BY <1>1, <1>3
<1>6. PICK f : Flattens(f, s, S) /\ FlattenSeq(s) = f[n + 1]
  BY <1>3, FlattenIs
<1>7. t \in Seq(Seq(S))
  BY DEF Q
<1>8. PICK g : Flattens(g, t, S) /\ FlattenSeq(t) = g[n]
  BY <1>4, <1>7, FlattenIs
<1>9. /\ f \in [0..(n + 1) -> Q] /\ f[0] = <<>>
      /\ \A i \in 1..(n + 1) : f[i] = f[i - 1] \o s[i]
  BY <1>3, <1>6 DEF Flattens, Q
<1>10. /\ g \in [0..n -> Q] /\ g[0] = <<>>
       /\ \A i \in 1..n : g[i] = g[i - 1] \o t[i]
  BY <1>4, <1>8 DEF Flattens, Q
<1>11. \A i \in 1..n : t[i] \in Q
  BY <1>4
<1> DEFINE Z == {k \in Nat : k <= n => f[k + 1] = h \o g[k]}
<1>12. 0 \in Z
  <2>1. 1 \in 1..(n + 1) /\ 1 - 1 = 0 /\ 0 + 1 = 1
    OBVIOUS
  <2>2. f[1] = f[0] \o s[1]
    BY <1>9, <2>1
  <2>3. f[1] = h
    BY <1>2, <1>5, <1>9, <2>2
  <2>4. h \o g[0] = h
    BY <1>2, <1>10
  <2> QED
    BY <2>1, <2>3, <2>4
<1>13. ASSUME NEW k \in Nat, k \in Z PROVE k + 1 \in Z
  <2> SUFFICES ASSUME k + 1 <= n PROVE f[(k + 1) + 1] = h \o g[k + 1]
    OBVIOUS
  <2>1. /\ (k + 1) + 1 \in 1..(n + 1) /\ ((k + 1) + 1) - 1 = k + 1
        /\ k + 1 \in 1..n /\ (k + 1) - 1 = k /\ k \in 0..n /\ k <= n
    OBVIOUS
  <2>2. f[(k + 1) + 1] = f[k + 1] \o s[(k + 1) + 1]
    BY <1>9, <2>1
  <2>3. g[k + 1] = g[k] \o t[k + 1] /\ t[k + 1] = s[(k + 1) + 1]
    BY <1>4, <1>10, <2>1
  <2>4. f[k + 1] = h \o g[k]
    BY <1>13, <2>1
  <2>5. g[k] \in Q /\ t[k + 1] \in Q
    BY <1>10, <1>11, <2>1
  <2>6. f[(k + 1) + 1] = (h \o g[k]) \o t[k + 1]
    BY <2>2, <2>3, <2>4
  <2>7. (h \o g[k]) \o t[k + 1] = h \o (g[k] \o t[k + 1])
    BY <1>2, <2>5
  <2> QED
    BY <2>3, <2>6, <2>7, Zenon
<1>14. Nat \subseteq Z
  <2> HIDE DEF Z
  <2> QED
    BY <1>12, <1>13, NatSetInduction
<1>15. f[n + 1] = h \o g[n]
  <2>1. n \in Z
    <3> HIDE DEF Z
    <3> QED
      BY <1>14
  <2>2. n <= n
    OBVIOUS
  <2> QED
    BY <2>1, <2>2, Zenon
<1> QED
  BY <1>4, <1>5, <1>6, <1>8, <1>15

(* Nothing is made of no parts. *)
LEMMA FlattenEmpty == FlattenSeq(<<>>) = <<>>
BY DEF FlattenSeq
==============================================================================
