------------------------- MODULE HybridEngineProofs -------------------------
(***************************************************************************)
(* Proofs about HybridEngine and the balancing of sequence lengths, for    *)
(* any number of ranks, tensor parallel size, batch and choice of what is  *)
(* offloaded: every row of a batch comes back, in its place and computed   *)
(* with the weights of the last update; generation never draws from a      *)
(* random state twice; no call gets stuck in a collective; and the         *)
(* engine's cache never shares a GPU with what should be away.             *)
(*                                                                         *)
(* The argument.  The heap of the differencing method holds states that    *)
(* have no row in common and all rows between them; merging two of them    *)
(* keeps that, so the last one is a partition, and its parts one after the *)
(* other are a permutation (PartitionsPermute).  What a rank's GPU holds   *)
(* follows from how far the rank is in its call (Memory); how far the      *)
(* ranks of a generation are apart is bounded by its collectives           *)
(* (InStep).  The batch stays a permutation of its rows (BatchInv), and as *)
(* shares are as long as each other and the number of micro-batches is     *)
(* agreed on, ranks wait in the same forward pass (Turn).  Which random    *)
(* state is in place, which weights an engine has, and what a rank has     *)
(* computed of which rows then follow from where it is (Content).          *)
(***************************************************************************)
EXTENDS HybridEngine, CommonLemmas

-----------------------------------------------------------------------------
(* Balancing sequence lengths: tokens *)

(* A sum of naturals is one, and not below its last. *)
LEMMA TotalNat ==
    ASSUME NEW s \in Seq(Nat)
    PROVE  /\ Total(s) \in Nat
           /\ s = <<>> => Total(s) = 0
           /\ s # <<>> => Total(s) >= s[Len(s)]
<1> DEFINE k == Len(s)
           sum == CHOOSE f : IsPrefixSum(f, s, k)
<1>1. Total(s) = sum[k]
  BY Zenon DEF Total, IsPrefixSum
<1>2. k \in Nat /\ \A i \in 1..k : s[i] \in Nat
  OBVIOUS
<1>3. IsPrefixSum(sum, s, k)
  BY <1>2, PrefixSumExists
<1> HIDE DEF sum
<1>4. \A i \in 0..k : sum[i] \in Nat
  BY <1>2, <1>3, PrefixSumNat
<1>5. sum[0] = 0 /\ \A i \in 0..k : i + 1 \in 0..k => sum[i + 1] = sum[i] + s[i + 1]
  BY <1>2, <1>3, PrefixSumStep
<1>6. k \in 0..k /\ 0 \in 0..k
  BY <1>2
<1>7. ASSUME s # <<>> PROVE sum[k] >= s[k]
  <2>1. k # 0
    BY <1>7
  <2>2. k - 1 \in 0..k /\ (k - 1) + 1 = k /\ k \in 1..k
    BY <1>2, <2>1
  <2>3. sum[k] = sum[k - 1] + s[k] /\ sum[k - 1] \in Nat /\ s[k] \in Nat
    BY <1>2, <1>4, <1>5, <1>6, <2>2
  <2> HIDE DEF k
  <2> QED
    BY <2>3
<1>8. ASSUME s = <<>> PROVE sum[k] = 0
  <2>1. k = 0
    BY <1>8
  <2> QED
    BY <1>5, <2>1
<1> QED
  BY <1>1, <1>4, <1>6, <1>7, <1>8

(* The tokens of a part *)
LEMMA TokensNat ==
    ASSUME NEW lens \in Seq(Nat \ {0}), NEW part \in Seq(1..Len(lens))
    PROVE  /\ Tokens(lens, part) \in Nat
           /\ part = <<>> => Tokens(lens, part) = 0
           /\ part # <<>> => Tokens(lens, part) > 0
<1> DEFINE s == [i \in DOMAIN part |-> lens[part[i]]]
<1>1. DOMAIN part = 1..Len(part) /\ Len(part) \in Nat
  OBVIOUS
<1>2. \A i \in 1..Len(part) : lens[part[i]] \in Nat \ {0}
  OBVIOUS
<1>3. s \in Seq(Nat) /\ Len(s) = Len(part)
  BY <1>1, <1>2
<1>4. part = <<>> => s = <<>>
  BY <1>3
<1>5. part # <<>> => s # <<>> /\ s[Len(s)] > 0
  <2>1. part # <<>> => Len(part) \in 1..Len(part)
    OBVIOUS
  <2>2. part # <<>> => s[Len(part)] \in Nat \ {0}
    BY <1>1, <1>2, <2>1
  <2>3. part # <<>> => s # <<>>
    BY <1>3
  <2> HIDE DEF s
  <2> QED
    BY <1>3, <2>1, <2>2, <2>3
<1> HIDE DEF s
<1>6. /\ Total(s) \in Nat
      /\ s = <<>> => Total(s) = 0
      /\ s # <<>> => Total(s) >= s[Len(s)]
  BY <1>3, TotalNat
<1>7. part # <<>> => s[Len(s)] \in Nat
  BY <1>3, <1>5
<1> QED
  BY <1>4, <1>5, <1>6, <1>7 DEF Tokens, s


-----------------------------------------------------------------------------
(* Sorting *)

(* The parts of a state put in order are the same parts. *)
DescendingPlace(lens, parts, S) ==
    [p \in (1..Len(parts)) \X Seq(S) |->
        1 + Cardinality({i \in DOMAIN p[2] : ~Lighter(lens, p[2][i], parts[p[1]])})]

(* Descending is such a sequence of insertions. *)
LEMMA DescendingInserts ==
    ASSUME NEW S, NEW lens, NEW parts \in Seq(S)
    PROVE  /\ Placed(DescendingPlace(lens, parts, S), parts, S)
           /\ \E f : /\ Insertion(f, parts, DescendingPlace(lens, parts, S), S)
                     /\ Descending(lens, parts) = f[Len(parts)]
<1> DEFINE N == Len(parts)
           place == DescendingPlace(lens, parts, S)
           spot(n, x) == 1 + Cardinality({i \in DOMAIN x : ~Lighter(lens, x[i], parts[n])})
           Fix(f) == f = [n \in 0..N |-> IF n = 0 THEN <<>>
                                         ELSE InsertAt(f[n - 1], spot(n, f[n - 1]), parts[n])]
<1>1. Descending(lens, parts) = (CHOOSE f : Fix(f))[N]
  BY Zenon DEF Descending, Sorted
<1>2. ASSUME NEW n \in 1..N, NEW x \in Seq(S)
      PROVE  place[<<n, x>>] = spot(n, x) /\ spot(n, x) \in 1..(Len(x) + 1)
  <2>1. place[<<n, x>>] = spot(n, x)
    BY DEF DescendingPlace
  <2>2. {i \in DOMAIN x : ~Lighter(lens, x[i], parts[n])} \subseteq 1..Len(x)
    OBVIOUS
  <2>3. Len(x) \in Nat
    OBVIOUS
  <2> QED
    BY <2>1, <2>2, <2>3, PlaceBound
<1> HIDE DEF place, spot
<1>3. Placed(place, parts, S)
  BY <1>2 DEF Placed
<1>4. PICK f \in [0..N -> Seq(S)] : Insertion(f, parts, place, S)
  BY <1>3, InsertionExists
<1>5. Fix(f)
  <2>1. N \in Nat
    OBVIOUS
  <2>2. ASSUME NEW n \in 0..N
        PROVE  f[n] = IF n = 0 THEN <<>>
                      ELSE InsertAt(f[n - 1], spot(n, f[n - 1]), parts[n])
    <3>1. CASE n = 0
      BY <1>4, <3>1 DEF Insertion
    <3>2. CASE n # 0
      <4>1. n \in 1..N /\ n - 1 \in 0..N
        BY <2>1, <3>2
      <4>2. f[n - 1] \in Seq(S)
        BY <4>1
      <4> QED
        BY <1>2, <1>4, <3>2, <4>1, <4>2 DEF Insertion
    <3> QED
      BY <3>1, <3>2
  <2>3. f = [n \in 0..N |-> f[n]]
    OBVIOUS
  <2> QED
    BY <2>2, <2>3, Zenon
<1>6. PICK g : g = CHOOSE f1 : Fix(f1)
  OBVIOUS
<1>7. Fix(g)
  BY <1>5, <1>6, Zenon
<1>8. g[0] = <<>> /\ \A n \in 1..N : g[n] = InsertAt(g[n - 1], spot(n, g[n - 1]), parts[n])
  <2>1. N \in Nat /\ 0 \in 0..N
    OBVIOUS
  <2>2. g[0] = <<>>
    BY <1>7, <2>1
  <2>3. ASSUME NEW n \in 1..N PROVE g[n] = InsertAt(g[n - 1], spot(n, g[n - 1]), parts[n])
    <3>1. n \in 0..N /\ n # 0
      OBVIOUS
    <3> QED
      BY <1>7, <3>1, Zenon
  <2> QED
    BY <2>2, <2>3
<1>9. Insertion(g, parts, place, S)
  BY <1>2, <1>8 DEF Insertion
<1> QED
  BY <1>1, <1>3, <1>6, <1>9, Zenon DEF place

(* The rows of a part put in order are the same rows. *)
RowsPlace(rows, S) ==
    [p \in (1..Len(rows)) \X Seq(S) |->
        1 + Cardinality({i \in DOMAIN p[2] : ~(rows[p[1]] < p[2][i])})]

(* Sorting a part by number is one too. *)
LEMMA RowsInsert ==
    ASSUME NEW S, NEW rows \in Seq(S)
    PROVE  /\ Placed(RowsPlace(rows, S), rows, S)
           /\ \E f : /\ Insertion(f, rows, RowsPlace(rows, S), S)
                     /\ Sorted(rows, <) = f[Len(rows)]
<1> DEFINE N == Len(rows)
           place == RowsPlace(rows, S)
           spot(n, x) == 1 + Cardinality({i \in DOMAIN x : ~(rows[n] < x[i])})
           Fix(f) == f = [n \in 0..N |-> IF n = 0 THEN <<>>
                                         ELSE InsertAt(f[n - 1], spot(n, f[n - 1]), rows[n])]
<1>1. Sorted(rows, <) = (CHOOSE f : Fix(f))[N]
  BY Zenon DEF Sorted
<1>2. ASSUME NEW n \in 1..N, NEW x \in Seq(S)
      PROVE  place[<<n, x>>] = spot(n, x) /\ spot(n, x) \in 1..(Len(x) + 1)
  <2>1. place[<<n, x>>] = spot(n, x)
    BY DEF RowsPlace
  <2>2. {i \in DOMAIN x : ~(rows[n] < x[i])} \subseteq 1..Len(x)
    OBVIOUS
  <2>3. Len(x) \in Nat
    OBVIOUS
  <2> QED
    BY <2>1, <2>2, <2>3, PlaceBound
<1> HIDE DEF place, spot
<1>3. Placed(place, rows, S)
  BY <1>2 DEF Placed
<1>4. PICK f \in [0..N -> Seq(S)] : Insertion(f, rows, place, S)
  BY <1>3, InsertionExists
<1>5. Fix(f)
  <2>1. N \in Nat
    OBVIOUS
  <2>2. ASSUME NEW n \in 0..N
        PROVE  f[n] = IF n = 0 THEN <<>>
                      ELSE InsertAt(f[n - 1], spot(n, f[n - 1]), rows[n])
    <3>1. CASE n = 0
      BY <1>4, <3>1 DEF Insertion
    <3>2. CASE n # 0
      <4>1. n \in 1..N /\ n - 1 \in 0..N
        BY <2>1, <3>2
      <4>2. f[n - 1] \in Seq(S)
        BY <4>1
      <4> QED
        BY <1>2, <1>4, <3>2, <4>1, <4>2 DEF Insertion
    <3> QED
      BY <3>1, <3>2
  <2>3. f = [n \in 0..N |-> f[n]]
    OBVIOUS
  <2> QED
    BY <2>2, <2>3, Zenon
<1>6. PICK g : g = CHOOSE f1 : Fix(f1)
  OBVIOUS
<1>7. Fix(g)
  BY <1>5, <1>6, Zenon
<1>8. g[0] = <<>> /\ \A n \in 1..N : g[n] = InsertAt(g[n - 1], spot(n, g[n - 1]), rows[n])
  <2>1. N \in Nat /\ 0 \in 0..N
    OBVIOUS
  <2>2. g[0] = <<>>
    BY <1>7, <2>1
  <2>3. ASSUME NEW n \in 1..N PROVE g[n] = InsertAt(g[n - 1], spot(n, g[n - 1]), rows[n])
    <3>1. n \in 0..N /\ n # 0
      OBVIOUS
    <3> QED
      BY <1>7, <3>1, Zenon
  <2> QED
    BY <2>2, <2>3
<1>9. Insertion(g, rows, place, S)
  BY <1>2, <1>8 DEF Insertion
<1> QED
  BY <1>1, <1>3, <1>6, <1>9, Zenon DEF place

(* The rows sorted by length are the same rows. *)
Numbers(lens) == [i \in DOMAIN lens |-> i]

LengthPlace(lens, rows, S) ==
    [p \in (1..Len(rows)) \X Seq(S) |->
        1 + Cardinality({i \in DOMAIN p[2] :
                            ~(\/ lens[rows[p[1]]] < lens[p[2][i]]
                              \/ /\ lens[rows[p[1]]] = lens[p[2][i]]
                                 /\ rows[p[1]] < p[2][i])})]

(* So is sorting all rows by length. *)
LEMMA LengthInserts ==
    ASSUME NEW lens, NEW S, Numbers(lens) \in Seq(S)
    PROVE  /\ Placed(LengthPlace(lens, Numbers(lens), S), Numbers(lens), S)
           /\ \E f : /\ Insertion(f, Numbers(lens), LengthPlace(lens, Numbers(lens), S), S)
                     /\ ByLength(lens) = f[Len(Numbers(lens))]
<1> DEFINE rows == Numbers(lens)
           N == Len(rows)
           place == LengthPlace(lens, rows, S)
           less(x, y) == lens[x] < lens[y] \/ (lens[x] = lens[y] /\ x < y)
           spot(n, x) == 1 + Cardinality({i \in DOMAIN x : ~less(rows[n], x[i])})
           Fix(f) == f = [n \in 0..N |-> IF n = 0 THEN <<>>
                                         ELSE InsertAt(f[n - 1], spot(n, f[n - 1]), rows[n])]
<1>1. ByLength(lens) = (CHOOSE f : Fix(f))[N]
  BY Zenon DEF ByLength, Sorted, Numbers
<1>0. rows \in Seq(S)
  OBVIOUS
<1> HIDE DEF rows
<1>2. ASSUME NEW n \in 1..N, NEW x \in Seq(S)
      PROVE  place[<<n, x>>] = spot(n, x) /\ spot(n, x) \in 1..(Len(x) + 1)
  <2>1. place[<<n, x>>] = spot(n, x)
    BY DEF LengthPlace
  <2>2. {i \in DOMAIN x : ~less(rows[n], x[i])} \subseteq 1..Len(x)
    OBVIOUS
  <2>3. Len(x) \in Nat
    OBVIOUS
  <2> QED
    BY <2>1, <2>2, <2>3, PlaceBound
<1> HIDE DEF place, spot
<1>3. Placed(place, rows, S)
  BY <1>2 DEF Placed
<1>4. PICK f \in [0..N -> Seq(S)] : Insertion(f, rows, place, S)
  BY <1>0, <1>3, InsertionExists
<1>5. Fix(f)
  <2>1. N \in Nat
    OBVIOUS
  <2>2. ASSUME NEW n \in 0..N
        PROVE  f[n] = IF n = 0 THEN <<>>
                      ELSE InsertAt(f[n - 1], spot(n, f[n - 1]), rows[n])
    <3>1. CASE n = 0
      BY <1>4, <3>1 DEF Insertion
    <3>2. CASE n # 0
      <4>1. n \in 1..N /\ n - 1 \in 0..N
        BY <2>1, <3>2
      <4>2. f[n - 1] \in Seq(S)
        BY <4>1
      <4> QED
        BY <1>2, <1>4, <3>2, <4>1, <4>2 DEF Insertion
    <3> QED
      BY <3>1, <3>2
  <2>3. f = [n \in 0..N |-> f[n]]
    OBVIOUS
  <2> QED
    BY <2>2, <2>3, Zenon
<1>6. PICK g : g = CHOOSE f1 : Fix(f1)
  OBVIOUS
<1>7. Fix(g)
  BY <1>5, <1>6, Zenon
<1>8. g[0] = <<>> /\ \A n \in 1..N : g[n] = InsertAt(g[n - 1], spot(n, g[n - 1]), rows[n])
  <2>1. N \in Nat /\ 0 \in 0..N
    OBVIOUS
  <2>2. g[0] = <<>>
    BY <1>7, <2>1
  <2>3. ASSUME NEW n \in 1..N PROVE g[n] = InsertAt(g[n - 1], spot(n, g[n - 1]), rows[n])
    <3>1. n \in 0..N /\ n # 0
      OBVIOUS
    <3> QED
      BY <1>7, <3>1, Zenon
  <2> QED
    BY <2>2, <2>3
<1>9. Insertion(g, rows, place, S)
  BY <1>2, <1>8 DEF Insertion
<1> QED
  BY <1>1, <1>3, <1>6, <1>9, Zenon DEF place, rows

(* Sorting gives back what it was given, in another order. *)
LEMMA DescendingRearranges ==
    ASSUME NEW S, NEW lens, NEW parts \in Seq(S)
    PROVE  /\ Descending(lens, parts) \in Seq(S)
           /\ Rearranged(Descending(lens, parts), parts)
<1>1. /\ Placed(DescendingPlace(lens, parts, S), parts, S)
      /\ \E f : /\ Insertion(f, parts, DescendingPlace(lens, parts, S), S)
                /\ Descending(lens, parts) = f[Len(parts)]
  BY DescendingInserts
<1>2. PICK f : /\ Insertion(f, parts, DescendingPlace(lens, parts, S), S)
               /\ Descending(lens, parts) = f[Len(parts)]
  BY <1>1
<1>3. f[Len(parts)] \in Seq(S) /\ Rearranged(f[Len(parts)], parts)
  BY <1>1, <1>2, InsertionSteps
<1> QED
  BY <1>2, <1>3

(* Sorting a part gives back its rows. *)
LEMMA SortedRearranges ==
    ASSUME NEW S, NEW rows \in Seq(S)
    PROVE  Sorted(rows, <) \in Seq(S) /\ Rearranged(Sorted(rows, <), rows)
<1>1. /\ Placed(RowsPlace(rows, S), rows, S)
      /\ \E f : /\ Insertion(f, rows, RowsPlace(rows, S), S)
                /\ Sorted(rows, <) = f[Len(rows)]
  BY RowsInsert
<1>2. PICK f : Insertion(f, rows, RowsPlace(rows, S), S) /\ Sorted(rows, <) = f[Len(rows)]
  BY <1>1
<1>3. f[Len(rows)] \in Seq(S) /\ Rearranged(f[Len(rows)], rows)
  BY <1>1, <1>2, InsertionSteps
<1> QED
  BY <1>2, <1>3

(* Sorting by length gives back all rows. *)
LEMMA ByLengthRearranges ==
    ASSUME NEW lens, NEW S, Numbers(lens) \in Seq(S)
    PROVE  /\ ByLength(lens) \in Seq(S)
           /\ Rearranged(ByLength(lens), Numbers(lens))
<1>0. PICK rows \in Seq(S) : rows = Numbers(lens)
  OBVIOUS
<1>1. /\ Placed(LengthPlace(lens, rows, S), rows, S)
      /\ \E f : /\ Insertion(f, rows, LengthPlace(lens, rows, S), S)
                /\ ByLength(lens) = f[Len(rows)]
  BY <1>0, LengthInserts
<1>2. PICK f : /\ Insertion(f, rows, LengthPlace(lens, rows, S), S)
               /\ ByLength(lens) = f[Len(rows)]
  BY <1>1
<1>3. f[Len(rows)] \in Seq(S) /\ Rearranged(f[Len(rows)], rows)
  BY <1>1, <1>2, InsertionSteps
<1> QED
  BY <1>0, <1>2, <1>3

(* Nothing is lighter than a part without rows. *)
LEMMA LighterThanEmpty ==
    ASSUME NEW lens \in Seq(Nat \ {0}), NEW part \in Seq(1..Len(lens))
    PROVE  /\ ~Lighter(lens, part, <<>>)
           /\ part # <<>> => Lighter(lens, <<>>, part)
<1>1. <<>> \in Seq(1..Len(lens)) /\ Len(<<>>) = 0
  OBVIOUS
<1>2. Tokens(lens, <<>>) = 0
  BY <1>1, TokensNat
<1>3. PICK n \in Nat : n = Len(part)
  OBVIOUS
<1>4. PICK t \in Nat : t = Tokens(lens, part) /\ (part # <<>> => t > 0)
  BY TokensNat
<1>5. ~Lighter(lens, part, <<>>)
  <2>1. ~(t < 0) /\ ~(n < 0)
    OBVIOUS
  <2>2. part # <<>> => t # 0
    BY <1>4
  <2> QED
    BY <1>1, <1>2, <1>3, <1>4, <2>1, <2>2, Zenon DEF Lighter
<1>6. ASSUME part # <<>> PROVE Lighter(lens, <<>>, part)
  <2>1. 0 < t
    BY <1>4, <1>6
  <2> QED
    BY <1>2, <1>4, <2>1, Zenon DEF Lighter
<1> QED
  BY <1>5, <1>6

(* When a part has rows, the heaviest part has. *)
LEMMA HeaviestFirst ==
    ASSUME NEW lens \in Seq(Nat \ {0}), NEW parts \in Seq(Seq(1..Len(lens))),
           NEW j \in 1..Len(parts), parts[j] # <<>>
    PROVE  Descending(lens, parts)[1] # <<>>
<1> DEFINE S == Seq(1..Len(lens))
           N == Len(parts)
           place == DescendingPlace(lens, parts, S)
<1>0. parts \in Seq(S) /\ N \in Nat /\ \A i \in 1..N : parts[i] \in S
  OBVIOUS
<1>9. \A x \in S : /\ ~Lighter(lens, x, <<>>)
                   /\ x # <<>> => Lighter(lens, <<>>, x)
  BY LighterThanEmpty
<1>10. parts[j] # <<>> /\ j \in 1..N
  OBVIOUS
<1> HIDE DEF S, N
<1>1. Placed(place, parts, S)
  BY <1>0, DescendingInserts
<1>2. PICK f : Insertion(f, parts, place, S) /\ Descending(lens, parts) = f[N]
  BY <1>0, DescendingInserts DEF N
<1>3. \A n \in 0..N : f[n] \in Seq(S) /\ Len(f[n]) = n /\ Arranged(f[n], parts, n)
  BY <1>0, <1>1, <1>2, InsertionSteps DEF N
<1> DEFINE OK(n) == (\E i \in 1..n : parts[i] # <<>>) => f[n][1] # <<>>
           Z == {n \in Nat : n <= N => OK(n)}
<1>4. 0 \in Z
  OBVIOUS
<1>5. ASSUME NEW m \in Nat, m \in Z PROVE m + 1 \in Z
  <2> SUFFICES ASSUME m + 1 <= N, NEW c \in 1..(m + 1), parts[c] # <<>>
               PROVE  f[m + 1][1] # <<>>
    OBVIOUS
  <2>1. N \in Nat /\ m + 1 \in 1..N /\ (m + 1) - 1 = m /\ m <= N /\ m \in 0..N
    BY <1>0
  <2>2. OK(m)
    BY <1>5, <2>1
  <2>3. PICK x \in S : x = parts[m + 1]
    BY <1>0, <2>1
  <2>4. PICK q \in Seq(S) : q = f[m] /\ Len(q) = m
    BY <1>3, <2>1
  <2> DEFINE notLighter == {i \in 1..m : ~Lighter(lens, q[i], x)}
             p == 1 + Cardinality(notLighter)
  <2>5. f[m + 1] = InsertAt(q, place[<<m + 1, q>>], x)
    BY <1>2, <2>1, <2>3, <2>4 DEF Insertion, N
  <2>6. place[<<m + 1, q>>] = p
    <3>1. DOMAIN q = 1..m
      BY <2>4
    <3> QED
      BY <2>1, <2>3, <2>4, <3>1 DEF DescendingPlace, N
  <2>7. p \in 1..(m + 1) /\ p \in 1..(Len(q) + 1)
    <3>1. notLighter \subseteq 1..m
      OBVIOUS
    <3> HIDE DEF notLighter
    <3>2. p \in 1..(m + 1)
      BY <3>1, PlaceBound
    <3> HIDE DEF p
    <3> QED
      BY <2>4, <3>2
  <2> HIDE DEF p
  <2>8. f[m + 1][1] = IF 1 < p THEN q[1] ELSE IF 1 = p THEN x ELSE q[1 - 1]
    <3>1. Inserted(f[m + 1], q, p, x)
      <4>1. Inserted(InsertAt(q, p, x), q, p, x)
        BY <2>3, <2>4, <2>7, InsertAtIs
      <4> QED
        BY <2>5, <2>6, <4>1
    <3>2. 1 \in 1..(Len(q) + 1)
      BY <2>4
    <3> QED
      BY <3>1, <3>2 DEF Inserted
  <2>9. \A i \in 1..m : q[i] \in S
    BY <2>4
  <2>10. CASE x = <<>>
    <3>1. c \in 1..m
      <4>1. c # m + 1
        BY <2>3, <2>10
      <4> QED
        BY <4>1, c \in 1..(m + 1)
    <3>2. q[1] # <<>>
      BY <2>2, <2>4, <3>1
    <3>3. 1 < p
      <4>1. ASSUME NEW i \in 1..m PROVE ~Lighter(lens, q[i], x)
        <5>1. ~Lighter(lens, q[i], <<>>)
          BY <1>9, <2>9
        <5> QED
          BY <2>10, <5>1, Zenon
      <4>2. notLighter = 1..m
        BY <4>1, Zenon
      <4>3. Cardinality(1..m) = m
        <5>1. Cardinality(1..m) = IF 1 > m THEN 0 ELSE m - 1 + 1
          BY FS_Interval
        <5> QED
          BY <5>1
      <4>4. p = 1 + m
        BY <4>2, <4>3 DEF p
      <4> QED
        BY <3>1, <4>4
    <3> QED
      BY <2>8, <3>2, <3>3
  <2>11. CASE x # <<>> /\ p = 1
    BY <2>8, <2>11
  <2>12. CASE x # <<>> /\ p # 1
    <3>1. 1 < p
      BY <2>7, <2>12
    <3>2. notLighter # {}
      <4>1. Cardinality(notLighter) # 0
        <5> HIDE DEF notLighter
        <5> QED
          BY <2>12 DEF p
      <4> HIDE DEF notLighter
      <4> QED
        BY <4>1, FS_EmptySet
    <3>3. PICK i \in 1..m : ~Lighter(lens, q[i], x)
      BY <3>2
    <3>4. q[i] # <<>>
      <4>1. SUFFICES ASSUME q[i] = <<>> PROVE FALSE
        OBVIOUS
      <4>2. Lighter(lens, <<>>, x)
        BY <1>9, <2>12
      <4>3. Lighter(lens, q[i], x)
        BY <4>1, <4>2, Zenon
      <4> QED
        BY <3>3, <4>3, Zenon
    <3>5. PICK pi : Permutes(pi, m) /\ \A a \in 1..m : q[a] = parts[pi[a]]
      BY <1>3, <2>1, <2>4 DEF Arranged
    <3>6. pi[i] \in 1..m /\ parts[pi[i]] # <<>>
      BY <3>4, <3>5 DEF Permutes
    <3>7. q[1] # <<>>
      BY <2>2, <2>4, <3>6
    <3> QED
      BY <2>8, <3>1, <3>7
  <2> QED
    BY <2>10, <2>11, <2>12
<1>6. Nat \subseteq Z
  <2> HIDE DEF Z
  <2> QED
    BY <1>4, <1>5, NatSetInduction
<1>7. N \in Nat /\ N <= N
  BY <1>0
<1>8. OK(N)
  BY <1>6, <1>7
<1> QED
  BY <1>2, <1>8, <1>10


-----------------------------------------------------------------------------
(* States: k parts with no row twice *)

(* A state has row r. *)
HasRow(s, r) == \E i \in 1..Len(s) : r \in Elems(s[i])

(* It has each of its rows once. *)
Once(s) ==
    /\ \A i \in 1..Len(s) : Distinct(s[i])
    /\ \A i, j \in 1..Len(s) : i # j => Elems(s[i]) \cap Elems(s[j]) = {}

Even(s) == \A i, j \in 1..Len(s) : Len(s[i]) = Len(s[j])

Apart(s, t) == \A r : ~(HasRow(s, r) /\ HasRow(t, r))

IsState(s, k, S) ==
    /\ s \in Seq(Seq(S)) /\ Len(s) = k
    /\ Once(s)
    /\ s[1] # <<>>

(* The parts in another order are the same state. *)
LEMMA RearrangedState ==
    ASSUME NEW T, NEW s \in Seq(T), NEW out, Rearranged(out, s)
    PROVE  /\ \A r : HasRow(out, r) <=> HasRow(s, r)
           /\ Once(s) => Once(out)
           /\ Even(s) => Even(out)
<1>1. PICK p : /\ Permutes(p, Len(s))
               /\ \A i \in 1..Len(s) : out[i] = s[p[i]]
  BY DEF Rearranged, Arranged
<1>2. Len(out) = Len(s)
  BY DEF Rearranged
<1>3. /\ \A i \in 1..Len(s) : p[i] \in 1..Len(s)
      /\ \A i, j \in 1..Len(s) : p[i] = p[j] => i = j
      /\ \A j \in 1..Len(s) : \E i \in 1..Len(s) : p[i] = j
  BY <1>1 DEF Permutes
<1>4. ASSUME NEW r, HasRow(out, r) PROVE HasRow(s, r)
  BY <1>1, <1>2, <1>3, <1>4 DEF HasRow
<1>5. ASSUME NEW r, HasRow(s, r) PROVE HasRow(out, r)
  <2>1. PICK j \in 1..Len(s) : r \in Elems(s[j])
    BY <1>5 DEF HasRow
  <2>2. PICK i \in 1..Len(s) : p[i] = j
    BY <1>3
  <2> QED
    BY <1>1, <1>2, <2>1, <2>2 DEF HasRow
<1>6. ASSUME Once(s) PROVE Once(out)
  <2>1. ASSUME NEW i \in 1..Len(s) PROVE Distinct(out[i])
    BY <1>1, <1>3, <1>6 DEF Once
  <2>2. ASSUME NEW i \in 1..Len(s), NEW j \in 1..Len(s), i # j
        PROVE  Elems(out[i]) \cap Elems(out[j]) = {}
    <3>1. p[i] \in 1..Len(s) /\ p[j] \in 1..Len(s) /\ p[i] # p[j]
      BY <1>3, <2>2
    <3>2. Elems(s[p[i]]) \cap Elems(s[p[j]]) = {}
      BY <1>6, <3>1 DEF Once
    <3> QED
      BY <1>1, <3>2
  <2> QED
    BY <1>2, <2>1, <2>2 DEF Once
<1>7. ASSUME Even(s) PROVE Even(out)
  <2>1. ASSUME NEW i \in 1..Len(s), NEW j \in 1..Len(s) PROVE Len(out[i]) = Len(out[j])
    <3>1. p[i] \in 1..Len(s) /\ p[j] \in 1..Len(s)
      BY <1>3
    <3>2. Len(s[p[i]]) = Len(s[p[j]])
      BY <1>7, <3>1 DEF Even
    <3> QED
      BY <1>1, <3>2
  <2> QED
    BY <1>2, <2>1 DEF Even
<1> QED
  BY <1>4, <1>5, <1>6, <1>7

(* Two states' parts, those of one in the opposite order, put together *)
Joined(s, t) == [i \in DOMAIN s |-> s[i] \o t[Len(t) + 1 - i]]

(* Joining two states that have no row in common gives a state with the *)
(* rows of both, of parts as even as theirs.                            *)
LEMMA JoinedState ==
    ASSUME NEW S, NEW k \in Nat, k > 0, NEW s, NEW t,
           IsState(s, k, S), IsState(t, k, S), Apart(s, t)
    PROVE  /\ Joined(s, t) \in Seq(Seq(S)) /\ Len(Joined(s, t)) = k
           /\ Joined(s, t)[1] # <<>>
           /\ Once(Joined(s, t))
           /\ \A r : HasRow(Joined(s, t), r) <=> HasRow(s, r) \/ HasRow(t, r)
           /\ Even(s) /\ Even(t) => Even(Joined(s, t))
<1> DEFINE Q == Seq(S)
           m == Joined(s, t)
           op(i) == k + 1 - i
<1>1. s \in Seq(Q) /\ Len(s) = k /\ t \in Seq(Q) /\ Len(t) = k /\ DOMAIN s = 1..k
  BY DEF IsState
<1>2. ASSUME NEW i \in 1..k
      PROVE  /\ op(i) \in 1..k /\ op(op(i)) = i
             /\ s[i] \in Q /\ t[op(i)] \in Q
             /\ m[i] = s[i] \o t[op(i)]
  <2>1. op(i) \in 1..k /\ op(op(i)) = i
    OBVIOUS
  <2>2. s[i] \in Q /\ t[op(i)] \in Q
    <3> HIDE DEF Q
    <3> QED
      BY <1>1, <2>1
  <2> QED
    BY <1>1, <2>1, <2>2 DEF Joined
<1>3. \A i, j \in 1..k : op(i) = op(j) => i = j
  OBVIOUS
<1>4. \A i \in 1..k : /\ Distinct(s[i]) /\ Distinct(t[i])
                      /\ \A j \in 1..k : i # j => /\ Elems(s[i]) \cap Elems(s[j]) = {}
                                                  /\ Elems(t[i]) \cap Elems(t[j]) = {}
  BY <1>1, Zenon DEF IsState, Once
<1>5. \A i, j \in 1..k : Elems(s[i]) \cap Elems(t[j]) = {}
  BY <1>1 DEF Apart, HasRow
<1>6. m = [i \in 1..k |-> m[i]]
  BY <1>1 DEF Joined
<1> HIDE DEF m, op
<1>7. ASSUME NEW i \in 1..k
      PROVE  /\ m[i] \in Q /\ Len(m[i]) = Len(s[i]) + Len(t[op(i)])
             /\ Elems(m[i]) = Elems(s[i]) \cup Elems(t[op(i)])
             /\ Distinct(m[i])
  <2>1. PICK x \in Seq(S) : x = s[i]
    BY <1>2
  <2>2. PICK y \in Seq(S) : y = t[op(i)]
    BY <1>2
  <2>3. Distinct(x) /\ Distinct(y) /\ Elems(x) \cap Elems(y) = {}
    BY <1>2, <1>4, <1>5, <2>1, <2>2
  <2>4. m[i] = x \o y
    BY <1>2, <2>1, <2>2
  <2> QED
    BY <2>1, <2>2, <2>3, <2>4, ConcatElems
<1>8. m \in Seq(Q) /\ Len(m) = k
  <2> HIDE DEF Q
  <2>1. m \in [1..k -> Q]
    BY <1>6, <1>7
  <2> QED
    BY <2>1, FunctionIsSeq
<1>9. \A r : HasRow(m, r) <=> HasRow(s, r) \/ HasRow(t, r)
  <2>1. ASSUME NEW r, HasRow(m, r) PROVE HasRow(s, r) \/ HasRow(t, r)
    <3>1. PICK i \in 1..k : r \in Elems(m[i])
      BY <1>8, <2>1 DEF HasRow
    <3> QED
      BY <1>1, <1>2, <1>7, <3>1 DEF HasRow
  <2>2. ASSUME NEW r, HasRow(s, r) PROVE HasRow(m, r)
    BY <1>1, <1>7, <1>8, <2>2 DEF HasRow
  <2>3. ASSUME NEW r, HasRow(t, r) PROVE HasRow(m, r)
    <3>1. PICK j \in 1..k : r \in Elems(t[j])
      BY <1>1, <2>3 DEF HasRow
    <3>2. PICK i \in 1..k : op(i) = j
      BY <1>2
    <3> QED
      BY <1>7, <1>8, <3>1, <3>2 DEF HasRow
  <2> QED
    BY <2>1, <2>2, <2>3
<1>10. Once(m)
  <2>1. ASSUME NEW i \in 1..k, NEW j \in 1..k, i # j PROVE Elems(m[i]) \cap Elems(m[j]) = {}
    <3>1. op(i) \in 1..k /\ op(j) \in 1..k /\ op(i) # op(j)
      BY <1>2, <1>3, <2>1
    <3>2. /\ Elems(s[i]) \cap Elems(s[j]) = {}
          /\ Elems(t[op(i)]) \cap Elems(t[op(j)]) = {}
          /\ Elems(s[i]) \cap Elems(t[op(j)]) = {}
          /\ Elems(s[j]) \cap Elems(t[op(i)]) = {}
      BY <1>4, <1>5, <2>1, <3>1
    <3> QED
      BY <1>7, <3>2
  <2> QED
    BY <1>7, <1>8, <2>1 DEF Once
<1>11. m[1] # <<>>
  <2>1. 1 \in 1..k
    OBVIOUS
  <2>2. PICK x \in Seq(S) : x = s[1] /\ x # <<>>
    BY <1>2, <2>1 DEF IsState
  <2>3. PICK y \in Seq(S) : y = t[op(1)]
    BY <1>2, <2>1
  <2>4. Len(m[1]) = Len(x) + Len(y)
    BY <1>7, <2>1, <2>2, <2>3
  <2>5. Len(x) \in Nat /\ Len(x) # 0 /\ Len(y) \in Nat /\ Len(<<>>) = 0
    BY <2>2, <2>3
  <2>6. Len(m[1]) # Len(<<>>)
    BY <2>4, <2>5
  <2> QED
    BY <2>6, Zenon
<1>12. ASSUME Even(s), Even(t) PROVE Even(m)
  <2> SUFFICES ASSUME NEW i \in 1..k, NEW j \in 1..k PROVE Len(m[i]) = Len(m[j])
    BY <1>8 DEF Even
  <2>1. Len(s[i]) = Len(s[j])
    BY <1>1, <1>12 DEF Even
  <2>2. Len(t[op(i)]) = Len(t[op(j)])
    BY <1>1, <1>2, <1>12 DEF Even
  <2> QED
    BY <1>7, <2>1, <2>2
<1> QED
  BY <1>8, <1>9, <1>10, <1>11, <1>12 DEF m, Q


-----------------------------------------------------------------------------
(* The heap of states *)

(* States of k parts that have no row in common *)
IsHeap(h, k, S) ==
    /\ IsFiniteSet(h)
    /\ \A s \in h : IsState(s, k, S)
    /\ \A s, t \in h : s # t => Apart(s, t)

(* What Before compares is numbers. *)
LEMMA StateKeys ==
    ASSUME NEW lens \in Seq(Nat \ {0}), NEW k \in Nat, k > 0,
           NEW s, IsState(s, k, 1..Len(lens))
    PROVE  /\ Spread(lens, s) \in Int
           /\ Tokens(lens, s[1]) \in Nat /\ Len(s[1]) \in Nat
           /\ s[1] # <<>> /\ s[1][1] \in Int /\ HasRow(s, s[1][1])
<1>1. Len(s) = k /\ 1 \in 1..k /\ k \in 1..k
  BY DEF IsState
<1>2. s[1] # <<>> /\ s[1] \in Seq(1..Len(lens)) /\ s[k] \in Seq(1..Len(lens))
  <2> DEFINE Q == Seq(1..Len(lens))
  <2>1. s \in Seq(Q) /\ s[1] # <<>>
    BY DEF IsState
  <2> HIDE DEF Q
  <2>2. s[1] \in Q /\ s[k] \in Q
    BY <1>1, <2>1
  <2> QED
    BY <2>1, <2>2 DEF Q
<1>3. PICK q \in Seq(1..Len(lens)) : q = s[1] /\ q # <<>>
  BY <1>2
<1>4. Len(q) \in Nat /\ 1 \in 1..Len(q) /\ q[1] \in Int
  BY <1>3
<1>5. Tokens(lens, q) \in Nat /\ Tokens(lens, s[k]) \in Nat
  BY <1>2, TokensNat
<1>6. Spread(lens, s) \in Int
  BY <1>1, <1>3, <1>5 DEF Spread
<1>7. HasRow(s, q[1])
  BY <1>1, <1>3, <1>4 DEF HasRow, Elems
<1> QED
  BY <1>3, <1>4, <1>5, <1>6, <1>7

(* Of two states that have no row in common one goes first. *)
LEMMA BeforeTotal ==
    ASSUME NEW lens \in Seq(Nat \ {0}), NEW k \in Nat, k > 0,
           NEW s, IsState(s, k, 1..Len(lens)), NEW t, IsState(t, k, 1..Len(lens)),
           Apart(s, t)
    PROVE  Before(lens, s, t) \/ Before(lens, t, s)
<1>1. /\ Spread(lens, s) \in Int
      /\ Tokens(lens, s[1]) \in Nat /\ Len(s[1]) \in Nat
      /\ s[1] # <<>> /\ s[1][1] \in Int /\ HasRow(s, s[1][1])
  BY StateKeys
<1>2. /\ Spread(lens, t) \in Int
      /\ Tokens(lens, t[1]) \in Nat /\ Len(t[1]) \in Nat
      /\ t[1] # <<>> /\ t[1][1] \in Int /\ HasRow(t, t[1][1])
  BY StateKeys
<1>3. s[1][1] # t[1][1]
  BY <1>1, <1>2 DEF Apart
<1> QED
  BY <1>1, <1>2, <1>3 DEF Before, Lighter

(* Tuples compared from the left, as Before compares its keys *)
Ahead(a, b) ==
    \/ a[1] > b[1]
    \/ a[1] = b[1] /\ \/ a[2] > b[2]
                      \/ a[2] = b[2] /\ a[3] > b[3]
                      \/ a[2] = b[2] /\ a[3] = b[3] /\ a[4] > b[4]

LEMMA AheadTransitive ==
    ASSUME NEW a \in Int \X Int \X Int \X Int, NEW b \in Int \X Int \X Int \X Int,
           NEW c \in Int \X Int \X Int \X Int, Ahead(a, b), Ahead(b, c)
    PROVE  Ahead(a, c)
BY DEF Ahead

(* The keys of a state, in the order they count *)
Keys(lens, s) == <<Spread(lens, s), Tokens(lens, s[1]), Len(s[1]), s[1][1]>>

(* The order of the states is transitive. *)
LEMMA BeforeTransitive ==
    ASSUME NEW lens \in Seq(Nat \ {0}), NEW k \in Nat, k > 0,
           NEW s, IsState(s, k, 1..Len(lens)), NEW t, IsState(t, k, 1..Len(lens)),
           NEW u, IsState(u, k, 1..Len(lens)),
           Before(lens, s, t), Before(lens, t, u)
    PROVE  Before(lens, s, u)
<1>1. /\ Spread(lens, s) \in Int
      /\ Tokens(lens, s[1]) \in Nat /\ Len(s[1]) \in Nat
      /\ s[1] # <<>> /\ s[1][1] \in Int
  BY StateKeys
<1>2. /\ Spread(lens, t) \in Int
      /\ Tokens(lens, t[1]) \in Nat /\ Len(t[1]) \in Nat
      /\ t[1] # <<>> /\ t[1][1] \in Int
  BY StateKeys
<1>3. /\ Spread(lens, u) \in Int
      /\ Tokens(lens, u[1]) \in Nat /\ Len(u[1]) \in Nat
      /\ u[1] # <<>> /\ u[1][1] \in Int
  BY StateKeys
<1>4. Ahead(Keys(lens, s), Keys(lens, t)) /\ Ahead(Keys(lens, t), Keys(lens, u))
  BY <1>1, <1>2, <1>3 DEF Before, Lighter, Ahead, Keys
<1>5. /\ Keys(lens, s) \in Int \X Int \X Int \X Int
      /\ Keys(lens, t) \in Int \X Int \X Int \X Int
      /\ Keys(lens, u) \in Int \X Int \X Int \X Int
  <2>1. ASSUME NEW x, Spread(lens, x) \in Int, Tokens(lens, x[1]) \in Nat,
               Len(x[1]) \in Nat, x[1][1] \in Int
        PROVE  Keys(lens, x) \in Int \X Int \X Int \X Int
    BY <2>1 DEF Keys
  <2> QED
    BY <1>1, <1>2, <1>3, <2>1, Zenon
<1>6. Ahead(Keys(lens, s), Keys(lens, u))
  BY <1>4, <1>5, AheadTransitive, Zenon
<1> QED
  BY <1>1, <1>2, <1>3, <1>6 DEF Before, Lighter, Ahead, Keys

(* What is popped was in the heap. *)
LEMMA PopIn ==
    ASSUME NEW lens \in Seq(Nat \ {0}), NEW k \in Nat, k > 0,
           NEW h, IsHeap(h, k, 1..Len(lens)), h # {}
    PROVE  Pop(lens, h) \in h
<1> DEFINE R == {p \in h \X h : Before(lens, p[1], p[2])}
<1>1. \A s \in h : IsState(s, k, 1..Len(lens))
  BY DEF IsHeap
<1>2. \A s, t \in h : s # t => Apart(s, t)
  BY DEF IsHeap
<1>3. \A s, t \in h : <<s, t>> \in R <=> Before(lens, s, t)
  OBVIOUS
<1>4. \A s, t \in h : s # t => Before(lens, s, t) \/ Before(lens, t, s)
  BY <1>1, <1>2, BeforeTotal
<1>5. \A s, t, u \in h : Before(lens, s, t) /\ Before(lens, t, u) => Before(lens, s, u)
  BY <1>1, BeforeTransitive
<1> HIDE DEF R
<1>6. \E s \in h : \A t \in h \ {s} : <<s, t>> \in R
  <2>1. IsFiniteSet(h)
    BY DEF IsHeap
  <2>2. \A s, t \in h : s # t => <<s, t>> \in R \/ <<t, s>> \in R
    BY <1>3, <1>4
  <2>3. \A s, t, u \in h : <<s, t>> \in R /\ <<t, u>> \in R => <<s, u>> \in R
    BY <1>3, <1>5
  <2>4. Orders(R, h)
    BY <2>2, <2>3 DEF Orders
  <2> QED
    BY <2>1, <2>4, FirstExists
<1>7. \E s \in h : \A t \in h \ {s} : Before(lens, s, t)
  BY <1>3, <1>6
<1> QED
  BY <1>7 DEF Pop

(* Two states merged are a state with the rows of both. *)
LEMMA MergeState ==
    ASSUME NEW lens \in Seq(Nat \ {0}), NEW k \in Nat, k > 0,
           NEW s, IsState(s, k, 1..Len(lens)), NEW t, IsState(t, k, 1..Len(lens)),
           Apart(s, t)
    PROVE  /\ IsState(Merge(lens, s, t), k, 1..Len(lens))
           /\ \A r : HasRow(Merge(lens, s, t), r) <=> HasRow(s, r) \/ HasRow(t, r)
           /\ Even(s) /\ Even(t) => Even(Merge(lens, s, t))
<1> DEFINE S == 1..Len(lens)
           Q == Seq(S)
           m == Joined(s, t)
           out == Descending(lens, m)
<1>1. Merge(lens, s, t) = out
  BY DEF Merge, Joined
<1>2. /\ m \in Seq(Q) /\ Len(m) = k
      /\ m[1] # <<>>
      /\ Once(m)
      /\ \A r : HasRow(m, r) <=> HasRow(s, r) \/ HasRow(t, r)
      /\ Even(s) /\ Even(t) => Even(m)
  BY JoinedState
<1> HIDE DEF m
<1>3. out[1] # <<>>
  <2>1. 1 \in 1..Len(m)
    BY <1>2
  <2> QED
    BY <1>2, <2>1, HeaviestFirst DEF out, Q, S
<1> HIDE DEF Q
<1>4. out \in Seq(Q) /\ Rearranged(out, m)
  BY <1>2, DescendingRearranges
<1> HIDE DEF out
<1>5. /\ \A r : HasRow(out, r) <=> HasRow(m, r)
      /\ Once(m) => Once(out)
      /\ Even(m) => Even(out)
  BY <1>2, <1>4, RearrangedState
<1>6. Len(out) = k
  BY <1>2, <1>4 DEF Rearranged
<1>7. IsState(out, k, S)
  BY <1>2, <1>3, <1>4, <1>5, <1>6 DEF IsState, Q
<1> QED
  BY <1>1, <1>2, <1>5, <1>7

(* A heap that has every row, with states of even parts if they should be. *)
IsFullHeap(h, k, S, even) ==
    /\ IsHeap(h, k, S)
    /\ \A r \in S : \E s \in h : HasRow(s, r)
    /\ even => \A s \in h : Even(s)

(* A turn of the loop leaves one state less. *)
LEMMA MergeFirstHeap ==
    ASSUME NEW lens \in Seq(Nat \ {0}), NEW k \in Nat, k > 0, NEW even,
           NEW h, IsFullHeap(h, k, 1..Len(lens), even), Cardinality(h) > 1
    PROVE  /\ IsFullHeap(MergeFirst(lens, h), k, 1..Len(lens), even)
           /\ Cardinality(MergeFirst(lens, h)) = Cardinality(h) - 1
<1> DEFINE S == 1..Len(lens)
           s == Pop(lens, h)
           t == Pop(lens, h \ {s})
           m == Merge(lens, s, t)
           rest == h \ {s, t}
<1>1. MergeFirst(lens, h) = rest \cup {m}
  BY DEF MergeFirst
<1>2. /\ IsHeap(h, k, S) /\ IsFiniteSet(h) /\ Cardinality(h) \in Nat
      /\ \A u \in h : IsState(u, k, S)
      /\ \A u, v \in h : u # v => Apart(u, v)
  BY FS_CardinalityType DEF IsFullHeap, IsHeap
<1>3. h # {}
  BY <1>2, FS_EmptySet
<1>4. s \in h
  BY <1>2, <1>3, PopIn
<1> HIDE DEF s
<1>5. IsFiniteSet(h \ {s}) /\ Cardinality(h \ {s}) = Cardinality(h) - 1
  BY <1>2, <1>4, FS_RemoveElement
<1>6. h \ {s} # {}
  <2>1. Cardinality(h \ {s}) # 0
    BY <1>2, <1>5
  <2> QED
    BY <2>1, FS_EmptySet
<1>7. IsHeap(h \ {s}, k, S)
  BY <1>2, <1>5 DEF IsHeap
<1>8. t \in h \ {s}
  BY <1>6, <1>7, PopIn
<1> HIDE DEF t
<1>9. IsFiniteSet(rest) /\ Cardinality(rest) = Cardinality(h) - 2
  <2>1. rest = (h \ {s}) \ {t}
    OBVIOUS
  <2>2. IsFiniteSet((h \ {s}) \ {t})
        /\ Cardinality((h \ {s}) \ {t}) = Cardinality(h \ {s}) - 1
    BY <1>5, <1>8, FS_RemoveElement
  <2>3. PICK c \in Nat : c = Cardinality(h)
    BY <1>2
  <2>4. Cardinality(rest) = (c - 1) - 1
    BY <1>5, <2>1, <2>2, <2>3, Zenon
  <2>5. (c - 1) - 1 = c - 2
    BY <2>3
  <2> QED
    BY <2>1, <2>2, <2>3, <2>4, <2>5, Zenon
<1>10. IsState(s, k, S) /\ IsState(t, k, S) /\ Apart(s, t)
  BY <1>2, <1>4, <1>8
<1>11. /\ IsState(m, k, S)
       /\ \A r : HasRow(m, r) <=> HasRow(s, r) \/ HasRow(t, r)
       /\ Even(s) /\ Even(t) => Even(m)
  BY <1>10, MergeState
<1> HIDE DEF m
<1>12. ASSUME NEW u \in rest PROVE Apart(u, m) /\ Apart(m, u)
  <2>1. Apart(u, s) /\ Apart(u, t)
    BY <1>2, <1>4, <1>8
  <2> QED
    BY <1>11, <2>1 DEF Apart
<1>13. m \notin rest
  <2>1. HasRow(m, m[1][1])
    BY <1>11, StateKeys
  <2> QED
    BY <1>12, <2>1 DEF Apart
<1>14. IsFiniteSet(rest \cup {m}) /\ Cardinality(rest \cup {m}) = Cardinality(h) - 1
  <2> HIDE DEF rest
  <2>1. IsFiniteSet(rest \cup {m}) /\ Cardinality(rest \cup {m}) = Cardinality(rest) + 1
    BY <1>9, <1>13, FS_AddElement
  <2> QED
    BY <1>2, <1>9, <2>1
<1>15. IsHeap(rest \cup {m}, k, S)
  <2>1. \A u \in rest \cup {m} : IsState(u, k, S)
    BY <1>2, <1>11
  <2>2. \A u, v \in rest \cup {m} : u # v => Apart(u, v)
    BY <1>2, <1>12
  <2> QED
    BY <1>14, <2>1, <2>2 DEF IsHeap
<1>16. ASSUME NEW r \in S PROVE \E u \in rest \cup {m} : HasRow(u, r)
  <2>1. PICK u \in h : HasRow(u, r)
    BY DEF IsFullHeap
  <2> QED
    BY <1>11, <2>1
<1>17. even => \A u \in rest \cup {m} : Even(u)
  BY <1>4, <1>8, <1>11 DEF IsFullHeap
<1> QED
  BY <1>1, <1>14, <1>15, <1>16, <1>17 DEF IsFullHeap

(* The heap when n states are left *)
IsHeaps(heap, lens, start) ==
    heap = [n \in 1..Cardinality(start) |->
               IF n = Cardinality(start) THEN start ELSE MergeFirst(lens, heap[n + 1])]

(* The recursion of KarmarkarKarp, from any heap, exists. *)
LEMMA HeapsExist ==
    ASSUME NEW lens \in Seq(Nat \ {0}), NEW k \in Nat, k > 0, NEW even,
           NEW start, IsFullHeap(start, k, 1..Len(lens), even)
    PROVE  \E heap : IsHeaps(heap, lens, start)
<1> DEFINE S == 1..Len(lens)
           C == Cardinality(start)
           Y == {h \in SUBSET Seq(Seq(S)) : IsFullHeap(h, k, S, even)}
           turn(h) == IF Cardinality(h) > 1 THEN MergeFirst(lens, h) ELSE h
           G == [p \in (1..C) \X Y |-> turn(p[2])]
<1>1. C \in Nat
  BY FS_CardinalityType DEF IsFullHeap, IsHeap
<1>2. ASSUME NEW h, IsFullHeap(h, k, S, even) PROVE h \in Y
  <2>1. \A s \in h : s \in Seq(Seq(S))
    BY <1>2, Zenon DEF IsFullHeap, IsHeap, IsState
  <2> QED
    BY <1>2, <2>1
<1>3. ASSUME NEW h \in Y PROVE IsFullHeap(h, k, S, even)
  BY Zenon
<1>4. start \in Y
  BY <1>2
<1>5. ASSUME NEW h \in Y
      PROVE  /\ turn(h) \in Y
             /\ Cardinality(h) > 1 => Cardinality(turn(h)) = Cardinality(h) - 1
  <2>1. CASE Cardinality(h) > 1
    <3>1. /\ IsFullHeap(MergeFirst(lens, h), k, S, even)
          /\ Cardinality(MergeFirst(lens, h)) = Cardinality(h) - 1
      BY <1>3, <2>1, MergeFirstHeap
    <3> QED
      BY <1>2, <2>1, <3>1, Zenon
  <2>2. CASE ~(Cardinality(h) > 1)
    BY <2>2, Zenon
  <2> QED
    BY <2>1, <2>2
<1> HIDE DEF Y
<1>6. \A n \in 1..C, h \in Y : G[<<n, h>>] = turn(h)
  BY Zenon
<1> HIDE DEF C, G
<1>7. CASE C = 0
  <2>1. IsHeaps([n \in 1..C |-> start], lens, start)
    <3>1. \A n \in 1..C : FALSE
      BY <1>7
    <3> QED
      BY <3>1 DEF IsHeaps, C
  <2> QED
    BY <2>1
<1>8. CASE C # 0
  <2>1. StaysIn(G, C - 1, Y) /\ C - 1 \in Nat
    <3>1. \A n \in 1..(C - 1) : n \in 1..C
      BY <1>1
    <3>2. C - 1 \in Nat
      BY <1>1, <1>8
    <3> HIDE DEF turn
    <3> QED
      BY <1>5, <1>6, <3>1, <3>2 DEF StaysIn
  <2>2. PICK g \in [0..(C - 1) -> Y] : Recursion(g, start, G, C - 1)
    BY <1>4, <2>1, RecursionExists
  <2>3. g[0] = start
    BY <2>2 DEF Recursion
  <2>4. ASSUME NEW n \in 1..(C - 1) PROVE g[n] = turn(g[n - 1]) /\ g[n - 1] \in Y
    <3>1. n \in 1..C /\ n - 1 \in 0..(C - 1)
      BY <1>1
    <3>2. g[n - 1] \in Y
      BY <2>2, <3>1
    <3> HIDE DEF turn
    <3> QED
      BY <1>6, <2>2, <3>1, <3>2 DEF Recursion
  <2> DEFINE Z == {n \in Nat : n <= C - 1 => Cardinality(g[n]) = C - n}
  <2>5. 0 \in Z
    BY <1>1, <2>3 DEF C
  <2>6. ASSUME NEW n \in Nat, n \in Z PROVE n + 1 \in Z
    <3> SUFFICES ASSUME n + 1 <= C - 1 PROVE Cardinality(g[n + 1]) = C - (n + 1)
      OBVIOUS
    <3>1. n + 1 \in 1..(C - 1) /\ (n + 1) - 1 = n /\ n <= C - 1
      BY <1>1
    <3>2. Cardinality(g[n]) = C - n /\ C - n > 1
      BY <1>1, <2>6, <3>1
    <3>3. g[n + 1] = turn(g[n]) /\ g[n] \in Y
      BY <2>4, <3>1
    <3> HIDE DEF turn
    <3>4. Cardinality(g[n + 1]) = Cardinality(g[n]) - 1
      BY <1>5, <3>2, <3>3
    <3> QED
      BY <1>1, <3>2, <3>4
  <2>7. Nat \subseteq Z
    <3> HIDE DEF Z
    <3> QED
      BY <2>5, <2>6, NatSetInduction
  <2> DEFINE heap == [n \in 1..C |-> g[C - n]]
  <2>8. ASSUME NEW n \in 1..C
        PROVE  heap[n] = IF n = C THEN start ELSE MergeFirst(lens, heap[n + 1])
    <3>1. CASE n = C
      BY <1>1, <2>3, <3>1
    <3>2. CASE n # C
      <4>1. /\ n + 1 \in 1..C /\ C - n \in 1..(C - 1) /\ C - (n + 1) = (C - n) - 1
            /\ (C - n) - 1 \in Nat /\ (C - n) - 1 <= C - 1 /\ C - ((C - n) - 1) > 1
        BY <1>1, <3>2
      <4>2. heap[n] = g[C - n] /\ heap[n + 1] = g[(C - n) - 1]
        BY <4>1
      <4>3. Cardinality(g[(C - n) - 1]) > 1
        BY <2>7, <4>1
      <4>4. g[C - n] = turn(g[(C - n) - 1])
        BY <2>4, <4>1
      <4>5. g[C - n] = MergeFirst(lens, g[(C - n) - 1])
        BY <4>3, <4>4, Zenon
      <4> QED
        BY <3>2, <4>2, <4>5
    <3> QED
      BY <3>1, <3>2
  <2>9. heap = [n \in 1..C |-> heap[n]]
    OBVIOUS
  <2> HIDE DEF heap
  <2>10. heap = [n \in 1..C |-> IF n = C THEN start ELSE MergeFirst(lens, heap[n + 1])]
    BY <2>8, <2>9, Zenon
  <2>11. IsHeaps(heap, lens, start)
    BY <2>10, Zenon DEF IsHeaps, C
  <2> QED
    BY <2>11
<1> QED
  BY <1>7, <1>8

(* All of them are full heaps, of the size they should have. *)
LEMMA HeapsFull ==
    ASSUME NEW lens \in Seq(Nat \ {0}), NEW k \in Nat, k > 0, NEW even,
           NEW start, IsFullHeap(start, k, 1..Len(lens), even),
           NEW heap, IsHeaps(heap, lens, start)
    PROVE  \A n \in 1..Cardinality(start) :
              IsFullHeap(heap[n], k, 1..Len(lens), even) /\ Cardinality(heap[n]) = n
<1> DEFINE C == Cardinality(start)
           OK(n) == IsFullHeap(heap[n], k, 1..Len(lens), even) /\ Cardinality(heap[n]) = n
           Z == {n \in Nat : n < C => OK(C - n)}
<1>1. C \in Nat
  BY FS_CardinalityType DEF IsFullHeap, IsHeap
<1>2. \A n \in 1..C : heap[n] = IF n = C THEN start ELSE MergeFirst(lens, heap[n + 1])
  BY Zenon DEF IsHeaps
<1>3. C # 0 => OK(C)
  BY <1>1, <1>2
<1> HIDE DEF C
<1>4. 0 \in Z
  BY <1>1, <1>3
<1>5. ASSUME NEW n \in Nat, n \in Z PROVE n + 1 \in Z
  <2> SUFFICES ASSUME n + 1 < C PROVE OK(C - (n + 1))
    OBVIOUS
  <2>1. PICK m \in Nat : m = C - (n + 1)
    BY <1>1
  <2>2. m \in 1..C /\ m # C /\ m + 1 = C - n /\ n < C /\ m + 1 > 1 /\ (m + 1) - 1 = m
    BY <1>1, <2>1
  <2>3. OK(m + 1)
    BY <1>5, <2>2
  <2>4. heap[m] = MergeFirst(lens, heap[m + 1])
    BY <1>2, <2>2
  <2>5. Cardinality(heap[m + 1]) > 1
    BY <2>2, <2>3
  <2>6. OK(m)
    BY <2>2, <2>3, <2>4, <2>5, MergeFirstHeap
  <2> QED
    BY <2>1, <2>6
<1>6. Nat \subseteq Z
  <2> HIDE DEF Z
  <2> QED
    BY <1>4, <1>5, NatSetInduction
<1>7. ASSUME NEW n \in 1..C PROVE OK(n)
  <2>1. C - n \in Nat /\ C - n < C /\ C - (C - n) = n
    BY <1>1
  <2>2. C - n \in Z
    BY <1>6, <2>1
  <2> QED
    BY <2>1, <2>2
<1> QED
  BY <1>7 DEF C

(* The differencing method gives every row to one of the k parts. *)
LEMMA KarmarkarKarpState ==
    ASSUME NEW lens \in Seq(Nat \ {0}), NEW k \in Nat, k > 0, NEW even,
           IsFullHeap(Heap(lens, k, even), k, 1..Len(lens), even),
           Heap(lens, k, even) # {}
    PROVE  /\ IsState(KarmarkarKarp(lens, k, even), k, 1..Len(lens))
           /\ \A r \in 1..Len(lens) : HasRow(KarmarkarKarp(lens, k, even), r)
           /\ even => Even(KarmarkarKarp(lens, k, even))
<1> DEFINE start == Heap(lens, k, even)
           heap == CHOOSE f : IsHeaps(f, lens, start)
           end == heap[1]
<1>1. KarmarkarKarp(lens, k, even) = CHOOSE s \in end : TRUE
  BY Zenon DEF KarmarkarKarp, IsHeaps
<1> HIDE DEF start
<1>2. IsFullHeap(start, k, 1..Len(lens), even) /\ start # {}
  BY DEF start
<1>3. IsHeaps(heap, lens, start)
  BY <1>2, HeapsExist
<1>4. 1 \in 1..Cardinality(start)
  <2>1. IsFiniteSet(start)
    BY <1>2 DEF IsFullHeap, IsHeap
  <2>2. Cardinality(start) \in Nat /\ Cardinality(start) # 0
    BY <1>2, <2>1, FS_CardinalityType, FS_EmptySet
  <2> QED
    BY <2>2
<1> HIDE DEF heap
<1>5. IsFullHeap(end, k, 1..Len(lens), even) /\ Cardinality(end) = 1
  BY <1>2, <1>3, <1>4, HeapsFull
<1>6. PICK s : end = {s}
  <2>1. IsFiniteSet(end)
    BY <1>5 DEF IsFullHeap, IsHeap
  <2> QED
    BY <1>5, <2>1, FS_Singleton
<1>7. KarmarkarKarp(lens, k, even) = s
  BY <1>1, <1>6
<1> QED
  BY <1>5, <1>6, <1>7 DEF IsFullHeap, IsHeap


-----------------------------------------------------------------------------
(* The heap a partition starts with *)

(* A state of one row, for uneven parts *)
OfRow(row, k) == [i \in 1..k |-> IF i = 1 THEN <<row>> ELSE <<>>]

(* A row alone in the first part is a state. *)
LEMMA OfRowState ==
    ASSUME NEW S, NEW k \in Nat, k > 0, NEW row \in S
    PROVE  /\ IsState(OfRow(row, k), k, S)
           /\ \A r : HasRow(OfRow(row, k), r) <=> r = row
<1> DEFINE s == OfRow(row, k)
           Q == Seq(S)
<1>1. s \in [1..k -> Q] /\ \A i \in 1..k : s[i] = IF i = 1 THEN <<row>> ELSE <<>>
  <2>1. <<row>> \in Q /\ <<>> \in Q
    OBVIOUS
  <2> HIDE DEF Q
  <2> QED
    BY <2>1 DEF OfRow
<1>2. s \in Seq(Q) /\ Len(s) = k
  <2> HIDE DEF Q, s
  <2> QED
    BY <1>1, FunctionIsSeq
<1>3. 1 \in 1..k
  OBVIOUS
<1> HIDE DEF s
<1>4. Elems(<<row>>) = {row} /\ Elems(<<>>) = {} /\ Distinct(<<row>>) /\ Distinct(<<>>)
  <2>1. Len(<<row>>) = 1 /\ <<row>>[1] = row /\ Len(<<>>) = 0
    OBVIOUS
  <2> QED
    BY <2>1 DEF Elems, Distinct
<1>5. \A i \in 1..k : Elems(s[i]) = (IF i = 1 THEN {row} ELSE {}) /\ Distinct(s[i])
  BY <1>1, <1>4
<1>6. Once(s)
  BY <1>2, <1>5 DEF Once
<1>7. s[1] # <<>>
  <2>1. Len(<<row>>) = 1 /\ Len(<<>>) = 0
    OBVIOUS
  <2>2. s[1] = <<row>>
    BY <1>1, <1>3
  <2>3. <<row>> # <<>>
    BY <2>1
  <2> QED
    BY <2>2, <2>3
<1>8. \A r : HasRow(s, r) <=> r = row
  BY <1>2, <1>3, <1>5 DEF HasRow
<1> QED
  BY <1>2, <1>6, <1>7, <1>8 DEF IsState, s, Q

(* Without equal_size the heap starts with a state for each row. *)
LEMMA HeapOfRows ==
    ASSUME NEW lens \in Seq(Nat \ {0}), NEW k \in Nat, k > 0
    PROVE  /\ IsFullHeap(Heap(lens, k, FALSE), k, 1..Len(lens), FALSE)
           /\ Len(lens) > 0 => Heap(lens, k, FALSE) # {}
<1> DEFINE h == Heap(lens, k, FALSE)
           S == 1..Len(lens)
           f == [row \in S |-> OfRow(row, k)]
<1>1. DOMAIN lens = S /\ Len(lens) \in Nat
  OBVIOUS
<1>2. h = {OfRow(row, k) : row \in S}
  BY <1>1 DEF Heap, OfRow
<1> HIDE DEF h
<1>3. IsFiniteSet(h)
  <2>1. IsFiniteSet(S)
    BY <1>1, FS_Interval
  <2>2. \A row \in S : f[row] = OfRow(row, k)
    OBVIOUS
  <2> HIDE DEF S, f
  <2>3. h = {f[row] : row \in S}
    BY <1>2, <2>2
  <2> QED
    BY <2>1, <2>3, ImageFinite
<1> HIDE DEF S
<1>0. \A row \in S : /\ IsState(OfRow(row, k), k, S)
                     /\ \A r : HasRow(OfRow(row, k), r) <=> r = row
  BY OfRowState
<1>4. \A s \in h : IsState(s, k, S)
  BY <1>0, <1>2
<1>5. \A s, t \in h : s # t => Apart(s, t)
  BY <1>0, <1>2 DEF Apart
<1>6. \A r \in S : \E s \in h : HasRow(s, r)
  BY <1>0, <1>2
<1>7. ASSUME Len(lens) > 0 PROVE h # {}
  <2>1. 1 \in S
    BY <1>1, <1>7 DEF S
  <2> QED
    BY <1>2, <2>1
<1>8. IsFullHeap(h, k, S, FALSE)
  BY <1>3, <1>4, <1>5, <1>6 DEF IsFullHeap, IsHeap
<1> QED
  BY <1>7, <1>8 DEF h, S

(* A state of rows of similar length, one in each part *)
OfBlock(b, g, k) == [i \in 1..k |-> <<b[g * k + k + 1 - i]>>]

(* r is one of block g of b. *)
InBlock(r, b, g, k) == \E e \in 1..k : r = b[g * k + e]

(* k rows of similar length, one to a part, are a state. *)
LEMMA OfBlockState ==
    ASSUME NEW k \in Nat, k > 0, NEW m \in Nat, NEW b, Permutes(b, m * k),
           NEW g \in 0..(m - 1)
    PROVE  /\ IsState(OfBlock(b, g, k), k, 1..(m * k))
           /\ \A r : HasRow(OfBlock(b, g, k), r) <=> InBlock(r, b, g, k)
           /\ Even(OfBlock(b, g, k))
<1> DEFINE S == 1..(m * k)
           s == OfBlock(b, g, k)
           Q == Seq(S)
           at(i) == b[g * k + k + 1 - i]
<1>2. ASSUME NEW i \in 1..k
      PROVE  k + 1 - i \in 1..k /\ g * k + k + 1 - i = g * k + (k + 1 - i)
  OBVIOUS
<1>3. \A x, y \in S : b[x] \in S /\ (b[x] = b[y] => x = y)
  BY DEF Permutes
<1>4. ASSUME NEW i \in 1..k PROVE g * k + k + 1 - i \in S /\ at(i) \in S
  <2>1. g * k + k + 1 - i \in S
    BY <1>2, BlockIn
  <2> QED
    BY <1>3, <2>1
<1>5. ASSUME NEW i \in 1..k, NEW j \in 1..k, at(i) = at(j) PROVE i = j
  <2>1. g * k + k + 1 - i = g * k + k + 1 - j
    BY <1>3, <1>4, <1>5
  <2>2. g * k \in Int
    OBVIOUS
  <2> QED
    BY <2>1, <2>2
<1>6. s \in [1..k -> Q] /\ \A i \in 1..k : s[i] = <<at(i)>>
  <2>1. \A i \in 1..k : <<at(i)>> \in Q
    <3> HIDE DEF S, at
    <3> QED
      BY <1>4
  <2> HIDE DEF Q
  <2> QED
    BY <2>1 DEF OfBlock
<1>7. s \in Seq(Q) /\ Len(s) = k
  <2> HIDE DEF Q, s
  <2> QED
    BY <1>6, FunctionIsSeq
<1>8. \A x : Elems(<<x>>) = {x} /\ Distinct(<<x>>) /\ Len(<<x>>) = 1 /\ <<x>> # <<>>
  <2>1. \A x : Len(<<x>>) = 1 /\ <<x>>[1] = x
    OBVIOUS
  <2>2. Len(<<>>) = 0
    OBVIOUS
  <2> QED
    BY <2>1, <2>2 DEF Elems, Distinct
<1> HIDE DEF s, at
<1>14. \A i \in 1..k : /\ Elems(s[i]) = {at(i)} /\ Distinct(s[i])
                       /\ Len(s[i]) = 1 /\ s[i] # <<>>
  BY <1>6, <1>8, Zenon
<1>15. \A i, j \in 1..k : i # j => at(i) # at(j)
  BY <1>5
<1>9. Once(s)
  BY <1>7, <1>14, <1>15 DEF Once
<1>10. s[1] # <<>>
  <2>1. 1 \in 1..k
    OBVIOUS
  <2> QED
    BY <1>14, <2>1
<1>11. \A r : HasRow(s, r) <=> \E i \in 1..k : r = at(i)
  BY <1>7, <1>14 DEF HasRow
<1>12. ASSUME NEW r PROVE (\E i \in 1..k : r = at(i)) <=> InBlock(r, b, g, k)
  <2>1. \A i \in 1..k : at(i) = b[g * k + (k + 1 - i)]
    BY <1>2 DEF at
  <2>2. ASSUME NEW e \in 1..k PROVE b[g * k + e] = at(k + 1 - e) /\ k + 1 - e \in 1..k
    <3>1. k + 1 - e \in 1..k /\ k + 1 - (k + 1 - e) = e
      OBVIOUS
    <3> QED
      BY <2>1, <3>1
  <2> QED
    BY <1>2, <2>1, <2>2 DEF InBlock
<1>13. Even(s)
  BY <1>7, <1>14 DEF Even
<1> QED
  BY <1>7, <1>9, <1>10, <1>11, <1>12, <1>13 DEF IsState, s, Q

(* With equal_size it starts with a state for every k rows of similar *)
(* length.                                                             *)
LEMMA HeapOfBlocks ==
    ASSUME NEW lens \in Seq(Nat \ {0}), NEW k \in Nat, k > 0,
           Len(lens) % k = 0
    PROVE  /\ IsFullHeap(Heap(lens, k, TRUE), k, 1..Len(lens), TRUE)
           /\ Len(lens) > 0 => Heap(lens, k, TRUE) # {}
<1> DEFINE h == Heap(lens, k, TRUE)
           b == ByLength(lens)
<1>0. PICK N \in Nat : N = Len(lens)
  OBVIOUS
<1>1. PICK m \in Nat : m = N \div k /\ m * k = N
  <2>1. N % k = 0
    BY <1>0
  <2> QED
    BY <2>1, DivMod
<1> DEFINE S == 1..N
           G == 0..(m - 1)
           f == [g \in G |-> OfBlock(b, g, k)]
<1>2. Permutes(b, m * k)
  <2>1. Numbers(lens) \in Seq(S) /\ Len(Numbers(lens)) = N
        /\ \A i \in S : Numbers(lens)[i] = i
    <3>1. Numbers(lens) \in [1..N -> S]
      BY <1>0 DEF Numbers
    <3>2. \A i \in S : Numbers(lens)[i] = i
      BY <1>0 DEF Numbers
    <3> QED
      BY <3>1, <3>2, FunctionIsSeq
  <2>2. b \in Seq(S) /\ Rearranged(b, Numbers(lens))
    BY <2>1, ByLengthRearranges
  <2>3. PICK p : Permutes(p, N) /\ \A i \in S : b[i] = Numbers(lens)[p[i]]
    BY <2>1, <2>2 DEF Rearranged, Arranged
  <2>4. Len(b) = N
    BY <2>1, <2>2 DEF Rearranged
  <2> HIDE DEF b
  <2>5. b \in [1..N -> 1..N]
    BY <2>2, <2>4
  <2>6. \A i \in S : b[i] = p[i]
    BY <2>1, <2>3 DEF Permutes
  <2>8. /\ \A i, j \in 1..N : p[i] = p[j] => i = j
        /\ \A j \in 1..N : \E i \in 1..N : p[i] = j
    BY <2>3 DEF Permutes
  <2>9. \A i, j \in 1..N : b[i] = b[j] => i = j
    BY <2>6, <2>8
  <2>10. ASSUME NEW j \in 1..N PROVE \E i \in 1..N : b[i] = j
    <3>1. PICK i \in 1..N : p[i] = j
      BY <2>8
    <3> QED
      BY <2>6, <3>1
  <2>7. Permutes(b, N)
    BY <2>5, <2>9, <2>10, Zenon DEF Permutes
  <2> QED
    BY <1>1, <2>7, Zenon
<1>3. h = {OfBlock(b, g, k) : g \in G}
  BY <1>0, <1>1 DEF Heap, OfBlock
<1> HIDE DEF h, b
<1>4. IsFiniteSet(h)
  <2>1. IsFiniteSet(G)
    BY FS_Interval
  <2>2. \A g \in G : f[g] = OfBlock(b, g, k)
    OBVIOUS
  <2> HIDE DEF G, f
  <2>3. h = {f[g] : g \in G}
    BY <1>3, <2>2
  <2> QED
    BY <2>1, <2>3, ImageFinite
<1>5. \A g \in G : /\ IsState(OfBlock(b, g, k), k, S)
                   /\ \A r : HasRow(OfBlock(b, g, k), r) <=> InBlock(r, b, g, k)
                   /\ Even(OfBlock(b, g, k))
  <2>1. S = 1..(m * k)
    BY <1>1
  <2> HIDE DEF S, G
  <2> SUFFICES ASSUME NEW g \in G
               PROVE  /\ IsState(OfBlock(b, g, k), k, S)
                      /\ \A r : HasRow(OfBlock(b, g, k), r) <=> InBlock(r, b, g, k)
                      /\ Even(OfBlock(b, g, k))
    BY Zenon
  <2>2. g \in 0..(m - 1)
    BY DEF G
  <2>3. /\ IsState(OfBlock(b, g, k), k, 1..(m * k))
        /\ \A r : HasRow(OfBlock(b, g, k), r) <=> InBlock(r, b, g, k)
        /\ Even(OfBlock(b, g, k))
    BY <1>2, <2>2, OfBlockState
  <2> QED
    BY <2>1, <2>3, Zenon
<1>16. \A g \in G : \A r : HasRow(OfBlock(b, g, k), r) => InBlock(r, b, g, k)
  BY <1>5, Zenon
<1>6. \A s \in h : IsState(s, k, S) /\ Even(s)
  BY <1>3, <1>5
<1>7. ASSUME NEW s \in h, NEW t \in h, s # t PROVE Apart(s, t)
  <2> SUFFICES ASSUME NEW r, HasRow(s, r) /\ HasRow(t, r) PROVE FALSE
    BY DEF Apart
  <2>1. PICK g \in G : s = OfBlock(b, g, k)
    BY <1>3
  <2>2. PICK q \in G : t = OfBlock(b, q, k)
    BY <1>3
  <2>3. PICK e \in 1..k : r = b[g * k + e]
    BY <1>7, <1>16, <2>1 DEF InBlock
  <2>4. PICK d \in 1..k : r = b[q * k + d]
    BY <1>7, <1>16, <2>2 DEF InBlock
  <2>5. g * k + e \in 1..(m * k) /\ q * k + d \in 1..(m * k)
    BY BlockIn
  <2>6. g * k + e = q * k + d
    BY <1>2, <2>3, <2>4, <2>5 DEF Permutes
  <2>7. g = q
    BY <2>6, BlockUnique
  <2> QED
    BY <1>7, <2>1, <2>2, <2>7
<1>8. ASSUME NEW r \in S PROVE \E s \in h : HasRow(s, r)
  <2>1. PICK j \in 1..(m * k) : b[j] = r
    BY <1>1, <1>2 DEF Permutes
  <2>2. PICK g \in G : \E e \in 1..k : IsAt(j, g, e, k)
    BY BlockOf
  <2>4. PICK e \in 1..k : j = g * k + e
    BY <2>2 DEF IsAt
  <2> HIDE DEF G
  <2>5. InBlock(r, b, g, k)
    BY <2>1, <2>4 DEF InBlock
  <2>3. HasRow(OfBlock(b, g, k), r)
    BY <1>5, <2>2, <2>5
  <2> QED
    BY <1>3, <2>3
<1>9. ASSUME N > 0 PROVE h # {}
  <2>1. m # 0
    BY <1>1, <1>9
  <2>2. 0 \in G
    BY <2>1
  <2> QED
    BY <1>3, <2>2
<1>10. IsFullHeap(h, k, S, TRUE)
  BY <1>4, <1>6, <1>7, <1>8 DEF IsFullHeap, IsHeap
<1> QED
  BY <1>0, <1>9, <1>10 DEF h


-----------------------------------------------------------------------------
(* Partitions *)

(* Parts that have each of their rows once, one after the other *)
LEMMA FlattenOnce ==
    ASSUME NEW S, NEW s \in Seq(Seq(S)), NEW f, Flattens(f, s, S), NEW n \in 0..Len(s)
    PROVE  /\ f[n] \in Seq(S)
           /\ \A r : r \in Elems(f[n]) <=> \E i \in 1..n : r \in Elems(s[i])
           /\ Once(s) => Distinct(f[n])
<1> DEFINE Q == Seq(S)
           N == Len(s)
           In(r, m) == \E i \in 1..m : r \in Elems(s[i])
           OK(m) == /\ \A r : r \in Elems(f[m]) <=> In(r, m)
                    /\ Once(s) => Distinct(f[m])
           Z == {m \in Nat : m <= N => OK(m)}
<1>1. N \in Nat /\ \A i \in 1..N : s[i] \in Q
  <2>1. s \in Seq(Q)
    OBVIOUS
  <2> HIDE DEF Q
  <2> QED
    BY <2>1
<1>2. /\ \A m \in 0..N : f[m] \in Q
      /\ f[0] = <<>>
      /\ \A i \in 1..N : f[i] = f[i - 1] \o s[i]
  <2> HIDE DEF Q
  <2> QED
    BY DEF Flattens, Q
<1>3. 0 \in Z
  <2>1. Len(<<>>) = 0
    OBVIOUS
  <2>2. Elems(<<>>) = {} /\ Distinct(<<>>)
    BY <2>1 DEF Elems, Distinct
  <2> QED
    BY <1>2, <2>2
<1>4. ASSUME NEW m \in Nat, m \in Z PROVE m + 1 \in Z
  <2> SUFFICES ASSUME m + 1 <= N PROVE OK(m + 1)
    OBVIOUS
  <2>1. m + 1 \in 1..N /\ (m + 1) - 1 = m /\ m \in 0..N /\ m <= N
    BY <1>1
  <2>2. PICK x \in Seq(S) : x = f[m]
    BY <1>2, <2>1
  <2>3. PICK y \in Seq(S) : y = s[m + 1]
    BY <1>1, <2>1
  <2>4. f[m + 1] = x \o y
    BY <1>2, <2>1, <2>2, <2>3
  <2>5. /\ Elems(x \o y) = Elems(x) \cup Elems(y)
        /\ Distinct(x) /\ Distinct(y) /\ Elems(x) \cap Elems(y) = {} => Distinct(x \o y)
    BY ConcatElems
  <2>6. OK(m)
    BY <1>4, <2>1
  <2>7. ASSUME NEW r PROVE r \in Elems(f[m + 1]) <=> In(r, m + 1)
    <3>1. r \in Elems(f[m + 1]) <=> In(r, m) \/ r \in Elems(s[m + 1])
      BY <2>2, <2>3, <2>4, <2>5, <2>6
    <3>2. \A i : i \in 1..(m + 1) <=> i \in 1..m \/ i = m + 1
      OBVIOUS
    <3> QED
      BY <3>1, <3>2
  <2>8. ASSUME Once(s) PROVE Distinct(f[m + 1])
    <3>1. Distinct(x)
      BY <2>2, <2>6, <2>8
    <3>2. Distinct(y)
      BY <2>1, <2>3, <2>8 DEF Once
    <3>3. ASSUME NEW r, r \in Elems(x) /\ r \in Elems(y) PROVE FALSE
      <4>1. PICK i \in 1..m : r \in Elems(s[i])
        BY <2>2, <2>6, <3>3
      <4>2. i \in 1..N /\ i # m + 1
        BY <2>1
      <4>3. Elems(s[i]) \cap Elems(s[m + 1]) = {}
        BY <2>1, <2>8, <4>2 DEF Once
      <4> QED
        BY <2>3, <3>3, <4>1, <4>3
    <3> QED
      BY <2>4, <2>5, <3>1, <3>2, <3>3
  <2> QED
    BY <2>7, <2>8
<1>5. Nat \subseteq Z
  <2> HIDE DEF Z
  <2> QED
    BY <1>3, <1>4, NatSetInduction
<1>6. OK(n)
  <2>1. n \in Nat /\ n <= N
    BY <1>1
  <2>2. n \in Z
    BY <1>5, <2>1
  <2> HIDE DEF OK
  <2> QED
    BY <2>1, <2>2
<1> QED
  BY <1>2, <1>6

(* Whatever the lengths and the number of parts, the differencing method  *)
(* as get_seqlen_balanced_partitions calls it gives every row to one part *)
(* and to no other, and with equal_size each part the same number of      *)
(* rows.                                                                  *)
THEOREM PartitionsState ==
    ASSUME NEW lens \in Seq(Nat \ {0}), Len(lens) > 0, NEW k \in Nat, k > 0,
           NEW even \in BOOLEAN, even => Len(lens) % k = 0
    PROVE  /\ Partitions(lens, k, even) \in Seq(Seq(1..Len(lens)))
           /\ Len(Partitions(lens, k, even)) = k
           /\ Once(Partitions(lens, k, even))
           /\ \A r \in 1..Len(lens) : HasRow(Partitions(lens, k, even), r)
           /\ even => Even(Partitions(lens, k, even))
<1> DEFINE S == 1..Len(lens)
           Q == Seq(S)
           kk == KarmarkarKarp(lens, k, even)
           p == Partitions(lens, k, even)
<1>1. IsFullHeap(Heap(lens, k, even), k, S, even) /\ Heap(lens, k, even) # {}
  <2>1. CASE even = TRUE
    BY <2>1, HeapOfBlocks
  <2>2. CASE even = FALSE
    BY <2>2, HeapOfRows
  <2> QED
    BY <2>1, <2>2
<1>2. IsState(kk, k, S) /\ (\A r \in S : HasRow(kk, r)) /\ (even => Even(kk))
  BY <1>1, KarmarkarKarpState
<1> HIDE DEF kk
<1>3. kk \in Seq(Q) /\ Len(kk) = k /\ Once(kk)
  BY <1>2 DEF IsState
<1>4. ASSUME NEW i \in 1..k PROVE kk[i] \in Q
  <2> HIDE DEF Q
  <2> QED
    BY <1>3
<1>5. p = [i \in 1..k |-> Sorted(kk[i], <)]
  BY Zenon DEF Partitions, kk
<1>6. \A i \in 1..k : p[i] = Sorted(kk[i], <)
  BY <1>5, Zenon
<1> HIDE DEF p
<1>7. ASSUME NEW i \in 1..k
      PROVE  /\ p[i] \in Q /\ Len(p[i]) = Len(kk[i])
             /\ Elems(p[i]) = Elems(kk[i]) /\ (Distinct(kk[i]) => Distinct(p[i]))
  <2>1. PICK x \in Seq(S) : x = kk[i]
    BY <1>4
  <2>2. Sorted(x, <) \in Seq(S) /\ Rearranged(Sorted(x, <), x)
    BY SortedRearranges
  <2>3. p[i] = Sorted(x, <)
    BY <1>6, <2>1
  <2>4. p[i] \in Seq(S) /\ Rearranged(p[i], x)
    BY <2>2, <2>3
  <2>5. Elems(p[i]) = Elems(x) /\ (Distinct(x) => Distinct(p[i]))
    BY <2>4, RearrangedElems
  <2>6. Len(p[i]) = Len(x)
    BY <2>4 DEF Rearranged
  <2> QED
    BY <2>1, <2>4, <2>5, <2>6
<1>8. p \in Seq(Q) /\ Len(p) = k
  <2> HIDE DEF Q
  <2>1. DOMAIN p = 1..k /\ p = [i \in 1..k |-> p[i]]
    BY <1>5, <1>6, Zenon
  <2>2. p \in [1..k -> Q]
    BY <1>7, <2>1
  <2> QED
    BY <2>2, FunctionIsSeq
<1>9. Once(p)
  <2>1. \A i \in 1..k : Distinct(kk[i])
    BY <1>3 DEF Once
  <2>2. \A i, j \in 1..k : i # j => Elems(kk[i]) \cap Elems(kk[j]) = {}
    BY <1>3 DEF Once
  <2> QED
    BY <1>7, <1>8, <2>1, <2>2 DEF Once
<1>10. ASSUME NEW r \in S PROVE HasRow(p, r)
  <2>1. PICK i \in 1..k : r \in Elems(kk[i])
    BY <1>2, <1>3 DEF HasRow
  <2> QED
    BY <1>7, <1>8, <2>1 DEF HasRow
<1>11. ASSUME even PROVE Even(p)
  <2>1. \A i, j \in 1..k : Len(kk[i]) = Len(kk[j])
    BY <1>2, <1>3, <1>11 DEF Even
  <2> QED
    BY <1>7, <1>8, <2>1 DEF Even
<1> QED
  BY <1>8, <1>9, <1>10, <1>11 DEF p, Q

(* The parts one after the other are therefore a permutation of the rows, *)
(* which _balance_batch reorders the batch by and rearrange_micro_batches *)
(* can be reverted from.                                                  *)
THEOREM PartitionsPermute ==
    ASSUME NEW lens \in Seq(Nat \ {0}), Len(lens) > 0, NEW k \in Nat, k > 0,
           NEW even \in BOOLEAN, even => Len(lens) % k = 0
    PROVE  /\ FlattenSeq(Partitions(lens, k, even)) \in Seq(1..Len(lens))
           /\ Len(FlattenSeq(Partitions(lens, k, even))) = Len(lens)
           /\ Permutes(FlattenSeq(Partitions(lens, k, even)), Len(lens))
<1>0. PICK n \in Nat : n = Len(lens)
  OBVIOUS
<1> DEFINE p == Partitions(lens, k, even)
<1>1. /\ p \in Seq(Seq(1..n)) /\ Len(p) = k /\ Once(p)
      /\ \A r \in 1..n : HasRow(p, r)
  BY <1>0, PartitionsState
<1> HIDE DEF p
<1>2. PICK f : Flattens(f, p, 1..n) /\ FlattenSeq(p) = f[Len(p)]
  BY <1>1, FlattenIs
<1>3. Len(p) \in 0..Len(p)
  BY <1>1
<1>4. /\ f[Len(p)] \in Seq(1..n)
      /\ \A r : r \in Elems(f[Len(p)]) <=> \E i \in 1..Len(p) : r \in Elems(p[i])
      /\ Distinct(f[Len(p)])
  BY <1>1, <1>2, <1>3, FlattenOnce
<1>5. PICK s \in Seq(1..n) : s = FlattenSeq(p)
  BY <1>2, <1>4
<1>6. Elems(s) = 1..n
  <2>1. \A r \in 1..n : r \in Elems(s)
    BY <1>1, <1>2, <1>4, <1>5 DEF HasRow
  <2>2. \A r \in Elems(s) : r \in 1..n
    BY DEF Elems
  <2> QED
    BY <2>1, <2>2
<1>7. Len(s) = n /\ Permutes(s, n)
  BY <1>2, <1>4, <1>5, <1>6, ElemsPermute
<1> QED
  BY <1>0, <1>5, <1>7 DEF p

-----------------------------------------------------------------------------
(* What the GPUs hold *)

PCs == {"idle", "called", "sync", "synced", "kv", "gather", "generate", "exit",
        "mini", "forward", "saving", "offload", "returned"}

Places == {"params", "optimizer", "engine", "kv_cache"}

Types ==
    /\ task = [r \in Ranks |-> task[r]]
    /\ \A r \in Ranks : "pc" \in DOMAIN task[r] /\ task[r].pc \in PCs
    /\ gpu \in [Ranks -> SUBSET Places]

(* Between calls no rank has anything to do. *)
Resting == call = "none" => \A r \in Ranks : At(r, "idle")

(* What is on a GPU at each place of a call *)
Memory ==
    \A r \in Ranks :
        /\ gpu[r] \cap Params # {} =>
              task[r].pc \in {"sync", "synced", "mini", "forward", "saving", "offload"}
        /\ gpu[r] \cap Optimizer # {} =>
              task[r].pc \in {"mini", "forward", "offload"} /\ call \in Updates
        /\ "kv_cache" \in gpu[r] => task[r].pc \in {"gather", "generate", "exit"}

IInv == Types /\ Resting /\ Memory

(* How far the ranks of a call may be apart: a collective holds all its    *)
(* ranks back until the last has come, and lets them go together.          *)
Entering == {"called", "sync", "saving"}
Gathering == {"synced", "kv", "gather"}
Done == {"exit", "returned", "offload"}

InStep ==
    /\ call = "generate_sequences" =>
          /\ \A r \in Ranks :
                task[r].pc \in (Entering \ {"saving"}) \cup Gathering \cup {"generate"}
                               \cup (Done \ {"offload"})
          /\ \A q, r \in Ranks : task[q].pc \in Entering => task[r].pc \in Entering
          /\ \A q, r \in Ranks : DpRank(q) = DpRank(r) =>
                /\ task[q].pc \in Gathering => task[r].pc \in Gathering
                /\ task[q].pc = "generate" => task[r].pc = "generate"
    /\ call = "save_checkpoint" =>
          /\ \A r \in Ranks : task[r].pc \in (Entering \ {"sync"}) \cup (Done \ {"exit"})
          /\ \A q, r \in Ranks : task[q].pc \in Entering => task[r].pc \in Entering

-----------------------------------------------------------------------------

(* Every step keeps it. *)
LEMMA MemoryStep == ASSUME IInv, [Next]_vars PROVE IInv'
<1> USE DEF IInv, Types, Resting, Memory, At, PCs, Places
<1>1. ASSUME NEW r \in Ranks, Enter(r) PROVE IInv'
  BY <1>1 DEF Enter, Goto, trainer, Params, Optimizer, Updates
<1>2. ASSUME NEW r \in Ranks, OffloadParams(r) PROVE IInv'
  BY <1>2 DEF OffloadParams, Goto, trainer
<1>3. ASSUME NEW r \in Ranks, WakeCache(r) PROVE IInv'
  BY <1>3 DEF WakeCache, Goto, trainer, Params, Optimizer
<1>4. ASSUME NEW r \in Ranks, Exit(r) PROVE IInv'
  BY <1>4 DEF Exit, trainer
<1>5. ASSUME NEW r \in Ranks, Load(r) PROVE IInv'
  BY <1>5 DEF Load, trainer, Needed, Params, Optimizer, Methods, Updates
<1>6. ASSUME NEW r \in Ranks, ReturnLogProbs(r) PROVE IInv'
  BY <1>6 DEF ReturnLogProbs, trainer, Updates
<1>7. CASE OptimizerStep
  BY <1>7 DEF OptimizerStep, trainer
<1>8. ASSUME NEW r \in Ranks, Offload(r) PROVE IInv'
  BY <1>8 DEF Offload, Goto, trainer, Needed
<1>9. CASE UpdateParams
  BY <1>9 DEF UpdateParams, trainer
<1>10. CASE Rearrange
  BY <1>10 DEF Rearrange, trainer
<1>11. CASE Forward
  BY <1>11 DEF Forward, trainer
<1>12. CASE SaveShards
  BY <1>12 DEF SaveShards, trainer
<1>13. ASSUME NEW g \in Groups, AllGather(g) PROVE IInv'
  BY <1>13 DEF AllGather, trainer, GroupOf
<1>14. ASSUME NEW g \in Groups, Generate(g) PROVE IInv'
  BY <1>14 DEF Generate, trainer, GroupOf
<1>15. CASE Collect
  BY <1>15 DEF Collect, Idle
<1>16. CASE Balance
  BY <1>16 DEF Balance
<1>17. ASSUME NEW m \in Methods, Call(m) PROVE IInv'
  BY <1>17 DEF Call, Idle, Methods, Updates
<1>18. CASE UNCHANGED vars
  BY <1>18 DEF vars
<1> QED
  BY <1>1, <1>2, <1>3, <1>4, <1>5, <1>6, <1>7, <1>8, <1>9, <1>10, <1>11, <1>12, <1>13,
     <1>14, <1>15, <1>16, <1>17, <1>18 DEF Next, Work, Collective, RankStep

(* The ranks of a generation or a checkpoint stay in step. *)
LEMMA InStepStep == ASSUME IInv, InStep, [Next]_vars PROVE InStep'
<1> USE DEF IInv, Types, Resting, InStep, At, PCs, Entering, Gathering, Done
<1>1. ASSUME NEW r \in Ranks, Enter(r) PROVE InStep'
  BY <1>1 DEF Enter, Goto, trainer
<1>2. ASSUME NEW r \in Ranks, OffloadParams(r) PROVE InStep'
  BY <1>2 DEF OffloadParams, Goto, trainer
<1>3. ASSUME NEW r \in Ranks, WakeCache(r) PROVE InStep'
  BY <1>3 DEF WakeCache, Goto, trainer
<1>4. ASSUME NEW r \in Ranks, Exit(r) PROVE InStep'
  BY <1>4 DEF Exit, trainer
<1>5. ASSUME NEW r \in Ranks, Load(r) PROVE InStep'
  BY <1>5 DEF Load, trainer, Methods
<1>6. ASSUME NEW r \in Ranks, ReturnLogProbs(r) PROVE InStep'
  BY <1>6 DEF ReturnLogProbs, trainer
<1>7. CASE OptimizerStep
  BY <1>7 DEF OptimizerStep, trainer, Updates
<1>8. ASSUME NEW r \in Ranks, Offload(r) PROVE InStep'
  BY <1>8 DEF Offload, Goto, trainer
<1>9. CASE UpdateParams
  BY <1>9 DEF UpdateParams, trainer
<1>10. CASE Rearrange
  BY <1>10 DEF Rearrange, trainer
<1>11. CASE Forward
  BY <1>11 DEF Forward, trainer
<1>12. CASE SaveShards
  BY <1>12 DEF SaveShards, trainer
<1>13. ASSUME NEW g \in Groups, AllGather(g) PROVE InStep'
  BY <1>13 DEF AllGather, trainer, GroupOf
<1>14. ASSUME NEW g \in Groups, Generate(g) PROVE InStep'
  BY <1>14 DEF Generate, trainer, GroupOf
<1>15. CASE Collect
  BY <1>15 DEF Collect
<1>16. CASE Balance
  BY <1>16 DEF Balance
<1>17. ASSUME NEW m \in Methods, Call(m) PROVE InStep'
  BY <1>17 DEF Call, Idle
<1>18. CASE UNCHANGED vars
  BY <1>18 DEF vars
<1> QED
  BY <1>1, <1>2, <1>3, <1>4, <1>5, <1>6, <1>7, <1>8, <1>9, <1>10, <1>11, <1>12, <1>13,
     <1>14, <1>15, <1>16, <1>17, <1>18 DEF Next, Work, Collective, RankStep

(* At the start nothing runs, and what is offloaded is away. *)
LEMMA Start == Init => IInv /\ InStep
  BY DEF Init, IInv, Types, Resting, Memory, InStep, At, PCs, Places, Idle, Params, Optimizer

-----------------------------------------------------------------------------

(* The invariant the others rest on. *)
THEOREM Invariant == Spec => [](IInv /\ InStep)
<1>1. (IInv /\ InStep) /\ [Next]_vars => (IInv /\ InStep)'
  BY MemoryStep, InStepStep
<1> QED
  BY <1>1, Start, PTL DEF Spec

(* However fast each rank is, its engine's cache never takes memory that   *)
(* parameters or optimizer state still have.                               *)
THEOREM CacheFits == Spec => []KVCacheFits
<1>1. IInv => KVCacheFits
  BY DEF IInv, Memory, KVCacheFits
<1> QED
  BY <1>1, Invariant, PTL

(* Generation and checkpoints go on: some rank has a step of its own, or   *)
(* all the ranks of a collective are in it.                                *)
LEMMA GenerationGoesOn ==
    ASSUME IInv, InStep, call \in {"generate_sequences", "save_checkpoint"}
    PROVE  CallGoesOn
<1> DEFINE all(ranks, pc) == \A r \in ranks : At(r, pc)
<1>1. \/ \E r \in Ranks : task[r].pc \in {"called", "synced", "kv", "exit", "offload"}
      \/ \E pc \in {"sync", "mini", "saving", "returned"} : all(Ranks, pc)
      \/ \E g \in Groups, pc \in {"gather", "generate"} : all(GroupOf(g), pc)
  <2> SUFFICES ASSUME \A r \in Ranks :
                          task[r].pc \notin {"called", "synced", "kv", "exit", "offload"}
               PROVE  \/ \E pc \in {"sync", "mini", "saving", "returned"} : all(Ranks, pc)
                      \/ \E g \in Groups, pc \in {"gather", "generate"} : all(GroupOf(g), pc)
    OBVIOUS
  <2> USE DEF InStep, At, Entering, Gathering, Done
  <2>1. CASE \E r \in Ranks : task[r].pc = "sync"
    <3>1. all(Ranks, "sync")
      BY <2>1
    <3> QED
      BY <3>1
  <2>2. CASE \E r \in Ranks : task[r].pc = "saving"
    <3>1. all(Ranks, "saving")
      BY <2>2
    <3> QED
      BY <3>1
  <2>3. ASSUME NEW r \in Ranks, NEW pc \in {"gather", "generate"}, task[r].pc = pc
        PROVE  \E g \in Groups : all(GroupOf(g), pc)
    <3>1. all(GroupOf(DpRank(r)), pc)
      BY <2>3 DEF GroupOf
    <3> QED
      BY <3>1 DEF Groups
  <2>4. CASE \A r \in Ranks : task[r].pc = "returned"
    BY <2>4
  <2> QED
    BY <2>1, <2>2, <2>3, <2>4
<1> QED
  BY <1>1 DEF CallGoesOn

-----------------------------------------------------------------------------
(* The ranks and their shares *)

(* A chunk of rows that divide is the rows at its places. *)
LEMMA ChunkIs ==
    ASSUME NEW T, NEW n \in Nat, n > 0, NEW P \in Nat, NEW rows \in Seq(T),
           Len(rows) = n * P, NEW k \in 0..(n - 1)
    PROVE  /\ Chunk(rows, n, k) \in Seq(T) /\ Len(Chunk(rows, n, k)) = P
           /\ \A b \in 1..P : Chunk(rows, n, k)[b] = rows[k * P + b]
<1>1. Len(rows) \div n = P
  <2>1. (P * n) \div n = P /\ n * P = P * n
    OBVIOUS
  <2> QED
    BY <2>1
<1>2. PICK a \in Nat : a = k * P
  <2>1. k * P \in Nat
    OBVIOUS
  <2> QED
    BY <2>1
<1>3. (k + 1) * P = a + P
  BY <1>2
<1>4. a + P <= Len(rows)
  <2>1. (n - 1 - k) * P = n * P - P - a /\ n - 1 - k \in Nat
    BY <1>2
  <2>2. (n - 1 - k) * P >= 0
    BY <2>1
  <2> QED
    BY <2>1, <2>2
<1>5. Chunk(rows, n, k) = SubSeq(rows, a + 1, a + P)
  BY <1>1, <1>2, <1>3 DEF Chunk
<1>6. /\ SubSeq(rows, a + 1, a + P) \in Seq(T)
      /\ Len(SubSeq(rows, a + 1, a + P)) = P
      /\ \A b \in 1..P : SubSeq(rows, a + 1, a + P)[b] = rows[a + b]
  BY <1>4, PartOf
<1> QED
  BY <1>2, <1>5, <1>6, Zenon

(* The ranks are n in a row from lo on. *)
InARow(ranks, lo, n) == ranks = lo..(lo + n - 1)

(* Each of the ranks has P items. *)
EachHas(parts, ranks, T, P) == \A r \in ranks : parts[r] \in Seq(T) /\ Len(parts[r]) = P

(* s is what n ranks from lo on hold, one after the other. *)
OneByOne(s, parts, lo, n, T, P) ==
    /\ s \in Seq(T) /\ Len(s) = n * P
    /\ \A a \in 0..(n - 1) : \A b \in 1..P : s[a * P + b] = parts[lo + a][b]

(* What the ranks from lo on hold, one after the other *)
LEMMA ConcatIs ==
    ASSUME NEW T, NEW parts, NEW lo \in Int, NEW n \in Nat, n > 0, NEW P \in Nat,
           NEW ranks, InARow(ranks, lo, n), EachHas(parts, ranks, T, P)
    PROVE  OneByOne(Concat(parts, ranks), parts, lo, n, T, P)
<1> DEFINE Q == Seq(T)
           s == [i \in 1..n |-> parts[lo + i - 1]]
<1>0. ranks = lo..(lo + n - 1)
  BY DEF InARow
<1>1. Concat(parts, ranks) = FlattenSeq(s)
  BY <1>0, MinInterval DEF Concat
<1>2. \A i \in 1..n : lo + i - 1 \in ranks
  BY <1>0
<1>3. \A i \in 1..n : s[i] = parts[lo + i - 1] /\ parts[lo + i - 1] \in Q /\ Len(s[i]) = P
  BY <1>2 DEF EachHas
<1>4. s \in Seq(Q) /\ Len(s) = n
  <2>1. s \in [1..n -> Q]
    <3> HIDE DEF Q
    <3> QED
      BY <1>3
  <2> HIDE DEF Q, s
  <2> QED
    BY <2>1, FunctionIsSeq
<1> HIDE DEF s
<1>5. s \in Seq(Seq(T))
  BY <1>4
<1> HIDE DEF Q
<1>6. PICK f : Flattens(f, s, T) /\ FlattenSeq(s) = f[Len(s)]
  BY <1>5, FlattenIs
<1>7. Len(s) \in 0..Len(s) /\ OfLength(s, P)
  BY <1>3, <1>4 DEF OfLength
<1>8. /\ f[Len(s)] \in Seq(T) /\ Len(f[Len(s)]) = Len(s) * P
      /\ \A a \in 1..Len(s) : \A b \in 1..P : f[Len(s)][(a - 1) * P + b] = s[a][b]
  BY <1>5, <1>6, <1>7, FlattenEven
<1>9. ASSUME NEW a \in 0..(n - 1), NEW b \in 1..P
      PROVE  f[Len(s)][a * P + b] = parts[lo + a][b]
  <2>1. a + 1 \in 1..Len(s) /\ (a + 1) - 1 = a /\ lo + (a + 1) - 1 = lo + a
    BY <1>4
  <2>2. f[Len(s)][((a + 1) - 1) * P + b] = s[a + 1][b]
    BY <1>8, <2>1
  <2>3. s[a + 1] = parts[lo + (a + 1) - 1]
    BY <1>3, <1>4, <2>1
  <2> QED
    BY <2>1, <2>2, <2>3
<1>10. Concat(parts, ranks) = f[Len(s)] /\ Len(s) = n
  BY <1>1, <1>4, <1>6
<1>11. f[Len(s)] \in Seq(T) /\ Len(f[Len(s)]) = n * P
  BY <1>8, <1>10
<1>12. OneByOne(f[Len(s)], parts, lo, n, T, P)
  BY <1>9, <1>11 DEF OneByOne
<1> QED
  BY <1>10, <1>12

(* A tensor parallel group is TPSize ranks in a row. *)
LEMMA GroupIs ==
    ASSUME NEW r \in Ranks
    PROVE  /\ DpRank(r) \in Nat /\ TpRank(r) \in 0..(TPSize - 1)
           /\ r = DpRank(r) * TPSize + TpRank(r)
           /\ GroupOf(DpRank(r)) = (DpRank(r) * TPSize)..(DpRank(r) * TPSize + TPSize - 1)
<1>0. /\ WorldSize \in Nat /\ WorldSize > 0 /\ TPSize \in Nat /\ TPSize > 0
      /\ WorldSize % TPSize = 0 /\ r \in Nat /\ r < WorldSize
  BY HybridAssumption DEF Ranks
<1>1. PICK g \in Nat : g = DpRank(r)
  BY <1>0, DivMod DEF DpRank
<1>2. PICK e \in 0..(TPSize - 1) : e = TpRank(r)
  BY <1>0, DivMod DEF TpRank
<1>3. r = g * TPSize + e
  BY <1>0, <1>1, <1>2, DivMod DEF DpRank, TpRank
<1>4. PICK w \in Nat : WorldSize = w * TPSize
  <2>1. WorldSize = ((WorldSize \div TPSize) * TPSize) + (WorldSize % TPSize)
        /\ (WorldSize \div TPSize) \in Nat
    BY <1>0, DivMod
  <2> QED
    BY <1>0, <2>1
<1>5. g < w
  <2> SUFFICES ASSUME g >= w PROVE FALSE
    OBVIOUS
  <2>1. (g - w) * TPSize = g * TPSize - w * TPSize /\ (g - w) * TPSize >= 0
    BY <1>0
  <2> QED
    BY <1>0, <1>3, <1>4, <2>1
<1>6. g * TPSize + TPSize <= WorldSize /\ g * TPSize \in Nat
  <2>1. (w - g - 1) * TPSize = w * TPSize - g * TPSize - TPSize /\ (w - g - 1) * TPSize >= 0
    BY <1>0, <1>5
  <2> QED
    BY <1>0, <1>4, <2>1
<1>7. ASSUME NEW q \in Ranks, DpRank(q) = g
      PROVE  q \in (g * TPSize)..(g * TPSize + TPSize - 1)
  <2>1. q \in Nat /\ q = ((q \div TPSize) * TPSize) + (q % TPSize)
        /\ (q % TPSize) \in 0..(TPSize - 1)
    BY <1>0, DivMod DEF Ranks
  <2>2. q = g * TPSize + (q % TPSize)
    BY <1>7, <2>1 DEF DpRank
  <2> QED
    BY <1>0, <1>6, <2>1, <2>2
<1>8. ASSUME NEW q \in (g * TPSize)..(g * TPSize + TPSize - 1)
      PROVE  q \in Ranks /\ DpRank(q) = g
  <2>1. PICK d \in 0..(TPSize - 1) : q = g * TPSize + d
    <3>1. q - g * TPSize \in 0..(TPSize - 1) /\ q = g * TPSize + (q - g * TPSize)
      BY <1>0, <1>6
    <3> QED
      BY <3>1
  <2>2. q \in Ranks
    BY <1>0, <1>6 DEF Ranks
  <2>3. (g * TPSize + d) \div TPSize = g
    BY <1>0
  <2> QED
    BY <2>1, <2>2, <2>3 DEF DpRank
<1>9. GroupOf(g) = (g * TPSize)..(g * TPSize + TPSize - 1)
  BY <1>7, <1>8 DEF GroupOf
<1> QED
  BY <1>1, <1>2, <1>3, <1>9


-----------------------------------------------------------------------------
(* Batches and mini-batches *)

(* The rows of the batch *)
Rows == 1..Len(seqlen)

(* What rank r is given of the batch *)
Share(r) == Chunk(Pad(batch), WorldSize, r)

(* The batch has every row once. *)
BatchInv ==
    /\ seqlen \in Batches
    /\ batch \in Seq(Rows) /\ Len(batch) = Len(seqlen)
    /\ Permutes(batch, Len(seqlen))

(* What the constants are *)
LEMMA Constants ==
    /\ WorldSize \in Nat /\ WorldSize > 0 /\ TPSize \in Nat /\ TPSize > 0
    /\ MaxTokenLen \in Nat /\ MaxTokenLen > 0 /\ MiniBatchSize \in Nat /\ MiniBatchSize > 0
    /\ MaxCalls \in Nat
    /\ Ranks = 0..(0 + WorldSize - 1)
    /\ \A r \in Ranks : r \in 0..(WorldSize - 1)
BY HybridAssumption DEF Ranks

(* A batch has rows, and each has a length. *)
LEMMA SeqlenIs ==
    ASSUME BatchInv
    PROVE  /\ seqlen \in Seq(1..MaxTokenLen) /\ seqlen \in Seq(Nat \ {0})
           /\ Len(seqlen) \in Nat /\ Len(seqlen) > 0 /\ DOMAIN seqlen = Rows
           /\ \A i \in Rows : seqlen[i] \in Nat \ {0}
<1>1. seqlen \in Seq(1..MaxTokenLen) /\ seqlen # <<>>
  BY HybridAssumption DEF BatchInv
<1>2. MaxTokenLen \in Nat
  BY Constants
<1>3. \A i \in 1..Len(seqlen) : seqlen[i] \in Nat \ {0}
  BY <1>1, <1>2
<1>4. Len(seqlen) \in Nat /\ DOMAIN seqlen = 1..Len(seqlen) /\ Len(seqlen) # 0
  BY <1>1
<1>5. seqlen \in Seq(Nat \ {0})
  BY <1>1, <1>3, <1>4
<1> QED
  BY <1>1, <1>3, <1>4, <1>5 DEF Rows

(* The padded batch divides by the ranks and starts with the batch. *)
LEMMA PadIs ==
    ASSUME NEW T, NEW rows \in Seq(T), Len(rows) > 0
    PROVE  /\ CeilDiv(Len(rows), WorldSize) \in Nat /\ CeilDiv(Len(rows), WorldSize) > 0
           /\ Pad(rows) \in Seq(T)
           /\ Len(Pad(rows)) = WorldSize * CeilDiv(Len(rows), WorldSize)
           /\ Len(rows) <= Len(Pad(rows))
           /\ \A i \in 1..Len(rows) : Pad(rows)[i] = rows[i]
<1>1. PICK n \in Nat : n = Len(rows) /\ n > 0
  OBVIOUS
<1>2. PICK P \in Nat : P = CeilDiv(n, WorldSize) /\ P * WorldSize >= n /\ P > 0
  <2>1. WorldSize \in Nat /\ WorldSize > 0
    BY Constants
  <2>2. PICK c : c = (n + WorldSize - 1) \div WorldSize
    OBVIOUS
  <2>3. c * WorldSize >= n /\ c \in Nat
    BY <2>1, <2>2
  <2>4. c # 0
    BY <1>1, <2>1, <2>3
  <2> QED
    BY <2>2, <2>3, <2>4 DEF CeilDiv
<1>3. PICK m \in Nat : m = P * WorldSize /\ m >= n
  BY <1>2, Constants
<1> DEFINE at(i) == rows[((i - 1) % n) + 1]
<1>4. Pad(rows) = [i \in 1..m |-> at(i)]
  BY <1>1, <1>2, <1>3 DEF Pad
<1>5. ASSUME NEW i \in 1..m PROVE at(i) \in T
  <2>1. ((i - 1) % n) + 1 \in 1..n
    BY <1>1
  <2> QED
    BY <1>1, <2>1
<1>6. ASSUME NEW i \in 1..n PROVE at(i) = rows[i] /\ i \in 1..m
  <2>1. (i - 1) % n = i - 1
    BY <1>1
  <2> QED
    BY <1>3, <2>1
<1> HIDE DEF at
<1>7. Pad(rows) \in [1..m -> T]
  BY <1>4, <1>5
<1>8. Pad(rows) \in Seq(T) /\ Len(Pad(rows)) = m
  BY <1>7, FunctionIsSeq
<1>9. \A i \in 1..n : Pad(rows)[i] = rows[i]
  BY <1>4, <1>6
<1>10. m = WorldSize * P
  BY <1>3, Constants
<1> QED
  BY <1>1, <1>2, <1>3, <1>8, <1>9, <1>10

(* A rank is given PerRank rows, those at its places of the padded batch. *)
LEMMA ShareIs ==
    ASSUME BatchInv, NEW r \in Ranks
    PROVE  /\ PerRank \in Nat /\ PerRank > 0
           /\ Share(r) \in Seq(Rows) /\ Len(Share(r)) = PerRank
           /\ \A b \in 1..PerRank : Share(r)[b] = Pad(batch)[r * PerRank + b]
<1>1. batch \in Seq(Rows) /\ Len(batch) > 0
  BY SeqlenIs DEF BatchInv
<1>2. /\ PerRank \in Nat /\ PerRank > 0
      /\ Pad(batch) \in Seq(Rows) /\ Len(Pad(batch)) = WorldSize * PerRank
  BY <1>1, PadIs DEF PerRank
<1>3. r \in 0..(WorldSize - 1) /\ WorldSize \in Nat /\ WorldSize > 0
  BY Constants
<1>4. /\ Chunk(Pad(batch), WorldSize, r) \in Seq(Rows)
      /\ Len(Chunk(Pad(batch), WorldSize, r)) = PerRank
      /\ \A b \in 1..PerRank :
            Chunk(Pad(batch), WorldSize, r)[b] = Pad(batch)[r * PerRank + b]
  BY <1>2, <1>3, ChunkIs
<1> QED
  BY <1>2, <1>4 DEF Share

(* Rows have lengths. *)
LEMMA LengthsIs ==
    ASSUME BatchInv, NEW rows \in Seq(Rows)
    PROVE  LengthsOf(rows) \in Seq(Nat \ {0}) /\ Len(LengthsOf(rows)) = Len(rows)
<1>1. PICK n \in Nat : n = Len(rows) /\ DOMAIN rows = 1..n /\ \A i \in 1..n : rows[i] \in Rows
  OBVIOUS
<1>2. \A i \in Rows : seqlen[i] \in Nat \ {0}
  BY SeqlenIs
<1>3. LengthsOf(rows) \in [1..n -> Nat \ {0}]
  BY <1>1, <1>2 DEF LengthsOf
<1> QED
  BY <1>1, <1>3, FunctionIsSeq

(* A mini-batch is the first rows that are left, the same number where as *)
(* many are left.                                                         *)
MiniSize(n) == IF call = "update_actor" THEN Least(MiniBatchSize, n) ELSE n

(* A mini-batch is MiniSize rows of those that are left, all of them but *)
(* in update_actor.                                                      *)
LEMMA MiniBatchIs ==
    ASSUME NEW T, NEW r, task[r].rest \in Seq(T), task[r].rest # <<>>
    PROVE  /\ MiniBatch(r) \in Seq(T) /\ Len(MiniBatch(r)) = MiniSize(Len(task[r].rest))
           /\ MiniSize(Len(task[r].rest)) \in 1..Len(task[r].rest)
           /\ call # "update_actor" => MiniBatch(r) = task[r].rest
<1>1. PICK rest \in Seq(T) : rest = task[r].rest /\ rest # <<>>
  OBVIOUS
<1>2. PICK n \in Nat : n = Len(rest) /\ n > 0
  BY <1>1
<1>3. MiniBatchSize \in Nat /\ MiniBatchSize > 0
  BY Constants
<1>4. PICK m \in 1..n : m = MiniSize(n)
  BY <1>2, <1>3 DEF MiniSize, Least
<1>5. CASE call = "update_actor"
  <2>1. MiniBatch(r) = SubSeq(rest, 0 + 1, 0 + m)
    BY <1>1, <1>2, <1>4, <1>5 DEF MiniBatch, MiniSize
  <2>2. 0 \in Nat /\ m \in Nat /\ 0 + m <= Len(rest)
    BY <1>2
  <2>3. SubSeq(rest, 0 + 1, 0 + m) \in Seq(T) /\ Len(SubSeq(rest, 0 + 1, 0 + m)) = m
    BY <2>2, PartOf
  <2> QED
    BY <1>1, <1>2, <1>4, <1>5, <2>1, <2>3
<1>6. CASE call # "update_actor"
  BY <1>1, <1>2, <1>4, <1>6 DEF MiniBatch, MiniSize
<1> QED
  BY <1>5, <1>6

(* There is at least one micro-batch. *)
LEMMA NumMicroBatchesIs ==
    ASSUME NEW lens \in Seq(Nat \ {0}), Len(lens) > 0
    PROVE  NumMicroBatches(lens, MaxTokenLen) \in Nat \ {0}
<1>1. PICK n \in Nat : n = Len(lens) /\ n > 0
  OBVIOUS
<1>2. lens \in Seq(Nat) /\ lens # <<>> /\ lens[n] \in Nat \ {0}
  BY <1>1
<1>3. PICK t \in Nat : t = Total(lens) /\ t >= lens[n]
  BY <1>1, <1>2, TotalNat
<1>4. t > 0
  BY <1>2, <1>3
<1>5. PICK M \in Nat : M = MaxTokenLen /\ M > 0
  BY Constants
<1>6. PICK c : c = (t + M - 1) \div M
  OBVIOUS
<1>7. c * M >= t /\ c \in Nat
  BY <1>5, <1>6
<1>8. c # 0
  BY <1>4, <1>5, <1>7
<1> QED
  BY <1>1, <1>3, <1>5, <1>6, <1>7, <1>8 DEF NumMicroBatches, CeilDiv, Least

(* The ranks agree on a number of micro-batches. *)
LEMMA AgreedIs ==
    ASSUME BatchInv, \A r \in Ranks : task[r].rest \in Seq(Rows) /\ task[r].rest # <<>>
    PROVE  \E n \in Nat \ {0} : \A r \in Ranks : Agreed(r) = n
<1> DEFINE f == [r \in Ranks |-> Own(r)]
           S == {f[r] : r \in Ranks}
<1>1. ASSUME NEW r \in Ranks PROVE Own(r) \in Nat \ {0}
  <2>1. task[r].rest \in Seq(Rows) /\ task[r].rest # <<>>
    OBVIOUS
  <2>2. PICK mini \in Seq(Rows) : mini = MiniBatch(r) /\ Len(mini) > 0
    BY <2>1, MiniBatchIs
  <2>3. LengthsOf(mini) \in Seq(Nat \ {0}) /\ Len(LengthsOf(mini)) > 0
    BY <2>2, LengthsIs
  <2> QED
    BY <2>2, <2>3, NumMicroBatchesIs DEF Own
<1>2. \A r \in Ranks : f[r] = Own(r)
  OBVIOUS
<1>3. {Own(q) : q \in Ranks} = S
  BY <1>2
<1> HIDE DEF f
<1>4. IsFiniteSet(Ranks) /\ 0 \in Ranks
  BY Constants, FS_Interval DEF Ranks
<1>5. IsFiniteSet(S)
  BY <1>4, ImageFinite
<1>6. S # {} /\ S \subseteq Nat \ {0}
  BY <1>1, <1>2, <1>4
<1> HIDE DEF S
<1>7. Max(S) \in S
  BY <1>5, <1>6, MaxIs
<1>8. \A r \in Ranks : Agreed(r) = Max(S)
  BY <1>3 DEF Agreed
<1> QED
  BY <1>6, <1>7, <1>8


-----------------------------------------------------------------------------
(* The batch stays a permutation of its rows. *)

(* Balancing neither loses a row nor has one twice. *)
LEMMA BalancedBatch == ASSUME BatchInv, Balance PROVE BatchInv'
<1> DEFINE lens == LengthsOf(batch)
           idx  == FlattenSeq(Partitions(lens, WorldSize, TRUE))
<1>1. PICK N \in Nat : N = Len(seqlen) /\ N > 0
  BY SeqlenIs
<1>2. batch \in Seq(Rows) /\ Len(batch) = N /\ Rows = 1..N /\ DOMAIN batch = 1..N
  BY <1>1 DEF BatchInv, Rows
<1>3. lens \in Seq(Nat \ {0}) /\ Len(lens) = N
  BY <1>2, LengthsIs
<1>4. N % WorldSize = 0 /\ WorldSize \in Nat /\ WorldSize > 0
  BY <1>1, Constants DEF Balance, Partitionable
<1> HIDE DEF lens
<1>5. idx \in Seq(1..N) /\ Len(idx) = N /\ Permutes(idx, N)
  <2>1. Len(lens) > 0 /\ (TRUE => Len(lens) % WorldSize = 0) /\ TRUE \in BOOLEAN
    BY <1>1, <1>3, <1>4
  <2>2. /\ idx \in Seq(1..Len(lens))
        /\ Len(idx) = Len(lens)
        /\ Permutes(idx, Len(lens))
    BY <1>3, <1>4, <2>1, PartitionsPermute
  <2> QED
    BY <1>3, <2>2
<1>6. batch' = [i \in 1..N |-> batch[idx[i]]]
  BY <1>2 DEF Balance, lens
<1>7. \A i \in 1..N : batch[i] = i
  BY <1>1, <1>2, SeqlenIs DEF Balance, AsSampled
<1> HIDE DEF idx
<1>8. \A i \in 1..N : idx[i] \in 1..N
  BY <1>5
<1>9. batch' \in [1..N -> 1..N] /\ \A i \in 1..N : batch'[i] = idx[i]
  BY <1>6, <1>7, <1>8
<1>10. batch' \in Seq(1..N) /\ Len(batch') = N
  BY <1>9, FunctionIsSeq
<1>11. Permutes(batch', N)
  <2>1. /\ \A i, j \in 1..N : idx[i] = idx[j] => i = j
        /\ \A j \in 1..N : \E i \in 1..N : idx[i] = j
    BY <1>5 DEF Permutes
  <2>2. \A i, j \in 1..N : batch'[i] = batch'[j] => i = j
    BY <1>9, <2>1
  <2>3. ASSUME NEW j \in 1..N PROVE \E i \in 1..N : batch'[i] = j
    <3>1. PICK i \in 1..N : idx[i] = j
      BY <2>1
    <3> QED
      BY <1>9, <3>1
  <2> QED
    BY <1>9, <2>2, <2>3, Zenon DEF Permutes
<1>12. seqlen' = seqlen
  BY DEF Balance
<1> QED
  BY <1>1, <1>10, <1>11, <1>12 DEF BatchInv, Rows

(* Balancing permutes the batch, and no other step touches it. *)
LEMMA BatchStep == ASSUME BatchInv, [Next]_vars PROVE BatchInv' /\ seqlen' = seqlen
<1>1. CASE Balance
  BY <1>1, BalancedBatch DEF Balance
<1>2. CASE UNCHANGED <<seqlen, batch>>
  BY <1>2 DEF BatchInv, Rows
<1>3. CASE \E m \in Methods : Call(m)
  BY <1>2, <1>3 DEF Call
<1>4. CASE Work
  <2>1. CASE Collect
    BY <1>2, <2>1 DEF Collect
  <2>2. CASE Collective
    BY <1>2, <2>2 DEF Collective, UpdateParams, Rearrange, Forward, OptimizerStep, SaveShards,
                      AllGather, Generate, trainer
  <2>3. CASE \E r \in Ranks : RankStep(r)
    BY <1>2, <2>3 DEF RankStep, Enter, OffloadParams, WakeCache, Exit, Load, ReturnLogProbs,
                      Offload, trainer
  <2> QED
    BY <1>4, <2>1, <2>2, <2>3 DEF Work
<1>5. CASE UNCHANGED vars
  BY <1>2, <1>5 DEF vars
<1> QED
  BY <1>1, <1>3, <1>4, <1>5 DEF Next

(* The batch is sampled in order. *)
LEMMA BatchStart == Init => BatchInv
<1> SUFFICES ASSUME Init PROVE BatchInv
  OBVIOUS
<1>1. seqlen \in Seq(1..MaxTokenLen) /\ seqlen \in Batches
  BY HybridAssumption DEF Init
<1>2. PICK N \in Nat : N = Len(seqlen)
  BY <1>1
<1>3. DOMAIN seqlen = 1..N
  BY <1>1, <1>2
<1>4. batch = [i \in 1..N |-> i]
  BY <1>3 DEF Init, AsSampled
<1>5. batch \in [1..N -> 1..N] /\ \A i \in 1..N : batch[i] = i
  BY <1>4
<1>6. batch \in Seq(1..N) /\ Len(batch) = N
  BY <1>5, FunctionIsSeq
<1>7. Permutes(batch, N)
  BY <1>5 DEF Permutes
<1> QED
  BY <1>1, <1>2, <1>6, <1>7 DEF BatchInv, Rows


-----------------------------------------------------------------------------
(* Micro-batches: all ranks take as many turns *)

(* The calls that make micro-batches *)
Trained == {"compute_log_prob"} \cup Updates

Fields == {"pc", "rows", "rest", "micro", "indices", "out"}

MicroBatches == Seq(Seq(Rows))

(* A rank holds rows of the batch. *)
Held ==
    \A r \in Ranks :
        /\ Fields \subseteq DOMAIN task[r]
        /\ task[r].rows \in Seq(Rows) /\ task[r].rest \in Seq(Rows)
        /\ task[r].micro \in MicroBatches

(* They are its share, until the prompts of its group are gathered. *)
Shares ==
    call # "none" =>
        \A r \in Ranks :
            \/ call = "generate_sequences" /\ task[r].pc \in {"generate", "exit", "returned"}
            \/ task[r].rows = Share(r)

(* Where micro-batches are made, the ranks that wait in a collective have  *)
(* as much left as all the others: no rank calls it once more than another. *)
EvenTurns ==
    /\ \A r \in Ranks : task[r].pc \in {"called", "mini", "forward", "offload", "returned"}
    /\ \A q, r \in Ranks : task[q].pc = "called" =>
          /\ task[r].pc \in {"called", "mini"}
          /\ task[r].pc = "mini" => Len(task[r].rest) = PerRank
    /\ \A r \in Ranks :
          /\ task[r].pc = "mini" => task[r].rest # <<>>
          /\ task[r].pc \in {"offload", "returned"} => task[r].rest = <<>>
          /\ call = "compute_log_prob" /\ task[r].pc = "forward" => task[r].rest = <<>>
    /\ \A q, r \in Ranks : task[q].pc # "called" /\ task[r].pc # "called" =>
          Len(task[q].rest) = Len(task[r].rest)
    /\ \A q, r \in Ranks : task[q].pc = "forward" /\ task[q].micro # <<>> =>
          task[r].pc = "forward" /\ Len(task[r].micro) = Len(task[q].micro)
    /\ call \in Updates =>
          \A q, r \in Ranks : task[q].pc = "forward" => task[r].pc = "forward"

Turn ==
    /\ call \in Methods \cup {"none"}
    /\ Held
    /\ Shares
    /\ call \in Trained => EvenTurns

(* What Share and Rows say of the next state *)
LEMMA SameBatch ==
    ASSUME UNCHANGED <<seqlen, batch>>
    PROVE  /\ Rows' = Rows /\ MicroBatches' = MicroBatches /\ PerRank' = PerRank
           /\ \A r : Share(r)' = Share(r)
BY DEF Rows, MicroBatches, PerRank, Share

(* A call begins. *)
LEMMA CallTurn ==
    ASSUME Types, BatchInv, Turn, NEW m \in Methods, Call(m)
    PROVE  Turn'
<1>1. \A r \in Ranks : Share(r) \in Seq(Rows)
  BY ShareIs
<1>2. UNCHANGED <<seqlen, batch>> /\ call' = m
  BY DEF Call
<1>3. /\ Rows' = Rows /\ MicroBatches' = MicroBatches /\ PerRank' = PerRank
      /\ \A r : Share(r)' = Share(r)
  BY <1>2, SameBatch
<1>4. \A r \in Ranks : task'[r] = [Idle EXCEPT !.pc = "called", !.rows = Share(r)]
  BY DEF Call, Share
<1>5. \A r \in Ranks :
          /\ Fields \subseteq DOMAIN task'[r]
          /\ task'[r].pc = "called" /\ task'[r].rows = Share(r)
          /\ task'[r].rest = <<>> /\ task'[r].micro = <<>>
  BY <1>4 DEF Idle, Fields
<1>6. <<>> \in Seq(Rows) /\ <<>> \in MicroBatches
  BY DEF MicroBatches
<1>7. Held'
  BY <1>1, <1>3, <1>5, <1>6 DEF Held
<1>8. Shares'
  BY <1>3, <1>5 DEF Shares
<1>9. EvenTurns'
  BY <1>5 DEF EvenTurns
<1> QED
  BY <1>2, <1>7, <1>8, <1>9 DEF Turn

(* Its end *)
LEMMA CollectTurn == ASSUME Types, BatchInv, Turn, Collect PROVE Turn'
<1>1. UNCHANGED <<seqlen, batch>> /\ call' = "none"
  BY DEF Collect
<1>2. Rows' = Rows /\ MicroBatches' = MicroBatches
  BY <1>1, SameBatch
<1>3. \A r \in Ranks : task'[r] = Idle
  BY DEF Collect
<1>4. \A r \in Ranks :
          /\ Fields \subseteq DOMAIN task'[r]
          /\ task'[r].rows = <<>> /\ task'[r].rest = <<>> /\ task'[r].micro = <<>>
  BY <1>3 DEF Idle, Fields
<1>5. <<>> \in Seq(Rows) /\ <<>> \in MicroBatches
  BY DEF MicroBatches
<1>6. Held'
  BY <1>2, <1>4, <1>5 DEF Held
<1>7. "none" \notin Trained
  BY DEF Trained, Updates
<1> QED
  BY <1>1, <1>6, <1>7 DEF Turn, Shares

(* A rank of a generation that has the prompts of its group *)
Gathered == {"generate", "exit", "returned"}

(* Rank q's task goes on, with the same rows or those of its group. *)
GoesOn(q) ==
    /\ Fields \subseteq DOMAIN task'[q]
    /\ task'[q].rest \in {task[q].rest, task[q].rows} /\ task'[q].micro = task[q].micro
    /\ \/ /\ task'[q].rows = task[q].rows
          /\ call = "generate_sequences" /\ task[q].pc \in Gathered =>
                task'[q].pc \in Gathered
       \/ /\ call = "generate_sequences" /\ task'[q].pc \in Gathered
          /\ task'[q].rows \in Seq(Rows)

(* A step of a generation or a checkpoint *)
LEMMA OtherTurn ==
    ASSUME Turn, UNCHANGED <<seqlen, batch, call>>, call \notin Trained,
           \A q \in Ranks : GoesOn(q)
    PROVE  Turn'
<1>1. /\ Rows' = Rows /\ MicroBatches' = MicroBatches
      /\ \A q : Share(q)' = Share(q)
  BY SameBatch
<1>2. Held'
  BY <1>1 DEF Turn, Held, GoesOn
<1>3. Shares'
  BY <1>1 DEF Turn, Shares, GoesOn, Gathered
<1> QED
  BY <1>2, <1>3 DEF Turn

(* A step of rank r that moves its place and may change its outputs *)
Moved(r, pc) ==
    /\ \A q \in Ranks : q # r => task'[q] = task[q]
    /\ Fields \subseteq DOMAIN task'[r]
    /\ task'[r].pc = pc
    /\ task'[r].rows = task[r].rows /\ task'[r].rest = task[r].rest
    /\ task'[r].micro = task[r].micro

(* The end of a rank's micro-batches for log probabilities, and of its call *)
LEMMA PlaceTurn ==
    ASSUME Turn, UNCHANGED <<seqlen, batch, call>>, call \in Trained,
           NEW r \in Ranks, NEW pc, Moved(r, pc),
           \/ task[r].pc = "offload" /\ pc = "returned"
           \/ /\ call = "compute_log_prob" /\ pc = "offload"
              /\ task[r].pc = "forward" /\ task[r].micro = <<>>
    PROVE  Turn'
<1>1. /\ Rows' = Rows /\ MicroBatches' = MicroBatches /\ PerRank' = PerRank
      /\ \A q : Share(q)' = Share(q)
  BY SameBatch
<1>2. /\ \A q \in Ranks : q # r => task'[q] = task[q]
      /\ Fields \subseteq DOMAIN task'[r] /\ task'[r].pc = pc
      /\ task'[r].rows = task[r].rows /\ task'[r].rest = task[r].rest
      /\ task'[r].micro = task[r].micro
  BY DEF Moved
<1>3. Held'
  BY <1>1, <1>2 DEF Turn, Held
<1>4. Shares'
  BY <1>1, <1>2 DEF Turn, Shares, Trained, Updates
<1>5. EvenTurns'
  <2>1. EvenTurns
    BY DEF Turn
  <2>2. \A q \in Ranks :
            /\ q # r => task'[q].pc = task[q].pc
            /\ task'[q].rest = task[q].rest /\ task'[q].micro = task[q].micro
    BY <1>2
  <2>3. task[r].pc \in {"offload", "forward"} /\ \A q \in Ranks : task[q].pc # "called"
    BY <2>1 DEF EvenTurns
  <2>4. \A q \in Ranks : ~(task[q].pc = "forward" /\ task[q].micro # <<>>)
    <3>1. \A x \in MicroBatches : Len(x) = Len(<<>>) => x = <<>>
      BY DEF MicroBatches
    <3>2. \A q \in Ranks : task[q].micro \in MicroBatches
      BY DEF Turn, Held
    <3> QED
      BY <2>1, <3>1, <3>2 DEF EvenTurns
  <2>5. task'[r].pc \in {"offload", "returned"} /\ task'[r].rest = <<>>
    BY <1>2, <2>1 DEF EvenTurns
  <2>6. \A q \in Ranks : task'[q].pc # "called"
    BY <2>2, <2>3, <2>5
  <2>7. \A q \in Ranks :
          /\ task'[q].pc \in {"called", "mini", "forward", "offload", "returned"}
          /\ task'[q].pc = "mini" => task'[q].rest # <<>>
          /\ task'[q].pc \in {"offload", "returned"} => task'[q].rest = <<>>
          /\ call = "compute_log_prob" /\ task'[q].pc = "forward" => task'[q].rest = <<>>
    BY <2>1, <2>2, <2>5 DEF EvenTurns
  <2>8. \A p, q \in Ranks : Len(task'[p].rest) = Len(task'[q].rest)
    BY <2>1, <2>2, <2>3 DEF EvenTurns
  <2>9. \A q \in Ranks : ~(task'[q].pc = "forward" /\ task'[q].micro # <<>>)
    BY <2>2, <2>4, <2>5
  <2>10. call' = call
    OBVIOUS
  <2>11. call \in Updates => \A q \in Ranks : task'[q].pc # "forward"
    BY <2>1, <2>2, <2>5 DEF EvenTurns, Updates
  <2> QED
    BY <2>6, <2>7, <2>8, <2>9, <2>10, <2>11 DEF EvenTurns
<1> QED
  BY <1>3, <1>4, <1>5 DEF Turn

(* An optimizer step ends the mini-batch of all ranks. *)
LEMMA OptimizerTurn ==
    ASSUME Types, Turn, OptimizerStep
    PROVE  Turn'
<1>1. UNCHANGED <<seqlen, batch, call>> /\ call \in Updates
  BY DEF OptimizerStep, trainer
<1>2. /\ Rows' = Rows /\ MicroBatches' = MicroBatches /\ PerRank' = PerRank
      /\ \A q : Share(q)' = Share(q)
  BY <1>1, SameBatch
<1>3. EvenTurns /\ \A q \in Ranks : task[q].pc = "forward" /\ Fields \subseteq DOMAIN task[q]
  BY <1>1 DEF Turn, Held, OptimizerStep, At, Trained
<1>4. \A q \in Ranks :
          /\ Fields \subseteq DOMAIN task'[q]
          /\ task'[q].pc = IF task[q].rest = <<>> THEN "offload" ELSE "mini"
          /\ task'[q].rows = task[q].rows /\ task'[q].rest = task[q].rest
          /\ task'[q].micro = task[q].micro
  BY <1>3 DEF OptimizerStep, Fields
<1>5. Held'
  BY <1>2, <1>4 DEF Turn, Held
<1>6. Shares'
  BY <1>1, <1>2, <1>4 DEF Turn, Shares, Updates
<1>7. \A q \in Ranks :
          /\ task'[q].pc \in {"mini", "offload"}
          /\ task'[q].pc = "mini" => task'[q].rest # <<>>
          /\ task'[q].pc = "offload" => task'[q].rest = <<>>
  BY <1>4
<1>8. \A p, q \in Ranks : Len(task'[p].rest) = Len(task'[q].rest)
  <2>1. \A p, q \in Ranks : Len(task[p].rest) = Len(task[q].rest)
    BY <1>3 DEF EvenTurns
  <2>2. \A q \in Ranks : task'[q].rest = task[q].rest
    BY <1>4
  <2> QED
    BY <2>1, <2>2
<1>9. EvenTurns'
  BY <1>7, <1>8 DEF EvenTurns
<1> QED
  BY <1>1, <1>5, <1>6, <1>9 DEF Turn

(* A rank begins with its rows. *)
LEMMA LoadTurn ==
    ASSUME Types, BatchInv, Turn, NEW r \in Ranks, Load(r), call \in Trained
    PROVE  Turn'
<1>1. /\ Rows' = Rows /\ MicroBatches' = MicroBatches /\ PerRank' = PerRank
      /\ \A q : Share(q)' = Share(q)
  BY SameBatch DEF Load, trainer
<1>2. /\ \A q \in Ranks : Fields \subseteq DOMAIN task[q]
      /\ EvenTurns /\ call' = call
      /\ \A q \in Ranks : task[q].rows = Share(q) /\ task[q].micro \in MicroBatches
  BY DEF Turn, Held, Shares, Load, trainer, Trained, Updates
<1>3. /\ \A q \in Ranks : q # r => task'[q] = task[q]
      /\ Fields \subseteq DOMAIN task'[r]
      /\ task'[r].pc = "mini"
      /\ task'[r].rows = Share(r) /\ task'[r].rest = Share(r)
      /\ task'[r].micro = task[r].micro
  BY <1>2 DEF Load, Types, Fields, Trained, Updates
<1>4. Share(r) \in Seq(Rows) /\ Len(Share(r)) = PerRank /\ Share(r) # <<>>
  BY ShareIs
<1>5. Held'
  BY <1>1, <1>2, <1>3, <1>4 DEF Turn, Held
<1>6. Shares'
  BY <1>1, <1>2, <1>3 DEF Shares
<1>7. task[r].pc = "called"
  BY DEF Load, At
<1>8. \A q \in Ranks : /\ task[q].pc \in {"called", "mini"}
                       /\ task[q].pc = "mini" => Len(task[q].rest) = PerRank
                                                 /\ task[q].rest # <<>>
  BY <1>2, <1>7 DEF EvenTurns
<1>9. \A q \in Ranks : /\ task'[q].pc \in {"called", "mini"}
                       /\ task'[q].pc = "mini" => Len(task'[q].rest) = PerRank
                                                  /\ task'[q].rest # <<>>
  BY <1>3, <1>4, <1>8
<1>10. EvenTurns'
  BY <1>1, <1>9 DEF EvenTurns
<1> QED
  BY <1>2, <1>5, <1>6, <1>10 DEF Turn

(* How rank r splits its mini-batch *)
Split(r) == Partitions(LengthsOf(MiniBatch(r)), Agreed(r), FALSE)

(* Rows p names, from mini *)
Taken(mini, p) == [i \in DOMAIN p |-> [j \in DOMAIN p[i] |-> mini[p[i][j]]]]

(* p is parts of m rows. *)
AreParts(p, m) == p \in Seq(Seq(1..m))

(* Parts of rows are rows, as many. *)
LEMMA TakenIs ==
    ASSUME NEW T, NEW mini \in Seq(T), NEW p, AreParts(p, Len(mini))
    PROVE  /\ Taken(mini, p) \in Seq(Seq(T)) /\ Len(Taken(mini, p)) = Len(p)
           /\ \A i \in 1..Len(p) : /\ Taken(mini, p)[i] = [j \in DOMAIN p[i] |-> mini[p[i][j]]]
                                   /\ Len(Taken(mini, p)[i]) = Len(p[i])
<1>8. PICK m \in Nat : m = Len(mini)
  OBVIOUS
<1> DEFINE Q == Seq(1..m)
           R == Seq(T)
           one(i) == [j \in DOMAIN p[i] |-> mini[p[i][j]]]
<1>9. p \in Seq(Q)
  BY <1>8 DEF AreParts
<1>1. PICK n \in Nat : n = Len(p) /\ DOMAIN p = 1..n
  <2> HIDE DEF Q
  <2> QED
    BY <1>9
<1>2. \A i \in 1..n : p[i] \in Q
  <2>1. p \in Seq(Q)
    BY <1>9
  <2> HIDE DEF Q
  <2> QED
    BY <1>1, <2>1
<1>3. ASSUME NEW i \in 1..n PROVE one(i) \in R /\ Len(one(i)) = Len(p[i])
  <2>1. PICK s \in Seq(1..m) : s = p[i]
    BY <1>2
  <2>6. PICK l \in Nat : l = Len(s)
    OBVIOUS
  <2>2. l = Len(s) /\ DOMAIN s = 1..l /\ \A j \in 1..l : s[j] \in 1..m
    BY <2>6
  <2>3. \A j \in 1..m : mini[j] \in T
    BY <1>8
  <2>4. [j \in 1..l |-> mini[s[j]]] \in [1..l -> T]
    BY <2>2, <2>3
  <2>5. [j \in 1..l |-> mini[s[j]]] \in Seq(T) /\ Len([j \in 1..l |-> mini[s[j]]]) = l
    BY <2>4, FunctionIsSeq
  <2> QED
    BY <2>1, <2>2, <2>5
<1>4. Taken(mini, p) = [i \in 1..n |-> one(i)]
  BY <1>1 DEF Taken
<1>5. Taken(mini, p) \in [1..n -> R]
  <2> HIDE DEF R, one
  <2> QED
    BY <1>3, <1>4
<1>6. Taken(mini, p) \in Seq(R) /\ Len(Taken(mini, p)) = n
  <2> HIDE DEF R
  <2> QED
    BY <1>5, FunctionIsSeq
<1>7. ASSUME NEW i \in 1..n PROVE Taken(mini, p)[i] = one(i)
  <2> HIDE DEF one
  <2> QED
    BY <1>4
<1> QED
  BY <1>1, <1>3, <1>6, <1>7

(* Rearrange splits a mini-batch into as many parts as agreed, each of *)
(* its rows in one of them.                                            *)
LEMMA RearrangeIs ==
    ASSUME Types, BatchInv, Turn, call \in Trained, Rearrange, NEW r \in Ranks
    PROVE  /\ task'[r] = [task[r] EXCEPT
                             !.pc = "forward",
                             !.rest = SubSeq(@, Len(MiniBatch(r)) + 1, Len(@)),
                             !.indices = FlattenSeq(Split(r)),
                             !.micro = Taken(MiniBatch(r), Split(r))]
           /\ MiniBatch(r) \in Seq(Rows) /\ Len(MiniBatch(r)) = MiniSize(Len(task[r].rest))
           /\ Len(MiniBatch(r)) \in 1..Len(task[r].rest)
           /\ call # "update_actor" => MiniBatch(r) = task[r].rest
           /\ Split(r) \in Seq(Seq(1..Len(MiniBatch(r)))) /\ Len(Split(r)) = Agreed(r)
           /\ FlattenSeq(Split(r)) \in Seq(1..Len(MiniBatch(r)))
           /\ Permutes(FlattenSeq(Split(r)), Len(MiniBatch(r)))
<1>1. task'[r] = [task[r] EXCEPT
                     !.pc = "forward",
                     !.rest = SubSeq(@, Len(MiniBatch(r)) + 1, Len(@)),
                     !.indices = FlattenSeq(Split(r)),
                     !.micro = Taken(MiniBatch(r), Split(r))]
  BY DEF Rearrange, Split, Taken
<1>2. \A q \in Ranks : task[q].rest \in Seq(Rows) /\ task[q].rest # <<>>
  BY DEF Rearrange, At, Turn, Held, EvenTurns
<1>3. PICK mini \in Seq(Rows) :
          /\ mini = MiniBatch(r) /\ Len(mini) = MiniSize(Len(task[r].rest))
          /\ Len(mini) \in 1..Len(task[r].rest)
          /\ call # "update_actor" => mini = task[r].rest
  BY <1>2, MiniBatchIs
<1>4. PICK n \in Nat \ {0} : n = Agreed(r)
  BY <1>2, AgreedIs
<1>5. Len(mini) > 0
  BY <1>2, <1>3
<1>6. LengthsOf(mini) \in Seq(Nat \ {0}) /\ Len(LengthsOf(mini)) = Len(mini)
  BY LengthsIs
<1>7. PICK lens \in Seq(Nat \ {0}) : lens = LengthsOf(mini) /\ Len(lens) = Len(mini)
  BY <1>6
<1>8. Len(lens) > 0 /\ n \in Nat /\ n > 0 /\ FALSE \in BOOLEAN /\ (FALSE => Len(lens) % n = 0)
  BY <1>4, <1>5, <1>7
<1>9. /\ Partitions(lens, n, FALSE) \in Seq(Seq(1..Len(lens)))
      /\ Len(Partitions(lens, n, FALSE)) = n
  BY <1>8, PartitionsState
<1>10. /\ FlattenSeq(Partitions(lens, n, FALSE)) \in Seq(1..Len(lens))
       /\ Permutes(FlattenSeq(Partitions(lens, n, FALSE)), Len(lens))
  BY <1>8, PartitionsPermute
<1>11. Split(r) = Partitions(lens, n, FALSE)
  BY <1>3, <1>4, <1>7 DEF Split
<1> QED
  BY <1>1, <1>3, <1>4, <1>7, <1>9, <1>10, <1>11

(* All ranks split their mini-batch, each into as many micro-batches. *)
LEMMA RearrangeTurn ==
    ASSUME Types, BatchInv, Turn, call \in Trained, Rearrange
    PROVE  Turn'
<1>1. /\ Rows' = Rows /\ MicroBatches' = MicroBatches /\ PerRank' = PerRank
      /\ \A q : Share(q)' = Share(q)
  BY SameBatch DEF Rearrange, trainer
<1>2. /\ EvenTurns /\ call' = call
      /\ \A q \in Ranks : /\ Fields \subseteq DOMAIN task[q]
                          /\ task[q].rows = Share(q) /\ task[q].rest \in Seq(Rows)
                          /\ task[q].pc = "mini"
  BY DEF Turn, Held, Shares, Rearrange, At, trainer, Trained, Updates
<1>3. PICK n \in Nat \ {0} : \A q \in Ranks : Agreed(q) = n
  BY <1>2, AgreedIs DEF EvenTurns
<1>4. \A q, r \in Ranks : Len(task[q].rest) = Len(task[r].rest)
  BY <1>2 DEF EvenTurns
<1>5. ASSUME NEW r \in Ranks
      PROVE  /\ Fields \subseteq DOMAIN task'[r] /\ task'[r].pc = "forward"
             /\ task'[r].rows = Share(r)
             /\ task'[r].rest \in Seq(Rows)
             /\ Len(task'[r].rest) = Len(task[r].rest) - MiniSize(Len(task[r].rest))
             /\ call # "update_actor" => task'[r].rest = <<>>
             /\ task'[r].micro \in MicroBatches /\ Len(task'[r].micro) = n
  <2>1. PICK rest \in Seq(Rows) : rest = task[r].rest
    BY <1>2
  <2>2. PICK L \in Nat : L = Len(rest)
    OBVIOUS
  <2>3. PICK m \in 1..L : m = MiniSize(L) /\ m = Len(MiniBatch(r))
    BY <2>1, <2>2, RearrangeIs
  <2>4. /\ Fields \subseteq DOMAIN task'[r] /\ task'[r].pc = "forward"
        /\ task'[r].rows = task[r].rows
        /\ task'[r].rest = SubSeq(rest, m + 1, L)
        /\ task'[r].micro = Taken(MiniBatch(r), Split(r))
    <3>1. PICK mini, split, idx :
              /\ mini = MiniBatch(r) /\ split = Taken(MiniBatch(r), Split(r))
              /\ idx = FlattenSeq(Split(r))
      OBVIOUS
    <3>2. task'[r] = [task[r] EXCEPT
                         !.pc = "forward",
                         !.rest = SubSeq(@, Len(mini) + 1, Len(@)),
                         !.indices = idx,
                         !.micro = split]
      BY <3>1, RearrangeIs, Zenon
    <3>3. Fields \subseteq DOMAIN task[r]
      BY <1>2
    <3> QED
      BY <2>1, <2>2, <2>3, <3>1, <3>2, <3>3 DEF Fields
  <2>5. SubSeq(rest, m + 1, L) \in Seq(Rows) /\ Len(SubSeq(rest, m + 1, L)) = L - m
    <3>1. m \in Nat /\ L - m \in Nat /\ m + (L - m) <= Len(rest) /\ m + (L - m) = L
      BY <2>2
    <3> QED
      BY <3>1, PartOf
  <2>6. call # "update_actor" => m = L
    BY <2>3 DEF MiniSize
  <2>7. call # "update_actor" => SubSeq(rest, m + 1, L) = <<>>
    BY <2>5, <2>6
  <2>8. /\ MiniBatch(r) \in Seq(Rows) /\ Split(r) \in Seq(Seq(1..m)) /\ Len(Split(r)) = n
    BY <1>3, <2>3, RearrangeIs
  <2>9. Taken(MiniBatch(r), Split(r)) \in Seq(Seq(Rows))
        /\ Len(Taken(MiniBatch(r), Split(r))) = Len(Split(r))
    <3>1. PICK mini \in Seq(Rows) : mini = MiniBatch(r) /\ Len(mini) = m
      BY <2>3, <2>8
    <3>2. AreParts(Split(r), Len(mini))
      BY <2>8, <3>1 DEF AreParts
    <3>3. /\ Taken(mini, Split(r)) \in Seq(Seq(Rows))
          /\ Len(Taken(mini, Split(r))) = Len(Split(r))
      BY <3>2, TakenIs
    <3> QED
      BY <3>1, <3>3
  <2>10. Taken(MiniBatch(r), Split(r)) \in MicroBatches
    BY <2>9 DEF MicroBatches
  <2> QED
    BY <1>2, <2>1, <2>2, <2>3, <2>4, <2>5, <2>7, <2>8, <2>9, <2>10
<1>6. Held'
  BY <1>1, <1>2, <1>5 DEF Turn, Held
<1>7. Shares'
  BY <1>1, <1>5 DEF Shares
<1>8. \A q, r \in Ranks : Len(task'[q].rest) = Len(task'[r].rest)
  BY <1>4, <1>5
<1>9. call = "compute_log_prob" => call # "update_actor"
  OBVIOUS
<1>10. EvenTurns'
  BY <1>2, <1>5, <1>8, <1>9 DEF EvenTurns
<1> QED
  BY <1>2, <1>6, <1>7, <1>10 DEF Turn

(* A forward pass takes a micro-batch of every rank. *)
LEMMA ForwardTurn ==
    ASSUME Types, BatchInv, Turn, call \in Trained, Forward
    PROVE  Turn'
<1>1. /\ Rows' = Rows /\ MicroBatches' = MicroBatches /\ PerRank' = PerRank
      /\ \A q : Share(q)' = Share(q)
  BY SameBatch DEF Forward, trainer
<1>2. /\ EvenTurns /\ call' = call
      /\ \A q \in Ranks : /\ Fields \subseteq DOMAIN task[q]
                          /\ task[q].pc = "forward" /\ task[q].micro # <<>>
                          /\ task[q].micro \in MicroBatches
  BY DEF Turn, Held, Forward, At, trainer
<1>3. ASSUME NEW r \in Ranks
      PROVE  /\ Fields \subseteq DOMAIN task'[r] /\ task'[r].pc = "forward"
             /\ task'[r].rows = task[r].rows /\ task'[r].rest = task[r].rest
             /\ task'[r].micro \in MicroBatches
             /\ Len(task'[r].micro) = Len(task[r].micro) - 1
  <2>1. /\ Fields \subseteq DOMAIN task'[r] /\ task'[r].pc = task[r].pc
        /\ task'[r].rows = task[r].rows /\ task'[r].rest = task[r].rest
        /\ task'[r].micro = Tail(task[r].micro)
    BY <1>2 DEF Forward, Fields
  <2>2. PICK s \in MicroBatches : s = task[r].micro /\ s # <<>>
    BY <1>2
  <2> DEFINE Q == Seq(Rows)
  <2>3. s \in Seq(Q)
    BY DEF MicroBatches
  <2> HIDE DEF Q
  <2>4. Tail(s) \in Seq(Q) /\ Len(Tail(s)) = Len(s) - 1
    BY <2>2, <2>3, HeadTailProperties
  <2> QED
    BY <1>2, <2>1, <2>2, <2>4 DEF MicroBatches, Q
<1>4. \A q, r \in Ranks : Len(task[q].micro) = Len(task[r].micro)
  BY <1>2 DEF EvenTurns
<1>5. Held'
  BY <1>1, <1>3 DEF Turn, Held
<1>6. Shares'
  BY <1>1, <1>2, <1>3 DEF Turn, Shares
<1>7. \A q, r \in Ranks : Len(task'[q].micro) = Len(task'[r].micro)
  BY <1>3, <1>4
<1>8. \A r \in Ranks : call = "compute_log_prob" => task'[r].rest = <<>>
  BY <1>2, <1>3 DEF EvenTurns
<1>9. \A q, r \in Ranks : Len(task'[q].rest) = Len(task'[r].rest)
  BY <1>2, <1>3 DEF EvenTurns
<1>10. EvenTurns'
  BY <1>2, <1>3, <1>7, <1>8, <1>9 DEF EvenTurns
<1> QED
  BY <1>2, <1>5, <1>6, <1>10 DEF Turn


-----------------------------------------------------------------------------
(* Every call goes on *)

(* Where the ranks of a call can be *)
LEMMA CallPlaces ==
    ASSUME IInv, InStep, Turn, NEW r \in Ranks
    PROVE  /\ call \in Trained =>
                  task[r].pc \in {"called", "mini", "forward", "offload", "returned"}
           /\ call = "generate_sequences" =>
                  task[r].pc \in {"called", "sync", "synced", "kv", "gather", "generate",
                                  "exit", "returned"}
           /\ call = "save_checkpoint" =>
                  task[r].pc \in {"called", "saving", "offload", "returned"}
           /\ call = "none" => task[r].pc = "idle"
           /\ call \in Trained \cup {"generate_sequences", "save_checkpoint", "none"}
BY DEF IInv, Resting, InStep, Turn, EvenTurns, At, Entering, Gathering, Done, Trained,
       Methods, Updates

(* The prompts of a group *)
GroupRows(g) == Concat([r \in Ranks |-> Share(r)], GroupOf(g))

(* A group's ranks are in a row. *)
LEMMA GroupInARow ==
    ASSUME NEW g \in Groups
    PROVE  /\ InARow(GroupOf(g), g * TPSize, TPSize) /\ g * TPSize \in Int
           /\ \A r \in GroupOf(g) : /\ r \in Ranks /\ TpRank(r) \in 0..(TPSize - 1)
                                     /\ g * TPSize + TpRank(r) = r
<1>1. PICK q \in Ranks : DpRank(q) = g
  BY DEF Groups
<1>2. /\ GroupOf(g) = (g * TPSize)..(g * TPSize + TPSize - 1) /\ g \in Nat
      /\ TPSize \in Nat /\ TPSize > 0
  BY <1>1, GroupIs, Constants
<1>3. ASSUME NEW r \in GroupOf(g)
      PROVE  r \in Ranks /\ TpRank(r) \in 0..(TPSize - 1) /\ g * TPSize + TpRank(r) = r
  <2>1. r \in Ranks /\ DpRank(r) = g
    BY DEF GroupOf
  <2> QED
    BY <2>1, GroupIs
<1> QED
  BY <1>2, <1>3 DEF InARow

(* They are the shares of its ranks, one after the other. *)
LEMMA GroupRowsIs ==
    ASSUME BatchInv, NEW g \in Groups
    PROVE  /\ GroupRows(g) \in Seq(Rows) /\ Len(GroupRows(g)) = TPSize * PerRank
           /\ \A r \in GroupOf(g) : \A b \in 1..PerRank :
                 GroupRows(g)[TpRank(r) * PerRank + b] = Share(r)[b]
<1> DEFINE parts == [r \in Ranks |-> Share(r)]
<1>1. PICK lo \in Int : /\ lo = g * TPSize /\ InARow(GroupOf(g), lo, TPSize)
                        /\ \A r \in GroupOf(g) : /\ r \in Ranks
                                                  /\ TpRank(r) \in 0..(TPSize - 1)
                                                  /\ lo + TpRank(r) = r
  BY GroupInARow
<1>2. \A r \in Ranks : parts[r] = Share(r)
  OBVIOUS
<1> HIDE DEF parts
<1>3. TPSize \in Nat /\ TPSize > 0 /\ PerRank \in Nat
  <2>1. PICK q \in Ranks : DpRank(q) = g
    BY DEF Groups
  <2> QED
    BY <2>1, Constants, ShareIs
<1>4. EachHas(parts, GroupOf(g), Rows, PerRank)
  BY <1>1, <1>2, ShareIs DEF EachHas
<1>5. OneByOne(Concat(parts, GroupOf(g)), parts, lo, TPSize, Rows, PerRank)
  BY <1>1, <1>3, <1>4, ConcatIs
<1>6. Concat(parts, GroupOf(g)) = GroupRows(g)
  BY DEF GroupRows, parts
<1>7. ASSUME NEW r \in GroupOf(g), NEW b \in 1..PerRank
      PROVE  GroupRows(g)[TpRank(r) * PerRank + b] = Share(r)[b]
  <2>1. TpRank(r) \in 0..(TPSize - 1) /\ lo + TpRank(r) = r /\ r \in Ranks
    BY <1>1
  <2>2. Concat(parts, GroupOf(g))[TpRank(r) * PerRank + b] = parts[lo + TpRank(r)][b]
    BY <1>5, <2>1 DEF OneByOne
  <2> QED
    BY <1>2, <1>6, <2>1, <2>2
<1> QED
  BY <1>5, <1>6, <1>7 DEF OneByOne

(* What is concatenated is what the ranks have. *)
SameOn(p, q, ranks) == \A r \in ranks : p[r] = q[r]

(* Concat depends on what the ranks have and nothing else. *)
LEMMA SameConcat ==
    ASSUME NEW p, NEW q, NEW lo \in Int, NEW n \in Nat, n > 0, NEW ranks,
           InARow(ranks, lo, n), SameOn(p, q, ranks)
    PROVE  Concat(p, ranks) = Concat(q, ranks)
<1>1. ranks = lo..(lo + n - 1)
  BY DEF InARow
<1>2. Min(ranks) = lo /\ Cardinality(ranks) = n
  BY <1>1, MinInterval
<1>3. \A i \in 1..n : p[lo + i - 1] = q[lo + i - 1]
  BY <1>1 DEF SameOn
<1>4. [i \in 1..n |-> p[lo + i - 1]] = [i \in 1..n |-> q[lo + i - 1]]
  BY <1>3
<1> QED
  BY <1>2, <1>4 DEF Concat

(* What a group gathers is its prompts. *)
LEMMA GatheredRows ==
    ASSUME NEW g \in Groups, \A r \in GroupOf(g) : task[r].rows = Share(r)
    PROVE  Concat([r \in Ranks |-> task[r].rows], GroupOf(g)) = GroupRows(g)
<1> DEFINE p == [r \in Ranks |-> task[r].rows]
           q == [r \in Ranks |-> Share(r)]
<1>1. PICK lo \in Int : InARow(GroupOf(g), lo, TPSize) /\ \A r \in GroupOf(g) : r \in Ranks
  BY GroupInARow
<1>2. SameOn(p, q, GroupOf(g))
  BY <1>1 DEF SameOn
<1> HIDE DEF p, q
<1>3. Concat(p, GroupOf(g)) = Concat(q, GroupOf(g))
  BY <1>1, <1>2, Constants, SameConcat
<1> QED
  BY <1>3 DEF GroupRows, p, q

(* Every step keeps the ranks' turns even. *)
LEMMA TurnStep ==
    ASSUME IInv, InStep, BatchInv, Turn, [Next]_vars
    PROVE  Turn'
<1>0. Types /\ \A r \in Ranks : Fields \subseteq DOMAIN task[r]
  BY DEF IInv, Turn, Held
<1>1. \A c \in {"generate_sequences", "save_checkpoint", "none"} : c \notin Trained
  BY DEF Trained, Updates
<1>2. 0 \in Ranks
  BY Constants DEF Ranks
<1>5. ASSUME NEW r \in Ranks, Enter(r) PROVE Turn'
  <2>1. \A q \in Ranks : GoesOn(q)
    BY <1>0, <1>5 DEF Enter, At, Goto, Types, Fields, GoesOn, Gathered
  <2> QED
    BY <1>1, <1>5, <2>1, OtherTurn DEF Enter, trainer
<1>6. ASSUME NEW r \in Ranks, OffloadParams(r) PROVE Turn'
  <2>1. \A q \in Ranks : GoesOn(q)
    BY <1>0, <1>6 DEF OffloadParams, At, Goto, Types, Fields, GoesOn, Gathered
  <2> QED
    BY <1>6, <2>1, OtherTurn, CallPlaces DEF OffloadParams, At, trainer
<1>7. ASSUME NEW r \in Ranks, WakeCache(r) PROVE Turn'
  <2>1. \A q \in Ranks : GoesOn(q)
    BY <1>0, <1>7 DEF WakeCache, At, Goto, Types, Fields, GoesOn, Gathered
  <2> QED
    BY <1>7, <2>1, OtherTurn, CallPlaces DEF WakeCache, At, trainer
<1>8. ASSUME NEW r \in Ranks, Exit(r) PROVE Turn'
  <2>1. \A q \in Ranks : GoesOn(q)
    BY <1>0, <1>8 DEF Exit, At, Types, Fields, GoesOn, Gathered
  <2> QED
    BY <1>8, <2>1, OtherTurn, CallPlaces DEF Exit, At, trainer
<1>9. ASSUME NEW r \in Ranks, Load(r) PROVE Turn'
  <2>1. CASE call \in Trained
    BY <1>0, <1>9, <2>1, LoadTurn
  <2>2. CASE call \notin Trained
    <3>1. \A q \in Ranks : GoesOn(q)
      BY <1>0, <1>9 DEF Load, Types, Fields, GoesOn, Gathered, Methods
    <3> QED
      BY <1>9, <2>2, <3>1, OtherTurn DEF Load, trainer
  <2> QED
    BY <2>1, <2>2
<1>10. ASSUME NEW r \in Ranks, ReturnLogProbs(r) PROVE Turn'
  <2>1. /\ call = "compute_log_prob" /\ call \in Trained
        /\ task[r].pc = "forward" /\ task[r].micro = <<>>
    BY <1>10 DEF ReturnLogProbs, At, Trained
  <2>2. Moved(r, "offload")
    BY <1>0, <1>10 DEF ReturnLogProbs, Types, Fields, Moved
  <2> QED
    BY <1>10, <2>1, <2>2, PlaceTurn DEF ReturnLogProbs, trainer
<1>11. CASE OptimizerStep
  BY <1>0, <1>11, OptimizerTurn
<1>12. ASSUME NEW r \in Ranks, Offload(r) PROVE Turn'
  <2>1. task[r].pc = "offload"
    BY <1>12 DEF Offload, At
  <2>2. CASE call \in Trained
    <3>1. Moved(r, "returned")
      BY <1>0, <1>12 DEF Offload, Goto, Types, Fields, Moved
    <3> QED
      BY <1>12, <2>1, <2>2, <3>1, PlaceTurn DEF Offload, trainer
  <2>3. CASE call \notin Trained
    <3>1. \A q \in Ranks : GoesOn(q)
      BY <1>0, <1>12, <2>1 DEF Offload, Goto, Types, Fields, GoesOn, Gathered
    <3> QED
      BY <1>12, <2>3, <3>1, OtherTurn DEF Offload, trainer
  <2> QED
    BY <2>2, <2>3
<1>13. CASE UpdateParams
  <2>1. \A q \in Ranks : GoesOn(q)
    BY <1>0, <1>13 DEF UpdateParams, At, Types, Fields, GoesOn, Gathered
  <2>2. task[0].pc = "sync"
    BY <1>2, <1>13 DEF UpdateParams, At
  <2> QED
    BY <1>2, <1>13, <2>1, <2>2, OtherTurn, CallPlaces DEF UpdateParams, trainer
<1>14. CASE Rearrange
  <2>1. task[0].pc = "mini"
    BY <1>2, <1>14 DEF Rearrange, At
  <2>2. call \in Trained
    BY <1>2, <2>1, CallPlaces
  <2> QED
    BY <1>0, <1>14, <2>2, RearrangeTurn
<1>15. CASE Forward
  <2>1. task[0].pc = "forward"
    BY <1>2, <1>15 DEF Forward, At
  <2>2. call \in Trained
    BY <1>2, <2>1, CallPlaces
  <2> QED
    BY <1>0, <1>15, <2>2, ForwardTurn
<1>16. CASE SaveShards
  <2>1. \A q \in Ranks : GoesOn(q)
    BY <1>0, <1>16 DEF SaveShards, At, Types, Fields, GoesOn, Gathered
  <2>2. task[0].pc = "saving"
    BY <1>2, <1>16 DEF SaveShards, At
  <2> QED
    BY <1>2, <1>16, <2>1, <2>2, OtherTurn, CallPlaces DEF SaveShards, trainer
<1>17. ASSUME NEW g \in Groups, AllGather(g) PROVE Turn'
  <2> DEFINE rows == Concat([r \in Ranks |-> task[r].rows], GroupOf(g))
  <2>1. PICK q \in Ranks : q \in GroupOf(g)
    BY DEF Groups, GroupOf
  <2>2. call = "generate_sequences"
    BY <1>17, <2>1, CallPlaces DEF AllGather, At
  <2>3. \A r \in GroupOf(g) : r \in Ranks /\ task[r].rows = Share(r)
    BY <1>17, <2>2 DEF AllGather, At, GroupOf, Turn, Shares
  <2>4. rows \in Seq(Rows)
    BY <2>3, GatheredRows, GroupRowsIs
  <2>5. \A r \in Ranks :
            task'[r] = IF r \in GroupOf(g)
                       THEN [task[r] EXCEPT !.pc = "generate", !.rows = rows]
                       ELSE task[r]
    BY <1>17 DEF AllGather
  <2> HIDE DEF rows
  <2>6. \A r \in Ranks : GoesOn(r)
    BY <1>0, <2>2, <2>4, <2>5 DEF Fields, GoesOn, Gathered
  <2> QED
    BY <1>1, <1>17, <2>2, <2>6, OtherTurn DEF AllGather, trainer
<1>18. ASSUME NEW g \in Groups, Generate(g) PROVE Turn'
  <2>1. PICK q \in Ranks : q \in GroupOf(g)
    BY DEF Groups, GroupOf
  <2>2. call = "generate_sequences"
    BY <1>18, <2>1, CallPlaces DEF Generate, At
  <2>3. ASSUME NEW r \in Ranks PROVE GoesOn(r)
    <3>1. PICK out : task'[r] = IF r \in GroupOf(g)
                                THEN [task[r] EXCEPT !.pc = "exit", !.out = out]
                                ELSE task[r]
      BY <1>18 DEF Generate
    <3> QED
      BY <1>0, <3>1 DEF Fields, GoesOn, Gathered
  <2> QED
    BY <1>1, <1>18, <2>2, <2>3, OtherTurn DEF Generate, trainer
<1>19. CASE Collect
  BY <1>0, <1>19, CollectTurn
<1>20. CASE Balance
  <2>1. \A r \in Ranks : UNCHANGED task /\ UNCHANGED call
    BY <1>20 DEF Balance
  <2>2. call = "none" /\ UNCHANGED <<seqlen, task, call>>
    BY <1>20 DEF Balance
  <2>3. Rows' = Rows /\ MicroBatches' = MicroBatches
    BY <2>2 DEF Rows, MicroBatches
  <2> QED
    BY <1>1, <2>2, <2>3 DEF Turn, Held, Shares
<1>21. ASSUME NEW m \in Methods, Call(m) PROVE Turn'
  BY <1>0, <1>21, CallTurn
<1>22. CASE UNCHANGED vars
  <2>1. /\ Rows' = Rows /\ MicroBatches' = MicroBatches /\ PerRank' = PerRank
        /\ \A q : Share(q)' = Share(q)
    BY <1>22, SameBatch DEF vars
  <2>2. task' = task /\ call' = call
    BY <1>22 DEF vars
  <2> QED
    BY <2>1, <2>2 DEF Turn, Held, Shares, EvenTurns
<1> QED
  BY <1>5, <1>6, <1>7, <1>8, <1>9, <1>10, <1>11, <1>12, <1>13, <1>14, <1>15, <1>16, <1>17,
     <1>18, <1>19, <1>20, <1>21, <1>22 DEF Next, Work, Collective, RankStep

(* Before the first call no rank holds any rows. *)
LEMMA TurnStart == Init => Turn
<1> SUFFICES ASSUME Init PROVE Turn
  OBVIOUS
<1>1. call = "none" /\ \A r \in Ranks : task[r] = Idle
  BY DEF Init
<1>2. <<>> \in Seq(Rows) /\ <<>> \in MicroBatches
  BY DEF MicroBatches
<1>3. /\ Fields \subseteq DOMAIN Idle
      /\ Idle.rows = <<>> /\ Idle.rest = <<>> /\ Idle.micro = <<>>
  BY DEF Idle, Fields
<1>4. Held
  BY <1>1, <1>2, <1>3 DEF Held
<1>5. "none" \notin Trained
  BY DEF Trained, Updates
<1> QED
  BY <1>1, <1>4, <1>5 DEF Turn, Shares

(* However the trainer makes its calls, the batch stays a permutation of  *)
(* its rows and the ranks that make micro-batches take the same number of *)
(* forward passes in each of their turns.                                 *)
THEOREM TurnsHold == Spec => [](IInv /\ InStep /\ BatchInv /\ Turn)
<1>1. Init => IInv /\ InStep /\ BatchInv /\ Turn
  BY Start, BatchStart, TurnStart
<1>2. (IInv /\ InStep /\ BatchInv /\ Turn) /\ [Next]_vars => (IInv /\ InStep /\ BatchInv /\ Turn)'
  BY MemoryStep, InStepStep, BatchStep, TurnStep
<1> QED
  BY <1>1, <1>2, PTL DEF Spec

(* No call gets stuck: some rank can go on alone, or every rank of a    *)
(* collective has come to it (in update_actor too, where ranks make as  *)
(* many mini-batches and micro-batches as each other because the shares *)
(* are as long and the number is agreed on).                            *)
THEOREM EveryCallGoesOn == Spec => []CallGoesOn
<1> DEFINE all(ranks, pc) == \A r \in ranks : At(r, pc)
           left(r)        == At(r, "forward") /\ task[r].micro # <<>>
<1>1. ASSUME IInv, InStep, BatchInv, Turn, call \in Trained
      PROVE  \/ \E r \in Ranks : task[r].pc \in {"called", "synced", "kv", "exit", "offload"}
             \/ call \notin Updates /\ \E r \in Ranks : At(r, "forward") /\ ~left(r)
             \/ call \in Updates /\ \A r \in Ranks : At(r, "forward") /\ ~left(r)
             \/ \E pc \in {"sync", "mini", "saving", "returned"} : all(Ranks, pc)
             \/ \A r \in Ranks : left(r)
  <2> SUFFICES ASSUME \A r \in Ranks : task[r].pc \notin {"called", "offload"},
                      call \notin Updates => \A r \in Ranks : At(r, "forward") => left(r),
                      call \in Updates => \E r \in Ranks : At(r, "forward") => left(r)
               PROVE  \/ all(Ranks, "mini") \/ all(Ranks, "returned")
                      \/ \A r \in Ranks : left(r)
    OBVIOUS
  <2>1. EvenTurns
    BY <1>1 DEF Turn
  <2>2. \A r \in Ranks : task[r].rest \in Seq(Rows) /\ task[r].micro \in MicroBatches
    BY <1>1 DEF Turn, Held
  <2>3. \A r \in Ranks : task[r].pc \in {"mini", "forward", "returned"}
    BY <2>1 DEF EvenTurns
  <2>4. CASE \E r \in Ranks : task[r].pc = "forward"
    <3>1. \A r \in Ranks : task[r].pc = "forward"
      BY <2>1, <2>4 DEF EvenTurns, At
    <3>2. PICK q \in Ranks : task[q].micro # <<>>
      BY <2>4, <3>1 DEF At
    <3>3. \A r \in Ranks : task[r].micro # <<>>
      <4>1. \A x \in MicroBatches : Len(x) = Len(<<>>) => x = <<>>
        BY DEF MicroBatches
      <4>2. \A r \in Ranks : Len(task[r].micro) = Len(task[q].micro)
        BY <2>1, <3>1, <3>2 DEF EvenTurns
      <4> QED
        BY <2>2, <3>2, <4>1, <4>2
    <3> QED
      BY <3>1, <3>3 DEF At
  <2>5. CASE \A r \in Ranks : task[r].pc # "forward"
    <3>1. ASSUME NEW q \in Ranks, NEW r \in Ranks, task[q].pc = "mini" PROVE task[r].pc = "mini"
      <4>1. task[q].rest # <<>> /\ Len(task[q].rest) = Len(task[r].rest)
        BY <2>1, <2>3, <3>1 DEF EvenTurns
      <4>2. PICK s \in Seq(Rows) : s = task[q].rest
        BY <2>2
      <4>3. Len(s) # 0
        BY <4>1, <4>2
      <4>4. task[r].rest # <<>>
        BY <4>1, <4>2, <4>3
      <4> QED
        BY <2>1, <2>3, <2>5, <4>4 DEF EvenTurns
    <3> QED
      BY <2>3, <2>5, <3>1 DEF At
  <2> QED
    BY <2>4, <2>5
<1>2. ASSUME IInv, InStep, BatchInv, Turn PROVE CallGoesOn
  <2>1. CASE call \in Trained
    BY <1>1, <1>2, <2>1 DEF CallGoesOn
  <2>2. CASE call \in {"generate_sequences", "save_checkpoint"}
    BY <1>2, <2>2, GenerationGoesOn
  <2>3. CASE call = "none"
    BY <2>3 DEF CallGoesOn
  <2>4. call \in Trained \cup {"generate_sequences", "save_checkpoint", "none"}
    BY <1>2 DEF Turn, Methods, Trained
  <2> QED
    BY <2>1, <2>2, <2>3, <2>4
<1> QED
  BY <1>2, TurnsHold, PTL


-----------------------------------------------------------------------------
(* What is computed, from what and of what *)

(* What is computed of rows with the shards as they are *)
Results(rows, d) == [i \in DOMAIN rows |-> [row |-> rows[i], weights |-> actor, drawn |-> d]]

Sampling == call = "generate_sequences"

(* The random states of a rank, its own and its group's *)
OwnState(r)      == <<r, 0>>

GroupState(r, n) == <<1000 + DpRank(r), n>>

(* Calls are counted, and a turn of the rollout was a call. *)
Counted ==
    /\ calls \in 0..MaxCalls
    /\ Len(rollout) + (IF Sampling THEN 1 ELSE 0) <= calls

(* Once gathered, an engine has the weights that are trained. *)
Weights ==
    /\ actor \in [Ranks -> Nat]
    /\ engine \in [Ranks -> [Ranks -> Nat]]
    /\ Sampling => \A r \in Ranks : task[r].pc \notin {"called", "sync"} => engine[r] = actor

(* Which of its states a rank has in place *)
NowOf(r) ==
    IF task[r].pc \in {"gather", "generate"} THEN GroupState(r, Len(rollout))
    ELSE IF task[r].pc = "exit" THEN GroupState(r, Len(rollout) + 1)
    ELSE OwnState(r)

GenOf(r) ==
    IF Sampling /\ task[r].pc = "returned" THEN GroupState(r, Len(rollout) + 1)
    ELSE GroupState(r, Len(rollout))

Swapped ==
    /\ random = [r \in Ranks |-> random[r]]
    /\ \A r \in Ranks :
          random[r] = [now |-> NowOf(r), gen |-> GenOf(r), torch |-> OwnState(r)]

(* A generating rank has its group's prompts, until it is left with what *)
(* was generated of its own.                                             *)
Generated ==
    Sampling =>
        \A r \in Ranks :
            /\ task[r].pc \in {"generate", "exit"} => task[r].rows = GroupRows(DpRank(r))
            /\ task[r].out =
                  IF task[r].pc = "exit"
                  THEN Results(GroupRows(DpRank(r)), GroupState(r, Len(rollout)))
                  ELSE IF task[r].pc = "returned"
                  THEN Results(Share(r), GroupState(r, Len(rollout)))
                  ELSE <<>>

(* The rows p names, from mini *)
Picked(mini, p) == [i \in DOMAIN p |-> mini[p[i]]]

(* What is computed and what is still to come are a rank's rows in the    *)
(* order of the indices.                                                  *)
InForward(r) ==
    /\ task[r].indices \in Seq(1..PerRank) /\ Len(task[r].indices) = PerRank
    /\ Permutes(task[r].indices, PerRank)
    /\ \E done \in Seq(Rows) :
          /\ done \o FlattenSeq(task[r].micro) = Picked(Share(r), task[r].indices)
          /\ task[r].out = Results(done, OwnState(r))

(* In the end they are in the order they came in. *)
ComputedOf(r) ==
    /\ task[r].pc \in {"called", "mini"} => task[r].out = <<>>
    /\ task[r].pc = "mini" => task[r].rest = Share(r)
    /\ task[r].pc = "forward" => InForward(r)
    /\ task[r].pc \in {"offload", "returned"} => task[r].out = Results(Share(r), OwnState(r))

Computed == call = "compute_log_prob" => \A r \in Ranks : ComputedOf(r)

(* The other calls return nothing. *)
NoOutput ==
    call \notin {"generate_sequences", "compute_log_prob"} =>
        \A r \in Ranks : task[r].out = <<>>

(* What the last call returned *)
Returned ==
    /\ call # "none" => result = <<>>
    /\ result # <<>> =>
          /\ result \in Seq(Outputs) /\ Len(result) = Len(batch)
          /\ \A i \in 1..Len(batch) : result[i].row = batch[i] /\ result[i].weights = actor

(* What was generated *)
RolledOut ==
    /\ rollout \in Seq(Seq(Outputs))
    /\ \A s \in DOMAIN rollout :
          /\ Len(rollout[s]) = Len(batch)
          /\ \A i \in 1..Len(batch) : rollout[s][i].drawn = <<1000 + GroupAt(i), s - 1>>

(* The result of a row *)
OneResult(row, d)   == [row |-> row, weights |-> actor, drawn |-> d]

ResultsOf(T, d) == [row : T, weights : {actor}, drawn : {d}]

(* One result for each row *)
LEMMA ResultsIs ==
    ASSUME NEW T, NEW rows \in Seq(T), NEW d
    PROVE  /\ Results(rows, d) \in Seq(ResultsOf(T, d))
           /\ Len(Results(rows, d)) = Len(rows) /\ DOMAIN Results(rows, d) = 1..Len(rows)
           /\ \A i \in 1..Len(rows) : Results(rows, d)[i] = OneResult(rows[i], d)
<1>1. PICK n \in Nat : n = Len(rows) /\ DOMAIN rows = 1..n /\ \A i \in 1..n : rows[i] \in T
  OBVIOUS
<1>2. Results(rows, d) = [i \in 1..n |-> OneResult(rows[i], d)]
  BY <1>1 DEF Results, OneResult
<1>3. \A i \in 1..n : OneResult(rows[i], d) \in ResultsOf(T, d)
  BY <1>1 DEF OneResult, ResultsOf
<1>4. Results(rows, d) \in [1..n -> ResultsOf(T, d)]
  BY <1>2, <1>3
<1>5. Results(rows, d) \in Seq(ResultsOf(T, d)) /\ Len(Results(rows, d)) = n
  BY <1>4, FunctionIsSeq
<1> QED
  BY <1>1, <1>2, <1>5

(* Results of rows are outputs. *)
LEMMA ResultsType ==
    ASSUME BatchInv, Weights, NEW rows \in Seq(Rows), NEW d \in States
    PROVE  Results(rows, d) \in Seq(Outputs)
<1>1. Results(rows, d) \in Seq(ResultsOf(Rows, d))
  BY ResultsIs
<1>2. ResultsOf(Rows, d) \subseteq Outputs
  BY SeqlenIs DEF Outputs, Weights, ResultsOf
<1> QED
  BY <1>1, <1>2, SeqMonotonic

(* Results of some rows, one after the other *)
LEMMA ResultsConcat ==
    ASSUME NEW T, NEW s \in Seq(T), NEW t \in Seq(T), NEW d
    PROVE  Results(s \o t, d) = Results(s, d) \o Results(t, d)
<1> DEFINE R == ResultsOf(T, d)
           one(x) == OneResult(x, d)
<1> HIDE DEF R
<1>2. PICK a \in Seq(R) : a = Results(s, d)
  BY ResultsIs DEF R
<1>3. PICK b \in Seq(R) : b = Results(t, d)
  BY ResultsIs DEF R
<1>4. PICK st \in Seq(T) : st = s \o t /\ Follows(st, s, t)
  BY ConcatFollows
<1>5. PICK c \in Seq(R) : c = Results(st, d)
  BY ResultsIs DEF R
<1>6. PICK ab \in Seq(R) : ab = a \o b /\ Follows(ab, a, b)
  BY ConcatFollows
<1>7. /\ Len(a) = Len(s) /\ \A i \in 1..Len(s) : a[i] = one(s[i])
      /\ Len(b) = Len(t) /\ \A i \in 1..Len(t) : b[i] = one(t[i])
      /\ Len(c) = Len(st) /\ \A i \in 1..Len(st) : c[i] = one(st[i])
  BY <1>2, <1>3, <1>5, ResultsIs
<1> HIDE DEF one
<1>8. Len(ab) = Len(c) /\ Len(c) = Len(s) + Len(t)
  BY <1>4, <1>6, <1>7 DEF Follows
<1>9. ASSUME NEW i \in 1..Len(c) PROVE c[i] = ab[i]
  <2>1. /\ c[i] = one(st[i])
        /\ st[i] = IF i <= Len(s) THEN s[i] ELSE t[i - Len(s)]
        /\ ab[i] = IF i <= Len(s) THEN a[i] ELSE b[i - Len(s)]
    BY <1>4, <1>6, <1>7, <1>8 DEF Follows
  <2>2. CASE i <= Len(s)
    <3>1. i \in 1..Len(s)
      BY <2>2
    <3> QED
      BY <1>7, <2>1, <2>2, <3>1
  <2>3. CASE ~(i <= Len(s))
    <3>1. i - Len(s) \in 1..Len(t)
      BY <1>8, <2>3
    <3> QED
      BY <1>7, <2>1, <2>3, <3>1
  <2> QED
    BY <2>2, <2>3
<1>10. c = ab
  BY <1>8, <1>9, SameItems
<1> QED
  BY <1>2, <1>3, <1>4, <1>5, <1>6, <1>10

(* Rows picked from a mini-batch are rows, one for each index. *)
LEMMA PickedIs ==
    ASSUME NEW T, NEW mini \in Seq(T), NEW p \in Seq(1..Len(mini))
    PROVE  /\ Picked(mini, p) \in Seq(T) /\ Len(Picked(mini, p)) = Len(p)
           /\ \A i \in 1..Len(p) : Picked(mini, p)[i] = mini[p[i]]
<1>1. PICK n \in Nat : n = Len(p) /\ DOMAIN p = 1..n /\ \A i \in 1..n : p[i] \in 1..Len(mini)
  OBVIOUS
<1>2. \A j \in 1..Len(mini) : mini[j] \in T
  OBVIOUS
<1>3. Picked(mini, p) = [i \in 1..n |-> mini[p[i]]]
  BY <1>1 DEF Picked
<1>4. Picked(mini, p) \in [1..n -> T]
  BY <1>1, <1>2, <1>3
<1>5. Picked(mini, p) \in Seq(T) /\ Len(Picked(mini, p)) = n
  BY <1>4, FunctionIsSeq
<1> QED
  BY <1>1, <1>3, <1>5

(* Picking with two lists of indices, one after the other *)
LEMMA PickedConcat ==
    ASSUME NEW T, NEW mini \in Seq(T), NEW p \in Seq(1..Len(mini)), NEW q \in Seq(1..Len(mini))
    PROVE  Picked(mini, p \o q) = Picked(mini, p) \o Picked(mini, q)
<1> DEFINE N == 1..Len(mini)
<1>1. PICK pq \in Seq(N) : pq = p \o q /\ Follows(pq, p, q)
  BY ConcatFollows
<1>2. PICK a \in Seq(T) : a = Picked(mini, p)
  BY PickedIs
<1>3. PICK b \in Seq(T) : b = Picked(mini, q)
  BY PickedIs
<1>4. PICK c \in Seq(T) : c = Picked(mini, pq)
  BY PickedIs
<1>5. PICK ab \in Seq(T) : ab = a \o b /\ Follows(ab, a, b)
  BY ConcatFollows
<1>6. /\ Len(a) = Len(p) /\ \A i \in 1..Len(p) : a[i] = mini[p[i]]
      /\ Len(b) = Len(q) /\ \A i \in 1..Len(q) : b[i] = mini[q[i]]
      /\ Len(c) = Len(pq) /\ \A i \in 1..Len(pq) : c[i] = mini[pq[i]]
  BY <1>2, <1>3, <1>4, PickedIs
<1>7. Len(ab) = Len(c) /\ Len(c) = Len(p) + Len(q)
  BY <1>1, <1>5, <1>6 DEF Follows
<1>8. ASSUME NEW i \in 1..Len(c) PROVE c[i] = ab[i]
  <2>1. /\ c[i] = mini[pq[i]]
        /\ pq[i] = IF i <= Len(p) THEN p[i] ELSE q[i - Len(p)]
        /\ ab[i] = IF i <= Len(p) THEN a[i] ELSE b[i - Len(p)]
    BY <1>1, <1>5, <1>6, <1>7 DEF Follows
  <2>2. CASE i <= Len(p)
    <3>1. i \in 1..Len(p)
      BY <2>2
    <3> QED
      BY <1>6, <2>1, <2>2, <3>1
  <2>3. CASE ~(i <= Len(p))
    <3>1. i - Len(p) \in 1..Len(q)
      BY <1>7, <2>3
    <3> QED
      BY <1>6, <2>1, <2>3, <3>1
  <2> QED
    BY <2>2, <2>3
<1>9. c = ab
  BY <1>7, <1>8, SameItems
<1> QED
  BY <1>1, <1>2, <1>3, <1>4, <1>5, <1>9

(* Taking rows part by part is taking them all. *)
LEMMA FlattenPicked ==
    ASSUME NEW T, NEW mini \in Seq(T), NEW p, AreParts(p, Len(mini))
    PROVE  FlattenSeq(Taken(mini, p)) = Picked(mini, FlattenSeq(p))
<1> DEFINE N == 1..Len(mini)
           t == Taken(mini, p)
<1>1. p \in Seq(Seq(N))
  BY DEF AreParts
<1>2. t \in Seq(Seq(T)) /\ Len(t) = Len(p)
      /\ \A i \in 1..Len(p) : t[i] = [j \in DOMAIN p[i] |-> mini[p[i][j]]]
  BY TakenIs
<1>3. PICK n \in Nat : n = Len(p)
  BY <1>1
<1>4. ASSUME NEW i \in 1..n PROVE p[i] \in Seq(N) /\ t[i] = Picked(mini, p[i])
  <2> DEFINE Q == Seq(N)
  <2>1. p \in Seq(Q)
    BY <1>1
  <2> HIDE DEF Q, t
  <2>2. p[i] \in Q
    BY <1>3, <2>1
  <2>3. t[i] = Picked(mini, p[i])
    BY <1>2, <1>3 DEF Picked
  <2> QED
    BY <2>2, <2>3 DEF Q
<1> HIDE DEF t, N
<1>5. PICK f : Flattens(f, p, N) /\ FlattenSeq(p) = f[n]
  BY <1>1, <1>3, FlattenIs
<1>6. PICK g : Flattens(g, t, T) /\ FlattenSeq(t) = g[n]
  BY <1>2, <1>3, FlattenIs
<1>7. /\ f \in [0..n -> Seq(N)] /\ f[0] = <<>>
      /\ \A i \in 1..n : f[i] = f[i - 1] \o p[i]
  BY <1>3, <1>5 DEF Flattens
<1>8. /\ g[0] = <<>>
      /\ \A i \in 1..n : g[i] = g[i - 1] \o t[i]
  BY <1>2, <1>3, <1>6 DEF Flattens
<1>9. \A x, y \in Seq(N) : Picked(mini, x \o y) = Picked(mini, x) \o Picked(mini, y)
  BY PickedConcat DEF N
<1> DEFINE Z == {k \in Nat : k <= n => g[k] = Picked(mini, f[k])}
<1>10. 0 \in Z
  <2>1. Picked(mini, <<>>) = <<>>
    BY DEF Picked
  <2> QED
    BY <1>7, <1>8, <2>1
<1>11. ASSUME NEW k \in Nat, k \in Z PROVE k + 1 \in Z
  <2> SUFFICES ASSUME k + 1 <= n PROVE g[k + 1] = Picked(mini, f[k + 1])
    OBVIOUS
  <2>1. k + 1 \in 1..n /\ (k + 1) - 1 = k /\ k \in 0..n /\ k <= n
    OBVIOUS
  <2>2. g[k + 1] = g[k] \o t[k + 1] /\ f[k + 1] = f[k] \o p[k + 1]
    BY <1>7, <1>8, <2>1
  <2>3. g[k] = Picked(mini, f[k])
    BY <1>11, <2>1
  <2>4. t[k + 1] = Picked(mini, p[k + 1]) /\ p[k + 1] \in Seq(N) /\ f[k] \in Seq(N)
    BY <1>4, <1>7, <2>1
  <2>5. Picked(mini, f[k] \o p[k + 1]) = Picked(mini, f[k]) \o Picked(mini, p[k + 1])
    BY <1>9, <2>4
  <2> QED
    BY <2>2, <2>3, <2>4, <2>5, Zenon
<1>12. n \in Z
  <2> HIDE DEF Z
  <2>1. Nat \subseteq Z
    BY <1>10, <1>11, NatSetInduction
  <2> QED
    BY <2>1
<1>13. n <= n
  OBVIOUS
<1>14. g[n] = Picked(mini, f[n])
  BY <1>12, <1>13, Zenon
<1> QED
  BY <1>5, <1>6, <1>14 DEF t

(* Putting back what was taken in the order of a permutation *)
LEMMA RevertedIs ==
    ASSUME NEW T, NEW n \in Nat, NEW rows \in Seq(T), Len(rows) = n,
           NEW idx \in Seq(1..n), Len(idx) = n, Permutes(idx, n), NEW d
    PROVE  Reverted(Results(Picked(rows, idx), d), idx) = Results(rows, d)
<1>1. /\ Picked(rows, idx) \in Seq(T) /\ Len(Picked(rows, idx)) = n
      /\ \A i \in 1..n : Picked(rows, idx)[i] = rows[idx[i]]
  <2>1. idx \in Seq(1..Len(rows))
    OBVIOUS
  <2>2. /\ Picked(rows, idx) \in Seq(T) /\ Len(Picked(rows, idx)) = Len(idx)
        /\ \A i \in 1..Len(idx) : Picked(rows, idx)[i] = rows[idx[i]]
    BY <2>1, PickedIs
  <2> QED
    BY <2>2
<1>2. PICK p \in Seq(T) : p = Picked(rows, idx) /\ Len(p) = n
                          /\ \A i \in 1..n : p[i] = rows[idx[i]]
  BY <1>1
<1>3. /\ Len(Results(p, d)) = n /\ DOMAIN Results(p, d) = 1..n
      /\ \A i \in 1..n : Results(p, d)[i] = OneResult(p[i], d)
  BY <1>2, ResultsIs
<1>4. /\ Results(rows, d) \in Seq(ResultsOf(T, d)) /\ Len(Results(rows, d)) = n
      /\ DOMAIN Results(rows, d) = 1..n
      /\ \A i \in 1..n : Results(rows, d)[i] = OneResult(rows[i], d)
  BY ResultsIs
<1>5. ASSUME NEW j \in 1..n
      PROVE  ReverseIdx(idx)[j] \in 1..n /\ idx[ReverseIdx(idx)[j]] = j
  <2>1. \E i \in 1..n : idx[i] = j
    BY DEF Permutes
  <2>2. DOMAIN idx = 1..n
    OBVIOUS
  <2>3. ReverseIdx(idx)[j] = CHOOSE i \in 1..n : idx[i] = j
    BY <2>2 DEF ReverseIdx
  <2> QED
    BY <2>1, <2>3
<1>6. Reverted(Results(p, d), idx) = [j \in 1..n |-> Results(p, d)[ReverseIdx(idx)[j]]]
  BY <1>3 DEF Reverted
<1>7. ASSUME NEW j \in 1..n PROVE Results(p, d)[ReverseIdx(idx)[j]] = Results(rows, d)[j]
  <2>1. PICK i \in 1..n : i = ReverseIdx(idx)[j] /\ idx[i] = j
    BY <1>5
  <2>2. Results(p, d)[i] = OneResult(p[i], d) /\ p[i] = rows[idx[i]]
    BY <1>2, <1>3
  <2>3. Results(rows, d)[j] = OneResult(rows[j], d)
    BY <1>4
  <2> QED
    BY <2>1, <2>2, <2>3
<1>8. Results(rows, d) = [j \in 1..n |-> Results(rows, d)[j]]
  BY <1>4
<1> QED
  BY <1>2, <1>6, <1>7, <1>8

(* Where a rank is when it takes a step *)
LEMMA PlaceTells ==
    ASSUME IInv, InStep, Turn
    PROVE  /\ \A r \in Ranks : task[r].pc \in {"synced", "kv", "gather", "generate", "exit", "sync"}
                  => call = "generate_sequences"
           /\ \A r \in Ranks : task[r].pc = "saving" => call = "save_checkpoint"
           /\ \A r \in Ranks : task[r].pc \in {"mini", "forward"} => call \in Trained
           /\ \A r \in Ranks : call # "none" => task[r].pc # "idle"
           /\ \A r \in Ranks : task[r].pc = "offload" => call # "generate_sequences"
<1> SUFFICES ASSUME NEW r \in Ranks
    PROVE /\ task[r].pc \in {"synced", "kv", "gather", "generate", "exit", "sync"}
                  => call = "generate_sequences"
          /\ task[r].pc = "saving" => call = "save_checkpoint"
          /\ task[r].pc \in {"mini", "forward"} => call \in Trained
          /\ call # "none" => task[r].pc # "idle"
          /\ task[r].pc = "offload" => call # "generate_sequences"
  OBVIOUS
<1> QED
  BY CallPlaces


-----------------------------------------------------------------------------
(* Calls, weights and random states *)

(* The calls are counted. *)
LEMMA CountedStep ==
    ASSUME Counted, RolledOut, [Next]_vars
    PROVE  Counted'
<1>0. rollout \in Seq(Seq(Outputs)) /\ MaxCalls \in Nat
  BY Constants DEF RolledOut
<1>1. PICK n \in Nat : n = Len(rollout)
  BY <1>0
<1>2. CASE UNCHANGED <<call, calls, rollout>>
  BY <1>2 DEF Counted, Sampling
<1>3. CASE \E m \in Methods : Call(m)
  <2>1. call = "none" /\ calls < MaxCalls /\ calls' = calls + 1 /\ rollout' = rollout
    BY <1>3 DEF Call
  <2>2. calls \in 0..MaxCalls /\ n <= calls
    BY <1>1, <2>1 DEF Counted, Sampling
  <2>3. calls' \in 0..MaxCalls /\ n + 1 <= calls' /\ n <= calls'
    BY <1>0, <2>1, <2>2
  <2> QED
    BY <1>1, <2>1, <2>3 DEF Counted, Sampling
<1>4. CASE Collect
  <2>1. CASE Sampling
    <3>1. rollout' = Append(rollout, result') /\ call' # "generate_sequences" /\ calls' = calls
      BY <1>4, <2>1 DEF Collect, Sampling
    <3>2. Len(rollout') = n + 1
      BY <1>0, <1>1, <3>1
    <3> QED
      BY <1>1, <2>1, <3>1, <3>2 DEF Counted, Sampling
  <2>2. CASE ~Sampling
    BY <1>4, <2>2 DEF Counted, Sampling, Collect
  <2> QED
    BY <2>1, <2>2
<1> QED
  BY <1>2, <1>3, <1>4 DEF Next, Work, Collective, RankStep, Enter, OffloadParams, WakeCache,
     Exit, Load, ReturnLogProbs, Offload, UpdateParams, Rearrange, Forward, OptimizerStep,
     SaveShards, AllGather, Generate, Balance, trainer, vars

(* An engine keeps the weights that are trained. *)
LEMMA WeightsStep ==
    ASSUME IInv, InStep, Turn, Weights, [Next]_vars
    PROVE  Weights'
<1> USE DEF Weights, Sampling
<1>0. Types
  BY DEF IInv
<1>1. ASSUME NEW r \in Ranks, Enter(r) PROVE Weights'
  BY <1>0, <1>1 DEF Enter, Goto, At, trainer, Types
<1>2. ASSUME NEW r \in Ranks, OffloadParams(r) PROVE Weights'
  BY <1>0, <1>2 DEF OffloadParams, Goto, At, trainer, Types
<1>3. ASSUME NEW r \in Ranks, WakeCache(r) PROVE Weights'
  BY <1>0, <1>3 DEF WakeCache, Goto, At, trainer, Types
<1>4. ASSUME NEW r \in Ranks, Exit(r) PROVE Weights'
  BY <1>0, <1>4 DEF Exit, At, trainer, Types
<1>5. ASSUME NEW r \in Ranks, Load(r) PROVE Weights'
  BY <1>0, <1>5 DEF Load, At, trainer, Types, Methods
<1>6. ASSUME NEW r \in Ranks, ReturnLogProbs(r) PROVE Weights'
  BY <1>0, <1>6 DEF ReturnLogProbs, At, trainer, Types
<1>7. CASE OptimizerStep
  <2>1. actor \in [Ranks -> Nat] /\ actor' \in {actor, [r \in Ranks |-> actor[r] + 1]}
    BY <1>7 DEF OptimizerStep
  <2>2. actor' \in [Ranks -> Nat]
    BY <2>1
  <2>3. engine' = engine /\ ~Sampling'
    BY <1>7 DEF OptimizerStep, trainer, Updates
  <2> QED
    BY <2>2, <2>3
<1>8. ASSUME NEW r \in Ranks, Offload(r) PROVE Weights'
  BY <1>0, <1>8, PlaceTells DEF Offload, At, Goto, trainer, Types
<1>9. CASE UpdateParams
  BY <1>0, <1>9 DEF UpdateParams, At, trainer, Types
<1>10. CASE Rearrange
  BY <1>0, <1>10, PlaceTells DEF Rearrange, At, trainer, Types, Trained, Updates
<1>11. CASE Forward
  BY <1>0, <1>11, PlaceTells DEF Forward, At, trainer, Types, Trained, Updates
<1>12. CASE SaveShards
  BY <1>0, <1>12, PlaceTells DEF SaveShards, At, trainer, Types
<1>13. ASSUME NEW g \in Groups, AllGather(g) PROVE Weights'
  BY <1>0, <1>13 DEF AllGather, At, trainer, Types, GroupOf
<1>14. ASSUME NEW g \in Groups, Generate(g) PROVE Weights'
  BY <1>0, <1>14 DEF Generate, At, trainer, Types, GroupOf
<1>15. CASE Collect
  BY <1>15 DEF Collect
<1>16. CASE Balance
  BY <1>16 DEF Balance
<1>17. ASSUME NEW m \in Methods, Call(m) PROVE Weights'
  BY <1>17 DEF Call, Idle
<1>18. CASE UNCHANGED vars
  BY <1>18 DEF vars
<1> QED
  BY <1>1, <1>2, <1>3, <1>4, <1>5, <1>6, <1>7, <1>8, <1>9, <1>10, <1>11, <1>12, <1>13,
     <1>14, <1>15, <1>16, <1>17, <1>18 DEF Next, Work, Collective, RankStep

(* A step that neither swaps nor draws *)
LEMMA SwapStays ==
    ASSUME Swapped, UNCHANGED <<call, rollout, random>>,
           \A q \in Ranks :
              /\ task'[q].pc \in {"gather", "generate"} <=> task[q].pc \in {"gather", "generate"}
              /\ task'[q].pc = "exit" <=> task[q].pc = "exit"
              /\ Sampling => (task'[q].pc = "returned" <=> task[q].pc = "returned")
    PROVE  Swapped'
<1>1. \A q \in Ranks : NowOf(q)' = NowOf(q) /\ GenOf(q)' = GenOf(q) /\ OwnState(q)' = OwnState(q)
  BY DEF NowOf, GenOf, Sampling, OwnState, GroupState
<1> QED
  BY <1>1 DEF Swapped

(* The random states are swapped, and the engine's is kept. *)
LEMMA SwappedStep ==
    ASSUME IInv, InStep, Turn, RolledOut, Swapped, [Next]_vars
    PROVE  Swapped'
<1>0. Types /\ \A r \in Ranks : Fields \subseteq DOMAIN task[r]
  BY DEF IInv, Turn, Held
<1>20. PICK n \in Nat : n = Len(rollout)
  <2>1. rollout \in Seq(Seq(Outputs))
    BY DEF RolledOut
  <2> QED
    BY <2>1
<1>1. ASSUME NEW r \in Ranks, Enter(r) PROVE Swapped'
  BY <1>0, <1>1, SwapStays DEF Enter, Goto, At, trainer, Types
<1>2. ASSUME NEW r \in Ranks, OffloadParams(r) PROVE Swapped'
  BY <1>0, <1>2, SwapStays DEF OffloadParams, Goto, At, trainer, Types
<1>3. ASSUME NEW r \in Ranks, WakeCache(r) PROVE Swapped'
  <2>1. PICK own, group : own = OwnState(r) /\ group = GroupState(r, n)
    OBVIOUS
  <2>2. random[r] = [now |-> own, gen |-> group, torch |-> own]
    BY <1>3, <1>20, <2>1 DEF Swapped, NowOf, GenOf, WakeCache, At
  <2>3. /\ random' = [q \in Ranks |-> random'[q]]
        /\ \A q \in Ranks : q # r => random'[q] = random[q]
        /\ random'[r] = [now |-> group, gen |-> group, torch |-> own]
    <3>1. PICK now, gen, torch : random[r] = [now |-> now, gen |-> gen, torch |-> torch]
      BY <2>2
    <3>2. random[r].now = now /\ random[r].gen = gen /\ random[r].torch = torch
      BY <3>1
    <3>3. random' = [random EXCEPT ![r].torch = now, ![r].now = gen]
      BY <1>3, <3>2 DEF WakeCache
    <3>4. DOMAIN random = Ranks /\ random = [q \in Ranks |-> random[q]]
      BY DEF Swapped
    <3>5. PICK half : half = [random EXCEPT ![r].torch = now]
      OBVIOUS
    <3>6. random' = [half EXCEPT ![r].now = gen]
      BY <3>3, <3>5
    <3>7. /\ half = [q \in Ranks |-> half[q]] /\ \A q \in Ranks : q # r => half[q] = random[q]
          /\ half[r] = [now |-> now, gen |-> gen, torch |-> now]
      BY <3>1, <3>4, <3>5
    <3>8. /\ random' = [q \in Ranks |-> random'[q]]
          /\ \A q \in Ranks : q # r => random'[q] = half[q]
          /\ random'[r] = [now |-> gen, gen |-> gen, torch |-> now]
      BY <3>6, <3>7
    <3> QED
      BY <2>2, <3>2, <3>7, <3>8
  <2>4. /\ \A q \in Ranks : q # r => task'[q].pc = task[q].pc
        /\ task'[r].pc = "gather"
        /\ UNCHANGED <<call, rollout>>
    BY <1>0, <1>3 DEF WakeCache, Goto, Types, trainer
  <2>5. /\ \A q \in Ranks : q # r => NowOf(q)' = NowOf(q) /\ GenOf(q)' = GenOf(q)
        /\ \A q \in Ranks : OwnState(q)' = OwnState(q)
        /\ NowOf(r)' = group /\ GenOf(r)' = group /\ OwnState(r) = own
    BY <1>20, <2>1, <2>4 DEF NowOf, GenOf, Sampling, OwnState, GroupState
  <2> QED
    BY <2>3, <2>5 DEF Swapped
<1>4. ASSUME NEW r \in Ranks, Exit(r) PROVE Swapped'
  <2>1. PICK own, group, next : /\ own = OwnState(r) /\ group = GroupState(r, n)
                                /\ next = GroupState(r, n + 1)
    OBVIOUS
  <2>2. random[r] = [now |-> next, gen |-> group, torch |-> own]
    BY <1>4, <1>20, <2>1 DEF Swapped, NowOf, GenOf, Exit, At
  <2>3. /\ random' = [q \in Ranks |-> random'[q]]
        /\ \A q \in Ranks : q # r => random'[q] = random[q]
        /\ random'[r] = [now |-> own, gen |-> next, torch |-> own]
    <3>1. PICK now, gen, torch : random[r] = [now |-> now, gen |-> gen, torch |-> torch]
      BY <2>2
    <3>2. random[r].now = now /\ random[r].gen = gen /\ random[r].torch = torch
      BY <3>1
    <3>3. random' = [random EXCEPT ![r].gen = now, ![r].now = torch]
      BY <1>4, <3>2 DEF Exit
    <3>4. DOMAIN random = Ranks /\ random = [q \in Ranks |-> random[q]]
      BY DEF Swapped
    <3>5. PICK half : half = [random EXCEPT ![r].gen = now]
      OBVIOUS
    <3>6. random' = [half EXCEPT ![r].now = torch]
      BY <3>3, <3>5
    <3>7. /\ half = [q \in Ranks |-> half[q]] /\ \A q \in Ranks : q # r => half[q] = random[q]
          /\ half[r] = [now |-> now, gen |-> now, torch |-> torch]
      BY <3>1, <3>4, <3>5
    <3>8. /\ random' = [q \in Ranks |-> random'[q]]
          /\ \A q \in Ranks : q # r => random'[q] = half[q]
          /\ random'[r] = [now |-> torch, gen |-> now, torch |-> torch]
      BY <3>6, <3>7
    <3> QED
      BY <2>2, <3>2, <3>7, <3>8
  <2>4. /\ \A q \in Ranks : q # r => task'[q].pc = task[q].pc
        /\ task'[r].pc = "returned"
        /\ UNCHANGED <<call, rollout>> /\ Sampling
    BY <1>0, <1>4, PlaceTells DEF Exit, At, Fields, Types, trainer, Sampling
  <2>5. /\ \A q \in Ranks : q # r => NowOf(q)' = NowOf(q) /\ GenOf(q)' = GenOf(q)
        /\ \A q \in Ranks : OwnState(q)' = OwnState(q)
        /\ NowOf(r)' = own /\ GenOf(r)' = next /\ OwnState(r) = own
    BY <1>20, <2>1, <2>4 DEF NowOf, GenOf, Sampling, OwnState, GroupState
  <2> QED
    BY <2>3, <2>5 DEF Swapped
<1>5. ASSUME NEW r \in Ranks, Load(r) PROVE Swapped'
  BY <1>0, <1>5, SwapStays DEF Load, At, trainer, Types, Methods, Fields
<1>6. ASSUME NEW r \in Ranks, ReturnLogProbs(r) PROVE Swapped'
  BY <1>0, <1>6, SwapStays DEF ReturnLogProbs, At, trainer, Types, Fields
<1>7. CASE OptimizerStep
  BY <1>0, <1>7, SwapStays DEF OptimizerStep, At, trainer, Types, Updates
<1>8. ASSUME NEW r \in Ranks, Offload(r) PROVE Swapped'
  BY <1>0, <1>8, PlaceTells, SwapStays DEF Offload, At, Goto, trainer, Types, Sampling
<1>9. CASE UpdateParams
  BY <1>0, <1>9, SwapStays DEF UpdateParams, At, trainer, Types
<1>10. CASE Rearrange
  <2>1. ASSUME NEW r \in Ranks PROVE task'[r].pc = "forward" /\ task[r].pc = "mini"
    BY <1>0, <1>10 DEF Rearrange, At, Fields
  <2> QED
    BY <1>10, <2>1, SwapStays DEF Rearrange, trainer
<1>11. CASE Forward
  <2>1. ASSUME NEW r \in Ranks PROVE task'[r].pc = task[r].pc
    BY <1>0, <1>11 DEF Forward, Fields
  <2> QED
    BY <1>11, <2>1, SwapStays DEF Forward, trainer
<1>12. CASE SaveShards
  BY <1>0, <1>12, SwapStays DEF SaveShards, At, trainer, Types
<1>13. ASSUME NEW g \in Groups, AllGather(g) PROVE Swapped'
  <2>1. ASSUME NEW r \in Ranks
        PROVE  \/ task'[r].pc = task[r].pc
               \/ task'[r].pc = "generate" /\ task[r].pc = "gather"
    BY <1>0, <1>13 DEF AllGather, At, Fields
  <2> QED
    BY <1>13, <2>1, SwapStays DEF AllGather, trainer
<1>14. ASSUME NEW g \in Groups, Generate(g) PROVE Swapped'
  <2>1. ASSUME NEW r \in Ranks
        PROVE  /\ r \in GroupOf(g) => task'[r].pc = "exit" /\ task[r].pc = "generate"
               /\ r \notin GroupOf(g) => task'[r].pc = task[r].pc
    BY <1>0, <1>14 DEF Generate, At, Fields
  <2>2. /\ random' = [q \in Ranks |-> random'[q]]
        /\ \A q \in Ranks : q \notin GroupOf(g) => random'[q] = random[q]
        /\ UNCHANGED <<call, rollout>>
    BY <1>14 DEF Generate, trainer
  <2>3. ASSUME NEW r \in Ranks, r \in GroupOf(g)
        PROVE  random'[r] = [now |-> NowOf(r)', gen |-> GenOf(r)', torch |-> OwnState(r)]
    <3>1. PICK own, group, a : own = OwnState(r) /\ group = GroupState(r, n) /\ a = 1000 + DpRank(r)
      OBVIOUS
    <3>2. random[r] = [now |-> group, gen |-> group, torch |-> own]
      BY <1>20, <2>1, <2>3, <3>1 DEF Swapped, NowOf, GenOf
    <3>3. random'[r] = [random[r] EXCEPT !.now[2] = @ + 1]
      BY <1>14, <2>3 DEF Generate
    <3>4. group = <<a, n>>
      BY <3>1 DEF GroupState
    <3>5. random'[r] = [now |-> <<a, n + 1>>, gen |-> group, torch |-> own]
      BY <3>2, <3>3, <3>4
    <3>6. NowOf(r)' = <<a, n + 1>> /\ GenOf(r)' = group
      BY <1>20, <2>1, <2>2, <2>3, <3>1 DEF NowOf, GenOf, GroupState
    <3> QED
      BY <3>1, <3>5, <3>6
  <2>4. ASSUME NEW r \in Ranks, r \notin GroupOf(g)
        PROVE  NowOf(r)' = NowOf(r) /\ GenOf(r)' = GenOf(r)
    BY <2>1, <2>2, <2>4 DEF NowOf, GenOf, Sampling, OwnState, GroupState
  <2>5. \A q \in Ranks : OwnState(q)' = OwnState(q)
    BY DEF OwnState
  <2> QED
    BY <2>2, <2>3, <2>4, <2>5 DEF Swapped
<1>15. CASE Collect
  <2>1. \A r \in Ranks : task[r].pc = "returned" /\ task'[r].pc = "idle"
    BY <1>15 DEF Collect, Idle
  <2>2. /\ call' # "generate_sequences" /\ UNCHANGED random
        /\ IF Sampling THEN rollout' = Append(rollout, result') ELSE rollout' = rollout
    BY <1>15 DEF Collect, Sampling
  <2>3. Sampling => Len(rollout') = n + 1
    <3>1. rollout \in Seq(Seq(Outputs))
      BY DEF RolledOut
    <3> QED
      BY <1>20, <2>2, <3>1
  <2>4. \A r \in Ranks : /\ NowOf(r)' = NowOf(r) /\ GenOf(r)' = GenOf(r)
                         /\ OwnState(r)' = OwnState(r)
    BY <1>20, <2>1, <2>2, <2>3 DEF NowOf, GenOf, Sampling, OwnState, GroupState
  <2> QED
    BY <2>2, <2>4 DEF Swapped
<1>16. CASE Balance
  BY <1>16, SwapStays DEF Balance
<1>17. ASSUME NEW m \in Methods, Call(m) PROVE Swapped'
  <2>1. \A r \in Ranks : task[r].pc = "idle" /\ task'[r].pc = "called"
    BY <1>17, CallPlaces DEF Call, Idle
  <2>2. UNCHANGED <<rollout, random>> /\ call = "none"
    BY <1>17 DEF Call
  <2>3. \A r \in Ranks : /\ NowOf(r)' = NowOf(r) /\ GenOf(r)' = GenOf(r)
                         /\ OwnState(r)' = OwnState(r)
    BY <2>1, <2>2 DEF NowOf, GenOf, Sampling, OwnState, GroupState
  <2> QED
    BY <2>2, <2>3 DEF Swapped
<1>18. CASE UNCHANGED vars
  BY <1>18, SwapStays DEF vars
<1> QED
  BY <1>1, <1>2, <1>3, <1>4, <1>5, <1>6, <1>7, <1>8, <1>9, <1>10, <1>11, <1>12, <1>13,
     <1>14, <1>15, <1>16, <1>17, <1>18 DEF Next, Work, Collective, RankStep

(* Updates and checkpoints return nothing. *)
LEMMA NoOutputStep ==
    ASSUME IInv, InStep, Turn, NoOutput, [Next]_vars
    PROVE  NoOutput'
<1> USE DEF NoOutput
<1>0. Types /\ \A r \in Ranks : Fields \subseteq DOMAIN task[r]
  BY DEF IInv, Turn, Held
<1>1. ASSUME NEW r \in Ranks, Enter(r) PROVE NoOutput'
  BY <1>0, <1>1 DEF Enter, Goto, At, trainer, Types, Fields
<1>2. ASSUME NEW r \in Ranks, OffloadParams(r) PROVE NoOutput'
  BY <1>0, <1>2 DEF OffloadParams, Goto, At, trainer, Types, Fields
<1>3. ASSUME NEW r \in Ranks, WakeCache(r) PROVE NoOutput'
  BY <1>0, <1>3 DEF WakeCache, Goto, At, trainer, Types, Fields
<1>4. ASSUME NEW r \in Ranks, Exit(r) PROVE NoOutput'
  BY <1>0, <1>4, PlaceTells DEF Exit, At, trainer, Types, Fields
<1>5. ASSUME NEW r \in Ranks, Load(r) PROVE NoOutput'
  BY <1>0, <1>5 DEF Load, At, trainer, Types, Methods, Fields
<1>6. ASSUME NEW r \in Ranks, ReturnLogProbs(r) PROVE NoOutput'
  BY <1>0, <1>6 DEF ReturnLogProbs, At, trainer, Types, Fields
<1>7. CASE OptimizerStep
  BY <1>0, <1>7 DEF OptimizerStep, At, trainer, Types, Updates, Fields
<1>8. ASSUME NEW r \in Ranks, Offload(r) PROVE NoOutput'
  BY <1>0, <1>8 DEF Offload, At, Goto, trainer, Types, Fields
<1>9. CASE UpdateParams
  BY <1>0, <1>9 DEF UpdateParams, At, trainer, Types, Fields
<1>10. CASE Rearrange
  <2>1. ASSUME NEW r \in Ranks PROVE task'[r].out = task[r].out
    <3>1. PICK rest, indices, micro :
              task'[r] = [task[r] EXCEPT !.pc = "forward", !.rest = rest, !.indices = indices,
                                         !.micro = micro]
      BY <1>10 DEF Rearrange
    <3> QED
      BY <1>0, <3>1 DEF Fields
  <2> QED
    BY <1>10, <2>1 DEF Rearrange, trainer
<1>11. CASE Forward
  <2>1. 0 \in Ranks
    BY Constants DEF Ranks
  <2>2. call \in Trained
    BY <1>11, <2>1, PlaceTells DEF Forward, At
  <2>3. call \in Updates => \A r \in Ranks : task'[r].out = task[r].out
    BY <1>0, <1>11 DEF Forward, Fields
  <2> QED
    BY <1>11, <2>2, <2>3 DEF Forward, trainer, Trained
<1>12. CASE SaveShards
  BY <1>0, <1>12 DEF SaveShards, At, trainer, Types, Fields
<1>13. ASSUME NEW g \in Groups, AllGather(g) PROVE NoOutput'
  BY <1>0, <1>13 DEF AllGather, At, trainer, Types, GroupOf, Fields
<1>14. ASSUME NEW g \in Groups, Generate(g) PROVE NoOutput'
  <2>1. PICK q \in Ranks : q \in GroupOf(g)
    BY DEF Groups, GroupOf
  <2> QED
    BY <1>14, <2>1, PlaceTells DEF Generate, At, trainer
<1>15. CASE Collect
  BY <1>15 DEF Collect, Idle
<1>16. CASE Balance
  BY <1>16 DEF Balance
<1>17. ASSUME NEW m \in Methods, Call(m) PROVE NoOutput'
  BY <1>17 DEF Call, Idle
<1>18. CASE UNCHANGED vars
  BY <1>18 DEF vars
<1> QED
  BY <1>1, <1>2, <1>3, <1>4, <1>5, <1>6, <1>7, <1>8, <1>9, <1>10, <1>11, <1>12, <1>13,
     <1>14, <1>15, <1>16, <1>17, <1>18 DEF Next, Work, Collective, RankStep


-----------------------------------------------------------------------------
(* Generation *)

(* A step that neither gathers nor generates *)
LEMMA GeneratedStays ==
    ASSUME Generated, UNCHANGED <<batch, call, rollout, actor>>,
           \A q \in Ranks :
              /\ task'[q].out = task[q].out /\ task'[q].rows = task[q].rows
              /\ \A pc \in {"generate", "exit", "returned"} :
                    task'[q].pc = pc <=> task[q].pc = pc
    PROVE  Generated'
<1>1. /\ \A q : GroupRows(q)' = GroupRows(q)
      /\ \A q : Share(q)' = Share(q)
  BY DEF GroupRows, Share
<1>2. Len(rollout)' = Len(rollout) /\ Sampling' = Sampling
  BY DEF Sampling
<1>3. \A rows, d : Results(rows, d)' = Results(rows, d)
  BY DEF Results
<1>4. \A q, n : GroupState(q, n)' = GroupState(q, n)
  BY DEF GroupState
<1> QED
  BY <1>1, <1>2, <1>3, <1>4 DEF Generated

(* A rank's own part of what its group generated *)
LEMMA OwnPart ==
    ASSUME BatchInv, NEW r \in Ranks, NEW d
    PROVE  Chunk(Results(GroupRows(DpRank(r)), d), TPSize, TpRank(r)) = Results(Share(r), d)
<1> DEFINE g == DpRank(r)
           R == ResultsOf(Rows, d)
<1>1. /\ GroupRows(g) \in Seq(Rows) /\ Len(GroupRows(g)) = TPSize * PerRank
      /\ \A b \in 1..PerRank : GroupRows(g)[TpRank(r) * PerRank + b] = Share(r)[b]
  BY GroupRowsIs DEF Groups, GroupOf
<1>2. /\ PerRank \in Nat /\ Share(r) \in Seq(Rows) /\ Len(Share(r)) = PerRank
      /\ TPSize \in Nat /\ TPSize > 0 /\ TpRank(r) \in 0..(TPSize - 1)
  BY Constants, ShareIs, GroupIs
<1>3. PICK all \in Seq(R) : /\ all = Results(GroupRows(g), d) /\ Len(all) = TPSize * PerRank
                            /\ \A i \in 1..(TPSize * PerRank) :
                                  all[i] = OneResult(GroupRows(g)[i], d)
  <2>1. /\ Results(GroupRows(g), d) \in Seq(R)
        /\ Len(Results(GroupRows(g), d)) = TPSize * PerRank
        /\ \A i \in 1..(TPSize * PerRank) :
                Results(GroupRows(g), d)[i] = OneResult(GroupRows(g)[i], d)
    BY <1>1, ResultsIs
  <2> HIDE DEF R
  <2> QED
    BY <2>1
<1>4. PICK own \in Seq(R) : /\ own = Results(Share(r), d) /\ Len(own) = PerRank
                            /\ \A b \in 1..PerRank : own[b] = OneResult(Share(r)[b], d)
  <2>1. /\ Results(Share(r), d) \in Seq(R) /\ Len(Results(Share(r), d)) = PerRank
        /\ \A b \in 1..PerRank : Results(Share(r), d)[b] = OneResult(Share(r)[b], d)
    BY <1>2, ResultsIs
  <2> HIDE DEF R
  <2> QED
    BY <2>1
<1>5. PICK k \in 0..(TPSize - 1) : k = TpRank(r)
  BY <1>2
<1> HIDE DEF R
<1>6. /\ Chunk(all, TPSize, k) \in Seq(R) /\ Len(Chunk(all, TPSize, k)) = PerRank
      /\ \A b \in 1..PerRank : Chunk(all, TPSize, k)[b] = all[k * PerRank + b]
  <2>1. PICK n \in Nat : n = TPSize /\ n > 0
    BY <1>2
  <2>2. PICK P \in Nat : P = PerRank
    BY <1>2
  <2>3. Len(all) = n * P /\ k \in 0..(n - 1)
    BY <1>3, <2>1, <2>2
  <2>4. /\ Chunk(all, n, k) \in Seq(R) /\ Len(Chunk(all, n, k)) = P
        /\ \A b \in 1..P : Chunk(all, n, k)[b] = all[k * P + b]
    BY <2>1, <2>3, ChunkIs
  <2> QED
    BY <2>1, <2>2, <2>4
<1>7. PICK part \in Seq(R) : part = Chunk(all, TPSize, k) /\ Len(part) = PerRank
                             /\ \A b \in 1..PerRank : part[b] = all[k * PerRank + b]
  BY <1>6
<1>8. ASSUME NEW b \in 1..PerRank PROVE part[b] = own[b]
  <2>1. PICK i : i = k * PerRank + b
    OBVIOUS
  <2>2. i \in 1..(TPSize * PerRank)
    <3>1. PICK n \in Nat : n = TPSize /\ k <= n - 1
      BY <1>2
    <3>2. PICK P \in Nat : P = PerRank /\ b \in 1..P
      BY <1>2
    <3>3. (n - 1 - k) * P = n * P - P - k * P /\ n - 1 - k \in Nat /\ k * P \in Nat
      BY <3>1
    <3>4. (n - 1 - k) * P >= 0
      BY <3>3
    <3>5. k * P + b <= n * P /\ k * P + b >= 1
      BY <3>2, <3>3, <3>4
    <3>6. n * P \in Nat /\ k * P + b \in Nat
      BY <3>2, <3>3
    <3>7. k * P + b \in 1..(n * P)
      BY <3>5, <3>6
    <3> QED
      BY <2>1, <3>1, <3>2, <3>7
  <2>3. part[b] = OneResult(GroupRows(g)[i], d)
    BY <1>3, <1>7, <2>1, <2>2
  <2>4. GroupRows(g)[i] = Share(r)[b]
    BY <1>1, <1>5, <2>1
  <2> QED
    BY <1>4, <2>3, <2>4
<1>9. part = own
  BY <1>4, <1>7, <1>8, SameItems
<1> QED
  BY <1>3, <1>4, <1>5, <1>7, <1>9

(* What the ranks of a generation have *)
LEMMA GeneratedStep ==
    ASSUME IInv, InStep, BatchInv, Turn, Weights, Swapped, Generated, [Next]_vars
    PROVE  Generated'
<1>0. Types /\ \A r \in Ranks : Fields \subseteq DOMAIN task[r]
  BY DEF IInv, Turn, Held
<1>21. ASSUME UNCHANGED call, ~Sampling PROVE Generated'
  BY <1>21 DEF Generated, Sampling
<1>22. 0 \in Ranks
  BY Constants DEF Ranks
<1>1. ASSUME NEW r \in Ranks, Enter(r) PROVE Generated'
  BY <1>0, <1>1, GeneratedStays DEF Enter, Goto, At, trainer, Types, Fields
<1>2. ASSUME NEW r \in Ranks, OffloadParams(r) PROVE Generated'
  BY <1>0, <1>2, GeneratedStays DEF OffloadParams, Goto, At, trainer, Types, Fields
<1>3. ASSUME NEW r \in Ranks, WakeCache(r) PROVE Generated'
  BY <1>0, <1>3, GeneratedStays DEF WakeCache, Goto, At, trainer, Types, Fields
<1>4. ASSUME NEW r \in Ranks, Exit(r) PROVE Generated'
  <2>1. Sampling /\ UNCHANGED <<call, batch, rollout, actor>>
    BY <1>4, PlaceTells DEF Exit, At, Sampling, trainer
  <2>2. task[r].pc = "exit"
        /\ task[r].out = Results(GroupRows(DpRank(r)), GroupState(r, Len(rollout)))
    BY <1>4, <2>1 DEF Exit, At, Generated
  <2>3. Chunk(task[r].out, TPSize, TpRank(r)) = Results(Share(r), GroupState(r, Len(rollout)))
    BY <2>2, OwnPart
  <2>4. PICK out : out = Chunk(task[r].out, TPSize, TpRank(r))
    OBVIOUS
  <2>5. /\ \A q \in Ranks : q # r => task'[q] = task[q]
        /\ task'[r].pc = "returned" /\ task'[r].out = out /\ task'[r].rows = task[r].rows
    BY <1>0, <1>4, <2>4 DEF Exit, Types, Fields
  <2>6. /\ \A q : GroupRows(q)' = GroupRows(q) /\ Share(q)' = Share(q)
        /\ \A rows, d : Results(rows, d)' = Results(rows, d)
        /\ \A q, n : GroupState(q, n)' = GroupState(q, n)
        /\ Len(rollout)' = Len(rollout)
    BY <2>1 DEF GroupRows, Share, Results, GroupState
  <2> QED
    BY <2>1, <2>3, <2>4, <2>5, <2>6 DEF Generated
<1>5. ASSUME NEW r \in Ranks, Load(r) PROVE Generated'
  BY <1>5, <1>21 DEF Load, Methods, trainer, Sampling
<1>6. ASSUME NEW r \in Ranks, ReturnLogProbs(r) PROVE Generated'
  BY <1>6, <1>21 DEF ReturnLogProbs, trainer, Sampling
<1>7. CASE OptimizerStep
  BY <1>7, <1>21 DEF OptimizerStep, trainer, Sampling, Updates
<1>8. ASSUME NEW r \in Ranks, Offload(r) PROVE Generated'
  BY <1>8, <1>21, PlaceTells DEF Offload, At, trainer, Sampling
<1>9. CASE UpdateParams
  BY <1>0, <1>9, GeneratedStays DEF UpdateParams, At, trainer, Types, Fields
<1>10. CASE Rearrange
  BY <1>10, <1>21, <1>22, PlaceTells DEF Rearrange, At, trainer, Sampling, Trained, Updates
<1>11. CASE Forward
  BY <1>11, <1>21, <1>22, PlaceTells DEF Forward, At, trainer, Sampling, Trained, Updates
<1>12. CASE SaveShards
  BY <1>12, <1>21, <1>22, PlaceTells DEF SaveShards, At, trainer, Sampling
<1>13. ASSUME NEW g \in Groups, AllGather(g) PROVE Generated'
  <2>1. PICK q \in Ranks : q \in GroupOf(g)
    BY DEF Groups, GroupOf
  <2>2. Sampling /\ UNCHANGED <<call, batch, rollout, actor>>
    BY <1>13, <2>1, PlaceTells DEF AllGather, At, trainer, Sampling
  <2>3. \A r \in GroupOf(g) : /\ r \in Ranks /\ DpRank(r) = g
                              /\ task[r].pc = "gather" /\ task[r].rows = Share(r)
    BY <1>13, <2>2 DEF AllGather, At, GroupOf, Turn, Shares, Sampling
  <2>4. \A r \in Ranks :
            task'[r] = IF r \in GroupOf(g)
                       THEN [task[r] EXCEPT !.pc = "generate", !.rows = GroupRows(g)]
                       ELSE task[r]
    BY <1>13, <2>3, GatheredRows DEF AllGather
  <2>5. ASSUME NEW r \in GroupOf(g)
        PROVE  /\ task'[r].pc = "generate" /\ task'[r].rows = GroupRows(g)
               /\ task'[r].out = task[r].out
    BY <1>0, <2>3, <2>4 DEF Fields
  <2>6. \A r \in GroupOf(g) : task[r].out = <<>>
    BY <2>2, <2>3 DEF Generated
  <2>7. /\ \A r : GroupRows(r)' = GroupRows(r) /\ Share(r)' = Share(r)
        /\ \A rows, d : Results(rows, d)' = Results(rows, d)
        /\ \A r, n : GroupState(r, n)' = GroupState(r, n)
        /\ Len(rollout)' = Len(rollout)
    BY <2>2 DEF GroupRows, Share, Results, GroupState
  <2>8. \A r \in Ranks : r \notin GroupOf(g) => task'[r] = task[r]
    BY <1>13 DEF AllGather
  <2> QED
    BY <2>2, <2>3, <2>5, <2>6, <2>7, <2>8 DEF Generated
<1>14. ASSUME NEW g \in Groups, Generate(g) PROVE Generated'
  <2>1. PICK q \in Ranks : q \in GroupOf(g)
    BY DEF Groups, GroupOf
  <2>2. Sampling /\ UNCHANGED <<call, batch, rollout, actor>>
    BY <1>14, <2>1, PlaceTells DEF Generate, At, trainer, Sampling
  <2>3. ASSUME NEW r \in GroupOf(g)
        PROVE  /\ r \in Ranks /\ DpRank(r) = g /\ task[r].pc = "generate"
               /\ task[r].rows = GroupRows(g)
               /\ engine[r] = actor /\ random[r].now = GroupState(r, Len(rollout))
    <3>1. r \in Ranks /\ DpRank(r) = g /\ task[r].pc = "generate"
      BY <1>14 DEF Generate, At, GroupOf
    <3>2. task[r].rows = GroupRows(g)
      BY <2>2, <3>1 DEF Generated
    <3>3. engine[r] = actor
      BY <2>2, <3>1 DEF Weights
    <3>4. random[r].now = GroupState(r, Len(rollout))
      BY <3>1 DEF Swapped, NowOf
    <3> QED
      BY <3>1, <3>2, <3>3, <3>4
  <2>4. ASSUME NEW r \in GroupOf(g)
        PROVE  /\ task'[r].pc = "exit" /\ task'[r].rows = GroupRows(g)
               /\ task'[r].out = Results(GroupRows(g), GroupState(r, Len(rollout)))
    <3>1. PICK rows, w, d : rows = task[r].rows /\ w = engine[r] /\ d = random[r].now
      OBVIOUS
    <3>2. PICK out : out = [i \in DOMAIN rows |-> [row |-> rows[i], weights |-> w, drawn |-> d]]
      OBVIOUS
    <3>3. task'[r] = [task[r] EXCEPT !.pc = "exit", !.out = out]
      BY <1>14, <2>3, <3>1, <3>2 DEF Generate
    <3>4. out = Results(rows, d)
      BY <2>3, <3>1, <3>2 DEF Results
    <3>5. /\ task'[r].pc = "exit" /\ task'[r].rows = task[r].rows /\ task'[r].out = out
      BY <1>0, <2>3, <3>3 DEF Fields
    <3> QED
      BY <2>3, <3>1, <3>4, <3>5
  <2>5. \A r \in Ranks : r \notin GroupOf(g) => task'[r] = task[r]
    BY <1>14 DEF Generate
  <2>6. /\ \A r : GroupRows(r)' = GroupRows(r) /\ Share(r)' = Share(r)
        /\ \A rows, d : Results(rows, d)' = Results(rows, d)
        /\ \A r, n : GroupState(r, n)' = GroupState(r, n)
        /\ Len(rollout)' = Len(rollout)
    BY <2>2 DEF GroupRows, Share, Results, GroupState
  <2> QED
    BY <2>2, <2>3, <2>4, <2>5, <2>6 DEF Generated
<1>15. CASE Collect
  BY <1>15 DEF Collect, Generated, Sampling
<1>16. CASE Balance
  BY <1>16 DEF Balance, Generated, Sampling
<1>17. ASSUME NEW m \in Methods, Call(m) PROVE Generated'
  BY <1>17 DEF Call, Idle, Generated
<1>18. CASE UNCHANGED vars
  BY <1>18, GeneratedStays DEF vars
<1> QED
  BY <1>1, <1>2, <1>3, <1>4, <1>5, <1>6, <1>7, <1>8, <1>9, <1>10, <1>11, <1>12, <1>13,
     <1>14, <1>15, <1>16, <1>17, <1>18 DEF Next, Work, Collective, RankStep


-----------------------------------------------------------------------------
(* Log-probabilities *)

(* A rank that does not move *)
LEMMA SameComputed ==
    ASSUME NEW r, ComputedOf(r), UNCHANGED <<seqlen, batch, actor>>, task'[r] = task[r]
    PROVE  ComputedOf(r)'
<1>1. Share(r)' = Share(r) /\ PerRank' = PerRank /\ Rows' = Rows
  BY DEF Share, PerRank, Rows
<1>2. \A rows, d : Results(rows, d)' = Results(rows, d)
  BY DEF Results
<1>3. OwnState(r)' = OwnState(r) /\ \A rows, p : Picked(rows, p)' = Picked(rows, p)
  BY DEF OwnState, Picked
<1>4. InForward(r)' = InForward(r)
  BY <1>1, <1>2, <1>3 DEF InForward
<1> QED
  BY <1>1, <1>2, <1>3, <1>4 DEF ComputedOf

(* A rank's rows are split into micro-batches. *)
LEMMA RearrangeComputed ==
    ASSUME Types, BatchInv, Turn, call = "compute_log_prob", Rearrange,
           NEW r \in Ranks, ComputedOf(r)
    PROVE  ComputedOf(r)'
<1>1. Share(r)' = Share(r) /\ PerRank' = PerRank /\ Rows' = Rows /\ UNCHANGED actor
  BY DEF Rearrange, trainer, Share, PerRank, Rows
<1>2. PICK share \in Seq(Rows) : share = Share(r) /\ Len(share) = PerRank
  BY ShareIs
<1>3. task[r].out = <<>> /\ task[r].rest = share /\ Fields \subseteq DOMAIN task[r]
  BY <1>2 DEF ComputedOf, Rearrange, At, Turn, Held
<1>4. call \in Trained /\ call # "update_actor"
  BY DEF Trained
<1>5. MiniBatch(r) = share
  BY <1>3, <1>4, RearrangeIs
<1>6. PICK split, idx, micro : /\ split = Split(r) /\ idx = FlattenSeq(split)
                               /\ micro = Taken(share, split)
  OBVIOUS
<1>7. /\ split \in Seq(Seq(1..PerRank)) /\ idx \in Seq(1..PerRank) /\ Permutes(idx, PerRank)
  BY <1>2, <1>4, <1>5, <1>6, RearrangeIs
<1>8. AreParts(split, Len(share))
  BY <1>2, <1>7 DEF AreParts
<1>9. FlattenSeq(micro) = Picked(share, idx)
  BY <1>6, <1>8, FlattenPicked
<1>10. PerRank \in Nat /\ Len(idx) = PerRank
  <2>1. PICK n \in Nat : n = PerRank
    BY ShareIs
  <2>2. idx \in Seq(1..n) /\ idx \in [1..n -> 1..n]
    BY <1>7, <2>1 DEF Permutes
  <2>3. Len(idx) = n
    BY <2>2
  <2> QED
    BY <2>1, <2>3
<1>11. Picked(share, idx) \in Seq(Rows)
  BY <1>2, <1>7, PickedIs
<1>12. /\ task'[r].pc = "forward" /\ task'[r].indices = idx /\ task'[r].micro = micro
       /\ task'[r].out = task[r].out
  <2>1. PICK rest : rest = SubSeq(task[r].rest, Len(MiniBatch(r)) + 1, Len(task[r].rest))
    OBVIOUS
  <2>2. task'[r] = [task[r] EXCEPT !.pc = "forward", !.rest = rest, !.indices = idx,
                                   !.micro = micro]
    BY <1>4, <1>5, <1>6, <2>1, RearrangeIs
  <2> QED
    BY <1>3, <2>2 DEF Fields
<1>13. <<>> \in Seq(Rows) /\ <<>> \o FlattenSeq(micro) = Picked(share, idx)
  BY <1>9, <1>11, ConcatEmptySeq
<1>14. Results(<<>>, OwnState(r))' = <<>>
  BY DEF Results
<1>15. \A rows, p : Picked(rows, p)' = Picked(rows, p)
  BY DEF Picked
<1>16. /\ task'[r].indices \in Seq(1..PerRank') /\ Len(task'[r].indices) = PerRank'
       /\ Permutes(task'[r].indices, PerRank')
  BY <1>1, <1>7, <1>10, <1>12
<1>17. /\ <<>> \in Seq(Rows')
       /\ <<>> \o FlattenSeq(task'[r].micro) = Picked(Share(r)', task'[r].indices)
       /\ task'[r].out = Results(<<>>, OwnState(r))'
  BY <1>1, <1>2, <1>3, <1>12, <1>13, <1>14
<1>18. InForward(r)'
  BY <1>15, <1>16, <1>17 DEF InForward
<1> QED
  BY <1>12, <1>18 DEF ComputedOf

(* A micro-batch of a rank is computed. *)
LEMMA ForwardComputed ==
    ASSUME Types, BatchInv, Turn, Swapped, call = "compute_log_prob", Forward,
           NEW r \in Ranks, ComputedOf(r)
    PROVE  ComputedOf(r)'
<1>1. /\ Share(r)' = Share(r) /\ PerRank' = PerRank /\ Rows' = Rows
      /\ \A rows, d : Results(rows, d)' = Results(rows, d)
      /\ OwnState(r)' = OwnState(r) /\ \A rows, p : Picked(rows, p)' = Picked(rows, p)
  BY DEF Forward, trainer, Share, PerRank, Rows, Results, OwnState, Picked
<1>2. /\ task[r].pc = "forward" /\ task[r].micro # <<>> /\ Fields \subseteq DOMAIN task[r]
      /\ task[r].micro \in MicroBatches
  BY DEF Forward, At, Turn, Held
<1>3. InForward(r)
  BY <1>2 DEF ComputedOf
<1>4. PICK done \in Seq(Rows) :
          /\ done \o FlattenSeq(task[r].micro) = Picked(Share(r), task[r].indices)
          /\ task[r].out = Results(done, OwnState(r))
  BY <1>3 DEF InForward
<1> DEFINE Q == Seq(Rows)
<1>5. PICK micro \in Seq(Seq(Rows)) : micro = task[r].micro /\ micro # <<>>
  BY <1>2 DEF MicroBatches
<1>6. Head(micro) \in Q /\ Tail(micro) \in Seq(Q)
  <2>1. micro \in Seq(Q)
    OBVIOUS
  <2> HIDE DEF Q
  <2> QED
    BY <1>5, <2>1, HeadTailProperties
<1>7. PICK head \in Seq(Rows) : head = Head(micro)
  BY <1>6
<1>8. PICK tail \in Seq(Seq(Rows)) : tail = Tail(micro)
  BY <1>6
<1>9. FlattenSeq(micro) = head \o FlattenSeq(tail)
  BY <1>5, <1>7, <1>8, FlattenHead
<1>10. PICK left \in Seq(Rows) : left = FlattenSeq(tail)
  BY FlattenSeqs
<1>11. (done \o head) \o left = done \o (head \o left)
  BY ConcatAssociative
<1>12. PICK now \in Seq(Rows) : now = done \o head
  <2>1. done \o head \in Seq(Rows)
    BY ConcatProperties
  <2> QED
    BY <2>1
<1>13. Results(now, OwnState(r)) = Results(done, OwnState(r)) \o Results(head, OwnState(r))
  BY <1>12, ResultsConcat
<1>14. random[r].now = OwnState(r)
  <2>1. NowOf(r) = OwnState(r)
    BY <1>2 DEF NowOf
  <2>2. random[r] = [now |-> NowOf(r), gen |-> GenOf(r), torch |-> OwnState(r)]
    BY DEF Swapped
  <2> QED
    BY <2>1, <2>2
<1>15. /\ task'[r].pc = "forward" /\ task'[r].indices = task[r].indices
       /\ task'[r].micro = tail
       /\ task'[r].out = task[r].out \o Results(head, OwnState(r))
  <2>1. PICK d, w : d = random[r].now /\ w = actor
    OBVIOUS
  <2>2. PICK new : new = [i \in DOMAIN head |-> [row |-> head[i], weights |-> w, drawn |-> d]]
    OBVIOUS
  <2>3. new = Results(head, OwnState(r))
    BY <1>14, <2>1, <2>2 DEF Results
  <2>4. task'[r] = [task[r] EXCEPT !.micro = Tail(@), !.out = @ \o new]
    BY <1>5, <1>7, <2>1, <2>2 DEF Forward, Updates
  <2>5. /\ task'[r].pc = task[r].pc /\ task'[r].indices = task[r].indices
        /\ task'[r].micro = Tail(task[r].micro)
        /\ task'[r].out = task[r].out \o new
    BY <1>2, <2>4 DEF Fields
  <2> QED
    BY <1>2, <1>5, <1>8, <2>3, <2>5
<1>16. /\ now \in Seq(Rows')
       /\ now \o FlattenSeq(task'[r].micro) = Picked(Share(r), task'[r].indices)
       /\ task'[r].out = Results(now, OwnState(r))
  BY <1>1, <1>4, <1>5, <1>9, <1>10, <1>11, <1>12, <1>13, <1>15
<1>17. /\ task'[r].indices \in Seq(1..PerRank') /\ Len(task'[r].indices) = PerRank'
       /\ Permutes(task'[r].indices, PerRank')
  BY <1>1, <1>3, <1>15 DEF InForward
<1>18. InForward(r)'
  BY <1>1, <1>16, <1>17 DEF InForward
<1> QED
  BY <1>15, <1>18 DEF ComputedOf

(* A rank puts what it computed back in order. *)
LEMMA ReturnComputed ==
    ASSUME Types, BatchInv, Turn, NEW r \in Ranks, ReturnLogProbs(r), ComputedOf(r)
    PROVE  ComputedOf(r)'
<1>1. /\ Share(r)' = Share(r) /\ OwnState(r)' = OwnState(r)
      /\ \A rows, d : Results(rows, d)' = Results(rows, d)
  BY DEF ReturnLogProbs, trainer, Share, OwnState, Results
<1>2. /\ task[r].pc = "forward" /\ task[r].micro = <<>> /\ Fields \subseteq DOMAIN task[r]
  BY DEF ReturnLogProbs, At, Turn, Held
<1>3. InForward(r)
  BY <1>2 DEF ComputedOf
<1>4. PICK done \in Seq(Rows) :
          /\ done \o FlattenSeq(task[r].micro) = Picked(Share(r), task[r].indices)
          /\ task[r].out = Results(done, OwnState(r))
  BY <1>3 DEF InForward
<1>5. done = Picked(Share(r), task[r].indices)
  BY <1>2, <1>4, FlattenEmpty, ConcatEmptySeq
<1>6. PICK n \in Nat : n = PerRank
  BY ShareIs
<1>7. PICK share \in Seq(Rows) : share = Share(r) /\ Len(share) = n
  BY <1>6, ShareIs
<1>8. PICK idx \in Seq(1..n) : idx = task[r].indices /\ Len(idx) = n /\ Permutes(idx, n)
  BY <1>3, <1>6 DEF InForward
<1>9. PICK d : d = OwnState(r)
  OBVIOUS
<1>10. Reverted(Results(Picked(share, idx), d), idx) = Results(share, d)
  BY <1>7, <1>8, RevertedIs
<1>11. Reverted(task[r].out, task[r].indices) = Results(share, d)
  BY <1>4, <1>5, <1>7, <1>8, <1>9, <1>10
<1>12. task'[r].pc = "offload" /\ task'[r].out = Reverted(task[r].out, task[r].indices)
  <2>1. PICK out : out = Reverted(task[r].out, task[r].indices)
    OBVIOUS
  <2>2. task'[r] = [task[r] EXCEPT !.pc = "offload", !.out = out]
    BY <2>1 DEF ReturnLogProbs, Types
  <2> QED
    BY <1>2, <2>1, <2>2 DEF Fields
<1> QED
  BY <1>1, <1>7, <1>9, <1>11, <1>12 DEF ComputedOf

(* What the ranks that compute log-probabilities have *)
LEMMA ComputedStep ==
    ASSUME IInv, InStep, BatchInv, Turn, Swapped, Computed, [Next]_vars
    PROVE  Computed'
<1>0. Types /\ \A r \in Ranks : Fields \subseteq DOMAIN task[r]
  BY DEF IInv, Turn, Held
<1>21. ASSUME UNCHANGED call, call # "compute_log_prob" PROVE Computed'
  BY <1>21 DEF Computed
<1>22. 0 \in Ranks
  BY Constants DEF Ranks
<1>23. \A c \in {"generate_sequences", "save_checkpoint"} \cup Updates : c # "compute_log_prob"
  BY DEF Updates
<1>1. ASSUME NEW r \in Ranks, Enter(r) PROVE Computed'
  BY <1>1, <1>21 DEF Enter, trainer
<1>2. ASSUME NEW r \in Ranks, OffloadParams(r) PROVE Computed'
  BY <1>2, <1>21, PlaceTells DEF OffloadParams, At, trainer
<1>3. ASSUME NEW r \in Ranks, WakeCache(r) PROVE Computed'
  BY <1>3, <1>21, PlaceTells DEF WakeCache, At, trainer
<1>4. ASSUME NEW r \in Ranks, Exit(r) PROVE Computed'
  BY <1>4, <1>21, PlaceTells DEF Exit, At, trainer
<1>5. ASSUME NEW r \in Ranks, Load(r) PROVE Computed'
  <2> SUFFICES ASSUME call' = "compute_log_prob", NEW q \in Ranks PROVE ComputedOf(q)'
    BY DEF Computed
  <2>1. call = "compute_log_prob" /\ UNCHANGED <<seqlen, batch, actor>>
    BY <1>5 DEF Load, trainer
  <2>2. ComputedOf(q)
    BY <2>1 DEF Computed
  <2>3. CASE q # r
    BY <1>0, <1>5, <2>1, <2>2, <2>3, SameComputed DEF Load, Types
  <2>4. CASE q = r
    <3>1. task'[r].pc = "mini" /\ task'[r].out = task[r].out /\ task'[r].rest = task[r].rows
      BY <1>0, <1>5, <2>1 DEF Load, Types, Fields
    <3>2. task[r].rows = Share(r) /\ task[r].out = <<>> /\ Share(r)' = Share(r)
      BY <1>5, <2>1, <2>2, <2>4 DEF Load, At, ComputedOf, Turn, Shares, Share
    <3> QED
      BY <2>4, <3>1, <3>2 DEF ComputedOf
  <2> QED
    BY <2>3, <2>4
<1>6. ASSUME NEW r \in Ranks, ReturnLogProbs(r) PROVE Computed'
  <2> SUFFICES ASSUME NEW q \in Ranks PROVE ComputedOf(q)'
    BY DEF Computed
  <2>1. call = "compute_log_prob" /\ UNCHANGED <<seqlen, batch, actor>>
    BY <1>6 DEF ReturnLogProbs, trainer
  <2>2. ComputedOf(q)
    BY <2>1 DEF Computed
  <2>3. CASE q # r
    BY <1>0, <1>6, <2>1, <2>2, <2>3, SameComputed DEF ReturnLogProbs, Types
  <2> QED
    BY <1>0, <1>6, <2>2, <2>3, ReturnComputed
<1>7. CASE OptimizerStep
  BY <1>7, <1>21, <1>23 DEF OptimizerStep, trainer
<1>8. ASSUME NEW r \in Ranks, Offload(r) PROVE Computed'
  <2> SUFFICES ASSUME call' = "compute_log_prob", NEW q \in Ranks PROVE ComputedOf(q)'
    BY DEF Computed
  <2>1. call = "compute_log_prob" /\ UNCHANGED <<seqlen, batch, actor>>
    BY <1>8 DEF Offload, trainer
  <2>2. ComputedOf(q)
    BY <2>1 DEF Computed
  <2>3. CASE q # r
    BY <1>0, <1>8, <2>1, <2>2, <2>3, SameComputed DEF Offload, Goto, Types
  <2>4. CASE q = r
    <3>1. task'[r].pc = "returned" /\ task'[r].out = task[r].out
      BY <1>0, <1>8 DEF Offload, Goto, Types, Fields
    <3>2. task[r].out = Results(Share(r), OwnState(r))
      BY <1>8, <2>2, <2>4 DEF Offload, At, ComputedOf
    <3>3. Results(Share(r), OwnState(r))' = Results(Share(r), OwnState(r))
      BY <2>1 DEF Results, Share, OwnState
    <3> QED
      BY <2>4, <3>1, <3>2, <3>3 DEF ComputedOf
  <2> QED
    BY <2>3, <2>4
<1>9. CASE UpdateParams
  BY <1>9, <1>21, <1>22, PlaceTells DEF UpdateParams, At, trainer
<1>10. CASE Rearrange
  <2>1. UNCHANGED call
    BY <1>10 DEF Rearrange, trainer
  <2> QED
    BY <1>0, <1>10, <2>1, RearrangeComputed DEF Computed
<1>11. CASE Forward
  <2>1. UNCHANGED call
    BY <1>11 DEF Forward, trainer
  <2> QED
    BY <1>0, <1>11, <2>1, ForwardComputed DEF Computed
<1>12. CASE SaveShards
  BY <1>12, <1>21, <1>22, PlaceTells DEF SaveShards, At, trainer
<1>13. ASSUME NEW g \in Groups, AllGather(g) PROVE Computed'
  <2>1. PICK q \in Ranks : q \in GroupOf(g)
    BY DEF Groups, GroupOf
  <2> QED
    BY <1>13, <1>21, <2>1, PlaceTells DEF AllGather, At, trainer
<1>14. ASSUME NEW g \in Groups, Generate(g) PROVE Computed'
  <2>1. PICK q \in Ranks : q \in GroupOf(g)
    BY DEF Groups, GroupOf
  <2> QED
    BY <1>14, <1>21, <2>1, PlaceTells DEF Generate, At, trainer
<1>15. CASE Collect
  BY <1>15 DEF Collect, Computed
<1>16. CASE Balance
  BY <1>16 DEF Balance, Computed
<1>17. ASSUME NEW m \in Methods, Call(m) PROVE Computed'
  BY <1>17 DEF Call, Idle, Computed, ComputedOf
<1>18. CASE UNCHANGED vars
  <2>1. UNCHANGED <<seqlen, batch, actor, call, task>>
    BY <1>18 DEF vars
  <2> QED
    BY <2>1, SameComputed DEF Computed
<1> QED
  BY <1>1, <1>2, <1>3, <1>4, <1>5, <1>6, <1>7, <1>8, <1>9, <1>10, <1>11, <1>12, <1>13,
     <1>14, <1>15, <1>16, <1>17, <1>18 DEF Next, Work, Collective, RankStep


-----------------------------------------------------------------------------
(* What the trainer collects *)

(* Every rank has the results of its share, computed from state D. *)
AllResults(D) ==
    \A r \in Ranks : D[r] \in States /\ task[r].out = Results(Share(r), D[r])

(* The results of the batch, in its order *)
ResultsOfBatch(s, D) ==
    /\ s \in Seq(Outputs) /\ Len(s) = Len(batch)
    /\ \A i \in 1..Len(batch) :
          /\ (i - 1) \div PerRank \in Ranks
          /\ s[i] = OneResult(batch[i], D[(i - 1) \div PerRank])

(* Where every rank has the results of its share, what the trainer *)
(* collects is the results of the batch, in its order.             *)
LEMMA CollectedIs ==
    ASSUME BatchInv, Weights, NEW D, AllResults(D)
    PROVE  ResultsOfBatch(Unpad(Concat([r \in Ranks |-> task[r].out], Ranks)), D)
<1> DEFINE outs == [r \in Ranks |-> task[r].out]
<1>1. PICK P \in Nat : P = PerRank /\ P > 0
  <2>1. 0 \in Ranks
    BY Constants DEF Ranks
  <2> QED
    BY <2>1, ShareIs
<1>2. PICK W \in Nat : W = WorldSize /\ W > 0 /\ Ranks = 0..(W - 1)
  BY Constants DEF Ranks
<1>3. PICK N \in Nat : N = Len(batch) /\ N > 0
  BY SeqlenIs DEF BatchInv
<1>4. /\ batch \in Seq(Rows) /\ Pad(batch) \in Seq(Rows) /\ Len(Pad(batch)) = W * P /\ N <= W * P
      /\ \A i \in 1..N : Pad(batch)[i] = batch[i]
  <2>1. batch \in Seq(Rows) /\ Len(batch) > 0
    BY <1>3 DEF BatchInv
  <2> QED
    BY <1>1, <1>2, <1>3, <2>1, PadIs DEF PerRank
<1>5. ASSUME NEW r \in Ranks
      PROVE  /\ outs[r] \in Seq(Outputs) /\ Len(outs[r]) = P
             /\ \A b \in 1..P : outs[r][b] = OneResult(Pad(batch)[r * P + b], D[r])
  <2>1. PICK share \in Seq(Rows) : share = Share(r) /\ Len(share) = P
                                  /\ \A b \in 1..P : share[b] = Pad(batch)[r * P + b]
    BY <1>1, ShareIs
  <2>2. PICK d \in States : d = D[r] /\ outs[r] = Results(share, d)
    BY <2>1 DEF AllResults
  <2>3. Results(share, d) \in Seq(Outputs)
    BY ResultsType
  <2>4. Len(Results(share, d)) = P /\ \A b \in 1..P : Results(share, d)[b] = OneResult(share[b], d)
    BY <2>1, ResultsIs
  <2> QED
    BY <2>1, <2>2, <2>3, <2>4
<1> HIDE DEF outs
<1>6. EachHas(outs, Ranks, Outputs, P)
  BY <1>5 DEF EachHas
<1>7. InARow(Ranks, 0, W)
  BY <1>2 DEF InARow
<1>8. OneByOne(Concat(outs, Ranks), outs, 0, W, Outputs, P)
  BY <1>2, <1>6, <1>7, ConcatIs
<1>9. PICK all \in Seq(Outputs) :
          /\ all = Concat(outs, Ranks) /\ Len(all) = W * P
          /\ \A a \in 0..(W - 1) : \A b \in 1..P : all[a * P + b] = outs[0 + a][b]
  BY <1>8 DEF OneByOne
<1>10. PICK s \in Seq(Outputs) : /\ s = Unpad(all) /\ Len(s) = N
                                 /\ \A i \in 1..N : s[i] = all[i]
  <2>1. 0 \in Nat /\ 0 + N <= Len(all)
    BY <1>4, <1>9
  <2>2. /\ SubSeq(all, 0 + 1, 0 + N) \in Seq(Outputs) /\ Len(SubSeq(all, 0 + 1, 0 + N)) = N
        /\ \A b \in 1..N : SubSeq(all, 0 + 1, 0 + N)[b] = all[0 + b]
    BY <2>1, PartOf
  <2>3. Unpad(all) = SubSeq(all, 0 + 1, 0 + N)
    BY <1>3 DEF Unpad
  <2>4. \A b \in 1..N : 0 + b = b
    OBVIOUS
  <2> QED
    BY <2>2, <2>3, <2>4
<1>11. ASSUME NEW i \in 1..N
       PROVE  /\ (i - 1) \div P \in Ranks
              /\ s[i] = OneResult(batch[i], D[(i - 1) \div P])
  <2>1. i - 1 \in Nat
    OBVIOUS
  <2>2. PICK a \in Nat : a = (i - 1) \div P
    BY <1>1, <2>1, DivMod
  <2>3. PICK b \in 1..P : i = a * P + b
    <3>1. i - 1 = (((i - 1) \div P) * P) + ((i - 1) % P) /\ ((i - 1) % P) \in 0..(P - 1)
      BY <1>1, <2>1, DivMod
    <3>2. PICK m \in 0..(P - 1) : m = (i - 1) % P
      BY <3>1
    <3>3. i = a * P + (m + 1) /\ m + 1 \in 1..P
      BY <2>2, <3>1, <3>2
    <3> QED
      BY <3>3
  <2>4. a < W
    <3> SUFFICES ASSUME a >= W PROVE FALSE
      OBVIOUS
    <3>1. PICK k \in Nat : a = W + k
      <4>1. a - W \in Nat /\ a = W + (a - W)
        BY <2>2
      <4> QED
        BY <4>1
    <3>2. a * P = W * P + k * P
      BY <1>1, <1>2, <3>1
    <3>3. PICK x, y, z \in Int : x = a * P /\ y = W * P /\ z = k * P
      BY <1>1, <1>2, <2>2, <3>1
    <3>4. z >= 0
      BY <1>1, <3>1, <3>3
    <3>5. x = y + z /\ i = x + b /\ i <= N /\ N <= y /\ b >= 1
      BY <1>4, <2>3, <3>2, <3>3
    <3> QED
      BY <1>3, <2>3, <3>3, <3>4, <3>5
  <2>5. a \in Ranks /\ a \in 0..(W - 1) /\ 0 + a = a
    BY <1>2, <2>4
  <2>6. all[a * P + b] = outs[a][b]
    BY <1>9, <2>5
  <2>7. outs[a][b] = OneResult(Pad(batch)[a * P + b], D[a])
    BY <1>5, <2>5
  <2>8. Pad(batch)[a * P + b] = batch[i]
    BY <1>4, <2>3
  <2> QED
    BY <1>10, <2>2, <2>3, <2>5, <2>6, <2>7, <2>8
<1>12. Unpad(Concat([r \in Ranks |-> task[r].out], Ranks)) = s
  BY <1>9, <1>10 DEF outs
<1> QED
  BY <1>1, <1>3, <1>10, <1>11, <1>12 DEF ResultsOfBatch

(* The states the ranks computed from *)
LEMMA CollectsResults ==
    ASSUME IInv, BatchInv, Turn, Counted, Weights, RolledOut, Generated, Computed, Collect
    PROVE  /\ call = "generate_sequences" =>
                 ResultsOfBatch(result', [r \in Ranks |-> GroupState(r, Len(rollout))])
           /\ call = "compute_log_prob" => ResultsOfBatch(result', [r \in Ranks |-> OwnState(r)])
<1>1. call \in {"generate_sequences", "compute_log_prob"} =>
          result' = Unpad(Concat([r \in Ranks |-> task[r].out], Ranks))
  BY DEF Collect
<1>2. \A r \in Ranks : task[r].pc = "returned"
  BY DEF Collect
<1>3. CASE call = "generate_sequences"
  <2> DEFINE D == [r \in Ranks |-> GroupState(r, Len(rollout))]
  <2>1. PICK n \in Nat : n = Len(rollout) /\ n \in 0..MaxCalls
    <3>1. rollout \in Seq(Seq(Outputs)) /\ MaxCalls \in Nat
      BY Constants DEF RolledOut
    <3>2. PICK n \in Nat : n = Len(rollout)
      BY <3>1
    <3>3. n + 1 <= calls /\ calls \in 0..MaxCalls
      BY <1>3, <3>2 DEF Counted, Sampling
    <3> QED
      BY <3>1, <3>2, <3>3
  <2>2. \A r \in Ranks : D[r] \in States
    BY <2>1 DEF States, GroupState, Groups
  <2>3. \A r \in Ranks : task[r].out = Results(Share(r), D[r])
    BY <1>2, <1>3 DEF Generated, Sampling
  <2> HIDE DEF D
  <2>4. AllResults(D)
    BY <2>2, <2>3 DEF AllResults
  <2>5. ResultsOfBatch(result', D)
    BY <1>1, <1>3, <2>4, CollectedIs
  <2> QED
    BY <1>3, <2>5 DEF D
<1>4. CASE call = "compute_log_prob"
  <2> DEFINE D == [r \in Ranks |-> OwnState(r)]
  <2>1. \A r \in Ranks : D[r] \in States
    BY Constants DEF States, OwnState
  <2>2. \A r \in Ranks : task[r].out = Results(Share(r), D[r])
    BY <1>2, <1>4 DEF Computed, ComputedOf
  <2> HIDE DEF D
  <2>3. AllResults(D)
    BY <2>1, <2>2 DEF AllResults
  <2>4. ResultsOfBatch(result', D)
    BY <1>1, <1>4, <2>3, CollectedIs
  <2> QED
    BY <1>4, <2>4 DEF D
<1> QED
  BY <1>3, <1>4

(* What is said of the batch and the outputs while the batch's size stays *)
LEMMA SameOutputs ==
    ASSUME BatchInv, BatchInv', seqlen' = seqlen
    PROVE  /\ Len(batch)' = Len(batch) /\ Outputs' = Outputs
           /\ \A i : GroupAt(i)' = GroupAt(i)
<1>1. Len(batch') = Len(seqlen) /\ Len(batch) = Len(seqlen)
  BY DEF BatchInv
<1>2. Outputs' = Outputs
  BY DEF Outputs
<1>3. PerRank' = PerRank
  BY <1>1 DEF PerRank
<1> QED
  BY <1>1, <1>2, <1>3 DEF GroupAt

(* A call returns the rows of the batch, computed with the weights as they *)
(* are; no update comes between the return and the next call.              *)
LEMMA ReturnedStep ==
    ASSUME IInv, InStep, BatchInv, Turn, Counted, Weights, RolledOut, Generated, Computed,
           Returned, [Next]_vars
    PROVE  Returned'
<1>1. CASE Collect
  <2>1. UNCHANGED <<seqlen, batch, actor>> /\ call' = "none"
    BY <1>1 DEF Collect
  <2>2. Outputs' = Outputs
    BY <2>1 DEF Outputs
  <2>3. CASE call \in {"generate_sequences", "compute_log_prob"}
    <3>1. PICK D : ResultsOfBatch(result', D)
      BY <1>1, <2>3, CollectsResults
    <3>2. /\ result' \in Seq(Outputs) /\ Len(result') = Len(batch)
          /\ \A i \in 1..Len(batch) : result'[i].row = batch[i] /\ result'[i].weights = actor
      <4>1. PICK s : s = result' /\ ResultsOfBatch(s, D)
        BY <3>1
      <4>2. ASSUME NEW i \in 1..Len(batch)
            PROVE  s[i].row = batch[i] /\ s[i].weights = actor
        <5>1. PICK d : s[i] = OneResult(batch[i], d)
          BY <4>1 DEF ResultsOfBatch
        <5> QED
          BY <5>1 DEF OneResult
      <4> QED
        BY <4>1, <4>2 DEF ResultsOfBatch
    <3> QED
      BY <2>1, <2>2, <3>2 DEF Returned
  <2>4. CASE call \notin {"generate_sequences", "compute_log_prob"}
    <3>1. result' = <<>>
      BY <1>1, <2>4 DEF Collect
    <3> QED
      BY <2>1, <3>1 DEF Returned
  <2> QED
    BY <2>3, <2>4
<1>2. CASE result' = <<>>
  BY <1>2 DEF Returned
<1>3. CASE UNCHANGED <<seqlen, batch, call, result, actor>>
  <2>1. Outputs' = Outputs
    BY <1>3 DEF Outputs
  <2> QED
    BY <1>3, <2>1 DEF Returned
<1>4. CASE OptimizerStep
  <2>1. call # "none" /\ result' = result
    BY <1>4 DEF OptimizerStep, Updates, trainer
  <2> QED
    BY <1>2, <2>1 DEF Returned
<1>5. CASE Balance \/ \E m \in Methods : Call(m)
  BY <1>2, <1>5 DEF Balance, Call
<1>6. ASSUME NEW r \in Ranks, RankStep(r) PROVE Returned'
  BY <1>3, <1>6 DEF RankStep, Enter, OffloadParams, WakeCache, Exit, Load, ReturnLogProbs,
                    Offload, trainer
<1>7. CASE Collective
  BY <1>3, <1>4, <1>7 DEF Collective, UpdateParams, Rearrange, Forward, SaveShards, AllGather,
                          Generate, trainer
<1>8. CASE UNCHANGED vars
  BY <1>3, <1>8 DEF vars
<1> QED
  BY <1>1, <1>5, <1>6, <1>7, <1>8 DEF Next, Work

(* A turn of the rollout draws from the group's state as it then is. *)
LEMMA RolledOutStep ==
    ASSUME IInv, InStep, BatchInv, Turn, Counted, Weights, RolledOut, Generated, Computed,
           [Next]_vars
    PROVE  RolledOut'
<1>1. BatchInv' /\ seqlen' = seqlen
  BY BatchStep
<1>2. Len(batch') = Len(batch) /\ Outputs' = Outputs /\ \A i : GroupAt(i)' = GroupAt(i)
  BY <1>1, SameOutputs
<1>3. CASE UNCHANGED rollout
  BY <1>2, <1>3 DEF RolledOut
<1>4. CASE Collect /\ Sampling
  <2> DEFINE Q == Seq(Outputs)
  <2>1. PICK n \in Nat : n = Len(rollout) /\ DOMAIN rollout = 1..n
    <3>1. rollout \in Seq(Q)
      BY DEF RolledOut
    <3> HIDE DEF Q
    <3> QED
      BY <3>1
  <2>2. ResultsOfBatch(result', [r \in Ranks |-> GroupState(r, n)])
    BY <1>4, <2>1, CollectsResults DEF Sampling
  <2>3. result' \in Q /\ Len(result') = Len(batch)
    BY <2>2 DEF ResultsOfBatch
  <2>4. ASSUME NEW i \in 1..Len(batch)
        PROVE  result'[i].drawn = <<1000 + GroupAt(i), n>>
    <3>1. PICK q \in Ranks : q = (i - 1) \div PerRank
      BY <2>2 DEF ResultsOfBatch
    <3>2. result'[i] = OneResult(batch[i], GroupState(q, n))
      BY <2>2, <3>1 DEF ResultsOfBatch
    <3> QED
      BY <3>1, <3>2 DEF OneResult, GroupState, GroupAt
  <2>5. /\ rollout' \in Seq(Q) /\ DOMAIN rollout' = 1..(n + 1)
        /\ rollout'[n + 1] = result' /\ \A s \in 1..n : rollout'[s] = rollout[s]
    <3>1. rollout' = Append(rollout, result') /\ rollout \in Seq(Q)
      BY <1>4 DEF Collect, RolledOut, Sampling
    <3> HIDE DEF Q
    <3> QED
      BY <2>1, <2>3, <3>1
  <2>6. ASSUME NEW s \in 1..(n + 1)
        PROVE  /\ Len(rollout'[s]) = Len(batch)
               /\ \A i \in 1..Len(batch) : rollout'[s][i].drawn = <<1000 + GroupAt(i), s - 1>>
    <3>1. CASE s = n + 1
      <4>1. s - 1 = n /\ rollout'[s] = result'
        BY <2>1, <2>5, <3>1
      <4> QED
        BY <2>3, <2>4, <4>1
    <3>2. CASE s \in 1..n
      <4>1. s \in DOMAIN rollout /\ rollout'[s] = rollout[s]
        BY <2>1, <2>5, <3>2
      <4>2. PICK t : t = rollout[s] /\ rollout'[s] = t
        BY <4>1
      <4>3. /\ Len(t) = Len(batch)
            /\ \A i \in 1..Len(batch) : t[i].drawn = <<1000 + GroupAt(i), s - 1>>
        BY <4>1, <4>2 DEF RolledOut
      <4> QED
        BY <4>2, <4>3
    <3> QED
      BY <2>1, <3>1, <3>2
  <2> QED
    BY <1>2, <2>5, <2>6 DEF RolledOut
<1> QED
  BY <1>3, <1>4 DEF Next, Work, Collective, RankStep, Enter, OffloadParams, WakeCache,
     Exit, Load, ReturnLogProbs, Offload, UpdateParams, Rearrange, Forward, OptimizerStep,
     SaveShards, AllGather, Generate, Balance, Call, Collect, Sampling, trainer, vars


-----------------------------------------------------------------------------
(* The theorems about the content *)

(* What is computed, from what and of what *)
Content ==
    /\ Counted
    /\ Weights
    /\ Swapped
    /\ Generated
    /\ Computed
    /\ NoOutput
    /\ Returned
    /\ RolledOut

(* Nothing has been computed before the first call. *)
LEMMA ContentStart == Init => Content
<1> SUFFICES ASSUME Init PROVE Content
  OBVIOUS
<1>1. call = "none" /\ calls = 0 /\ result = <<>> /\ rollout = <<>> /\ Len(rollout) = 0
  BY DEF Init
<1>2. \A r \in Ranks : task[r].pc = "idle" /\ task[r].out = <<>>
  BY DEF Init, Idle
<1>3. Counted
  BY <1>1, Constants DEF Counted, Sampling
<1>4. Weights
  BY <1>1 DEF Init, Weights, Sampling
<1>5. Swapped
  <2>1. \A r \in Ranks : NowOf(r) = <<r, 0>> /\ GenOf(r) = <<1000 + DpRank(r), 0>>
    BY <1>1, <1>2 DEF NowOf, GenOf, OwnState, GroupState, Sampling
  <2>2. random = [r \in Ranks |-> [now |-> <<r, 0>>, gen |-> <<1000 + DpRank(r), 0>>,
                                   torch |-> <<r, 0>>]]
    BY DEF Init
  <2>3. \A r \in Ranks : random[r] = [now |-> NowOf(r), gen |-> GenOf(r), torch |-> OwnState(r)]
    BY <2>1, <2>2 DEF OwnState
  <2>4. random = [r \in Ranks |-> random[r]]
    BY <2>2
  <2> QED
    BY <2>3, <2>4 DEF Swapped
<1>6. Generated /\ Computed /\ NoOutput /\ Returned
  BY <1>1, <1>2 DEF Generated, Computed, NoOutput, Returned, Sampling
<1>7. RolledOut
  BY <1>1 DEF RolledOut
<1> QED
  BY <1>3, <1>4, <1>5, <1>6, <1>7 DEF Content

(* Every step keeps what is said of the results. *)
LEMMA ContentStep ==
    ASSUME IInv, InStep, BatchInv, Turn, Content, [Next]_vars
    PROVE  Content'
<1>1. /\ Counted /\ Weights /\ Swapped /\ Generated /\ Computed /\ NoOutput /\ Returned
      /\ RolledOut
  BY DEF Content
<1>2. Counted' /\ Weights'
  BY <1>1, CountedStep, WeightsStep
<1>3. Swapped'
  BY <1>1, SwappedStep
<1>4. Generated'
  BY <1>1, GeneratedStep
<1>5. Computed'
  BY <1>1, ComputedStep
<1>6. NoOutput'
  BY <1>1, NoOutputStep
<1>7. Returned'
  BY <1>1, ReturnedStep
<1>8. RolledOut'
  BY <1>1, RolledOutStep
<1> QED
  BY <1>2, <1>3, <1>4, <1>5, <1>6, <1>7, <1>8 DEF Content

(* What is known of weights, random states and results is an invariant. *)
THEOREM ContentHolds == Spec => [](IInv /\ InStep /\ BatchInv /\ Turn /\ Content)
<1>1. Init => Content
  BY ContentStart
<1>2. (IInv /\ InStep /\ BatchInv /\ Turn) /\ Content /\ [Next]_vars => Content'
  BY ContentStep
<1> QED
  BY <1>1, <1>2, TurnsHold, PTL DEF Spec

(* Whatever a call returns is of the rows of the batch in its order, *)
(* computed with the weights of the last update: padding, chunking,  *)
(* gathering, micro-batching and reverting lose and mix up nothing.  *)
THEOREM BatchComesBack == Spec => []RowsComeBack
<1>1. Returned => RowsComeBack
  <2> SUFFICES ASSUME Returned, result # <<>>
               PROVE  /\ Len(result) = Len(batch)
                      /\ \A i \in DOMAIN result :
                            result[i].row = batch[i] /\ result[i].weights = actor
    BY DEF RowsComeBack
  <2>1. PICK s \in Seq(Outputs) : s = result
    BY DEF Returned
  <2>2. DOMAIN result = 1..Len(batch)
    BY <2>1 DEF Returned
  <2> QED
    BY <2>2 DEF Returned
<1>2. Content => Returned
  BY DEF Content
<1> QED
  BY <1>1, <1>2, ContentHolds, PTL

(* Ranks of one tensor parallel group draw from the same random state,    *)
(* those of different groups from different ones, no turn of the rollout  *)
(* draws from a state again, and outside generation each rank has its own *)
(* state in place.                                                        *)
THEOREM SamplesAreFresh == Spec => []FreshSamples
<1> SUFFICES ASSUME BatchInv, Content PROVE FreshSamples
  BY ContentHolds, PTL
<1>1. RolledOut /\ Swapped /\ Counted
  BY DEF Content
<1>2. PICK N \in Nat : N = Len(batch)
  BY DEF BatchInv
<1>3. ASSUME NEW i \in 1..N PROVE GroupAt(i) \in Int
  <2>1. PICK P \in Nat : P = PerRank /\ P > 0
    <3>1. batch \in Seq(Rows) /\ Len(batch) > 0
      BY SeqlenIs DEF BatchInv
    <3> QED
      BY <3>1, PadIs DEF PerRank
  <2>2. PICK q \in Int : q = (i - 1) \div P
    BY <1>2, <2>1
  <2>3. PICK T \in Nat : T = TPSize /\ T > 0
    BY Constants
  <2>4. q \div T \in Int
    BY <2>2, <2>3
  <2> QED
    BY <2>1, <2>2, <2>3, <2>4 DEF GroupAt, DpRank
<1>4. ASSUME NEW s \in DOMAIN rollout, NEW t \in DOMAIN rollout,
             NEW i \in DOMAIN rollout[s], NEW j \in DOMAIN rollout[t]
      PROVE  rollout[s][i].drawn = rollout[t][j].drawn <=> s = t /\ GroupAt(i) = GroupAt(j)
  <2> DEFINE Q == Seq(Outputs)
  <2>1. s \in Nat /\ t \in Nat /\ rollout[s] \in Q /\ rollout[t] \in Q
    <3>1. rollout \in Seq(Q)
      BY <1>1 DEF RolledOut
    <3> HIDE DEF Q
    <3> QED
      BY <3>1
  <2>2. i \in 1..N /\ j \in 1..N
    BY <1>1, <1>2, <2>1 DEF RolledOut
  <2>3. PICK g \in Int, h \in Int : g = GroupAt(i) /\ h = GroupAt(j)
    BY <1>3, <2>2
  <2>4. /\ rollout[s][i].drawn = <<1000 + g, s - 1>>
        /\ rollout[t][j].drawn = <<1000 + h, t - 1>>
    BY <1>1, <1>2, <2>2, <2>3 DEF RolledOut
  <2>5. 1000 + g = 1000 + h <=> g = h
    OBVIOUS
  <2>6. s - 1 = t - 1 <=> s = t
    BY <2>1
  <2>7. <<1000 + g, s - 1>> = <<1000 + h, t - 1>> <=> 1000 + g = 1000 + h /\ s - 1 = t - 1
    OBVIOUS
  <2> QED
    BY <2>3, <2>4, <2>5, <2>6, <2>7
<1>5. ASSUME NEW r \in Ranks, ~At(r, "gather"), ~At(r, "generate"), ~At(r, "exit")
      PROVE  random[r].now = <<r, 0>>
  BY <1>1, <1>5 DEF Swapped, NowOf, OwnState, At
<1> QED
  BY <1>4, <1>5 DEF FreshSamples

(* What a rank has computed is of rows, with weights and a random state. *)
LEMMA OutputsAre ==
    ASSUME IInv, InStep, BatchInv, Turn, Content, NEW r \in Ranks
    PROVE  task[r].out \in Seq(Outputs)
<1>1. /\ Counted /\ Weights /\ Generated /\ Computed /\ NoOutput /\ RolledOut
  BY DEF Content
<1>2. PICK n \in Nat : n = Len(rollout) /\ n <= calls /\ calls \in 0..MaxCalls
  <2>1. rollout \in Seq(Seq(Outputs)) /\ MaxCalls \in Nat
    BY <1>1, Constants DEF RolledOut
  <2>2. PICK n \in Nat : n = Len(rollout)
    BY <2>1
  <2>3. n + (IF Sampling THEN 1 ELSE 0) <= calls /\ calls \in 0..MaxCalls
    BY <1>1, <2>2 DEF Counted
  <2>4. n <= calls
    BY <2>1, <2>3
  <2> QED
    BY <2>2, <2>3, <2>4
<1>3. MaxCalls \in Nat
  BY Constants
<1>4. OwnState(r) \in States /\ GroupState(r, n) \in States
  BY <1>2, <1>3 DEF States, OwnState, GroupState, Groups
<1>5. <<>> \in Seq(Outputs)
  OBVIOUS
<1>6. Share(r) \in Seq(Rows)
  BY ShareIs
<1>7. GroupRows(DpRank(r)) \in Seq(Rows)
  BY GroupRowsIs DEF Groups
<1>8. CASE call = "generate_sequences"
  <2>1. task[r].out \in {Results(GroupRows(DpRank(r)), GroupState(r, n)),
                         Results(Share(r), GroupState(r, n)), <<>>}
    BY <1>1, <1>2, <1>8 DEF Generated, Sampling
  <2> QED
    BY <1>1, <1>4, <1>5, <1>6, <1>7, <2>1, ResultsType
<1>9. CASE call = "compute_log_prob"
  <2>1. ComputedOf(r)
    BY <1>1, <1>9 DEF Computed
  <2>2. task[r].pc \in {"called", "mini", "forward", "offload", "returned"}
    BY <1>9, CallPlaces DEF Trained
  <2>3. CASE task[r].pc = "forward"
    <3>1. PICK done \in Seq(Rows) : task[r].out = Results(done, OwnState(r))
      BY <2>1, <2>3 DEF ComputedOf, InForward
    <3> QED
      BY <1>1, <1>4, <3>1, ResultsType
  <2>4. CASE task[r].pc \in {"offload", "returned"}
    BY <1>1, <1>4, <1>6, <2>1, <2>4, ResultsType DEF ComputedOf
  <2>5. CASE task[r].pc \in {"called", "mini"}
    BY <1>5, <2>1, <2>5 DEF ComputedOf
  <2> QED
    BY <2>2, <2>3, <2>4, <2>5
<1>10. CASE call \notin {"generate_sequences", "compute_log_prob"}
  BY <1>1, <1>5, <1>10 DEF NoOutput
<1> QED
  BY <1>8, <1>9, <1>10

(* The variables of the worker group keep their types; in particular a   *)
(* result is of a row there is, and a random state is drawn from once in *)
(* a call at most.                                                       *)
THEOREM GroupTypes == Spec => []TypeOK
<1> SUFFICES ASSUME IInv, InStep, BatchInv, Turn, Content PROVE TypeOK
  BY ContentHolds, PTL
<1>1. Counted /\ Weights /\ Swapped /\ Returned /\ RolledOut /\ Types
  BY DEF Content, IInv
<1>2. seqlen \in Batches /\ batch \in Seq(DOMAIN seqlen) /\ Len(batch) = Len(seqlen)
  BY SeqlenIs DEF BatchInv
<1>3. call \in Methods \cup {"none"} /\ calls \in 0..MaxCalls
  BY <1>1 DEF Turn, Counted
<1>4. result \in Seq(Outputs)
  <2>1. <<>> \in Seq(Outputs)
    OBVIOUS
  <2> QED
    BY <1>1, <2>1 DEF Returned
<1>5. rollout \in Seq(Seq(Outputs))
  BY <1>1 DEF RolledOut
<1>6. ASSUME NEW r \in Ranks
      PROVE  /\ task[r].pc \in {"idle", "called", "sync", "synced", "kv", "gather", "generate",
                                "exit", "mini", "forward", "saving", "offload", "returned"}
             /\ task[r].out \in Seq(Outputs)
             /\ gpu[r] \subseteq {"params", "optimizer", "engine", "kv_cache"}
  <2>1. task[r].out \in Seq(Outputs)
    BY OutputsAre
  <2>2. task[r].pc \in PCs /\ gpu[r] \in SUBSET Places
    BY <1>1 DEF Types
  <2> QED
    BY <2>1, <2>2 DEF PCs, Places
<1>7. actor \in [Ranks -> Nat] /\ engine \in [Ranks -> [Ranks -> Nat]]
  BY <1>1 DEF Weights
<1>8. random \in [Ranks -> [now : States, gen : States, torch : States]]
  <2>1. PICK n \in Nat : n = Len(rollout)
    <3>1. rollout \in Seq(Seq(Outputs))
      BY <1>5
    <3> QED
      BY <3>1
  <2>2. MaxCalls \in Nat /\ n \in 0..MaxCalls /\ (Sampling => n + 1 \in 0..MaxCalls)
    BY <1>1, <2>1, Constants DEF Counted
  <2>3. ASSUME NEW r \in Ranks
        PROVE  NowOf(r) \in States /\ GenOf(r) \in States /\ OwnState(r) \in States
    <3>1. OwnState(r) \in States /\ GroupState(r, n) \in States
      BY <2>2 DEF States, OwnState, GroupState, Groups
    <3>2. Sampling => GroupState(r, n + 1) \in States
      BY <2>2 DEF States, GroupState, Groups
    <3>3. task[r].pc = "exit" => Sampling
      BY PlaceTells DEF Sampling
    <3> QED
      BY <2>1, <3>1, <3>2, <3>3 DEF NowOf, GenOf
  <2>4. \A r \in Ranks : random[r] \in [now : States, gen : States, torch : States]
    BY <1>1, <2>3 DEF Swapped
  <2> QED
    BY <1>1, <2>4 DEF Swapped
<1> QED
  BY <1>2, <1>3, <1>4, <1>5, <1>6, <1>7, <1>8 DEF TypeOK
==============================================================================
