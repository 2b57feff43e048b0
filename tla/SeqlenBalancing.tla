--------------------------- MODULE SeqlenBalancing ---------------------------
(***************************************************************************)
(* verl/utils/seqlen_balancing.py: rows of different lengths are split     *)
(* into k parts of about the same number of tokens by the differencing     *)
(* method of Karmarkar and Karp.  Rows are numbered from 1; a part is the  *)
(* sequence of its rows in the order they were merged into it.             *)
(***************************************************************************)
EXTENDS Integers, Sequences, FiniteSets, SequencesExt

(* s in the order of Less, stably *)
Sorted(s, Less(_, _)) ==
    LET insert(x, sorted) ==
            InsertAt(sorted, 1 + Cardinality({i \in DOMAIN sorted : ~Less(x, sorted[i])}), x)
        first[n \in 0..Len(s)] == IF n = 0 THEN <<>> ELSE insert(s[n], first[n - 1])
    IN  first[Len(s)]

Total(s) ==
    LET sum[n \in 0..Len(s)] == IF n = 0 THEN 0 ELSE sum[n - 1] + s[n] IN sum[Len(s)]

(* Set.sum *)
Tokens(seqlen, part) == Total([i \in DOMAIN part |-> seqlen[part[i]]])

(* Set.__lt__: parts have no row in common, so their first rows differ. *)
Lighter(seqlen, a, b) ==
    LET x == Tokens(seqlen, a)
        y == Tokens(seqlen, b)
    IN  \/ x < y
        \/ x = y /\ Len(a) < Len(b)
        \/ x = y /\ Len(a) = Len(b) /\ a # <<>> /\ a[1] < b[1]

(* A State is k parts, the heaviest first. *)
Descending(seqlen, parts) == Sorted(parts, LAMBDA a, b : Lighter(seqlen, b, a))

Spread(seqlen, state) == Tokens(seqlen, state[1]) - Tokens(seqlen, state[Len(state)])

(* State.__lt__: which of two states the heap has first. *)
Before(seqlen, s, t) ==
    \/ Spread(seqlen, s) > Spread(seqlen, t)
    \/ Spread(seqlen, s) = Spread(seqlen, t) /\ Lighter(seqlen, t[1], s[1])

(* Mutant: heavy parts with heavy ones. *)
MergeHeaviest(seqlen, s, t) ==
    Descending(seqlen, [i \in DOMAIN s |-> s[i] \o t[i]])

(* State.merge: heavy parts with light ones. *)
Merge(seqlen, s, t) ==
    Descending(seqlen, [i \in DOMAIN s |-> s[i] \o t[Len(t) + 1 - i]])

(* sorted_seqlen_list *)
ByLength(seqlen) ==
    Sorted([i \in DOMAIN seqlen |-> i],
            LAMBDA i, j : seqlen[i] < seqlen[j] \/ (seqlen[i] = seqlen[j] /\ i < j))

(* states_pq: with equal_size, k rows of similar length to a state, one in *)
(* each part, the heaviest part first; otherwise a state for each row.     *)
Heap(seqlen, k, equal_size) ==
    IF equal_size
    THEN LET sorted == ByLength(seqlen)
         IN  {[i \in 1..k |-> <<sorted[g * k + k + 1 - i]>>] :
                 g \in 0..((Len(seqlen) \div k) - 1)}
    ELSE {[i \in 1..k |-> IF i = 1 THEN <<row>> ELSE <<>>] : row \in DOMAIN seqlen}

Pop(seqlen, heap) == CHOOSE s \in heap : \A t \in heap \ {s} : Before(seqlen, s, t)

(* One turn of the loop: the two first states are merged. *)
MergeFirst(seqlen, heap) ==
    LET state0 == Pop(seqlen, heap)
        state1 == Pop(seqlen, heap \ {state0})
    IN  (heap \ {state0, state1}) \cup {Merge(seqlen, state0, state1)}

KarmarkarKarp(seqlen, k, equal_size) ==
    LET start == Heap(seqlen, k, equal_size)
        heap[n \in 1..Cardinality(start)] ==      \* when n states are left
            IF n = Cardinality(start) THEN start ELSE MergeFirst(seqlen, heap[n + 1])
    IN  CHOOSE s \in heap[1] : TRUE

(* What get_seqlen_balanced_partitions and karmarkar_karp assert. *)
Partitionable(seqlen, k, equal_size) ==
    /\ k <= Len(seqlen)
    /\ equal_size => Len(seqlen) % k = 0

(* get_seqlen_balanced_partitions: the rows of each part in order. *)
Partitions(seqlen, k, equal_size) ==
    LET parts == KarmarkarKarp(seqlen, k, equal_size)
    IN  [i \in 1..k |-> Sorted(parts[i], <)]

CeilDiv(a, b) == (a + b - 1) \div b
Least(a, b) == IF a < b THEN a ELSE b

(* rearrange_micro_batches, before the ranks agree on a number *)
NumMicroBatches(seqlen, max_token_len) ==
    Least(Len(seqlen), CeilDiv(Total(seqlen), max_token_len))

(* get_reverse_idx *)
ReverseIdx(idx_map) ==
    [j \in DOMAIN idx_map |-> CHOOSE i \in DOMAIN idx_map : idx_map[i] = j]
=============================================================================
