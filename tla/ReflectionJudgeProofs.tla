------------------------- MODULE ReflectionJudgeProofs -------------------------
(***************************************************************************)
(* Proofs about ReflectionJudge, for every number of items, threads and    *)
(* retries: its types, that each result is the grade of its own item, that *)
(* no request is wasted, and that score_batch implements ScoreBatch.       *)
(*                                                                         *)
(* The argument.  The pool's queue hands an item to one thread only, so    *)
(* threads at work have items of their own (OwnItems), and as long as one  *)
(* is at work on an item, that item has no outcome and only bad replies    *)
(* (AtWork); what is then said about an item never changes (Judged).       *)
(* call_count is the number of replies and of requests under way,          *)
(* fail_count that of the items without a grade, and what the holder of    *)
(* the lock has read of a counter is still its value (Counted).            *)
(***************************************************************************)
EXTENDS ReflectionJudge, FiniteSetTheorems, TLAPS

Working(w) == pc[w] # "idle"

(* The queue hands every item out once. *)
OwnItems ==
    /\ \A w \in Threads : Working(w) => item[w] \in Items /\ item[w] < head
    /\ \A w, v \in Threads : Working(w) /\ Working(v) /\ w # v => item[w] # item[v]
    /\ \A i \in Items : i >= head => outcome[i] = Pending /\ said[i] = <<>>

(* The requests thread w has made for its item. *)
Made(w) ==
    IF pc[w] = "sleep" THEN attempt[w] + 1
    ELSE IF pc[w] \in {"fail", "failAdd"} THEN MaxRetries + 1
    ELSE attempt[w]

AllBad(i) == \A a \in 1..Len(said[i]) : said[i][a] = Bad

AtWork(w) ==
    /\ item[w] \notin empty
    /\ outcome[item[w]] = Pending
    /\ AllBad(item[w])
    /\ Len(said[item[w]]) = Made(w)
    /\ pc[w] = "sleep" => attempt[w] < MaxRetries

(* Requests stop with the first score. *)
OneScore(i) == \A a \in 1..(Len(said[i]) - 1) : said[i][a] = Bad

(* How an item got its outcome. *)
Judged(i) ==
    IF i \in empty THEN outcome[i] = 0 /\ said[i] = <<>>
    ELSE \/ /\ outcome[i] \in Scores
            /\ Len(said[i]) \in 1..(MaxRetries + 1)
            /\ said[i][Len(said[i])] = outcome[i]
            /\ OneScore(i)
         \/ /\ outcome[i] = None
            /\ Len(said[i]) = MaxRetries + 1
            /\ AllBad(i)

(* Results are taken in order, and all of them before score_batch returns. *)
Taken ==
    /\ \A i \in 1..consumed : outcome[i] # Pending /\ results[i] = outcome[i]
    /\ returned => consumed = NItems

IInv ==
    /\ TypeOK
    /\ OwnItems
    /\ \A w \in Threads : Working(w) => AtWork(w)
    /\ \A i \in Items : outcome[i] # Pending => Judged(i)
    /\ \A i \in Items : Len(said[i]) <= MaxRetries + 1 /\ OneScore(i)
    /\ Taken

-----------------------------------------------------------------------------
(* The initial states *)

(* What the proofs use of the constants. *)
LEMMA ConstantTypes ==
    /\ NItems \in Nat
    /\ MaxRetries \in Nat
    /\ Workers \in Nat
    /\ NoThread \notin Threads
  BY JudgeAssumption DEF Workers, Threads, NoThread

(* The verdicts are told apart from the markers. *)
LEMMA Markers ==
    /\ Pending \notin Verdicts
    /\ Bad \notin Scores
    /\ None \notin Scores
    /\ 0 \in Scores
    /\ Verdicts = Scores \cup {None}
  BY DEF Pending, Verdicts, Scores, Bad, None

(* The types hold at the start. *)
LEMMA InitTypeOK == Init => TypeOK
<1> SUFFICES ASSUME Init PROVE TypeOK
  OBVIOUS
<1>1. head \in 1..(NItems + 1)
  BY ConstantTypes DEF Init
<1>2. pc \in [Threads -> PCs]
  BY DEF Init, PCs
<1>3. item \in [Threads -> 0..NItems] /\ attempt \in [Threads -> 0..MaxRetries]
  BY ConstantTypes DEF Init
<1>4. said \in [Items -> Seq(Scores \cup {Bad})]
  BY DEF Init
<1>5. results \in [Items -> Verdicts] /\ consumed \in 0..NItems
  BY ConstantTypes DEF Init, Verdicts
<1>6. register \in [Threads -> Nat] /\ lock \in Threads \cup {NoThread}
  BY DEF Init
<1> QED
  BY <1>1, <1>2, <1>3, <1>4, <1>5, <1>6 DEF Init, TypeOK

(* The invariant holds at the start. *)
LEMMA InitIInv == Init => IInv
<1> SUFFICES ASSUME Init PROVE IInv
  OBVIOUS
<1>1. OwnItems
  BY ConstantTypes DEF Init, OwnItems, Working, Items
<1>2. \A w \in Threads : ~Working(w)
  BY DEF Init, Working
<1>3. \A i \in Items : outcome[i] = Pending
  BY DEF Init
<1>4. \A i \in Items : Len(said[i]) <= MaxRetries + 1 /\ OneScore(i)
  BY ConstantTypes DEF Init, OneScore
<1>5. Taken
  BY DEF Init, Taken
<1> QED
  BY <1>1, <1>2, <1>3, <1>4, <1>5, InitTypeOK DEF IInv

-----------------------------------------------------------------------------
(* Steps that judge no item *)

(* A thread that goes on with its item, having made as many requests as    *)
(* before, keeps the invariant.                                            *)
LEMMA Goes ==
    ASSUME IInv, NEW w \in Threads, Working(w),
           NEW label \in PCs \ {"idle"}, pc' = [pc EXCEPT ![w] = label],
           NEW n \in 0..MaxRetries, attempt' = [attempt EXCEPT ![w] = n],
           Made(w)' = Made(w),
           label = "sleep" => n < MaxRetries,
           register' \in [Threads -> Nat],
           lock' \in Threads \cup {NoThread},
           client' \in Threads \cup {NoThread},
           call_count' \in Nat, fail_count' \in Nat,
           UNCHANGED <<empty, head, item, said, outcome, caller>>
    PROVE  IInv'
<1>1. TypeOK'
  <2>1. pc' \in [Threads -> PCs] /\ attempt' \in [Threads -> 0..MaxRetries]
    BY DEF IInv, TypeOK
  <2> QED
    BY <2>1 DEF IInv, TypeOK, caller
<1>2. \A v \in Threads : Working(v)' <=> Working(v)
  BY DEF Working, IInv, TypeOK
<1>3. OwnItems'
  BY <1>2 DEF IInv, OwnItems
<1>4. ASSUME NEW v \in Threads, Working(v)' PROVE AtWork(v)'
  <2>1. AtWork(v)
    BY <1>2, <1>4 DEF IInv
  <2>2. Made(v)' = Made(v)
    BY DEF Made, IInv, TypeOK
  <2>3. (pc[v] = "sleep" => attempt[v] < MaxRetries)'
    BY <2>1 DEF AtWork, IInv, TypeOK
  <2> QED
    BY <2>1, <2>2, <2>3 DEF AtWork, AllBad
<1>5. (\A i \in Items : outcome[i] # Pending => Judged(i))'
  BY DEF IInv, Judged, AllBad, OneScore
<1>6. (\A i \in Items : Len(said[i]) <= MaxRetries + 1 /\ OneScore(i))'
  BY DEF IInv, OneScore
<1>7. Taken'
  BY DEF IInv, Taken, caller
<1> QED
  BY <1>1, <1>3, <1>4, <1>5, <1>6, <1>7 DEF IInv

(* Making the client and counting keep the invariant. *)
LEMMA GetClientIInv == ASSUME IInv, NEW w \in Threads, GetClient(w) PROVE IInv'
<1>1. PICK label \in {"create", "count"} : pc' = [pc EXCEPT ![w] = label]
  BY DEF GetClient, Goto
<1>2. pc[w] \in {"client", "create"}
  BY DEF GetClient
<1>3. Working(w) /\ Made(w)' = Made(w)
  <2>1. pc'[w] \in {"create", "count"} /\ attempt' = attempt
    BY <1>1 DEF GetClient, IInv, TypeOK
  <2> QED
    BY <2>1, <1>2 DEF Working, Made
<1>4. attempt' = [attempt EXCEPT ![w] = attempt[w]] /\ attempt[w] \in 0..MaxRetries
  BY DEF GetClient, IInv, TypeOK
<1>5. client' \in Threads \cup {NoThread}
  BY DEF GetClient, IInv, TypeOK
<1>6. label \in PCs \ {"idle"} /\ label # "sleep"
  BY <1>1 DEF PCs
<1>7. /\ UNCHANGED <<empty, head, item, said, outcome, caller>>
      /\ UNCHANGED <<register, lock, call_count, fail_count>>
  BY DEF GetClient, counter
<1>8. /\ register' \in [Threads -> Nat] /\ lock' \in Threads \cup {NoThread}
      /\ call_count' \in Nat /\ fail_count' \in Nat
  BY <1>7 DEF IInv, TypeOK
<1> QED
  BY <1>1, <1>3, <1>4, <1>5, <1>6, <1>7, <1>8, Goes

(* Reading a counter keeps it. *)
LEMMA ReadCounterIInv == ASSUME IInv, NEW w \in Threads, ReadCounter(w) PROVE IInv'
<1>1. PICK label \in {"add", "failAdd"} : pc' = [pc EXCEPT ![w] = label]
  BY DEF ReadCounter, Goto
<1>2. \/ pc[w] = "count" /\ pc' = [pc EXCEPT ![w] = "add"]
      \/ pc[w] = "fail" /\ pc' = [pc EXCEPT ![w] = "failAdd"]
  BY DEF ReadCounter, Goto
<1>3. Working(w) /\ Made(w)' = Made(w)
  BY <1>2 DEF Working, Made, ReadCounter, IInv, TypeOK
<1>4. attempt' = [attempt EXCEPT ![w] = attempt[w]] /\ attempt[w] \in 0..MaxRetries
  BY DEF ReadCounter, IInv, TypeOK
<1>5. register' \in [Threads -> Nat] /\ lock' \in Threads \cup {NoThread}
  BY DEF ReadCounter, IInv, TypeOK
<1>6. label \in PCs \ {"idle"} /\ label # "sleep"
  BY <1>1 DEF PCs
<1>7. UNCHANGED <<empty, head, item, said, outcome, caller, client, call_count, fail_count>>
  BY DEF ReadCounter
<1>8. /\ client' \in Threads \cup {NoThread}
      /\ call_count' \in Nat /\ fail_count' \in Nat
  BY <1>7 DEF IInv, TypeOK
<1> QED
  BY <1>1, <1>3, <1>4, <1>5, <1>6, <1>7, <1>8, Goes

(* A retry is the next attempt. *)
LEMMA SleepIInv == ASSUME IInv, NEW w \in Threads, Sleep(w) PROVE IInv'
<1>1. pc[w] = "sleep" /\ pc' = [pc EXCEPT ![w] = "count"]
  BY DEF Sleep, Goto
<1>2. attempt' = [attempt EXCEPT ![w] = attempt[w] + 1]
  BY DEF Sleep
<1>3. Working(w) /\ attempt[w] < MaxRetries /\ attempt[w] \in 0..MaxRetries
  BY <1>1 DEF Working, AtWork, IInv, TypeOK
<1>4. Made(w)' = Made(w)
  BY <1>1, <1>2 DEF Made, IInv, TypeOK
<1>5. attempt[w] + 1 \in 0..MaxRetries
  BY <1>3, ConstantTypes
<1>6. "count" \in PCs \ {"idle"}
  BY DEF PCs
<1>7. /\ UNCHANGED <<empty, head, item, said, outcome, caller>>
      /\ UNCHANGED <<register, lock, call_count, fail_count, client>>
  BY DEF Sleep, counter
<1>8. /\ register' \in [Threads -> Nat] /\ lock' \in Threads \cup {NoThread}
      /\ client' \in Threads \cup {NoThread}
      /\ call_count' \in Nat /\ fail_count' \in Nat
  BY <1>7 DEF IInv, TypeOK
<1> QED
  BY <1>1, <1>2, <1>3, <1>4, <1>5, <1>6, <1>7, <1>8, Goes

-----------------------------------------------------------------------------
(* Steps that judge an item *)

(* Item i gets the verdict v, and replies s, and keeps the invariant, when *)
(* that is how an item may get it.  The thread, if any, becomes idle.      *)
LEMMA Ends ==
    ASSUME IInv, NEW i \in Items, i < head', head <= head', head' \in 1..(NItems + 1),
           NEW v \in Verdicts, outcome' = [outcome EXCEPT ![i] = v],
           NEW s \in Seq(Scores \cup {Bad}), said' = [said EXCEPT ![i] = s],
           outcome[i] = Pending,
           pc' \in [Threads -> PCs],
           \A w \in Threads : Working(w)' => Working(w) /\ pc'[w] = pc[w] /\ item[w] # i,
           Judged(i)', OneScore(i)', Len(s) <= MaxRetries + 1,
           lock' \in Threads \cup {NoThread},
           call_count' \in Nat, fail_count' \in Nat,
           UNCHANGED <<empty, item, attempt, register, client, caller>>
    PROVE  IInv'
<1>1. TypeOK'
  <2>1. outcome' \in [Items -> Verdicts \cup {Pending}]
    BY DEF IInv, TypeOK
  <2>2. said' \in [Items -> Seq(Scores \cup {Bad})]
    BY DEF IInv, TypeOK
  <2> QED
    BY <2>1, <2>2 DEF IInv, TypeOK, caller
<1>2. \A j \in Items : j # i => outcome'[j] = outcome[j] /\ said'[j] = said[j]
  BY DEF IInv, TypeOK
<1>3. outcome'[i] = v /\ said'[i] = s
  BY DEF IInv, TypeOK
<1>4. OwnItems'
  <2>1. \A w \in Threads : Working(w)' => item'[w] \in Items /\ item'[w] < head'
    <3> SUFFICES ASSUME NEW w \in Threads, Working(w)'
                 PROVE  item[w] \in Items /\ item[w] < head'
      OBVIOUS
    <3>1. item[w] \in Items /\ item[w] < head
      BY DEF IInv, OwnItems
    <3>2. item[w] \in Nat /\ head \in Nat /\ head' \in Nat
      BY <3>1 DEF IInv, TypeOK, Items
    <3> QED
      BY <3>1, <3>2
  <2>2. \A w, u \in Threads : Working(w)' /\ Working(u)' /\ w # u => item'[w] # item'[u]
    BY DEF IInv, OwnItems
  <2>3. ASSUME NEW j \in Items, j >= head'
        PROVE  outcome'[j] = Pending /\ said'[j] = <<>>
    <3>1. j \in Nat /\ i \in Nat /\ head \in Nat /\ head' \in Nat
      BY DEF IInv, TypeOK, Items
    <3>2. j # i /\ j >= head
      BY <2>3, <3>1
    <3> QED
      BY <3>2, <1>2 DEF IInv, OwnItems
  <2> QED
    BY <2>1, <2>2, <2>3 DEF OwnItems
<1>5. ASSUME NEW w \in Threads, Working(w)' PROVE AtWork(w)'
  <2>1. Working(w) /\ pc'[w] = pc[w] /\ item[w] # i
    BY <1>5
  <2>2. AtWork(w) /\ item[w] \in Items
    BY <2>1 DEF IInv, OwnItems
  <2>3. outcome'[item[w]] = outcome[item[w]] /\ said'[item[w]] = said[item[w]]
    BY <1>2, <2>1, <2>2
  <2> QED
    BY <2>1, <2>2, <2>3 DEF AtWork, AllBad, Made
<1>6. ASSUME NEW j \in Items, outcome'[j] # Pending PROVE Judged(j)'
  <2>1. CASE j = i
    BY <2>1
  <2>2. CASE j # i
    BY <1>2, <1>6, <2>2 DEF IInv, Judged, AllBad, OneScore
  <2> QED
    BY <2>1, <2>2
<1>7. ASSUME NEW j \in Items PROVE Len(said'[j]) <= MaxRetries + 1 /\ OneScore(j)'
  <2>1. CASE j = i
    BY <2>1, <1>3
  <2>2. CASE j # i
    BY <1>2, <2>2 DEF IInv, OneScore
  <2> QED
    BY <2>1, <2>2
<1>8. Taken'
  <2>1. ASSUME NEW j \in 1..consumed
        PROVE  outcome'[j] # Pending /\ results[j] = outcome'[j]
    <3>1. outcome[j] # Pending /\ results[j] = outcome[j]
      BY DEF IInv, Taken
    <3>2. j \in Items /\ j # i
      BY <3>1, ConstantTypes DEF IInv, TypeOK, Items
    <3> QED
      BY <1>2, <3>1, <3>2
  <2> QED
    BY <2>1 DEF IInv, Taken, caller
<1> QED
  BY <1>1, <1>4, <1>5, <1>6, <1>7, <1>8 DEF IInv

(* A thread at work becomes idle with its item's verdict. *)
LEMMA Finishes ==
    ASSUME IInv, NEW w \in Threads, Working(w), pc' = [pc EXCEPT ![w] = "idle"]
    PROVE  /\ item[w] \in Items /\ item[w] < head /\ outcome[item[w]] = Pending
           /\ item[w] \notin empty
           /\ AllBad(item[w]) /\ Len(said[item[w]]) = Made(w)
           /\ pc' \in [Threads -> PCs]
           /\ \A u \in Threads : Working(u)' =>
                  Working(u) /\ pc'[u] = pc[u] /\ item[u] # item[w]
<1>1. item[w] \in Items /\ item[w] < head /\ AtWork(w)
  BY DEF IInv, OwnItems
<1>2. pc' \in [Threads -> PCs]
  BY DEF IInv, TypeOK, PCs
<1>3. ASSUME NEW u \in Threads, Working(u)'
      PROVE  Working(u) /\ pc'[u] = pc[u] /\ item[u] # item[w]
  <2>1. u # w /\ pc'[u] = pc[u]
    BY <1>3 DEF Working, IInv, TypeOK
  <2>2. Working(u)
    BY <1>3, <2>1 DEF Working
  <2> QED
    BY <2>1, <2>2 DEF IInv, OwnItems
<1> QED
  BY <1>1, <1>2, <1>3 DEF AtWork

(* Taking an item keeps the invariant. *)
LEMMA TakeIInv == ASSUME IInv, NEW w \in Threads, Take(w) PROVE IInv'
<1>1. /\ head \in Items /\ head' = head + 1 /\ pc[w] = "idle"
      /\ UNCHANGED <<empty, register, lock, call_count, fail_count, client, said, caller>>
  BY DEF Take, counter
<1>2. head \in Nat /\ head' \in 1..(NItems + 1) /\ head < head' /\ head <= head'
  BY <1>1, ConstantTypes DEF Items
<1>3. outcome[head] = Pending /\ said[head] = <<>>
  BY <1>1, <1>2 DEF IInv, OwnItems
<1>4. \A v \in Threads : Working(v) => item[v] # head /\ item[v] \in Items /\ item[v] < head
  <2> SUFFICES ASSUME NEW v \in Threads, Working(v)
               PROVE  item[v] # head /\ item[v] \in Items /\ item[v] < head
    OBVIOUS
  <2>1. item[v] \in Items /\ item[v] < head
    BY DEF IInv, OwnItems
  <2> QED
    BY <2>1, <1>2 DEF Items
<1>5. CASE head \in empty
  <2>1. /\ outcome' = [outcome EXCEPT ![head] = 0]
        /\ UNCHANGED <<pc, item, attempt>>
    BY <1>5 DEF Take
  <2>2. PICK i \in Items : i = head
    BY <1>1
  <2>3. /\ said' = [said EXCEPT ![i] = <<>>]
        /\ outcome' = [outcome EXCEPT ![i] = 0]
        /\ outcome[i] = Pending
    BY <1>1, <1>3, <2>1, <2>2 DEF IInv, TypeOK
  <2>4. outcome'[i] = 0 /\ said'[i] = <<>> /\ i \in empty'
    BY <1>1, <1>5, <2>2, <2>3 DEF IInv, TypeOK
  <2>5. Judged(i)' /\ OneScore(i)'
    BY <2>4 DEF Judged, OneScore
  <2>6. pc' \in [Threads -> PCs]
    BY <2>1 DEF IInv, TypeOK
  <2>7. \A v \in Threads : Working(v)' => Working(v) /\ pc'[v] = pc[v] /\ item[v] # i
    BY <1>4, <2>1, <2>2 DEF Working
  <2>8. 0 \in Verdicts /\ <<>> \in Seq(Scores \cup {Bad}) /\ Len(<<>>) <= MaxRetries + 1
    BY Markers, ConstantTypes
  <2>9. /\ lock' \in Threads \cup {NoThread}
        /\ call_count' \in Nat /\ fail_count' \in Nat
    BY <1>1 DEF IInv, TypeOK
  <2> QED
    BY <1>1, <1>2, <2>1, <2>2, <2>3, <2>5, <2>6, <2>7, <2>8, <2>9, Ends
<1>6. CASE head \notin empty
  <2>1. /\ item' = [item EXCEPT ![w] = head]
        /\ attempt' = [attempt EXCEPT ![w] = 0]
        /\ pc' = [pc EXCEPT ![w] = "client"]
        /\ UNCHANGED outcome
    BY <1>6 DEF Take, Goto
  <2>2. TypeOK'
    <3>1. pc' \in [Threads -> PCs]
      BY <2>1 DEF IInv, TypeOK, PCs
    <3>2. item' \in [Threads -> 0..NItems]
      BY <1>1, <2>1 DEF IInv, TypeOK, Items
    <3>3. attempt' \in [Threads -> 0..MaxRetries]
      BY <2>1, ConstantTypes DEF IInv, TypeOK
    <3> QED
      BY <1>1, <1>2, <2>1, <3>1, <3>2, <3>3 DEF IInv, TypeOK, caller
  <2>3. item'[w] = head /\ attempt'[w] = 0 /\ pc'[w] = "client"
    BY <2>1 DEF IInv, TypeOK
  <2>4. \A v \in Threads : v # w =>
            item'[v] = item[v] /\ attempt'[v] = attempt[v] /\ pc'[v] = pc[v]
    BY <2>1 DEF IInv, TypeOK
  <2>5. \A v \in Threads : v # w => (Working(v)' <=> Working(v))
    BY <2>4 DEF Working
  <2>6. OwnItems'
    <3>1. \A v \in Threads : Working(v)' => item'[v] \in Items /\ item'[v] < head'
      <4> SUFFICES ASSUME NEW v \in Threads, Working(v)'
                   PROVE  item'[v] \in Items /\ item'[v] < head'
        OBVIOUS
      <4>1. CASE v = w
        BY <4>1, <2>3, <1>1, <1>2
      <4>2. CASE v # w
        BY <4>2, <2>4, <2>5, <1>1, <1>2, <1>4 DEF Items
      <4> QED
        BY <4>1, <4>2
    <3>2. \A v, u \in Threads : Working(v)' /\ Working(u)' /\ v # u => item'[v] # item'[u]
      BY <1>4, <2>3, <2>4, <2>5 DEF IInv, OwnItems
    <3>3. ASSUME NEW i \in Items, i >= head' PROVE outcome'[i] = Pending /\ said'[i] = <<>>
      <4>1. i >= head
        BY <3>3, <1>1, <1>2 DEF Items
      <4> QED
        BY <4>1, <1>1, <2>1 DEF IInv, OwnItems
    <3> QED
      BY <3>1, <3>2, <3>3 DEF OwnItems
  <2>7. ASSUME NEW v \in Threads, Working(v)' PROVE AtWork(v)'
    <3>1. CASE v = w
      BY <3>1, <1>1, <1>3, <1>6, <2>1, <2>3 DEF AtWork, AllBad, Made
    <3>2. CASE v # w
      <4>1. AtWork(v)
        BY <3>2, <2>5, <2>7 DEF IInv
      <4> QED
        BY <4>1, <3>2, <1>1, <2>1, <2>4 DEF AtWork, AllBad, Made
    <3> QED
      BY <3>1, <3>2
  <2>8. (\A i \in Items : outcome[i] # Pending => Judged(i))'
    BY <1>1, <2>1 DEF IInv, Judged, AllBad, OneScore
  <2>9. (\A i \in Items : Len(said[i]) <= MaxRetries + 1 /\ OneScore(i))'
    BY <1>1 DEF IInv, OneScore
  <2>10. Taken'
    BY <1>1, <2>1 DEF IInv, Taken, caller
  <2> QED
    BY <2>2, <2>6, <2>7, <2>8, <2>9, <2>10 DEF IInv
<1> QED
  BY <1>5, <1>6

(* Writing a counter, and returning None after a failure, keeps it. *)
LEMMA WriteCounterIInv == ASSUME IInv, NEW w \in Threads, WriteCounter(w) PROVE IInv'
<1>1. UNCHANGED <<empty, head, item, attempt, register, client, said, caller>>
  BY DEF WriteCounter
<1>2. lock' \in Threads \cup {NoThread} /\ register[w] \in Nat
  BY DEF WriteCounter, IInv, TypeOK
<1>3. CASE pc[w] = "add"
  <2>1. /\ pc' = [pc EXCEPT ![w] = "call"]
        /\ call_count' = register[w] + 1
        /\ UNCHANGED <<fail_count, outcome>>
    BY <1>3 DEF WriteCounter, Goto
  <2>2. Working(w) /\ Made(w)' = Made(w)
    BY <1>1, <1>3, <2>1 DEF Working, Made, IInv, TypeOK
  <2>3. attempt' = [attempt EXCEPT ![w] = attempt[w]] /\ attempt[w] \in 0..MaxRetries
    BY <1>1 DEF IInv, TypeOK
  <2>4. "call" \in PCs \ {"idle"}
    BY DEF PCs
  <2>5. /\ register' \in [Threads -> Nat] /\ client' \in Threads \cup {NoThread}
        /\ call_count' \in Nat /\ fail_count' \in Nat
    BY <1>1, <1>2, <2>1 DEF IInv, TypeOK
  <2> QED
    BY <1>1, <1>2, <2>1, <2>2, <2>3, <2>4, <2>5, Goes
<1>4. CASE pc[w] = "failAdd"
  <2>1. /\ pc' = [pc EXCEPT ![w] = "idle"]
        /\ outcome' = [outcome EXCEPT ![item[w]] = None]
        /\ fail_count' = register[w] + 1
        /\ UNCHANGED call_count
    BY <1>4 DEF WriteCounter, Finish, Goto
  <2>2. Working(w)
    BY <1>4 DEF Working
  <2>3. PICK i \in Items : i = item[w]
    BY <2>1, <2>2, Finishes
  <2>4. /\ i < head /\ outcome[i] = Pending /\ i \notin empty
        /\ AllBad(i) /\ Len(said[i]) = MaxRetries + 1
        /\ pc' \in [Threads -> PCs]
        /\ \A u \in Threads : Working(u)' => Working(u) /\ pc'[u] = pc[u] /\ item[u] # i
    BY <1>4, <2>1, <2>2, <2>3, Finishes DEF Made
  <2>5. /\ said' = [said EXCEPT ![i] = said[i]] /\ said[i] \in Seq(Scores \cup {Bad})
        /\ outcome' = [outcome EXCEPT ![i] = None] /\ outcome'[i] = None
    BY <1>1, <2>1, <2>3 DEF IInv, TypeOK
  <2>6. OneScore(i)' /\ Len(said[i]) <= MaxRetries + 1
    BY <1>1, <2>3 DEF IInv, OneScore
  <2>7. Judged(i)'
    BY <1>1, <2>4, <2>5 DEF Judged, AllBad
  <2>8. head' \in 1..(NItems + 1) /\ i < head' /\ head <= head'
    BY <1>1, <2>4 DEF IInv, TypeOK
  <2>9. call_count' \in Nat /\ fail_count' \in Nat
    BY <1>2, <2>1 DEF IInv, TypeOK
  <2> QED
    BY <1>1, <1>2, <2>3, <2>4, <2>5, <2>6, <2>7, <2>8, <2>9, Markers, Ends
<1> QED
  BY <1>3, <1>4 DEF WriteCounter

(* A reply keeps it: a score ends the item, anything else is tried again *)
(* until the attempts are used up.                                       *)
LEMMA ReplyIInv == ASSUME IInv, NEW w \in Threads, Reply(w) PROVE IInv'
<1>1. /\ pc[w] = "call"
      /\ UNCHANGED <<empty, head, item, attempt, register, counter, client, caller>>
      /\ UNCHANGED <<lock, call_count, fail_count>>
  BY DEF Reply, counter
<1>2. PICK i \in Items : i = item[w]
  BY <1>1 DEF IInv, OwnItems, Working
<1>3. PICK reply \in Scores \cup {Bad} :
        /\ said' = [said EXCEPT ![i] = Append(said[i], reply)]
        /\ IF IsScore(reply)
           THEN Finish(w, reply)
           ELSE /\ Goto(w, IF MayRetry(w) THEN "sleep" ELSE "fail")
                /\ UNCHANGED outcome
  BY <1>2 DEF Reply
<1>4. /\ Working(w) /\ AtWork(w) /\ AllBad(i) /\ Len(said[i]) = attempt[w]
      /\ i < head /\ outcome[i] = Pending /\ i \notin empty
      /\ attempt[w] \in 0..MaxRetries /\ said[i] \in Seq(Scores \cup {Bad})
  BY <1>1, <1>2 DEF IInv, TypeOK, OwnItems, Working, AtWork, Made
<1> DEFINE s == Append(said[i], reply)
<1>5. /\ s \in Seq(Scores \cup {Bad}) /\ Len(s) = attempt[w] + 1
      /\ \A a \in 1..attempt[w] : s[a] = Bad
      /\ s[attempt[w] + 1] = reply
  BY <1>4 DEF AllBad
<1>6. Len(s) <= MaxRetries + 1 /\ Len(s) \in 1..(MaxRetries + 1)
  BY <1>4, <1>5, ConstantTypes
<1>7. said'[i] = s /\ said' = [said EXCEPT ![i] = s]
  BY <1>3 DEF IInv, TypeOK
<1> HIDE DEF s
<1>8. OneScore(i)'
  BY <1>4, <1>5, <1>7 DEF OneScore
<1>9. CASE reply \in Scores
  <2>1. pc' = [pc EXCEPT ![w] = "idle"] /\ outcome' = [outcome EXCEPT ![i] = reply]
    BY <1>2, <1>3, <1>9 DEF IsScore, Finish, Goto
  <2>2. /\ pc' \in [Threads -> PCs]
        /\ \A u \in Threads : Working(u)' => Working(u) /\ pc'[u] = pc[u] /\ item[u] # i
    BY <1>2, <1>4, <2>1, Finishes
  <2>3. outcome'[i] = reply
    BY <2>1 DEF IInv, TypeOK
  <2>4. Judged(i)'
    BY <1>1, <1>4, <1>5, <1>6, <1>7, <1>8, <1>9, <2>3 DEF Judged
  <2>5. head' \in 1..(NItems + 1) /\ i < head' /\ head <= head'
    BY <1>1, <1>4 DEF IInv, TypeOK
  <2>6. /\ lock' \in Threads \cup {NoThread}
        /\ call_count' \in Nat /\ fail_count' \in Nat
    BY <1>1 DEF IInv, TypeOK
  <2>7. reply \in Verdicts
    BY <1>9, Markers
  <2> QED
    BY <1>1, <1>4, <1>5, <1>6, <1>7, <1>8, <2>1, <2>2, <2>4, <2>5, <2>6, <2>7, Ends
<1>10. CASE reply \notin Scores
  <2>1. /\ reply = Bad
        /\ pc' = [pc EXCEPT ![w] = IF attempt[w] < MaxRetries THEN "sleep" ELSE "fail"]
        /\ UNCHANGED outcome
    BY <1>3, <1>10 DEF IsScore, Goto, MayRetry
  <2>2. TypeOK'
    <3>1. pc' \in [Threads -> PCs]
      BY <2>1 DEF IInv, TypeOK, PCs
    <3>2. said' \in [Items -> Seq(Scores \cup {Bad})]
      BY <1>5, <1>7 DEF IInv, TypeOK
    <3> QED
      BY <1>1, <2>1, <3>1, <3>2 DEF IInv, TypeOK, caller
  <2>3. \A j \in Items : j # i => said'[j] = said[j]
    BY <1>7 DEF IInv, TypeOK
  <2>4. \A v \in Threads : v # w => pc'[v] = pc[v]
    BY <2>1 DEF IInv, TypeOK
  <2>5. /\ pc'[w] \in {"sleep", "fail"}
        /\ pc'[w] = "sleep" <=> attempt[w] < MaxRetries
    BY <2>1 DEF IInv, TypeOK
  <2>6. \A v \in Threads : Working(v)' <=> Working(v)
    BY <1>4, <2>4, <2>5 DEF Working
  <2>7. OwnItems'
    <3>1. ASSUME NEW j \in Items, j >= head PROVE outcome'[j] = Pending /\ said'[j] = <<>>
      <4>1. j # i
        BY <1>4, <3>1 DEF IInv, TypeOK, Items
      <4> QED
        BY <4>1, <2>1, <2>3, <3>1 DEF IInv, OwnItems
    <3> QED
      BY <1>1, <2>6, <3>1 DEF IInv, OwnItems
  <2>8. ASSUME NEW v \in Threads, Working(v)' PROVE AtWork(v)'
    <3>1. CASE v = w
      <4>1. AllBad(i)'
        BY <1>4, <1>5, <1>7, <2>1 DEF AllBad
      <4>2. Len(said'[i]) = Made(w)'
        BY <1>1, <1>4, <1>5, <1>7, <2>5, ConstantTypes DEF Made
      <4> QED
        BY <1>1, <1>2, <1>4, <2>1, <2>5, <3>1, <4>1, <4>2 DEF AtWork, AllBad
    <3>2. CASE v # w
      <4>1. AtWork(v) /\ item[v] \in Items /\ item[v] # i
        BY <1>2, <1>4, <2>6, <2>8, <3>2 DEF IInv, OwnItems
      <4> QED
        BY <4>1, <3>2, <1>1, <2>1, <2>3, <2>4 DEF AtWork, AllBad, Made
    <3> QED
      BY <3>1, <3>2
  <2>9. ASSUME NEW j \in Items, outcome'[j] # Pending PROVE Judged(j)'
    <3>1. j # i
      BY <1>4, <2>1, <2>9
    <3> QED
      BY <1>1, <2>1, <2>3, <2>9, <3>1 DEF IInv, Judged, AllBad, OneScore
  <2>10. ASSUME NEW j \in Items PROVE Len(said'[j]) <= MaxRetries + 1 /\ OneScore(j)'
    <3>1. CASE j = i
      BY <3>1, <1>6, <1>7, <1>8
    <3>2. CASE j # i
      BY <3>2, <2>3 DEF IInv, OneScore
    <3> QED
      BY <3>1, <3>2
  <2>11. Taken'
    BY <1>1, <2>1 DEF IInv, Taken, caller
  <2> QED
    BY <2>2, <2>7, <2>8, <2>9, <2>10, <2>11 DEF IInv
<1> QED
  BY <1>9, <1>10

-----------------------------------------------------------------------------
(* The caller's steps *)

(* Collecting a result keeps the invariant. *)
LEMMA ConsumeIInv == ASSUME IInv, Consume PROVE IInv'
<1>1. /\ consumed < NItems /\ consumed' = consumed + 1
      /\ outcome[consumed + 1] # Pending
      /\ results' = [results EXCEPT ![consumed + 1] = outcome[consumed + 1]]
      /\ UNCHANGED <<empty, head, pc, item, attempt, register, lock, call_count,
                      fail_count, client, said, outcome, returned>>
  BY DEF Consume, thread, counter
<1>2. consumed \in Nat /\ consumed + 1 \in Items /\ consumed' \in 0..NItems
  BY <1>1, ConstantTypes DEF IInv, TypeOK, Items
<1>3. outcome[consumed + 1] \in Verdicts
  BY <1>1, <1>2 DEF IInv, TypeOK
<1>4. TypeOK'
  <2>1. results' \in [Items -> Verdicts]
    BY <1>1, <1>2, <1>3 DEF IInv, TypeOK
  <2> QED
    BY <1>1, <1>2, <2>1 DEF IInv, TypeOK
<1>5. Taken'
  <2>1. ASSUME NEW i \in 1..consumed' PROVE outcome'[i] # Pending /\ results'[i] = outcome'[i]
    <3>1. CASE i = consumed + 1
      BY <3>1, <1>1, <1>2 DEF IInv, TypeOK
    <3>2. CASE i # consumed + 1
      <4>1. i \in 1..consumed
        BY <3>2, <1>1, <1>2
      <4> QED
        BY <4>1, <3>2, <1>1 DEF IInv, TypeOK, Taken
    <3> QED
      BY <3>1, <3>2
  <2>2. ~returned
    BY <1>1, ConstantTypes DEF IInv, TypeOK, Taken
  <2> QED
    BY <1>1, <2>1, <2>2 DEF Taken
<1>6. OwnItems'
  BY <1>1 DEF IInv, OwnItems, Working
<1>7. (\A w \in Threads : Working(w) => AtWork(w))'
  BY <1>1 DEF IInv, Working, AtWork, AllBad, Made
<1>8. (\A i \in Items : outcome[i] # Pending => Judged(i))'
  BY <1>1 DEF IInv, Judged, AllBad, OneScore
<1>9. (\A i \in Items : Len(said[i]) <= MaxRetries + 1 /\ OneScore(i))'
  BY <1>1 DEF IInv, OneScore
<1> QED
  BY <1>4, <1>5, <1>6, <1>7, <1>8, <1>9 DEF IInv

(* Returning, and doing nothing, keep the invariant. *)
LEMMA ReturnIInv == ASSUME IInv, Return \/ UNCHANGED vars PROVE IInv'
<1>1. /\ UNCHANGED <<empty, head, pc, item, attempt, register, lock, call_count,
                      fail_count, client, said, outcome, consumed, results>>
      /\ returned' \in BOOLEAN
      /\ returned' => returned \/ consumed = NItems
  <2>1. CASE Return
    BY <2>1 DEF Return, thread, counter
  <2>2. CASE UNCHANGED vars
    BY <2>2 DEF vars, IInv, TypeOK
  <2> QED
    BY <2>1, <2>2
<1>2. TypeOK'
  BY <1>1 DEF IInv, TypeOK
<1>3. OwnItems'
  BY <1>1 DEF IInv, OwnItems, Working
<1>4. (\A w \in Threads : Working(w) => AtWork(w))'
  BY <1>1 DEF IInv, Working, AtWork, AllBad, Made
<1>5. (\A i \in Items : outcome[i] # Pending => Judged(i))'
  BY <1>1 DEF IInv, Judged, AllBad, OneScore
<1>6. (\A i \in Items : Len(said[i]) <= MaxRetries + 1 /\ OneScore(i))'
  BY <1>1 DEF IInv, OneScore
<1>7. Taken'
  BY <1>1 DEF IInv, Taken
<1> QED
  BY <1>2, <1>3, <1>4, <1>5, <1>6, <1>7 DEF IInv

-----------------------------------------------------------------------------
(* The counters *)

(* The replies so far, the requests under way, the items given up. *)
Replies == {r \in Items \X (1..(MaxRetries + 1)) : r[2] <= Len(said[r[1]])}
Calling == {w \in Threads : pc[w] = "call"}
Failed  == {i \in Items : outcome[i] = None}

(* The counters are exact, and stay so between a read and its write. *)
Counted ==
    /\ \A w \in Threads : pc[w] \in {"add", "failAdd"} <=> lock = w
    /\ \A w \in Threads : pc[w] = "add" => register[w] = call_count
    /\ \A w \in Threads : pc[w] = "failAdd" => register[w] = fail_count
    /\ call_count = Cardinality(Replies) + Cardinality(Calling)
    /\ fail_count = Cardinality(Failed)
    /\ returned => \A w \in Threads : pc[w] = "idle"

(* What is counted is finite. *)
LEMMA Finite ==
    /\ IsFiniteSet(Replies) /\ Cardinality(Replies) \in Nat
    /\ IsFiniteSet(Calling) /\ Cardinality(Calling) \in Nat
    /\ IsFiniteSet(Failed) /\ Cardinality(Failed) \in Nat
<1>1. IsFiniteSet(Items) /\ IsFiniteSet(Threads) /\ IsFiniteSet(1..(MaxRetries + 1))
  <2>1. 1 \in Int /\ NItems \in Int /\ Workers \in Int /\ MaxRetries + 1 \in Int
    BY ConstantTypes
  <2> QED
    BY <2>1, FS_Interval DEF Items, Threads
<1>2. IsFiniteSet(Items \X (1..(MaxRetries + 1)))
  BY <1>1, FS_Product
<1>3. /\ Replies \in SUBSET (Items \X (1..(MaxRetries + 1)))
      /\ Calling \in SUBSET Threads /\ Failed \in SUBSET Items
  BY DEF Replies, Calling, Failed
<1> QED
  BY <1>1, <1>2, <1>3, FS_Subset, FS_CardinalityType

(* At the start nothing is counted. *)
LEMMA InitCounted == Init => Counted
<1> SUFFICES ASSUME Init PROVE Counted
  OBVIOUS
<1>1. /\ pc = [w \in Threads |-> "idle"] /\ lock = NoThread
      /\ call_count = 0 /\ fail_count = 0 /\ returned = FALSE
      /\ said = [i \in Items |-> <<>>] /\ outcome = [i \in Items |-> Pending]
  BY DEF Init
<1>2. Replies = {} /\ Calling = {} /\ Failed = {}
  <2>1. ASSUME NEW r \in Items \X (1..(MaxRetries + 1)), r[2] <= Len(said[r[1]]) PROVE FALSE
    <3>1. Len(said[r[1]]) = 0 /\ r[2] \in Nat /\ r[2] >= 1
      BY <1>1, ConstantTypes
    <3> QED
      BY <2>1, <3>1
  <2>2. None # Pending
    BY DEF None, Pending
  <2> QED
    BY <1>1, <2>1, <2>2 DEF Replies, Calling, Failed
<1> QED
  BY <1>1, <1>2, ConstantTypes, FS_EmptySet DEF Counted

(* A step of a thread that asks nothing, ends no item and leaves the       *)
(* counters alone.                                                         *)
LEMMA QuietCounted ==
    ASSUME IInv, Counted, NEW w \in Threads, NEW l \in PCs,
           pc' = [pc EXCEPT ![w] = l],
           pc[w] \notin {"add", "failAdd", "call"}, l \notin {"add", "failAdd", "call"},
           UNCHANGED <<register, counter, said, returned>>,
           ~returned, Failed' = Failed
    PROVE  Counted'
<1>1. /\ pc'[w] = l
      /\ \A v \in Threads : v # w => pc'[v] = pc[v]
  BY DEF IInv, TypeOK
<1>2. Replies' = Replies
  BY DEF Replies
<1>3. Calling' = Calling
  BY <1>1 DEF Calling
<1> QED
  BY <1>1, <1>2, <1>3 DEF Counted, counter

(* Taking an item. *)
LEMMA TakeCounted == ASSUME IInv, Counted, NEW w \in Threads, Take(w) PROVE Counted'
<1>1. /\ pc[w] = "idle" /\ head \in Items
      /\ UNCHANGED <<register, counter, said, returned>>
      /\ outcome[head] = Pending
  BY DEF Take, caller, IInv, OwnItems, TypeOK, Items
<1>2. ~returned
  <2> SUFFICES ASSUME returned PROVE FALSE
    OBVIOUS
  <2>1. head \in 1..consumed
    BY <1>1 DEF IInv, Taken, Items
  <2> QED
    BY <1>1, <2>1 DEF IInv, Taken
<1>3. Failed' = Failed
  <2>1. Pending # None /\ 0 # None
    BY DEF Pending, None
  <2>2. outcome' = outcome \/ outcome' = [outcome EXCEPT ![head] = 0]
    BY DEF Take
  <2> QED
    BY <1>1, <2>1, <2>2 DEF Failed, IInv, TypeOK
<1>4. PICK l \in {"idle", "client"} : pc' = [pc EXCEPT ![w] = l]
  <2>1. CASE head \in empty
    <3>1. pc' = pc
      BY <2>1 DEF Take
    <3>2. pc' = [pc EXCEPT ![w] = "idle"]
      BY <1>1, <3>1 DEF IInv, TypeOK
    <3> QED
      BY <3>2
  <2>2. CASE head \notin empty
    <3>1. pc' = [pc EXCEPT ![w] = "client"]
      BY <2>2 DEF Take, Goto
    <3> QED
      BY <3>1
  <2> QED
    BY <2>1, <2>2
<1>5. l \in PCs
  BY DEF PCs
<1> QED
  BY <1>1, <1>2, <1>3, <1>4, <1>5, QuietCounted

(* A thread that is not idle works for a score_batch that has not returned. *)
LEMMA NotReturned ==
    ASSUME Counted, NEW w \in Threads, pc[w] # "idle" PROVE ~returned
BY DEF Counted

(* Making the client, and waiting before a retry. *)
LEMMA OtherCounted ==
    ASSUME IInv, Counted, NEW w \in Threads, GetClient(w) \/ Sleep(w) PROVE Counted'
<1>1. PICK l \in {"create", "count"} :
         /\ pc' = [pc EXCEPT ![w] = l]
         /\ pc[w] \in {"client", "create", "sleep"}
  <2>1. CASE GetClient(w)
    BY <2>1 DEF GetClient, Goto
  <2>2. CASE Sleep(w)
    BY <2>2 DEF Sleep, Goto
  <2> QED
    BY <2>1, <2>2
<1>2. UNCHANGED <<register, counter, said, returned, outcome>>
  BY DEF GetClient, Sleep, caller
<1>3. Failed' = Failed
  BY <1>2 DEF Failed
<1>4. l \in PCs /\ ~returned
  BY <1>1, NotReturned DEF PCs
<1> QED
  BY <1>1, <1>2, <1>3, <1>4, QuietCounted

(* Reading a counter under the lock. *)
LEMMA ReadCounted == ASSUME IInv, Counted, NEW w \in Threads, ReadCounter(w) PROVE Counted'
<1>1. PICK l \in {"add", "failAdd"} :
         /\ pc' = [pc EXCEPT ![w] = l]
         /\ l = "add" => pc[w] = "count" /\ register' = [register EXCEPT ![w] = call_count]
         /\ l = "failAdd" => pc[w] = "fail" /\ register' = [register EXCEPT ![w] = fail_count]
  BY DEF ReadCounter, Goto
<1>2. /\ lock = NoThread /\ lock' = w
      /\ UNCHANGED <<call_count, fail_count, said, outcome, returned>>
  BY DEF ReadCounter, caller
<1>3. /\ pc'[w] = l /\ pc[w] \in {"count", "fail"}
      /\ \A v \in Threads : v # w => pc'[v] = pc[v] /\ register'[v] = register[v]
      /\ l = "add" => register'[w] = call_count
      /\ l = "failAdd" => register'[w] = fail_count
  BY <1>1 DEF IInv, TypeOK
<1>4. \A v \in Threads : pc[v] \notin {"add", "failAdd"}
  BY <1>2, ConstantTypes DEF Counted
<1>5. Replies' = Replies /\ Failed' = Failed
  BY <1>2 DEF Replies, Failed
<1>6. Calling' = Calling
  BY <1>3 DEF Calling
<1>7. ~returned
  BY <1>3, NotReturned
<1> QED
  BY <1>2, <1>3, <1>4, <1>5, <1>6, <1>7 DEF Counted

(* Writing it: a request begins, or an item is given up. *)
LEMMA WriteCounted == ASSUME IInv, Counted, NEW w \in Threads, WriteCounter(w) PROVE Counted'
<1>1. /\ pc[w] \in {"add", "failAdd"} /\ lock' = NoThread
      /\ UNCHANGED <<register, said, returned>>
  BY DEF WriteCounter, caller
<1>2. /\ lock = w /\ \A v \in Threads : v # w => pc[v] \notin {"add", "failAdd"}
      /\ ~returned
  BY <1>1, NotReturned DEF Counted
<1>3. Replies' = Replies
  BY <1>1 DEF Replies
<1>4. CASE pc[w] = "add"
  <2>1. /\ pc' = [pc EXCEPT ![w] = "call"] /\ call_count' = register[w] + 1
        /\ UNCHANGED <<fail_count, outcome>>
    BY <1>4 DEF WriteCounter, Goto
  <2>2. pc'[w] = "call" /\ \A v \in Threads : v # w => pc'[v] = pc[v]
    BY <2>1 DEF IInv, TypeOK
  <2>3. Calling' = Calling \cup {w} /\ w \notin Calling
    BY <1>4, <2>2 DEF Calling
  <2>4. Cardinality(Calling') = Cardinality(Calling) + 1
    BY <2>3, Finite, FS_AddElement
  <2>5. Failed' = Failed
    BY <2>1 DEF Failed
  <2>6. call_count' = Cardinality(Replies') + Cardinality(Calling')
    BY <1>3, <1>4, <2>1, <2>4, Finite DEF Counted
  <2> QED
    BY <1>1, <1>2, <2>1, <2>2, <2>5, <2>6, ConstantTypes DEF Counted
<1>5. CASE pc[w] = "failAdd"
  <2>1. /\ pc' = [pc EXCEPT ![w] = "idle"] /\ fail_count' = register[w] + 1
        /\ outcome' = [outcome EXCEPT ![item[w]] = None]
        /\ UNCHANGED call_count
    BY <1>5 DEF WriteCounter, Finish, Goto
  <2>2. pc'[w] = "idle" /\ \A v \in Threads : v # w => pc'[v] = pc[v]
    BY <2>1 DEF IInv, TypeOK
  <2>3. Calling' = Calling
    BY <1>5, <2>2 DEF Calling
  <2>4. item[w] \in Items /\ outcome[item[w]] = Pending
    BY <1>5 DEF IInv, OwnItems, AtWork, Working
  <2>5. Failed' = Failed \cup {item[w]} /\ item[w] \notin Failed
    <3>1. Pending # None
      BY DEF Pending, None
    <3> QED
      BY <2>1, <2>4, <3>1 DEF Failed, IInv, TypeOK
  <2>6. Cardinality(Failed') = Cardinality(Failed) + 1
    BY <2>5, Finite, FS_AddElement
  <2>7. fail_count' = Cardinality(Failed')
    BY <1>5, <2>1, <2>6 DEF Counted
  <2> QED
    BY <1>1, <1>2, <1>3, <2>1, <2>2, <2>3, <2>7, ConstantTypes DEF Counted
<1> QED
  BY <1>1, <1>4, <1>5

(* The reply to a request takes its place. *)
LEMMA ReplyCounted == ASSUME IInv, Counted, NEW w \in Threads, Reply(w) PROVE Counted'
<1> DEFINE i == item[w]
           n == Len(said[i])
<1>1. /\ pc[w] = "call" /\ UNCHANGED <<register, counter, returned>>
  BY DEF Reply, caller
<1>2. PICK reply \in Scores \cup {Bad}, l \in {"idle", "sleep", "fail"} :
        /\ said' = [said EXCEPT ![i] = Append(said[i], reply)]
        /\ pc' = [pc EXCEPT ![w] = l]
        /\ \/ reply \in Scores /\ outcome' = [outcome EXCEPT ![i] = reply]
           \/ UNCHANGED outcome
  BY DEF Reply, Finish, Goto, IsScore
<1>3. /\ i \in Items /\ outcome[i] = Pending /\ said[i] \in Seq(Scores \cup {Bad})
      /\ n = attempt[w] /\ attempt[w] \in 0..MaxRetries
  BY <1>1 DEF IInv, OwnItems, AtWork, Working, TypeOK, Made
<1>4. n \in 0..MaxRetries
  BY <1>3
<1>5. /\ pc'[w] = l
      /\ \A v \in Threads : v # w => pc'[v] = pc[v]
      /\ Len(said'[i]) = n + 1
      /\ \A j \in Items : j # i => said'[j] = said[j]
  BY <1>2, <1>3 DEF IInv, TypeOK
<1>6. Calling' = Calling \ {w} /\ w \in Calling
  BY <1>1, <1>5 DEF Calling
<1>7. Cardinality(Calling') = Cardinality(Calling) - 1
  BY <1>6, Finite, FS_RemoveElement
<1>8. Replies' = Replies \cup {<<i, n + 1>>} /\ <<i, n + 1>> \notin Replies
  <2>1. <<i, n + 1>> \in Items \X (1..(MaxRetries + 1))
    BY <1>3, <1>4, ConstantTypes
  <2>2. ASSUME NEW j \in Items, NEW a \in 1..(MaxRetries + 1)
        PROVE  a <= Len(said'[j]) <=> a <= Len(said[j]) \/ <<j, a>> = <<i, n + 1>>
    <3>1. CASE j = i
      BY <1>4, <1>5, <3>1, ConstantTypes
    <3>2. CASE j # i
      BY <1>5, <3>2
    <3> QED
      BY <3>1, <3>2
  <2> HIDE DEF n, i
  <2>3. Replies' = {r \in Items \X (1..(MaxRetries + 1)) : r[2] <= Len(said'[r[1]])}
    BY DEF Replies
  <2>4. Replies' = Replies \cup {<<i, n + 1>>}
    BY <2>1, <2>2, <2>3 DEF Replies
  <2>5. <<i, n + 1>> \notin Replies
    <3> SUFFICES ASSUME <<i, n + 1>> \in Replies PROVE FALSE
      OBVIOUS
    <3>1. n + 1 <= Len(said[i])
      BY DEF Replies
    <3> QED
      BY <1>4, <3>1, ConstantTypes DEF n
  <2> QED
    BY <2>4, <2>5
<1>9. Cardinality(Replies') = Cardinality(Replies) + 1
  BY <1>8, Finite, FS_AddElement
<1>10. Failed' = Failed
  <2>1. Pending # None /\ None \notin Scores
    BY Markers DEF Pending, None
  <2> QED
    BY <1>2, <1>3, <2>1 DEF Failed, IInv, TypeOK
<1>11. call_count' = Cardinality(Replies') + Cardinality(Calling')
  BY <1>1, <1>7, <1>9, Finite DEF Counted, counter
<1>12. ~returned
  BY <1>1, NotReturned
<1> QED
  BY <1>1, <1>5, <1>10, <1>11, <1>12 DEF Counted, counter

(* Collecting, returning and doing nothing. *)
LEMMA CallerCounted ==
    ASSUME IInv, Counted, Consume \/ Return \/ UNCHANGED vars PROVE Counted'
<1>1. UNCHANGED <<thread, counter, said, outcome>>
  BY DEF Consume, Return, vars, thread, counter
<1>2. Replies' = Replies /\ Calling' = Calling /\ Failed' = Failed
  BY <1>1 DEF Replies, Calling, Failed, thread
<1>3. returned' => \A w \in Threads : pc[w] = "idle"
  <2>1. CASE Return
    BY <2>1 DEF Return
  <2>2. CASE Consume
    BY <2>2 DEF Consume, Counted
  <2>3. CASE UNCHANGED vars
    BY <2>3 DEF vars, Counted
  <2> QED
    BY <2>1, <2>2, <2>3
<1> QED
  BY <1>1, <1>2, <1>3 DEF Counted, thread, counter

-----------------------------------------------------------------------------
(* Theorems *)

(* The invariant is inductive. *)
THEOREM IInvHolds == Spec => []IInv
<1>1. IInv /\ [Next]_vars => IInv'
  <2> SUFFICES ASSUME IInv, [Next]_vars PROVE IInv'
    OBVIOUS
  <2>1. ASSUME NEW w \in Threads, ThreadStep(w) PROVE IInv'
    BY <2>1, TakeIInv, GetClientIInv, ReadCounterIInv, WriteCounterIInv, ReplyIInv, SleepIInv
       DEF ThreadStep
  <2> QED
    BY <2>1, ConsumeIInv, ReturnIInv DEF Next
<1> QED
  BY <1>1, InitIInv, PTL DEF Spec

(* Every value score_batch keeps has its type. *)
THEOREM TypeCorrect == Spec => []TypeOK
<1>1. IInv => TypeOK
  BY DEF IInv
<1> QED
  BY <1>1, IInvHolds, PTL

(* No item is asked about again once it is graded, nor more often than     *)
(* max_retries + 1 times.                                                  *)
THEOREM NeverWastes == Spec => []NoWastedRequest
<1>1. IInv => NoWastedRequest
  BY DEF IInv, NoWastedRequest, OneScore
<1> QED
  BY <1>1, IInvHolds, PTL

(* Every result the caller takes is the grade of its own item. *)
THEOREM ResultsAreGrades == Spec => []ResultsBelongToItems
<1>1. ASSUME IInv, NEW i \in 1..consumed
      PROVE  IF i \in empty THEN results[i] = 0 /\ said[i] = <<>>
             ELSE IF Graded(i)
             THEN results[i] = said[i][CHOOSE a \in 1..Len(said[i]) :
                                  /\ said[i][a] \in Scores
                                  /\ \A b \in 1..(a - 1) : said[i][b] \notin Scores]
             ELSE results[i] = None /\ Len(said[i]) = MaxRetries + 1
  <2>1. i \in Items /\ results[i] = outcome[i] /\ outcome[i] # Pending
    BY <1>1, ConstantTypes DEF IInv, TypeOK, Taken, Items
  <2>2. Judged(i) /\ said[i] \in Seq(Scores \cup {Bad})
    BY <1>1, <2>1 DEF IInv, TypeOK
  <2>3. CASE i \in empty
    BY <2>1, <2>2, <2>3 DEF Judged
  <2>4. CASE i \notin empty /\ outcome[i] \in Scores
    <3> DEFINE last == Len(said[i])
               First(a) == /\ said[i][a] \in Scores
                           /\ \A b \in 1..(a - 1) : said[i][b] \notin Scores
    <3>1. /\ last \in Nat /\ last \in 1..last /\ said[i][last] = outcome[i]
          /\ \A b \in 1..(last - 1) : said[i][b] = Bad
      BY <2>2, <2>4, Markers, ConstantTypes DEF Judged, OneScore
    <3>2. First(last)
      BY <2>4, <3>1, Markers
    <3>3. \A a \in 1..last : First(a) => a = last
      <4> SUFFICES ASSUME NEW a \in 1..last, First(a), a # last PROVE FALSE
        OBVIOUS
      <4>1. a \in 1..(last - 1)
        BY <3>1
      <4> QED
        BY <4>1, <3>1, Markers
    <3>4. (CHOOSE a \in 1..last : First(a)) = last
      <4> HIDE DEF First, last
      <4>1. \E a \in 1..last : First(a)
        BY <3>1, <3>2
      <4> QED
        BY <4>1, <3>3
    <3>5. Graded(i)
      BY <2>4, <3>1 DEF Graded
    <3> QED
      BY <2>1, <2>4, <3>1, <3>4, <3>5
  <2>5. CASE i \notin empty /\ outcome[i] \notin Scores
    <3>1. outcome[i] = None /\ Len(said[i]) = MaxRetries + 1 /\ AllBad(i)
      BY <2>2, <2>5 DEF Judged
    <3>2. ~Graded(i)
      BY <3>1, Markers DEF AllBad, Graded
    <3> QED
      BY <2>1, <2>5, <3>1, <3>2
  <2> QED
    BY <2>3, <2>4, <2>5
<1>2. IInv => ResultsBelongToItems
  BY <1>1 DEF ResultsBelongToItems
<1> QED
  BY <1>2, IInvHolds, PTL

(* The counters stay exact. *)
THEOREM CountedHolds == Spec => []Counted
<1>1. IInv /\ Counted /\ [Next]_vars => Counted'
  <2> SUFFICES ASSUME IInv, Counted, [Next]_vars PROVE Counted'
    OBVIOUS
  <2>1. ASSUME NEW w \in Threads, ThreadStep(w) PROVE Counted'
    BY <2>1, TakeCounted, OtherCounted, ReadCounted, WriteCounted, ReplyCounted DEF ThreadStep
  <2> QED
    BY <2>1, CallerCounted DEF Next
<1> QED
  BY <1>1, InitCounted, IInvHolds, PTL DEF Spec

(* When score_batch returns, no request and no failure of a concurrent     *)
(* thread is missing from the counters or counted twice.                   *)
THEOREM CountersExact == Spec => []CountersAreExact
<1>1. ASSUME IInv, Counted PROVE CountersAreExact
  <2> SUFFICES ASSUME returned
               PROVE  /\ fail_count = Cardinality({i \in Items : results[i] = None})
                      /\ call_count = Cardinality(Replies)
    BY DEF CountersAreExact, Replies
  <2>1. \A i \in Items : results[i] = outcome[i]
    BY <1>1 DEF IInv, Taken, Items
  <2>2. {i \in Items : results[i] = None} = Failed
    BY <2>1 DEF Failed
  <2>3. Calling = {}
    BY <1>1 DEF Counted, Calling
  <2>4. fail_count = Cardinality({i \in Items : results[i] = None})
    BY <1>1, <2>2, Zenon DEF Counted
  <2>5. call_count = Cardinality(Replies) + Cardinality({})
    BY <1>1, <2>3, Zenon DEF Counted
  <2>6. call_count = Cardinality(Replies)
    BY <2>5, Finite, FS_EmptySet
  <2> QED
    BY <2>4, <2>6
<1>2. IInv /\ Counted => CountersAreExact
  BY <1>1
<1> QED
  BY <1>2, IInvHolds, CountedHolds, PTL

-----------------------------------------------------------------------------
(* score_batch implements ScoreBatch *)

(* The initial states are initial states of ScoreBatch. *)
LEMMA InitRefines == Init => Abstract!Init
  BY DEF Init, Abstract!Init, Abstract!Items, Items, Abstract!Pending, Pending,
         Abstract!None, None

(* The outcome of one item, and nothing the caller sees, changes. *)
LEMMA JudgeRefines ==
    ASSUME NEW i \in Items, outcome[i] = Pending,
           NEW v \in Verdicts, outcome' = [outcome EXCEPT ![i] = v],
           UNCHANGED <<results, returned>>
    PROVE  Abstract!Next
<1>1. Abstract!Judge(i)
  BY DEF Abstract!Judge, Abstract!Pending, Pending, Abstract!Verdicts, Verdicts,
         Abstract!Scores, Scores, Abstract!None, None, Abstract!Items, Items
<1>2. i \in Abstract!Items
  BY DEF Abstract!Items, Items
<1> QED
  BY <1>1, <1>2 DEF Abstract!Next

(* Every step of the pool is a step of ScoreBatch or none. *)
LEMMA NextRefines == ASSUME IInv, [Next]_vars PROVE [Abstract!Next]_(Abstract!absVars)
<1>1. ASSUME UNCHANGED <<outcome, results, returned>>
      PROVE  UNCHANGED Abstract!absVars
  BY <1>1 DEF Abstract!absVars, Items, None, Abstract!Items
<1>2. ASSUME NEW w \in Threads, ThreadStep(w)
      PROVE  [Abstract!Next]_(Abstract!absVars)
  <2>1. CASE Take(w)
    <3>1. CASE head \in empty
      <4>1. PICK i \in Items : i = head
        BY <2>1 DEF Take
      <4>2. outcome[i] = Pending
        BY <4>1 DEF IInv, TypeOK, OwnItems, Items
      <4>3. outcome' = [outcome EXCEPT ![i] = 0] /\ UNCHANGED <<results, returned>>
        BY <2>1, <3>1, <4>1 DEF Take, caller
      <4>4. 0 \in Verdicts
        BY Markers
      <4> QED
        BY <4>2, <4>3, <4>4, JudgeRefines
    <3>2. CASE head \notin empty
      BY <1>1, <2>1, <3>2 DEF Take, caller
    <3> QED
      BY <3>1, <3>2
  <2>2. CASE GetClient(w) \/ ReadCounter(w) \/ Sleep(w)
    BY <1>1, <2>2 DEF GetClient, ReadCounter, Sleep, caller
  <2>3. ASSUME NEW v \in Verdicts, pc[w] # "idle",
               outcome' = [outcome EXCEPT ![item[w]] = v], UNCHANGED caller
        PROVE  Abstract!Next
    <3>1. PICK i \in Items : i = item[w]
      BY <2>3 DEF IInv, OwnItems, Working
    <3>2. outcome[i] = Pending
      BY <2>3, <3>1 DEF IInv, AtWork, Working
    <3> QED
      BY <2>3, <3>1, <3>2, JudgeRefines DEF caller
  <2>4. CASE WriteCounter(w)
    <3>1. CASE pc[w] = "add"
      BY <1>1, <2>4, <3>1 DEF WriteCounter, caller
    <3>2. CASE pc[w] = "failAdd"
      <4>1. outcome' = [outcome EXCEPT ![item[w]] = None] /\ UNCHANGED caller
        BY <2>4, <3>2 DEF WriteCounter, Finish
      <4> QED
        BY <2>3, <3>2, <4>1, Markers
    <3> QED
      BY <2>4, <3>1, <3>2 DEF WriteCounter
  <2>5. CASE Reply(w)
    <3>1. pc[w] = "call" /\ UNCHANGED caller
      BY <2>5 DEF Reply
    <3>2. PICK reply \in Scores \cup {Bad} :
             IF IsScore(reply) THEN Finish(w, reply) ELSE UNCHANGED outcome
      BY <2>5 DEF Reply
    <3>3. CASE IsScore(reply)
      <4>1. reply \in Verdicts /\ outcome' = [outcome EXCEPT ![item[w]] = reply]
        BY <3>2, <3>3, Markers DEF Finish, IsScore
      <4> QED
        BY <2>3, <3>1, <4>1
    <3>4. CASE ~IsScore(reply)
      BY <1>1, <3>1, <3>2, <3>4 DEF caller
    <3> QED
      BY <3>3, <3>4
  <2> QED
    BY <1>2, <2>1, <2>2, <2>4, <2>5 DEF ThreadStep
<1>3. CASE Consume
  <2>1. ~returned
    BY <1>3, ConstantTypes DEF Consume, IInv, TypeOK, Taken
  <2>2. UNCHANGED <<outcome, returned>>
    BY <1>3 DEF Consume
  <2> QED
    BY <2>1, <2>2 DEF Abstract!absVars
<1>4. CASE Return
  <2>1. /\ ~returned /\ returned' = TRUE /\ consumed = NItems
        /\ UNCHANGED <<outcome, results>>
    BY <1>4 DEF Return
  <2>2. \A i \in Items : outcome[i] # Pending /\ results[i] = outcome[i]
    BY <2>1 DEF IInv, Taken, Items
  <2>3. results = outcome
    BY <2>2 DEF IInv, TypeOK
  <2>4. Abstract!Return
    BY <2>1, <2>2, <2>3 DEF Abstract!Return, Abstract!Items, Items, Abstract!Pending, Pending
  <2> QED
    BY <2>4 DEF Abstract!Next
<1>5. CASE UNCHANGED vars
  BY <1>1, <1>5 DEF vars
<1> QED
  BY <1>2, <1>3, <1>4, <1>5 DEF Next

(* The pool of threads implements its promise to the caller. *)
THEOREM Refinement == Spec => RefinesScoreBatch
<1>1. Init => Abstract!Init
  BY InitRefines
<1>2. IInv /\ [Next]_vars => [Abstract!Next]_(Abstract!absVars)
  BY NextRefines
<1> QED
  BY <1>1, <1>2, IInvHolds, PTL DEF Spec, Abstract!Spec, RefinesScoreBatch
=============================================================================
