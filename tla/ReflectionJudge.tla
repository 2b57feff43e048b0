--------------------------- MODULE ReflectionJudge ---------------------------
(***************************************************************************)
(* ReflectionJudge.score and score_batch: a pool of threads asks an        *)
(* external LLM to grade reflections, with retries, while the caller       *)
(* collects the grades in order.                                           *)
(*                                                                         *)
(* Each thread takes the next item of the pool's queue and runs score() on *)
(* it: an empty reflection is 0 at once; otherwise up to max_retries + 1   *)
(* requests, each counted in call_count, until a reply can be parsed;      *)
(* then None, counted in fail_count.  The counters are shared and guarded  *)
(* by _counter_lock; "+= 1" reads and writes in two steps.  The client is  *)
(* made by the first thread that finds none, without a lock.               *)
(*                                                                         *)
(* Abstractions.  The LLM is external: a request ends with a score, or     *)
(* with Bad, a reply without a digit 0..3 or an exception (a timeout is    *)
(* one), which score() treats alike.  The serial path of one item or       *)
(* max_concurrency 1 is the pool of one thread.                            *)
(***************************************************************************)
EXTENDS Integers, Sequences, FiniteSets

CONSTANTS
    NItems,           \* len(items)
    MaxConcurrency,   \* max_concurrency
    MaxRetries        \* max_retries

ASSUME JudgeAssumption ==
    /\ NItems \in Nat \ {0}
    /\ MaxConcurrency \in Nat \ {0}
    /\ MaxRetries \in Nat

Items    == 1..NItems
Scores   == 0..3
None     == -1
Pending  == -2
Bad      == -3
Verdicts == Scores \cup {None}

Workers == IF MaxConcurrency < NItems THEN MaxConcurrency ELSE NItems
Threads == 1..Workers
NoThread == 0

VARIABLES
    empty,        \* the items whose reflection is blank
    head,         \* the pool's queue: items head..NItems wait
    pc,           \* where each thread is
    item,         \* the item it works on, 0 for none
    attempt,
    register,     \* what it read of a counter
    lock,         \* the holder of _counter_lock
    client,       \* the thread that made the client
    call_count, fail_count,
    said,         \* history: the replies to the requests of each item
    outcome,      \* what score() returned for each item
    consumed,     \* pool.map results taken so far
    results,
    returned

thread  == <<pc, item, attempt, register>>
counter == <<lock, call_count, fail_count>>
caller  == <<consumed, results, returned>>
vars    == <<empty, head, pc, item, attempt, register, lock, client, call_count,
             fail_count, said, outcome, consumed, results, returned>>

PCs == {"idle", "client", "create", "count", "add", "call", "sleep", "fail", "failAdd"}

TypeOK ==
    /\ empty \subseteq Items
    /\ head \in 1..(NItems + 1)
    /\ pc \in [Threads -> PCs]
    /\ item \in [Threads -> 0..NItems]
    /\ attempt \in [Threads -> 0..MaxRetries]
    /\ register \in [Threads -> Nat]
    /\ lock \in Threads \cup {NoThread}
    /\ client \in Threads \cup {NoThread}
    /\ call_count \in Nat
    /\ fail_count \in Nat
    /\ said \in [Items -> Seq(Scores \cup {Bad})]
    /\ outcome \in [Items -> Verdicts \cup {Pending}]
    /\ consumed \in 0..NItems
    /\ results \in [Items -> Verdicts]
    /\ returned \in BOOLEAN

Init ==
    /\ empty \in SUBSET Items
    /\ head = 1
    /\ pc = [w \in Threads |-> "idle"]
    /\ item = [w \in Threads |-> 0]
    /\ attempt = [w \in Threads |-> 0]
    /\ register = [w \in Threads |-> 0]
    /\ lock = NoThread
    /\ client = NoThread
    /\ call_count = 0
    /\ fail_count = 0
    /\ said = [i \in Items |-> <<>>]
    /\ outcome = [i \in Items |-> Pending]
    /\ consumed = 0
    /\ results = [i \in Items |-> None]
    /\ returned = FALSE

-----------------------------------------------------------------------------
(* score(), on thread w *)

Goto(w, label) == pc' = [pc EXCEPT ![w] = label]

(* score() has returned v for the thread's item. *)
Finish(w, v) ==
    /\ outcome' = [outcome EXCEPT ![item[w]] = v]
    /\ Goto(w, "idle")

(* The thread takes the next item; a blank reflection is 0 without a call. *)
Take(w) ==
    /\ pc[w] = "idle"
    /\ head \in Items
    /\ head' = head + 1
    /\ IF head \in empty
       THEN /\ outcome' = [outcome EXCEPT ![head] = 0]
            /\ UNCHANGED <<pc, item, attempt>>
       ELSE /\ item' = [item EXCEPT ![w] = head]
            /\ attempt' = [attempt EXCEPT ![w] = 0]
            /\ Goto(w, "client")
            /\ UNCHANGED outcome
    /\ UNCHANGED <<empty, register, counter, client, said, caller>>

(* _get_client: threads that all find no client each make one. *)
GetClient(w) ==
    /\ \/ /\ pc[w] = "client"
          /\ Goto(w, IF client = NoThread THEN "create" ELSE "count")
          /\ UNCHANGED client
       \/ /\ pc[w] = "create"
          /\ Goto(w, "count")
          /\ client' = w
    /\ UNCHANGED <<empty, head, item, attempt, register, counter, said, outcome, caller>>

(* Mutant: the counters are read without the lock. *)
ReadCounterUnlocked(w) ==
    /\ \/ pc[w] = "count" /\ Goto(w, "add")
          /\ register' = [register EXCEPT ![w] = call_count]
       \/ pc[w] = "fail" /\ Goto(w, "failAdd")
          /\ register' = [register EXCEPT ![w] = fail_count]
    /\ UNCHANGED <<empty, head, item, attempt, counter, client, said, outcome, caller>>

(* with self._counter_lock: the counter is read... *)
ReadCounter(w) ==
    /\ lock = NoThread
    /\ lock' = w
    /\ \/ pc[w] = "count" /\ Goto(w, "add")
          /\ register' = [register EXCEPT ![w] = call_count]
       \/ pc[w] = "fail" /\ Goto(w, "failAdd")
          /\ register' = [register EXCEPT ![w] = fail_count]
    /\ UNCHANGED <<empty, head, item, attempt, call_count, fail_count, client, said,
                   outcome, caller>>

(* Mutant: the lock is not released once a failure is counted. *)
WriteCounterKeepingLock(w) ==
    /\ \/ /\ pc[w] = "add"
          /\ call_count' = register[w] + 1
          /\ lock' = NoThread
          /\ Goto(w, "call")
          /\ UNCHANGED <<fail_count, outcome>>
       \/ /\ pc[w] = "failAdd"
          /\ fail_count' = register[w] + 1
          /\ Finish(w, None)
          /\ UNCHANGED <<call_count, lock>>
    /\ UNCHANGED <<empty, head, item, attempt, register, client, said, caller>>

(* ...and written, and the lock released.  After a failure, None is returned. *)
WriteCounter(w) ==
    /\ lock' = NoThread
    /\ \/ /\ pc[w] = "add"
          /\ call_count' = register[w] + 1
          /\ Goto(w, "call")
          /\ UNCHANGED <<fail_count, outcome>>
       \/ /\ pc[w] = "failAdd"
          /\ fail_count' = register[w] + 1
          /\ Finish(w, None)
          /\ UNCHANGED call_count
    /\ UNCHANGED <<empty, head, item, attempt, register, client, said, caller>>

(* Mutant: "if score" for "if score is not None". *)
IsScoreTruthy(reply) == reply \in Scores \ {0}

(* _parse_score found a digit. *)
IsScore(reply) == reply \in Scores

(* Mutant: one retry too many. *)
MayRetryOnceMore(w) == attempt[w] <= MaxRetries

MayRetry(w) == attempt[w] < MaxRetries

(* The request ends: a score is returned, anything else is tried again. *)
Reply(w) ==
    /\ pc[w] = "call"
    /\ \E reply \in Scores \cup {Bad} :
          /\ said' = [said EXCEPT ![item[w]] = Append(@, reply)]
          /\ IF IsScore(reply)
             THEN Finish(w, reply)
             ELSE /\ Goto(w, IF MayRetry(w) THEN "sleep" ELSE "fail")
                  /\ UNCHANGED outcome
    /\ UNCHANGED <<empty, head, item, attempt, register, counter, client, caller>>

Sleep(w) ==
    /\ pc[w] = "sleep"
    /\ attempt' = [attempt EXCEPT ![w] = @ + 1]
    /\ Goto(w, "count")
    /\ UNCHANGED <<empty, head, item, register, counter, client, said, outcome, caller>>

ThreadStep(w) ==
    Take(w) \/ GetClient(w) \/ ReadCounter(w) \/ WriteCounter(w) \/ Reply(w) \/ Sleep(w)

-----------------------------------------------------------------------------
(* score_batch, on the calling thread *)

(* Mutant: results are stored in the order they become ready. *)
ConsumeAsCompleted ==
    /\ consumed < NItems
    /\ \E i \in Items :
          /\ outcome[i] # Pending
          /\ results' = [results EXCEPT ![consumed + 1] = outcome[i]]
    /\ consumed' = consumed + 1
    /\ UNCHANGED <<empty, head, thread, counter, client, said, outcome, returned>>

(* pool.map yields the outcomes in the order of the items. *)
Consume ==
    /\ consumed < NItems
    /\ outcome[consumed + 1] # Pending
    /\ results' = [results EXCEPT ![consumed + 1] = outcome[consumed + 1]]
    /\ consumed' = consumed + 1
    /\ UNCHANGED <<empty, head, thread, counter, client, said, outcome, returned>>

(* Leaving the with block joins the threads. *)
Return ==
    /\ ~returned
    /\ consumed = NItems
    /\ \A w \in Threads : pc[w] = "idle"
    /\ returned' = TRUE
    /\ UNCHANGED <<empty, head, thread, counter, client, said, outcome, consumed, results>>

Next == Consume \/ Return \/ \E w \in Threads : ThreadStep(w)

Spec == Init /\ [][Next]_vars

(* Threads are scheduled, a request ends at the latest with its timeout.   *)
(* A thread waiting for the lock gets it: it is held for two steps only,   *)
(* and the holders have finitely many requests to count.                   *)
Fairness ==
    /\ WF_vars(Consume \/ Return)
    /\ \A w \in Threads : WF_vars(ThreadStep(w))

FairSpec == Spec /\ Fairness

-----------------------------------------------------------------------------
(* Properties *)

(* The reply that decides about item i: its first score. *)
Graded(i) == \E a \in 1..Len(said[i]) : said[i][a] \in Scores

(* Every grade the caller takes is the one the LLM gave for that item, in  *)
(* whatever order the threads finish: the first reply that is a score, 0   *)
(* included; None only after max_retries + 1 requests all failed; and 0    *)
(* without a request for a blank reflection.                               *)
ResultsBelongToItems ==
    \A i \in 1..consumed :
        IF i \in empty THEN results[i] = 0 /\ said[i] = <<>>
        ELSE IF Graded(i)
             THEN results[i] = said[i][CHOOSE a \in 1..Len(said[i]) :
                                  /\ said[i][a] \in Scores
                                  /\ \A b \in 1..(a - 1) : said[i][b] \notin Scores]
             ELSE results[i] = None /\ Len(said[i]) = MaxRetries + 1

(* Requests cost money: once an item is graded it is not asked about again *)
(* and no item is asked about more than max_retries + 1 times.             *)
NoWastedRequest ==
    \A i \in Items :
        /\ Len(said[i]) <= MaxRetries + 1
        /\ \A a \in 1..(Len(said[i]) - 1) : said[i][a] = Bad

(* When score_batch returns, the counters the metrics report are exact: no *)
(* increment of a concurrent thread is lost.                               *)
CountersAreExact ==
    returned =>
        /\ fail_count = Cardinality({i \in Items : results[i] = None})
        /\ call_count = Cardinality({r \in Items \X (1..(MaxRetries + 1)) :
                                        r[2] <= Len(said[r[1]])})

(* score_batch returns, whatever the LLM answers. *)
BatchReturns == <>returned

(* score_batch implements ScoreBatch: an item's verdict is score()'s.      *)
Abstract ==
    INSTANCE ScoreBatch WITH verdict <- outcome, list <- IF returned THEN results
                                                 ELSE [i \in Items |-> None]

RefinesScoreBatch == Abstract!Spec
=============================================================================
