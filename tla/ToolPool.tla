------------------------------ MODULE ToolPool ------------------------------
(***************************************************************************)
(* How a tool call is executed: the execution pools of SandboxFusionTool   *)
(* and SearchTool and the token bucket they share.                         *)
(*                                                                         *)
(* Every tool has a pool, a Ray actor with num_workers threads.  A thread  *)
(* that runs ExecutionWorker.execute registers the release of a token,     *)
(* acquires one, and then runs the function; what it raises is logged and  *)
(* None is returned.  Whatever happens the release is sent, and nobody     *)
(* waits for it.  The bucket is one named actor for all pools; it has one  *)
(* thread for acquire, which blocks in the semaphore while no token is     *)
(* left, and ten more for release.                                         *)
(*                                                                         *)
(* Abstractions.  A call is a tool of a request.  Pools of one tool kind   *)
(* on several rollout workers are one pool.  current_count, which the code *)
(* keeps for observability only, is left out.  The bucket's actor does not *)
(* die.                                                                    *)
(***************************************************************************)
EXTENDS Integers, Sequences, FiniteSets

CONSTANTS
    Requests,     \* the requests of a batch
    Tools,        \* the keys of _tool_map
    RateLimit,    \* rate_limit of the pool that made the bucket
    NumWorkers    \* num_workers of each pool

ASSUME PoolAssumption ==
    /\ IsFiniteSet(Requests) /\ IsFiniteSet(Tools)
    /\ RateLimit \in Nat \ {0}
    /\ NumWorkers \in Nat \ {0}

Calls == Requests \X Tools
ToolOf(c) == c[2]

VARIABLES
    stage,        \* how far each call is
    queue,        \* calls of TokenBucketWorker.acquire, oldest first
    tokens,       \* the value of the semaphore
    releases      \* calls of TokenBucketWorker.release not yet run

pool == <<stage, queue, tokens, releases>>

Stages == {"none", "submitted", "waiting", "running", "returned", "raised"}

PoolTypeOK ==
    /\ stage \in [Calls -> Stages]
    /\ queue \in Seq(Calls)
    /\ tokens \in Nat
    /\ releases \in Nat

PoolInit ==
    /\ stage = [c \in Calls |-> "none"]
    /\ queue = <<>>
    /\ tokens = RateLimit
    /\ releases = 0

At(s) == {c \in Calls : stage[c] = s}

ToStage(c, from, to) ==
    /\ stage[c] = from
    /\ stage' = [stage EXCEPT ![c] = to]

(* self.execution_pool.execute.remote(...) *)
Submit(c) ==
    /\ ToStage(c, "none", "submitted")
    /\ UNCHANGED <<queue, tokens, releases>>

(* SearchTool.execute answers arguments without a query list itself. *)
Refuse(c) ==
    /\ ToStage(c, "none", "returned")
    /\ UNCHANGED <<queue, tokens, releases>>

Threads(t) == {c \in At("waiting") \cup At("running") : ToolOf(c) = t}

(* A thread of the pool takes the call and asks the bucket for a token. *)
Enter(c) ==
    /\ Cardinality(Threads(ToolOf(c))) < NumWorkers
    /\ ToStage(c, "submitted", "waiting")
    /\ queue' = Append(queue, c)
    /\ UNCHANGED <<tokens, releases>>

(* Mutant: the bucket does not wait for a token. *)
AcquireAtOnce ==
    /\ queue # <<>>
    /\ tokens' = tokens - 1
    /\ queue' = Tail(queue)
    /\ ToStage(Head(queue), "waiting", "running")
    /\ UNCHANGED releases

(* The bucket's acquire thread serves the oldest call once there is a token. *)
Acquire ==
    /\ queue # <<>>
    /\ tokens > 0
    /\ tokens' = tokens - 1
    /\ queue' = Tail(queue)
    /\ ToStage(Head(queue), "waiting", "running")
    /\ UNCHANGED releases

(* Mutant: a function that raises leaves without releasing its token. *)
FinishReleasingOnSuccess(c) ==
    /\ \/ ToStage(c, "running", "returned") /\ releases' = releases + 1
       \/ ToStage(c, "running", "raised") /\ UNCHANGED releases
    /\ UNCHANGED <<queue, tokens>>

(* The function returns or raises; the ExitStack sends the release. *)
Finish(c) ==
    /\ \/ ToStage(c, "running", "returned")
       \/ ToStage(c, "running", "raised")
    /\ releases' = releases + 1
    /\ UNCHANGED <<queue, tokens>>

(* Mutant: acquire and release share the actor's one thread. *)
ReleaseBehindAcquire ==
    /\ queue = <<>>
    /\ releases > 0
    /\ releases' = releases - 1
    /\ tokens' = tokens + 1
    /\ UNCHANGED <<stage, queue>>

Release ==
    /\ releases > 0
    /\ releases' = releases - 1
    /\ tokens' = tokens + 1
    /\ UNCHANGED <<stage, queue>>

(* The caller takes the results of the calls C. *)
Collect(C) == stage' = [c \in Calls |-> IF c \in C THEN "none" ELSE stage[c]]

Answered == At("returned") \cup At("raised")

PoolStep(c) == Enter(c) \/ Finish(c)

-----------------------------------------------------------------------------
(* Properties *)

(* A token is never lost and never made up: every one is in the semaphore, *)
(* with the call that is being executed, or on its way back.  A lost token *)
(* would slow down, and in the end stop, every tool of the job.            *)
TokensAreConserved == tokens + Cardinality(At("running")) + releases = RateLimit

(* The pools and the bucket implement RateLimit: however the calls of all  *)
(* tools interleave, no more than rate_limit are executed at a time, and   *)
(* each is executed once.                                                  *)
Limited ==
    INSTANCE RateLimit WITH
        Limit <- RateLimit,
        call <- [c \in Calls |->
                    CASE stage[c] \in {"submitted", "waiting"}  -> "made"
                      [] stage[c] = "running"                   -> "executing"
                      [] stage[c] \in {"returned", "raised"}    -> "answered"
                      [] OTHER                                  -> "none"]

RefinesRateLimit == Limited!Spec
=============================================================================
