# GRSD: a verification project in TLA+

GRSD trains language-model agents with group-relative advantages that are
refined by the policy's own reflections. This directory holds TLA+ models of
its core logic, TLC configurations that check them on small instances, and
TLAPS proofs of the properties that matter most for every value of the
constants. Paths below are relative to the repository.

## 1. Inventory

The code base is the GRSD trainers and agent loop on top of a vendored copy of
verl (PPO/GRPO training over Ray) and of three environments.

| Component | State it keeps | Operations | Hard behaviour | What makes it correct |
|---|---|---|---|---|
| GRSD reflect trainer (`verl/trainer/ppo/grsd_reflect_ray_trainer.py`) | global_steps, batch, reflect_pack, future_reward | the phases of `fit` | a reward task beside the driver; a second actor pass in one step; verdicts that fail; crash and resume | one policy snapshot per step; rewards of the step; centred reflection advantages; a resumed run equals an uninterrupted one |
| Reflection judge (`grsd_reflect_utils.py`) | client, counters, lock, thread pool | `score`, `score_batch` | threads, retries, timeouts, out-of-order answers | grades reach their items; bounded requests; exact counters; it returns |
| GRSD advantage (`grsd_utils.py`, `grsd_reflect_utils.py`, `core_algos.py`) | none | GRPO estimator, turn and token modulation | boundaries: zero, clip, floor, padding, groups of one | the verifier decides the sign; bounded and group-local credit |
| Checkpointing (`ray_trainer.py`, `verl/utils/checkpoint`) | disk: shards, data.pt, tracker; memory: previous_saved_paths | save, rotate, load, three resume modes | ranks at barriers; crashes between file operations | the tracker names a complete checkpoint; resuming loses and repeats nothing |
| Rollout loop (`agent_system/multi_turn_rollout`) | is_done, episode totals, collected lists | vanilla and dynamic loop, filter, gather, adjust | environments stepped on after done; several tries; parallel lists | episodes end at done; groups whole; rows are the episodes; batch divides |
| Environment managers (`agent_system/environments`) | memory, tasks | reset, step, success_evaluator | per-environment success keys | success agrees with reward |
| Environment memory (`agent_system/memory`) | history per environment | reset, store, fetch | window boundaries | the last turns, numbered from the start |
| Search environment (`env_package/search`) | histories, thread pool | reset, step | padding of missing environments; needs env_kwargs | results aligned with actions |
| External-reflector trainer, RLSD trainer (`grsd_ray_trainer.py`, `rlsd_*.py`) | as above | fit, skill selection | API failure | priors only for contrastive groups |
| DataProto (`verl/protocol.py`) | tensors and arrays alike | pad, chunk, concat, reorder, union | padding larger than the batch; permutations and their inverses | row i of a result is of row i of the batch |
| Single controller (`verl/single_controller`) | worker groups, register center | dispatch, execute, collect | ranks that run ahead of each other; partial failure | results in rank order; every rank gets to the same collectives |
| Async rollout servers and scheduler (`verl/workers/rollout/async_server.py`) | weights, LRU cache | start, submit, sleep, wake | eviction, callbacks | load balance, sticky conversations |
| SGLang rollout (`verl/workers/rollout/sglang_rollout`, `schemas.py`) | requests, shared sampling parameters | `_req_level_generate_sequences`: one coroutine per request, engine and tools in turns | coroutines interleave at every await; tools finish in any order, fail, fill the context; one exception ends the batch | calls are answered in order; parameters fall back; the batch ends |
| Worker and sharding manager (`fsdp_workers.py`, `dp_actor.py`, `sharding_manager/fsdp_vllm.py`) | GPU memory, shards, engine weights, random states | generate, log probabilities, updates, save | training and engine take turns on a GPU; collectives; two random states | weights fresh before generation; cache and training state never together; samples fresh |
| Tools, rate limiter (`verl/tools`) | pools, token bucket, instances | create, execute, release; acquire, release | a thread blocked in acquire; tools that raise; a release nobody waits for | at most rate_limit at once; no token is lost |
| Prime reward manager | process pool | parallel scoring | timeout, gather failure | one score per item |
| Sequence balancing (`seqlen_balancing.py`) | none | differencing method, micro-batches, inverse order | equal sizes; a number of parts all ranks agree on | even shares; parts and inverse give the rows back |
| Launch wrapper (`examples/run_grsd_train_retry.sh`) | one log for all attempts | retry decision | stale log lines | retries init failures only |

Interaction. `fit` calls the rollout loop, which calls the actor's worker group
and the environments; it starts the reward (in place or as a Ray task), asks
the worker group for log probabilities and reflections, the judge for grades,
computes the advantage, updates critic and actor (the actor twice when the
judge is on) and saves through the checkpoint managers of all ranks. RPCs to a
worker group return when every rank has returned; inside one, the ranks of a
worker group meet in collectives. With the SGLang rollout the requests of a
batch share one event loop, and their tools share pools and one token bucket,
which are Ray actors. Nothing but the checkpoint survives a crash.

## 2. Plan

Built, in this order: `Checkpoint`, `RolloutLoop`, `ReflectionJudge` with the
abstract `ScoreBatch`, `TurnAdvantage`, `GRSDStep` (which composes the promises
of the others); `ToolPool` with the abstract `RateLimit`, `SGLangRollout` on top
of it, `SeqlenBalancing`, `HybridEngine` on top of that; and proofs for all of
them.

To come, the most valuable first: the chat scheduler (weights and LRU cache);
the prime reward manager; memory windows of the environments; skill selection;
the launch wrapper.

## 3. Modules

**Checkpoint** (`MCCheckpoint`). Driver locations `pc` follow
`_save_checkpoint`: the actor's RPC, the critic's, `data.pt`, the tracker. Each
rank goes through `save_checkpoint`: `Rmtree` (one file at a time), `Rotate`
(the path list, the new directory), `EnterBarrier`, `WriteFile` (begin, end),
`AllWritten`, `LeaveBarrier` (and the append). `Load` has the three resume
modes and every way they fail; `Crash` may strike between any two steps and
`Relaunch` starts again with the disk and nothing else. A file is Absent, Torn
or the number of the run that wrote it.

**RolloutLoop** (`MCRolloutLoop`). One action per phase of a try: `Reset`,
`PlayTurn` (generate, step all environments, add totals, record), `Vanilla` or
`Filter`, then `Gather` and `Adjust`. Environments are external and may report
again after done. The lists of a try are filtered one by one, by the indices to
keep (`FilterGroupData`), and put together by position. Exceptions the code
would raise are the location `error`.

**ReflectionJudge** and **ScoreBatch**. One action per step of `score` that
another thread can see: taking an item, making the client, reading and writing
a counter under the lock, the reply, the sleep; and the caller's `Consume` and
`Return`. ScoreBatch is the promise: each item judged once, the list in order.

**TurnAdvantage** (`MCTurnAdvantage`). The algorithm as operators named after
the code's variables (Grpo, Signal, MeanAbs, QNorm, GHat, Modulation) and one
action. Rows have group and score, cells (rows or tokens) gap and mask; integers
stand for reals at a scale of One, and expm1 is a table with the facts used.

**GRSDStep** (`MCGRSDStep`). The phases of `fit`; `by` records the policy
version each phase was computed with, `reward_tensor` the step whose batch a
reward scores. It relies on ScoreBatch (Judge) and on TrackerNamesComplete (Save
is one step).

**ToolPool** and **RateLimit**. ToolPool is how a tool call is executed: a
thread of the tool's Ray actor takes it (`Enter`, at most num_workers), asks the
bucket for a token (`Acquire`, one thread, blocking), runs the function
(`Finish`, which returns or raises and in both cases sends a release) and the
bucket takes the token back (`Release`, threads of its own). `stage` says how
far each call is, `queue`, `tokens` and `releases` are the bucket's calls and
semaphore. RateLimit is the promise: a call is executed once, at most Limit at a
time. `current_count` is left out; nothing but logging reads it.

**SGLangRollout** (`MCSGLangRollout`) extends ToolPool: the coroutines of
`_req_level_generate_sequences`, one action for what a coroutine does between
two awaits. `CreateTools` (pending), `CallEngine` (budget, parameters set),
`Reply` (parameters put back, assistant message, turn limit), `CallTool` (a task
of gather), `AddToolResponses` (in the order of the calls, until the context is
full), `Close` (rewards, release, finalize); `Crash` is the exception that
gather raises on. A message is a role and the tools it calls, a sequence its
length. The engine and what a tool computes are external: any reply within
max_new_tokens, any result or exception. The batch-level path, which has no
tools, and other chat formats than chatml are left out.

**SeqlenBalancing**. The differencing method of Karmarkar and Karp as it is
coded: `Heap` is the first queue of states, `Merge` puts heavy parts together
with light ones, `MergeFirst` is a turn of the loop, ties are broken as
`Set.__lt__` and `State.__lt__` do; `NumMicroBatches` and `ReverseIdx` are
rearrange_micro_batches and get_reverse_idx.

**HybridEngine** (`MCHybridEngine`) extends it: the worker group of actor and
rollout. The trainer's `Balance`, `Call` (pad, chunk, dispatch) and `Collect`
(concatenate, unpad), and each rank's way through the method called: for
generation `Enter`, `UpdateParams`, `OffloadParams`, `WakeCache`, `AllGather`,
`Generate`, `Exit`; for the others `Load`, `Rearrange`, `Forward`,
`ReturnLogProbs` or `OptimizerStep` (taken or skipped by all, as the norm of the
gradients is finite or not), `SaveShards`, `Offload`. Collectives are actions
that need all their ranks. A row is its number, an output records of
which row it is, with which shards and from which random state it was computed,
`gpu` is what is in each rank's memory. The trainer may call the methods in any
order, which is more than any of the trainers does.

**CheckpointProofs, RolloutLoopProofs, ReflectionJudgeProofs, GRSDStepProofs,
TurnAdvantageProofs, SGLangRolloutProofs, HybridEngineProofs** hold the theorems
about the module each is named after (SGLangRolloutProofs also those about
ToolPool, HybridEngineProofs those about SeqlenBalancing); **CommonLemmas** holds
the lemmas about induction, sums, recursive functions and sequences that several
of them rest on.

## 4. Runs

| Run | Instance | Shows |
|---|---|---|
| checkpoint | 2 ranks, 1 file, actor and critic, 3 steps, keep 2, 3 launches, all modes | complete tracker, resuming, rotation bounds, saves end |
| checkpoint_keep_one | keep 1, actor, auto | finding 1 |
| rollout | 2 groups of 2, 2 turns, 2 tries, 3 environments, divisor 10 | episodes, groups, target, rows, padding |
| rollout_search | 1 group, search, 3 tries | finding 2 |
| judge | 3 items, 2 threads, 1 retry | grades, requests, counters, return, refinement |
| advantage | 3 rows, 4 tokens, up to 2 groups, 2 lambdas | sign and bounds, local scale, direction of the credit |
| step | 2 groups of 2, padded to 5, 2 steps, warm-up 2, 1 crash | snapshot, reward, centred reflections, resume, progress |
| step_verdicts | 1 group of 3 | finding 3 |
| sglang | 2 requests, 2 tools, 1 token, 2 threads a pool, 3 turns, 2 batches | tokens, instances, answers in order, rate limit refined, batches end |
| sglang_sampling | the same, validation batches | finding 4 |
| hybrid | 4 ranks in groups of 2, batches of 1, 5 and 12 rows, 4 calls, all offloading | rows, fresh samples, memory, collectives, balance |
| hybrid_micro_batches | the same, 1 call | finding 5 |

Why the bounds suffice. Checkpoint: two ranks are enough for one to be behind at
a barrier; three steps with two kept rotate in one launch; three launches let a
crash follow a resumed launch. RolloutLoop: two turns let one environment end
before another, two tries make a first and a last one, a divisor of 10 makes
the copies none, some, and more than there are rows. ReflectionJudge: three
items on two threads let a thread take a second item while the first is at
work. TurnAdvantage: three rows give a group of one, of two and of three, two
tokens a padded one; signals reach the dead zone and the clip, and of the two
lambdas the larger the floor.
GRSDStep: five ranks pad by one; a warm-up of 2 gives a step without and one
with actor updates. SGLangRollout: one token for two requests with two tools
makes calls wait for each other across tools and requests; a message with two
calls lets the second finish first; a context of 14 is full in the middle of
the responses, at their end or not at all, or leaves no budget for the next
message; a crash may leave calls in the pools.
HybridEngine: groups of two next to each other tell ranks of a group from ranks
of different groups; one row is padded by more than itself, five unevenly,
twelve are balanced and split in mini-batches of two and micro-batches of
different numbers; four calls let a generation follow an update and another
generation. The bounds are MaxRuns, MaxCrashes, MaxBatches, MaxCalls, MaxTries
(the code's own), and the small sets of the MC modules. Symmetry is over the names of data
sources and groups only, in runs without liveness.

Deadlock checking is off because every system here stops: a job that is done
and not launched again, a batch returned, a rollout finished or failed, an
advantage computed, MaxBatches run or one raised, MaxCalls made. That saves,
steps and batches end is stated as liveness. HybridEngine states it as the
invariant CallGoesOn: some step is possible while a call is under way, and a
call has finitely many; as a leads-to it would have TLC evaluate the
differencing method again for every ENABLED.

Fairness. Checkpoint: the driver and each rank, which the operating system
schedules; no fairness on crashes and launches. ReflectionJudge: each thread
and the caller; a request ends at the latest with the client's timeout; a
thread that waits for the lock is served, since the lock is held for two steps
of a holder that has finitely many requests to count. GRSDStep: the driver
(its RPCs return) and the Ray reward task, which Ray runs once submitted.
SGLangRollout: weak fairness of the event loop's work as a whole and of the pools
and bucket as a whole, not of single coroutines or calls: engine requests and
tool functions end (they have timeouts), and Ray runs what it can. HybridEngine
has no fairness.

## 5. Findings

1. `max_actor_ckpt_to_keep = 1`: the rotation deletes the checkpoint the
   tracker names before the new one exists; a crash in between leaves nothing to
   resume from, although the deprecation message recommends the setting.
2. Dynamic sampling with the search environment raises at its second try:
   `env_kwargs` was popped from the batch by the first.
3. A reflection whose verdict failed has advantage 0 but stays in the loss mask;
   the docstring says it is masked out.
4. The SGLang rollout's sampling parameters are one object that every coroutine
   saves, changes and restores around an await: of two requests of a validation
   batch the later to leave restores what the other had set, and the next
   training batch is sampled with the validation's temperature.
5. `max_token_len` is documented as the largest sum of a micro-batch; it only
   sets their number, and the rows of one may add up to more.

Seen while reading and not stated as a property: a crash while the tracker is
being written leaves it empty and the next launch raises; a finished job that is
launched again trains one step more; success keys that differ between tries
raise a KeyError; `adjust_batch` fails when it needs more copies than rows, and
its copies count in the group mean; the actor returns entropies in the order of
the micro-batches, not of the rows; a resumed launch has forgotten the checkpoints of
the ones before and never rotates them away (RotationSparesOtherRuns), so that
more than `max_ckpt_to_keep` may stay; the token bucket is made once, so that a second tool's rate_limit
is ignored, and without enable_global_rate_limit every execution fails; two
threads of the judge may each make a client, which is harmless; `SkillProvider`'s class docstring says all
keywords must match and the code matches any.

## 6. Proofs

Every theorem is proved by TLAPS for all constants that satisfy the module's
ASSUME; nothing is assumed beyond it except where said.

**CommonLemmas**. The models sum with MapThenSumSet and with recursive functions;
both have to be shown to be what they look like. Induction over finite sets and
over lengths is done by hand, from well-foundedness of the natural numbers for
one concrete predicate set at a time (the library's induction theorems take an
operator, which the provers cannot instantiate): a sum over a set is the sum
over the set without an element, plus that element's share; a recursive sum has
values that differ by one element each, and is a natural number. The same way, a
function that a recursion describes exists; InsertAt permutes; FlattenSeq is its
parts one after the other.

**ReflectionJudge**: TypeOK, NoWastedRequest, ResultsBelongToItems,
CountersAreExact and the refinement of ScoreBatch. The properties are not
inductive: that a thread's item has no outcome yet depends on no other thread
having it. IInv adds `OwnItems` (the queue hands an item out once), `AtWork` (a
thread's item is pending and has as many bad replies as attempts made), `Judged`
(how an outcome came about; never changed later) and `Taken` (results consumed
in order). The counters are exact because of `Counted`: what the holder of the
lock has read of a counter is still its value, and the counter is short of what
it counts by exactly the requests and failures that are under way; the
cardinalities grow by one with each. The refinement maps `verdict` to `outcome`:
a reply, a last failure or a blank reflection is ScoreBatch's Judge, the return
its Return, all else stutters.

**Checkpoint**: TypeOK, NeverRedoesSavedStep, KeepsAtMostPerRun and
RotationSparesOtherRuns for every MaxKeep; TrackerNamesComplete and
ResumesAtTracker under `KeepsTwo` (MaxKeep is 0, no rotation, or at least 2; with
1 they are false, finding 1). IInv says that files of a launch in `resume_mode
auto` are only written ahead of the tracker (`Ahead`), that paths saved are
increasing and end with the tracker's step at most (`Paths`: so a rotation that
keeps at least one old path never retires it), and how far the current save has
come (`Written`). RInv is about the rotation, which every rank does from a list
of its own while the files are everybody's: because of the barriers nobody
writes before all have rotated, and nobody appends before all have written
(`Barriers`), so each rank's list, with the step it is making, names all the
steps that hold a file of this launch (`Mine`) and nothing else (`Owned`), and is
short enough by one for the step being made (`Room`). Files are never of a later
launch (`Older`), so a new one starts with none of its own.

**GRSDStep**: TypeOK, OneSnapshot, RewardIsOfThisStep, ResumesTheSameRun and
ReflectionGradientIsCentred. IInv records which phases are stamped at each
location (`Stamps`), when a reward task is under way (`Rewarded`) and that
version and checkpoint agree with the number of updates an uninterrupted run has
made (`Counted`, with Cardinality lemmas). That the reflection advantages of a
group add up to zero, padding copies included, is a fact about the sums alone,
whatever the verdicts are.

**TurnAdvantage**: VerifierDecidesSign, CreditFollowsTeacher, ScaleIsGroupLocal
and TypeOK. There is one step, so the inductive invariant says that the inputs
are inputs and the result is the algorithm's; the proofs are about the algorithm.
The sign: the highest score of a group with two different scores is above their
mean, and the factor keeps to its floor, to lambda * g_hat_max around one, and
is one without a prior (ModulationBounds). The credit: every stage from the gap to
the factor is monotone. The scale: absolute values of the signals over their own
mean add up to their number, each rounded by less than one unit, so the error is
at most one unit a cell. Two assumptions the algorithm needs are stated in the
module: the batch's rows and cells are finite, and the fixed point is fine
enough (`ResolutionAssumption`), as it is for the code's floating point.

**RolloutLoop**: all six properties of the run. None but GroupsStayWhole is
inductive: an episode that is collected was played turn by turn while other
environments went on. `Playing` says how far it has come (active in the first
episode_lengths turns, rewarded only at the last), whence `Good` for what is
collected. The filter's list of indices names every kept environment
(KeepIndicesAre), so the lists it cuts are still those of one episode at each
position; `Unfiltered` and `Counted` say what is collected before a try ends,
with Cardinality lemmas for the episodes of a try; the padded batch divides by
an arithmetic lemma (`FillUp`) once the rows are known to be finite.

**SGLangRollout** and **ToolPool**: TypeOK, TokensAreConserved,
InstancesOutliveCalls, EveryCallIsAnswered and the refinement of RateLimit. The
first part of SGLangRolloutProofs is about the pools' steps: whatever the pools,
the bucket or a caller does keeps the tokens' balance, and is a step of RateLimit
or none; that a call which begins is below the limit follows from the balance.
The second shows that every step of the rollout is one of these (`Callers`), and
adds where calls may be under way (`Underway`: only those of the last message of
a request that waits for its tools), when a request has instances (`Instanced`),
that a conversation the engine may continue is empty or answered (`Chats`) and
that turns and the budget of tokens are within their limits (`Limits`, without
which the engine could be given a negative max_new_tokens). RefinesRateLimit is
a statement of safety; that calls are executed in the end is part of BatchEnds.

**SeqlenBalancing**: its parts have every row once (PartitionsState,
PartitionsPermute). `Sorted` inserts one item after the other, so it permutes; a
merge joins states that share no row (`Apart`); the order of states is total on
states that share no row, so that Pop finds a first one; and each turn of the
loop leaves one state less with the rows of all (`IsFullHeap`), whence the one
state left in the end has all rows.

**HybridEngine**: TypeOK, KVCacheFits, CallGoesOn, RowsComeBack and FreshSamples.
None of them but KVCacheFits is near to inductive, and the invariant is in four
layers. What a GPU may hold at each place of a call (`Memory`) and how far
collectives let the ranks of a generation be apart (`InStep`). The batch is a
permutation of its rows (`BatchInv`). Ranks that make micro-batches have as many
rows and forward passes left as each other, and those of an update are in them
together, since the norm of the gradients is a collective too (`Turn`): shares are of one length,
and with the agreed number of micro-batches the differencing method makes
exactly that many; hence CallGoesOn. What is computed (`Content`): which of its
random states a rank has in place and how often its group's was drawn from
(`Swapped`), which weights its engine has (`Weights`), what a generating rank has
of its group's rows (`Generated`), and that what a rank has computed together
with what its micro-batches hold is its share in the order of the indices
(`InForward`), which reverting puts back since they are a permutation
(`Computed`). What the trainer collects is then the batch row for row, by the
arithmetic of padding, chunks and groups (`Returned`, `RolledOut`).

Only model-checked: liveness (SaveTerminates, BatchReturns, StepEnds, BatchEnds),
which the prover cannot do under fairness and ENABLED; and SharesAreEven, how
even the differencing method makes the parts, which needs the order of the
sorted sequences and sums over permutations. No module uses RECURSIVE.

## 7. Not modelled

Components marked not_modelled in PROJECT.json, with the reasons there: tensor
arithmetic and gradient steps, prompt text and tokenisation, metrics and
logging, the vendored simulators and model code, the Megatron backend. Within
the modelled parts: HDFS copies (not implemented by the code), validation
rollouts, the HF export (part of the second barrier), floating-point rounding
(the advantage uses integers at a fixed scale), an exception while the judge's
client is made or its prompt is built, the entropies that come with the log
probabilities, the values and reference
log-probability passes, LoRA, multi-modal inputs, the SGLang and Ulysses sharding
managers, the SGLang path without tools and its chat server, the decorator's
automatic padding, the death of a worker, `greedy_partition` (never called).
