----------------------------- MODULE HybridEngine -----------------------------
(***************************************************************************)
(* The worker group of actor and rollout (ActorRolloutRefWorker): how a    *)
(* call of the trainer is split over the ranks, carried out by each of     *)
(* them on the one GPU the trained model and the inference engine take     *)
(* turns on, and put together again.                                       *)
(*                                                                         *)
(* Ranks run on their own and meet in collectives: the gathering of the    *)
(* parameters, of a tensor parallel group's prompts, the agreement on the  *)
(* number of micro-batches, every forward pass, and the norm of the        *)
(* gradients.  A collective is one action that all its ranks are ready     *)
(* for.  The trainer makes one call at a time, in any order here.          *)
(*                                                                         *)
(* Abstractions.  A row is its number in the batch; how long it will be is *)
(* chosen beforehand.  A rank's shard of the model is the number of        *)
(* optimizer steps it has seen.  A random state is a seed and how often it *)
(* was drawn from.  FSDP without Ulysses, LoRA or multi-modal inputs; the  *)
(* engine is a vLLM whose wake_up has tags; use_dynamic_bsz is set,        *)
(* ppo_epochs is 1.                                                        *)
(***************************************************************************)
EXTENDS SeqlenBalancing, FiniteSetsExt

CONSTANTS
    WorldSize,        \* ranks of the worker group
    TPSize,           \* tensor_model_parallel_size of the engine
    Batches,          \* batches, each the lengths of its rows
    MaxTokenLen,      \* log_prob_ and ppo_max_token_len_per_gpu
    MiniBatchSize,    \* ppo_mini_batch_size, per rank
    OffloadParam,     \* fsdp_config.param_offload
    OffloadOptimizer, \* fsdp_config.optimizer_offload
    MaxCalls          \* bound: calls of the trainer

Ranks == 0..(WorldSize - 1)

ASSUME HybridAssumption ==
    /\ {WorldSize, TPSize, MaxTokenLen, MiniBatchSize} \subseteq Nat \ {0}
    /\ WorldSize % TPSize = 0
    /\ Batches \subseteq Seq(1..MaxTokenLen) \ {<<>>}
    /\ OffloadParam \in BOOLEAN /\ OffloadOptimizer \in BOOLEAN
    /\ MaxCalls \in Nat

(* The device mesh (dp, infer_tp) *)
DpRank(r) == r \div TPSize
TpRank(r) == r % TPSize
Groups    == {DpRank(r) : r \in Ranks}
GroupOf(g) == {r \in Ranks : DpRank(r) = g}

VARIABLES
    seqlen,       \* lengths of the batch's rows
    batch,        \* the rows in the order the trainer has them
    call,         \* the call under way, or none
    calls,        \* how many there have been
    result,       \* what the last call returned
    rollout,      \* total_batch_list: what was generated
    task,         \* what each rank is doing
    actor,        \* its shard of the trained model
    engine,       \* the weights its engine was given
    gpu,          \* what is in its GPU's memory
    random        \* its random state, and the two that are put away

trainer == <<seqlen, batch, call, calls, result, rollout>>
vars == <<seqlen, batch, call, calls, result, rollout, task, actor, engine, gpu, random>>

Updates == {"update_actor", "update_reflect_actor"}
Methods == {"generate_sequences", "compute_log_prob", "save_checkpoint"} \cup Updates

Params    == IF OffloadParam THEN {"params"} ELSE {}
Optimizer == IF OffloadOptimizer THEN {"optimizer"} ELSE {}

Idle == [pc |-> "idle", rows |-> <<>>, rest |-> <<>>, micro |-> <<>>,
         indices |-> <<>>, out |-> <<>>]

States == (Ranks \cup {1000 + g : g \in Groups}) \X (0..MaxCalls)

(* What is computed of a row: with which weights, drawn from which state *)
Outputs == [row : DOMAIN seqlen, weights : [Ranks -> Nat], drawn : States]

TypeOK ==
    /\ seqlen \in Batches
    /\ batch \in Seq(DOMAIN seqlen) /\ Len(batch) = Len(seqlen)
    /\ call \in Methods \cup {"none"}
    /\ calls \in 0..MaxCalls
    /\ result \in Seq(Outputs)
    /\ rollout \in Seq(Seq(Outputs))
    /\ \A r \in Ranks :
          /\ task[r].pc \in {"idle", "called", "sync", "synced", "kv", "gather", "generate",
                             "exit", "mini", "forward", "saving", "offload", "returned"}
          /\ task[r].out \in Seq(Outputs)
          /\ gpu[r] \subseteq {"params", "optimizer", "engine", "kv_cache"}
    /\ actor \in [Ranks -> Nat]
    /\ engine \in [Ranks -> [Ranks -> Nat]]
    /\ random \in [Ranks -> [now : States, gen : States, torch : States]]

AsSampled == [i \in DOMAIN seqlen |-> i]

Init ==
    /\ seqlen \in Batches
    /\ batch = AsSampled
    /\ call = "none"
    /\ calls = 0
    /\ result = <<>>
    /\ rollout = <<>>
    /\ task = [r \in Ranks |-> Idle]
    /\ actor = [r \in Ranks |-> 0]
    /\ engine = [r \in Ranks |-> [q \in Ranks |-> 0]]
    /\ gpu = [r \in Ranks |-> {"params", "optimizer"} \ (Params \cup Optimizer)]
    /\ random = [r \in Ranks |-> [now |-> <<r, 0>>, gen |-> <<1000 + DpRank(r), 0>>,
                                  torch |-> <<r, 0>>]]

-----------------------------------------------------------------------------
(* The trainer *)

(* pad_dataproto_to_divisor: the batch over again until it divides. *)
Pad(rows) ==
    [i \in 1..(CeilDiv(Len(rows), WorldSize) * WorldSize) |-> rows[((i - 1) % Len(rows)) + 1]]

(* chunk(n)[k] *)
Chunk(rows, n, k) ==
    LET size == Len(rows) \div n IN SubSeq(rows, k * size + 1, (k + 1) * size)

Concat(parts, ranks) == FlattenSeq([i \in 1..Cardinality(ranks) |-> parts[Min(ranks) + i - 1]])

LengthsOf(rows) == [i \in DOMAIN rows |-> seqlen[rows[i]]]

(* _balance_batch, once for a batch *)
Balance ==
    /\ call = "none"
    /\ batch = AsSampled
    /\ Partitionable(seqlen, WorldSize, TRUE)
    /\ LET idx == FlattenSeq(Partitions(LengthsOf(batch), WorldSize, TRUE))
       IN  batch' = [i \in DOMAIN batch |-> batch[idx[i]]]
    /\ result' = <<>>
    /\ UNCHANGED <<seqlen, call, calls, rollout, task, actor, engine, gpu, random>>

(* The batch is padded and dispatched in equal chunks; the batch of a step *)
(* divides already.                                                        *)
Call(m) ==
    /\ call = "none"
    /\ calls < MaxCalls
    /\ call' = m
    /\ calls' = calls + 1
    /\ result' = <<>>
    /\ task' = [r \in Ranks |->
                   [Idle EXCEPT !.pc = "called", !.rows = Chunk(Pad(batch), WorldSize, r)]]
    /\ UNCHANGED <<seqlen, batch, rollout, actor, engine, gpu, random>>

(* unpad_dataproto *)
Unpad(rows) == SubSeq(rows, 1, Len(batch))

(* The outputs of the ranks, one after the other; updates have none. *)
Collect ==
    /\ call # "none"
    /\ \A r \in Ranks : task[r].pc = "returned"
    /\ result' = IF call \in {"generate_sequences", "compute_log_prob"}
                 THEN Unpad(Concat([r \in Ranks |-> task[r].out], Ranks))
                 ELSE <<>>
    /\ rollout' = IF call = "generate_sequences" THEN Append(rollout, result') ELSE rollout
    /\ call' = "none"
    /\ task' = [r \in Ranks |-> Idle]
    /\ UNCHANGED <<seqlen, batch, calls, actor, engine, gpu, random>>

-----------------------------------------------------------------------------
(* generate_sequences *)

At(r, pc) == task[r].pc = pc
Goto(r, pc) == task' = [task EXCEPT ![r].pc = pc]

(* FSDPVLLMShardingManager.__enter__: the parameters come to the GPU and *)
(* the engine's weights wake up.                                         *)
Enter(r) ==
    /\ call = "generate_sequences"
    /\ At(r, "called")
    /\ gpu' = [gpu EXCEPT ![r] = @ \cup Params \cup {"engine"}]
    /\ Goto(r, "sync")
    /\ UNCHANGED <<trainer, actor, engine, random>>

(* Mutant: no full_tensor, a rank loads what it holds itself. *)
UpdateParamsOwn ==
    /\ \A r \in Ranks : At(r, "sync")
    /\ engine' = [r \in Ranks |-> [q \in {r} |-> actor[q]]]
    /\ task' = [r \in Ranks |-> [task[r] EXCEPT !.pc = "synced"]]
    /\ UNCHANGED <<trainer, actor, gpu, random>>

(* update_params: full_tensor gathers the shards of all ranks. *)
UpdateParams ==
    /\ \A r \in Ranks : At(r, "sync")
    /\ engine' = [r \in Ranks |-> actor]
    /\ task' = [r \in Ranks |-> [task[r] EXCEPT !.pc = "synced"]]
    /\ UNCHANGED <<trainer, actor, gpu, random>>

OffloadParams(r) ==
    /\ At(r, "synced")
    /\ gpu' = [gpu EXCEPT ![r] = @ \ Params]
    /\ Goto(r, "kv")
    /\ UNCHANGED <<trainer, actor, engine, random>>

(* The cache wakes up and the engine's random state takes over. *)
WakeCache(r) ==
    /\ At(r, "kv")
    /\ gpu' = [gpu EXCEPT ![r] = @ \cup {"kv_cache"}]
    /\ random' = [random EXCEPT ![r].torch = random[r].now, ![r].now = random[r].gen]
    /\ Goto(r, "gather")
    /\ UNCHANGED <<trainer, actor, engine>>

(* preprocess_data: every rank of a group gets the prompts of all. *)
AllGather(g) ==
    /\ \A r \in GroupOf(g) : At(r, "gather")
    /\ LET rows == Concat([r \in Ranks |-> task[r].rows], GroupOf(g))
       IN  task' = [r \in Ranks |->
                       IF r \in GroupOf(g)
                       THEN [task[r] EXCEPT !.pc = "generate", !.rows = rows]
                       ELSE task[r]]
    /\ UNCHANGED <<trainer, actor, engine, gpu, random>>

(* rollout.generate_sequences: the group's engines sample in step, each *)
(* from its own random state.                                           *)
Generate(g) ==
    /\ \A r \in GroupOf(g) : At(r, "generate")
    /\ LET output(r, row) == [row |-> row, weights |-> engine[r], drawn |-> random[r].now]
       IN  task' = [r \in Ranks |->
                       IF r \in GroupOf(g)
                       THEN [task[r] EXCEPT
                                !.pc = "exit",
                                !.out = [i \in DOMAIN task[r].rows |->
                                            output(r, task[r].rows[i])]]
                       ELSE task[r]]
    /\ random' = [r \in Ranks |->
                     IF r \in GroupOf(g) THEN [random[r] EXCEPT !.now[2] = @ + 1] ELSE random[r]]
    /\ UNCHANGED <<trainer, actor, engine, gpu>>

(* Mutant: the engine's random state is not kept for the next time. *)
ExitForgetting(r) ==
    /\ At(r, "exit")
    /\ task' = [task EXCEPT ![r].pc = "returned", ![r].out = Chunk(@, TPSize, TpRank(r))]
    /\ gpu' = [gpu EXCEPT ![r] = @ \ {"engine", "kv_cache"}]
    /\ random' = [random EXCEPT ![r].now = random[r].torch]
    /\ UNCHANGED <<trainer, actor, engine>>

(* postprocess_data takes the rank's own chunk; __exit__ puts the engine *)
(* to sleep and swaps the random states back.                            *)
Exit(r) ==
    /\ At(r, "exit")
    /\ task' = [task EXCEPT ![r].pc = "returned", ![r].out = Chunk(@, TPSize, TpRank(r))]
    /\ gpu' = [gpu EXCEPT ![r] = @ \ {"engine", "kv_cache"}]
    /\ random' = [random EXCEPT ![r].gen = random[r].now, ![r].now = random[r].torch]
    /\ UNCHANGED <<trainer, actor, engine>>

-----------------------------------------------------------------------------
(* compute_log_prob, update_actor, update_reflect_actor, save_checkpoint *)

Needed == IF call \in Updates THEN Params \cup Optimizer ELSE Params

(* What was offloaded comes to the GPU. *)
Load(r) ==
    /\ call \in Methods \ {"generate_sequences"}
    /\ At(r, "called")
    /\ gpu' = [gpu EXCEPT ![r] = @ \cup Needed]
    /\ task' = [task EXCEPT ![r].pc = IF call = "save_checkpoint" THEN "saving" ELSE "mini",
                           ![r].rest = task[r].rows]
    /\ UNCHANGED <<trainer, actor, engine, random>>

(* batch.split(ppo_mini_batch_size); the others take the rows at once. *)
MiniBatch(r) ==
    IF call = "update_actor"
    THEN SubSeq(task[r].rest, 1, Least(MiniBatchSize, Len(task[r].rest)))
    ELSE task[r].rest

Own(r) == NumMicroBatches(LengthsOf(MiniBatch(r)), MaxTokenLen)

(* Mutant: same_micro_num_in_dp off. *)
OwnNumber(r) == Own(r)

(* all_reduce MAX over the ranks *)
Agreed(r) == Max({Own(q) : q \in Ranks})

(* rearrange_micro_batches *)
Rearrange ==
    /\ \A r \in Ranks : At(r, "mini")
    /\ task' = [r \in Ranks |->
          LET mini  == MiniBatch(r)
              parts == Partitions(LengthsOf(mini), Agreed(r), FALSE)
          IN  [task[r] EXCEPT
                  !.pc = "forward",
                  !.rest = SubSeq(@, Len(mini) + 1, Len(@)),
                  !.indices = FlattenSeq(parts),
                  !.micro = [i \in DOMAIN parts |-> [j \in DOMAIN parts[i] |-> mini[parts[i][j]]]]]]
    /\ UNCHANGED <<trainer, actor, engine, gpu, random>>

(* A forward pass gathers the shards of all ranks, layer by layer. *)
Forward ==
    /\ \A r \in Ranks : At(r, "forward") /\ task[r].micro # <<>>
    /\ LET output(row, r) == [row |-> row, weights |-> actor, drawn |-> random[r].now]
       IN  task' = [r \in Ranks |->
              [task[r] EXCEPT
                  !.micro = Tail(@),
                  !.out = IF call \in Updates THEN @
                          ELSE @ \o [i \in DOMAIN Head(task[r].micro) |->
                                        output(Head(task[r].micro)[i], r)]]]
    /\ UNCHANGED <<trainer, actor, engine, gpu, random>>

(* Mutant: the outputs stay in the order of the micro-batches. *)
Unreverted(rows, indices) == rows

(* log_probs[revert_indices] *)
Reverted(rows, indices) == [i \in DOMAIN rows |-> rows[ReverseIdx(indices)[i]]]

(* The end of DataParallelPPOActor.compute_log_prob *)
ReturnLogProbs(r) ==
    /\ call = "compute_log_prob"
    /\ At(r, "forward") /\ task[r].micro = <<>>
    /\ task' = [task EXCEPT ![r].pc = "offload", ![r].out = Reverted(@, task[r].indices)]
    /\ UNCHANGED <<trainer, actor, engine, gpu, random>>

(* _optimizer_step at the end of a mini-batch: clip_grad_norm_ computes the *)
(* norm over all ranks, and all of them skip a step that is not finite.     *)
OptimizerStep ==
    /\ call \in Updates
    /\ \A r \in Ranks : At(r, "forward") /\ task[r].micro = <<>>
    /\ actor' \in {actor, [r \in Ranks |-> actor[r] + 1]}
    /\ task' = [r \in Ranks |->
                   [task[r] EXCEPT !.pc = IF task[r].rest = <<>> THEN "offload" ELSE "mini"]]
    /\ UNCHANGED <<trainer, engine, gpu, random>>

(* The checkpoint manager's barriers *)
SaveShards ==
    /\ \A r \in Ranks : At(r, "saving")
    /\ task' = [r \in Ranks |-> [task[r] EXCEPT !.pc = "offload"]]
    /\ UNCHANGED <<trainer, actor, engine, gpu, random>>

(* Mutant: the optimizer stays. *)
OffloadParamsOnly(r) ==
    /\ At(r, "offload")
    /\ gpu' = [gpu EXCEPT ![r] = @ \ Params]
    /\ Goto(r, "returned")
    /\ UNCHANGED <<trainer, actor, engine, random>>

(* The end of the worker's method *)
Offload(r) ==
    /\ At(r, "offload")
    /\ gpu' = [gpu EXCEPT ![r] = @ \ Needed]
    /\ Goto(r, "returned")
    /\ UNCHANGED <<trainer, actor, engine, random>>

-----------------------------------------------------------------------------

RankStep(r) ==
    \/ Enter(r) \/ OffloadParams(r) \/ WakeCache(r) \/ Exit(r)
    \/ Load(r) \/ ReturnLogProbs(r) \/ Offload(r)

Collective ==
    \/ UpdateParams \/ Rearrange \/ Forward \/ OptimizerStep \/ SaveShards
    \/ \E g \in Groups : AllGather(g) \/ Generate(g)

Work == Collect \/ Collective \/ \E r \in Ranks : RankStep(r)

Next == Balance \/ (\E m \in Methods : Call(m)) \/ Work

Spec == Init /\ [][Next]_vars

-----------------------------------------------------------------------------
(* Properties *)

(* What comes back from the ranks is the batch: padded, chunked, balanced, *)
(* gathered, split in micro-batches and put together again, row i of the   *)
(* result is of row i of the batch, and was computed with every rank's     *)
(* shard as the last update left it.                                       *)
RowsComeBack ==
    result # <<>> =>
        /\ Len(result) = Len(batch)
        /\ \A i \in DOMAIN result :
              /\ result[i].row = batch[i]
              /\ result[i].weights = actor

PerRank == CeilDiv(Len(batch), WorldSize)
GroupAt(i) == DpRank((i - 1) \div PerRank)

(* Ranks of one tensor parallel group sample alike, different groups       *)
(* differently, and no turn of the rollout repeats the random numbers of   *)
(* an earlier one; whatever is not generation has the rank's own state.    *)
FreshSamples ==
    /\ \A s, t \in DOMAIN rollout : \A i \in DOMAIN rollout[s], j \in DOMAIN rollout[t] :
          rollout[s][i].drawn = rollout[t][j].drawn <=> s = t /\ GroupAt(i) = GroupAt(j)
    /\ \A r \in Ranks : ~At(r, "gather") /\ ~At(r, "generate") /\ ~At(r, "exit") =>
                            random[r].now = <<r, 0>>

(* The cache is given the memory that offloading leaves: it is never awake *)
(* while parameters or optimizer state that should be away are on the GPU. *)
KVCacheFits ==
    \A r \in Ranks : "kv_cache" \in gpu[r] => gpu[r] \cap (Params \cup Optimizer) = {}

Longest(rows)  == Max({seqlen[rows[i]] : i \in DOMAIN rows})
Shortest(rows) == Min({seqlen[rows[i]] : i \in DOMAIN rows})

RanksAreEven(rows) ==
    \A q, r \in Ranks :
        Tokens(seqlen, Chunk(rows, WorldSize, q)) - Tokens(seqlen, Chunk(rows, WorldSize, r))
            <= Longest(rows) - Shortest(rows)

MicroBatchesAreEven ==
    \A r \in Ranks : \A i, j \in DOMAIN task[r].micro :
        Tokens(seqlen, task[r].micro[i]) - Tokens(seqlen, task[r].micro[j])
            <= Longest(task[r].rows)

(* The differencing method keeps the load even: after balancing, two ranks *)
(* differ by no more tokens than two rows may, however many rows they have, *)
(* and two micro-batches of a rank by no more than a row has.              *)
SharesAreEven ==
    [][(batch' # batch => RanksAreEven(batch')) /\ MicroBatchesAreEven']_vars

(* rearrange_micro_batches' docstring: max_token_len is the "max sum of    *)
(* attention_mask per micro-batch".  It only sets their number: the rows   *)
(* of one may add up to more.                                              *)
MicroBatchesFit ==
    \A r \in Ranks : \A i \in DOMAIN task[r].micro :
        Tokens(seqlen, task[r].micro[i]) <= MaxTokenLen

(* Ranks never wait in different collectives for each other, each with    *)
(* rows of its own length: as long as a call is under way, some rank has a *)
(* step of its own to take or all the ranks of a collective are in it.  As *)
(* a call is finitely many steps, it returns.                              *)
CallGoesOn ==
    LET all(ranks, pc) == \A r \in ranks : At(r, pc)
        left(r)        == At(r, "forward") /\ task[r].micro # <<>>
    IN  call # "none" =>
            \/ \E r \in Ranks : task[r].pc \in {"called", "synced", "kv", "exit", "offload"}
            \/ call \notin Updates /\ \E r \in Ranks : At(r, "forward") /\ ~left(r)
            \/ call \in Updates /\ \A r \in Ranks : At(r, "forward") /\ ~left(r)
            \/ \E pc \in {"sync", "mini", "saving", "returned"} : all(Ranks, pc)
            \/ \A r \in Ranks : left(r)
            \/ \E g \in Groups, pc \in {"gather", "generate"} : all(GroupOf(g), pc)
=============================================================================
