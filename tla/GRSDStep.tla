------------------------------ MODULE GRSDStep ------------------------------
(***************************************************************************)
(* GRSDReflectRayTrainer.fit: the phases of a training step and what each  *)
(* of them reads from the ones before.                                     *)
(*                                                                         *)
(* A step rolls out a group of trajectories per prompt, scores them (the   *)
(* reward may be computed by a Ray task meanwhile), lets the policy        *)
(* reflect on each trajectory and write a prior per group that has both a  *)
(* success and a failure, evaluates its turns again with the prior, and    *)
(* then updates the critic, the actor, and the actor once more on the      *)
(* reflections an external judge has graded.  A crash loses the memory; a  *)
(* launch resumes from the last checkpoint.                                *)
(*                                                                         *)
(* Abstractions.  Policies are version numbers: an update adds one.        *)
(* episode_rewards > 0 is success; a prior is usable or blank.  Other      *)
(* modules have the details of the rollout (RolloutLoop), the judge        *)
(* (ReflectionJudge, of which score_batch's promise ScoreBatch is used     *)
(* here), the advantage (TurnAdvantage) and saving (Checkpoint, whose      *)
(* TrackerNamesComplete lets a save be one step here).  Reference log      *)
(* probabilities and values change no state of the driver.  Locals that    *)
(* the next step overwrites before it reads them are reset by Advance.     *)
(***************************************************************************)
EXTENDS Sequences, FiniteSetsExt

CONSTANTS
    NGroups, N,       \* prompts of a batch, episodes of each
    WorldSize,        \* actor_rollout_wg.world_size
    JudgeScores,      \* grades the judge may give
    CriticWarmup,     \* trainer.critic_warmup
    TotalSteps,       \* total_training_steps
    SaveFreq,         \* trainer.save_freq
    MaxCrashes        \* bound: crashes of the job

ASSUME StepAssumption ==
    /\ {NGroups, N, WorldSize, TotalSteps} \subseteq Nat \ {0}
    /\ JudgeScores \subseteq 0..3 /\ 0 \in JudgeScores
    /\ {CriticWarmup, SaveFreq, MaxCrashes} \subseteq Nat

(* traj_list: the trajectories of a batch, group by group. *)
NTrajs   == NGroups * N
Trajs    == 1..NTrajs
Uids     == 1..NGroups
Uid(t)   == (t - 1) \div N + 1
None     == -1
Unjudged == -2
NoStep   == 0

VARIABLES
    judge_enabled, launch_reward_fn_async,   \* the configuration
    pc, global_steps,
    version,          \* of the actor
    success,          \* per trajectory
    verdict,          \* judge_scores
    prior,            \* uid_to_prior: the groups with a usable prior
    rows,             \* reflect_train_batch
    by,               \* the version each phase was computed with
    future,           \* future_reward: none, running, done
    reward_tensor,    \* the step whose batch the local scores
    saved,            \* disk: the last checkpoint
    crashes

config == <<judge_enabled, launch_reward_fn_async>>
reflection == <<verdict, prior, rows>>
reward == <<future, reward_tensor>>
durable == <<saved, crashes>>
vars == <<judge_enabled, launch_reward_fn_async, pc, global_steps, version, success,
          verdict, prior, rows, by, future, reward_tensor, saved, crashes>>

Phases == {"rollout", "old", "reflect", "prior", "reflectOld", "teacher"}
NotYet == -1

(* A resumed finished job trains one step more for every resume. *)
MaxStep == TotalSteps + MaxCrashes

TypeOK ==
    /\ judge_enabled \in BOOLEAN
    /\ launch_reward_fn_async \in BOOLEAN
    /\ pc \in {"gen", "reward", "old", "reflect", "judge", "prior", "reflectOld",
               "teacher", "adv", "critic", "actor", "reflectActor", "save", "next",
               "done", "down"}
    /\ global_steps \in 1..(MaxStep + 1)
    /\ version \in 0..(2 * MaxStep)
    /\ success \in [Trajs -> BOOLEAN]
    /\ verdict \in [Trajs -> JudgeScores \cup {None, Unjudged}]
    /\ prior \subseteq Uids
    /\ rows \in Seq([traj : Trajs, adv : Int, mask : {1}])
    /\ by \in [Phases -> {NotYet} \cup 0..(2 * MaxStep)]
    /\ future \in {"none", "running", "done"}
    /\ reward_tensor \in {NoStep} \cup 1..MaxStep
    /\ saved \in [step : 0..MaxStep, version : 0..(2 * MaxStep)]
    /\ crashes \in 0..MaxCrashes

FreshBatch ==
    /\ success' = [t \in Trajs |-> FALSE]
    /\ verdict' = [t \in Trajs |-> Unjudged]
    /\ prior' = {}
    /\ rows' = <<>>
    /\ by' = [p \in Phases |-> NotYet]

Init ==
    /\ judge_enabled \in BOOLEAN
    /\ launch_reward_fn_async \in BOOLEAN
    /\ pc = "gen"
    /\ global_steps = 1
    /\ version = 0
    /\ success = [t \in Trajs |-> FALSE]
    /\ verdict = [t \in Trajs |-> Unjudged]
    /\ prior = {}
    /\ rows = <<>>
    /\ by = [p \in Phases |-> NotYet]
    /\ future = "none"
    /\ reward_tensor = NoStep
    /\ saved = [step |-> 0, version |-> 0]
    /\ crashes = 0

(* Phase p is computed with the actor as it is now. *)
Stamp(p) == by' = [by EXCEPT ![p] = version]

-----------------------------------------------------------------------------
(* Rollout, reward and old log probabilities *)

Rollout ==
    /\ pc = "gen"
    /\ pc' = "reward"
    /\ success' \in [Trajs -> BOOLEAN]
    /\ Stamp("rollout")
    /\ UNCHANGED <<config, global_steps, version, reflection, reward, durable>>

Reward ==
    /\ pc = "reward"
    /\ pc' = "old"
    /\ IF launch_reward_fn_async
       THEN future' = "running" /\ UNCHANGED reward_tensor
       ELSE reward_tensor' = global_steps /\ UNCHANGED future
    /\ UNCHANGED <<config, global_steps, version, success, reflection, by, durable>>

(* The Ray task of compute_reward_async. *)
RewardTask ==
    /\ future = "running"
    /\ pc # "down"
    /\ future' = "done"
    /\ UNCHANGED <<config, pc, global_steps, version, success, reflection, by,
                   reward_tensor, durable>>

OldLogProb ==
    /\ pc = "old"
    /\ pc' = "reflect"
    /\ Stamp("old")
    /\ UNCHANGED <<config, global_steps, version, success, reflection, reward, durable>>

-----------------------------------------------------------------------------
(* _reflect_and_build_priors, _build_reflect_train_batch, the teacher *)

(* Stage A: one reflection for every trajectory. *)
Reflect ==
    /\ pc = "reflect"
    /\ pc' = IF judge_enabled THEN "judge" ELSE "prior"
    /\ Stamp("reflect")
    /\ UNCHANGED <<config, global_steps, version, success, reflection, reward, durable>>

(* score_batch returns a grade or None for each; 0 for a blank reflection. *)
Judge ==
    /\ pc = "judge"
    /\ pc' = "prior"
    /\ verdict' \in [Trajs -> JudgeScores \cup {None}]
    /\ UNCHANGED <<config, global_steps, version, success, prior, rows, by,
                   reward, durable>>

Contrastive(u) ==
    \E t, s \in Trajs : Uid(t) = u /\ Uid(s) = u /\ success[t] /\ ~success[s]

(* Stage B: a prior for every contrastive group, kept unless it is blank.  *)
(* Without such a group nothing is generated.                              *)
Prior ==
    /\ pc = "prior"
    /\ pc' = "reflectOld"
    /\ prior' \in SUBSET {u \in Uids : Contrastive(u)}
    /\ IF \E u \in Uids : Contrastive(u) THEN Stamp("prior") ELSE UNCHANGED by
    /\ UNCHANGED <<config, global_steps, version, success, verdict, rows, reward,
                   durable>>

(* The judged trajectories of t's group. *)
Graded(t) == {s \in Trajs : Uid(s) = Uid(t) /\ verdict[s] # None}

(* Mutant: failed verdicts enter the group's mean with their score of 0. *)
RefAdvUnmasked(t) ==
    LET group == {s \in Trajs : Uid(s) = Uid(t)}
        Score(s) == IF verdict[s] = None THEN 0 ELSE verdict[s]
    IN  IF verdict[t] = None THEN 0
        ELSE Cardinality(group) * Score(t) - MapThenSumSet(Score, group)

(* compute_group_normalized_advantage, without the positive factor         *)
(* 1 / (count * (std + eps)): the distance from the mean of the graded     *)
(* trajectories, 0 for one that is not graded or graded alone.             *)
RefAdv(t) ==
    IF verdict[t] = None \/ Cardinality(Graded(t)) < 2 THEN 0
    ELSE Cardinality(Graded(t)) * verdict[t]
            - MapThenSumSet(LAMBDA s : verdict[s], Graded(t))

(* Every token of a reflection stays in its response_mask. *)
ReflectRow(t) == [traj |-> t, adv |-> RefAdv(t), mask |-> 1]

ReflectLogProb ==
    /\ pc = "reflectOld"
    /\ pc' = "teacher"
    /\ IF judge_enabled
       THEN /\ rows' = [t \in Trajs |-> ReflectRow(t)]
            /\ Stamp("reflectOld")
       ELSE UNCHANGED <<rows, by>>
    /\ UNCHANGED <<config, global_steps, version, success, verdict, prior, reward,
                   durable>>

Teacher ==
    /\ pc = "teacher"
    /\ pc' = "adv"
    /\ Stamp("teacher")
    /\ UNCHANGED <<config, global_steps, version, success, reflection, reward, durable>>

-----------------------------------------------------------------------------
(* Advantages and updates *)

(* Mutant: the driver goes on with the reward it has. *)
AdvantageNotAwaiting ==
    /\ pc = "adv"
    /\ pc' = "critic"
    /\ future' = "none"
    /\ reward_tensor' = IF future = "done" THEN global_steps ELSE reward_tensor
    /\ UNCHANGED <<config, global_steps, version, success, reflection, by, durable>>

(* Mutant: the driver waits for a task it may not have launched. *)
AdvantageAlwaysAwaiting ==
    /\ pc = "adv"
    /\ future = "done"
    /\ pc' = "critic"
    /\ future' = "none"
    /\ reward_tensor' = global_steps
    /\ UNCHANGED <<config, global_steps, version, success, reflection, by, durable>>

(* ray.get(future_reward) when it was launched.  The step in reward_tensor *)
(* is a history variable: it says which batch the task was given.          *)
Advantage ==
    /\ pc = "adv"
    /\ pc' = "critic"
    /\ IF launch_reward_fn_async
       THEN /\ future = "done"
            /\ future' = "none"
            /\ reward_tensor' = global_steps
       ELSE UNCHANGED reward
    /\ UNCHANGED <<config, global_steps, version, success, reflection, by, durable>>

(* The critic, when there is one, is updated in every step. *)
UpdateCritic ==
    /\ pc = "critic"
    /\ pc' = IF CriticWarmup <= global_steps THEN "actor" ELSE "save"
    /\ UNCHANGED <<config, global_steps, version, success, reflection, by, reward, durable>>

(* Mutant: the reflections' old log probabilities come after the update. *)
UpdateActorFirst ==
    /\ pc = "actor"
    /\ pc' = IF judge_enabled THEN "reflectActor" ELSE "save"
    /\ version' = version + 1
    /\ by' = [by EXCEPT !["reflectOld"] = version']
    /\ UNCHANGED <<config, global_steps, success, reflection, reward, durable>>

UpdateActor ==
    /\ pc = "actor"
    /\ pc' = IF judge_enabled THEN "reflectActor" ELSE "save"
    /\ version' = version + 1
    /\ UNCHANGED <<config, global_steps, success, reflection, by, reward, durable>>

PadSize == (-NTrajs) % WorldSize

(* pad_dataproto_to_divisor repeats the batch from its start; the          *)
(* advantages of the copies are set to zero.                               *)
Padded ==
    [i \in 1..(NTrajs + PadSize) |->
        IF i <= NTrajs THEN rows[i] ELSE [rows[((i - 1) % NTrajs) + 1] EXCEPT !.adv = 0]]

UpdateReflect ==
    /\ pc = "reflectActor"
    /\ pc' = "save"
    /\ version' = version + 1
    /\ UNCHANGED <<config, global_steps, success, reflection, by, reward, durable>>

-----------------------------------------------------------------------------
(* The end of a step, crashes and launches *)

(* Mutant: the last step is told by equality; a job resumed at it goes on. *)
IsLastStepExact == global_steps = TotalSteps

IsLastStep == global_steps >= TotalSteps
SaveDue == SaveFreq > 0 /\ (IsLastStep \/ global_steps % SaveFreq = 0)

Save ==
    /\ pc = "save"
    /\ pc' = "next"
    /\ saved' = IF SaveDue THEN [step |-> global_steps, version |-> version] ELSE saved
    /\ UNCHANGED <<config, global_steps, version, success, reflection, by, reward, crashes>>

Advance ==
    /\ pc = "next"
    /\ FreshBatch
    /\ global_steps' = global_steps + 1
    /\ pc' = IF IsLastStep THEN "done" ELSE "gen"
    /\ UNCHANGED <<config, version, reward, durable>>

(* The job dies, or a finished one is launched again. *)
Crash ==
    /\ pc # "down"
    /\ crashes < MaxCrashes
    /\ crashes' = crashes + 1
    /\ pc' = "down"
    /\ UNCHANGED <<config, global_steps, version, success, reflection, by, reward, saved>>

(* Mutant: the step of the checkpoint is trained again. *)
RelaunchRedoing ==
    /\ pc = "down"
    /\ pc' = "gen"
    /\ global_steps' = IF saved.step = 0 THEN 1 ELSE saved.step
    /\ version' = saved.version
    /\ FreshBatch
    /\ future' = "none"
    /\ reward_tensor' = NoStep
    /\ UNCHANGED <<config, durable>>

(* _load_checkpoint, then global_steps += 1. *)
Relaunch ==
    /\ pc = "down"
    /\ pc' = "gen"
    /\ global_steps' = saved.step + 1
    /\ version' = saved.version
    /\ FreshBatch
    /\ future' = "none"
    /\ reward_tensor' = NoStep
    /\ UNCHANGED <<config, durable>>

Driver ==
    Rollout \/ Reward \/ OldLogProb \/ Reflect \/ Judge \/ Prior \/ ReflectLogProb
    \/ Teacher \/ Advantage \/ UpdateCritic \/ UpdateActor \/ UpdateReflect
    \/ Save \/ Advance

Next == Driver \/ RewardTask \/ Crash \/ Relaunch

Spec == Init /\ [][Next]_vars

(* The driver runs, its RPCs and score_batch return (BatchReturns), and a  *)
(* Ray task that was launched is run.                                      *)
Fairness == WF_vars(Driver) /\ WF_vars(RewardTask)

FairSpec == Spec /\ Fairness

-----------------------------------------------------------------------------
(* Properties *)

(* One snapshot of the policy serves a whole step: the log probabilities   *)
(* the updates compare with (old, teacher, reflection) are of the policy   *)
(* that rolled out, reflected and wrote the priors, also for the second,   *)
(* reflection pass, which comes after the actor has already changed.       *)
OneSnapshot ==
    /\ pc \in {"critic", "actor"} =>
          \A p \in Phases : by[p] # NotYet => by[p] = version
    /\ pc = "reflectActor" =>
          /\ \A p \in Phases : by[p] # NotYet => by[p] = by["rollout"]
          /\ by["reflectOld"] # NotYet

(* The advantages of a step are made of the rewards of its own batch,      *)
(* whether they were computed in place or by a task that ran meanwhile.    *)
RewardIsOfThisStep == pc \in {"critic", "actor"} => reward_tensor = global_steps

(* The reflection pass pushes no group as a whole: however verdicts fail   *)
(* and however the batch is padded, the advantages of a group's rows sum   *)
(* to zero, and an ungraded reflection has none.                           *)
ReflectionGradientIsCentred ==
    pc = "reflectActor" =>
        /\ \A u \in Uids :
              MapThenSumSet(LAMBDA i : Padded[i].adv,
                  {i \in 1..(NTrajs + PadSize) : Uid(Padded[i].traj) = u}) = 0
        /\ \A i \in 1..(NTrajs + PadSize) : verdict[Padded[i].traj] = None => Padded[i].adv = 0

(* The updates an actor has had when step s begins. *)
UpdatesBefore(s) ==
    (IF judge_enabled THEN 2 ELSE 1) * Cardinality({u \in 1..(s - 1) : CriticWarmup <= u})

(* Wherever the job crashes and resumes, no update is lost, applied twice  *)
(* or separated from its reflection pass: the actor is the one an          *)
(* uninterrupted run would have at this step.                              *)
ResumesTheSameRun == pc = "gen" => version = UpdatesBefore(global_steps)

(* Every step that begins ends, and so does the run, unless it crashes. *)
StepEnds == \A s \in 1..MaxStep : (pc = "gen" /\ global_steps = s) ~>
                (pc \in {"done", "down"} \/ global_steps > s)

(* ReflectionJudge's docstring: callers treat None as "exclude this        *)
(* reflection from the loss" (masked out).  Its advantage is 0, but its    *)
(* tokens stay in the response_mask the loss is averaged over.             *)
FailedVerdictIsMaskedOut ==
    pc = "reflectActor" =>
        \A i \in 1..Len(rows) : verdict[rows[i].traj] = None => rows[i].mask = 0
=============================================================================
