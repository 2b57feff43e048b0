---------------------------- MODULE GRSDStepProofs ----------------------------
(***************************************************************************)
(* Proofs about GRSDStep, for every batch, warmup, save frequency and      *)
(* number of crashes: one snapshot of the policy serves a step, a step is  *)
(* trained on its own reward, a resumed job is the uninterrupted one, and  *)
(* the reflections of a group have advantages that add up to zero.         *)
(*                                                                         *)
(* The argument.  Every phase before the actor's update is stamped with    *)
(* the version that rolled out (Stamps); the reward is this step's or its  *)
(* task is under way (Rewarded); the actor's version is the number of      *)
(* updates due before its step, in memory and in the checkpoint (Counted). *)
(* That deviations from a group's mean cancel is a fact about sums over    *)
(* sets, whatever the verdicts are.                                        *)
(***************************************************************************)
EXTENDS GRSDStep, CommonLemmas, TLAPS

(* The points of a step before the actor is updated. *)
BeforeUpdate ==
    {"gen", "reward", "old", "reflect", "judge", "prior", "reflectOld", "teacher", "adv",
     "critic", "actor"}

Types ==
    /\ judge_enabled \in BOOLEAN
    /\ launch_reward_fn_async \in BOOLEAN
    /\ pc \in BeforeUpdate \cup {"reflectActor", "save", "next", "done", "down"}
    /\ global_steps \in Nat \ {0}
    /\ version \in Nat
    /\ by \in [Phases -> Int]
    /\ saved.step \in Nat /\ saved.version \in Nat

(* Whatever is stamped in a step is stamped with the version that rolled out. *)
Stamps ==
    /\ pc \in BeforeUpdate => \A p \in Phases : by[p] \in {NotYet, version}
    /\ pc \in BeforeUpdate \ {"gen"} => by["rollout"] = version
    /\ judge_enabled /\ pc \in {"teacher", "adv", "critic", "actor"} =>
          by["reflectOld"] = version
    /\ pc = "reflectActor" =>
          /\ \A p \in Phases : by[p] \in {NotYet, by["rollout"]}
          /\ by["reflectOld"] = by["rollout"]
          /\ by["rollout"] # NotYet
          /\ judge_enabled

(* The reward of this step is there, or a task computes it. *)
Rewarded ==
    /\ pc \in {"old", "reflect", "judge", "prior", "reflectOld", "teacher", "adv"}
          /\ ~launch_reward_fn_async => reward_tensor = global_steps
    /\ pc \in {"critic", "actor"} => reward_tensor = global_steps

(* The steps before s at which the actor is updated. *)
Due(s) == {u \in 1..(s - 1) : CriticWarmup <= u}

UpdatesPerStep == IF judge_enabled THEN 2 ELSE 1

(* The actor has had the updates due, in memory and on disk. *)
Counted ==
    /\ pc \in BeforeUpdate => version = UpdatesPerStep * Cardinality(Due(global_steps))
    /\ pc \in {"actor", "reflectActor"} => CriticWarmup <= global_steps
    /\ pc = "reflectActor" =>
          version = UpdatesPerStep * Cardinality(Due(global_steps)) + 1
    /\ pc \in {"save", "next"} =>
          version = UpdatesPerStep * Cardinality(Due(global_steps + 1))
    /\ saved.version = UpdatesPerStep * Cardinality(Due(saved.step + 1))

IInv == Types /\ Stamps /\ Rewarded /\ Counted

-----------------------------------------------------------------------------
(* Counting *)

(* The updates due grow by one at every step from critic_warmup on. *)
LEMMA DueGrows ==
    ASSUME NEW s \in Nat \ {0}
    PROVE  /\ Cardinality(Due(s)) \in Nat
           /\ CriticWarmup <= s => Cardinality(Due(s + 1)) = Cardinality(Due(s)) + 1
           /\ ~(CriticWarmup <= s) => Due(s + 1) = Due(s)
<1>1. IsFiniteSet(Due(s)) /\ Cardinality(Due(s)) \in Nat
  <2>1. IsFiniteSet(1..(s - 1))
    BY FS_Interval
  <2>2. Due(s) \subseteq 1..(s - 1)
    BY DEF Due
  <2> QED
    BY <2>1, <2>2, FS_Subset, FS_CardinalityType
<1>2. s \notin Due(s)
  BY DEF Due
<1>3. CriticWarmup <= s => Due(s + 1) = Due(s) \cup {s}
  BY DEF Due
<1>4. ~(CriticWarmup <= s) => Due(s + 1) = Due(s)
  BY DEF Due
<1>5. Cardinality(Due(s) \cup {s}) = Cardinality(Due(s)) + 1
  BY <1>1, <1>2, FS_AddElement
<1> QED
  BY <1>1, <1>3, <1>4, <1>5

(* Nothing is due before the first step. *)
LEMMA NothingDue == Cardinality(Due(1)) = 0
<1>1. Due(1) = {}
  BY DEF Due
<1> QED
  BY <1>1, FS_EmptySet

-----------------------------------------------------------------------------
(* The initial states and the steps *)

(* The invariant holds at the start. *)
LEMMA InitIInv == Init => IInv
<1> SUFFICES ASSUME Init PROVE IInv
  OBVIOUS
<1>1. /\ pc = "gen" /\ global_steps = 1 /\ version = 0
      /\ by = [p \in Phases |-> NotYet]
      /\ saved = [step |-> 0, version |-> 0]
      /\ judge_enabled \in BOOLEAN /\ launch_reward_fn_async \in BOOLEAN
  BY DEF Init
<1>2. Types /\ Stamps /\ Rewarded
  BY <1>1 DEF Types, Stamps, Rewarded, BeforeUpdate, NotYet
<1>3. Counted
  BY <1>1, NothingDue DEF Counted, UpdatesPerStep, BeforeUpdate
<1> QED
  BY <1>2, <1>3 DEF IInv

(* The phases before the update: each is stamped with the actor's version. *)
LEMMA PhaseIInv ==
    ASSUME IInv, Rollout \/ OldLogProb \/ Reflect \/ Judge \/ Prior \/ ReflectLogProb \/ Teacher
    PROVE  IInv'
<1>1. /\ pc \in BeforeUpdate \ {"adv", "critic", "actor"}
      /\ pc' \in BeforeUpdate \ {"gen", "critic", "actor"}
      /\ pc' \in {"old", "reflect", "judge", "prior", "reflectOld", "teacher", "adv"} =>
            pc \in {"old", "reflect", "judge", "prior", "reflectOld", "teacher"}
      /\ pc' = "adv" => pc = "teacher"
      /\ UNCHANGED <<judge_enabled, launch_reward_fn_async, global_steps, version, future,
                      reward_tensor, saved, crashes>>
  BY DEF Rollout, OldLogProb, Reflect, Judge, Prior, ReflectLogProb, Teacher, BeforeUpdate,
         config, reward, durable
<1>2. \/ pc # "gen" /\ UNCHANGED by
      \/ pc # "gen" /\ \E p \in Phases : by' = [by EXCEPT ![p] = version]
      \/ pc = "gen" /\ by' = [by EXCEPT !["rollout"] = version]
  BY DEF Rollout, OldLogProb, Reflect, Judge, Prior, ReflectLogProb, Teacher, Stamp, Phases
<1>3. pc' = "teacher" /\ judge_enabled =>
          by' = [by EXCEPT !["reflectOld"] = version]
  BY DEF Rollout, OldLogProb, Reflect, Judge, Prior, ReflectLogProb, Teacher, Stamp
<1>4. Types'
  BY <1>1, <1>2 DEF IInv, Types, Phases
<1>5. Stamps'
  <2>1. by' \in [Phases -> Int] /\ by \in [Phases -> Int]
    BY <1>4 DEF IInv, Types
  <2>2. \A p \in Phases : by'[p] \in {NotYet, version}
    BY <1>1, <1>2, <2>1 DEF IInv, Stamps
  <2>3. by'["rollout"] = version
    BY <1>1, <1>2, <2>1 DEF IInv, Stamps, Phases
  <2>4. judge_enabled /\ pc' \in {"teacher", "adv"} => by'["reflectOld"] = version
    BY <1>1, <1>2, <1>3, <2>1 DEF IInv, Stamps, Phases
  <2> QED
    BY <1>1, <2>2, <2>3, <2>4 DEF Stamps, BeforeUpdate
<1>6. Rewarded'
  BY <1>1 DEF IInv, Rewarded, BeforeUpdate
<1>7. Counted'
  BY <1>1 DEF IInv, Counted, UpdatesPerStep, Due, BeforeUpdate
<1> QED
  BY <1>4, <1>5, <1>6, <1>7 DEF IInv

(* Computing the reward here or starting its task. *)
LEMMA RewardIInv == ASSUME IInv, Reward PROVE IInv'
<1>1. /\ pc = "reward" /\ pc' = "old"
      /\ ~launch_reward_fn_async => reward_tensor' = global_steps
      /\ UNCHANGED <<judge_enabled, launch_reward_fn_async, global_steps, version, by,
                      saved, crashes>>
  BY DEF Reward, config, durable
<1>2. Types' /\ Stamps' /\ Rewarded' /\ Counted'
  BY <1>1 DEF IInv, Types, Stamps, Rewarded, Counted, UpdatesPerStep, Due, BeforeUpdate
<1> QED
  BY <1>2 DEF IInv

(* The task only changes the future. *)
LEMMA RewardTaskIInv == ASSUME IInv, RewardTask PROVE IInv'
<1>1. UNCHANGED <<judge_enabled, launch_reward_fn_async, pc, global_steps, version, by,
                  reward_tensor, saved, crashes>>
  BY DEF RewardTask, config, durable
<1>2. Types' /\ Stamps' /\ Rewarded' /\ Counted'
  BY <1>1 DEF IInv, Types, Stamps, Rewarded, Counted, UpdatesPerStep, Due
<1> QED
  BY <1>2 DEF IInv

(* The advantage awaits the reward of this step. *)
LEMMA AdvantageIInv == ASSUME IInv, Advantage PROVE IInv'
<1>1. /\ pc = "adv" /\ pc' = "critic"
      /\ \/ launch_reward_fn_async /\ reward_tensor' = global_steps
         \/ ~launch_reward_fn_async /\ UNCHANGED reward_tensor
      /\ UNCHANGED <<judge_enabled, launch_reward_fn_async, global_steps, version, by,
                      saved, crashes>>
  BY DEF Advantage, IInv, Types, config, reward, durable
<1>2. Types' /\ Stamps' /\ Rewarded' /\ Counted'
  BY <1>1 DEF IInv, Types, Stamps, Rewarded, Counted, UpdatesPerStep, Due, BeforeUpdate
<1> QED
  BY <1>2 DEF IInv

(* The updates: the count of what is due and the version go up together. *)
LEMMA UpdateIInv ==
    ASSUME IInv, UpdateCritic \/ UpdateActor \/ UpdateReflect
    PROVE  IInv'
<1>1. /\ \/ /\ pc = "critic" /\ pc' = "actor" /\ CriticWarmup <= global_steps
            /\ version' = version
         \/ /\ pc = "critic" /\ pc' = "save" /\ ~(CriticWarmup <= global_steps)
            /\ version' = version
         \/ pc = "actor" /\ pc' = "reflectActor" /\ judge_enabled /\ version' = version + 1
         \/ pc = "actor" /\ pc' = "save" /\ ~judge_enabled /\ version' = version + 1
         \/ pc = "reflectActor" /\ pc' = "save" /\ version' = version + 1
      /\ UNCHANGED <<judge_enabled, launch_reward_fn_async, global_steps, by,
                      reward_tensor, saved, crashes>>
  BY DEF UpdateCritic, UpdateActor, UpdateReflect, config, reward, durable
<1>2. Types'
  BY <1>1 DEF IInv, Types, BeforeUpdate
<1>3. Stamps'
  BY <1>1 DEF IInv, Types, Stamps, BeforeUpdate, NotYet
<1>4. Rewarded'
  BY <1>1 DEF IInv, Rewarded
<1>5. Counted'
  <2>1. /\ Cardinality(Due(global_steps)) \in Nat
        /\ CriticWarmup <= global_steps =>
              Cardinality(Due(global_steps + 1)) = Cardinality(Due(global_steps)) + 1
        /\ ~(CriticWarmup <= global_steps) => Due(global_steps + 1) = Due(global_steps)
    BY DueGrows DEF IInv, Types
  <2>2. UpdatesPerStep' = UpdatesPerStep
    BY <1>1 DEF UpdatesPerStep
  <2>3. Due(global_steps)' = Due(global_steps) /\ Due(global_steps + 1)' = Due(global_steps + 1)
        /\ Due(saved.step + 1)' = Due(saved.step + 1)
    BY <1>1 DEF Due
  <2>4. /\ judge_enabled => UpdatesPerStep = 2
        /\ ~judge_enabled => UpdatesPerStep = 1
    BY DEF UpdatesPerStep
  <2> DEFINE n == Cardinality(Due(global_steps))
             m == Cardinality(Due(global_steps + 1))
  <2>5. /\ pc \in {"critic", "actor"} => version = UpdatesPerStep * n
        /\ pc \in {"actor", "reflectActor"} => CriticWarmup <= global_steps
        /\ pc = "reflectActor" => version = UpdatesPerStep * n + 1 /\ judge_enabled
    BY DEF IInv, Stamps, Counted, BeforeUpdate
  <2>6. saved'.version = UpdatesPerStep * Cardinality(Due(saved.step + 1))
    BY <1>1 DEF IInv, Counted
  <2>7. n \in Nat /\ version \in Nat /\ (CriticWarmup <= global_steps => m = n + 1)
        /\ (~(CriticWarmup <= global_steps) => m = n)
    BY <2>1 DEF IInv, Types
  <2> HIDE DEF n, m
  <2>8. CASE judge_enabled
    <3>1. /\ pc' = "actor" => version' = 2 * n /\ CriticWarmup <= global_steps
          /\ pc' = "reflectActor" => version' = 2 * n + 1 /\ CriticWarmup <= global_steps
          /\ pc' = "save" => version' = 2 * m
      BY <1>1, <2>4, <2>5, <2>7, <2>8
    <3> QED
      BY <1>1, <2>2, <2>3, <2>4, <2>6, <2>8, <3>1 DEF Counted, BeforeUpdate, n, m
  <2>9. CASE ~judge_enabled
    <3>1. /\ pc' = "actor" => version' = 1 * n /\ CriticWarmup <= global_steps
          /\ pc' # "reflectActor"
          /\ pc' = "save" => version' = 1 * m
      BY <1>1, <2>4, <2>5, <2>7, <2>9
    <3> QED
      BY <1>1, <2>2, <2>3, <2>4, <2>6, <2>9, <3>1 DEF Counted, BeforeUpdate, n, m
  <2> QED
    BY <2>8, <2>9
<1> QED
  BY <1>2, <1>3, <1>4, <1>5 DEF IInv

(* Saving, going on, crashing and resuming. *)
LEMMA StepEndIInv == ASSUME IInv, Save \/ Advance \/ Crash \/ Relaunch PROVE IInv'
<1>1. CASE Save
  <2>1. /\ pc = "save" /\ pc' = "next"
        /\ \/ saved' = [step |-> global_steps, version |-> version]
           \/ saved' = saved
        /\ UNCHANGED <<judge_enabled, launch_reward_fn_async, global_steps, version, by>>
    BY <1>1 DEF Save, config
  <2>2. Types' /\ Stamps' /\ Rewarded'
    BY <2>1 DEF IInv, Types, Stamps, Rewarded, BeforeUpdate
  <2>3. Counted'
    <3>1. /\ UpdatesPerStep' = UpdatesPerStep
          /\ Due(global_steps + 1)' = Due(global_steps + 1)
          /\ Due(saved.step + 1)' = Due(saved'.step + 1)
      BY <2>1 DEF UpdatesPerStep, Due
    <3>2. version = UpdatesPerStep * Cardinality(Due(global_steps + 1))
      BY <2>1 DEF IInv, Counted
    <3>3. saved'.version = UpdatesPerStep * Cardinality(Due(saved'.step + 1))
      <4>1. CASE saved' = [step |-> global_steps, version |-> version]
        BY <3>2, <4>1
      <4>2. CASE saved' = saved
        BY <4>2 DEF IInv, Counted
      <4> QED
        BY <2>1, <4>1, <4>2
    <3> QED
      BY <2>1, <3>1, <3>2, <3>3 DEF Counted, BeforeUpdate
  <2> QED
    BY <2>2, <2>3 DEF IInv
<1>2. CASE Advance
  <2>1. /\ pc = "next" /\ pc' \in {"done", "gen"} /\ global_steps' = global_steps + 1
        /\ by' = [p \in Phases |-> NotYet]
        /\ UNCHANGED <<judge_enabled, launch_reward_fn_async, version, saved>>
    BY <1>2 DEF Advance, FreshBatch, config, durable
  <2>2. Types' /\ Stamps' /\ Rewarded'
    BY <2>1 DEF IInv, Types, Stamps, Rewarded, BeforeUpdate, NotYet
  <2>3. Counted'
    BY <2>1 DEF IInv, Counted, UpdatesPerStep, Due, BeforeUpdate
  <2> QED
    BY <2>2, <2>3 DEF IInv
<1>3. CASE Crash
  <2>1. /\ pc' = "down"
        /\ UNCHANGED <<judge_enabled, launch_reward_fn_async, global_steps, version, by, saved>>
    BY <1>3 DEF Crash, config
  <2>2. Types' /\ Stamps' /\ Rewarded'
    BY <2>1 DEF IInv, Types, Stamps, Rewarded, BeforeUpdate
  <2>3. Counted'
    BY <2>1 DEF IInv, Counted, UpdatesPerStep, Due, BeforeUpdate
  <2> QED
    BY <2>2, <2>3 DEF IInv
<1>4. CASE Relaunch
  <2>1. /\ pc' = "gen" /\ global_steps' = saved.step + 1 /\ version' = saved.version
        /\ by' = [p \in Phases |-> NotYet]
        /\ UNCHANGED <<judge_enabled, launch_reward_fn_async, saved>>
    BY <1>4 DEF Relaunch, FreshBatch, config, durable
  <2>2. Types' /\ Stamps' /\ Rewarded'
    BY <2>1 DEF IInv, Types, Stamps, Rewarded, BeforeUpdate, NotYet
  <2>3. Counted'
    BY <2>1 DEF IInv, Counted, UpdatesPerStep, Due, BeforeUpdate
  <2> QED
    BY <2>2, <2>3 DEF IInv
<1> QED
  BY <1>1, <1>2, <1>3, <1>4

(* Every step keeps the invariant. *)
LEMMA NextIInv == ASSUME IInv, [Next]_vars PROVE IInv'
<1>1. CASE UNCHANGED vars
  BY <1>1 DEF vars, IInv, Types, Stamps, Rewarded, Counted, UpdatesPerStep, Due
<1>2. CASE Next
  BY <1>2, PhaseIInv, RewardIInv, RewardTaskIInv, AdvantageIInv, UpdateIInv, StepEndIInv
     DEF Next, Driver
<1> QED
  BY <1>1, <1>2

-----------------------------------------------------------------------------
(* Bounds and types *)

(* Every resumption of a finished job adds a step. *)
Bounded ==
    /\ crashes \in 0..MaxCrashes
    /\ pc \notin {"done", "down"} => global_steps <= TotalSteps + crashes
    /\ pc = "done" => global_steps <= TotalSteps + crashes + 1
    /\ pc = "down" =>
          /\ global_steps <= TotalSteps + crashes
          /\ saved.step + 1 <= TotalSteps + crashes
    /\ saved.step <= TotalSteps + crashes

(* What the variables hold; where updates are not counted, the version. *)
Held ==
    /\ pc \in {"done", "down"} => version <= 2 * MaxStep
    /\ success \in [Trajs -> BOOLEAN]
    /\ verdict \in [Trajs -> JudgeScores \cup {None, Unjudged}]
    /\ prior \subseteq Uids
    /\ rows \in Seq([traj : Trajs, adv : Int, mask : {1}])
    /\ by \in [Phases -> {NotYet} \cup 0..(2 * MaxStep)]
    /\ future \in {"none", "running", "done"}
    /\ reward_tensor \in {NoStep} \cup 1..MaxStep
    /\ saved \in [step : Nat, version : Nat]

(* The constants are naturals. *)
LEMMA Constants ==
    /\ NGroups \in Nat /\ NGroups >= 1 /\ N \in Nat /\ N >= 1
    /\ WorldSize \in Nat /\ WorldSize >= 1 /\ TotalSteps \in Nat /\ TotalSteps >= 1
    /\ CriticWarmup \in Nat /\ SaveFreq \in Nat /\ MaxCrashes \in Nat
    /\ JudgeScores \subseteq 0..3
    /\ MaxStep \in Nat /\ NTrajs \in Nat /\ NTrajs >= 1
<1>1. /\ NGroups \in Nat \ {0} /\ N \in Nat \ {0} /\ WorldSize \in Nat \ {0}
      /\ TotalSteps \in Nat \ {0}
  BY StepAssumption
<1>2. CriticWarmup \in Nat /\ SaveFreq \in Nat /\ MaxCrashes \in Nat /\ JudgeScores \subseteq 0..3
  BY StepAssumption
<1>3. \A a, b \in Nat \ {0} : a * b \in Nat /\ a * b >= 1
  OBVIOUS
<1>4. NGroups * N \in Nat /\ NGroups * N >= 1
  BY <1>1, <1>3
<1> QED
  BY <1>1, <1>2, <1>4 DEF MaxStep, NTrajs

(* At the start. *)
LEMMA InitBounded == Init => Bounded /\ Held
<1> SUFFICES ASSUME Init PROVE Bounded /\ Held
  OBVIOUS
<1>1. Bounded
  BY Constants DEF Init, Bounded
<1>2. rows \in Seq([traj : Trajs, adv : Int, mask : {1}])
  BY DEF Init
<1>3. Held
  BY Constants, <1>2 DEF Init, Held, Unjudged
<1> QED
  BY <1>1, <1>3

(* Every step keeps the bounds: only a resumed finished job passes the     *)
(* last step, once for every crash.                                        *)
LEMMA NextBounded == ASSUME IInv, Bounded, [Next]_vars PROVE Bounded'
<1> USE Constants
<1>1. global_steps \in Nat /\ saved.step \in Nat /\ crashes \in Nat
  BY DEF IInv, Types, Bounded
<1>2. CASE UNCHANGED <<global_steps, crashes, saved>> /\ pc \notin {"done", "down"}
              /\ pc' \notin {"done", "down"}
  BY <1>2 DEF Bounded
<1>3. CASE UNCHANGED <<pc, global_steps, crashes, saved>>
  BY <1>3 DEF Bounded
<1>4. CASE Save
  <2>1. /\ pc = "save" /\ pc' = "next" /\ UNCHANGED <<global_steps, crashes>>
        /\ saved'.step \in {global_steps, saved.step}
    BY <1>4 DEF Save
  <2> QED
    BY <1>1, <2>1 DEF Bounded
<1>5. CASE Advance
  <2>1. /\ pc = "next" /\ global_steps' = global_steps + 1
        /\ pc' = IF global_steps >= TotalSteps THEN "done" ELSE "gen"
        /\ UNCHANGED <<saved, crashes>>
    BY <1>5 DEF Advance, IsLastStep, durable
  <2> QED
    BY <1>1, <2>1 DEF Bounded
<1>6. CASE Crash
  <2>1. /\ pc # "down" /\ pc' = "down" /\ crashes < MaxCrashes /\ crashes' = crashes + 1
        /\ UNCHANGED <<saved, global_steps>>
    BY <1>6 DEF Crash
  <2>2. global_steps <= TotalSteps + crashes + 1
    BY <1>1, <2>1 DEF Bounded
  <2> QED
    BY <1>1, <2>1, <2>2 DEF Bounded
<1>7. CASE Relaunch
  <2>1. /\ pc = "down" /\ pc' = "gen" /\ global_steps' = saved.step + 1
        /\ UNCHANGED <<saved, crashes>>
    BY <1>7 DEF Relaunch, durable
  <2> QED
    BY <1>1, <2>1 DEF Bounded
<1>8. CASE UNCHANGED vars
  BY <1>3, <1>8 DEF vars
<1>9. CASE RewardTask
  BY <1>3, <1>9 DEF RewardTask, durable
<1>10. CASE Rollout \/ Reward \/ OldLogProb \/ Reflect \/ Judge \/ Prior \/ ReflectLogProb
               \/ Teacher \/ Advantage \/ UpdateCritic \/ UpdateActor \/ UpdateReflect
  BY <1>2, <1>10 DEF Rollout, Reward, OldLogProb, Reflect, Judge, Prior, ReflectLogProb,
     Teacher, Advantage, UpdateCritic, UpdateActor, UpdateReflect, durable
<1> QED
  BY <1>4, <1>5, <1>6, <1>7, <1>8, <1>9, <1>10 DEF Next, Driver

(* Before step s at most s - 1 updates of the actor are due. *)
LEMMA DueBound ==
    ASSUME NEW s \in Nat \ {0}
    PROVE  Cardinality(Due(s)) \in Nat /\ Cardinality(Due(s)) <= s - 1
<1>1. IsFiniteSet(1..(s - 1)) /\ Cardinality(1..(s - 1)) = s - 1
  BY FS_Interval
<1>2. Due(s) \in SUBSET (1..(s - 1))
  BY DEF Due
<1> QED
  BY <1>1, <1>2, FS_Subset, FS_CardinalityType

(* So the versions in memory and on disk are bounded. *)
LEMMA VersionsBounded ==
    ASSUME IInv, Bounded, Held
    PROVE  version <= 2 * MaxStep /\ saved.version <= 2 * MaxStep
           /\ version \in Nat /\ saved.version \in Nat
<1>1. /\ global_steps \in Nat \ {0} /\ global_steps + 1 \in Nat \ {0}
      /\ saved.step \in Nat /\ saved.step + 1 \in Nat \ {0}
      /\ version \in Nat /\ saved.version \in Nat
  BY DEF IInv, Types
<1>2. \A n, m \in Nat : n <= m => UpdatesPerStep * n <= 2 * m
  BY DEF UpdatesPerStep
<1>3. saved.version <= 2 * MaxStep
  <2>1. Cardinality(Due(saved.step + 1)) \in Nat /\ Cardinality(Due(saved.step + 1)) <= saved.step
    BY <1>1, DueBound
  <2>2. saved.step <= MaxStep
    BY <1>1, Constants DEF Bounded, MaxStep
  <2>3. saved.version = UpdatesPerStep * Cardinality(Due(saved.step + 1))
    BY DEF IInv, Counted
  <2> QED
    BY <1>1, <1>2, <2>1, <2>2, <2>3, Constants
<1>4. version <= 2 * MaxStep
  <2>1. CASE pc \in {"done", "down"}
    BY <2>1 DEF Held
  <2>2. CASE pc \notin {"done", "down"}
    <3>1. global_steps <= MaxStep
      BY <1>1, <2>2, Constants DEF Bounded, MaxStep
    <3>2. /\ Cardinality(Due(global_steps)) \in Nat
          /\ Cardinality(Due(global_steps)) <= global_steps - 1
      BY <1>1, DueBound
    <3>3. /\ Cardinality(Due(global_steps + 1)) \in Nat
          /\ Cardinality(Due(global_steps + 1)) <= global_steps
      BY <1>1, DueBound
    <3>4. /\ UpdatesPerStep * Cardinality(Due(global_steps)) <= 2 * (global_steps - 1)
          /\ UpdatesPerStep * Cardinality(Due(global_steps + 1)) <= 2 * global_steps
      <4>1. global_steps - 1 \in Nat
        BY <1>1
      <4> QED
        BY <1>1, <1>2, <3>2, <3>3, <4>1
    <3>5. \/ version = UpdatesPerStep * Cardinality(Due(global_steps))
          \/ version = UpdatesPerStep * Cardinality(Due(global_steps)) + 1
          \/ version = UpdatesPerStep * Cardinality(Due(global_steps + 1))
      BY <2>2 DEF IInv, Types, Counted
    <3>6. /\ UpdatesPerStep * Cardinality(Due(global_steps)) \in Int
          /\ UpdatesPerStep * Cardinality(Due(global_steps + 1)) \in Int
      BY <3>2, <3>3 DEF UpdatesPerStep
    <3> QED
      BY <1>1, <3>1, <3>4, <3>5, <3>6, Constants
  <2> QED
    BY <2>1, <2>2
<1> QED
  BY <1>1, <1>3, <1>4

-----------------------------------------------------------------------------
(* The reflection pass *)

(* The graded trajectories of t's group, their advantages and the rows, for *)
(* verdicts v.                                                              *)
GradedOf(v, t) == {s \in Trajs : Uid(s) = Uid(t) /\ v[s] # None}

AdvOf(v, t) ==
    IF v[t] = None \/ Cardinality(GradedOf(v, t)) < 2 THEN 0
    ELSE Cardinality(GradedOf(v, t)) * v[t] + (-SumOver(v, GradedOf(v, t)))

RowsOf(v) == [t \in Trajs |-> [traj |-> t, adv |-> AdvOf(v, t), mask |-> 1]]

(* Once they are built, the reflection rows are those of the verdicts. *)
Reflected ==
    judge_enabled /\ pc \in {"teacher", "adv", "critic", "actor", "reflectActor"} =>
        rows = RowsOf(verdict)

(* Verdicts are numbers. *)
LEMMA VerdictsAreNumbers == ASSUME Held PROVE \A t \in Trajs : verdict[t] \in Int
<1>1. JudgeScores \cup {None, Unjudged} \subseteq Int
  BY Constants DEF None, Unjudged
<1>2. verdict \in [Trajs -> JudgeScores \cup {None, Unjudged}]
  BY DEF Held
<1> QED
  BY <1>1, <1>2

(* A trajectory's group, and its part that was graded, is finite. *)
LEMMA GroupsAreFinite ==
    ASSUME NEW v, NEW t
    PROVE  /\ IsFiniteSet(Trajs)
           /\ IsFiniteSet(GradedOf(v, t)) /\ Cardinality(GradedOf(v, t)) \in Nat
<1>1. IsFiniteSet(Trajs)
  BY Constants, FS_Interval DEF Trajs
<1>2. GradedOf(v, t) \in SUBSET Trajs
  BY DEF GradedOf
<1> QED
  BY <1>1, <1>2, FS_Subset, FS_CardinalityType

(* The advantages are numbers. *)
LEMMA AdvType ==
    ASSUME NEW v, \A s \in Trajs : v[s] \in Int, NEW t \in Trajs
    PROVE  AdvOf(v, t) \in Int
<1> DEFINE n == Cardinality(GradedOf(v, t))
           sum == SumOver(v, GradedOf(v, t))
<1>1. n \in Nat
  BY GroupsAreFinite
<1>2. sum \in Int
  <2>1. \A s \in GradedOf(v, t) : v[s] \in Int
    BY DEF GradedOf
  <2> QED
    BY <2>1, GroupsAreFinite, SumDef
<1>3. AdvOf(v, t) = IF v[t] = None \/ n < 2 THEN 0 ELSE n * v[t] + (-sum)
  BY DEF AdvOf
<1> HIDE DEF n, sum
<1> QED
  BY <1>1, <1>2, <1>3

(* The rows the step builds are RowsOf. *)
LEMMA RowsAre == [t \in Trajs |-> ReflectRow(t)] = RowsOf(verdict)
<1>1. ASSUME NEW t \in Trajs PROVE RefAdv(t) = AdvOf(verdict, t)
  <2>1. MapThenSumSet(LAMBDA s : verdict[s], GradedOf(verdict, t))
            = SumOver(verdict, GradedOf(verdict, t))
    BY MapThenSumIsSumOver
  <2>2. Graded(t) = GradedOf(verdict, t)
    BY DEF Graded, GradedOf
  <2>3. CASE verdict[t] = None \/ Cardinality(GradedOf(verdict, t)) < 2
    BY <2>2, <2>3, Zenon DEF RefAdv, AdvOf
  <2>4. CASE ~(verdict[t] = None \/ Cardinality(GradedOf(verdict, t)) < 2)
    <3>1. RefAdv(t) = Cardinality(Graded(t)) * verdict[t]
                        - MapThenSumSet(LAMBDA s : verdict[s], Graded(t))
      BY <2>2, <2>4, Zenon DEF RefAdv
    <3>2. RefAdv(t) = Cardinality(GradedOf(verdict, t)) * verdict[t]
                        - SumOver(verdict, GradedOf(verdict, t))
      BY <3>1, <2>1, <2>2, Zenon
    <3>3. AdvOf(verdict, t) = Cardinality(GradedOf(verdict, t)) * verdict[t]
                                + (-SumOver(verdict, GradedOf(verdict, t)))
      BY <2>4, Zenon DEF AdvOf
    <3> QED
      BY <3>2, <3>3
  <2> QED
    BY <2>3, <2>4
<1>2. \A t \in Trajs : ReflectRow(t) = [traj |-> t, adv |-> AdvOf(verdict, t), mask |-> 1]
  BY <1>1, Zenon DEF ReflectRow
<1> QED
  BY <1>2, Zenon DEF RowsOf

(* The sequence of reflection rows. *)
LEMMA RowsType ==
    ASSUME Held
    PROVE  RowsOf(verdict) \in Seq([traj : Trajs, adv : Int, mask : {1}])
<1>1. \A t \in Trajs : AdvOf(verdict, t) \in Int
  BY VerdictsAreNumbers, AdvType
<1>2. Trajs = 1..NTrajs /\ NTrajs \in Nat
  BY Constants DEF Trajs
<1> QED
  BY <1>1, <1>2 DEF RowsOf

(* Every step keeps what the variables hold. *)
LEMMA NextHeld ==
    ASSUME IInv, Bounded, Held, [Next]_vars
    PROVE  Held'
<1>1. /\ version <= 2 * MaxStep /\ version \in Nat
      /\ by \in [Phases -> {NotYet} \cup 0..(2 * MaxStep)]
  BY VersionsBounded DEF Held
<1>2. by' \in [Phases -> {NotYet} \cup 0..(2 * MaxStep)]
  <2>1. ASSUME NEW p, by' = [by EXCEPT ![p] = version]
        PROVE  by' \in [Phases -> {NotYet} \cup 0..(2 * MaxStep)]
    <3>1. version \in 0..(2 * MaxStep)
      BY <1>1, Constants
    <3> QED
      BY <1>1, <2>1, <3>1
  <2>2. CASE by' = [p \in Phases |-> NotYet]
    BY <2>2
  <2>3. CASE UNCHANGED by
    BY <1>1, <2>3
  <2>4. \/ \E p : by' = [by EXCEPT ![p] = version]
        \/ by' = [p \in Phases |-> NotYet]
        \/ UNCHANGED by
    BY DEF Next, Driver, Rollout, Reward, OldLogProb, Reflect, Judge, Prior, ReflectLogProb,
       Teacher, Advantage, UpdateCritic, UpdateActor, UpdateReflect, Save, Advance, Crash,
       Relaunch, RewardTask, Stamp, FreshBatch, vars
  <2> QED
    BY <2>1, <2>2, <2>3, <2>4
<1>3. pc' \in {"done", "down"} => version' <= 2 * MaxStep
  <2>1. pc' \in {"done", "down"} => version' = version
    BY DEF Next, Driver, Rollout, Reward, OldLogProb, Reflect, Judge, Prior, ReflectLogProb,
       Teacher, Advantage, UpdateCritic, UpdateActor, UpdateReflect, Save, Advance, Crash,
       Relaunch, RewardTask, vars
  <2> QED
    BY <1>1, <2>1
<1>4. /\ success' \in [Trajs -> BOOLEAN]
      /\ verdict' \in [Trajs -> JudgeScores \cup {None, Unjudged}]
      /\ prior' \subseteq Uids
  BY DEF Held, Next, Driver, Rollout, Reward, OldLogProb, Reflect, Judge, Prior, ReflectLogProb,
     Teacher, Advantage, UpdateCritic, UpdateActor, UpdateReflect, Save, Advance, Crash,
     Relaunch, RewardTask, FreshBatch, vars, reflection
<1>5. rows' \in Seq([traj : Trajs, adv : Int, mask : {1}])
  <2>1. \/ UNCHANGED rows \/ rows' = <<>> \/ rows' = [t \in Trajs |-> ReflectRow(t)]
    BY DEF Next, Driver, Rollout, Reward, OldLogProb, Reflect, Judge, Prior, ReflectLogProb,
       Teacher, Advantage, UpdateCritic, UpdateActor, UpdateReflect, Save, Advance, Crash,
       Relaunch, RewardTask, FreshBatch, vars, reflection
  <2>2. rows \in Seq([traj : Trajs, adv : Int, mask : {1}])
    BY DEF Held
  <2>3. <<>> \in Seq([traj : Trajs, adv : Int, mask : {1}])
    OBVIOUS
  <2> QED
    BY <2>1, <2>2, <2>3, RowsAre, RowsType
<1>6. future' \in {"none", "running", "done"}
  BY DEF Held, Next, Driver, Rollout, Reward, OldLogProb, Reflect, Judge, Prior, ReflectLogProb,
     Teacher, Advantage, UpdateCritic, UpdateActor, UpdateReflect, Save, Advance, Crash,
     Relaunch, RewardTask, FreshBatch, vars, reward
<1>7. reward_tensor' \in {NoStep} \cup 1..MaxStep
  <2>1. \/ UNCHANGED reward_tensor \/ reward_tensor' = NoStep
        \/ pc \in {"reward", "adv"} /\ reward_tensor' = global_steps
    BY DEF Next, Driver, Rollout, Reward, OldLogProb, Reflect, Judge, Prior, ReflectLogProb,
       Teacher, Advantage, UpdateCritic, UpdateActor, UpdateReflect, Save, Advance, Crash,
       Relaunch, RewardTask, FreshBatch, vars, reward
  <2>2. pc \in {"reward", "adv"} => global_steps \in 1..MaxStep
    BY Constants DEF IInv, Types, Bounded, MaxStep
  <2> QED
    BY <2>1, <2>2 DEF Held
<1>8. saved' \in [step : Nat, version : Nat]
  <2>1. \/ UNCHANGED saved \/ saved' = [step |-> global_steps, version |-> version]
    BY DEF Next, Driver, Rollout, Reward, OldLogProb, Reflect, Judge, Prior, ReflectLogProb,
       Teacher, Advantage, UpdateCritic, UpdateActor, UpdateReflect, Save, Advance, Crash,
       Relaunch, RewardTask, FreshBatch, vars, durable
  <2> QED
    BY <2>1 DEF Held, IInv, Types
<1> QED
  BY <1>2, <1>3, <1>4, <1>5, <1>6, <1>7, <1>8 DEF Held

(* Every step keeps the rows those of the verdicts. *)
LEMMA NextReflected == ASSUME IInv, Reflected, [Next]_vars PROVE Reflected'
<1>1. CASE ReflectLogProb
  <2>1. /\ judge_enabled => rows' = [t \in Trajs |-> ReflectRow(t)]
        /\ UNCHANGED <<judge_enabled, verdict>>
    BY <1>1 DEF ReflectLogProb, config
  <2> QED
    BY <2>1, RowsAre DEF Reflected
<1>2. CASE UNCHANGED <<judge_enabled, verdict, rows>>
              /\ (pc' \in {"teacher", "adv", "critic", "actor", "reflectActor"} =>
                  pc \in {"teacher", "adv", "critic", "actor", "reflectActor"})
  <2>1. judge_enabled' = judge_enabled /\ verdict' = verdict /\ rows' = rows
    BY <1>2
  <2> QED
    BY <1>2, <2>1 DEF Reflected
<1>3. CASE pc' \notin {"teacher", "adv", "critic", "actor", "reflectActor"}
  BY <1>3 DEF Reflected
<1>4. CASE Teacher \/ Advantage \/ UpdateCritic \/ UpdateActor \/ RewardTask \/ UNCHANGED vars
  BY <1>2, <1>4 DEF Teacher, Advantage, UpdateCritic, UpdateActor, RewardTask, vars, config,
     reflection
<1>5. CASE Rollout \/ Reward \/ OldLogProb \/ Reflect \/ Judge \/ Prior \/ UpdateReflect \/ Save
              \/ Advance \/ Crash \/ Relaunch
  BY <1>3, <1>5 DEF Rollout, Reward, OldLogProb, Reflect, Judge, Prior, UpdateReflect, Save,
     Advance, Crash, Relaunch
<1> QED
  BY <1>1, <1>4, <1>5 DEF Next, Driver

(* A row of the padded batch: a reflection row, or a copy with advantage 0. *)
LEMMA PaddedRow ==
    ASSUME Held, rows = RowsOf(verdict), NEW i \in 1..(NTrajs + PadSize)
    PROVE  /\ i \in Trajs => Padded[i] = [traj |-> i, adv |-> AdvOf(verdict, i), mask |-> 1]
           /\ i \notin Trajs => Padded[i].adv = 0
           /\ Padded[i].traj \in Trajs
<1>1. /\ PadSize \in Nat /\ NTrajs \in Nat /\ NTrajs >= 1
      /\ i \in Nat /\ i >= 1
      /\ Trajs = 1..NTrajs
  <2>1. \A a \in Int : \A b \in Nat : b >= 1 => a % b \in Nat
    OBVIOUS
  <2>2. NTrajs \in Nat /\ NTrajs >= 1 /\ -NTrajs \in Int /\ WorldSize \in Nat /\ WorldSize >= 1
    BY Constants
  <2>3. PadSize \in Nat
    BY <2>1, <2>2 DEF PadSize
  <2> QED
    BY <2>2, <2>3 DEF Trajs
<1>2. CASE i \in Trajs
  <2>1. Padded[i] = rows[i]
    BY <1>1, <1>2 DEF Padded
  <2> QED
    BY <1>2, <2>1 DEF RowsOf
<1>3. CASE i \notin Trajs
  <2> DEFINE j == ((i - 1) % NTrajs) + 1
  <2>1. j \in Trajs
    <3>1. \A a, n \in Nat : n >= 1 => a % n \in 0..(n - 1)
      OBVIOUS
    <3>2. i - 1 \in Nat
      BY <1>1
    <3>3. (i - 1) % NTrajs \in 0..(NTrajs - 1)
      BY <1>1, <3>1, <3>2
    <3> QED
      BY <1>1, <3>3
  <2>2. Padded[i] = [rows[j] EXCEPT !.adv = 0]
    BY <1>1, <1>3 DEF Padded
  <2>3. rows[j] = [traj |-> j, adv |-> AdvOf(verdict, j), mask |-> 1]
    BY <2>1 DEF RowsOf
  <2> HIDE DEF j
  <2> QED
    BY <1>3, <2>1, <2>2, <2>3
<1> QED
  BY <1>2, <1>3

(* The sum over rows of the padded batch, as a sum of a function. *)
LEMMA PaddedSum ==
    ASSUME NEW S, IsFiniteSet(S), NEW f, \A i \in S : f[i] \in Int /\ f[i] = Padded[i].adv
    PROVE  MapThenSumSet(LAMBDA i : Padded[i].adv, S) = SumOver(f, S)
<1> DEFINE Step(it) == [s \in SUBSET S |->
              IF s = {} THEN 0
              ELSE Padded[CHOOSE x \in s : TRUE].adv + it[s \ {CHOOSE x \in s : TRUE}]]
           it == CHOOSE sum : sum = Step(sum)
<1>1. MapThenSumSet(LAMBDA i : Padded[i].adv, S) = it[S]
  BY Zenon DEF MapThenSumSet, MapThenFoldSet
<1>2. ASSUME NEW sum PROVE sum = Step(sum) <=> IsSum(sum, f, S)
  <2>1. ASSUME NEW s \in SUBSET S, s # {}
        PROVE  f[CHOOSE x \in s : TRUE] = Padded[CHOOSE x \in s : TRUE].adv
    <3>1. (CHOOSE x \in s : TRUE) \in S
      BY <2>1
    <3> QED
      BY <3>1
  <2>2. Step(sum) = [T \in SUBSET S |-> SumStep(sum, f, T)]
    BY <2>1 DEF SumStep
  <2> QED
    BY <2>2 DEF IsSum
<1>3. PICK sum : IsSum(sum, f, S)
  BY SumExists
<1>4. sum = Step(sum)
  BY <1>2, <1>3
<1>5. it = Step(it)
  BY <1>4
<1>6. IsSum(it, f, S)
  BY <1>2, <1>5
<1> HIDE DEF it
<1> QED
  BY <1>1, <1>6, SumRecognised

(* The advantages of a group sum to zero: each graded one is n times its    *)
(* verdict less the sum of the n verdicts of the group.                     *)
LEMMA GroupIsCentred ==
    ASSUME NEW v, \A s \in Trajs : v[s] \in Int, NEW u,
           NEW f, \A t \in Trajs : Uid(t) = u => f[t] = AdvOf(v, t)
    PROVE  SumOver(f, {t \in Trajs : Uid(t) = u}) = 0
<1> DEFINE G == {t \in Trajs : Uid(t) = u}
           K == {t \in G : v[t] # None}
<1>1. /\ IsFiniteSet(G) /\ IsFiniteSet(K) /\ Cardinality(K) \in Nat
      /\ K \in SUBSET G
  <2>1. G \in SUBSET Trajs /\ K \in SUBSET Trajs
    OBVIOUS
  <2> QED
    BY <2>1, GroupsAreFinite, FS_Subset, FS_CardinalityType
<1>2. \A t \in G : GradedOf(v, t) = K
  BY DEF GradedOf
<1>3. \A t \in G : f[t] \in Int
  BY AdvType
<1> DEFINE n == Cardinality(K)
           sum == SumOver(v, K)
<1>4. sum \in Int /\ n \in Nat
  BY <1>1, SumDef
<1>5. \A t \in G : f[t] = IF v[t] = None \/ n < 2 THEN 0 ELSE n * v[t] + (-sum)
  <2> SUFFICES ASSUME NEW t \in G
               PROVE  f[t] = IF v[t] = None \/ n < 2 THEN 0 ELSE n * v[t] + (-sum)
    OBVIOUS
  <2>1. f[t] = AdvOf(v, t) /\ GradedOf(v, t) = K
    BY <1>2
  <2> QED
    BY <2>1, Zenon DEF AdvOf
<1>6. CASE n < 2
  <2>1. \A t \in G : f[t] = 0
    BY <1>5, <1>6
  <2>2. SumOver(f, G) = Cardinality(G) * 0
    BY <1>1, <2>1, SumConstant
  <2>3. Cardinality(G) \in Int
    BY <1>1, FS_CardinalityType
  <2> QED
    BY <2>2, <2>3
<1>7. CASE ~(n < 2)
  <2>1. SumOver(f, G) = SumOver(f, K)
    <3>1. \A t \in G \ K : f[t] = 0
      BY <1>5
    <3> HIDE DEF G, K
    <3> QED
      BY <1>1, <1>3, <3>1, SumSupport
  <2>2. \A t \in K : v[t] \in Int /\ f[t] = n * v[t] + (-sum)
    BY <1>5, <1>7
  <2>3. n \in Int /\ -sum \in Int
    BY <1>4
  <2>4. SumOver(f, K) = n * sum + n * (-sum)
    <3> HIDE DEF K
    <3> QED
      BY <1>1, <2>2, <2>3, SumAffine
  <2>5. \A a, b \in Int : a * b + a * (-b) = 0
    OBVIOUS
  <2> HIDE DEF n, sum
  <2> QED
    BY <1>4, <2>1, <2>3, <2>4, <2>5
<1> QED
  BY <1>6, <1>7

(* In the padded batch as well: its copies have no advantage. *)
LEMMA CentredFromReflected ==
    ASSUME IInv, Held, Reflected
    PROVE  ReflectionGradientIsCentred
<1> SUFFICES ASSUME pc = "reflectActor" PROVE ReflectionGradientIsCentred
  BY DEF ReflectionGradientIsCentred
<1>1. rows = RowsOf(verdict)
  BY DEF IInv, Stamps, Reflected
<1> DEFINE D == 1..(NTrajs + PadSize)
           f == [i \in D |-> Padded[i].adv]
<1>2. /\ IsFiniteSet(D) /\ Trajs \subseteq D
  <2>1. \A a \in Int : \A b \in Nat : b >= 1 => a % b \in Nat
    OBVIOUS
  <2>2. PadSize \in Nat /\ NTrajs \in Nat
    BY <2>1, Constants DEF PadSize
  <2> QED
    BY <2>2, FS_Interval DEF Trajs
<1>3. \A i \in D : /\ i \in Trajs => f[i] = AdvOf(verdict, i) /\ Padded[i].traj = i
                   /\ i \notin Trajs => f[i] = 0
  <2> SUFFICES ASSUME NEW i \in D
               PROVE  /\ i \in Trajs => f[i] = AdvOf(verdict, i) /\ Padded[i].traj = i
                      /\ i \notin Trajs => f[i] = 0
    BY Zenon
  <2>1. /\ i \in Trajs => Padded[i] = [traj |-> i, adv |-> AdvOf(verdict, i), mask |-> 1]
        /\ i \notin Trajs => Padded[i].adv = 0
    BY <1>1, PaddedRow
  <2>2. f[i] = Padded[i].adv
    OBVIOUS
  <2> QED
    BY <2>1, <2>2
<1>4. \A i \in D : f[i] \in Int /\ f[i] = Padded[i].adv
  <2>1. \A t \in Trajs : AdvOf(verdict, t) \in Int
    BY VerdictsAreNumbers, AdvType
  <2> QED
    BY <1>3, <2>1
<1>5. ASSUME NEW u \in Uids
      PROVE  MapThenSumSet(LAMBDA i : Padded[i].adv, {i \in D : Uid(Padded[i].traj) = u}) = 0
  <2> DEFINE S == {i \in D : Uid(Padded[i].traj) = u}
             G == {t \in Trajs : Uid(t) = u}
  <2>1. IsFiniteSet(S)
    BY <1>2, FS_Subset
  <2>2. MapThenSumSet(LAMBDA i : Padded[i].adv, S) = SumOver(f, S)
    <3>1. \A i \in S : f[i] \in Int /\ f[i] = Padded[i].adv
      BY <1>4
    <3> HIDE DEF S, f
    <3> QED
      BY <2>1, <3>1, PaddedSum
  <2>3. SumOver(f, S) = SumOver(f, G)
    <3>1. G \in SUBSET S /\ \A i \in S \ G : f[i] = 0
      BY <1>2, <1>3
    <3>2. \A i \in S : f[i] \in Int
      BY <1>4
    <3> HIDE DEF S, f, G
    <3> QED
      BY <2>1, <3>1, <3>2, SumSupport
  <2>4. SumOver(f, G) = 0
    <3>1. \A t \in Trajs : Uid(t) = u => f[t] = AdvOf(verdict, t)
      BY <1>2, <1>3
    <3> HIDE DEF f
    <3> QED
      BY <3>1, VerdictsAreNumbers, GroupIsCentred
  <2> QED
    BY <2>2, <2>3, <2>4, Zenon
<1>6. ASSUME NEW i \in D, verdict[Padded[i].traj] = None PROVE Padded[i].adv = 0
  <2>1. CASE i \in Trajs
    <3>1. Padded[i].traj = i /\ Padded[i].adv = AdvOf(verdict, i)
      BY <1>3, <2>1
    <3> QED
      BY <1>6, <3>1 DEF AdvOf
  <2>2. CASE i \notin Trajs
    BY <1>3, <2>2
  <2> QED
    BY <2>1, <2>2
<1>7. \A u \in Uids :
          MapThenSumSet(LAMBDA i : Padded[i].adv,
              {i \in 1..(NTrajs + PadSize) : Uid(Padded[i].traj) = u}) = 0
  BY <1>5, Zenon
<1>8. \A i \in 1..(NTrajs + PadSize) : verdict[Padded[i].traj] = None => Padded[i].adv = 0
  BY <1>6, Zenon
<1> QED
  BY <1>7, <1>8, Zenon DEF ReflectionGradientIsCentred

-----------------------------------------------------------------------------
(* The theorems *)

(* IInv is an inductive invariant. *)
THEOREM IInvHolds == Spec => []IInv
<1>1. IInv /\ [Next]_vars => IInv'
  BY NextIInv
<1> QED
  BY <1>1, InitIInv, PTL DEF Spec

(* Every phase a step's updates use was computed with the policy that      *)
(* rolled out, in the reflection pass after the actor's update as well.    *)
THEOREM OneSnapshotHolds == Spec => []OneSnapshot
<1>1. IInv => OneSnapshot
  BY DEF IInv, Stamps, OneSnapshot, BeforeUpdate, Phases
<1> QED
  BY <1>1, IInvHolds, PTL

(* The updates of a step use the reward of its own batch, computed in      *)
(* place or by the task.                                                   *)
THEOREM RewardHolds == Spec => []RewardIsOfThisStep
<1>1. IInv => RewardIsOfThisStep
  BY DEF IInv, Rewarded, RewardIsOfThisStep
<1> QED
  BY <1>1, IInvHolds, PTL

(* After any number of crashes a step begins with the actor that an        *)
(* uninterrupted run has there.                                            *)
THEOREM ResumesHolds == Spec => []ResumesTheSameRun
<1>1. IInv => ResumesTheSameRun
  BY DEF IInv, Counted, ResumesTheSameRun, UpdatesBefore, UpdatesPerStep, Due, BeforeUpdate
<1> QED
  BY <1>1, IInvHolds, PTL

(* The bounds, and the rows being those of the verdicts, hold throughout.  *)
THEOREM BoundsHold == Spec => [](Bounded /\ Held /\ Reflected)
<1>1. Init => Bounded /\ Held /\ Reflected
  <2>1. Init => Reflected
    BY DEF Init, Reflected
  <2> QED
    BY <2>1, InitBounded
<1>2. IInv /\ Bounded /\ Held /\ Reflected /\ [Next]_vars => (Bounded /\ Held /\ Reflected)'
  BY NextBounded, NextHeld, NextReflected
<1> QED
  BY <1>1, <1>2, IInvHolds, PTL DEF Spec

(* The driver's variables have their types: the step counter stays within  *)
(* a step per crash of total_training_steps, the versions within two       *)
(* updates a step.                                                         *)
THEOREM TypesHold == Spec => []TypeOK
<1>1. IInv /\ Bounded /\ Held => TypeOK
  <2> SUFFICES ASSUME IInv, Bounded, Held PROVE TypeOK
    OBVIOUS
  <2>1. /\ version <= 2 * MaxStep /\ saved.version <= 2 * MaxStep
        /\ version \in Nat /\ saved.version \in Nat
    BY VersionsBounded
  <2>2. /\ global_steps \in Nat \ {0} /\ saved.step \in Nat
        /\ global_steps <= MaxStep + 1 /\ saved.step <= MaxStep
    BY Constants DEF IInv, Types, Bounded, MaxStep
  <2>3. saved \in [step : 0..MaxStep, version : 0..(2 * MaxStep)]
    BY <2>1, <2>2, Constants DEF Held
  <2>4. version \in 0..(2 * MaxStep) /\ global_steps \in 1..(MaxStep + 1)
    BY <2>1, <2>2, Constants
  <2>5. /\ judge_enabled \in BOOLEAN /\ launch_reward_fn_async \in BOOLEAN
        /\ pc \in {"gen", "reward", "old", "reflect", "judge", "prior", "reflectOld",
                   "teacher", "adv", "critic", "actor", "reflectActor", "save", "next",
                   "done", "down"}
    BY DEF IInv, Types, BeforeUpdate
  <2>6. crashes \in 0..MaxCrashes
    BY DEF Bounded
  <2> QED
    BY <2>3, <2>4, <2>5, <2>6 DEF Held, TypeOK
<1> QED
  BY <1>1, IInvHolds, BoundsHold, PTL

(* However the verdicts fail and however the batch is padded, the          *)
(* advantages of a group's reflections sum to zero, and an ungraded one    *)
(* has none.                                                               *)
THEOREM CentredHolds == Spec => []ReflectionGradientIsCentred
<1>1. IInv /\ Held /\ Reflected => ReflectionGradientIsCentred
  BY CentredFromReflected
<1> QED
  BY <1>1, IInvHolds, BoundsHold, PTL
=============================================================================
