----------------------------- MODULE RolloutLoop -----------------------------
(***************************************************************************)
(* TrajectoryCollector.multi_turn_loop: the training rollout.              *)
(*                                                                         *)
(* train_batch_size prompts are repeated rollout.n times; every copy has   *)
(* an environment of its own.  All environments are stepped together, also *)
(* those that are done, until all are done or max_steps turns are played;  *)
(* active_masks keeps what happens after "done" out of the episode.  With  *)
(* filter_groups the whole rollout is repeated, and groups whose episodes  *)
(* all have one reward are dropped, until enough episodes are collected or *)
(* the tries are used up.  The turns of the episodes become the rows of    *)
(* the training batch, which adjust_batch pads to a divisor.               *)
(*                                                                         *)
(* Abstractions.  Environments are external: a step of one that is not     *)
(* done ends the episode or not; one that is done may report any reward    *)
(* again (SearchEnv scores its whole history anew, AlfWorld repeats "won").*)
(* Rewards are 0 and 1, "won" is a reward of 1 at a done step.  A try's    *)
(* lists (rows, rewards, lengths, success) are filtered one by one and put *)
(* together again by position, as gather_rollout_data reads them; the rows *)
(* name their trajectory, tool_callings go as the lengths do.              *)
(***************************************************************************)
EXTENDS Integers, Sequences, FiniteSets, SequencesExt

CONSTANTS
    Groups,        \* data.train_batch_size
    N,             \* env.rollout.n, episodes of a group
    MaxSteps,      \* env.max_steps
    MaxTries,      \* algorithm.filter_groups.max_num_gen_batches
    FilterModes,   \* values of algorithm.filter_groups.enable to explore
    EnvNames,      \* environments to explore: search, alfworld, webshop
    Kinds,         \* data sources (search) or task types (alfworld)
    Divisor        \* the lcm adjust_batch computes

ASSUME RolloutAssumption ==
    /\ Groups \in Nat \ {0}
    /\ N \in Nat \ {0}
    /\ MaxSteps \in Nat \ {0}
    /\ MaxTries \in Nat \ {0}
    /\ FilterModes \subseteq BOOLEAN
    /\ EnvNames \subseteq {"search", "alfworld", "webshop"}
    /\ Divisor \in Nat \ {0}
    /\ "success_rate" \notin Kinds

Envs     == 0..(Groups * N - 1)
GroupIds == 0..(Groups - 1)
Group(i) == i \div N
Rewards  == {0, 1}
Target   == Groups * N

VARIABLES
    pc,                \* reset, turn, evaluate, gather, adjust, done, error
    filter_groups,     \* the configuration of this rollout
    env_name,
    env_kwargs,        \* gen_batch still holds env_kwargs
    try_count,
    kind,              \* the kind of each group's prompt or game
    step,              \* turns played in this try
    is_done, episode_rewards, episode_lengths,
    turns,             \* total_batch_list and total_infos: a row for each turn
    collected,         \* the episodes kept so far
    keys,              \* the success keys each try delivered
    rows,              \* the training rows of gather_rollout_data
    copies             \* how many distinct rows adjust_batch duplicated

config  == <<filter_groups, env_name>>
episode == <<is_done, episode_rewards, episode_lengths, turns>>
vars    == <<pc, filter_groups, env_name, env_kwargs, try_count, kind, step,
             is_done, episode_rewards, episode_lengths, turns, collected, keys,
             rows, copies>>

Turn == [active : BOOLEAN, reward : Rewards]
Uid  == (1..MaxTries) \X GroupIds

TypeOK ==
    /\ pc \in {"reset", "turn", "evaluate", "gather", "adjust", "done", "error"}
    /\ filter_groups \in BOOLEAN
    /\ env_name \in EnvNames
    /\ env_kwargs \in BOOLEAN
    /\ try_count \in 0..MaxTries
    /\ kind \in [GroupIds -> Kinds]
    /\ step \in 0..MaxSteps
    /\ is_done \in [Envs -> BOOLEAN]
    /\ episode_rewards \in [Envs -> Nat]
    /\ episode_lengths \in [Envs -> 0..MaxSteps]
    /\ turns \in [Envs -> Seq(Turn)]
    /\ collected \subseteq [uid : Uid, env : Envs, reward : Nat, length : 0..MaxSteps,
                            turns : Seq(Turn), success : BOOLEAN]
    /\ keys \in Seq(SUBSET (Kinds \cup {"success_rate"}))
    /\ rows \subseteq (Uid \X Envs \X (1..MaxSteps))
    /\ copies \in Nat

Init ==
    /\ pc = "reset"
    /\ filter_groups \in FilterModes
    /\ env_name \in EnvNames
    /\ env_kwargs = TRUE
    /\ try_count = 0
    /\ kind \in [GroupIds -> Kinds]
    /\ step = 0
    /\ is_done = [i \in Envs |-> FALSE]
    /\ episode_rewards = [i \in Envs |-> 0]
    /\ episode_lengths = [i \in Envs |-> 0]
    /\ turns = [i \in Envs |-> <<>>]
    /\ collected = {}
    /\ keys = <<>>
    /\ rows = {}
    /\ copies = 0

-----------------------------------------------------------------------------
(* vanilla_multi_turn_loop *)

(* The locals of vanilla_multi_turn_loop as a call finds them. *)
FreshEpisode ==
    /\ step' = 0
    /\ is_done' = [i \in Envs |-> FALSE]
    /\ episode_rewards' = [i \in Envs |-> 0]
    /\ episode_lengths' = [i \in Envs |-> 0]
    /\ turns' = [i \in Envs |-> <<>>]

(* The prompts' env_kwargs are popped from gen_batch; the search           *)
(* environment needs them (len(None) raises), the others ignore them.      *)
(* Search keeps the prompts' data source, alfworld draws new games.        *)
Reset ==
    /\ pc = "reset"
    /\ try_count' = try_count + 1
    /\ env_kwargs' = FALSE
    /\ IF env_name = "search" /\ ~env_kwargs
       THEN /\ pc' = "error"
            /\ UNCHANGED kind
       ELSE /\ pc' = "turn"
            /\ IF env_name = "alfworld"
               THEN kind' \in [GroupIds -> Kinds]
               ELSE UNCHANGED kind
    /\ UNCHANGED <<config, step, episode, collected, keys, rows, copies>>

(* What one step of environment i may report: SearchEnv ends its episode   *)
(* at its max_turns, which is max_steps.                                   *)
Reports(i) ==
    LET ended == [done : {TRUE}, reward : Rewards]
        going == [done : {FALSE}, reward : {0}]
    IN  IF is_done[i] \/ (env_name = "search" /\ step + 1 = MaxSteps)
        THEN ended
        ELSE ended \cup going

(* Mutant: the episode's totals count every step. *)
AddToEpisodeUnmasked(report) ==
    /\ episode_rewards' =
          [i \in Envs |-> episode_rewards[i] + report[i].reward]
    /\ episode_lengths' = [i \in Envs |-> episode_lengths[i] + 1]

(* Totals count the steps of environments that were active before it. *)
AddToEpisode(report) ==
    /\ episode_rewards' =
          [i \in Envs |-> IF is_done[i] THEN episode_rewards[i]
                          ELSE episode_rewards[i] + report[i].reward]
    /\ episode_lengths' =
          [i \in Envs |-> IF is_done[i] THEN episode_lengths[i]
                          ELSE episode_lengths[i] + 1]

(* max_steps turns are played, or every environment is done. *)
LoopOver(done) == step + 1 = MaxSteps \/ \A i \in Envs : done[i]

(* One iteration of the loop: generate, step every environment, record. *)
PlayTurn ==
    /\ pc = "turn"
    /\ \E report \in [Envs -> [done : BOOLEAN, reward : Rewards]] :
          /\ \A i \in Envs : report[i] \in Reports(i)
          /\ AddToEpisode(report)
          /\ turns' = [i \in Envs |->
                          Append(turns[i], [active |-> ~is_done[i],
                                            reward |-> report[i].reward])]
          /\ is_done' = [i \in Envs |-> is_done[i] \/ report[i].done]
    /\ step' = step + 1
    /\ pc' = IF LoopOver(is_done') THEN "evaluate" ELSE "turn"
    /\ UNCHANGED <<config, env_kwargs, try_count, kind, collected, keys,
                   rows, copies>>

(* _process_batch: the last turn at which the environment was active. *)
FinalTurn(i) ==
    CHOOSE t \in 1..Len(turns[i]) :
        /\ turns[i][t].active
        /\ \A u \in (t + 1)..Len(turns[i]) : ~turns[i][u].active

(* success_evaluator: "won" at the environment's final turn. *)
Won(i) == turns[i][FinalTurn(i)].reward = 1

(* The episodes of a set of environments, as one try returns them. *)
Episodes(envs) ==
    {[uid |-> <<try_count, Group(i)>>, env |-> i, reward |-> episode_rewards[i],
      length |-> episode_lengths[i], turns |-> turns[i], success |-> Won(i)] :
        i \in envs}

(* Without filter_groups the rollout is one try, taken as it is. *)
Vanilla ==
    /\ pc = "evaluate"
    /\ ~filter_groups
    /\ collected' = Episodes(Envs)
    /\ FreshEpisode
    /\ pc' = "gather"
    /\ UNCHANGED <<config, env_kwargs, try_count, kind, keys, rows, copies>>

-----------------------------------------------------------------------------
(* dynamic_multi_turn_loop *)

LastTry == try_count = MaxTries

(* Mutant: one episode of its own is enough to keep an episode. *)
KeptEpisodewise(i) ==
    \/ LastTry
    \/ \E j \in Envs : Group(j) = Group(i) /\ episode_rewards[j] < episode_rewards[i]

(* filter_group_data keeps a whole group unless its rewards are all equal. *)
Kept(i) ==
    \/ LastTry
    \/ \E j, k \in Envs :
          /\ Group(j) = Group(i)
          /\ Group(k) = Group(i)
          /\ episode_rewards[j] # episode_rewards[k]

(* keep_indices, in an order that nothing looks at *)
KeepIndices == SetToSeq({i \in Envs : Kept(i)})

(* list[keep_indices] *)
At(list, keep) == [k \in DOMAIN keep |-> list[keep[k]]]

(* The episodes at the positions of a try's lists *)
Zipped(batch_list, rewards, lengths, success) ==
    {[uid |-> <<try_count, Group(batch_list[k].env)>>, env |-> batch_list[k].env,
      reward |-> rewards[k], length |-> lengths[k], turns |-> batch_list[k].turns,
      success |-> success[k]] : k \in DOMAIN batch_list}

BatchList == [i \in Envs |-> [env |-> i, turns |-> turns[i]]]
Success   == [i \in Envs |-> Won(i)]

(* Mutant: the rewards are not filtered. *)
FilterGroupDataButRewards(keep) ==
    Zipped(At(BatchList, keep), [k \in DOMAIN keep |-> episode_rewards[k - 1]],
           At(episode_lengths, keep), At(Success, keep))

(* filter_group_data indexes every list by keep_indices. *)
FilterGroupData(keep) ==
    Zipped(At(BatchList, keep), At(episode_rewards, keep), At(episode_lengths, keep),
           At(Success, keep))

(* The success keys of this try: a kind's key has a value for each of its  *)
(* episodes, and the filter keeps a key only when all episodes have one.   *)
KindKeys == IF env_name = "webshop" THEN {} ELSE {kind[g] : g \in GroupIds}
TryKeys ==
    {"success_rate"} \cup
    (IF LastTry \/ Cardinality(KindKeys) = 1 THEN KindKeys ELSE {})

(* Concatenating the tries looks every key of the first one up. *)
KeysAgree == \A t \in 1..Len(keys) : keys[1] \subseteq keys[t]

(* Mutant: the target counts groups. *)
EnoughGroups(episodes) == Cardinality(episodes) >= Groups

(* len(total_batch_list) reaches the target. *)
Enough(episodes) == Cardinality(episodes) >= Target

Filter ==
    /\ pc = "evaluate"
    /\ filter_groups
    /\ collected' = collected \cup FilterGroupData(KeepIndices)
    /\ keys' = Append(keys, TryKeys)
    /\ FreshEpisode
    /\ pc' = IF ~Enough(collected') /\ ~LastTry THEN "reset" ELSE "gather"
    /\ UNCHANGED <<config, env_kwargs, try_count, kind, rows, copies>>

-----------------------------------------------------------------------------
(* gather_rollout_data and adjust_batch *)

(* Mutant: rows of finished environments are trained on too. *)
EpisodeRowsAll(e) == {<<e.uid, e.env, t>> : t \in 1..Len(e.turns)}

(* The active turns of an episode, numbered by turn_step. *)
EpisodeRows(e) ==
    {<<e.uid, e.env, t>> : t \in {u \in 1..Len(e.turns) : e.turns[u].active}}

(* A key of the first try that a later one lacks raises before gathering. *)
Gather ==
    /\ pc = "gather"
    /\ IF KeysAgree
       THEN /\ pc' = "adjust"
            /\ rows' = UNION {EpisodeRows(e) : e \in collected}
       ELSE /\ pc' = "error"
            /\ UNCHANGED rows
    /\ UNCHANGED <<config, env_kwargs, try_count, kind, step, episode, collected,
                   keys, copies>>

Remainder == Cardinality(rows) % Divisor

(* Mutant: as many copies as there are rows too many. *)
ToAddRemainder == Remainder

(* How many rows are copied, 0 when the batch already divides. *)
ToAdd == IF Remainder = 0 THEN 0 ELSE Divisor - Remainder

(* adjust_batch, mode "copy": random.choice without replacement raises     *)
(* when it is asked for more rows than there are.                          *)
Adjust ==
    /\ pc = "adjust"
    /\ IF ToAdd > Cardinality(rows)
       THEN /\ pc' = "error"
            /\ UNCHANGED copies
       ELSE /\ pc' = "done"
            /\ copies' = ToAdd
    /\ UNCHANGED <<config, env_kwargs, try_count, kind, step, episode, collected,
                   keys, rows>>

Next == Reset \/ PlayTurn \/ Vanilla \/ Filter \/ Gather \/ Adjust

Spec == Init /\ [][Next]_vars

(* The driver is one thread that nothing blocks for ever. *)
FairSpec == Spec /\ WF_vars(Next)

-----------------------------------------------------------------------------
(* Properties *)

(* Environments are stepped on after they are done, and repeat or change   *)
(* their reward; none of that reaches an episode: its length counts just   *)
(* its active turns, which come first, and its reward is the one reported  *)
(* at the last of them.                                                    *)
EpisodesEndAtDone ==
    \A e \in collected :
        /\ \A t \in 1..Len(e.turns) : e.turns[t].active <=> t <= e.length
        /\ e.reward = e.turns[e.length].reward

(* success_evaluator walks the recorded infos, the loop adds rewards up as *)
(* they come, and the filter cuts both lists: at every position they agree *)
(* on whether the episode was won.                                         *)
SuccessMatchesReward ==
    \A e \in collected : e.success <=> e.reward = 1

(* The group statistics of the advantage need every episode of a group:    *)
(* whatever is filtered in whichever try, no group is ever split.          *)
GroupsStayWhole ==
    \A e \in collected, i \in Envs :
        Group(i) = Group(e.env) => \E o \in collected : o.uid = e.uid /\ o.env = i

(* The rollout goes on to training with enough episodes or after the last  *)
(* try, and one try at most overshoots the target.                         *)
CollectsTheTarget ==
    pc \in {"gather", "adjust", "done"} =>
        /\ Cardinality(collected) >= Target \/ try_count = MaxTries
        /\ Cardinality(collected) < 2 * Target

(* Each episode is trained on its own turns 1..length and nothing else, so *)
(* turn_step numbers are without gaps.                                     *)
RowsAreTheEpisodes ==
    pc \in {"adjust", "done"} =>
        rows = UNION {{<<e.uid, e.env, t>> : t \in 1..e.length} : e \in collected}

(* The batch that reaches the workers divides evenly, with fewer copies    *)
(* than the divisor and no row copied twice.                               *)
BatchDivides ==
    pc = "done" =>
        /\ (Cardinality(rows) + copies) % Divisor = 0
        /\ copies < Divisor
        /\ copies <= Cardinality(rows)

(* dynamic_multi_turn_loop's docstring: "Keeps sampling until the desired  *)
(* number of effective trajectories is collected."  The search environment *)
(* cannot be reset for a second try: the first one popped its env_kwargs.  *)
KeepsSampling == pc = "error" => try_count = MaxTries
=============================================================================
