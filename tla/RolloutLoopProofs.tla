-------------------------- MODULE RolloutLoopProofs --------------------------
(***************************************************************************)
(* Proofs about RolloutLoop, for any number of groups, episodes, turns and *)
(* tries, every environment and both modes: what is collected are whole    *)
(* groups of episodes that end where their environment was done, enough of *)
(* them and never twice too many, and the rows trained on are their turns. *)
(*                                                                         *)
(* The argument.  While a try is played, an environment has been active    *)
(* for the first episode_lengths turns and only the last of these may have *)
(* given a reward (Playing).  What the filter keeps are episodes of such   *)
(* environments (Kept episodes are Good), and it decides by group.         *)
(***************************************************************************)
EXTENDS RolloutLoop, FiniteSetTheorems, TLAPS

Types ==
    /\ pc \in {"reset", "turn", "evaluate", "gather", "adjust", "done", "error"}
    /\ step \in Nat /\ try_count \in Nat
    /\ is_done \in [Envs -> BOOLEAN]
    /\ episode_rewards \in [Envs -> Nat]
    /\ episode_lengths \in [Envs -> Nat]
    /\ turns \in [Envs -> Seq(Turn)]

(* An episode of n turns has been played: it was active for the first l of *)
(* them, and earned r at the last of these.                                *)
Played(s, n, l, r) ==
    /\ Len(s) = n /\ l <= n
    /\ \A t \in 1..n : s[t].active <=> t <= l
    /\ l = 0 => n = 0 /\ r = 0
    /\ l > 0 => r = s[l].reward

Playing ==
    \A i \in Envs :
        /\ Played(turns[i], step, episode_lengths[i], episode_rewards[i])
        /\ ~is_done[i] => episode_lengths[i] = step /\ episode_rewards[i] = 0
        /\ is_done[i] => episode_lengths[i] > 0

(* Where a try has not begun, or has been played *)
Located ==
    /\ pc = "reset" => step = 0
    /\ pc = "evaluate" => step > 0

Good(e) ==
    /\ e.turns \in Seq(Turn) /\ e.length \in Nat \ {0}
    /\ Played(e.turns, Len(e.turns), e.length, e.reward)
    /\ e.success <=> e.reward = 1

Episodic == \A e \in collected : Good(e)

IInv == Types /\ Playing /\ Located /\ Episodic

-----------------------------------------------------------------------------
(* A try *)

(* The final turn is the last active one. *)
LEMMA FinalTurnIs ==
    ASSUME Types, NEW i \in Envs, NEW l \in Nat \ {0}, NEW r,
           Played(turns[i], Len(turns[i]), l, r)
    PROVE  FinalTurn(i) = l
<1> DEFINE last(t) == /\ turns[i][t].active
                      /\ \A u \in (t + 1)..Len(turns[i]) : ~turns[i][u].active
<1>1. Len(turns[i]) \in Nat
  BY DEF Types
<1>2. l \in 1..Len(turns[i]) /\ last(l)
  BY <1>1 DEF Played
<1>3. \A t \in 1..Len(turns[i]) : last(t) => t = l
  <2> TAKE t \in 1..Len(turns[i])
  <2>1. CASE t < l
    <3>1. l \in (t + 1)..Len(turns[i])
      BY <1>1, <1>2, <2>1
    <3> QED
      BY <1>2, <3>1
  <2>2. CASE t > l
    BY <1>1, <2>2 DEF Played
  <2> QED
    BY <1>2, <2>1, <2>2
<1> QED
  BY <1>2, <1>3, Zenon DEF FinalTurn

(* The episodes of a try that has been played are good. *)
LEMMA EpisodesAreGood ==
    ASSUME Types, Playing, step > 0, NEW i \in Envs, NEW e,
           e = [uid |-> <<try_count, Group(i)>>, env |-> i, reward |-> episode_rewards[i],
                length |-> episode_lengths[i], turns |-> turns[i], success |-> Won(i)]
    PROVE  Good(e)
<1>1. /\ turns[i] \in Seq(Turn) /\ step \in Nat
      /\ episode_lengths[i] \in Nat /\ episode_rewards[i] \in Nat
  BY DEF Types
<1>2. /\ Played(turns[i], Len(turns[i]), episode_lengths[i], episode_rewards[i])
      /\ episode_lengths[i] > 0
  BY <1>1 DEF Playing, Played
<1>3. Won(i) <=> episode_rewards[i] = 1
  <2>1. FinalTurn(i) = episode_lengths[i]
    <3>1. episode_lengths[i] \in Nat \ {0}
      BY <1>1, <1>2
    <3> QED
      BY <1>2, <3>1, FinalTurnIs, Zenon
  <2> QED
    BY <1>1, <1>2, <2>1 DEF Won, Played
<1> QED
  BY <1>1, <1>2, <1>3 DEF Good

(* A turn leaves every environment's episode as it should be. *)
LEMMA TurnPlayed ==
    ASSUME Types, Playing, PlayTurn
    PROVE  Types' /\ Playing'
<1>1. PICK report \in [Envs -> [done : BOOLEAN, reward : Rewards]] :
        /\ \A i \in Envs : report[i] \in Reports(i)
        /\ AddToEpisode(report)
        /\ turns' = [i \in Envs |-> Append(turns[i], [active |-> ~is_done[i],
                                                      reward |-> report[i].reward])]
        /\ is_done' = [i \in Envs |-> is_done[i] \/ report[i].done]
  BY DEF PlayTurn
<1>2. /\ step' = step + 1 /\ try_count' = try_count
      /\ pc' \in {"evaluate", "turn"}
  BY DEF PlayTurn
<1>3. \A i \in Envs : report[i].reward \in {0, 1} /\ report[i].done \in BOOLEAN
  BY DEF Rewards
<1>4. \A i \in Envs : ~is_done[i] /\ ~report[i].done => report[i].reward = 0
  BY <1>1 DEF Reports
<1>5. Types'
  <2>1. /\ is_done' \in [Envs -> BOOLEAN]
        /\ turns' \in [Envs -> Seq(Turn)]
    BY <1>1, <1>3 DEF Types, Turn, Rewards
  <2>2. /\ episode_rewards' \in [Envs -> Nat]
        /\ episode_lengths' \in [Envs -> Nat]
    <3>1. \A i \in Envs : /\ episode_rewards[i] \in Nat /\ episode_lengths[i] \in Nat
                            /\ episode_rewards[i] + report[i].reward \in Nat
                            /\ episode_lengths[i] + 1 \in Nat
      <4> TAKE i \in Envs
      <4>1. episode_rewards[i] \in Nat /\ episode_lengths[i] \in Nat
        BY DEF Types
      <4>2. report[i].reward \in Nat
        <5>1. report[i].reward = 0 \/ report[i].reward = 1
          BY <1>3, Zenon
        <5> QED
          BY <5>1
      <4> QED
        BY <4>1, <4>2
    <3> QED
      BY <1>1, <3>1 DEF AddToEpisode
  <2> QED
    BY <1>2, <2>1, <2>2 DEF Types
<1>6. Playing'
  <2> SUFFICES ASSUME NEW i \in Envs
               PROVE  /\ Played(turns'[i], step', episode_lengths'[i], episode_rewards'[i])
                      /\ ~is_done'[i] => episode_lengths'[i] = step' /\ episode_rewards'[i] = 0
                      /\ is_done'[i] => episode_lengths'[i] > 0
    BY DEF Playing, Played
  <2> DEFINE s == turns[i]
             x == [active |-> ~is_done[i], reward |-> report[i].reward]
             w == Append(s, x)
  <2>1. /\ turns'[i] = w
        /\ is_done'[i] = (is_done[i] \/ report[i].done)
        /\ is_done[i] => /\ episode_rewards'[i] = episode_rewards[i]
                         /\ episode_lengths'[i] = episode_lengths[i]
        /\ ~is_done[i] => /\ episode_rewards'[i] = episode_rewards[i] + report[i].reward
                          /\ episode_lengths'[i] = episode_lengths[i] + 1
    BY <1>1 DEF AddToEpisode, Types
  <2>2. /\ Played(s, step, episode_lengths[i], episode_rewards[i])
        /\ ~is_done[i] => episode_lengths[i] = step /\ episode_rewards[i] = 0
        /\ is_done[i] => episode_lengths[i] > 0
    BY DEF Playing
  <2>3. /\ s \in Seq(Turn) /\ x \in Turn /\ step \in Nat
        /\ episode_lengths[i] \in Nat /\ episode_rewards[i] \in Nat
    BY <1>3 DEF Types, Turn, Rewards
  <2>4. Len(s) = step
    BY <2>2 DEF Played
  <2>5. /\ Len(w) = step + 1 /\ w[step + 1] = x
        /\ \A t \in 1..step : w[t] = s[t]
    BY <2>3, <2>4
  <2>8. (x.active <=> ~is_done[i]) /\ x.reward = report[i].reward
    BY Zenon
  <2> HIDE DEF w, x
  <2>6. CASE is_done[i]
    <3>1. ~w[step + 1].active
      BY <2>5, <2>6, <2>8, Zenon
    <3>2. Played(w, step + 1, episode_lengths[i], episode_rewards[i])
      BY <2>2, <2>3, <2>5, <2>6, <3>1 DEF Played
    <3> QED
      BY <1>2, <2>1, <2>2, <2>6, <3>2
  <2>7. CASE ~is_done[i]
    <3>1. w[step + 1].active /\ w[step + 1].reward = report[i].reward
      BY <2>5, <2>7, <2>8, Zenon
    <3>2. episode_rewards[i] + report[i].reward = report[i].reward
      BY <1>3, <2>2, <2>7
    <3>3. \A t \in 1..(step + 1) : w[t].active <=> t <= step + 1
      <4> TAKE t \in 1..(step + 1)
      <4>1. CASE t = step + 1
        <5>1. w[t].active
          BY <3>1, <4>1, Zenon
        <5>2. t <= step + 1
          OBVIOUS
        <5> QED
          BY <5>1, <5>2
      <4>2. CASE t \in 1..step
        BY <2>2, <2>3, <2>5, <2>7, <4>2 DEF Played
      <4>3. t = step + 1 \/ t \in 1..step
        BY <2>3
      <4> QED
        BY <4>1, <4>2, <4>3, Zenon
    <3>4. Played(w, step + 1, step + 1, report[i].reward)
      BY <2>3, <2>5, <3>1, <3>3 DEF Played
    <3>5. episode_lengths'[i] = step + 1 /\ episode_rewards'[i] = report[i].reward
      BY <2>1, <2>2, <2>7, <3>2
    <3> QED
      BY <1>2, <1>4, <2>1, <2>3, <2>7, <3>4, <3>5
  <2> QED
    BY <2>6, <2>7
<1> QED
  BY <1>5, <1>6

(* So does the end of a try, which starts the next one afresh. *)
LEMMA Afresh ==
    ASSUME Types, FreshEpisode, try_count' = try_count, pc' \in {"reset", "gather"}
    PROVE  Types' /\ Playing' /\ Located'
<1>1. /\ step' = 0
      /\ is_done' = [i \in Envs |-> FALSE]
      /\ episode_rewards' = [i \in Envs |-> 0]
      /\ episode_lengths' = [i \in Envs |-> 0]
      /\ turns' = [i \in Envs |-> <<>>]
  BY DEF FreshEpisode
<1>2. Types' /\ Located'
  BY <1>1 DEF Types, Located
<1>3. Playing'
  BY <1>1 DEF Playing, Played
<1> QED
  BY <1>2, <1>3

(* The episodes a try adds are good. *)
LEMMA AddsGood ==
    ASSUME IInv, pc = "evaluate", NEW S \in SUBSET Envs,
           collected' = collected \cup Episodes(S)
    PROVE  Episodic'
<1>1. \A e \in Episodes(S) : Good(e)
  BY EpisodesAreGood DEF Episodes, IInv, Located
<1> QED
  BY <1>1 DEF IInv, Episodic, Good, Played

(* Without the filter nothing was collected before. *)
Unfiltered == ~filter_groups /\ pc \in {"reset", "turn", "evaluate"} => collected = {}

(* What both ways to end a try have in common *)
Adds(S) ==
    /\ pc = "evaluate"
    /\ collected' = collected \cup Episodes(S)
    /\ FreshEpisode
    /\ try_count' = try_count
    /\ filter_groups' = filter_groups
    /\ pc' \in {"reset", "gather"}
    /\ pc' = "reset" => filter_groups /\ ~Enough(collected')
    /\ pc' = "gather" => Enough(collected') \/ LastTry \/ collected' = Episodes(Envs)

(* Vanilla adds all episodes. *)
LEMMA VanillaAdds == ASSUME Unfiltered, Vanilla PROVE Adds(Envs)
  BY DEF Unfiltered, Vanilla, Adds, config

(* The filter's keep_indices names every environment it keeps, *)
LEMMA KeepIndicesAre ==
    /\ DOMAIN KeepIndices = 1..Cardinality({i \in Envs : Kept(i)})
    /\ \A k \in DOMAIN KeepIndices : KeepIndices[k] \in {i \in Envs : Kept(i)}
    /\ \A i \in Envs : Kept(i) => \E k \in DOMAIN KeepIndices : KeepIndices[k] = i
<1> DEFINE S == {i \in Envs : Kept(i)}
           n == Cardinality(S)
<1>1. IsFiniteSet(S)
  <2>1. IsFiniteSet(Envs)
    BY RolloutAssumption, FS_Interval DEF Envs
  <2> QED
    BY <2>1, FS_Subset
<1>2. n \in Nat /\ \E f : f \in Bijection(1..n, S)
  <2> HIDE DEF S
  <2>1. ExistsBijection(1..n, S)
    BY <1>1, FS_CardinalityType
  <2> QED
    BY <1>1, <2>1, FS_CardinalityType DEF ExistsBijection
<1> HIDE DEF S, n
<1>3. \E f \in [1..n -> S] : IsInjective(f)
  BY <1>2 DEF Bijection, Injection, IsInjective
<1>4. KeepIndices \in [1..n -> S] /\ IsInjective(KeepIndices)
  <2>1. KeepIndices = CHOOSE f \in [1..n -> S] : IsInjective(f)
    BY DEF KeepIndices, SetToSeq, S, n
  <2> QED
    BY <1>3, <2>1
<1>5. KeepIndices \in Surjection(1..n, S)
  <2>1. KeepIndices \in Injection(1..n, S)
    BY <1>4 DEF IsInjective, Injection
  <2>2. IsFiniteSet(1..n) /\ Cardinality(1..n) = n
    BY <1>2, FS_Interval
  <2> QED
    BY <1>1, <2>1, <2>2, FS_Injection DEF n
<1>6. \A i \in S : \E k \in 1..n : KeepIndices[k] = i
  BY <1>5 DEF Surjection
<1>7. \A i : i \in S <=> i \in Envs /\ Kept(i)
  BY DEF S
<1> QED
  BY <1>4, <1>6, <1>7 DEF S, n

(* so what the lists have at the same position is one episode. *)
LEMMA FilterGroupDataIs ==
    FilterGroupData(KeepIndices) = Episodes({i \in Envs : Kept(i)})
<1> DEFINE keep == KeepIndices
           entry(i) == [uid |-> <<try_count, Group(i)>>, env |-> i,
                       reward |-> episode_rewards[i], length |-> episode_lengths[i],
                       turns |-> turns[i], success |-> Won(i)]
<1>1. FilterGroupData(keep) = {entry(keep[k]) : k \in DOMAIN keep}
  <2>1. DOMAIN At(BatchList, keep) = DOMAIN keep
    BY DEF At
  <2>2. ASSUME NEW k \in DOMAIN keep
        PROVE  /\ At(BatchList, keep)[k] = [env |-> keep[k], turns |-> turns[keep[k]]]
               /\ At(episode_rewards, keep)[k] = episode_rewards[keep[k]]
               /\ At(episode_lengths, keep)[k] = episode_lengths[keep[k]]
               /\ At(Success, keep)[k] = Won(keep[k])
    <3>1. keep[k] \in Envs
      BY KeepIndicesAre
    <3> HIDE DEF keep
    <3> QED
      BY <3>1 DEF At, BatchList, Success
  <2> HIDE DEF keep
  <2> QED
    BY <2>1, <2>2 DEF FilterGroupData, Zipped
<1>2. {entry(keep[k]) : k \in DOMAIN keep} = {entry(i) : i \in {i \in Envs : Kept(i)}}
  <2> HIDE DEF entry
  <2> QED
    BY KeepIndicesAre
<1> QED
  BY <1>1, <1>2 DEF Episodes

(* So the filter adds those of the environments it keeps. *)
LEMMA FilterAdds == ASSUME Filter PROVE Adds({i \in Envs : Kept(i)})
  BY FilterGroupDataIs DEF Filter, Adds, config

(* What the other steps have in common: they collect nothing. *)
Keeps ==
    /\ UNCHANGED <<collected, filter_groups>>
    /\ pc' \in {"reset", "turn", "evaluate"} => pc \in {"reset", "turn", "evaluate"}
    /\ pc' \in {"gather", "adjust", "done"} =>
           pc \in {"gather", "adjust", "done"} /\ try_count' = try_count

(* These are all the others. *)
LEMMA OthersKeep ==
    ASSUME Reset \/ PlayTurn \/ Gather \/ Adjust \/ UNCHANGED vars PROVE Keeps
<1>1. CASE Reset
  BY <1>1 DEF Reset, Keeps, config
<1>2. CASE PlayTurn
  BY <1>2 DEF PlayTurn, Keeps, config
<1>3. CASE Gather
  BY <1>3 DEF Gather, Keeps, config
<1>4. CASE Adjust
  BY <1>4 DEF Adjust, Keeps, config
<1>5. CASE UNCHANGED vars
  BY <1>5 DEF vars, Keeps
<1> QED
  BY <1>1, <1>2, <1>3, <1>4, <1>5

(* Every step keeps the invariant. *)
LEMMA IInvStep == ASSUME IInv, Unfiltered, [Next]_vars PROVE IInv'
<1> USE DEF IInv
<1>1. ASSUME NEW S \in SUBSET Envs, Adds(S) PROVE IInv'
  BY <1>1, Afresh, AddsGood DEF Adds
<1>2. CASE PlayTurn
  <2>1. Types' /\ Playing'
    BY <1>2, TurnPlayed
  <2>2. Located' /\ Episodic'
    BY <1>2 DEF PlayTurn, Located, Episodic, Types
  <2> QED
    BY <2>1, <2>2
<1>3. CASE Reset \/ Gather \/ Adjust \/ UNCHANGED vars
  <2>1. UNCHANGED <<step, is_done, episode_rewards, episode_lengths, turns, collected>>
    BY <1>3 DEF Reset, Gather, Adjust, vars, episode
  <2>2. /\ pc' \in {"reset", "turn", "evaluate", "gather", "adjust", "done", "error"}
        /\ try_count' \in Nat
        /\ pc' \in {"reset", "evaluate"} => pc' = pc
    BY <1>3 DEF Reset, Gather, Adjust, vars, Types
  <2>3. Types' /\ Located'
    BY <2>1, <2>2 DEF Types, Located
  <2>4. Playing' /\ Episodic'
    BY <2>1 DEF Playing, Episodic
  <2> QED
    BY <2>3, <2>4
<1> QED
  BY <1>1, <1>2, <1>3, VanillaAdds, FilterAdds DEF Next

(* Groups stay whole: whether an episode is kept depends on its group. *)
LEMMA GroupsStep ==
    ASSUME GroupsStayWhole, Unfiltered, [Next]_vars PROVE GroupsStayWhole'
<1>1. ASSUME NEW S \in SUBSET Envs, Adds(S),
             \A i \in Envs, j \in S : Group(i) = Group(j) => i \in S
      PROVE  GroupsStayWhole'
  <2> SUFFICES ASSUME NEW e \in collected', NEW i \in Envs, Group(i) = Group(e.env)
               PROVE  \E o \in collected' : o.uid = e.uid /\ o.env = i
    BY DEF GroupsStayWhole
  <2>1. CASE e \in collected
    BY <1>1, <2>1 DEF Adds, GroupsStayWhole
  <2>2. CASE e \in Episodes(S)
    <3>1. PICK j \in S : e.env = j /\ e.uid = <<try_count, Group(j)>>
      BY <2>2 DEF Episodes
    <3>2. i \in S
      BY <1>1, <3>1
    <3>3. \E o \in Episodes(S) : o.uid = e.uid /\ o.env = i
      <4> DEFINE o == [uid |-> <<try_count, Group(i)>>, env |-> i,
                       reward |-> episode_rewards[i], length |-> episode_lengths[i],
                       turns |-> turns[i], success |-> Won(i)]
      <4>1. o \in Episodes(S)
        BY <3>2 DEF Episodes
      <4>2. o.uid = e.uid /\ o.env = i
        BY <3>1
      <4> QED
        BY <4>1, <4>2
    <3> QED
      BY <1>1, <3>3 DEF Adds
  <2> QED
    BY <1>1, <2>1, <2>2 DEF Adds
<1>2. CASE Vanilla
  BY <1>1, <1>2, VanillaAdds
<1>3. CASE Filter
  <2>1. \A i, j \in Envs : Group(i) = Group(j) /\ Kept(j) => Kept(i)
    BY DEF Kept
  <2> QED
    BY <1>1, <1>3, <2>1, FilterAdds
<1>4. CASE Keeps
  BY <1>4 DEF Keeps, GroupsStayWhole
<1> QED
  BY <1>2, <1>3, <1>4, OthersKeep DEF Next

-----------------------------------------------------------------------------
(* Counting *)

(* There are as many environments as episodes are wanted. *)
LEMMA EnvsAreTarget ==
    /\ Target \in Nat \ {0}
    /\ IsFiniteSet(Envs) /\ Cardinality(Envs) = Target
<1>1. Target \in Nat \ {0}
  BY RolloutAssumption DEF Target
<1>2. Envs = 0..(Target - 1)
  BY DEF Envs, Target
<1> HIDE DEF Target
<1>3. IsFiniteSet(0..(Target - 1)) /\ Cardinality(0..(Target - 1)) = Target
  BY <1>1, FS_Interval
<1> QED
  BY <1>1, <1>2, <1>3

(* A set of environments has as many episodes. *)
LEMMA EpisodesCount ==
    ASSUME NEW S \in SUBSET Envs
    PROVE  /\ IsFiniteSet(Episodes(S))
           /\ Cardinality(Episodes(S)) \in Nat
           /\ Cardinality(Episodes(S)) <= Target
           /\ S = Envs => Cardinality(Episodes(S)) = Target
<1> DEFINE o(i) == [uid |-> <<try_count, Group(i)>>, env |-> i,
                    reward |-> episode_rewards[i], length |-> episode_lengths[i],
                    turns |-> turns[i], success |-> Won(i)]
           f == [i \in S |-> o(i)]
           T == Episodes(S)
<1>1. T = {o(i) : i \in S}
  BY DEF Episodes
<1>2. \A i, j \in S : o(i) = o(j) => i = j
  <2> SUFFICES ASSUME NEW i \in S, NEW j \in S, o(i) = o(j) PROVE i = j
    OBVIOUS
  <2>1. o(i).env = i /\ o(j).env = j
    OBVIOUS
  <2> QED
    BY <2>1
<1> HIDE DEF o, T
<1>3. f \in Surjection(S, T)
  BY <1>1 DEF Surjection
<1>4. f \in Injection(S, T)
  BY <1>1, <1>2 DEF Injection, IsInjective
<1>5. IsFiniteSet(S) /\ Cardinality(S) <= Target /\ Cardinality(S) \in Nat
  BY EnvsAreTarget, FS_Subset, FS_CardinalityType
<1> HIDE DEF f
<1>6. IsFiniteSet(T) /\ Cardinality(T) = Cardinality(S)
  BY <1>3, <1>4, <1>5, FS_Surjection
<1> QED
  BY <1>5, <1>6, EnvsAreTarget DEF T

(* A rollout that goes on has fewer episodes than it needs. *)
Counted ==
    /\ IsFiniteSet(collected)
    /\ pc \in {"reset", "turn", "evaluate"} => Cardinality(collected) < Target
    /\ CollectsTheTarget

(* At most one try's episodes come to fewer than are needed. *)
LEMMA CountedStep == ASSUME Counted, Unfiltered, [Next]_vars PROVE Counted'
<1>1. ASSUME NEW S \in SUBSET Envs, Adds(S) PROVE Counted'
  <2>1. /\ IsFiniteSet(collected') /\ Cardinality(collected') \in Nat
        /\ Cardinality(collected') < 2 * Target
    <3> DEFINE A == collected
               B == Episodes(S)
    <3>1. /\ IsFiniteSet(A) /\ Cardinality(A) \in Nat /\ Cardinality(A) < Target
          /\ IsFiniteSet(B) /\ Cardinality(B) \in Nat /\ Cardinality(B) <= Target
      BY <1>1, EpisodesCount, FS_CardinalityType DEF Counted, Adds
    <3>2. collected' = A \cup B
      BY <1>1 DEF Adds
    <3> HIDE DEF A, B
    <3>3. /\ IsFiniteSet(A \cup B) /\ Cardinality(A \cap B) \in Nat
          /\ Cardinality(A \cup B) = Cardinality(A) + Cardinality(B) - Cardinality(A \cap B)
      BY <3>1, FS_Union, FS_Intersection, FS_CardinalityType
    <3>4. Target \in Nat /\ Cardinality(A \cup B) \in Nat
      BY <3>3, EnvsAreTarget, FS_CardinalityType
    <3> HIDE DEF Target
    <3> QED
      BY <3>1, <3>2, <3>3, <3>4
  <2>2. pc' = "reset" => Cardinality(collected') < Target
    BY <1>1, <2>1, EnvsAreTarget DEF Adds, Enough
  <2>3. pc' = "gather" => Cardinality(collected') >= Target \/ try_count' = MaxTries
    <3>1. Cardinality(Episodes(Envs)) = Target /\ Target \in Nat
      BY EpisodesCount, EnvsAreTarget
    <3> HIDE DEF Target
    <3> QED
      BY <1>1, <3>1 DEF Adds, Enough, LastTry
  <2>4. pc' \in {"reset", "gather"}
    BY <1>1 DEF Adds
  <2> QED
    BY <2>1, <2>2, <2>3, <2>4 DEF Counted, CollectsTheTarget
<1>2. CASE Keeps
  BY <1>2 DEF Keeps, Counted, CollectsTheTarget, Target
<1> QED
  BY <1>1, <1>2, VanillaAdds, FilterAdds, OthersKeep DEF Next

(* Nothing is collected without the filter until the one try is over. *)
LEMMA UnfilteredStep == ASSUME Unfiltered, [Next]_vars PROVE Unfiltered'
<1>1. ASSUME NEW S, Adds(S) PROVE Unfiltered'
  BY <1>1 DEF Adds, Unfiltered
<1>2. CASE Keeps
  BY <1>2 DEF Keeps, Unfiltered
<1> QED
  BY <1>1, <1>2, VanillaAdds, FilterAdds, OthersKeep DEF Next

-----------------------------------------------------------------------------
(* Rows *)

(* The rows of a good episode are its turns 1 to length. *)
LEMMA RowsOfGood ==
    ASSUME NEW e, Good(e)
    PROVE  EpisodeRows(e) = {<<e.uid, e.env, t>> : t \in 1..e.length}
<1>1. {u \in 1..Len(e.turns) : e.turns[u].active} = 1..e.length
  BY DEF Good, Played
<1> QED
  BY <1>1 DEF EpisodeRows

(* So gathering takes just these. *)
LEMMA RowsStep == ASSUME IInv, RowsAreTheEpisodes, [Next]_vars PROVE RowsAreTheEpisodes'
<1>1. CASE Gather
  <2>1. \A e \in collected : EpisodeRows(e) = {<<e.uid, e.env, t>> : t \in 1..e.length}
    BY RowsOfGood DEF IInv, Episodic
  <2>2. UNION {EpisodeRows(e) : e \in collected} =
            UNION {{<<e.uid, e.env, t>> : t \in 1..e.length} : e \in collected}
    BY <2>1
  <2> QED
    BY <1>1, <2>2 DEF Gather, RowsAreTheEpisodes
<1>2. CASE Adjust
  BY <1>2 DEF Adjust, RowsAreTheEpisodes
<1>3. CASE UNCHANGED vars
  BY <1>3 DEF vars, RowsAreTheEpisodes
<1>4. CASE Reset \/ PlayTurn \/ Vanilla \/ Filter
  BY <1>4 DEF Reset, PlayTurn, Vanilla, Filter, RowsAreTheEpisodes
<1> QED
  BY <1>1, <1>2, <1>3, <1>4 DEF Next

(* There are finitely many rows to pad. *)
LEMMA RowsFinite ==
    ASSUME Counted, RowsAreTheEpisodes, Episodic, pc = "adjust"
    PROVE  IsFiniteSet(rows) /\ Cardinality(rows) \in Nat
<1> DEFINE turnsOf(e) == {<<e.uid, e.env, t>> : t \in 1..e.length}
           R == {turnsOf(e) : e \in collected}
<1>1. rows = UNION R
  BY DEF RowsAreTheEpisodes
<1>2. ASSUME NEW e \in collected PROVE IsFiniteSet(turnsOf(e))
  <2> DEFINE I == 1..e.length
             f == [t \in I |-> <<e.uid, e.env, t>>]
  <2>1. e.length \in Nat
    BY DEF Episodic, Good
  <2>2. IsFiniteSet(I)
    BY <2>1, FS_Interval
  <2>3. f \in Surjection(I, turnsOf(e))
    BY DEF Surjection
  <2> HIDE DEF f, I, turnsOf
  <2> QED
    BY <2>2, <2>3, FS_Surjection
<1>3. IsFiniteSet(R)
  <2> DEFINE g == [e \in collected |-> turnsOf(e)]
  <2> HIDE DEF turnsOf
  <2>1. g \in Surjection(collected, R)
    BY DEF Surjection
  <2> HIDE DEF g, R
  <2> QED
    BY <2>1, FS_Surjection DEF Counted
<1>4. \A T \in R : IsFiniteSet(T)
  BY <1>2
<1> HIDE DEF R
<1> QED
  BY <1>1, <1>3, <1>4, FS_UNION, FS_CardinalityType

(* A number and what it lacks to the next multiple *)
LEMMA FillUp ==
    ASSUME NEW c \in Nat, NEW d \in Nat \ {0}
    PROVE  (c + (d - (c % d))) % d = 0
  OBVIOUS

(* Copies fill the batch up to the divisor. *)
LEMMA DividesStep ==
    ASSUME Counted, RowsAreTheEpisodes, Episodic, BatchDivides, [Next]_vars
    PROVE  BatchDivides'
<1>1. CASE Adjust
  <2> DEFINE c == Cardinality(rows)
  <2>1. c \in Nat /\ Divisor \in Nat \ {0}
    BY <1>1, RowsFinite, RolloutAssumption DEF Adjust
  <2>2. /\ Remainder = c % Divisor
        /\ rows' = rows
        /\ pc' = "done" => copies' = ToAdd /\ ~(ToAdd > c)
    BY <1>1 DEF Adjust, Remainder
  <2> HIDE DEF c
  <2>3. CASE c % Divisor = 0
    <3>1. ToAdd = 0
      BY <2>2, <2>3 DEF ToAdd
    <3>2. (c + 0) % Divisor = 0 /\ 0 < Divisor /\ 0 <= c
      BY <2>1, <2>3
    <3> QED
      BY <2>2, <3>1, <3>2 DEF BatchDivides, c
  <2>4. CASE c % Divisor # 0
    <3>1. ToAdd = Divisor - (c % Divisor)
      BY <2>2, <2>4 DEF ToAdd
    <3>2. (c + (Divisor - (c % Divisor))) % Divisor = 0
      BY <2>1, FillUp
    <3>3. ToAdd < Divisor /\ ToAdd \in Nat
      BY <2>1, <2>4, <3>1
    <3>4. (c + ToAdd) % Divisor = 0
      BY <3>1, <3>2
    <3>5. pc' = "done" => copies' = ToAdd /\ ToAdd <= c
      BY <2>1, <2>2, <3>3
    <3> HIDE DEF ToAdd
    <3>6. pc' = "done" => /\ (c + copies') % Divisor = 0
                          /\ copies' < Divisor
                          /\ copies' <= c
      BY <3>3, <3>4, <3>5, Zenon
    <3>7. c' = c
      BY <2>2 DEF c
    <3> QED
      BY <3>6, <3>7, Zenon DEF BatchDivides, c
  <2> QED
    BY <2>3, <2>4
<1>2. CASE UNCHANGED vars
  BY <1>2 DEF vars, BatchDivides
<1>3. CASE Reset \/ PlayTurn \/ Vanilla \/ Filter \/ Gather
  BY <1>3 DEF Reset, PlayTurn, Vanilla, Filter, Gather, BatchDivides
<1> QED
  BY <1>1, <1>2, <1>3 DEF Next

-----------------------------------------------------------------------------
(* Theorems *)

Inv == /\ IInv /\ Unfiltered /\ Counted
       /\ GroupsStayWhole /\ RowsAreTheEpisodes /\ BatchDivides

(* At the start nothing has been played or collected. *)
LEMMA Start == Init => Inv
<1> SUFFICES ASSUME Init PROVE Inv
  OBVIOUS
<1>1. Types /\ Playing
  BY DEF Init, Types, Playing, Played
<1>2. Located /\ Episodic /\ Unfiltered
  BY DEF Init, Located, Episodic, Unfiltered
<1>3. Counted
  BY FS_EmptySet, EnvsAreTarget DEF Init, Counted, CollectsTheTarget
<1>4. GroupsStayWhole /\ RowsAreTheEpisodes /\ BatchDivides
  BY DEF Init, GroupsStayWhole, RowsAreTheEpisodes, BatchDivides
<1> QED
  BY <1>1, <1>2, <1>3, <1>4 DEF Inv, IInv

(* The invariant the others rest on. *)
THEOREM Invariant == Spec => []Inv
<1>1. Inv /\ [Next]_vars => Inv'
  BY IInvStep, UnfilteredStep, CountedStep, GroupsStep, RowsStep, DividesStep
     DEF Inv, IInv
<1> QED
  BY <1>1, Start, PTL DEF Spec

(* Whatever environments report after they are done, an episode is what    *)
(* was played before.                                                      *)
THEOREM EpisodesEnd == Spec => []EpisodesEndAtDone
<1>1. Inv => EpisodesEndAtDone
  BY DEF Inv, IInv, Episodic, Good, Played, EpisodesEndAtDone
<1> QED
  BY <1>1, Invariant, PTL

(* The success that is logged and the reward that is trained on agree. *)
THEOREM SuccessIsReward == Spec => []SuccessMatchesReward
<1>1. Inv => SuccessMatchesReward
  BY DEF Inv, IInv, Episodic, Good, SuccessMatchesReward
<1> QED
  BY <1>1, Invariant, PTL

(* No group is split by the filter, in whichever try. *)
THEOREM GroupsAreWhole == Spec => []GroupsStayWhole
<1>1. Inv => GroupsStayWhole
  BY DEF Inv
<1> QED
  BY <1>1, Invariant, PTL

(* Training starts with enough episodes or after the last try. *)
THEOREM TargetIsCollected == Spec => []CollectsTheTarget
<1>1. Inv => CollectsTheTarget
  BY DEF Inv, Counted
<1> QED
  BY <1>1, Invariant, PTL

(* The rows are the episodes' own turns. *)
THEOREM RowsAreEpisodes == Spec => []RowsAreTheEpisodes
<1>1. Inv => RowsAreTheEpisodes
  BY DEF Inv
<1> QED
  BY <1>1, Invariant, PTL

(* The padded batch divides, whatever the divisor. *)
THEOREM Divides == Spec => []BatchDivides
<1>1. Inv => BatchDivides
  BY DEF Inv
<1> QED
  BY <1>1, Invariant, PTL
=============================================================================
