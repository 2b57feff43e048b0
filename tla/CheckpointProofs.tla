---------------------------- MODULE CheckpointProofs ----------------------------
(***************************************************************************)
(* Proofs about Checkpoint, for every number of ranks, files, steps and    *)
(* launches: its types, that a job only works on steps after the one it    *)
(* would resume from, and that the rotation keeps to its bound and to the  *)
(* files of its own launch; and, provided that at least two checkpoints    *)
(* are kept (or all), that the tracker never names one that is not whole.  *)
(*                                                                         *)
(* The argument.  A process works only on a step after the tracker's       *)
(* (Ahead), so what it writes is never what the tracker names; what it     *)
(* retires is a path it saved before its last one (Paths), and the         *)
(* tracker names the last one.  The tracker moves to a new step only when  *)
(* every file of it is written (Written).                                  *)
(*   For the rotation: nobody writes before every rank has rotated, nobody *)
(* appends before every rank has written (Barriers), so each rank's paths, *)
(* with the step it is making, are all the steps that hold a file of this  *)
(* launch (Mine), and hold nothing else (Owned); a rank that is making a   *)
(* step has room for it (Room).                                            *)
(***************************************************************************)
EXTENDS Checkpoint, FiniteSetTheorems, TLAPS

(* max_ckpt_to_keep = 1 retires the checkpoint the tracker names. *)
KeepsTwo == MaxKeep # 1

Committing == {"data", "dataWrite", "track", "commit"}
Pending    == {"train", "actor", "critic", "data", "dataWrite", "track"}
Working    == {"train", "next"} \cup Saving \cup Committing

(* Steps are bounded by the launches: each may train one step more. *)
Bounded ==
    /\ pc \in Working => global_steps \in 1..(TotalSteps + run - 1)
    /\ \A s \in folder : s < TotalSteps + run
    /\ pc = "start" => \A s \in folder : s < TotalSteps + run - 1
    /\ pc = "critic" => UseCritic

(* The directories that are there. *)
Folders ==
    /\ tracker \in Steps => tracker \in folder
    /\ pc = "actor" => \A k \in Ranks : rank[k] # "rotate" => global_steps \in folder
    /\ pc \in {"critic"} \cup Committing => global_steps \in folder
    /\ pc \in Saving => \A k \in Ranks : rank[k] # "idle"

(* Only steps after the tracker's are worked on. *)
Ahead ==
    autoOnly /\ tracker \in Steps =>
        /\ pc \in Pending => tracker < global_steps
        /\ pc = "next" => tracker <= global_steps

(* The rank has appended the step of the save that is going on. *)
Appended(role, k) ==
    \/ pc = role /\ rank[k] = "saved"
    \/ pc = "critic" /\ role = "actor"
    \/ pc \in Committing

(* The saved paths ascend to the tracker's step, then to the new one. *)
PathsOf(role, k) ==
    LET path == previous_saved_paths[role][k]
        last == path[Len(path)]
    IN  /\ \A i, j \in 1..Len(path) : i < j => path[i] < path[j]
        /\ Len(path) > 0 =>
              /\ Appended(role, k) => last = global_steps
              /\ ~Appended(role, k) => last = tracker
              /\ pc \in {"train"} \cup Saving /\ ~Appended(role, k) => last < global_steps
              /\ pc = "next" => last <= global_steps

Paths ==
    /\ pc \in Working => \A role \in Roles, k \in Ranks : PathsOf(role, k)
    /\ pc = "start" => \A role \in Roles, k \in Ranks : previous_saved_paths[role][k] = <<>>

(* The shards of the role that are complete in the step being saved. *)
RoleWritten(role) == \A k \in Ranks, f \in Files : shard[global_steps][role][k][f] = run

Written ==
    /\ pc \in Saving => \A k \in Ranks :
          /\ rank[k] \in {"rotate", "enter"} => file[k] = 1
          /\ \A f \in Files : f < file[k] => shard[global_steps][pc][k][f] = run
          /\ rank[k] \in {"leave", "saved"} => file[k] = NFiles + 1
    /\ pc = "critic" => RoleWritten("actor")
    /\ pc \in Committing => \A role \in Roles : RoleWritten(role)
    /\ pc \in {"track", "commit"} => data[global_steps] = run

(* What the tracker names is whole, unless one checkpoint is kept. *)
TrackerWhole == KeepsTwo => TrackerNamesComplete

IInv ==
    /\ TypeOK
    /\ Bounded
    /\ Folders
    /\ Ahead
    /\ Paths
    /\ Written
    /\ TrackerWhole

-----------------------------------------------------------------------------
(* The rotation's invariant *)

Holds(path, s) == \E i \in 1..Len(path) : path[i] = s

(* Nobody writes before all have rotated, nobody is through before all     *)
(* have written.                                                           *)
Barriers ==
    pc \in Saving => \A j, k \in Ranks :
        /\ rank[j] \in {"write", "leave", "saved"} => rank[k] # "rotate"
        /\ rank[j] = "saved" => rank[k] \in {"leave", "saved"}

(* No file is of a later launch, and none of a launch that only starts. *)
Older ==
    \A s \in Steps, role \in Roles, k \in Ranks, f \in Files :
        /\ shard[s][role][k][f] <= run
        /\ pc = "start" => shard[s][role][k][f] # run

(* The rank has made room for the step being saved and not appended it yet. *)
Making(role, k) == pc = role /\ rank[k] \in {"enter", "write", "leave"}

(* Every rank knows every step that holds a file of this launch. *)
Mine ==
    pc \in Working =>
        \A s \in Steps, role \in Roles, j \in Ranks, f \in Files :
            shard[s][role][j][f] = run =>
                \A k \in Ranks :
                    \/ Holds(previous_saved_paths[role][k], s)
                    \/ Making(role, k) /\ s = global_steps

(* There is room for what is being saved. *)
Room ==
    MaxKeep > 0 /\ pc \in Working =>
        \A role \in Roles, k \in Ranks :
            /\ Len(previous_saved_paths[role][k]) <= MaxKeep
            /\ Making(role, k) => Len(previous_saved_paths[role][k]) < MaxKeep

(* What the rotation may retire is of this launch. *)
Owned ==
    pc \in Working =>
        \A s \in Steps, role \in Roles, k \in Ranks :
            Holds(previous_saved_paths[role][k], s) =>
                \A j \in Ranks, f \in Files : shard[s][role][j][f] \in {Absent, run}

(* When the launch is over, the files on the disk stay. *)
Resting == pc \notin Working => KeepsAtMostPerRun

RInv == Barriers /\ Older /\ Mine /\ Room /\ Owned /\ Resting

-----------------------------------------------------------------------------
(* Constants and lookups *)

(* What the proofs use of the constants. *)
LEMMA ConstantTypes ==
    /\ TotalSteps \in Nat /\ MaxRuns \in Nat /\ NFiles \in Nat /\ MaxKeep \in Nat
    /\ TotalSteps > 0 /\ MaxRuns > 0
    /\ Ranks # {}
  BY CheckpointAssumption

(* The roles and the marks of a file. *)
LEMMA Marks ==
    /\ "actor" \in Roles
    /\ Roles \subseteq {"actor", "critic"}
    /\ UseCritic => "critic" \in Roles
    /\ ~UseCritic => "critic" \notin Roles
    /\ Absent \notin Runs /\ Torn \notin Runs
    /\ Absent \notin Steps /\ Torn \notin Steps
    /\ Absent \in Content /\ Torn \in Content /\ Runs \subseteq Content
  BY DEF Roles, Runs, Steps, Absent, Torn, Content

(* Writing one file changes that file only. *)
LEMMA OneFile ==
    ASSUME TypeOK,
           NEW s \in Steps, NEW role \in Roles, NEW k \in Ranks, NEW f \in Files,
           NEW c \in Content, shard' = [shard EXCEPT ![s][role][k][f] = c]
    PROVE  /\ shard' \in [Steps -> [Roles -> [Ranks -> [Files -> Content]]]]
           /\ shard'[s][role][k][f] = c
           /\ \A t \in Steps, r \in Roles, j \in Ranks, g \in Files :
                 t # s \/ r # role \/ j # k \/ g # f => shard'[t][r][j][g] = shard[t][r][j][g]
<1>1. shard \in [Steps -> [Roles -> [Ranks -> [Files -> Content]]]]
  BY DEF TypeOK
<1>2. /\ shard' \in [Steps -> [Roles -> [Ranks -> [Files -> Content]]]]
      /\ shard'[s][role][k][f] = c
  BY <1>1
<1>3. ASSUME NEW t \in Steps, NEW r \in Roles, NEW j \in Ranks, NEW g \in Files,
             t # s \/ r # role \/ j # k \/ g # f
      PROVE  shard'[t][r][j][g] = shard[t][r][j][g]
  <2>1. CASE t # s
    BY <1>1, <2>1
  <2>2. CASE t = s /\ r # role
    BY <1>1, <2>2
  <2>3. CASE t = s /\ r = role /\ j # k
    BY <1>1, <2>3
  <2>4. CASE t = s /\ r = role /\ j = k /\ g # f
    BY <1>1, <2>4
  <2> QED
    BY <1>3, <2>1, <2>2, <2>3, <2>4
<1> QED
  BY <1>2, <1>3

-----------------------------------------------------------------------------
(* The initial states *)

(* The types hold at the start. *)
LEMMA InitTypeOK == Init => TypeOK
<1> SUFFICES ASSUME Init PROVE TypeOK
  OBVIOUS
<1>1. run \in Runs /\ global_steps \in 0..(TotalSteps + MaxRuns)
  BY ConstantTypes DEF Init, Runs
<1>2. rank \in [Ranks -> {"idle", "rotate", "enter", "write", "leave", "saved"}]
  BY DEF Init
<1>3. file \in [Ranks -> 1..(NFiles + 1)]
  BY ConstantTypes DEF Init
<1>4. previous_saved_paths \in [Roles -> [Ranks -> Seq(Steps)]]
  BY DEF Init
<1>5. shard \in [Steps -> [Roles -> [Ranks -> [Files -> Content]]]]
  BY Marks DEF Init
<1>6. data \in [Steps -> Content]
  BY Marks DEF Init
<1> QED
  BY <1>1, <1>2, <1>3, <1>4, <1>5, <1>6 DEF Init, TypeOK

(* The invariant holds at the start. *)
LEMMA InitIInv == Init => IInv
<1> SUFFICES ASSUME Init PROVE IInv
  OBVIOUS
<1>1. pc = "start" /\ folder = {} /\ tracker = Absent
  BY DEF Init
<1>2. tracker \notin Steps
  BY <1>1, Marks
<1>3. Bounded /\ Folders /\ Ahead /\ Written /\ TrackerWhole
  BY <1>1, <1>2 DEF Bounded, Folders, Ahead, Written, TrackerWhole, TrackerNamesComplete,
                    Working, Saving, Committing, Pending
<1>4. Paths
  BY DEF Init, Paths, Working, Saving, Committing
<1> QED
  BY <1>3, <1>4, InitTypeOK DEF IInv

-----------------------------------------------------------------------------
(* Crashes and launches *)

(* A crash leaves the disk, so what the tracker names stays whole. *)
LEMMA CrashIInv == ASSUME IInv, Crash PROVE IInv'
<1>1. /\ pc' = "down"
      /\ UNCHANGED <<run, autoOnly, global_steps, rank, file, previous_saved_paths,
                      shard, data, folder, tracker>>
  BY DEF Crash, memory, disk
<1>2. TypeOK'
  BY <1>1 DEF IInv, TypeOK
<1>3. Bounded' /\ Folders' /\ Ahead' /\ Paths' /\ Written'
  BY <1>1 DEF IInv, Bounded, Folders, Ahead, Paths, Written, Working, Saving, Committing,
              Pending
<1>4. TrackerWhole'
  BY <1>1 DEF IInv, TrackerWhole, TrackerNamesComplete, Complete
<1> QED
  BY <1>2, <1>3, <1>4 DEF IInv

(* A new launch starts with an empty memory. *)
LEMMA RelaunchIInv == ASSUME IInv, Relaunch PROVE IInv'
<1>1. /\ pc' = "start" /\ run' = run + 1 /\ run < MaxRuns /\ global_steps' = 0
      /\ rank' = [k \in Ranks |-> "idle"]
      /\ file' = [k \in Ranks |-> 1]
      /\ previous_saved_paths' = [role \in Roles |-> [k \in Ranks |-> <<>>]]
      /\ UNCHANGED <<autoOnly, shard, data, folder, tracker>>
  BY DEF Relaunch, disk
<1>2. TypeOK'
  <2>1. run' \in Runs /\ global_steps' \in 0..(TotalSteps + MaxRuns)
    BY <1>1, ConstantTypes DEF IInv, TypeOK, Runs
  <2>2. /\ rank' \in [Ranks -> {"idle", "rotate", "enter", "write", "leave", "saved"}]
        /\ file' \in [Ranks -> 1..(NFiles + 1)]
    BY <1>1, ConstantTypes
  <2>3. previous_saved_paths' \in [Roles -> [Ranks -> Seq(Steps)]]
    BY <1>1
  <2> QED
    BY <1>1, <2>1, <2>2, <2>3 DEF IInv, TypeOK
<1>3. Bounded'
  <2>1. \A s \in folder : s < TotalSteps + run /\ s \in Nat
    BY DEF IInv, TypeOK, Bounded, Steps
  <2>2. run \in Nat
    BY DEF IInv, TypeOK, Runs
  <2> QED
    BY <1>1, <2>1, <2>2, ConstantTypes DEF Bounded, Working, Saving, Committing
<1>4. Folders' /\ Ahead' /\ Written'
  BY <1>1 DEF IInv, Folders, Ahead, Written, Saving, Committing, Pending
<1>5. Paths'
  BY <1>1 DEF Paths, Working, Saving, Committing
<1>6. TrackerWhole'
  BY <1>1 DEF IInv, TrackerWhole, TrackerNamesComplete, Complete
<1> QED
  BY <1>2, <1>3, <1>4, <1>5, <1>6 DEF IInv

(* Loading keeps the invariant: the tracker's directory is there, and the  *)
(* next step is the one after it.                                          *)
LEMMA LoadIInv == ASSUME IInv, NEW mode \in ResumeModes, Load(mode) PROVE IInv'
<1>1. pc = "start" /\ UNCHANGED <<run, rank, file, previous_saved_paths, shard, data,
                                   folder, tracker>>
  BY DEF Load, LoadFrom, Launch, memory, disk
<1>2. /\ pc' \in {"train", "failed"}
      /\ pc' = "train" => global_steps' = 1 \/ \E s \in folder : global_steps' = s + 1
      /\ pc' = "failed" => global_steps' \in {0} \cup folder
      /\ mode = "auto" /\ pc' = "train" /\ tracker \in Steps => global_steps' = tracker + 1
  <2>1. CASE mode = "disable"
    BY <2>1 DEF Load, Launch
  <2>2. CASE mode # "disable" /\ tracker = Torn
    BY <2>2 DEF Load, Launch
  <2>3. CASE mode = "auto" /\ tracker # Torn /\ LatestCkpt = Absent
    <3>1. tracker \notin folder \/ tracker = Absent
      BY <2>3 DEF LatestCkpt
    <3>2. tracker \notin Steps
      BY <3>1, Marks DEF IInv, Folders
    <3> QED
      BY <2>3, <3>2 DEF Load, Launch
  <2>4. CASE mode = "auto" /\ tracker # Torn /\ LatestCkpt # Absent
    <3>1. LatestCkpt = tracker /\ tracker \in folder
      BY <2>4 DEF LatestCkpt
    <3>2. LoadFrom(mode, tracker)
      BY <2>4, <3>1 DEF Load
    <3> QED
      BY <3>1, <3>2 DEF LoadFrom, Launch
  <2>5. CASE mode = "resume_path" /\ tracker # Torn
    <3>1. PICK s \in folder : LoadFrom(mode, s)
      BY <2>5 DEF Load
    <3> QED
      BY <2>5, <3>1 DEF LoadFrom, Launch
  <2> QED
    BY <2>1, <2>2, <2>3, <2>4, <2>5 DEF Load
<1>3. \A s \in folder : s \in Nat /\ s >= 1 /\ s < TotalSteps + run - 1 /\ s \in Steps
  BY <1>1 DEF IInv, TypeOK, Bounded, Steps
<1>4. run \in Nat /\ run >= 1 /\ run <= MaxRuns
  BY ConstantTypes DEF IInv, TypeOK, Runs
<1>5. autoOnly' = (autoOnly /\ mode = "auto")
  BY DEF Load, LoadFrom, Launch
<1>a. /\ pc' = "train" => global_steps' \in 1..(TotalSteps + run - 1)
      /\ global_steps' \in 0..(TotalSteps + MaxRuns)
  <2>1. CASE global_steps' = 1
    BY <2>1, <1>4, ConstantTypes
  <2>2. CASE \E s \in folder : global_steps' = s + 1
    BY <2>2, <1>3, <1>4, ConstantTypes
  <2>3. CASE pc' = "failed" /\ global_steps' \in {0} \cup folder
    BY <2>3, <1>3, <1>4, ConstantTypes
  <2> QED
    BY <1>2, <2>1, <2>2, <2>3
<1>6. TypeOK'
  <2>1. autoOnly' \in BOOLEAN
    BY <1>5
  <2> QED
    BY <1>1, <1>2, <1>a, <2>1 DEF IInv, TypeOK
<1>7. Bounded'
  BY <1>1, <1>2, <1>a DEF IInv, Bounded, Working, Saving, Committing
<1>8. Folders'
  BY <1>1, <1>2 DEF IInv, Folders, Saving, Committing
<1>9. Ahead'
  <2> SUFFICES ASSUME autoOnly', tracker \in Steps
               PROVE  pc' \in Pending => tracker < global_steps'
    BY <1>1, <1>2 DEF Ahead
  <2>1. pc' = "train" => global_steps' = tracker + 1
    BY <1>2, <1>5
  <2> QED
    BY <1>2, <2>1 DEF Pending, Steps
<1>10. Paths'
  <2>1. \A role \in Roles, k \in Ranks : previous_saved_paths'[role][k] = <<>>
    BY <1>1 DEF IInv, Paths
  <2> QED
    BY <1>2, <2>1 DEF Paths, PathsOf
<1>11. Written'
  BY <1>2 DEF Written, Saving, Committing
<1>12. TrackerWhole'
  <2>1. tracker' = tracker /\ (KeepsTwo /\ tracker \in Steps /\ autoOnly => Complete(tracker))
    BY <1>1 DEF IInv, TrackerWhole, TrackerNamesComplete
  <2>2. tracker \in Steps /\ Complete(tracker) => Complete(tracker)'
    BY <1>1 DEF Complete
  <2> QED
    BY <1>5, <2>1, <2>2 DEF TrackerWhole, TrackerNamesComplete
<1> QED
  BY <1>6, <1>7, <1>8, <1>9, <1>10, <1>11, <1>12 DEF IInv

-----------------------------------------------------------------------------
(* The driver's steps *)

(* A step that leaves autoOnly and the files leaves what is known about    *)
(* the tracker and its checkpoint.                                         *)
LEMMA DiskKept ==
    ASSUME IInv, UNCHANGED <<autoOnly, shard, data, tracker>>
    PROVE  TrackerWhole'
  BY DEF IInv, TrackerWhole, TrackerNamesComplete, Complete

(* The step being worked on is one of Steps. *)
LEMMA Current ==
    ASSUME IInv, pc \in Working
    PROVE  /\ global_steps \in Steps /\ global_steps \in Nat /\ run \in Nat
           /\ run \in Runs /\ global_steps < TotalSteps + run
           /\ global_steps <= TotalSteps + run - 1
  BY ConstantTypes DEF IInv, TypeOK, Bounded, Steps, Runs

(* A rank's saved paths are steps. *)
LEMMA PathType ==
    ASSUME TypeOK, NEW role \in Roles, NEW k \in Ranks, NEW path,
           path = previous_saved_paths[role][k]
    PROVE  /\ path \in Seq(Steps)
           /\ Len(path) \in Nat
           /\ \A i \in 1..Len(path) : path[i] \in Steps /\ path[i] \in Nat
           /\ Len(path) > 0 => path[Len(path)] \in Steps /\ path[Len(path)] \in Nat
<1>1. path \in Seq(Steps)
  BY DEF TypeOK
<1>2. Steps \subseteq Nat
  BY DEF Steps
<1>3. Len(path) \in Nat /\ \A i \in 1..Len(path) : path[i] \in Steps
  BY <1>1
<1>4. Len(path) > 0 => Len(path) \in 1..Len(path)
  BY <1>3
<1> QED
  BY <1>1, <1>2, <1>3, <1>4

(* Training, or beginning a save, keeps the invariant. *)
LEMMA TrainIInv == ASSUME IInv, Train PROVE IInv'
<1>1. /\ pc = "train"
      /\ UNCHANGED <<run, autoOnly, global_steps, previous_saved_paths, shard, data,
                      folder, tracker>>
      /\ \/ pc' = "actor" /\ rank' = [k \in Ranks |-> "rotate"] /\ file' = [k \in Ranks |-> 1]
         \/ pc' = "next" /\ UNCHANGED <<rank, file>>
  BY DEF Train, CallSave, disk
<1>2. TypeOK'
  <2>1. /\ rank' \in [Ranks -> {"idle", "rotate", "enter", "write", "leave", "saved"}]
        /\ file' \in [Ranks -> 1..(NFiles + 1)]
    BY <1>1, ConstantTypes DEF IInv, TypeOK
  <2>2. pc' \in {"actor", "next"}
    BY <1>1
  <2> QED
    BY <1>1, <2>1, <2>2 DEF IInv, TypeOK
<1>3. Bounded'
  BY <1>1 DEF IInv, Bounded, Working, Saving, Committing
<1>4. Folders'
  BY <1>1 DEF IInv, Folders, Saving, Committing
<1>5. Ahead'
  <2>1. tracker \in Steps => tracker \in Nat
    BY DEF Steps
  <2> QED
    BY <1>1, <2>1, Current DEF IInv, Ahead, Pending, Working
<1>6. Paths'
  <2>1. ASSUME NEW role \in Roles, NEW k \in Ranks PROVE PathsOf(role, k)'
    <3>1. PathsOf(role, k) /\ ~Appended(role, k)
      BY <1>1, Marks DEF IInv, Paths, Appended, Working, Saving, Committing
    <3>2. ~Appended(role, k)'
      BY <1>1, Marks DEF Appended, Committing
    <3> DEFINE path == previous_saved_paths[role][k]
    <3>3. Len(path) > 0 =>
             /\ path[Len(path)] = tracker
             /\ path[Len(path)] < global_steps
             /\ path[Len(path)] <= global_steps
      <4>1. Len(path) > 0 => path[Len(path)] = tracker /\ path[Len(path)] < global_steps
        BY <1>1, <3>1 DEF PathsOf
      <4>2. Len(path) > 0 => path[Len(path)] \in Nat
        BY PathType DEF IInv
      <4> QED
        BY <1>1, <4>1, <4>2, Current DEF Working
    <3> QED
      BY <1>1, <3>1, <3>2, <3>3 DEF PathsOf
  <2> QED
    BY <1>1, <2>1 DEF Paths
<1>7. Written'
  <2>1. CASE pc' = "actor"
    <3>1. \A k \in Ranks, f \in Files : ~(f < file'[k])
      BY <1>1, <2>1 DEF Files
    <3> QED
      BY <1>1, <2>1, <3>1 DEF Written, Saving, Committing
  <2>2. CASE pc' = "next"
    BY <2>2 DEF Written, Saving, Committing
  <2> QED
    BY <1>1, <2>1, <2>2
<1> QED
  BY <1>1, <1>2, <1>3, <1>4, <1>5, <1>6, <1>7, DiskKept DEF IInv

(* The end of a role's save keeps it: every rank has written every file. *)
LEMMA RoleSavedIInv == ASSUME IInv, RoleSaved PROVE IInv'
<1>1. /\ pc \in Saving /\ \A k \in Ranks : rank[k] = "saved"
      /\ UNCHANGED <<run, autoOnly, global_steps, previous_saved_paths, shard, data,
                      folder, tracker>>
      /\ \/ /\ pc = "actor" /\ UseCritic /\ pc' = "critic"
            /\ rank' = [k \in Ranks |-> "rotate"] /\ file' = [k \in Ranks |-> 1]
         \/ /\ ~(pc = "actor" /\ UseCritic) /\ pc' = "data"
            /\ rank' = [k \in Ranks |-> "idle"] /\ UNCHANGED file
  BY DEF RoleSaved, CallSave, disk
<1>2. TypeOK'
  <2>1. /\ rank' \in [Ranks -> {"idle", "rotate", "enter", "write", "leave", "saved"}]
        /\ file' \in [Ranks -> 1..(NFiles + 1)]
    BY <1>1, ConstantTypes DEF IInv, TypeOK
  <2>2. pc' \in {"critic", "data"}
    BY <1>1
  <2> QED
    BY <1>1, <2>1, <2>2 DEF IInv, TypeOK
<1>3. Bounded'
  BY <1>1 DEF IInv, Bounded, Working, Saving, Committing
<1>4. Folders'
  <2>1. global_steps \in folder
    BY <1>1, ConstantTypes DEF IInv, Folders, Saving
  <2> QED
    BY <1>1, <2>1 DEF IInv, Folders, Saving, Committing
<1>5. Ahead'
  BY <1>1 DEF IInv, Ahead, Pending, Saving
<1>6. Paths'
  <2>1. ASSUME NEW role \in Roles, NEW k \in Ranks PROVE PathsOf(role, k)'
    <3>1. PathsOf(role, k)
      BY <1>1 DEF IInv, Paths, Working
    <3>2. Appended(role, k)' <=> Appended(role, k)
      BY <1>1, Marks DEF IInv, Bounded, Appended, Saving, Committing
    <3> QED
      BY <1>1, <3>1, <3>2 DEF PathsOf, Saving
  <2> QED
    BY <1>1, <2>1 DEF Paths, Working, Saving, Committing
<1>7. Written'
  <2>1. ASSUME NEW k \in Ranks, NEW f \in Files PROVE shard[global_steps][pc][k][f] = run
    <3>1. f < file[k]
      BY <1>1, ConstantTypes DEF IInv, Written, Files
    <3> QED
      BY <1>1, <3>1 DEF IInv, Written
  <2>2. CASE pc' = "critic"
    <3>1. \A k \in Ranks, f \in Files : ~(f < file'[k])
      BY <1>1, <2>2 DEF Files
    <3> QED
      BY <1>1, <2>1, <2>2, <3>1 DEF Written, RoleWritten, Saving, Committing
  <2>3. CASE pc' = "data"
    <3>1. \A role \in Roles : RoleWritten(role)
      BY <1>1, <2>1, <2>3, Marks DEF IInv, Written, RoleWritten, Saving
    <3> QED
      BY <1>1, <2>3, <3>1 DEF Written, RoleWritten, Saving, Committing
  <2> QED
    BY <1>1, <2>2, <2>3
<1> QED
  BY <1>1, <1>2, <1>3, <1>4, <1>5, <1>6, <1>7, DiskKept DEF IInv

(* Writing data.pt keeps it: the step is not the tracker's. *)
LEMMA SaveDataIInv == ASSUME IInv, SaveData PROVE IInv'
<1>1. UNCHANGED <<run, autoOnly, global_steps, rank, file, previous_saved_paths, shard,
                  folder, tracker>>
  BY DEF SaveData, memory
<1>2. \/ pc = "data" /\ pc' = "dataWrite" /\ data' = [data EXCEPT ![global_steps] = Torn]
      \/ pc = "dataWrite" /\ pc' = "track" /\ data' = [data EXCEPT ![global_steps] = run]
  BY DEF SaveData
<1>3. global_steps \in Steps /\ run \in Runs /\ pc \in Committing /\ pc' \in Committing
  BY <1>2, Current DEF Working, Committing
<1>4. TypeOK'
  <2>1. data' \in [Steps -> Content]
    BY <1>2, <1>3, Marks DEF IInv, TypeOK
  <2> QED
    BY <1>1, <1>2, <2>1 DEF IInv, TypeOK
<1>5. Bounded'
  BY <1>1, <1>2 DEF IInv, Bounded, Working, Saving, Committing
<1>6. Folders'
  BY <1>1, <1>2 DEF IInv, Folders, Saving, Committing
<1>7. Ahead'
  BY <1>1, <1>2 DEF IInv, Ahead, Pending
<1>8. Paths'
  <2>1. ASSUME NEW role \in Roles, NEW k \in Ranks PROVE PathsOf(role, k)'
    <3>1. PathsOf(role, k)
      BY <1>3 DEF IInv, Paths, Working
    <3>2. Appended(role, k)' /\ Appended(role, k)
      BY <1>3 DEF Appended
    <3> QED
      BY <1>1, <1>2, <3>1, <3>2 DEF PathsOf, Saving
  <2> QED
    BY <1>2, <2>1 DEF Paths
<1>9. Written'
  <2>1. \A role \in Roles : RoleWritten(role)'
    BY <1>1, <1>3 DEF IInv, Written, RoleWritten
  <2>2. pc' = "track" => data'[global_steps] = run
    BY <1>2, <1>3 DEF IInv, TypeOK
  <2> QED
    BY <1>1, <1>2, <2>1, <2>2 DEF Written, Saving
<1>10. TrackerWhole'
  <2> SUFFICES ASSUME KeepsTwo, autoOnly, tracker \in Steps PROVE Complete(tracker)'
    BY <1>1 DEF TrackerWhole, TrackerNamesComplete
  <2>1. tracker # global_steps
    BY <1>2, <1>3 DEF IInv, Ahead, Pending, Steps
  <2>2. data'[tracker] = data[tracker]
    BY <1>2, <1>3, <2>1 DEF IInv, TypeOK
  <2>3. Complete(tracker)
    BY DEF IInv, TrackerWhole, TrackerNamesComplete
  <2> QED
    BY <1>1, <2>2, <2>3 DEF Complete
<1> QED
  BY <1>4, <1>5, <1>6, <1>7, <1>8, <1>9, <1>10 DEF IInv

(* Moving the tracker keeps it: the step it moves to is whole. *)
LEMMA WriteTrackerIInv == ASSUME IInv, WriteTracker PROVE IInv'
<1>1. UNCHANGED <<run, autoOnly, global_steps, rank, file, previous_saved_paths, shard,
                  data, folder>>
  BY DEF WriteTracker, memory
<1>2. \/ pc = "track" /\ pc' = "commit" /\ tracker' = Torn
      \/ pc = "commit" /\ pc' = "next" /\ tracker' = global_steps
  BY DEF WriteTracker
<1>3. /\ global_steps \in Steps /\ global_steps \in Nat /\ run \in Runs
      /\ pc \in Committing /\ pc \in Working
  BY <1>2, Current DEF Working, Committing
<1>4. TypeOK'
  BY <1>1, <1>2, <1>3 DEF IInv, TypeOK
<1>5. Bounded'
  BY <1>1, <1>2 DEF IInv, Bounded, Working, Saving, Committing
<1>6. Folders'
  BY <1>1, <1>2, <1>3, Marks DEF IInv, Folders, Saving, Committing
<1>7. Ahead'
  BY <1>1, <1>2, <1>3, Marks DEF Ahead, Pending
<1>8. Paths'
  <2>1. ASSUME NEW role \in Roles, NEW k \in Ranks PROVE PathsOf(role, k)'
    <3>1. PathsOf(role, k) /\ Appended(role, k)
      BY <1>3 DEF IInv, Paths, Appended
    <3>2. pc' = "commit" => Appended(role, k)'
      BY DEF Appended, Committing
    <3> QED
      BY <1>1, <1>2, <1>3, <3>1, <3>2 DEF PathsOf, Saving
  <2> QED
    BY <1>2, <2>1 DEF Paths
<1>9. \A role \in Roles : RoleWritten(role)
  BY <1>3 DEF IInv, Written
<1>10. data[global_steps] = run
  BY <1>2 DEF IInv, Written
<1>11. Written'
  BY <1>1, <1>2, <1>9, <1>10 DEF Written, RoleWritten, Saving, Committing
<1>12. TrackerWhole'
  <2>1. CASE tracker' = Torn
    BY <2>1, Marks DEF TrackerWhole, TrackerNamesComplete
  <2>2. CASE tracker' = global_steps
    BY <1>1, <1>3, <1>9, <1>10, <2>2 DEF TrackerWhole, TrackerNamesComplete, Complete, RoleWritten
  <2> QED
    BY <1>2, <2>1, <2>2
<1> QED
  BY <1>4, <1>5, <1>6, <1>7, <1>8, <1>11, <1>12 DEF IInv

(* Going on to the next step keeps it. *)
LEMMA AdvanceIInv == ASSUME IInv, Advance PROVE IInv'
<1>1. /\ pc = "next"
      /\ UNCHANGED <<run, autoOnly, rank, file, previous_saved_paths, shard, data, folder,
                      tracker>>
      /\ global_steps' = global_steps + 1
      /\ \/ pc' = "done"
         \/ pc' = "train" /\ ~(global_steps >= TotalSteps)
  BY DEF Advance, IsLastStep, memory, disk
<1>2. /\ global_steps \in Nat /\ global_steps >= 1 /\ run \in Nat /\ run >= 1 /\ run <= MaxRuns
      /\ global_steps < TotalSteps + run /\ global_steps \in Steps
  BY <1>1, Current, ConstantTypes DEF Working, Steps, Runs
<1>3. /\ pc' = "train" => global_steps' \in 1..(TotalSteps + run - 1)
      /\ global_steps' \in 0..(TotalSteps + MaxRuns)
  BY <1>1, <1>2, ConstantTypes
<1>4. TypeOK'
  BY <1>1, <1>3 DEF IInv, TypeOK
<1>5. Bounded'
  BY <1>1, <1>3 DEF IInv, Bounded, Working, Saving, Committing
<1>6. Folders'
  BY <1>1 DEF IInv, Folders, Saving, Committing
<1>7. Ahead'
  BY <1>1, <1>2 DEF IInv, Ahead, Pending, Steps
<1>8. Paths'
  <2>1. ASSUME NEW role \in Roles, NEW k \in Ranks, pc' = "train" PROVE PathsOf(role, k)'
    <3>1. PathsOf(role, k) /\ ~Appended(role, k) /\ ~Appended(role, k)'
      BY <1>1, <2>1, Marks DEF IInv, Paths, Appended, Working, Committing
    <3> DEFINE path == previous_saved_paths[role][k]
    <3>2. Len(path) > 0 =>
             /\ path[Len(path)] = tracker
             /\ path[Len(path)] <= global_steps
             /\ path[Len(path)] < global_steps + 1
      <4>1. Len(path) > 0 => path[Len(path)] = tracker /\ path[Len(path)] <= global_steps
        BY <1>1, <3>1 DEF PathsOf
      <4>2. Len(path) > 0 => path[Len(path)] \in Nat
        BY PathType DEF IInv
      <4> QED
        BY <1>2, <4>1, <4>2
    <3> QED
      BY <1>1, <2>1, <3>1, <3>2 DEF PathsOf, Saving
  <2> QED
    BY <1>1, <2>1 DEF Paths, Working, Saving, Committing
<1>9. Written'
  BY <1>1 DEF Written, Saving, Committing
<1> QED
  BY <1>1, <1>4, <1>5, <1>6, <1>7, <1>8, <1>9, DiskKept DEF IInv

-----------------------------------------------------------------------------
(* The ranks' steps *)

(* Where a rank is, and whose save it is in. *)
LEMMA InSave ==
    ASSUME IInv, pc \in Saving
    PROVE  /\ pc \in Roles /\ pc \in Working
           /\ pc \notin Committing /\ pc \notin {"start", "train", "next", "done"}
           /\ global_steps \in Steps /\ global_steps \in Nat /\ run \in Runs
           /\ autoOnly /\ tracker \in Steps => tracker < global_steps
<1>1. pc \in Roles
  BY Marks DEF IInv, Bounded, Saving
<1>2. autoOnly /\ tracker \in Steps => tracker < global_steps
  BY DEF IInv, Ahead, Pending, Saving
<1> QED
  BY <1>1, <1>2, Current DEF Working, Committing, Saving

(* The paths of a rank that has not appended yet end at the tracker. *)
LEMMA LastIsTracker ==
    ASSUME IInv, pc \in Saving, NEW k \in Ranks, rank[k] # "saved", NEW path,
           path = previous_saved_paths[pc][k]
    PROVE  /\ ~Appended(pc, k)
           /\ Len(path) > 0 => path[Len(path)] = tracker /\ path[Len(path)] < global_steps
           /\ \A i, j \in 1..Len(path) : i < j => path[i] < path[j]
<1>1. ~Appended(pc, k)
  BY InSave DEF Appended, Saving
<1>2. PathsOf(pc, k)
  BY InSave DEF IInv, Paths
<1> QED
  BY <1>1, <1>2 DEF PathsOf

(* The rotation retires some of the oldest paths; that of a job that keeps *)
(* two or more never retires its last one.                                 *)
LEMMA RetiresEarlier ==
    ASSUME IInv, pc \in Saving, NEW k \in Ranks
    PROVE  /\ KeepStart(k) \in 0..Len(Saved(k))
           /\ KeepsTwo /\ Len(Saved(k)) > 0 => KeepStart(k) < Len(Saved(k))
<1>1. Len(Saved(k)) \in Nat
  BY PathType, InSave DEF IInv, Saved
<1>2. CASE MaxKeep > 0 /\ Len(Saved(k)) >= MaxKeep
  <2>1. /\ MaxKeep \in Nat /\ MaxKeep >= 1 /\ (KeepsTwo => MaxKeep >= 2)
        /\ KeepStart(k) = Len(Saved(k)) - MaxKeep + 1
    BY <1>2, ConstantTypes DEF KeepsTwo, KeepStart
  <2> QED
    BY <1>1, <1>2, <2>1
<1>3. CASE ~(MaxKeep > 0 /\ Len(Saved(k)) >= MaxKeep)
  BY <1>1, <1>3 DEF KeepStart
<1> QED
  BY <1>2, <1>3

(* Deleting a retired file keeps the invariant: it is neither of the step  *)
(* being saved nor of the tracker's.                                       *)
LEMMA RmtreeIInv == ASSUME IInv, NEW k \in Ranks, Rmtree(k) PROVE IInv'
<1>1. /\ pc \in Saving /\ rank[k] = "rotate"
      /\ UNCHANGED <<pc, run, autoOnly, global_steps, rank, file, previous_saved_paths,
                      data, folder, tracker>>
  BY DEF Rmtree, memory
<1>2. PICK s \in Retired(k), j \in Ranks, f \in Files :
         shard' = [shard EXCEPT ![s][pc][j][f] = Absent]
  BY DEF Rmtree
<1>3. PICK r \in Roles : r = pc
  BY <1>1, InSave
<1>4. s \in Steps /\ s # global_steps /\ (KeepsTwo => s # tracker)
  <2> DEFINE path == previous_saved_paths[pc][k]
  <2>1. PICK i \in 1..KeepStart(k) : s = path[i]
    BY <1>2 DEF Retired, Saved
  <2>2. /\ path \in Seq(Steps) /\ Len(path) \in Nat
        /\ \A n \in 1..Len(path) : path[n] \in Steps /\ path[n] \in Nat
    BY <1>1, PathType, InSave DEF IInv
  <2>3. /\ KeepStart(k) \in 0..Len(path)
        /\ KeepsTwo /\ Len(path) > 0 => KeepStart(k) < Len(path)
    BY <1>1, RetiresEarlier DEF Saved
  <2>4. /\ Len(path) > 0 => path[Len(path)] = tracker /\ path[Len(path)] < global_steps
        /\ \A m, n \in 1..Len(path) : m < n => path[m] < path[n]
    BY <1>1, LastIsTracker
  <2>5. /\ i \in 1..Len(path) /\ Len(path) \in 1..Len(path) /\ Len(path) > 0
        /\ i = Len(path) \/ i < Len(path)
        /\ KeepsTwo => i < Len(path)
    BY <2>1, <2>2, <2>3
  <2>6. /\ path[i] = path[Len(path)] \/ path[i] < path[Len(path)]
        /\ KeepsTwo => path[i] < path[Len(path)]
        /\ path[i] \in Steps /\ path[i] \in Nat /\ path[Len(path)] \in Nat
    BY <2>2, <2>4, <2>5
  <2>7. path[Len(path)] = tracker /\ path[Len(path)] < global_steps
    BY <2>4, <2>5
  <2> HIDE DEF path
  <2> QED
    BY <1>1, <2>1, <2>6, <2>7, InSave
<1>5. shard' = [shard EXCEPT ![s][r][j][f] = Absent]
  BY <1>2, <1>3
<1>6. shard' \in [Steps -> [Roles -> [Ranks -> [Files -> Content]]]]
  BY <1>4, <1>5, OneFile, Marks DEF IInv
<1>7. \A t \in Steps, q \in Roles, i \in Ranks, g \in Files :
         t # s => shard'[t][q][i][g] = shard[t][q][i][g]
  BY <1>4, <1>5, OneFile, Marks DEF IInv
<1>8. TypeOK'
  BY <1>1, <1>6 DEF IInv, TypeOK
<1>9. Bounded' /\ Folders' /\ Ahead'
  BY <1>1 DEF IInv, Bounded, Folders, Ahead
<1>10. Paths'
  BY <1>1 DEF IInv, Paths, PathsOf, Appended
<1>11. Written'
  <2>1. \A q \in Roles, i \in Ranks, g \in Files :
           shard'[global_steps][q][i][g] = shard[global_steps][q][i][g]
    BY <1>1, <1>4, <1>7, InSave
  <2>2. RoleWritten("actor") => RoleWritten("actor")'
    BY <1>1, <2>1, Marks DEF RoleWritten
  <2>3. pc \in Roles /\ pc \notin Committing
    BY <1>1, InSave
  <2> QED
    BY <1>1, <2>1, <2>2, <2>3 DEF IInv, Written, Committing
<1>12. TrackerWhole'
  BY <1>1, <1>4, <1>7 DEF IInv, TrackerWhole, TrackerNamesComplete, Complete
<1> QED
  BY <1>8, <1>9, <1>10, <1>11, <1>12 DEF IInv

(* The rest of a sequence, its types and its elements. *)
LEMMA Rest ==
    ASSUME NEW S, NEW q \in Seq(S), NEW n \in 0..Len(q), NEW rest,
           rest = SubSeq(q, n + 1, Len(q))
    PROVE  /\ rest \in Seq(S)
           /\ Len(rest) = Len(q) - n
           /\ \A i \in 1..(Len(q) - n) : rest[i] = q[i + n] /\ i + n \in 1..Len(q)
<1>1. Len(q) \in Nat /\ n \in Nat /\ n <= Len(q)
  OBVIOUS
<1>2. Len(rest) = Len(q) - n
  BY <1>1
<1>3. \A i \in 1..(Len(q) - n) : rest[i] = q[i + n] /\ i + n \in 1..Len(q)
  BY <1>1
<1>4. rest \in Seq(S)
  BY <1>1
<1> QED
  BY <1>2, <1>3, <1>4

(* Dropping the retired paths and making the directory keeps it: the last  *)
(* path stays.                                                             *)
LEMMA RotateIInv == ASSUME IInv, NEW k \in Ranks, Rotate(k) PROVE IInv'
<1>1. /\ pc \in Saving /\ rank[k] = "rotate"
      /\ rank' = [rank EXCEPT ![k] = "enter"]
      /\ folder' = folder \cup {global_steps}
      /\ UNCHANGED <<pc, run, autoOnly, global_steps, file, shard, data, tracker>>
  BY DEF Rotate
<1>2. PICK r \in Roles : r = pc
  BY <1>1, InSave
<1> DEFINE path == previous_saved_paths[r][k]
           rest == SubSeq(path, KeepStart(k) + 1, Len(path))
<1>3. previous_saved_paths' = [previous_saved_paths EXCEPT ![r][k] = rest]
  BY <1>2 DEF Rotate
<1>4. /\ path \in Seq(Steps) /\ Len(path) \in Nat
      /\ \A i \in 1..Len(path) : path[i] \in Steps /\ path[i] \in Nat
  BY PathType DEF IInv
<1>5. KeepStart(k) \in 0..Len(path)
  BY <1>1, <1>2, RetiresEarlier DEF Saved
<1>6. /\ rest \in Seq(Steps) /\ Len(rest) = Len(path) - KeepStart(k)
      /\ \A i \in 1..(Len(path) - KeepStart(k)) :
            rest[i] = path[i + KeepStart(k)] /\ i + KeepStart(k) \in 1..Len(path)
  <2> HIDE DEF path
  <2>1. path \in Seq(Steps) /\ KeepStart(k) \in 0..Len(path)
    BY <1>4, <1>5
  <2> QED
    BY <2>1, Rest
<1>7. TypeOK'
  <2>1. previous_saved_paths' \in [Roles -> [Ranks -> Seq(Steps)]]
    <3> HIDE DEF rest
    <3>1. previous_saved_paths \in [Roles -> [Ranks -> Seq(Steps)]]
      BY DEF IInv, TypeOK
    <3> QED
      BY <1>3, <1>6, <3>1
  <2>2. rank' \in [Ranks -> {"idle", "rotate", "enter", "write", "leave", "saved"}]
    BY <1>1 DEF IInv, TypeOK
  <2>3. folder' \subseteq Steps
    BY <1>1, InSave DEF IInv, TypeOK
  <2> QED
    BY <1>1, <2>1, <2>2, <2>3 DEF IInv, TypeOK
<1>8. Bounded'
  <2>1. global_steps < TotalSteps + run /\ pc # "start"
    BY <1>1, Current, InSave
  <2> QED
    BY <1>1, <2>1 DEF IInv, Bounded
<1>9. Folders'
  BY <1>1 DEF IInv, TypeOK, Folders
<1>10. Ahead'
  BY <1>1 DEF IInv, Ahead
<1>11. \A j \in Ranks : rank'[j] = "saved" <=> rank[j] = "saved"
  BY <1>1 DEF IInv, TypeOK
<1>12. Paths'
  <2>1. ASSUME NEW role \in Roles, NEW j \in Ranks, role # r \/ j # k PROVE PathsOf(role, j)'
    <3>1. PathsOf(role, j)
      BY <1>1, InSave DEF IInv, Paths
    <3>2. previous_saved_paths'[role][j] = previous_saved_paths[role][j]
      BY <1>3, <2>1 DEF IInv, TypeOK
    <3>3. Appended(role, j)' <=> Appended(role, j)
      BY <1>1, <1>11 DEF Appended
    <3> QED
      BY <1>1, <3>1, <3>2, <3>3 DEF PathsOf
  <2>2. PathsOf(r, k)'
    <3>1. previous_saved_paths'[r][k] = rest
      BY <1>3 DEF IInv, TypeOK
    <3>2. /\ Len(path) > 0 => path[Len(path)] = tracker /\ path[Len(path)] < global_steps
          /\ \A i, j \in 1..Len(path) : i < j => path[i] < path[j]
      BY <1>1, <1>2, LastIsTracker
    <3>3. ~Appended(r, k)'
      BY <1>1, <1>2, <1>11, InSave DEF Appended, Saving
    <3> HIDE DEF path, rest
    <3>4. ASSUME NEW i \in 1..Len(rest), NEW j \in 1..Len(rest), i < j
          PROVE  rest[i] < rest[j]
      <4>1. /\ rest[i] = path[i + KeepStart(k)] /\ i + KeepStart(k) \in 1..Len(path)
            /\ rest[j] = path[j + KeepStart(k)] /\ j + KeepStart(k) \in 1..Len(path)
        BY <1>6
      <4>2. i + KeepStart(k) < j + KeepStart(k)
        BY <1>4, <1>5, <3>4
      <4> QED
        BY <3>2, <4>1, <4>2
    <3>5. Len(rest) > 0 => rest[Len(rest)] = path[Len(path)] /\ Len(path) > 0
      BY <1>4, <1>5, <1>6
    <3> QED
      BY <1>1, <3>1, <3>2, <3>3, <3>4, <3>5, InSave DEF PathsOf
  <2> QED
    BY <1>1, <2>1, <2>2, InSave DEF Paths
<1>13. Written'
  BY <1>1, InSave DEF IInv, TypeOK, Written, RoleWritten, Committing
<1> QED
  BY <1>1, <1>7, <1>8, <1>9, <1>10, <1>12, <1>13, DiskKept DEF IInv

(* Moving between two points of save_checkpoint at which nothing has been  *)
(* appended keeps the rank's paths and directories.                        *)
LEMMA MoveKeeps ==
    ASSUME IInv, pc \in Saving, NEW k \in Ranks, NEW to \in {"write", "leave"},
           rank[k] \in {"enter", "write"},
           rank' = [rank EXCEPT ![k] = to],
           UNCHANGED <<pc, run, autoOnly, global_steps, file, previous_saved_paths,
                       shard, data, folder, tracker>>
    PROVE  TypeOK' /\ Bounded' /\ Folders' /\ Ahead' /\ Paths' /\ TrackerWhole'
<1>1. rank' \in [Ranks -> {"idle", "rotate", "enter", "write", "leave", "saved"}]
  BY DEF IInv, TypeOK
<1>2. TypeOK'
  BY <1>1 DEF IInv, TypeOK
<1>3. \A j \in Ranks : /\ rank'[j] = "saved" <=> rank[j] = "saved"
                       /\ rank'[j] = "rotate" <=> rank[j] = "rotate"
                       /\ rank'[j] = "idle" <=> rank[j] = "idle"
  BY DEF IInv, TypeOK
<1>4. Bounded' /\ Ahead'
  BY DEF IInv, Bounded, Ahead
<1>5. Folders'
  BY <1>3 DEF IInv, Folders
<1>6. Paths'
  BY <1>3 DEF IInv, Paths, PathsOf, Appended
<1> QED
  BY <1>2, <1>4, <1>5, <1>6, DiskKept

(* Passing the first barrier keeps the invariant. *)
LEMMA EnterBarrierIInv == ASSUME IInv, NEW k \in Ranks, EnterBarrier(k) PROVE IInv'
<1>1. /\ pc \in Saving /\ rank[k] = "enter" /\ rank' = [rank EXCEPT ![k] = "write"]
      /\ UNCHANGED <<pc, run, autoOnly, global_steps, file, previous_saved_paths,
                      shard, data, folder, tracker>>
  BY DEF EnterBarrier, disk
<1>2. Written'
  BY <1>1, InSave DEF IInv, TypeOK, Written, RoleWritten, Committing
<1> QED
  BY <1>1, <1>2, MoveKeeps DEF IInv

(* Having written every file keeps it. *)
LEMMA AllWrittenIInv == ASSUME IInv, NEW k \in Ranks, AllWritten(k) PROVE IInv'
<1>1. /\ pc \in Saving /\ rank[k] = "write" /\ rank' = [rank EXCEPT ![k] = "leave"]
      /\ file[k] = NFiles + 1
      /\ UNCHANGED <<pc, run, autoOnly, global_steps, file, previous_saved_paths,
                      shard, data, folder, tracker>>
  BY DEF AllWritten, disk
<1>2. Written'
  BY <1>1, InSave DEF IInv, TypeOK, Written, RoleWritten, Committing
<1> QED
  BY <1>1, <1>2, MoveKeeps DEF IInv

(* Writing a file keeps it: the file is of the step being saved, which is  *)
(* after the tracker's.                                                    *)
LEMMA WriteFileIInv == ASSUME IInv, NEW k \in Ranks, WriteFile(k) PROVE IInv'
<1>1. /\ pc \in Saving /\ rank[k] = "write" /\ file[k] \in Files
      /\ UNCHANGED <<pc, run, autoOnly, global_steps, rank, previous_saved_paths,
                      data, folder, tracker>>
  BY DEF WriteFile
<1>2. PICK r \in Roles : r = pc
  BY <1>1, InSave
<1>3. PICK f \in Files : f = file[k]
  BY <1>1
<1>4. PICK c \in {Torn, run} :
         /\ shard' = [shard EXCEPT ![global_steps][r][k][f] = c]
         /\ \/ UNCHANGED file
            \/ c = run /\ file' = [file EXCEPT ![k] = @ + 1]
  <2>1. CASE shard[global_steps][pc][k][file[k]] # Torn
    BY <1>2, <1>3, <2>1 DEF WriteFile
  <2>2. CASE shard[global_steps][pc][k][file[k]] = Torn
    BY <1>2, <1>3, <2>2 DEF WriteFile
  <2> QED
    BY <2>1, <2>2
<1>5. global_steps \in Steps /\ c \in Content /\ f \in Nat /\ f <= NFiles
  <2>1. global_steps \in Steps /\ run \in Runs
    BY <1>1, InSave
  <2>2. c \in Content
    BY <1>4, <2>1, Marks
  <2> QED
    BY <2>1, <2>2, ConstantTypes DEF Files
<1>6. /\ shard' \in [Steps -> [Roles -> [Ranks -> [Files -> Content]]]]
      /\ shard'[global_steps][r][k][f] = c
      /\ \A t \in Steps, q \in Roles, j \in Ranks, g \in Files :
            t # global_steps \/ q # r \/ j # k \/ g # f
               => shard'[t][q][j][g] = shard[t][q][j][g]
  <2>1. PICK s \in Steps : s = global_steps
    BY <1>5
  <2>2. TypeOK /\ shard' = [shard EXCEPT ![s][r][k][f] = c]
    BY <1>4, <2>1 DEF IInv
  <2>3. c \in Content
    BY <1>5
  <2>4. /\ shard' \in [Steps -> [Roles -> [Ranks -> [Files -> Content]]]]
        /\ shard'[s][r][k][f] = c
    <3>1. shard \in [Steps -> [Roles -> [Ranks -> [Files -> Content]]]]
      BY DEF IInv, TypeOK
    <3> QED
      BY <2>2, <2>3, <3>1
  <2>5. \A t \in Steps, q \in Roles, j \in Ranks, g \in Files :
           t # s \/ q # r \/ j # k \/ g # f => shard'[t][q][j][g] = shard[t][q][j][g]
    BY <1>5, <2>2, OneFile
  <2> QED
    BY <2>1, <2>4, <2>5
<1>7. /\ file' \in [Ranks -> 1..(NFiles + 1)]
      /\ \A j \in Ranks : j # k => file'[j] = file[j]
      /\ file'[k] = f \/ (file'[k] = f + 1 /\ c = run)
  <2>1. CASE UNCHANGED file
    BY <1>3, <2>1 DEF IInv, TypeOK
  <2>2. CASE c = run /\ file' = [file EXCEPT ![k] = @ + 1]
    <3>1. f + 1 \in 1..(NFiles + 1) /\ file \in [Ranks -> 1..(NFiles + 1)]
      BY <1>5, ConstantTypes DEF IInv, TypeOK, Files
    <3> QED
      BY <1>3, <2>2, <3>1
  <2> QED
    BY <1>4, <2>1, <2>2
<1>8. TypeOK'
  BY <1>1, <1>6, <1>7 DEF IInv, TypeOK
<1>9. Bounded' /\ Folders' /\ Ahead'
  BY <1>1 DEF IInv, Bounded, Folders, Ahead
<1>10. Paths'
  BY <1>1 DEF IInv, Paths, PathsOf, Appended
<1>11. Written'
  <2>1. ASSUME NEW j \in Ranks, NEW g \in Files, g < file'[j]
        PROVE  shard'[global_steps][r][j][g] = run
    <3>1. \A i \in Files : i < file[j] => shard[global_steps][r][j][i] = run
      BY <1>1, <1>2 DEF IInv, Written
    <3>2. CASE j # k
      BY <1>5, <1>6, <1>7, <2>1, <3>1, <3>2
    <3>3. CASE j = k /\ g = f
      BY <1>5, <1>6, <1>7, <2>1, <3>3
    <3>4. CASE j = k /\ g # f
      <4>1. g < f
        BY <1>5, <1>7, <2>1, <3>4 DEF Files
      <4> QED
        BY <1>3, <1>5, <1>6, <3>1, <3>4, <4>1
    <3> QED
      BY <3>2, <3>3, <3>4
  <2>2. ASSUME RoleWritten("actor"), r = "critic" PROVE RoleWritten("actor")'
    <3>1. "actor" # r /\ "actor" \in Roles
      BY <2>2, Marks
    <3>2. \A j \in Ranks, g \in Files :
             shard'[global_steps]["actor"][j][g] = shard[global_steps]["actor"][j][g]
      BY <1>5, <1>6, <3>1
    <3> QED
      BY <1>1, <2>2, <3>2 DEF RoleWritten
  <2>3. \A j \in Ranks : /\ rank[j] \in {"rotate", "enter"} => file'[j] = 1
                         /\ rank[j] \in {"leave", "saved"} => file'[j] = NFiles + 1
    BY <1>1, <1>7 DEF IInv, Written
  <2>4. pc \notin Committing
    BY <1>1, InSave
  <2> QED
    BY <1>1, <1>2, <2>1, <2>2, <2>3, <2>4 DEF IInv, Written, Committing
<1>12. TrackerWhole'
  <2> SUFFICES ASSUME KeepsTwo, autoOnly, tracker \in Steps PROVE Complete(tracker)'
    BY <1>1 DEF TrackerWhole, TrackerNamesComplete
  <2>1. tracker < global_steps /\ global_steps \in Nat /\ tracker \in Nat
    BY <1>1, InSave DEF Steps
  <2>2. \A q \in Roles, j \in Ranks, g \in Files :
           shard'[tracker][q][j][g] = shard[tracker][q][j][g]
    BY <1>6, <2>1
  <2>3. Complete(tracker)
    BY DEF IInv, TrackerWhole, TrackerNamesComplete
  <2> QED
    BY <1>1, <2>2, <2>3 DEF Complete
<1> QED
  BY <1>8, <1>9, <1>10, <1>11, <1>12 DEF IInv

(* Appending the new step to the saved paths keeps it: they ascend to it. *)
LEMMA LeaveBarrierIInv == ASSUME IInv, NEW k \in Ranks, LeaveBarrier(k) PROVE IInv'
<1>1. /\ pc \in Saving /\ rank[k] = "leave"
      /\ rank' = [rank EXCEPT ![k] = "saved"]
      /\ UNCHANGED <<pc, run, autoOnly, global_steps, file, shard, data, folder, tracker>>
  BY DEF LeaveBarrier, disk
<1>2. PICK r \in Roles : r = pc
  BY <1>1, InSave
<1> DEFINE path == previous_saved_paths[r][k]
           next == Append(path, global_steps)
<1>3. previous_saved_paths' = [previous_saved_paths EXCEPT ![r][k] = next]
  BY <1>2 DEF LeaveBarrier
<1>4. /\ path \in Seq(Steps) /\ Len(path) \in Nat
      /\ \A i \in 1..Len(path) : path[i] \in Steps /\ path[i] \in Nat
      /\ global_steps \in Steps /\ global_steps \in Nat
  BY <1>1, PathType, InSave DEF IInv
<1>5. /\ next \in Seq(Steps) /\ Len(next) = Len(path) + 1
      /\ next[Len(path) + 1] = global_steps
      /\ \A i \in 1..Len(path) : next[i] = path[i]
  <2> HIDE DEF path
  <2> QED
    BY <1>4
<1>6. TypeOK'
  <2>1. previous_saved_paths' \in [Roles -> [Ranks -> Seq(Steps)]]
    <3> HIDE DEF next
    <3>1. previous_saved_paths \in [Roles -> [Ranks -> Seq(Steps)]]
      BY DEF IInv, TypeOK
    <3> QED
      BY <1>3, <1>5, <3>1
  <2>2. rank' \in [Ranks -> {"idle", "rotate", "enter", "write", "leave", "saved"}]
    BY <1>1 DEF IInv, TypeOK
  <2> QED
    BY <1>1, <2>1, <2>2 DEF IInv, TypeOK
<1>7. Bounded' /\ Ahead'
  BY <1>1 DEF IInv, Bounded, Ahead
<1>8. Folders'
  BY <1>1 DEF IInv, TypeOK, Folders
<1>9. \A j \in Ranks : rank'[j] = IF j = k THEN "saved" ELSE rank[j]
  BY <1>1 DEF IInv, TypeOK
<1>10. Paths'
  <2>1. ASSUME NEW role \in Roles, NEW j \in Ranks, role # r \/ j # k PROVE PathsOf(role, j)'
    <3>1. PathsOf(role, j)
      BY <1>1, InSave DEF IInv, Paths
    <3>2. previous_saved_paths'[role][j] = previous_saved_paths[role][j]
      BY <1>3, <2>1 DEF IInv, TypeOK
    <3>3. Appended(role, j)' <=> Appended(role, j)
      BY <1>1, <1>2, <1>9, <2>1 DEF Appended
    <3> QED
      BY <1>1, <3>1, <3>2, <3>3 DEF PathsOf
  <2>2. PathsOf(r, k)'
    <3>1. previous_saved_paths'[r][k] = next
      BY <1>3 DEF IInv, TypeOK
    <3>2. /\ Len(path) > 0 => path[Len(path)] = tracker /\ path[Len(path)] < global_steps
          /\ \A i, j \in 1..Len(path) : i < j => path[i] < path[j]
      BY <1>1, <1>2, LastIsTracker
    <3>3. Appended(r, k)'
      BY <1>1, <1>2, <1>9 DEF Appended
    <3> HIDE DEF path, next
    <3>4. \A i \in 1..Len(path) : path[i] < global_steps
      BY <1>4, <3>2
    <3>5. ASSUME NEW i \in 1..Len(next), NEW j \in 1..Len(next), i < j
          PROVE  next[i] < next[j]
      <4>1. i \in 1..Len(path) /\ next[i] = path[i]
        BY <1>4, <1>5, <3>5
      <4>2. CASE j \in 1..Len(path)
        BY <1>5, <3>2, <3>5, <4>1, <4>2
      <4>3. CASE j = Len(path) + 1
        BY <1>5, <3>4, <4>1, <4>3
      <4> QED
        BY <1>4, <1>5, <4>2, <4>3
    <3>6. next[Len(next)] = global_steps
      BY <1>5
    <3> QED
      BY <1>1, <3>1, <3>3, <3>5, <3>6, InSave DEF PathsOf
  <2> QED
    BY <1>1, <2>1, <2>2, InSave DEF Paths
<1>11. Written'
  <2>1. \A j \in Ranks : rank[j] \in {"leave", "saved"} => file[j] = NFiles + 1
    BY <1>1 DEF IInv, Written
  <2> QED
    BY <1>1, <1>9, <2>1, InSave DEF IInv, Written, RoleWritten, Committing
<1> QED
  BY <1>1, <1>6, <1>7, <1>8, <1>10, <1>11, DiskKept DEF IInv

-----------------------------------------------------------------------------
(* The rotation keeps its room *)

(* A path names no more steps than it is long. *)
LEMMA PathCardinality ==
    ASSUME NEW path \in Seq(Steps), NEW S, \A s \in S : Holds(path, s)
    PROVE  IsFiniteSet(S) /\ Cardinality(S) \in Nat /\ Cardinality(S) <= Len(path)
<1> DEFINE T == {path[i] : i \in 1..Len(path)}
           f == [i \in 1..Len(path) |-> path[i]]
<1>1. Len(path) \in Nat
  OBVIOUS
<1>2. f \in Surjection(1..Len(path), T)
  BY DEF Surjection
<1>3. IsFiniteSet(1..Len(path)) /\ Cardinality(1..Len(path)) = Len(path)
  BY <1>1, FS_Interval
<1>4. IsFiniteSet(T) /\ Cardinality(T) <= Len(path)
  <2> DEFINE I == 1..Len(path)
  <2>1. f \in Surjection(I, T) /\ IsFiniteSet(I) /\ Cardinality(I) = Len(path)
    BY <1>2, <1>3
  <2> HIDE DEF f, I, T
  <2>2. IsFiniteSet(T) /\ Cardinality(T) <= Cardinality(I)
    BY <2>1, FS_Surjection
  <2> QED
    BY <2>1, <2>2, Zenon
<1> HIDE DEF f
<1>5. S \in SUBSET T
  BY DEF Holds
<1> HIDE DEF T
<1>6. IsFiniteSet(S) /\ Cardinality(S) <= Cardinality(T)
  BY <1>4, <1>5, FS_Subset
<1>7. Cardinality(S) \in Nat /\ Cardinality(T) \in Nat
  BY <1>4, <1>6, FS_CardinalityType
<1> QED
  BY <1>1, <1>4, <1>6, <1>7

(* While the launch works, it has files in as many steps as it may keep,   *)
(* as there is a rank whose path tells them all.                           *)
LEMMA WorkingKeeps ==
    ASSUME TypeOK, Mine, Room, pc \in Working PROVE KeepsAtMostPerRun
<1> SUFFICES ASSUME MaxKeep > 0, NEW role \in Roles
             PROVE  Cardinality({s \in Steps : \E k \in Ranks, f \in Files :
                                    shard[s][role][k][f] = run}) <= MaxKeep
  BY DEF KeepsAtMostPerRun
<1> DEFINE S == {s \in Steps : \E k \in Ranks, f \in Files : shard[s][role][k][f] = run}
<1>1. PICK k \in Ranks : TRUE
  BY ConstantTypes
<1> DEFINE path == previous_saved_paths[role][k]
           T    == S \ {global_steps}
<1>2. path \in Seq(Steps) /\ Len(path) \in Nat /\ MaxKeep \in Nat
  BY PathType, ConstantTypes
<1>3. /\ Len(path) <= MaxKeep
      /\ Making(role, k) => Len(path) < MaxKeep
  BY DEF Room
<1>4. \A s \in S : Holds(path, s) \/ (Making(role, k) /\ s = global_steps)
  BY DEF Mine
<1>5. CASE Making(role, k)
  <2>1. \A s \in T : Holds(path, s)
    BY <1>4
  <2> HIDE DEF path, S, T
  <2>2. IsFiniteSet(T) /\ Cardinality(T) \in Nat /\ Cardinality(T) <= Len(path)
    BY <1>2, <2>1, PathCardinality
  <2>3. /\ IsFiniteSet(T \cup {global_steps})
        /\ Cardinality(T \cup {global_steps}) <= Cardinality(T) + 1
    <3> DEFINE U == T \cup {global_steps}
    <3>1. /\ IsFiniteSet(U)
          /\ Cardinality(U) = IF global_steps \in T THEN Cardinality(T) ELSE Cardinality(T) + 1
      BY <2>2, FS_AddElement, Zenon
    <3> HIDE DEF U
    <3>2. Cardinality(U) <= Cardinality(T) + 1
      BY <2>2, <3>1
    <3> QED
      BY <3>1, <3>2 DEF U
  <2>4. S \in SUBSET (T \cup {global_steps})
    BY DEF T
  <2>5. /\ Cardinality(S) <= Cardinality(T \cup {global_steps})
        /\ Cardinality(S) \in Nat /\ Cardinality(T \cup {global_steps}) \in Nat
    BY <2>3, <2>4, FS_Subset, FS_CardinalityType
  <2>6. Cardinality(S) <= MaxKeep
    BY <1>2, <1>3, <1>5, <2>2, <2>3, <2>5
  <2> QED
    BY <2>6 DEF S
<1>6. CASE ~Making(role, k)
  <2>1. \A s \in S : Holds(path, s)
    BY <1>4, <1>6
  <2> HIDE DEF path, S
  <2>2. Cardinality(S) \in Nat /\ Cardinality(S) <= Len(path)
    BY <1>2, <2>1, PathCardinality
  <2>3. Cardinality(S) <= MaxKeep
    BY <1>2, <1>3, <2>2
  <2> QED
    BY <2>3 DEF S
<1> QED
  BY <1>5, <1>6

(* What is on the disk, and the launch, decide what is kept. *)
LEMMA KeepsSame ==
    ASSUME KeepsAtMostPerRun, UNCHANGED <<run, shard>> PROVE KeepsAtMostPerRun'
  BY DEF KeepsAtMostPerRun

(* A step that writes no file, and moves no rank past making room or past  *)
(* appending, keeps the rotation's invariant.                              *)
LEMMA NothingWritten ==
    ASSUME IInv, RInv, UNCHANGED <<run, shard, previous_saved_paths>>, pc \in Working,
           pc' # "start",
           pc' \in Working => \A role \in Roles, k \in Ranks :
               /\ Making(role, k)' <=> Making(role, k)
               /\ Making(role, k) => global_steps' = global_steps
    PROVE  Older' /\ Mine' /\ Room' /\ Owned' /\ Resting'
<1>1. Older'
  BY DEF RInv, Older
<1>2. Mine'
  <2> SUFFICES ASSUME pc' \in Working,
                      NEW s \in Steps, NEW role \in Roles, NEW j \in Ranks, NEW f \in Files,
                      shard[s][role][j][f] = run, NEW k \in Ranks
               PROVE  \/ Holds(previous_saved_paths[role][k], s)
                      \/ Making(role, k)' /\ s = global_steps'
    BY DEF Mine, Holds
  <2>1. Holds(previous_saved_paths[role][k], s) \/ (Making(role, k) /\ s = global_steps)
    BY DEF RInv, Mine
  <2> QED
    BY <2>1
<1>3. Room'
  BY DEF RInv, Room
<1>4. Owned'
  BY DEF RInv, Owned, Holds
<1>5. Resting'
  <2>1. KeepsAtMostPerRun
    BY WorkingKeeps DEF IInv, RInv
  <2> QED
    BY <2>1, KeepsSame DEF Resting
<1> QED
  BY <1>1, <1>2, <1>3, <1>4, <1>5

(* At the start the disk is empty. *)
LEMMA InitRInv == Init => RInv
<1> SUFFICES ASSUME Init PROVE RInv
  OBVIOUS
<1>1. pc = "start" /\ run = 1
  BY DEF Init
<1>2. \A s \in Steps, role \in Roles, k \in Ranks, f \in Files :
         shard[s][role][k][f] = Absent
  BY DEF Init
<1>3. Older
  BY <1>1, <1>2 DEF Older, Absent
<1>4. Barriers /\ Mine /\ Room /\ Owned
  BY <1>1 DEF Barriers, Mine, Room, Owned, Working, Saving, Committing
<1>5. KeepsAtMostPerRun
  <2>1. \A role \in Roles : {s \in Steps : \E k \in Ranks, f \in Files :
                                shard[s][role][k][f] = run} = {}
    BY <1>1, <1>2 DEF Absent
  <2> QED
    BY <2>1, FS_EmptySet, ConstantTypes DEF KeepsAtMostPerRun
<1> QED
  BY <1>3, <1>4, <1>5 DEF RInv, Resting

(* A launch finds no file of its own. *)
LEMMA RelaunchRInv == ASSUME IInv, RInv, Relaunch PROVE RInv'
<1>1. pc' = "start" /\ run' = run + 1 /\ shard' = shard
  BY DEF Relaunch, disk
<1>2. run \in Nat /\ run' \in Nat
  BY <1>1 DEF IInv, TypeOK, Runs
<1>3. \A s \in Steps, role \in Roles, k \in Ranks, f \in Files :
         /\ shard[s][role][k][f] \in Int
         /\ shard[s][role][k][f] <= run
  BY DEF IInv, TypeOK, Content, Runs, Absent, Torn, RInv, Older
<1>4. \A s \in Steps, role \in Roles, k \in Ranks, f \in Files :
         /\ shard[s][role][k][f] <= run'
         /\ shard[s][role][k][f] # run'
  BY <1>1, <1>2, <1>3
<1>5. Older'
  BY <1>1, <1>4 DEF Older
<1>6. Barriers' /\ Mine' /\ Room' /\ Owned'
  BY <1>1 DEF Barriers, Mine, Room, Owned, Working, Saving, Committing
<1>7. KeepsAtMostPerRun'
  <2>1. \A role \in Roles : {s \in Steps : \E k \in Ranks, f \in Files :
                                shard[s][role][k][f] = run'} = {}
    BY <1>4
  <2> QED
    BY <1>1, <2>1, FS_EmptySet, ConstantTypes DEF KeepsAtMostPerRun
<1> QED
  BY <1>5, <1>6, <1>7 DEF RInv, Resting

(* Loading writes nothing, and no path is saved yet. *)
LEMMA LoadRInv == ASSUME IInv, RInv, NEW mode \in ResumeModes, Load(mode) PROVE RInv'
<1>1. /\ pc = "start" /\ pc' \in {"train", "failed"}
      /\ UNCHANGED <<run, previous_saved_paths, shard>>
  BY DEF Load, LoadFrom, Launch, memory, disk
<1>2. Barriers' /\ Older'
  BY <1>1 DEF RInv, Barriers, Older, Saving
<1>3. Mine'
  BY <1>1 DEF RInv, Older, Mine
<1>4. \A role \in Roles, k \in Ranks : previous_saved_paths'[role][k] = <<>> /\ ~Making(role, k)'
  BY <1>1, Marks DEF IInv, Paths, Making
<1>5. Room'
  BY <1>4, ConstantTypes DEF Room
<1>6. Owned'
  BY <1>4 DEF Owned, Holds
<1>7. Resting'
  <2>1. KeepsAtMostPerRun
    BY <1>1 DEF RInv, Resting, Working, Saving, Committing
  <2> QED
    BY <1>1, <2>1, KeepsSame DEF Resting
<1> QED
  BY <1>2, <1>3, <1>5, <1>6, <1>7 DEF RInv

(* A crash leaves the disk as it is. *)
LEMMA CrashRInv == ASSUME IInv, RInv, Crash PROVE RInv'
<1>1. pc' = "down" /\ UNCHANGED <<run, shard>>
  BY DEF Crash, memory, disk
<1>2. Barriers' /\ Mine' /\ Room' /\ Owned'
  BY <1>1 DEF Barriers, Mine, Room, Owned, Working, Saving, Committing
<1>3. Older'
  BY <1>1 DEF RInv, Older
<1>4. KeepsAtMostPerRun
  BY WorkingKeeps DEF IInv, RInv, Resting
<1> QED
  BY <1>1, <1>2, <1>3, <1>4, KeepsSame DEF RInv, Resting

(* The driver writes no shard, and moves ranks only to the beginning or    *)
(* the end of a save.                                                      *)
LEMMA DriverRInv == ASSUME IInv, RInv, Driver PROVE RInv'
<1>1. CASE Train
  <2>1. /\ pc = "train" /\ UNCHANGED <<run, shard, previous_saved_paths>>
        /\ \/ pc' = "actor" /\ rank' = [k \in Ranks |-> "rotate"]
           \/ pc' = "next"
    BY <1>1 DEF Train, CallSave, disk
  <2>2. Barriers'
    BY <2>1 DEF Barriers, Saving
  <2>3. \A role \in Roles, k \in Ranks : ~Making(role, k) /\ ~Making(role, k)'
    BY <2>1, Marks DEF Making
  <2> QED
    BY <2>1, <2>2, <2>3, NothingWritten DEF RInv, Working
<1>2. CASE RoleSaved
  <2>1. /\ pc \in Saving /\ \A k \in Ranks : rank[k] = "saved"
        /\ UNCHANGED <<run, shard, previous_saved_paths>>
        /\ \/ pc' = "critic" /\ rank' = [k \in Ranks |-> "rotate"]
           \/ pc' = "data"
    BY <1>2 DEF RoleSaved, CallSave, disk
  <2>2. Barriers'
    BY <2>1 DEF Barriers, Saving
  <2>3. \A role \in Roles, k \in Ranks : ~Making(role, k) /\ ~Making(role, k)'
    BY <2>1, Marks DEF Making
  <2> QED
    BY <2>1, <2>2, <2>3, NothingWritten DEF RInv, Working
<1>3. CASE SaveData \/ WriteTracker
  <2>1. /\ pc \in Committing /\ pc' \in Committing \cup {"next"}
        /\ UNCHANGED <<run, shard, previous_saved_paths>>
    BY <1>3 DEF SaveData, WriteTracker, memory, Committing
  <2>2. Barriers'
    BY <2>1 DEF Barriers, Saving, Committing
  <2>3. \A role \in Roles, k \in Ranks : ~Making(role, k) /\ ~Making(role, k)'
    BY <2>1, Marks DEF Making, Committing
  <2>4. pc' # "start"
    BY <2>1 DEF Committing
  <2> QED
    BY <2>1, <2>2, <2>3, <2>4, NothingWritten DEF RInv, Working
<1>4. CASE Advance
  <2>1. /\ pc = "next" /\ pc' \in {"done", "train"}
        /\ UNCHANGED <<run, shard, previous_saved_paths>>
    BY <1>4 DEF Advance, memory, disk
  <2>2. Barriers'
    BY <2>1 DEF Barriers, Saving
  <2>3. \A role \in Roles, k \in Ranks : ~Making(role, k) /\ ~Making(role, k)'
    BY <2>1, Marks DEF Making
  <2> QED
    BY <2>1, <2>2, <2>3, NothingWritten DEF RInv, Working
<1> QED
  BY <1>1, <1>2, <1>3, <1>4 DEF Driver

(* A retired step is one of the rank's paths. *)
LEMMA RetiredHeld ==
    ASSUME IInv, pc \in Saving, NEW k \in Ranks, NEW s \in Retired(k)
    PROVE  s \in Steps /\ Holds(previous_saved_paths[pc][k], s)
<1> DEFINE path == previous_saved_paths[pc][k]
<1>1. PICK i \in 1..KeepStart(k) : s = path[i]
  BY DEF Retired, Saved
<1>2. /\ KeepStart(k) \in 0..Len(path) /\ Len(path) \in Nat
      /\ \A n \in 1..Len(path) : path[n] \in Steps
  BY PathType, RetiresEarlier, InSave DEF IInv, Saved
<1>3. i \in 1..Len(path)
  BY <1>2
<1> QED
  BY <1>1, <1>2, <1>3 DEF Holds

(* Deleting files of retired steps keeps the rotation's invariant. *)
LEMMA RmtreeRInv == ASSUME IInv, RInv, NEW k \in Ranks, Rmtree(k) PROVE RInv'
<1>1. /\ pc \in Saving
      /\ UNCHANGED <<pc, run, global_steps, rank, previous_saved_paths>>
  BY DEF Rmtree, memory
<1>2. PICK s \in Retired(k), j \in Ranks, f \in Files :
         shard' = [shard EXCEPT ![s][pc][j][f] = Absent]
  BY DEF Rmtree
<1>3. PICK r \in Roles : r = pc
  BY <1>1, InSave
<1>4. s \in Steps /\ shard' = [shard EXCEPT ![s][r][j][f] = Absent]
  BY <1>1, <1>2, <1>3, RetiredHeld
<1>5. \A t \in Steps, q \in Roles, i \in Ranks, g \in Files :
         shard'[t][q][i][g] \in {Absent, shard[t][q][i][g]}
  <2>1. /\ shard'[s][r][j][f] = Absent
        /\ \A t \in Steps, q \in Roles, i \in Ranks, g \in Files :
              t # s \/ q # r \/ i # j \/ g # f => shard'[t][q][i][g] = shard[t][q][i][g]
    <3>1. shard'[s][r][j][f] = Absent
      BY <1>4 DEF IInv, TypeOK
    <3>2. \A t \in Steps, q \in Roles, i \in Ranks, g \in Files :
             t # s \/ q # r \/ i # j \/ g # f => shard'[t][q][i][g] = shard[t][q][i][g]
      BY <1>4, OneFile, Marks DEF IInv
    <3> QED
      BY <3>1, <3>2
  <2> QED
    BY <2>1
<1>6. run \in Runs /\ run \in Nat /\ pc \in Working /\ pc # "start"
  BY <1>1, InSave, Current
<1>7. Barriers' /\ Room'
  BY <1>1 DEF RInv, Barriers, Room, Making
<1>8. Older'
  BY <1>1, <1>5, <1>6 DEF RInv, Older, Absent
<1>9. Mine'
  <2>1. \A t \in Steps, q \in Roles, i \in Ranks, g \in Files :
           shard'[t][q][i][g] = run => shard[t][q][i][g] = run
    <3>1. run # Absent
      BY <1>6, Marks
    <3> QED
      BY <1>5, <3>1
  <2> QED
    BY <1>1, <2>1 DEF RInv, Mine, Holds, Making
<1>10. Owned'
  BY <1>1, <1>5 DEF RInv, Owned, Holds
<1> QED
  BY <1>1, <1>6, <1>7, <1>8, <1>9, <1>10 DEF RInv, Resting

(* What a rank keeps when it drops the retired paths: steps that are held  *)
(* and not retired, fewer than may be kept.                                *)
LEMMA KeepsRest ==
    ASSUME IInv, RInv, pc \in Saving, NEW k \in Ranks, NEW rest,
           rest = SubSeq(Saved(k), KeepStart(k) + 1, Len(Saved(k)))
    PROVE  /\ \A s : Holds(rest, s) => Holds(Saved(k), s)
           /\ \A s : Holds(Saved(k), s) => Holds(rest, s) \/ s \in Retired(k)
           /\ MaxKeep > 0 => Len(rest) < MaxKeep
<1> DEFINE path == Saved(k)
           n    == KeepStart(k)
<1>1. path \in Seq(Steps) /\ Len(path) \in Nat /\ n \in 0..Len(path) /\ MaxKeep \in Nat
  BY PathType, InSave, RetiresEarlier, ConstantTypes DEF IInv, Saved
<1>2. /\ Len(rest) = Len(path) - n
      /\ \A i \in 1..(Len(path) - n) : rest[i] = path[i + n] /\ i + n \in 1..Len(path)
  <2> HIDE DEF path, n
  <2>1. rest = SubSeq(path, n + 1, Len(path))
    BY DEF path, n
  <2> QED
    BY <1>1, <2>1, Rest
<1>3. MaxKeep > 0 => Len(rest) < MaxKeep
  <2>1. CASE MaxKeep > 0 /\ Len(path) >= MaxKeep
    BY <1>1, <1>2, <2>1 DEF KeepStart
  <2>2. CASE ~(MaxKeep > 0 /\ Len(path) >= MaxKeep)
    <3>1. n = 0
      BY <2>2 DEF KeepStart
    <3> QED
      BY <1>1, <1>2, <2>2, <3>1
  <2> QED
    BY <2>1, <2>2
<1>4. ASSUME NEW s, Holds(rest, s) PROVE Holds(path, s)
  BY <1>2, <1>4 DEF Holds
<1>5. ASSUME NEW s, Holds(path, s) PROVE Holds(rest, s) \/ s \in Retired(k)
  <2>1. PICK i \in 1..Len(path) : path[i] = s
    BY <1>5 DEF Holds
  <2>2. CASE i <= n
    BY <1>1, <2>1, <2>2 DEF Retired
  <2>3. CASE i > n
    <3> HIDE DEF path, n
    <3>1. i - n \in 1..(Len(path) - n) /\ (i - n) + n = i
      BY <1>1, <2>1, <2>3
    <3> QED
      BY <1>2, <2>1, <3>1 DEF Holds
  <2> QED
    BY <1>1, <2>1, <2>2, <2>3
<1> QED
  BY <1>3, <1>4, <1>5

(* Dropping the retired paths makes room: the steps dropped hold no file   *)
(* any more.                                                               *)
LEMMA RotateRInv == ASSUME IInv, RInv, NEW k \in Ranks, Rotate(k) PROVE RInv'
<1>1. /\ pc \in Saving /\ rank[k] = "rotate"
      /\ \A s \in Retired(k), j \in Ranks, f \in Files : shard[s][pc][j][f] = Absent
      /\ rank' = [rank EXCEPT ![k] = "enter"]
      /\ UNCHANGED <<pc, run, global_steps, shard>>
  BY DEF Rotate
<1>2. PICK r \in Roles : r = pc
  BY <1>1, InSave
<1>3. PICK rest : rest = SubSeq(Saved(k), KeepStart(k) + 1, Len(Saved(k)))
  OBVIOUS
<1>4. previous_saved_paths' = [previous_saved_paths EXCEPT ![r][k] = rest]
  BY <1>2, <1>3 DEF Rotate, Saved
<1>5. /\ previous_saved_paths'[r][k] = rest
      /\ \A role \in Roles, j \in Ranks : role # r \/ j # k =>
            previous_saved_paths'[role][j] = previous_saved_paths[role][j]
  BY <1>4 DEF IInv, TypeOK
<1>6. /\ \A s : Holds(rest, s) => Holds(previous_saved_paths[r][k], s)
      /\ \A s : Holds(previous_saved_paths[r][k], s) => Holds(rest, s) \/ s \in Retired(k)
      /\ MaxKeep > 0 => Len(rest) < MaxKeep
  BY <1>1, <1>2, <1>3, KeepsRest DEF Saved
<1>7. /\ \A j \in Ranks : rank'[j] = IF j = k THEN "enter" ELSE rank[j]
      /\ \A role \in Roles, j \in Ranks : role # r \/ j # k =>
            (Making(role, j)' <=> Making(role, j))
      /\ ~Making(r, k) /\ Making(r, k)'
  BY <1>1, <1>2 DEF IInv, TypeOK, Making
<1>8. run \in Runs /\ pc \in Working /\ pc # "start"
  BY <1>1, InSave
<1>9. Barriers'
  BY <1>1, <1>7 DEF RInv, Barriers
<1>10. Older'
  BY <1>1 DEF RInv, Older
<1>11. Mine'
  <2> SUFFICES ASSUME NEW s \in Steps, NEW role \in Roles, NEW j \in Ranks, NEW f \in Files,
                      shard[s][role][j][f] = run, NEW i \in Ranks
               PROVE  \/ Holds(previous_saved_paths'[role][i], s)
                      \/ Making(role, i)' /\ s = global_steps
    BY <1>1 DEF Mine, Holds
  <2>1. Holds(previous_saved_paths[role][i], s) \/ (Making(role, i) /\ s = global_steps)
    BY <1>8 DEF RInv, Mine
  <2>2. CASE role # r \/ i # k
    BY <1>5, <1>7, <2>1, <2>2
  <2>3. CASE role = r /\ i = k
    <3>1. Holds(previous_saved_paths[r][k], s)
      BY <1>7, <2>1, <2>3
    <3>2. s \notin Retired(k)
      BY <1>1, <1>2, <1>8, <2>3, Marks
    <3> QED
      BY <1>5, <1>6, <2>3, <3>1, <3>2
  <2> QED
    BY <2>2, <2>3
<1>12. Room'
  <2> SUFFICES ASSUME MaxKeep > 0, NEW role \in Roles, NEW j \in Ranks
               PROVE  /\ Len(previous_saved_paths'[role][j]) <= MaxKeep
                      /\ Making(role, j)' => Len(previous_saved_paths'[role][j]) < MaxKeep
    BY DEF Room
  <2>1. CASE role # r \/ j # k
    BY <1>5, <1>7, <1>8, <2>1 DEF RInv, Room
  <2>2. CASE role = r /\ j = k
    <3>1. previous_saved_paths'[r][k] \in Seq(Steps)
      <4>1. TypeOK'
        BY RotateIInv DEF IInv
      <4> QED
        BY <4>1 DEF TypeOK
    <3>2. Len(rest) \in Nat /\ MaxKeep \in Nat
      BY <1>5, <3>1, ConstantTypes
    <3> QED
      BY <1>5, <1>6, <2>2, <3>2
  <2> QED
    BY <2>1, <2>2
<1>13. Owned'
  <2> SUFFICES ASSUME NEW s \in Steps, NEW role \in Roles, NEW i \in Ranks,
                      Holds(previous_saved_paths'[role][i], s),
                      NEW j \in Ranks, NEW f \in Files
               PROVE  shard[s][role][j][f] \in {Absent, run}
    BY <1>1 DEF Owned, Holds
  <2>1. Holds(previous_saved_paths[role][i], s)
    BY <1>5, <1>6
  <2> QED
    BY <1>8, <2>1 DEF RInv, Owned
<1> QED
  BY <1>1, <1>8, <1>9, <1>10, <1>11, <1>12, <1>13 DEF RInv, Resting

(* A rank that waits at a barrier, or goes on from the first, neither      *)
(* makes room nor appends.                                                 *)
LEMMA MoveRInv ==
    ASSUME IInv, RInv, NEW k \in Ranks, EnterBarrier(k) \/ AllWritten(k) PROVE RInv'
<1>1. /\ pc \in Saving /\ UNCHANGED <<pc, run, global_steps, shard, previous_saved_paths>>
      /\ \/ /\ rank[k] = "enter" /\ rank' = [rank EXCEPT ![k] = "write"]
            /\ \A j \in Ranks : rank[j] # "rotate"
         \/ rank[k] = "write" /\ rank' = [rank EXCEPT ![k] = "leave"]
  BY DEF EnterBarrier, AllWritten, disk
<1>2. \A j \in Ranks : j # k => rank'[j] = rank[j]
  BY <1>1 DEF IInv, TypeOK
<1>3. /\ rank[k] \in {"enter", "write"} /\ rank'[k] \in {"write", "leave"}
      /\ rank[k] = "enter" => rank'[k] = "write"
      /\ rank[k] = "enter" => \A j \in Ranks : rank[j] # "rotate"
  BY <1>1 DEF IInv, TypeOK
<1>4. Barriers'
  BY <1>1, <1>2, <1>3 DEF RInv, Barriers
<1>5. \A role \in Roles, j \in Ranks : Making(role, j)' <=> Making(role, j)
  BY <1>1, <1>2, <1>3 DEF Making
<1>6. pc \in Working /\ pc # "start"
  BY <1>1, InSave
<1> QED
  BY <1>1, <1>4, <1>5, <1>6, NothingWritten DEF RInv

(* A rank that has not appended has not saved the step before. *)
LEMMA NotHeldYet ==
    ASSUME IInv, pc \in Saving, NEW k \in Ranks, rank[k] # "saved"
    PROVE  ~Holds(previous_saved_paths[pc][k], global_steps)
<1> SUFFICES ASSUME NEW i \in 1..Len(previous_saved_paths[pc][k]),
                    previous_saved_paths[pc][k][i] = global_steps
             PROVE  FALSE
  BY DEF Holds
<1>1. PICK path : path = previous_saved_paths[pc][k]
  OBVIOUS
<1>2. /\ path \in Seq(Steps) /\ Len(path) \in Nat /\ global_steps \in Nat
      /\ \A n \in 1..Len(path) : path[n] \in Nat
  BY <1>1, PathType, InSave DEF IInv
<1>3. /\ Len(path) > 0 => path[Len(path)] < global_steps
      /\ \A m, n \in 1..Len(path) : m < n => path[m] < path[n]
  BY <1>1, LastIsTracker
<1>4. i \in 1..Len(path) /\ path[i] = global_steps /\ Len(path) \in 1..Len(path)
  BY <1>1, <1>2
<1>5. i = Len(path) \/ i < Len(path)
  BY <1>2, <1>4
<1> QED
  BY <1>2, <1>3, <1>4, <1>5

(* Writing a file keeps the rotation's invariant: every rank has made      *)
(* room, and none has appended the step yet.                               *)
LEMMA WriteFileRInv == ASSUME IInv, RInv, NEW k \in Ranks, WriteFile(k) PROVE RInv'
<1>1. /\ pc \in Saving /\ rank[k] = "write" /\ file[k] \in Files
      /\ UNCHANGED <<pc, run, global_steps, rank, previous_saved_paths>>
  BY DEF WriteFile
<1>2. PICK r \in Roles : r = pc
  BY <1>1, InSave
<1>3. PICK f \in Files : f = file[k]
  BY <1>1
<1>4. PICK c \in {Torn, run} : shard' = [shard EXCEPT ![global_steps][r][k][f] = c]
  <2>1. CASE shard[global_steps][pc][k][file[k]] # Torn
    BY <1>2, <1>3, <2>1 DEF WriteFile
  <2>2. CASE shard[global_steps][pc][k][file[k]] = Torn
    BY <1>2, <1>3, <2>2 DEF WriteFile
  <2> QED
    BY <2>1, <2>2
<1>5. /\ global_steps \in Steps /\ run \in Runs /\ run \in Nat /\ c \in Content
      /\ pc \in Working /\ pc # "start"
  BY <1>1, <1>4, InSave, Current, Marks
<1>6. /\ shard'[global_steps][r][k][f] = c
      /\ \A t \in Steps, q \in Roles, j \in Ranks, g \in Files :
            t # global_steps \/ q # r \/ j # k \/ g # f
               => shard'[t][q][j][g] = shard[t][q][j][g]
  <2>1. PICK s \in Steps : s = global_steps
    BY <1>5
  <2>2. TypeOK /\ shard' = [shard EXCEPT ![s][r][k][f] = c]
    BY <1>4, <2>1 DEF IInv
  <2>3. /\ shard'[s][r][k][f] = c
        /\ \A t \in Steps, q \in Roles, j \in Ranks, g \in Files :
              t # s \/ q # r \/ j # k \/ g # f => shard'[t][q][j][g] = shard[t][q][j][g]
    <3>1. shard'[s][r][k][f] = c
      BY <2>2 DEF TypeOK
    <3>2. \A t \in Steps, q \in Roles, j \in Ranks, g \in Files :
             t # s \/ q # r \/ j # k \/ g # f => shard'[t][q][j][g] = shard[t][q][j][g]
      BY <1>5, <2>2, OneFile
    <3> QED
      BY <3>1, <3>2
  <2> QED
    BY <2>1, <2>3
<1>7. \A j \in Ranks : rank[j] \in {"enter", "write", "leave"}
  <2>1. \A j \in Ranks : rank[j] # "rotate" /\ rank[j] # "saved" /\ rank[j] # "idle"
    BY <1>1 DEF RInv, Barriers, IInv, Folders
  <2> QED
    BY <2>1 DEF IInv, TypeOK
<1>8. Barriers' /\ Room'
  BY <1>1 DEF RInv, Barriers, Room, Making
<1>9. Older'
  <2>1. c <= run /\ run' = run /\ pc' # "start"
    BY <1>1, <1>4, <1>5 DEF Torn
  <2> QED
    BY <1>6, <2>1 DEF RInv, Older
<1>10. Mine'
  <2> SUFFICES ASSUME NEW s \in Steps, NEW role \in Roles, NEW j \in Ranks, NEW g \in Files,
                      shard'[s][role][j][g] = run, NEW i \in Ranks
               PROVE  \/ Holds(previous_saved_paths[role][i], s)
                      \/ Making(role, i) /\ s = global_steps
    BY <1>1 DEF Mine, Holds, Making
  <2>1. CASE s = global_steps /\ role = r
    BY <1>2, <1>7, <2>1 DEF Making
  <2>2. CASE ~(s = global_steps /\ role = r)
    BY <1>5, <1>6, <2>2 DEF RInv, Mine
  <2> QED
    BY <2>1, <2>2
<1>11. Owned'
  <2> SUFFICES ASSUME NEW s \in Steps, NEW role \in Roles, NEW i \in Ranks,
                      Holds(previous_saved_paths[role][i], s),
                      NEW j \in Ranks, NEW g \in Files
               PROVE  shard'[s][role][j][g] \in {Absent, run}
    BY <1>1 DEF Owned, Holds
  <2>1. ~(s = global_steps /\ role = r)
    BY <1>1, <1>2, <1>7, NotHeldYet
  <2>2. shard[s][role][j][g] \in {Absent, run}
    BY <1>5 DEF RInv, Owned
  <2> QED
    BY <1>6, <2>1, <2>2
<1> QED
  BY <1>1, <1>5, <1>8, <1>9, <1>10, <1>11 DEF RInv, Resting

(* Appending the step uses the room that was made: all of its files are    *)
(* there, of this launch.                                                  *)
LEMMA LeaveBarrierRInv == ASSUME IInv, RInv, NEW k \in Ranks, LeaveBarrier(k) PROVE RInv'
<1>1. /\ pc \in Saving /\ rank[k] = "leave"
      /\ \A j \in Ranks : rank[j] \in {"leave", "saved"}
      /\ rank' = [rank EXCEPT ![k] = "saved"]
      /\ UNCHANGED <<pc, run, global_steps, shard>>
  BY DEF LeaveBarrier, disk
<1>2. PICK r \in Roles : r = pc
  BY <1>1, InSave
<1>3. PICK path : path = previous_saved_paths[r][k]
  OBVIOUS
<1>4. PICK next : next = Append(path, global_steps)
  OBVIOUS
<1>5. previous_saved_paths' = [previous_saved_paths EXCEPT ![r][k] = next]
  BY <1>2, <1>3, <1>4 DEF LeaveBarrier
<1>6. /\ previous_saved_paths'[r][k] = next
      /\ \A role \in Roles, j \in Ranks : role # r \/ j # k =>
            previous_saved_paths'[role][j] = previous_saved_paths[role][j]
  BY <1>5 DEF IInv, TypeOK
<1>7. path \in Seq(Steps) /\ Len(path) \in Nat /\ global_steps \in Steps
  BY <1>1, <1>3, PathType, InSave DEF IInv
<1>8. /\ Len(next) = Len(path) + 1 /\ next[Len(path) + 1] = global_steps
      /\ \A i \in 1..Len(path) : next[i] = path[i]
  BY <1>4, <1>7
<1>9. \A s : Holds(next, s) <=> Holds(path, s) \/ s = global_steps
  <2>1. ASSUME NEW s, Holds(next, s) PROVE Holds(path, s) \/ s = global_steps
    <3>1. PICK i \in 1..Len(next) : next[i] = s
      BY <2>1 DEF Holds
    <3>2. i \in 1..Len(path) \/ i = Len(path) + 1
      BY <1>7, <1>8
    <3> QED
      BY <1>8, <3>1, <3>2 DEF Holds
  <2>2. ASSUME NEW s, Holds(path, s) PROVE Holds(next, s)
    <3>1. PICK i \in 1..Len(path) : path[i] = s
      BY <2>2 DEF Holds
    <3>2. i \in 1..Len(next)
      BY <1>7, <1>8
    <3> QED
      BY <1>8, <3>1, <3>2 DEF Holds
  <2>3. Holds(next, global_steps)
    <3>1. Len(path) + 1 \in 1..Len(next)
      BY <1>7, <1>8
    <3> QED
      BY <1>8, <3>1 DEF Holds
  <2> QED
    BY <2>1, <2>2, <2>3
<1>10. /\ \A j \in Ranks : rank'[j] = IF j = k THEN "saved" ELSE rank[j]
       /\ \A role \in Roles, j \in Ranks : role # r \/ j # k =>
             (Making(role, j)' <=> Making(role, j))
       /\ Making(r, k) /\ ~Making(r, k)'
  BY <1>1, <1>2 DEF IInv, TypeOK, Making
<1>11. run \in Runs /\ pc \in Working /\ pc # "start"
  BY <1>1, InSave
<1>12. Barriers'
  BY <1>1, <1>10 DEF RInv, Barriers
<1>13. Older'
  BY <1>1 DEF RInv, Older
<1>14. Mine'
  <2> SUFFICES ASSUME NEW s \in Steps, NEW role \in Roles, NEW j \in Ranks, NEW f \in Files,
                      shard[s][role][j][f] = run, NEW i \in Ranks
               PROVE  \/ Holds(previous_saved_paths'[role][i], s)
                      \/ Making(role, i)' /\ s = global_steps
    BY <1>1 DEF Mine, Holds
  <2>1. Holds(previous_saved_paths[role][i], s) \/ (Making(role, i) /\ s = global_steps)
    BY <1>11 DEF RInv, Mine
  <2>2. CASE role # r \/ i # k
    BY <1>6, <1>10, <2>1, <2>2
  <2>3. CASE role = r /\ i = k
    BY <1>3, <1>6, <1>9, <2>1, <2>3
  <2> QED
    BY <2>2, <2>3
<1>15. Room'
  <2> SUFFICES ASSUME MaxKeep > 0, NEW role \in Roles, NEW j \in Ranks
               PROVE  /\ Len(previous_saved_paths'[role][j]) <= MaxKeep
                      /\ Making(role, j)' => Len(previous_saved_paths'[role][j]) < MaxKeep
    BY DEF Room
  <2>1. CASE role # r \/ j # k
    BY <1>6, <1>10, <1>11, <2>1 DEF RInv, Room
  <2>2. CASE role = r /\ j = k
    <3>1. Len(path) < MaxKeep
      BY <1>3, <1>10, <1>11 DEF RInv, Room
    <3>2. Len(next) <= MaxKeep
      BY <1>7, <1>8, <3>1, ConstantTypes
    <3> QED
      BY <1>6, <1>10, <2>2, <3>2
  <2> QED
    BY <2>1, <2>2
<1>16. Owned'
  <2> SUFFICES ASSUME NEW s \in Steps, NEW role \in Roles, NEW i \in Ranks,
                      Holds(previous_saved_paths'[role][i], s),
                      NEW j \in Ranks, NEW f \in Files
               PROVE  shard[s][role][j][f] \in {Absent, run}
    BY <1>1 DEF Owned, Holds
  <2>1. CASE Holds(previous_saved_paths[role][i], s)
    BY <1>11, <2>1 DEF RInv, Owned
  <2>2. CASE ~Holds(previous_saved_paths[role][i], s)
    <3>1. role = r /\ s = global_steps
      BY <1>3, <1>6, <1>9, <2>2
    <3>2. file[j] = NFiles + 1 /\ f < NFiles + 1
      BY <1>1, ConstantTypes DEF IInv, Written, Files
    <3> QED
      BY <1>1, <1>2, <3>1, <3>2 DEF IInv, Written
  <2> QED
    BY <2>1, <2>2
<1> QED
  BY <1>1, <1>11, <1>12, <1>13, <1>14, <1>15, <1>16 DEF RInv, Resting

-----------------------------------------------------------------------------
(* The theorems *)

(* Every step keeps the invariant. *)
LEMMA NextIInv == ASSUME IInv, [Next]_vars PROVE IInv'
<1>1. ASSUME NEW mode \in ResumeModes, Load(mode) PROVE IInv'
  BY <1>1, LoadIInv
<1>2. CASE Driver
  BY <1>2, TrainIInv, RoleSavedIInv, SaveDataIInv, WriteTrackerIInv, AdvanceIInv DEF Driver
<1>3. ASSUME NEW k \in Ranks, RankStep(k) PROVE IInv'
  BY <1>3, RmtreeIInv, RotateIInv, EnterBarrierIInv, WriteFileIInv, AllWrittenIInv,
     LeaveBarrierIInv DEF RankStep
<1>4. CASE Crash
  BY <1>4, CrashIInv
<1>5. CASE Relaunch
  BY <1>5, RelaunchIInv
<1>6. CASE UNCHANGED vars
  <2>1. UNCHANGED <<pc, run, autoOnly, global_steps, rank, file, previous_saved_paths,
                    shard, data, folder, tracker>>
    BY <1>6 DEF vars
  <2>2. TypeOK' /\ Bounded' /\ Folders' /\ Ahead' /\ Written'
    BY <2>1 DEF IInv, TypeOK, Bounded, Folders, Ahead, Written, RoleWritten
  <2>3. Paths'
    BY <2>1 DEF IInv, Paths, PathsOf, Appended
  <2> QED
    BY <2>1, <2>2, <2>3, DiskKept DEF IInv
<1> QED
  BY <1>1, <1>2, <1>3, <1>4, <1>5, <1>6 DEF Next

(* IInv is an inductive invariant, whatever is kept: the heart of the four *)
(* theorems below.                                                         *)
THEOREM IInvHolds == Spec => []IInv
<1>1. IInv /\ [Next]_vars => IInv'
  BY NextIInv
<1> QED
  BY <1>1, InitIInv, PTL DEF Spec

(* The variables keep their types. *)
THEOREM TypeCorrect == Spec => []TypeOK
<1>1. IInv => TypeOK
  BY DEF IInv
<1> QED
  BY <1>1, IInvHolds, PTL

(* Through any crash and any number of launches, for every number of ranks *)
(* and of files, the tracker of a job resumed in auto mode only ever names *)
(* a checkpoint whose shards and data.pt are all there and of one run.     *)
THEOREM TrackerComplete == KeepsTwo => (Spec => []TrackerNamesComplete)
<1> SUFFICES ASSUME KeepsTwo PROVE Spec => []TrackerNamesComplete
  OBVIOUS
<1>1. IInv => TrackerNamesComplete
  BY DEF IInv, TrackerWhole
<1> QED
  BY <1>1, IInvHolds, PTL

(* A job resumed in auto mode works only on steps after the one the        *)
(* tracker names, however often it is launched again.                      *)
THEOREM NeverRedoes == Spec => []NeverRedoesSavedStep
<1>1. IInv => NeverRedoesSavedStep
  BY DEF IInv, Ahead, Pending, NeverRedoesSavedStep
<1> QED
  BY <1>1, IInvHolds, PTL

(* A launch in auto mode on a readable tracker loads its checkpoint, which *)
(* is whole, and goes on at the step after it.                             *)
THEOREM ResumesThere == KeepsTwo => (Spec => ResumesAtTracker)
<1> SUFFICES ASSUME KeepsTwo PROVE Spec => ResumesAtTracker
  OBVIOUS
<1> DEFINE Resumes ==
       pc = "start" /\ pc' \in {"train", "failed"} /\ autoOnly' /\ tracker \in Steps
          => pc' = "train" /\ global_steps' = tracker + 1
<1>1. ASSUME IInv, [Next]_vars PROVE Resumes
  <2> SUFFICES ASSUME pc = "start", pc' \in {"train", "failed"}, autoOnly', tracker \in Steps
               PROVE  pc' = "train" /\ global_steps' = tracker + 1
    OBVIOUS
  <2>1. PICK mode \in ResumeModes : Load(mode)
    BY <1>1 DEF Next, Driver, Train, RoleSaved, SaveData, WriteTracker, Advance, RankStep,
                Rmtree, Rotate, EnterBarrier, WriteFile, AllWritten, LeaveBarrier, Crash,
                Relaunch, Saving, vars
  <2>2. autoOnly /\ mode = "auto"
    BY <2>1 DEF Load, LoadFrom, Launch
  <2>3. tracker \in folder /\ LatestCkpt = tracker /\ tracker # Torn /\ LatestCkpt # Absent
    BY <1>1, Marks DEF IInv, Folders, LatestCkpt
  <2>4. Complete(tracker)
    BY <1>1, <2>2 DEF IInv, TrackerWhole, TrackerNamesComplete
  <2>5. Loadable(tracker) /\ data[tracker] # Torn
    <3>1. PICK r \in Runs : /\ data[tracker] = r
                            /\ \A role \in Roles, k \in Ranks, f \in Files :
                                  shard[tracker][role][k][f] = r
      BY <2>4 DEF Complete
    <3> QED
      BY <3>1, Marks DEF Loadable
  <2>6. LoadFrom(mode, tracker)
    BY <2>1, <2>2, <2>3 DEF Load
  <2> QED
    BY <2>5, <2>6 DEF LoadFrom, Launch
<1>2. Spec => [][Resumes]_vars
  <2>1. IInv /\ [Next]_vars => [Resumes]_vars
    BY <1>1
  <2> HIDE DEF Resumes
  <2> QED
    BY <2>1, IInvHolds, PTL DEF Spec
<1> QED
  BY <1>2 DEF ResumesAtTracker

(* Every step keeps the rotation's invariant. *)
LEMMA NextRInv == ASSUME IInv, RInv, [Next]_vars PROVE RInv'
<1>1. ASSUME NEW mode \in ResumeModes, Load(mode) PROVE RInv'
  BY <1>1, LoadRInv
<1>2. CASE Driver
  BY <1>2, DriverRInv
<1>3. ASSUME NEW k \in Ranks, RankStep(k) PROVE RInv'
  BY <1>3, RmtreeRInv, RotateRInv, MoveRInv, WriteFileRInv, LeaveBarrierRInv DEF RankStep
<1>4. CASE Crash
  BY <1>4, CrashRInv
<1>5. CASE Relaunch
  BY <1>5, RelaunchRInv
<1>6. CASE UNCHANGED vars
  <2>1. UNCHANGED <<pc, run, global_steps, rank, previous_saved_paths, shard>>
    BY <1>6 DEF vars
  <2>2. Barriers' /\ Older' /\ Mine' /\ Room' /\ Owned'
    BY <2>1 DEF RInv, Barriers, Older, Mine, Room, Owned, Holds, Making
  <2>3. Resting'
    BY <2>1, KeepsSame DEF RInv, Resting
  <2> QED
    BY <2>2, <2>3 DEF RInv
<1> QED
  BY <1>1, <1>2, <1>3, <1>4, <1>5, <1>6 DEF Next

(* What a launch has saved and what it may retire is told by every rank's  *)
(* list of saved paths, at every point of a save and of a rotation.        *)
THEOREM RInvHolds == Spec => []RInv
<1>1. IInv /\ RInv /\ [Next]_vars => RInv'
  BY NextRInv
<1> QED
  BY <1>1, InitRInv, IInvHolds, PTL DEF Spec

(* For every max_ckpt_to_keep, number of ranks and of crashes: the disk    *)
(* never holds files of more than max_ckpt_to_keep steps of one launch.    *)
THEOREM KeepsAtMostHolds == Spec => []KeepsAtMostPerRun
<1>1. IInv /\ RInv => KeepsAtMostPerRun
  BY WorkingKeeps DEF IInv, RInv, Resting
<1> QED
  BY <1>1, IInvHolds, RInvHolds, PTL

(* A rotation deletes no file but those this launch has written. *)
THEOREM RotationSpares == Spec => RotationSparesOtherRuns
<1> DEFINE Spares ==
       \A s \in Steps, role \in Roles, k \in Ranks, f \in Files :
          shard[s][role][k][f] # Absent /\ shard'[s][role][k][f] = Absent
             => shard[s][role][k][f] = run
<1>1. ASSUME IInv, RInv, [Next]_vars PROVE Spares
  <2>1. CASE UNCHANGED shard
    BY <2>1
  <2>2. ASSUME NEW k \in Ranks, Rmtree(k) PROVE Spares
    <3>1. pc \in Saving
      BY <2>2 DEF Rmtree
    <3>2. PICK s \in Retired(k), j \in Ranks, f \in Files :
             shard' = [shard EXCEPT ![s][pc][j][f] = Absent]
      BY <2>2 DEF Rmtree
    <3>3. PICK r \in Roles : r = pc
      BY <1>1, <3>1, InSave
    <3>4. s \in Steps /\ Holds(previous_saved_paths[r][k], s)
      BY <1>1, <3>1, <3>2, <3>3, RetiredHeld
    <3>5. \A t \in Steps, q \in Roles, i \in Ranks, g \in Files :
             t # s \/ q # r \/ i # j \/ g # f => shard'[t][q][i][g] = shard[t][q][i][g]
      BY <1>1, <3>2, <3>3, <3>4, OneFile, Marks DEF IInv
    <3>6. shard[s][r][j][f] \in {Absent, run}
      BY <1>1, <3>1, <3>4, InSave DEF RInv, Owned
    <3> QED
      BY <3>5, <3>6
  <2>3. ASSUME NEW k \in Ranks, WriteFile(k) PROVE Spares
    <3>1. /\ pc \in Saving /\ file[k] \in Files
      BY <2>3 DEF WriteFile
    <3>2. PICK r \in Roles, s \in Steps, f \in Files :
             r = pc /\ s = global_steps /\ f = file[k]
      BY <1>1, <3>1, InSave
    <3>3. PICK c \in {Torn, run} : shard' = [shard EXCEPT ![s][r][k][f] = c]
      BY <2>3, <3>2 DEF WriteFile
    <3>4. c \in Content /\ c # Absent
      <4>1. run \in Runs
        BY <1>1, <3>1, InSave
      <4> QED
        BY <3>3, <4>1, Marks DEF Torn, Absent
    <3>5. /\ shard'[s][r][k][f] = c
          /\ \A t \in Steps, q \in Roles, i \in Ranks, g \in Files :
                t # s \/ q # r \/ i # k \/ g # f => shard'[t][q][i][g] = shard[t][q][i][g]
      <4>1. shard'[s][r][k][f] = c
        BY <1>1, <3>3 DEF IInv, TypeOK
      <4>2. \A t \in Steps, q \in Roles, i \in Ranks, g \in Files :
               t # s \/ q # r \/ i # k \/ g # f => shard'[t][q][i][g] = shard[t][q][i][g]
        BY <1>1, <3>3, <3>4, OneFile DEF IInv
      <4> QED
        BY <4>1, <4>2
    <3> QED
      BY <3>4, <3>5
  <2>4. \/ UNCHANGED shard
        \/ \E k \in Ranks : Rmtree(k) \/ WriteFile(k)
    BY <1>1 DEF Next, Load, LoadFrom, Launch, Driver, Train, RoleSaved, SaveData,
                WriteTracker, Advance, RankStep, Rotate, EnterBarrier, AllWritten,
                LeaveBarrier, Crash, Relaunch, disk, vars
  <2> HIDE DEF Spares
  <2> QED
    BY <2>1, <2>2, <2>3, <2>4
<1>2. Spec => [][Spares]_vars
  <2>1. IInv /\ RInv /\ [Next]_vars => [Spares]_vars
    BY <1>1
  <2> HIDE DEF Spares
  <2> QED
    BY <2>1, IInvHolds, RInvHolds, PTL DEF Spec
<1> QED
  BY <1>2 DEF RotationSparesOtherRuns
=============================================================================
