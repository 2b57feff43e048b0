----------------------------- MODULE Checkpoint -----------------------------
(***************************************************************************)
(* Saving, rotating and resuming training checkpoints.                     *)
(*                                                                         *)
(* The driver (RayPPOTrainer.fit, _save_checkpoint, _load_checkpoint) asks *)
(* the actor's worker group, then the critic's, to write their shards;     *)
(* every rank of a group runs FSDPCheckpointManager.save_checkpoint: it    *)
(* deletes the directories its rotation retires, makes the new directory,  *)
(* meets the others at a barrier, writes its files and meets them again.   *)
(* The driver then writes data.pt and, last, the tracker file that a       *)
(* restarted job reads.  The job may crash between any two of these steps: *)
(* the disk stays, the memory of every process is gone.                    *)
(*                                                                         *)
(* Abstractions.  A file is Absent, Torn (its write has begun and not      *)
(* ended) or the number of the run that wrote it; its directory says which *)
(* step it is of.  rmtree deletes its files one at a time, in any order.   *)
(* The configuration files of rank 0 and the optional HF export are not    *)
(* told apart from rank 0's own files.  The dataloader always has another  *)
(* batch: a resumed job runs its epochs from epoch 0 again.                *)
(***************************************************************************)
EXTENDS Integers, Sequences, FiniteSets

CONSTANTS
    Ranks,        \* the FSDP ranks; the actor and the critic have the same
    NFiles,       \* files of a rank, written in order (3: model, optim, extra)
    TotalSteps,   \* total_training_steps
    SaveFreq,     \* trainer.save_freq, 0 when checkpoints are off
    MaxKeep,      \* max_actor_ckpt_to_keep = max_critic_ckpt_to_keep, 0: None
    UseCritic,    \* the critic saves and loads too
    ResumeModes,  \* the trainer.resume_mode values a launch may use
    MaxRuns       \* bound: launches of the job

ASSUME CheckpointAssumption ==
    /\ Ranks # {}
    /\ NFiles \in Nat \ {0}
    /\ TotalSteps \in Nat \ {0}
    /\ SaveFreq \in Nat
    /\ MaxKeep \in Nat
    /\ UseCritic \in BOOLEAN
    /\ ResumeModes \subseteq {"auto", "disable", "resume_path"}
    /\ MaxRuns \in Nat \ {0}

Roles == IF UseCritic THEN {"actor", "critic"} ELSE {"actor"}
Files == 1..NFiles

(* A launch that resumes at the last step trains one step more. *)
Steps == 1..(TotalSteps + MaxRuns)
Runs  == 1..MaxRuns

Absent  == 0
Torn    == -1
Content == {Absent, Torn} \cup Runs

VARIABLES
    pc,                    \* where the driver is
    run,                   \* number of this launch
    autoOnly,              \* history: every launch so far used resume_mode auto
    global_steps,
    rank,                  \* where each rank is in save_checkpoint
    file,                  \* the file each rank writes next
    previous_saved_paths,  \* per role and rank, in memory: the steps it saved
    shard,                 \* disk: [step][role][rank][file]
    data,                  \* disk: data.pt of each step
    folder,                \* disk: the global_step_N directories
    tracker                \* disk: latest_checkpointed_iteration.txt

disk == <<shard, data, folder, tracker>>
memory == <<rank, file, previous_saved_paths>>
vars == <<pc, run, autoOnly, global_steps, rank, file, previous_saved_paths,
          shard, data, folder, tracker>>

Saving == {"actor", "critic"}

TypeOK ==
    /\ pc \in {"start", "train", "actor", "critic", "data", "dataWrite",
               "track", "commit", "next", "done", "failed", "down"}
    /\ run \in Runs
    /\ autoOnly \in BOOLEAN
    /\ global_steps \in 0..(TotalSteps + MaxRuns)
    /\ rank \in [Ranks -> {"idle", "rotate", "enter", "write", "leave", "saved"}]
    /\ file \in [Ranks -> 1..(NFiles + 1)]
    /\ previous_saved_paths \in [Roles -> [Ranks -> Seq(Steps)]]
    /\ shard \in [Steps -> [Roles -> [Ranks -> [Files -> Content]]]]
    /\ data \in [Steps -> Content]
    /\ folder \subseteq Steps
    /\ tracker \in {Absent, Torn} \cup Steps

Init ==
    /\ pc = "start"
    /\ run = 1
    /\ autoOnly = TRUE
    /\ global_steps = 0
    /\ rank = [k \in Ranks |-> "idle"]
    /\ file = [k \in Ranks |-> 1]
    /\ previous_saved_paths = [role \in Roles |-> [k \in Ranks |-> <<>>]]
    /\ shard = [s \in Steps |-> [role \in Roles |->
                  [k \in Ranks |-> [f \in Files |-> Absent]]]]
    /\ data = [s \in Steps |-> Absent]
    /\ folder = {}
    /\ tracker = Absent

-----------------------------------------------------------------------------
(* Resuming *)

(* Mutant: resume from the newest directory, whatever the tracker says. *)
NewestFolder ==
    IF folder = {} THEN Absent ELSE CHOOSE s \in folder : \A u \in folder : u <= s

(* Mutant: the checkpoint is never found. *)
NeverFound == Absent

(* find_latest_ckpt_path: the step the tracker names when its directory is *)
(* there, otherwise Absent (None).  A torn tracker makes int() raise.      *)
LatestCkpt == IF tracker \in folder THEN tracker ELSE Absent

(* Every rank finds and can read every one of its shards of step s. *)
Loadable(s) ==
    \A role \in Roles, k \in Ranks, f \in Files :
        shard[s][role][k][f] \notin {Absent, Torn}

Launch(mode, step, state) ==
    /\ pc' = state
    /\ global_steps' = step
    /\ autoOnly' = (autoOnly /\ mode = "auto")
    /\ UNCHANGED <<run, memory, disk>>

(* A missing data.pt is only warned about; a torn one raises. *)
LoadFrom(mode, s) ==
    IF Loadable(s) /\ data[s] # Torn
    THEN Launch(mode, s + 1, "train")
    ELSE Launch(mode, s, "failed")

(* resume_path and auto both look the tracker up first. *)
Load(mode) ==
    /\ pc = "start"
    /\ mode \in ResumeModes
    /\ \/ mode = "disable" /\ Launch(mode, 1, "train")
       \/ mode # "disable" /\ tracker = Torn /\ Launch(mode, 0, "failed")
       \/ mode = "auto" /\ tracker # Torn /\ LatestCkpt = Absent
          /\ Launch(mode, 1, "train")
       \/ mode = "auto" /\ tracker # Torn /\ LatestCkpt # Absent
          /\ LoadFrom(mode, LatestCkpt)
       \/ mode = "resume_path" /\ tracker # Torn
          /\ \E s \in folder : LoadFrom(mode, s)

-----------------------------------------------------------------------------
(* The training loop *)

(* Mutant: the last step is told by equality; a job resumed at it goes on. *)
IsLastStepExact == global_steps = TotalSteps

IsLastStep == global_steps >= TotalSteps
SaveDue    == SaveFreq > 0 /\ (IsLastStep \/ global_steps % SaveFreq = 0)

(* An RPC to a worker group: every rank of it enters save_checkpoint. *)
CallSave ==
    /\ rank' = [k \in Ranks |-> "rotate"]
    /\ file' = [k \in Ranks |-> 1]

Train ==
    /\ pc = "train"
    /\ IF SaveDue
       THEN /\ pc' = "actor"
            /\ CallSave
       ELSE /\ pc' = "next"
            /\ UNCHANGED <<rank, file>>
    /\ UNCHANGED <<run, autoOnly, global_steps, previous_saved_paths, disk>>

(* The RPC returns when every rank has returned. *)
RoleSaved ==
    /\ pc \in Saving
    /\ \A k \in Ranks : rank[k] = "saved"
    /\ IF pc = "actor" /\ UseCritic
       THEN /\ pc' = "critic"
            /\ CallSave
       ELSE /\ pc' = "data"
            /\ rank' = [k \in Ranks |-> "idle"]
            /\ UNCHANGED file
    /\ UNCHANGED <<run, autoOnly, global_steps, previous_saved_paths, disk>>

SaveData ==
    /\ \/ /\ pc = "data"
          /\ pc' = "dataWrite"
          /\ data' = [data EXCEPT ![global_steps] = Torn]
       \/ /\ pc = "dataWrite"
          /\ pc' = "track"
          /\ data' = [data EXCEPT ![global_steps] = run]
    /\ UNCHANGED <<run, autoOnly, global_steps, memory, shard, folder, tracker>>

(* open(..., "w") truncates the tracker, the write then names the step. *)
WriteTracker ==
    /\ \/ pc = "track" /\ pc' = "commit" /\ tracker' = Torn
       \/ pc = "commit" /\ pc' = "next" /\ tracker' = global_steps
    /\ UNCHANGED <<run, autoOnly, global_steps, memory, shard, data, folder>>

Advance ==
    /\ pc = "next"
    /\ global_steps' = global_steps + 1
    /\ pc' = IF IsLastStep THEN "done" ELSE "train"
    /\ UNCHANGED <<run, autoOnly, memory, disk>>

Driver == Train \/ RoleSaved \/ SaveData \/ WriteTracker \/ Advance

-----------------------------------------------------------------------------
(* FSDPCheckpointManager.save_checkpoint on rank k *)

Saved(k) == previous_saved_paths[pc][k]

(* Mutant: the rotation counts the new checkpoint twice. *)
KeepStartTooMany(k) ==
    IF MaxKeep > 0 /\ Len(Saved(k)) >= MaxKeep
    THEN Len(Saved(k))
    ELSE 0

(* Mutant: the rotation forgets the checkpoint about to be written. *)
KeepStartTooFew(k) ==
    IF MaxKeep > 0 /\ Len(Saved(k)) > MaxKeep
    THEN Len(Saved(k)) - MaxKeep
    ELSE 0

(* How many of the oldest paths the rotation retires. *)
KeepStart(k) ==
    IF MaxKeep > 0 /\ Len(Saved(k)) >= MaxKeep
    THEN Len(Saved(k)) - MaxKeep + 1
    ELSE 0

Retired(k) == {Saved(k)[i] : i \in 1..KeepStart(k)}

(* rmtree deletes a whole directory, so the files of every rank in it. *)
Rmtree(k) ==
    /\ pc \in Saving
    /\ rank[k] = "rotate"
    /\ \E s \in Retired(k), j \in Ranks, f \in Files :
          /\ shard[s][pc][j][f] # Absent
          /\ shard' = [shard EXCEPT ![s][pc][j][f] = Absent]
    /\ UNCHANGED <<pc, run, autoOnly, global_steps, memory, data, folder, tracker>>

(* The retired directories are gone; the new one is made. *)
Rotate(k) ==
    /\ pc \in Saving
    /\ rank[k] = "rotate"
    /\ \A s \in Retired(k), j \in Ranks, f \in Files : shard[s][pc][j][f] = Absent
    /\ previous_saved_paths' =
          [previous_saved_paths EXCEPT ![pc][k] =
              SubSeq(@, KeepStart(k) + 1, Len(@))]
    /\ folder' = folder \cup {global_steps}
    /\ rank' = [rank EXCEPT ![k] = "enter"]
    /\ UNCHANGED <<pc, run, autoOnly, global_steps, file, shard, data, tracker>>

EnterBarrier(k) ==
    /\ pc \in Saving
    /\ rank[k] = "enter"
    /\ \A j \in Ranks : rank[j] # "rotate"
    /\ rank' = [rank EXCEPT ![k] = "write"]
    /\ UNCHANGED <<pc, run, autoOnly, global_steps, file, previous_saved_paths, disk>>

(* torch.save of the rank's next file: torn until the write has ended. *)
WriteFile(k) ==
    /\ pc \in Saving
    /\ rank[k] = "write"
    /\ file[k] \in Files
    /\ IF shard[global_steps][pc][k][file[k]] # Torn
       THEN /\ shard' = [shard EXCEPT ![global_steps][pc][k][file[k]] = Torn]
            /\ UNCHANGED file
       ELSE /\ shard' = [shard EXCEPT ![global_steps][pc][k][file[k]] = run]
            /\ file' = [file EXCEPT ![k] = @ + 1]
    /\ UNCHANGED <<pc, run, autoOnly, global_steps, rank, previous_saved_paths,
                   data, folder, tracker>>

AllWritten(k) ==
    /\ pc \in Saving
    /\ rank[k] = "write"
    /\ file[k] = NFiles + 1
    /\ rank' = [rank EXCEPT ![k] = "leave"]
    /\ UNCHANGED <<pc, run, autoOnly, global_steps, file, previous_saved_paths, disk>>

(* Mutant: the last barrier counts only the ranks still standing at it. *)
LeaveBarrierAlone(k) ==
    /\ pc \in Saving
    /\ rank[k] = "leave"
    /\ \A j \in Ranks : rank[j] = "leave"
    /\ previous_saved_paths' =
          [previous_saved_paths EXCEPT ![pc][k] = Append(@, global_steps)]
    /\ rank' = [rank EXCEPT ![k] = "saved"]
    /\ UNCHANGED <<pc, run, autoOnly, global_steps, file, disk>>

LeaveBarrier(k) ==
    /\ pc \in Saving
    /\ rank[k] = "leave"
    /\ \A j \in Ranks : rank[j] \in {"leave", "saved"}
    /\ previous_saved_paths' =
          [previous_saved_paths EXCEPT ![pc][k] = Append(@, global_steps)]
    /\ rank' = [rank EXCEPT ![k] = "saved"]
    /\ UNCHANGED <<pc, run, autoOnly, global_steps, file, disk>>

RankStep(k) ==
    Rmtree(k) \/ Rotate(k) \/ EnterBarrier(k) \/ WriteFile(k) \/ AllWritten(k)
    \/ LeaveBarrier(k)

-----------------------------------------------------------------------------
(* Crashes and launches *)

(* Any process dying takes the job down. *)
Crash ==
    /\ pc \notin {"done", "failed", "down"}
    /\ pc' = "down"
    /\ UNCHANGED <<run, autoOnly, global_steps, memory, disk>>

(* Mutant: the saved paths survive the process. *)
RelaunchKeepingPaths ==
    /\ pc \in {"done", "failed", "down"}
    /\ run < MaxRuns
    /\ pc' = "start"
    /\ run' = run + 1
    /\ global_steps' = 0
    /\ rank' = [k \in Ranks |-> "idle"]
    /\ file' = [k \in Ranks |-> 1]
    /\ UNCHANGED <<previous_saved_paths, autoOnly, disk>>

(* A job that crashed, failed to load or finished is launched again. *)
Relaunch ==
    /\ pc \in {"done", "failed", "down"}
    /\ run < MaxRuns
    /\ pc' = "start"
    /\ run' = run + 1
    /\ global_steps' = 0
    /\ rank' = [k \in Ranks |-> "idle"]
    /\ file' = [k \in Ranks |-> 1]
    /\ previous_saved_paths' = [role \in Roles |-> [k \in Ranks |-> <<>>]]
    /\ UNCHANGED <<autoOnly, disk>>

Next ==
    \/ \E mode \in ResumeModes : Load(mode)
    \/ Driver
    \/ \E k \in Ranks : RankStep(k)
    \/ Crash
    \/ Relaunch

Spec == Init /\ [][Next]_vars

(* Every process that can move does: the driver and the ranks are scheduled *)
(* by the operating system; nothing makes a crash or a launch happen.       *)
Fairness ==
    /\ WF_vars(Driver)
    /\ \A k \in Ranks : WF_vars(RankStep(k))

FairSpec == Spec /\ Fairness

-----------------------------------------------------------------------------
(* Properties *)

(* Every shard and the data.pt of step s are complete and of one run. *)
Complete(s) ==
    \E r \in Runs :
        /\ data[s] = r
        /\ \A role \in Roles, k \in Ranks, f \in Files : shard[s][role][k][f] = r

(* Whenever the tracker names a step, also between any two file operations *)
(* of a save, a rotation or a crash, the checkpoint of that step is whole  *)
(* and not a mixture of two runs.  _save_checkpoint relies on writing the  *)
(* tracker last, and on rotation never reaching the step it still names.   *)
TrackerNamesComplete == autoOnly /\ tracker \in Steps => Complete(tracker)

(* A job launched with resume_mode auto on a readable tracker never starts *)
(* over and never fails to load: it goes on at the step after the tracker. *)
ResumesAtTracker ==
    [][pc = "start" /\ pc' \in {"train", "failed"} /\ autoOnly' /\ tracker \in Steps
          => pc' = "train" /\ global_steps' = tracker + 1]_vars

(* However often the job crashes, a job resumed in auto mode only works on *)
(* steps after the one the tracker names: it neither repeats a step that   *)
(* is already saved nor writes into the directory it would resume from.    *)
NeverRedoesSavedStep ==
    autoOnly /\ tracker \in Steps
       /\ pc \in {"train", "actor", "critic", "data", "dataWrite", "track"}
    => tracker < global_steps

(* The rotation runs before the new checkpoint is written and makes room   *)
(* for it, so at no moment does the disk hold complete files of more than  *)
(* max_ckpt_to_keep of the steps this launch has saved.                    *)
KeepsAtMostPerRun ==
    MaxKeep > 0 =>
        \A role \in Roles :
            Cardinality({s \in Steps : \E k \in Ranks, f \in Files :
                            shard[s][role][k][f] = run}) <= MaxKeep

(* The rotation deletes only what this launch wrote: previous_saved_paths  *)
(* is empty in a new process, so a resumed job leaves the checkpoints of   *)
(* the launches before it alone.                                           *)
RotationSparesOtherRuns ==
    [][\A s \in Steps, role \in Roles, k \in Ranks, f \in Files :
          shard[s][role][k][f] # Absent /\ shard'[s][role][k][f] = Absent
             => shard[s][role][k][f] = run]_vars

(* The two barriers of save_checkpoint never leave ranks waiting for each  *)
(* other: a save that has begun ends, unless the job crashes.              *)
SaveTerminates == (pc \in Saving) ~> (pc \in {"next", "down"})
=============================================================================
