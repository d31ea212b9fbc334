---------------------------- MODULE SnapshotWriter ----------------------------
(***************************************************************************)
(* snapshot.Writer.Write (internal/snapshot): a bundle of Scenario files   *)
(* is staged beside its target directory and renamed into place.           *)
(*                                                                         *)
(* A writer is one run of the program.  Every call it makes to the file    *)
(* system is a step, which may fail; between two of them another writer    *)
(* may act, the writer may crash, and the machine may lose power.          *)
(*                                                                         *)
(* A directory is Absent, NotDirectory (a file or a symlink), or the set   *)
(* of its entries; an entry is the pair of whoever wrote it and its name.  *)
(* Each writer has the two temporary directories os.MkdirTemp gives it.    *)
(***************************************************************************)
EXTENDS Naturals, Sequences, FiniteSets

CONSTANTS
  Writers,          \* the runs that export to the same target
  Bundles,          \* the sequences of built Scenarios a run may be asked to write
  InitialTargets,   \* what may be at the target before any of them
  Exports,          \* what they are asked and find: a bundle for each, and a target
  MaxOutages,       \* bound on the power losses
  Absent, NotDirectory

VARIABLES
  built,            \* [Writers -> Bundles], never changed
  target,           \* the target directory
  stages, backups,  \* the temporary directories of each writer
  at,               \* the call each writer makes next
  targetExists,     \* what validateTarget told it
  stageOwned,       \* whether its deferred cleanup removes the stage
  result,           \* "ok", the ErrorKind it returns, or Undecided
  synced,           \* whether its staged bundle is on disk
  unsynced,         \* earlier values of target a power loss may bring back
  litter,           \* whether a removal it made failed, or its rollback
  outages           \* the number of power losses so far

files == <<target, stages, backups>>
vars  == <<built, target, stages, backups, at, targetExists, stageOwned, result,
           synced, unsynced, litter, outages>>

Undecided  == "undecided"
ErrorKinds == {"policy", "destination", "collision", "stage", "publish"}

ASSUME BundlesAssumption ==
  /\ \A items \in Bundles : items \in Seq({items[i] : i \in DOMAIN items})
  /\ MaxOutages \in Nat

(* What a foreign directory holds was not written by any of the writers. *)
ASSUME ForeignAssumption ==
  \A content \in InitialTargets \ {Absent, NotDirectory} :
    \A entry \in content : entry[1] \notin Writers

(* What is no directory is told from every directory a writer can make. *)
ASSUME DirectoriesAssumption ==
  \A content \in {Absent, NotDirectory} :
    /\ content # {}
    /\ \A w \in Writers, items \in Bundles :
         content # {<<w, items[i].name>> : i \in DOMAIN items}

Points == {"prepare", "lstatParent", "lstatTarget", "readTarget", "makeStage",
           "chmod", "write", "syncStage", "publish", "makeBackup", "dropBackup",
           "clearBackup", "moveTarget", "moveStage", "restore", "removeBackup",
           "syncParent", "cleanup", "returned", "crashed"}

File(w, i) == <<w, built[w][i].name>>
Bundle(w)  == {File(w, i) : i \in DOMAIN built[w]}
Torn(w)    == <<w, "torn">>     \* what a failed write leaves of its file

Init ==
  /\ built \in [Writers -> Bundles]
  /\ target \in InitialTargets
  /\ <<built, target>> \in Exports
  /\ stages  = [w \in Writers |-> Absent]
  /\ backups = [w \in Writers |-> Absent]
  /\ at = [w \in Writers |-> "prepare"]
  /\ targetExists = [w \in Writers |-> FALSE]
  /\ stageOwned   = [w \in Writers |-> FALSE]
  /\ result = [w \in Writers |-> Undecided]
  /\ synced = [w \in Writers |-> FALSE]
  /\ unsynced = {} /\ outages = 0
  /\ litter = [w \in Writers |-> FALSE]

-------------------------------------------------------------------------------
(***************************************************************************)
(* Control.  Write returns through its deferred cleanup.                   *)
(***************************************************************************)
Goto(w, point) == at' = [at EXCEPT ![w] = point]

ReturnShadowed(w, kind) ==      \* mutant: the error is assigned to a shadow
  /\ UNCHANGED result
  /\ Goto(w, IF stageOwned'[w] THEN "cleanup" ELSE "returned")

Return(w, kind) ==
  /\ result' = [result EXCEPT ![w] = kind]
  /\ Goto(w, IF stageOwned'[w] THEN "cleanup" ELSE "returned")

(* A call that fails with no effect on the file system. *)
Refuse(w, kind) ==
  /\ UNCHANGED <<built, files, targetExists, stageOwned, synced, unsynced, litter, outages>>
  /\ Return(w, kind)

Proceed(w, point) ==
  /\ Goto(w, point)
  /\ UNCHANGED <<built, files, targetExists, stageOwned, result, synced, unsynced,
                 litter, outages>>

(***************************************************************************)
(* The file system.  A rename of a directory needs the new name to be      *)
(* free: os.Rename refuses an existing directory, unless it appeared       *)
(* between its own check and the system call, which replaces an empty one. *)
(***************************************************************************)
MayRenameTo(content) == content \in {Absent, {}}

SetTarget(content) ==
  /\ target' = content
  /\ unsynced' = unsynced \cup {target}

(* What os.RemoveAll may leave when it fails. *)
Remnants(content) == IF content = Absent THEN {} ELSE SUBSET content

-------------------------------------------------------------------------------
(***************************************************************************)
(* prepareEntries: the first item that may not be written decides.         *)
(***************************************************************************)
ItemRefusal(items, i) ==
  CASE items[i].secret                            -> "policy"
    [] ~items[i].wellNamed                        -> "collision"
    [] \E j \in 1..(i - 1) :
         items[j].name = items[i].name            -> "collision"
    [] ~items[i].valid                            -> "policy"
    [] OTHER                                      -> Undecided

RefusedLast(items) ==           \* mutant: only the last item is looked at
  {i \in DOMAIN items : i = Len(items) /\ ItemRefusal(items, i) # Undecided}

Refused(items) == {i \in DOMAIN items : ItemRefusal(items, i) # Undecided}

Prepare(w) ==
  /\ at[w] = "prepare"
  /\ LET items == built[w] IN
       \/ items = <<>> /\ Refuse(w, "policy")
       \/ items # <<>> /\ Refused(items) = {} /\ Proceed(w, "lstatParent")
       \/ \E i \in Refused(items) :
            /\ \A j \in Refused(items) : i <= j
            /\ Refuse(w, ItemRefusal(items, i))

LstatParent(w) ==
  /\ at[w] = "lstatParent"
  /\ Proceed(w, "lstatTarget") \/ Refuse(w, "destination")

(***************************************************************************)
(* validateTarget, two calls.                                              *)
(***************************************************************************)
LstatTarget(w) ==
  /\ at[w] = "lstatTarget"
  /\ \/ target = Absent /\ Proceed(w, "makeStage")
     \/ target \notin {Absent, NotDirectory} /\ Proceed(w, "readTarget")
     \/ Refuse(w, "destination")

ReadTarget(w) ==
  /\ at[w] = "readTarget"
  /\ \/ /\ target = {}
        /\ targetExists' = [targetExists EXCEPT ![w] = TRUE]
        /\ Goto(w, "makeStage")
        /\ UNCHANGED <<built, files, stageOwned, result, synced, unsynced, litter, outages>>
     \/ Refuse(w, "destination")

-------------------------------------------------------------------------------
(***************************************************************************)
(* Staging.                                                                *)
(***************************************************************************)
MakeStage(w) ==
  /\ at[w] = "makeStage"
  /\ \/ /\ stages' = [stages EXCEPT ![w] = {}]
        /\ stageOwned' = [stageOwned EXCEPT ![w] = TRUE]
        /\ Goto(w, "chmod")
        /\ UNCHANGED <<built, target, backups, targetExists, result, synced, unsynced,
                       litter, outages>>
     \/ Refuse(w, "stage")

Chmod(w) ==
  /\ at[w] = "chmod"
  /\ Proceed(w, "write") \/ Refuse(w, "stage")

(* writeSyncedFile: a failed write may leave a torn file behind. *)
WriteFile(w) ==
  /\ at[w] = "write"
  /\ LET i == Cardinality(stages[w]) + 1 IN
       \/ /\ stages' = [stages EXCEPT ![w] = @ \cup {File(w, i)}]
          /\ Goto(w, IF i = Len(built[w]) THEN "syncStage" ELSE "write")
          /\ UNCHANGED <<stageOwned, result>>
       \/ /\ stages' \in {stages, [stages EXCEPT ![w] = @ \cup {Torn(w)}]}
          /\ UNCHANGED stageOwned
          /\ Return(w, "stage")
  /\ UNCHANGED <<built, target, backups, targetExists, synced, unsynced, litter, outages>>

SyncStage(w) ==
  /\ at[w] = "syncStage"
  /\ \/ /\ synced' = [synced EXCEPT ![w] = TRUE]
        /\ Goto(w, IF targetExists[w] THEN "makeBackup" ELSE "publish")
        /\ UNCHANGED <<built, files, targetExists, stageOwned, result, unsynced, litter, outages>>
     \/ Refuse(w, "stage")

-------------------------------------------------------------------------------
(***************************************************************************)
(* Publication to a target that did not exist.                             *)
(***************************************************************************)
Publish(w) ==
  /\ at[w] = "publish"
  /\ \/ /\ MayRenameTo(target)
        /\ SetTarget(stages[w])
        /\ stages' = [stages EXCEPT ![w] = Absent]
        /\ stageOwned' = [stageOwned EXCEPT ![w] = FALSE]
        /\ Goto(w, "syncParent")
        /\ UNCHANGED <<built, backups, targetExists, result, synced, litter, outages>>
     \/ Refuse(w, "publish")

(***************************************************************************)
(* replaceEmptyTarget: the empty target is moved aside under the name of a *)
(* fresh directory, and moved back when the stage cannot take its place.   *)
(***************************************************************************)
MakeBackup(w) ==
  /\ at[w] = "makeBackup"
  /\ \/ /\ backups' = [backups EXCEPT ![w] = {}]
        /\ Goto(w, "dropBackup")
        /\ UNCHANGED <<built, target, stages, targetExists, stageOwned, result, synced,
                       unsynced, litter, outages>>
     \/ Refuse(w, "publish")

DropBackup(w) ==
  /\ at[w] = "dropBackup"
  /\ \/ /\ backups' = [backups EXCEPT ![w] = Absent]
        /\ Goto(w, "moveTarget")
        /\ UNCHANGED <<built, target, stages, targetExists, stageOwned, result, synced,
                       unsynced, litter, outages>>
     \/ Proceed(w, "clearBackup")

(* os.RemoveAll: the steps after its success and its failure. *)
RemoveBackupThen(w, removed, left) ==
  /\ UNCHANGED <<built, target, stages, targetExists, stageOwned, synced, unsynced, outages>>
  /\ \/ /\ backups' = [backups EXCEPT ![w] = Absent]
        /\ UNCHANGED litter
        /\ removed
     \/ /\ \E rest \in Remnants(backups[w]) : backups' = [backups EXCEPT ![w] = rest]
        /\ litter' = [litter EXCEPT ![w] = TRUE]
        /\ left

ClearBackup(w) ==
  /\ at[w] = "clearBackup"
  /\ RemoveBackupThen(w, Return(w, "publish"), Return(w, "publish"))

MoveTarget(w) ==
  /\ at[w] = "moveTarget"
  /\ \/ /\ target # Absent
        /\ backups' = [backups EXCEPT ![w] = target]
        /\ SetTarget(Absent)
        /\ Goto(w, "moveStage")
        /\ UNCHANGED <<built, stages, targetExists, stageOwned, result, synced, litter, outages>>
     \/ Refuse(w, "publish")

MoveStageOr(w, failure) ==
  /\ at[w] = "moveStage"
  /\ \/ /\ MayRenameTo(target)
        /\ SetTarget(stages[w])
        /\ stages' = [stages EXCEPT ![w] = Absent]
        /\ Goto(w, "removeBackup")
        /\ UNCHANGED <<built, backups, targetExists, stageOwned, result, synced, litter, outages>>
     \/ failure

MoveStageNoRollback(w) == MoveStageOr(w, Refuse(w, "publish"))  \* mutant

MoveStage(w) == MoveStageOr(w, Proceed(w, "restore"))

Restore(w) ==
  /\ at[w] = "restore"
  /\ \/ /\ MayRenameTo(target)
        /\ SetTarget(backups[w])
        /\ backups' = [backups EXCEPT ![w] = Absent]
        /\ UNCHANGED litter
     \/ /\ litter' = [litter EXCEPT ![w] = TRUE]
        /\ UNCHANGED <<target, unsynced, backups>>
  /\ UNCHANGED <<built, stages, targetExists, stageOwned, synced, outages>>
  /\ Return(w, "publish")

RemoveBackup(w) ==
  /\ at[w] = "removeBackup"
  /\ RemoveBackupThen(w, Goto(w, "syncParent") /\ UNCHANGED result, Return(w, "publish"))

(***************************************************************************)
(* syncDir of the parent makes the renames durable.                        *)
(***************************************************************************)
SyncParentLost(w) ==            \* mutant: the parent is not synced
  /\ at[w] = "syncParent"
  /\ stageOwned' = [stageOwned EXCEPT ![w] = FALSE]
  /\ Return(w, "ok")
  /\ UNCHANGED <<built, files, targetExists, synced, unsynced, litter, outages>>

SyncParent(w) ==
  /\ at[w] = "syncParent"
  /\ \/ /\ unsynced' = {}
        /\ stageOwned' = [stageOwned EXCEPT ![w] = FALSE]
        /\ Return(w, "ok")
        /\ UNCHANGED <<built, files, targetExists, synced, litter, outages>>
     \/ Refuse(w, "publish")

(***************************************************************************)
(* The deferred cleanup.                                                   *)
(***************************************************************************)
CleanupForgotten(w) ==          \* mutant: the stage is given up
  at[w] = "cleanup" /\ Proceed(w, "returned")

Cleanup(w) ==
  /\ at[w] = "cleanup"
  /\ \/ /\ stages' = [stages EXCEPT ![w] = Absent]
        /\ UNCHANGED litter
     \/ /\ \E rest \in Remnants(stages[w]) : stages' = [stages EXCEPT ![w] = rest]
        /\ litter' = [litter EXCEPT ![w] = TRUE]
  /\ Goto(w, "returned")
  /\ UNCHANGED <<built, target, backups, targetExists, stageOwned, result, synced,
                 unsynced, outages>>

-------------------------------------------------------------------------------
(***************************************************************************)
(* Failures.  A run that crashes leaves its directories as they are.  A    *)
(* power loss ends every run that has started; the target comes back as it *)
(* is or as it was since its parent was last synced, and of a directory    *)
(* that was not synced itself any entries may be gone.  The temporary      *)
(* directories of the runs it ends are never looked at again.              *)
(***************************************************************************)
Running(w) == at[w] \notin {"returned", "crashed"}

Crash(w) ==
  /\ Running(w)
  /\ Proceed(w, "crashed")

Survivors(content) ==
  IF content \in {Absent, NotDirectory} THEN {content}
  ELSE LET lost == {e \in content : \E w \in Writers : e[1] = w /\ ~synced[w]}
       IN {content \ gone : gone \in SUBSET lost}

PowerLoss ==
  /\ outages < MaxOutages
  /\ outages' = outages + 1
  /\ \E content \in unsynced \cup {target} : target' \in Survivors(content)
  /\ unsynced' = {}
  /\ at' = [w \in Writers |-> IF Running(w) /\ at[w] # "prepare" THEN "crashed" ELSE at[w]]
  /\ UNCHANGED <<built, stages, backups, targetExists, stageOwned, result, synced, litter>>

-------------------------------------------------------------------------------
Write(w) ==
  \/ Prepare(w)
  \/ LstatParent(w)
  \/ LstatTarget(w)
  \/ ReadTarget(w)
  \/ MakeStage(w)
  \/ Chmod(w)
  \/ WriteFile(w)
  \/ SyncStage(w)
  \/ Publish(w)
  \/ MakeBackup(w)
  \/ DropBackup(w)
  \/ ClearBackup(w)
  \/ MoveTarget(w)
  \/ MoveStage(w)
  \/ Restore(w)
  \/ RemoveBackup(w)
  \/ SyncParent(w)
  \/ Cleanup(w)

Next ==
  \/ \E w \in Writers : Write(w)
  \/ \E w \in Writers : Crash(w)
  \/ PowerLoss

Spec == Init /\ [][Next]_vars
===============================================================================
