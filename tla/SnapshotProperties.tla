-------------------------- MODULE SnapshotProperties --------------------------
(***************************************************************************)
(* What is checked of snapshot.Writer.                                     *)
(***************************************************************************)
EXTENDS SnapshotWriter

Nothing == Absent

Vacant == target \in {Absent, {}}

Foreign == {content \in InitialTargets : content \notin {Absent, {}}}

(* A bundle that is an exact copy of its Scenarios, each in a file of its own. *)
Publishable(w) ==
  /\ \A i \in DOMAIN built[w] :
       ~built[w][i].secret /\ built[w][i].wellNamed /\ built[w][i].valid
  /\ built[w] # <<>> /\ Cardinality(Bundle(w)) = Len(built[w])

Returned(w) == at[w] = "returned"

(***************************************************************************)
(* The variables hold values of their types (Writer.Write's locals, and    *)
(* the directories it touches).                                            *)
(***************************************************************************)
TypeOK ==
  /\ at \in [Writers -> Points]
  /\ result \in [Writers -> ErrorKinds \cup {Undecided, "ok"}]
  /\ targetExists \in [Writers -> BOOLEAN] /\ stageOwned \in [Writers -> BOOLEAN]
  /\ synced \in [Writers -> BOOLEAN] /\ litter \in [Writers -> BOOLEAN]
  /\ outages \in 0..MaxOutages
  /\ DOMAIN stages = Writers /\ DOMAIN backups = Writers
  /\ \A w \in Writers :
       /\ stages[w] = Absent \/ stages[w] \subseteq Bundle(w) \cup {Torn(w)}
       /\ Returned(w) => result[w] # Undecided

(***************************************************************************)
(* "Writer publishes a complete bundle only after every policy and         *)
(* staged-write check passes" (snapshot.go:113): whoever looks at the      *)
(* target, at any moment and after any crash or power loss, finds nothing, *)
(* what was there before the exports, or one complete bundle that may be   *)
(* published.  Torn files, partial bundles and mixtures never show.        *)
(***************************************************************************)
TargetIsWhole ==
  \/ Vacant
  \/ target \in Foreign
  \/ \E w \in Writers : Publishable(w) /\ target = Bundle(w)

(***************************************************************************)
(* Write's deferred cleanup and replaceEmptyTarget's removals: a run that  *)
(* returned, whatever it answered, left no temporary directory beside the  *)
(* target, unless a removal or the rollback itself failed.                 *)
(***************************************************************************)
NoLitter ==
  \A w \in Writers :
    Returned(w) /\ ~litter[w] => stages[w] = Absent /\ backups[w] = Absent

(***************************************************************************)
(* A refusal loses nothing: when a run is refused and the machine stays    *)
(* up, the target is vacant or foreign exactly as before, or holds the     *)
(* complete bundle of whichever run claimed it; only a failed rollback of  *)
(* replaceEmptyTarget leaves the empty directory under the backup name.    *)
(***************************************************************************)
RefusedLeavesTarget ==
  \A w \in Writers :
    Returned(w) /\ result[w] # "ok" /\ outages = 0 =>
      \/ \E v \in Writers : target = Bundle(v) /\ (v = w => result[w] = "publish")
      \/ target = Absent /\ (targetExists[w] => litter[w] /\ backups[w] = {})
      \/ target = {} \/ target \in Foreign

(***************************************************************************)
(* Write implements AtomicExport, the empty directory, the absent one and  *)
(* the window of replaceEmptyTarget between them all being "nothing".      *)
(***************************************************************************)
A == INSTANCE AtomicExport WITH
       order     <- [w \in Writers |-> Bundle(w)],
       forbidden <- {w \in Writers : ~Publishable(w)},
       visible   <- IF Vacant THEN Nothing ELSE target,
       answer    <- result

ImplementsAtomicExport == A!Spec

-------------------------------------------------------------------------------
(***************************************************************************)
(* What makes TargetIsWhole and NoLitter inductive.  A bundle that is or   *)
(* was at the target is synced, so that a power loss takes nothing from    *)
(* it; a writer comes to claim the target only with all of its bundle      *)
(* staged; and the temporary directories are where its next call tells.    *)
(***************************************************************************)
Whole ==
  {Absent, {}} \cup Foreign
    \cup {Bundle(w) : w \in {v \in Writers : Publishable(v) /\ synced[v]}}

Writable(items) == items # <<>> /\ Refused(items) = {}
Accepted(w) == Writable(built[w])

Beginning == {"lstatParent", "lstatTarget", "readTarget", "makeStage"}
Claiming  == {"publish", "makeBackup", "dropBackup", "moveTarget", "moveStage"}

Staging(w) ==
  /\ at[w] \in Beginning \cup {"chmod", "write"} => Accepted(w)
  /\ at[w] = "chmod" => stages[w] = {}
  /\ at[w] = "write" =>
       /\ IsFiniteSet(stages[w])
       /\ Cardinality(stages[w]) < Len(built[w])
       /\ stages[w] = {File(w, i) : i \in 1..Cardinality(stages[w])}
  /\ at[w] \in {"syncStage"} \cup Claiming => Publishable(w) /\ stages[w] = Bundle(w)
  /\ at[w] \in Claiming => synced[w]
  /\ at[w] \in {"moveStage", "restore"} => backups[w] \in Whole

Tidying(w) ==
  /\ at[w] \in {"prepare"} \cup Beginning =>
       ~stageOwned[w] /\ stages[w] = Absent /\ backups[w] = Absent
  /\ at[w] \in {"chmod", "write", "syncStage", "removeBackup", "restore"} \cup Claiming
       \cup {"clearBackup"} => stageOwned[w]
  /\ at[w] \in {"chmod", "write", "syncStage", "publish", "makeBackup", "moveTarget",
               "syncParent"} => backups[w] = Absent
  /\ at[w] \in {"removeBackup", "syncParent"} => stages[w] = Absent
  /\ at[w] \in {"cleanup", "returned"} /\ ~litter[w] => backups[w] = Absent
  /\ at[w] = "returned" /\ ~litter[w] => stages[w] = Absent
  /\ at[w] = "cleanup" => result[w] # Undecided

IInv ==
  /\ TypeOK
  /\ built \in [Writers -> Bundles]
  /\ target \in Whole
  /\ unsynced \subseteq Whole
  /\ \A w \in Writers : Staging(w) /\ Tidying(w)

-------------------------------------------------------------------------------
(***************************************************************************)
(* Two exports that find the same empty directory may each move it aside,  *)
(* and the second then moves the bundle of the first (the run of           *)
(* NonEmptyTargetKept).  Without that, RefusedLeavesTarget and             *)
(* ImplementsAtomicExport hold, by an invariant of its own: only the one   *)
(* export that may write moves an empty target, and while it does nobody   *)
(* else changes the target; until the parent is synced a power loss can    *)
(* only bring back a vacant target; and who put a bundle at the target has *)
(* yet to answer, or answered "ok" or "publish".                           *)
(***************************************************************************)
Uncontended ==
  \A export \in Exports :
    export[2] = {} =>
      \A v, w \in Writers : Writable(export[1][v]) /\ Writable(export[1][w]) => v = w

Sole == \A v, w \in Writers : Accepted(v) /\ Accepted(w) => v = w

Unseen   == {"prepare", "lstatParent", "lstatTarget", "readTarget"}
Holding  == {"makeStage", "chmod", "write", "syncStage", "makeBackup", "dropBackup",
             "clearBackup", "moveTarget"}
Swapping == {"makeBackup", "dropBackup", "clearBackup", "moveTarget", "moveStage",
             "restore", "removeBackup"}
Claimed  == {"removeBackup", "syncParent"}
Answered == {"cleanup", "returned"}

Unsettled ==
  /\ ~Sole => target # {} /\ {} \notin unsynced
  /\ unsynced \subseteq {Absent, {}}
  /\ unsynced # {} => Vacant \/ \E w \in Writers : target = Bundle(w) /\ result[w] # "ok"

Claim(w) ==
  /\ ~Accepted(w) => at[w] \in {"prepare", "returned", "crashed"}
  /\ targetExists[w] => Sole /\ Accepted(w)
  /\ at[w] \in Unseen => ~targetExists[w]
  /\ at[w] \in Swapping => targetExists[w]
  /\ at[w] \notin Answered \cup {"crashed"} => result[w] = Undecided
  /\ at[w] \in Holding /\ targetExists[w] => target = {}
  /\ at[w] \in {"moveStage", "restore"} => target = Absent /\ backups[w] = {}
  /\ at[w] \in Claimed => target = Bundle(w)
  /\ outages = 0 /\ target = Bundle(w) /\ ~Vacant /\ target \notin Foreign =>
       \/ at[w] \in Claimed \cup {"crashed"}
       \/ at[w] \in Answered /\ result[w] \in {"publish", "ok"}
  /\ outages = 0 /\ target = Absent /\ targetExists[w] =>
       \/ at[w] \in {"moveStage", "restore", "crashed"}
       \/ at[w] \in Answered /\ litter[w] /\ backups[w] = {}

CInv == Unsettled /\ \A w \in Writers : Claim(w)

-------------------------------------------------------------------------------
(***************************************************************************)
(* "Existing non-empty targets and all symlinks are refused."              *)
(* (snapshot.go:135): while the machine is up, no step of any run changes  *)
(* a target that is not vacant.                                            *)
(***************************************************************************)
NonEmptyTargetKept ==
  [][~Vacant /\ outages' = outages => target' = target]_vars

(***************************************************************************)
(* "ErrorKindPublish identifies failure to atomically claim the target."   *)
(* (snapshot.go:42): a run that returned it has not claimed the target.    *)
(***************************************************************************)
PublishErrorMeansUnclaimed ==
  \A w \in Writers : Returned(w) /\ result[w] = "publish" => target # Bundle(w)
===============================================================================
