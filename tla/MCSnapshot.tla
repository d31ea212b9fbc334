------------------------------ MODULE MCSnapshot ------------------------------
(***************************************************************************)
(* Instances of SnapshotProperties for TLC.                                *)
(***************************************************************************)
EXTENDS SnapshotProperties

Item(name) == [name |-> name, secret |-> FALSE, wellNamed |-> TRUE, valid |-> TRUE]

Good == <<Item("0001-0001.yaml"), Item("0002-0001.yaml")>>

GoodBundles == {Good}

AnyBundles ==
  {Good, <<>>,
   [Good EXCEPT ![1].secret = TRUE],
   [Good EXCEPT ![1].wellNamed = FALSE],
   [Good EXCEPT ![1].valid = FALSE],
   <<Good[1], Good[1]>>}

ForeignDirectory == {<<"user", "notes">>}

AnyTargets == {Absent, {}, ForeignDirectory, NotDirectory}

(***************************************************************************)
(* Any export that has the target to itself: the other run, if there is    *)
(* one, has nothing to write and is refused at once.  And two exports that *)
(* race to a target that is not there, or is not empty.  Two that find the *)
(* same empty directory are the run of NonEmptyTargetKept.                 *)
(***************************************************************************)
Alone(w, bundles) ==
  {[v \in Writers |-> IF v = w THEN b ELSE <<>>] : b \in bundles}

AllGood == [w \in Writers |-> Good]

AloneExports == UNION {Alone(w, AnyBundles) \X AnyTargets : w \in Writers}
AloneGoodExports == UNION {Alone(w, GoodBundles) \X AnyTargets : w \in Writers}
RacingExports == {AllGood} \X {Absent, ForeignDirectory}
AllExports == AloneExports \cup RacingExports
SharedEmptyTarget == {AllGood} \X {{}}

(***************************************************************************)
(* The hypothesis of the theorems about refusals and atomicity is true of  *)
(* every run but the one that shows that they need it.                     *)
(***************************************************************************)
ASSUME HypothesisAssumption == Exports # SharedEmptyTarget => Uncontended
===============================================================================
