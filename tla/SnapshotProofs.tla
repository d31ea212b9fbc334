---------------------------- MODULE SnapshotProofs -----------------------------
(***************************************************************************)
(* Proofs that snapshot.Writer.Write keeps its types, never lets anything  *)
(* but a whole bundle be seen at the target, and leaves nothing behind,    *)
(* for any number of runs at once, any bundles and any number of power     *)
(* losses; and that it implements AtomicExport, and a refusal loses        *)
(* nothing, as long as no two exports find the same empty directory.       *)
(***************************************************************************)
EXTENDS SnapshotProperties, TLAPS, FiniteSetTheorems

-------------------------------------------------------------------------------
(***************************************************************************)
(* The invariant, taken apart: the shapes of the variables, what it says   *)
(* of one writer, and what a step of that writer leaves alone.             *)
(***************************************************************************)
Shapes ==
  /\ at \in [Writers -> Points]
  /\ result \in [Writers -> ErrorKinds \cup {Undecided, "ok"}]
  /\ targetExists \in [Writers -> BOOLEAN] /\ stageOwned \in [Writers -> BOOLEAN]
  /\ synced \in [Writers -> BOOLEAN] /\ litter \in [Writers -> BOOLEAN]
  /\ outages \in 0..MaxOutages
  /\ DOMAIN stages = Writers /\ DOMAIN backups = Writers

Staged(w) ==
  /\ stages[w] = Absent \/ stages[w] \subseteq Bundle(w) \cup {Torn(w)}
  /\ Returned(w) => result[w] # Undecided

Local(w) == Staged(w) /\ Staging(w) /\ Tidying(w)

Others(w) ==
  /\ built' = built
  /\ \A v \in Writers \ {w} :
       /\ at'[v] = at[v] /\ result'[v] = result[v] /\ litter'[v] = litter[v]
       /\ stages'[v] = stages[v] /\ backups'[v] = backups[v]
       /\ stageOwned'[v] = stageOwned[v] /\ synced'[v] = synced[v]

(* The two ways to say the invariant. *)
LEMMA Parts ==
  IInv <=> /\ Shapes
           /\ built \in [Writers -> Bundles]
           /\ target \in Whole /\ unsynced \subseteq Whole
           /\ \A w \in Writers : Local(w)
BY DEF IInv, TypeOK, Shapes, Local, Staged

(* A bundle that was whole stays whole: nothing is ever unsynced again. *)
LEMMA WholeGrows ==
  ASSUME built' = built, \A w \in Writers : synced[w] => synced'[w]
  PROVE  Whole \subseteq Whole'
<1>1. \A w : Bundle(w)' = Bundle(w) /\ Publishable(w)' = Publishable(w)
  BY DEF Bundle, File, Publishable
<1>2. Foreign' = Foreign
  BY DEF Foreign
<1> QED
  BY <1>1, <1>2 DEF Whole

(* What a step of one writer does not touch stays true of the others. *)
LEMMA OthersKeep ==
  ASSUME NEW w \in Writers, Others(w), Whole \subseteq Whole',
         NEW v \in Writers \ {w}, Local(v)
  PROVE  Local(v)'
<1>1. /\ at'[v] = at[v] /\ result'[v] = result[v] /\ litter'[v] = litter[v]
      /\ stages'[v] = stages[v] /\ backups'[v] = backups[v]
      /\ stageOwned'[v] = stageOwned[v] /\ synced'[v] = synced[v]
      /\ built' = built
  BY DEF Others
<1>2. /\ Bundle(v)' = Bundle(v) /\ Publishable(v)' = Publishable(v)
      /\ Accepted(v)' = Accepted(v)
      /\ \A i : File(v, i)' = File(v, i)
  BY <1>1 DEF Bundle, File, Publishable, Accepted, Writable, Refused
<1>3. Staged(v)'
  BY <1>1, <1>2 DEF Local, Staged, Returned, Torn
<1>4. Tidying(v)'
  BY <1>1 DEF Local, Tidying
<1>5. Staging(v)'
  BY <1>1, <1>2 DEF Local, Staging
<1> QED
  BY <1>3, <1>4, <1>5 DEF Local

(* So a step keeps the invariant when it keeps what it says of its own writer. *)
LEMMA StepKeeps ==
  ASSUME IInv, NEW w \in Writers, Others(w),
         \A v \in Writers : synced[v] => synced'[v],
         Shapes', target' \in Whole', unsynced' \subseteq unsynced \cup {target},
         Local(w)'
  PROVE  IInv'
<1>1. Whole \subseteq Whole'
  BY WholeGrows DEF Others
<1>2. \A v \in Writers : Local(v)'
  BY <1>1, OthersKeep, Parts
<1>3. unsynced' \subseteq Whole'
  BY <1>1, Parts
<1>4. built' \in [Writers -> Bundles]
  BY Parts DEF Others
<1> QED
  BY <1>2, <1>3, <1>4 DEF IInv, TypeOK, Shapes, Local, Staged

-------------------------------------------------------------------------------
(***************************************************************************)
(* The moves every call is made of.                                        *)
(***************************************************************************)

(* The variables of one writer are functions, and its points are Points. *)
LEMMA ShapesHold == IInv => Shapes
BY Parts

(* Proceed changes the writer's point and nothing else. *)
LEMMA ProceedKeeps ==
  ASSUME IInv, NEW w \in Writers, NEW point \in Points, Proceed(w, point), Local(w)'
  PROVE  IInv'
<1>1. /\ Others(w) /\ target' = target /\ unsynced' = unsynced
      /\ synced' = synced
  BY ShapesHold DEF Proceed, Goto, Others, Shapes, files
<1>2. Shapes'
  BY ShapesHold DEF Proceed, Goto, Shapes, files
<1>3. target' \in Whole'
  BY <1>1, WholeGrows, Parts DEF Others
<1> QED
  BY <1>1, <1>2, <1>3, StepKeeps

(* Return sets the result, and goes to the cleanup if there is one to make. *)
LEMMA ReturnMoves ==
  ASSUME Shapes, NEW w \in Writers, NEW kind \in ErrorKinds \cup {"ok"}, Return(w, kind)
  PROVE  /\ result'[w] = kind /\ result'[w] # Undecided
         /\ \A v \in Writers \ {w} : result'[v] = result[v] /\ at'[v] = at[v]
         /\ at' \in [Writers -> Points]
         /\ result' \in [Writers -> ErrorKinds \cup {Undecided, "ok"}]
         /\ at'[w] = IF stageOwned'[w] THEN "cleanup" ELSE "returned"
BY DEF Shapes, Return, Goto, Points, ErrorKinds, Undecided

(* A refusal keeps the invariant where no backup is left, and a stage only if owned. *)
LEMMA RefuseKeeps ==
  ASSUME IInv, NEW w \in Writers, NEW kind \in ErrorKinds, Refuse(w, kind),
         litter[w] \/ backups[w] = Absent,
         litter[w] \/ stageOwned[w] \/ stages[w] = Absent
  PROVE  IInv'
<1>1. /\ built' = built /\ target' = target /\ unsynced' = unsynced
      /\ stages' = stages /\ backups' = backups /\ stageOwned' = stageOwned
      /\ synced' = synced /\ litter' = litter /\ outages' = outages
      /\ targetExists' = targetExists
      /\ Return(w, kind)
  BY DEF Refuse, files
<1>2. /\ Shapes /\ Local(w)
  BY Parts
<1>3. /\ result'[w] # Undecided
      /\ \A v \in Writers \ {w} : result'[v] = result[v] /\ at'[v] = at[v]
      /\ at' \in [Writers -> Points]
      /\ result' \in [Writers -> ErrorKinds \cup {Undecided, "ok"}]
      /\ at'[w] = IF stageOwned[w] THEN "cleanup" ELSE "returned"
  BY <1>1, <1>2, ReturnMoves
<1>4. Others(w)
  BY <1>1, <1>3 DEF Others
<1>5. Shapes'
  BY <1>1, <1>2, <1>3 DEF Shapes
<1>6. target' \in Whole'
  BY <1>1, WholeGrows, Parts
<1>7. Staged(w)'
  BY <1>1, <1>2, <1>3 DEF Local, Staged, Returned, Bundle, File, Torn
<1>8. Staging(w)'
  BY <1>3 DEF Staging, Beginning, Claiming
<1>9. Tidying(w)'
  BY <1>1, <1>3 DEF Tidying, Beginning, Claiming
<1> QED
  BY <1>1, <1>4, <1>5, <1>6, <1>7, <1>8, <1>9, StepKeeps DEF Local

-------------------------------------------------------------------------------
(***************************************************************************)
(* Preparation and staging.                                                *)
(***************************************************************************)

(* In a bundle that is accepted every file has a name of its own. *)
LEMMA AcceptedNames ==
  ASSUME IInv, NEW w \in Writers, Accepted(w)
  PROVE  /\ Len(built[w]) \in Nat \ {0} /\ DOMAIN built[w] = 1..Len(built[w])
         /\ \A i \in DOMAIN built[w] :
              ~built[w][i].secret /\ built[w][i].wellNamed /\ built[w][i].valid
         /\ \A i, j \in DOMAIN built[w] : File(w, i) = File(w, j) => i = j
<1>1. built[w] \in Bundles
  BY Parts
<1>2. /\ Len(built[w]) \in Nat /\ DOMAIN built[w] = 1..Len(built[w])
      /\ built[w] # <<>> => Len(built[w]) # 0
  BY <1>1, BundlesAssumption
<1>3. \A i \in DOMAIN built[w] : ItemRefusal(built[w], i) = Undecided
  BY DEF Accepted, Writable, Refused
<1>4. \A i \in DOMAIN built[w] :
        /\ ~built[w][i].secret /\ built[w][i].wellNamed /\ built[w][i].valid
        /\ \A j \in 1..(i - 1) : built[w][j].name # built[w][i].name
  BY <1>3 DEF ItemRefusal, Undecided
<1>5. ASSUME NEW i \in DOMAIN built[w], NEW j \in DOMAIN built[w], i < j
      PROVE  File(w, i) # File(w, j)
  <2>1. i \in 1..(j - 1)
    BY <1>2, <1>5
  <2> QED
    BY <1>4, <2>1 DEF File
<1>6. ASSUME NEW i \in DOMAIN built[w], NEW j \in DOMAIN built[w],
             File(w, i) = File(w, j)
      PROVE  i = j
  BY <1>2, <1>5, <1>6
<1> QED
  BY <1>2, <1>4, <1>6 DEF Accepted, Writable

(* prepareEntries goes on only with a bundle that may be written. *)
LEMMA PrepareKeeps == ASSUME IInv, NEW w \in Writers, Prepare(w) PROVE IInv'
<1>1. /\ at[w] = "prepare" /\ Local(w)
  BY Parts DEF Prepare
<1>2. ~stageOwned[w] /\ stages[w] = Absent /\ backups[w] = Absent
  BY <1>1 DEF Local, Tidying
<1>3. CASE built[w] = <<>> /\ Refuse(w, "policy")
  BY <1>2, <1>3, RefuseKeeps DEF ErrorKinds
<1>4. CASE Accepted(w) /\ Proceed(w, "lstatParent")
  <2>1. /\ at'[w] = "lstatParent" /\ built' = built /\ stages' = stages
        /\ backups' = backups /\ stageOwned' = stageOwned
    BY <1>4, ShapesHold DEF Proceed, Goto, Shapes, files
  <2>2. Accepted(w)'
    BY <1>4, <2>1 DEF Accepted, Writable, Refused, ItemRefusal
  <2>3. Local(w)'
    BY <1>1, <1>2, <2>1, <2>2
    DEF Local, Staged, Staging, Tidying, Returned, Beginning, Claiming
  <2> QED
    BY <1>4, <2>3, ProceedKeeps DEF Points
<1>5. ASSUME NEW i \in Refused(built[w]), Refuse(w, ItemRefusal(built[w], i))
      PROVE  IInv'
  <2>1. ItemRefusal(built[w], i) \in ErrorKinds
    BY <1>5 DEF Refused, ItemRefusal, ErrorKinds, Undecided
  <2> QED
    BY <1>2, <1>5, <2>1, RefuseKeeps
<1> QED
  BY <1>3, <1>4, <1>5 DEF Prepare, Accepted, Writable

(* Looking at the parent and at the target changes nothing but the point. *)
LEMMA LookKeeps ==
  ASSUME IInv, NEW w \in Writers, at[w] \in {"lstatParent", "lstatTarget"},
         \/ \E point \in {"lstatTarget", "readTarget", "makeStage"} : Proceed(w, point)
         \/ Refuse(w, "destination")
  PROVE  IInv'
<1>1. Local(w) /\ Accepted(w)
  BY Parts DEF Local, Staging, Beginning
<1>2. ~stageOwned[w] /\ stages[w] = Absent /\ backups[w] = Absent
  BY <1>1 DEF Local, Tidying, Beginning
<1>3. CASE Refuse(w, "destination")
  BY <1>2, <1>3, RefuseKeeps DEF ErrorKinds
<1>4. ASSUME NEW point \in {"lstatTarget", "readTarget", "makeStage"}, Proceed(w, point)
      PROVE  IInv'
  <2>1. /\ at'[w] = point /\ built' = built /\ stages' = stages
        /\ backups' = backups /\ stageOwned' = stageOwned
    BY <1>4, ShapesHold DEF Proceed, Goto, Shapes, files
  <2>2. Accepted(w)'
    BY <1>1, <2>1 DEF Accepted, Writable, Refused, ItemRefusal
  <2>3. Local(w)'
    BY <1>1, <1>2, <2>1, <2>2
    DEF Local, Staged, Staging, Tidying, Returned, Beginning, Claiming
  <2> QED
    BY <1>4, <2>3, ProceedKeeps DEF Points
<1> QED
  BY <1>3, <1>4

(* The two Lstats do just that. *)
LEMMA LstatKeeps ==
  ASSUME IInv, NEW w \in Writers, LstatParent(w) \/ LstatTarget(w)
  PROVE  IInv'
BY LookKeeps DEF LstatParent, LstatTarget

(* validateTarget finds the target empty, or refuses it. *)
LEMMA ReadTargetKeeps == ASSUME IInv, NEW w \in Writers, ReadTarget(w) PROVE IInv'
<1>1. Local(w) /\ Accepted(w) /\ Shapes
  BY Parts DEF Local, Staging, Beginning, ReadTarget
<1>2. ~stageOwned[w] /\ stages[w] = Absent /\ backups[w] = Absent
  BY <1>1 DEF Local, Tidying, Beginning, ReadTarget
<1>3. CASE Refuse(w, "destination")
  BY <1>2, <1>3, RefuseKeeps DEF ErrorKinds
<1>4. CASE ~Refuse(w, "destination")
  <2>1. /\ targetExists' = [targetExists EXCEPT ![w] = TRUE]
        /\ at' = [at EXCEPT ![w] = "makeStage"]
        /\ UNCHANGED <<built, target, stages, backups, stageOwned, result, synced,
                       unsynced, litter, outages>>
    BY <1>4 DEF ReadTarget, Goto, files
  <2>2. Shapes' /\ at'[w] = "makeStage"
    BY <1>1, <2>1 DEF Shapes, Points
  <2>3. Others(w)
    BY <1>1, <2>1 DEF Others, Shapes
  <2>4. Accepted(w)'
    BY <1>1, <2>1 DEF Accepted, Writable, Refused, ItemRefusal
  <2>5. Local(w)'
    BY <1>1, <1>2, <2>1, <2>2, <2>4
    DEF Local, Staged, Staging, Tidying, Returned, Beginning, Claiming
  <2>6. target' \in Whole'
    BY <2>1, WholeGrows, Parts
  <2> QED
    BY <2>1, <2>2, <2>3, <2>5, <2>6, StepKeeps
<1> QED
  BY <1>3, <1>4

(* The stage is owned as soon as it is made. *)
LEMMA MakeStageKeeps == ASSUME IInv, NEW w \in Writers, MakeStage(w) PROVE IInv'
<1>1. Local(w) /\ Accepted(w) /\ Shapes
  BY Parts DEF Local, Staging, Beginning, MakeStage
<1>2. ~stageOwned[w] /\ stages[w] = Absent /\ backups[w] = Absent
  BY <1>1 DEF Local, Tidying, Beginning, MakeStage
<1>3. CASE Refuse(w, "stage")
  BY <1>2, <1>3, RefuseKeeps DEF ErrorKinds
<1>4. CASE ~Refuse(w, "stage")
  <2>1. /\ stages' = [stages EXCEPT ![w] = {}]
        /\ stageOwned' = [stageOwned EXCEPT ![w] = TRUE]
        /\ at' = [at EXCEPT ![w] = "chmod"]
        /\ UNCHANGED <<built, target, backups, targetExists, result, synced,
                       unsynced, litter, outages>>
    BY <1>4 DEF MakeStage, Goto
  <2>2. Shapes' /\ at'[w] = "chmod" /\ stages'[w] = {} /\ stageOwned'[w]
    BY <1>1, <2>1 DEF Shapes, Points
  <2>3. Others(w)
    BY <1>1, <2>1 DEF Others, Shapes
  <2>4. Accepted(w)'
    BY <1>1, <2>1 DEF Accepted, Writable, Refused, ItemRefusal
  <2>5. Local(w)'
    BY <1>1, <1>2, <2>1, <2>2, <2>4
    DEF Local, Staged, Staging, Tidying, Returned, Beginning, Claiming
  <2>6. target' \in Whole'
    BY <2>1, WholeGrows, Parts
  <2> QED
    BY <2>1, <2>2, <2>3, <2>5, <2>6, StepKeeps
<1> QED
  BY <1>3, <1>4

(* The first file is written to an empty stage. *)
LEMMA ChmodKeeps == ASSUME IInv, NEW w \in Writers, Chmod(w) PROVE IInv'
<1>1. Local(w) /\ Accepted(w) /\ Shapes /\ stages[w] = {} /\ stageOwned[w]
      /\ backups[w] = Absent
  BY Parts DEF Local, Staging, Tidying, Chmod
<1>2. CASE Refuse(w, "stage")
  BY <1>1, <1>2, RefuseKeeps DEF ErrorKinds
<1>3. CASE Proceed(w, "write")
  <2>1. /\ at'[w] = "write" /\ built' = built /\ stages' = stages
        /\ backups' = backups /\ stageOwned' = stageOwned
    BY <1>1, <1>3 DEF Proceed, Goto, Shapes, files
  <2>2. Accepted(w)'
    BY <1>1, <2>1 DEF Accepted, Writable, Refused, ItemRefusal
  <2>3. IsFiniteSet(stages'[w]) /\ Cardinality(stages'[w]) = 0
    BY <1>1, <2>1, FS_EmptySet
  <2>4. /\ Cardinality(stages'[w]) < Len(built'[w])
        /\ stages'[w] = {File(w, i)' : i \in 1..Cardinality(stages'[w])}
    <3>1. 1..0 = {}
      OBVIOUS
    <3>2. {File(w, i)' : i \in 1..0} = {}
      BY <3>1
    <3>3. Len(built'[w]) \in Nat \ {0}
      BY <1>1, <2>1, AcceptedNames
    <3>4. 0 < Len(built'[w])
      BY <3>3
    <3> QED
      BY <1>1, <2>1, <2>3, <3>2, <3>4
  <2>5. Staging(w)'
    BY <2>1, <2>2, <2>3, <2>4 DEF Staging, Beginning, Claiming
  <2>6. Local(w)'
    BY <1>1, <2>1, <2>5 DEF Local, Staged, Tidying, Returned, Beginning, Claiming
  <2> QED
    BY <1>3, <2>6, ProceedKeeps DEF Points
<1> QED
  BY <1>2, <1>3 DEF Chmod

(* Each file is a new one, so that the last one makes the stage the bundle. *)
LEMMA WriteFileKeeps == ASSUME IInv, NEW w \in Writers, WriteFile(w) PROVE IInv'
<1> DEFINE n == Cardinality(stages[w])
           i == n + 1
<1>1. Local(w) /\ Accepted(w) /\ Shapes /\ at[w] = "write"
  BY Parts DEF Local, Staging, WriteFile
<1>2. /\ IsFiniteSet(stages[w]) /\ n < Len(built[w])
      /\ stages[w] = {File(w, k) : k \in 1..n}
      /\ stageOwned[w] /\ backups[w] = Absent
  BY <1>1 DEF Local, Staging, Tidying
<1>3. /\ Len(built[w]) \in Nat \ {0} /\ DOMAIN built[w] = 1..Len(built[w])
      /\ \A k \in DOMAIN built[w] :
           ~built[w][k].secret /\ built[w][k].wellNamed /\ built[w][k].valid
      /\ \A k, l \in DOMAIN built[w] : File(w, k) = File(w, l) => k = l
  BY <1>1, AcceptedNames
<1>4. n \in Nat
  BY <1>2, FS_CardinalityType
<1>5. /\ UNCHANGED <<built, target, backups, targetExists, synced, unsynced, litter,
                     outages>>
      /\ stageOwned' = stageOwned
  BY DEF WriteFile
<1>6. target' \in Whole'
  BY <1>5, WholeGrows, Parts
<1>7. ASSUME Others(w), Shapes', Local(w)' PROVE IInv'
  BY <1>5, <1>6, <1>7, StepKeeps
<1>8. \A k : File(w, k)' = File(w, k)
  BY <1>5 DEF File
<1>9. CASE /\ stages' = [stages EXCEPT ![w] = @ \cup {File(w, i)}]
           /\ Goto(w, IF i = Len(built[w]) THEN "syncStage" ELSE "write")
           /\ UNCHANGED <<stageOwned, result>>
  <2>1. /\ Shapes' /\ Others(w)
        /\ at'[w] = IF i = Len(built[w]) THEN "syncStage" ELSE "write"
        /\ stages'[w] = stages[w] \cup {File(w, i)}
    BY <1>1, <1>5, <1>9 DEF Shapes, Others, Goto, Points
  <2>2. File(w, i) \notin stages[w]
    <3>1. SUFFICES ASSUME NEW k \in 1..n, File(w, i) = File(w, k)
                   PROVE  FALSE
      BY <1>2
    <3>2. i \in 1..Len(built[w]) /\ k \in 1..Len(built[w]) /\ k # i
      BY <1>2, <1>3, <1>4
    <3> QED
      BY <1>3, <3>1, <3>2
  <2>3. IsFiniteSet(stages'[w]) /\ Cardinality(stages'[w]) = i
    BY <1>2, <2>1, <2>2, FS_AddElement
  <2>4. stages'[w] = {File(w, k) : k \in 1..i}
    <3>1. 1..i = (1..n) \cup {i}
      BY <1>4
    <3> QED
      BY <1>2, <2>1, <3>1
  <2>5. CASE i = Len(built[w])
    <3>1. stages'[w] = Bundle(w)
      BY <1>3, <2>4, <2>5 DEF Bundle
    <3>2. Publishable(w)
      BY <1>1, <1>3, <2>3, <2>5, <3>1 DEF Publishable, Accepted, Writable
    <3>3. Bundle(w)' = Bundle(w) /\ Publishable(w)' = Publishable(w)
      BY <1>5 DEF Bundle, File, Publishable
    <3>4. Local(w)'
      BY <1>2, <1>5, <2>1, <2>5, <3>1, <3>2, <3>3
      DEF Local, Staged, Staging, Tidying, Returned, Beginning, Claiming
    <3> QED
      BY <1>7, <2>1, <3>4
  <2>6. CASE i # Len(built[w])
    <3>1. Cardinality(stages'[w]) < Len(built'[w])
      BY <1>2, <1>3, <1>4, <1>5, <2>3, <2>6
    <3>2. stages'[w] = {File(w, k)' : k \in 1..Cardinality(stages'[w])}
      BY <1>8, <2>3, <2>4
    <3>3. Accepted(w)'
      BY <1>1, <1>5 DEF Accepted, Writable, Refused, ItemRefusal
    <3>4. stages'[w] \subseteq Bundle(w)'
      BY <1>2, <1>3, <1>4, <1>5, <1>8, <2>4 DEF Bundle
    <3>5. Staging(w)'
      BY <2>1, <2>3, <2>6, <3>1, <3>2, <3>3 DEF Staging, Beginning, Claiming
    <3>6. Local(w)'
      BY <1>2, <1>5, <2>1, <2>6, <3>4, <3>5
      DEF Local, Staged, Tidying, Returned, Beginning, Claiming
    <3> QED
      BY <1>7, <2>1, <3>6
  <2> QED
    BY <2>5, <2>6
<1>10. CASE /\ stages' \in {stages, [stages EXCEPT ![w] = @ \cup {Torn(w)}]}
            /\ UNCHANGED stageOwned
            /\ Return(w, "stage")
  <2>1. /\ result'[w] # Undecided /\ at'[w] = "cleanup"
        /\ \A v \in Writers \ {w} : result'[v] = result[v] /\ at'[v] = at[v]
        /\ at' \in [Writers -> Points]
        /\ result' \in [Writers -> ErrorKinds \cup {Undecided, "ok"}]
    BY <1>1, <1>2, <1>10, ReturnMoves DEF ErrorKinds
  <2>2. Shapes' /\ Others(w) /\ stages'[w] \subseteq stages[w] \cup {Torn(w)}
    BY <1>1, <1>5, <1>10, <2>1 DEF Shapes, Others
  <2>3. stages[w] \subseteq Bundle(w)
    BY <1>2, <1>3, <1>4 DEF Bundle
  <2>4. Bundle(w)' = Bundle(w) /\ Torn(w)' = Torn(w)
    BY <1>5 DEF Bundle, File, Torn
  <2>5. Local(w)'
    BY <1>2, <1>5, <2>1, <2>2, <2>3, <2>4
    DEF Local, Staged, Staging, Tidying, Returned, Beginning, Claiming
  <2> QED
    BY <1>7, <2>2, <2>5
<1> QED
  BY <1>9, <1>10 DEF WriteFile

(* Once its directory is synced a bundle is whole. *)
LEMMA SyncStageKeeps == ASSUME IInv, NEW w \in Writers, SyncStage(w) PROVE IInv'
<1>1. /\ Local(w) /\ Shapes /\ stageOwned[w] /\ backups[w] = Absent
      /\ Publishable(w) /\ stages[w] = Bundle(w)
  BY Parts DEF Local, Staging, Tidying, SyncStage
<1>2. CASE Refuse(w, "stage")
  BY <1>1, <1>2, RefuseKeeps DEF ErrorKinds
<1>3. CASE ~Refuse(w, "stage")
  <2>1. /\ synced' = [synced EXCEPT ![w] = TRUE]
        /\ at' = [at EXCEPT ![w] = IF targetExists[w] THEN "makeBackup" ELSE "publish"]
        /\ UNCHANGED <<built, target, stages, backups, targetExists, stageOwned, result,
                       unsynced, litter, outages>>
    BY <1>3 DEF SyncStage, Goto, files
  <2>2. /\ Shapes' /\ Others(w) /\ synced'[w]
        /\ at'[w] \in {"makeBackup", "publish"}
        /\ \A v \in Writers : synced[v] => synced'[v]
    BY <1>1, <2>1 DEF Shapes, Others, Points
  <2>3. Bundle(w)' = Bundle(w) /\ Publishable(w)' = Publishable(w)
    BY <2>1 DEF Bundle, File, Publishable
  <2>4. Local(w)'
    BY <1>1, <2>1, <2>2, <2>3
    DEF Local, Staged, Staging, Tidying, Returned, Beginning, Claiming
  <2>5. target' \in Whole'
    BY <2>1, <2>2, WholeGrows, Parts
  <2> QED
    BY <2>1, <2>2, <2>4, <2>5, StepKeeps
<1> QED
  BY <1>2, <1>3

-------------------------------------------------------------------------------
(***************************************************************************)
(* Publication.                                                            *)
(***************************************************************************)

(* A run that comes to claim the target has all of its bundle staged. *)
LEMMA ClaimingHas ==
  ASSUME IInv, NEW w \in Writers, at[w] \in Claiming
  PROVE  /\ Shapes /\ Local(w) /\ stageOwned[w] /\ synced[w]
         /\ Publishable(w) /\ stages[w] = Bundle(w) /\ stages[w] \in Whole
         /\ target \in Whole /\ {} \in Whole /\ Absent \in Whole
         /\ at[w] \in {"publish", "makeBackup", "moveTarget"} => backups[w] = Absent
         /\ at[w] = "moveStage" => backups[w] \in Whole
<1>1. Shapes /\ Local(w) /\ target \in Whole
  BY Parts
<1>2. /\ stageOwned[w] /\ synced[w] /\ Publishable(w) /\ stages[w] = Bundle(w)
      /\ at[w] \in {"publish", "makeBackup", "moveTarget"} => backups[w] = Absent
      /\ at[w] = "moveStage" => backups[w] \in Whole
  BY <1>1 DEF Local, Staging, Tidying, Claiming
<1>3. stages[w] \in Whole /\ {} \in Whole /\ Absent \in Whole
  BY <1>2 DEF Whole
<1> QED
  BY <1>1, <1>2, <1>3

(* What a run's bundle is does not change, nor that it is whole. *)
LEMMA BundleStays ==
  ASSUME NEW w \in Writers, UNCHANGED <<built, synced>>
  PROVE  /\ Bundle(w)' = Bundle(w) /\ Publishable(w)' = Publishable(w)
         /\ Torn(w)' = Torn(w) /\ Whole \subseteq Whole'
<1>1. Bundle(w)' = Bundle(w) /\ Publishable(w)' = Publishable(w) /\ Torn(w)' = Torn(w)
  BY DEF Bundle, File, Publishable, Torn
<1>2. Whole \subseteq Whole'
  BY WholeGrows
<1> QED
  BY <1>1, <1>2

(* The staged bundle is what becomes visible. *)
LEMMA PublishKeeps == ASSUME IInv, NEW w \in Writers, Publish(w) PROVE IInv'
<1>1. /\ Shapes /\ Local(w) /\ stageOwned[w] /\ backups[w] = Absent
      /\ stages[w] \in Whole
  BY ClaimingHas DEF Publish, Claiming
<1>2. CASE Refuse(w, "publish")
  BY <1>1, <1>2, RefuseKeeps DEF ErrorKinds
<1>3. CASE ~Refuse(w, "publish")
  <2>1. /\ target' = stages[w] /\ unsynced' = unsynced \cup {target}
        /\ stages' = [stages EXCEPT ![w] = Absent]
        /\ stageOwned' = [stageOwned EXCEPT ![w] = FALSE]
        /\ at' = [at EXCEPT ![w] = "syncParent"]
        /\ UNCHANGED <<built, backups, targetExists, result, synced, litter, outages>>
    BY <1>3 DEF Publish, SetTarget, Goto
  <2>2. Shapes' /\ Others(w) /\ at'[w] = "syncParent" /\ stages'[w] = Absent
    BY <1>1, <2>1 DEF Shapes, Others, Points
  <2>3. Local(w)'
    BY <1>1, <2>1, <2>2
    DEF Local, Staged, Staging, Tidying, Returned, Beginning, Claiming
  <2> QED
    BY <1>1, <2>1, <2>2, <2>3, BundleStays, StepKeeps
<1> QED
  BY <1>2, <1>3

(* The backup's name is reserved with an empty directory. *)
LEMMA MakeBackupKeeps == ASSUME IInv, NEW w \in Writers, MakeBackup(w) PROVE IInv'
<1>1. /\ Shapes /\ Local(w) /\ stageOwned[w] /\ synced[w] /\ backups[w] = Absent
      /\ Publishable(w) /\ stages[w] = Bundle(w) /\ target \in Whole
  BY ClaimingHas DEF MakeBackup, Claiming
<1>2. CASE Refuse(w, "publish")
  BY <1>1, <1>2, RefuseKeeps DEF ErrorKinds
<1>3. CASE ~Refuse(w, "publish")
  <2>1. /\ backups' = [backups EXCEPT ![w] = {}]
        /\ at' = [at EXCEPT ![w] = "dropBackup"]
        /\ UNCHANGED <<built, target, stages, targetExists, stageOwned, result, synced,
                       unsynced, litter, outages>>
    BY <1>3 DEF MakeBackup, Goto
  <2>2. Shapes' /\ Others(w) /\ at'[w] = "dropBackup"
    BY <1>1, <2>1 DEF Shapes, Others, Points
  <2>3. Bundle(w)' = Bundle(w) /\ Publishable(w)' = Publishable(w) /\ Whole \subseteq Whole'
    BY <2>1, BundleStays
  <2>4. Local(w)'
    BY <1>1, <2>1, <2>2, <2>3
    DEF Local, Staged, Staging, Tidying, Returned, Beginning, Claiming
  <2> QED
    BY <1>1, <2>1, <2>2, <2>3, <2>4, StepKeeps
<1> QED
  BY <1>2, <1>3

(* And freed again before the target is moved there. *)
LEMMA DropBackupKeeps == ASSUME IInv, NEW w \in Writers, DropBackup(w) PROVE IInv'
<1>1. /\ Shapes /\ Local(w) /\ stageOwned[w] /\ synced[w]
      /\ Publishable(w) /\ stages[w] = Bundle(w) /\ target \in Whole
  BY ClaimingHas DEF DropBackup, Claiming
<1>2. CASE Proceed(w, "clearBackup")
  <2>1. /\ at'[w] = "clearBackup"
        /\ UNCHANGED <<built, stages, backups, stageOwned, result, synced>>
    BY <1>1, <1>2 DEF Proceed, Goto, Shapes, files
  <2>2. Bundle(w)' = Bundle(w)
    BY <2>1, BundleStays
  <2>3. Local(w)'
    BY <1>1, <2>1, <2>2
    DEF Local, Staged, Staging, Tidying, Returned, Beginning, Claiming
  <2> QED
    BY <1>2, <2>3, ProceedKeeps DEF Points
<1>3. CASE ~Proceed(w, "clearBackup")
  <2>1. /\ backups' = [backups EXCEPT ![w] = Absent]
        /\ at' = [at EXCEPT ![w] = "moveTarget"]
        /\ UNCHANGED <<built, target, stages, targetExists, stageOwned, result, synced,
                       unsynced, litter, outages>>
    BY <1>3 DEF DropBackup, Goto
  <2>2. Shapes' /\ Others(w) /\ at'[w] = "moveTarget" /\ backups'[w] = Absent
    BY <1>1, <2>1 DEF Shapes, Others, Points
  <2>3. Bundle(w)' = Bundle(w) /\ Publishable(w)' = Publishable(w) /\ Whole \subseteq Whole'
    BY <2>1, BundleStays
  <2>4. Local(w)'
    BY <1>1, <2>1, <2>2, <2>3
    DEF Local, Staged, Staging, Tidying, Returned, Beginning, Claiming
  <2> QED
    BY <1>1, <2>1, <2>2, <2>3, <2>4, StepKeeps
<1> QED
  BY <1>2, <1>3

(* The target moved aside is a whole one. *)
LEMMA MoveTargetKeeps == ASSUME IInv, NEW w \in Writers, MoveTarget(w) PROVE IInv'
<1>1. /\ Shapes /\ Local(w) /\ stageOwned[w] /\ synced[w] /\ backups[w] = Absent
      /\ Publishable(w) /\ stages[w] = Bundle(w) /\ target \in Whole /\ Absent \in Whole
  BY ClaimingHas DEF MoveTarget, Claiming
<1>2. CASE Refuse(w, "publish")
  BY <1>1, <1>2, RefuseKeeps DEF ErrorKinds
<1>3. CASE ~Refuse(w, "publish")
  <2>1. /\ backups' = [backups EXCEPT ![w] = target]
        /\ target' = Absent /\ unsynced' = unsynced \cup {target}
        /\ at' = [at EXCEPT ![w] = "moveStage"]
        /\ UNCHANGED <<built, stages, targetExists, stageOwned, result, synced, litter,
                       outages>>
    BY <1>3 DEF MoveTarget, SetTarget, Goto
  <2>2. Shapes' /\ Others(w) /\ at'[w] = "moveStage" /\ backups'[w] = target
    BY <1>1, <2>1 DEF Shapes, Others, Points
  <2>3. Bundle(w)' = Bundle(w) /\ Publishable(w)' = Publishable(w) /\ Whole \subseteq Whole'
    BY <2>1, BundleStays
  <2>4. Local(w)'
    BY <1>1, <2>1, <2>2, <2>3
    DEF Local, Staged, Staging, Tidying, Returned, Beginning, Claiming
  <2> QED
    BY <1>1, <2>1, <2>2, <2>3, <2>4, StepKeeps
<1> QED
  BY <1>2, <1>3

(* The staged bundle takes the target's place, or the target goes back. *)
LEMMA MoveStageKeeps == ASSUME IInv, NEW w \in Writers, MoveStage(w) PROVE IInv'
<1>1. /\ Shapes /\ Local(w) /\ stageOwned[w] /\ backups[w] \in Whole
      /\ stages[w] \in Whole /\ stages[w] = Bundle(w)
  BY ClaimingHas DEF MoveStage, MoveStageOr, Claiming
<1>2. CASE Proceed(w, "restore")
  <2>1. /\ at'[w] = "restore"
        /\ UNCHANGED <<built, stages, backups, stageOwned, result, synced>>
    BY <1>1, <1>2 DEF Proceed, Goto, Shapes, files
  <2>2. Bundle(w)' = Bundle(w) /\ Whole \subseteq Whole'
    BY <2>1, BundleStays
  <2>3. Local(w)'
    BY <1>1, <2>1, <2>2
    DEF Local, Staged, Staging, Tidying, Returned, Beginning, Claiming
  <2> QED
    BY <1>2, <2>3, ProceedKeeps DEF Points
<1>3. CASE ~Proceed(w, "restore")
  <2>1. /\ target' = stages[w] /\ unsynced' = unsynced \cup {target}
        /\ stages' = [stages EXCEPT ![w] = Absent]
        /\ at' = [at EXCEPT ![w] = "removeBackup"]
        /\ UNCHANGED <<built, backups, targetExists, stageOwned, result, synced, litter,
                       outages>>
    BY <1>3 DEF MoveStage, MoveStageOr, SetTarget, Goto
  <2>2. Shapes' /\ Others(w) /\ at'[w] = "removeBackup" /\ stages'[w] = Absent
    BY <1>1, <2>1 DEF Shapes, Others, Points
  <2>3. Local(w)'
    BY <1>1, <2>1, <2>2
    DEF Local, Staged, Staging, Tidying, Returned, Beginning, Claiming
  <2> QED
    BY <1>1, <2>1, <2>2, <2>3, BundleStays, StepKeeps
<1> QED
  BY <1>2, <1>3

(* A removed backup is gone; a removal that failed is remembered. *)
LEMMA RemoveBackupKeeps ==
  ASSUME IInv, NEW w \in Writers, ClearBackup(w) \/ RemoveBackup(w)
  PROVE  IInv'
<1>1. /\ Shapes /\ Local(w) /\ stageOwned[w] /\ target \in Whole
      /\ at[w] \in {"clearBackup", "removeBackup"}
      /\ at[w] = "removeBackup" => stages[w] = Absent
  BY Parts DEF Local, Tidying, ClearBackup, RemoveBackup
<1>2. /\ UNCHANGED <<built, target, stages, targetExists, stageOwned, synced, unsynced,
                     outages>>
      /\ backups' = [backups EXCEPT ![w] = backups'[w]]
      /\ \/ litter' = litter /\ backups'[w] = Absent
         \/ litter' = [litter EXCEPT ![w] = TRUE]
      /\ \/ Return(w, "publish")
         \/ /\ RemoveBackup(w) /\ litter' = litter /\ backups'[w] = Absent
            /\ Goto(w, "syncParent") /\ UNCHANGED result
  BY <1>1 DEF ClearBackup, RemoveBackup, RemoveBackupThen, Shapes
<1>3. Bundle(w)' = Bundle(w) /\ Torn(w)' = Torn(w) /\ Whole \subseteq Whole'
  BY <1>2, BundleStays
<1>4. CASE Return(w, "publish")
  <2>1. /\ result'[w] # Undecided /\ at'[w] = "cleanup"
        /\ \A v \in Writers \ {w} : result'[v] = result[v] /\ at'[v] = at[v]
        /\ at' \in [Writers -> Points]
        /\ result' \in [Writers -> ErrorKinds \cup {Undecided, "ok"}]
    BY <1>1, <1>2, <1>4, ReturnMoves DEF ErrorKinds
  <2>2. Shapes' /\ Others(w) /\ (litter'[w] \/ backups'[w] = Absent)
    BY <1>1, <1>2, <2>1 DEF Shapes, Others
  <2>3. Local(w)'
    BY <1>1, <1>2, <1>3, <2>1, <2>2
    DEF Local, Staged, Staging, Tidying, Returned, Beginning, Claiming
  <2> QED
    BY <1>1, <1>2, <1>3, <2>2, <2>3, StepKeeps
<1>5. CASE ~Return(w, "publish")
  <2>1. /\ Shapes' /\ Others(w) /\ at'[w] = "syncParent" /\ backups'[w] = Absent
        /\ at[w] = "removeBackup"
    BY <1>1, <1>2, <1>5 DEF Shapes, Others, Goto, Points, RemoveBackup
  <2>2. Local(w)'
    BY <1>1, <1>2, <2>1
    DEF Local, Staged, Staging, Tidying, Returned, Beginning, Claiming
  <2> QED
    BY <1>1, <1>2, <1>3, <2>1, <2>2, StepKeeps
<1> QED
  BY <1>4, <1>5

(* The rollback puts a whole target back, or leaves it under the backup's name. *)
LEMMA RestoreKeeps == ASSUME IInv, NEW w \in Writers, Restore(w) PROVE IInv'
<1>1. /\ Shapes /\ Local(w) /\ stageOwned[w] /\ target \in Whole /\ backups[w] \in Whole
  BY Parts DEF Local, Staging, Tidying, Restore
<1>2. /\ UNCHANGED <<built, stages, targetExists, stageOwned, synced, outages>>
      /\ target' \in {target, backups[w]}
      /\ unsynced' \subseteq unsynced \cup {target}
      /\ DOMAIN backups' = Writers
      /\ \A v \in Writers \ {w} : backups'[v] = backups[v]
      /\ \/ litter' = litter /\ backups'[w] = Absent
         \/ litter' = [litter EXCEPT ![w] = TRUE]
      /\ Return(w, "publish")
  BY <1>1 DEF Restore, SetTarget, Shapes
<1>3. /\ result'[w] # Undecided /\ at'[w] = "cleanup"
      /\ \A v \in Writers \ {w} : result'[v] = result[v] /\ at'[v] = at[v]
      /\ at' \in [Writers -> Points]
      /\ result' \in [Writers -> ErrorKinds \cup {Undecided, "ok"}]
  BY <1>1, <1>2, ReturnMoves DEF ErrorKinds
<1>4. Shapes' /\ Others(w) /\ (litter'[w] \/ backups'[w] = Absent)
  BY <1>1, <1>2, <1>3 DEF Shapes, Others
<1>5. Bundle(w)' = Bundle(w) /\ Torn(w)' = Torn(w) /\ Whole \subseteq Whole'
  BY <1>2, BundleStays
<1>6. Local(w)'
  BY <1>1, <1>2, <1>3, <1>4, <1>5
  DEF Local, Staged, Staging, Tidying, Returned, Beginning, Claiming
<1> QED
  BY <1>1, <1>2, <1>4, <1>5, <1>6, StepKeeps

(* The last sync of a run that has nothing left to tidy up. *)
LEMMA SyncParentKeeps == ASSUME IInv, NEW w \in Writers, SyncParent(w) PROVE IInv'
<1>1. /\ Shapes /\ Local(w) /\ target \in Whole
      /\ stages[w] = Absent /\ backups[w] = Absent
  BY Parts DEF Local, Tidying, SyncParent
<1>2. CASE Refuse(w, "publish")
  BY <1>1, <1>2, RefuseKeeps DEF ErrorKinds
<1>3. CASE ~Refuse(w, "publish")
  <2>1. /\ unsynced' = {} /\ stageOwned' = [stageOwned EXCEPT ![w] = FALSE]
        /\ UNCHANGED <<built, target, stages, backups, targetExists, synced, litter,
                       outages>>
        /\ Return(w, "ok")
    BY <1>3 DEF SyncParent, files
  <2>2. ~stageOwned'[w]
    BY <1>1, <2>1 DEF Shapes
  <2>3. /\ result'[w] # Undecided /\ at'[w] = "returned"
        /\ \A v \in Writers \ {w} : result'[v] = result[v] /\ at'[v] = at[v]
        /\ at' \in [Writers -> Points]
        /\ result' \in [Writers -> ErrorKinds \cup {Undecided, "ok"}]
    BY <1>1, <2>1, <2>2, ReturnMoves
  <2>4. Shapes' /\ Others(w)
    BY <1>1, <2>1, <2>3 DEF Shapes, Others
  <2>5. Local(w)'
    BY <1>1, <2>1, <2>3
    DEF Local, Staged, Staging, Tidying, Returned, Beginning, Claiming
  <2> QED
    BY <1>1, <2>1, <2>4, <2>5, BundleStays, StepKeeps
<1> QED
  BY <1>2, <1>3

(* The deferred cleanup removes the stage, or its failure is remembered. *)
LEMMA CleanupKeeps == ASSUME IInv, NEW w \in Writers, Cleanup(w) PROVE IInv'
<1>1. /\ Shapes /\ Local(w) /\ target \in Whole /\ result[w] # Undecided
      /\ litter[w] \/ backups[w] = Absent
  BY Parts DEF Local, Tidying, Cleanup
<1>2. /\ UNCHANGED <<built, target, backups, targetExists, stageOwned, result, synced,
                     unsynced, outages>>
      /\ at' = [at EXCEPT ![w] = "returned"]
      /\ stages' = [stages EXCEPT ![w] = stages'[w]]
      /\ \/ litter' = litter /\ stages'[w] = Absent
         \/ /\ litter' = [litter EXCEPT ![w] = TRUE]
            /\ stages[w] # Absent /\ stages'[w] \subseteq stages[w]
  BY <1>1 DEF Cleanup, Goto, Remnants, Shapes
<1>3. Shapes' /\ Others(w) /\ at'[w] = "returned"
  BY <1>1, <1>2 DEF Shapes, Others, Points
<1>4. Bundle(w)' = Bundle(w) /\ Torn(w)' = Torn(w) /\ Whole \subseteq Whole'
  BY <1>2, BundleStays
<1>5. Staged(w)'
  BY <1>1, <1>2, <1>4 DEF Local, Staged
<1>6. Local(w)'
  BY <1>1, <1>2, <1>3, <1>5 DEF Local, Shapes, Staging, Tidying, Beginning, Claiming
<1> QED
  BY <1>1, <1>2, <1>3, <1>4, <1>6, StepKeeps

-------------------------------------------------------------------------------
(***************************************************************************)
(* Failures.                                                               *)
(***************************************************************************)

(* A crash leaves everything where it is. *)
LEMMA CrashKeeps == ASSUME IInv, NEW w \in Writers, Crash(w) PROVE IInv'
<1>1. Local(w) /\ Shapes
  BY Parts
<1>2. at'[w] = "crashed" /\ UNCHANGED <<built, stages, synced>>
  BY <1>1 DEF Crash, Proceed, Goto, Shapes, files
<1>3. Local(w)'
  BY <1>1, <1>2, BundleStays
  DEF Local, Staged, Staging, Tidying, Returned, Beginning, Claiming
<1> QED
  BY <1>3, ProceedKeeps DEF Crash, Points

(* A power loss takes nothing from what is synced or foreign. *)
LEMMA WholeSurvives == ASSUME NEW content \in Whole PROVE Survivors(content) = {content}
<1>1. CASE content \in {Absent, NotDirectory}
  BY <1>1 DEF Survivors
<1>2. CASE content \notin {Absent, NotDirectory}
  <2> DEFINE lost == {e \in content : \E w \in Writers : e[1] = w /\ ~synced[w]}
  <2>1. lost = {}
    <3>1. CASE content = {}
      BY <3>1
    <3>2. CASE content \in Foreign
      BY <1>2, <3>2, ForeignAssumption DEF Foreign
    <3>3. CASE \E v \in Writers : synced[v] /\ content = Bundle(v)
      BY <3>3 DEF Bundle, File
    <3> QED
      BY <1>2, <3>1, <3>2, <3>3 DEF Whole
  <2>2. Survivors(content) = {content \ gone : gone \in SUBSET lost}
    BY <1>2 DEF Survivors
  <2>3. SUBSET lost = {{}}
    BY <2>1
  <2>4. content \ {} = content
    OBVIOUS
  <2> QED
    BY <2>2, <2>3, <2>4
<1> QED
  BY <1>1, <1>2

(* So a power loss shows a whole target, and ends the runs that had started. *)
LEMMA PowerLossKeeps == ASSUME IInv, PowerLoss PROVE IInv'
<1>1. Shapes /\ target \in Whole /\ unsynced \subseteq Whole
  BY Parts
<1>2. /\ UNCHANGED <<built, stages, backups, targetExists, stageOwned, result, synced,
                     litter>>
      /\ unsynced' = {}
      /\ at' = [w \in Writers |-> IF Running(w) /\ at[w] # "prepare" THEN "crashed"
                                  ELSE at[w]]
  BY DEF PowerLoss
<1>3. outages' \in 0..MaxOutages
  BY <1>1, BundlesAssumption DEF PowerLoss, Shapes
<1>4. Shapes'
  BY <1>1, <1>2, <1>3 DEF Shapes, Points
<1>5. target' \in Whole
  BY <1>1, WholeSurvives DEF PowerLoss
<1>6. target' \in Whole'
  BY <1>2, <1>5, WholeGrows
<1>7. ASSUME NEW w \in Writers PROVE Local(w)'
  <2>1. Local(w)
    BY Parts
  <2>2. at'[w] = "crashed" \/ (at'[w] = at[w] /\ at[w] \in {"prepare", "returned", "crashed"})
    BY <1>2 DEF Running
  <2> QED
    BY <1>2, <2>1, <2>2, BundleStays
    DEF Local, Staged, Staging, Tidying, Returned, Beginning, Claiming
<1>8. built' \in [Writers -> Bundles]
  BY <1>2, Parts
<1> QED
  BY <1>2, <1>4, <1>6, <1>7, <1>8 DEF IInv, TypeOK, Shapes, Local, Staged

-------------------------------------------------------------------------------
(***************************************************************************)
(* The theorems.                                                           *)
(***************************************************************************)

(* The invariant holds before any run has begun. *)
LEMMA InitHolds == Init => IInv
<1> SUFFICES ASSUME Init PROVE IInv
  OBVIOUS
<1>1. Shapes
  BY BundlesAssumption DEF Init, Shapes, Points
<1>2. ASSUME NEW w \in Writers PROVE Local(w)
  BY DEF Init, Local, Staged, Staging, Tidying, Returned, Beginning, Claiming
<1>3. target \in Whole
  BY DEF Init, Whole, Foreign
<1> QED
  BY <1>1, <1>2, <1>3, Parts DEF Init

(* Every step keeps it. *)
LEMMA NextKeeps == IInv /\ [Next]_vars => IInv'
<1> SUFFICES ASSUME IInv, [Next]_vars PROVE IInv'
  OBVIOUS
<1>1. ASSUME NEW w \in Writers, Write(w) PROVE IInv'
  BY <1>1, PrepareKeeps, LstatKeeps, ReadTargetKeeps, MakeStageKeeps, ChmodKeeps,
     WriteFileKeeps, SyncStageKeeps, PublishKeeps, MakeBackupKeeps, DropBackupKeeps,
     RemoveBackupKeeps, MoveTargetKeeps, MoveStageKeeps, RestoreKeeps, SyncParentKeeps,
     CleanupKeeps
  DEF Write
<1>2. ASSUME NEW w \in Writers, Crash(w) PROVE IInv'
  BY <1>2, CrashKeeps
<1>3. CASE UNCHANGED vars
  <2>0. UNCHANGED <<built, target, stages, backups, at, targetExists, stageOwned, result,
                    synced, unsynced, litter, outages>>
    BY <1>3 DEF vars, files
  <2>1. Shapes' /\ \A w \in Writers : Local(w)'
    <3>1. Shapes'
      BY <2>0, Parts DEF Shapes
    <3>2. ASSUME NEW w \in Writers PROVE Local(w)'
      <4>1. Local(w)
        BY Parts
      <4>2. /\ Bundle(w)' = Bundle(w) /\ Publishable(w)' = Publishable(w)
            /\ Torn(w)' = Torn(w) /\ Whole \subseteq Whole'
        BY <2>0, BundleStays
      <4>3. Accepted(w)' = Accepted(w) /\ \A i : File(w, i)' = File(w, i)
        BY <2>0 DEF Accepted, Writable, Refused, File
      <4>4. Staged(w)' /\ Tidying(w)'
        BY <2>0, <4>1, <4>2 DEF Local, Staged, Tidying, Returned
      <4>5. Staging(w)'
        BY <2>0, <4>1, <4>2, <4>3 DEF Local, Staging
      <4> QED
        BY <4>4, <4>5 DEF Local
    <3> QED
      BY <3>1, <3>2
  <2>2. target' \in Whole' /\ unsynced' \subseteq Whole' /\ built' \in [Writers -> Bundles]
    BY <2>0, Parts, WholeGrows
  <2> QED
    BY <2>1, <2>2 DEF IInv, TypeOK, Shapes, Local, Staged
<1> QED
  BY <1>1, <1>2, <1>3, PowerLossKeeps DEF Next

(* The inductive invariant of Writer.Write, run concurrently and interrupted anywhere. *)
THEOREM Invariance == Spec => []IInv
<1>1. Init => IInv
  BY InitHolds
<1>2. IInv /\ [Next]_vars => IInv'
  BY NextKeeps
<1> QED
  BY <1>1, <1>2, PTL DEF Spec

(* The locals of Writer.Write and the directories it touches keep their types. *)
THEOREM TypeCorrectness == Spec => []TypeOK
<1>1. IInv => TypeOK
  BY DEF IInv
<1> QED
  BY <1>1, Invariance, PTL

(***************************************************************************)
(* "Writer publishes a complete bundle only after every policy and         *)
(* staged-write check passes" (snapshot.go:113): with any number of runs,  *)
(* whatever calls fail, whoever crashes and however often power is lost,   *)
(* nothing but a whole bundle is ever seen at the target.                  *)
(***************************************************************************)
THEOREM TargetAlwaysWhole == Spec => []TargetIsWhole
<1>1. IInv => TargetIsWhole
  BY DEF IInv, Whole, TargetIsWhole, Vacant
<1> QED
  BY <1>1, Invariance, PTL

(***************************************************************************)
(* Write's deferred cleanup: a run that returned has left no temporary     *)
(* directory, unless a removal of its own failed.                          *)
(***************************************************************************)
THEOREM NothingLeftBehind == Spec => []NoLitter
<1>1. IInv => NoLitter
  BY DEF IInv, Tidying, NoLitter, Returned
<1> QED
  BY <1>1, Invariance, PTL

-------------------------------------------------------------------------------
(***************************************************************************)
(* When no two exports find the same empty directory: CInv, which a step   *)
(* of one writer keeps when it moves the target as little as it may and    *)
(* keeps what CInv says of its own writer.                                 *)
(***************************************************************************)

(* What a writer makes is told from what is vacant, and from the others' bundles. *)
LEMMA BundlesApart ==
  ASSUME built \in [Writers -> Bundles]
  PROVE  /\ Absent # {} /\ NotDirectory # {}
         /\ \A w \in Writers : Bundle(w) # Absent /\ Bundle(w) # NotDirectory
         /\ \A v, w \in Writers : Bundle(v) = Bundle(w) /\ Bundle(w) # {} => v = w
<1>1. ASSUME NEW w \in Writers PROVE Bundle(w) # Absent /\ Bundle(w) # NotDirectory
  <2>1. built[w] \in Bundles
    OBVIOUS
  <2>2. Bundle(w) = {<<w, built[w][i].name>> : i \in DOMAIN built[w]}
    BY DEF Bundle, File
  <2> QED
    BY <2>1, <2>2, DirectoriesAssumption
<1>2. ASSUME NEW v \in Writers, NEW w \in Writers, Bundle(v) = Bundle(w), Bundle(w) # {}
      PROVE  v = w
  <2>1. PICK entry : entry \in Bundle(w)
    BY <1>2
  <2>2. entry[1] = w /\ entry[1] = v
    BY <1>2, <2>1 DEF Bundle, File
  <2> QED
    BY <2>2
<1> QED
  BY <1>1, <1>2, DirectoriesAssumption

(* A bundle that may be written is not the empty one. *)
LEMMA AcceptedNotEmpty ==
  ASSUME IInv, NEW w \in Writers, Accepted(w)
  PROVE  Bundle(w) \notin {Absent, {}}
<1>1. Len(built[w]) \in Nat \ {0} /\ DOMAIN built[w] = 1..Len(built[w])
  BY AcceptedNames
<1>2. 1 \in DOMAIN built[w]
  BY <1>1
<1>3. File(w, 1) \in Bundle(w)
  BY <1>2 DEF Bundle
<1>4. Bundle(w) # Absent
  BY BundlesApart, Parts
<1> QED
  BY <1>3, <1>4

(* What the bundles are does not change, nor who may write. *)
LEMMA OrdersStay ==
  ASSUME built' = built
  PROVE  /\ \A w \in Writers : /\ Bundle(w)' = Bundle(w) /\ Accepted(w)' = Accepted(w)
                               /\ Publishable(w)' = Publishable(w)
         /\ Sole' = Sole /\ Foreign' = Foreign
<1>1. \A w \in Writers : /\ Bundle(w)' = Bundle(w) /\ Accepted(w)' = Accepted(w)
                         /\ Publishable(w)' = Publishable(w)
  BY DEF Bundle, File, Accepted, Publishable
<1> QED
  BY <1>1 DEF Sole, Foreign

(* A step of one writer: the target stays, or a vacant one is filled by it. *)
Beside(w) ==
  /\ Others(w) /\ outages' = outages
  /\ \A v \in Writers \ {w} : targetExists'[v] = targetExists[v]
  /\ \/ target' = target
     \/ Accepted(w) /\ Vacant /\ target' \in {Absent, {}, Bundle(w)}

(* What CInv says of the writers that look on stays true. *)
LEMMA BystandersKeep ==
  ASSUME IInv, CInv, NEW w \in Writers, Beside(w), NEW v \in Writers \ {w}
  PROVE  Claim(v)'
<1>1. /\ at'[v] = at[v] /\ result'[v] = result[v] /\ litter'[v] = litter[v]
      /\ backups'[v] = backups[v] /\ targetExists'[v] = targetExists[v]
      /\ built' = built /\ outages' = outages
  BY DEF Beside, Others
<1>2. /\ Bundle(v)' = Bundle(v) /\ Accepted(v)' = Accepted(v) /\ Sole' = Sole
      /\ Foreign' = Foreign
  BY <1>1, OrdersStay
<1>3. Claim(v)
  BY DEF CInv
<1>4. CASE target' = target
  BY <1>1, <1>2, <1>3, <1>4 DEF Claim, Vacant
<1>5. CASE Accepted(w) /\ Vacant /\ target' \in {Absent, {}, Bundle(w)}
  <2>1. ~targetExists[v]
    BY <1>3, <1>5 DEF Claim, Sole
  <2>2. at[v] \notin Swapping
    BY <1>3, <2>1 DEF Claim
  <2>3. at[v] \notin Claimed
    <3>1. SUFFICES ASSUME at[v] = "syncParent" PROVE FALSE
      BY <2>2 DEF Swapping, Claimed
    <3>2. target = Bundle(v) /\ Accepted(v)
      BY <1>3, <3>1 DEF Claim, Claimed
    <3> QED
      BY <1>5, <3>2, AcceptedNotEmpty DEF Vacant
  <2>4. target' \in {Absent, {}} \/ target' # Bundle(v)
    <3>1. built \in [Writers -> Bundles]
      BY Parts
    <3>2. Bundle(w) \notin {Absent, {}}
      BY <1>5, AcceptedNotEmpty
    <3> QED
      BY <1>5, <3>1, <3>2, BundlesApart
  <2> QED
    BY <1>1, <1>2, <1>3, <2>1, <2>2, <2>3, <2>4 DEF Claim, Vacant, Swapping
<1> QED
  BY <1>4, <1>5 DEF Beside

(* How a step may change the target, and what a power loss may bring back. *)
Settling(w) ==
  \/ /\ target' = target /\ unsynced' = unsynced
     /\ \A v \in Writers : result'[v] = "ok" => result[v] = "ok"
  \/ target' = target /\ unsynced' = {}
  \/ /\ Vacant /\ Sole /\ Accepted(w)
     /\ target' \in {Absent, {}} /\ unsynced' = unsynced \cup {target}
  \/ /\ Vacant /\ Accepted(w) /\ result'[w] = Undecided
     /\ target' = Bundle(w) /\ unsynced' = unsynced \cup {target}

(* So a step keeps CInv when it keeps what it says of its own writer. *)
LEMMA SettlingKeeps ==
  ASSUME IInv, CInv, NEW w \in Writers, Others(w), outages' = outages,
         \A v \in Writers \ {w} : targetExists'[v] = targetExists[v],
         Settling(w), Claim(w)'
  PROVE  CInv'
<1>1. Beside(w)
  BY DEF Beside, Settling
<1>2. \A v \in Writers : Claim(v)'
  BY <1>1, BystandersKeep
<1>3. built' = built
  BY DEF Others
<1>4. /\ \A v \in Writers : Bundle(v)' = Bundle(v)
      /\ Sole' = Sole
  BY <1>3, OrdersStay
<1>5. Unsettled
  BY DEF CInv
<1>6. Accepted(w) => Bundle(w) \notin {Absent, {}}
  BY AcceptedNotEmpty
<1>7. CASE /\ target' = target /\ unsynced' = unsynced
           /\ \A v \in Writers : result'[v] = "ok" => result[v] = "ok"
  BY <1>2, <1>4, <1>5, <1>7 DEF CInv, Unsettled, Vacant
<1>8. CASE target' = target /\ unsynced' = {}
  BY <1>2, <1>4, <1>5, <1>8 DEF CInv, Unsettled
<1>9. CASE /\ Vacant /\ Sole /\ Accepted(w)
           /\ target' \in {Absent, {}} /\ unsynced' = unsynced \cup {target}
  BY <1>2, <1>4, <1>5, <1>9 DEF CInv, Unsettled, Vacant
<1>10. CASE /\ Vacant /\ Accepted(w) /\ result'[w] = Undecided
            /\ target' = Bundle(w) /\ unsynced' = unsynced \cup {target}
  <2>1. result'[w] # "ok"
    BY <1>10 DEF Undecided
  <2> QED
    BY <1>2, <1>4, <1>5, <1>6, <1>10, <2>1 DEF CInv, Unsettled, Vacant
<1> QED
  BY <1>7, <1>8, <1>9, <1>10 DEF Settling

(* A step of the export that the abstract one takes too, or does not notice. *)
Implements == [A!Next]_(A!vars)

(* What was nothing and stays nothing, or was not touched, is a stutter. *)
LEMMA Unnoticed ==
  ASSUME built' = built, result' = result,
         target' = target \/ (Vacant /\ Vacant')
  PROVE  Implements
<1>1. \A w \in Writers : Bundle(w)' = Bundle(w) /\ Publishable(w)' = Publishable(w)
  BY OrdersStay
<1>2. [w \in Writers |-> Bundle(w)]' = [w \in Writers |-> Bundle(w)]
  BY <1>1
<1>3. {w \in Writers : ~Publishable(w)}' = {w \in Writers : ~Publishable(w)}
  BY <1>1
<1>4. (IF Vacant THEN Nothing ELSE target)' = IF Vacant THEN Nothing ELSE target
  BY DEF Vacant, Nothing
<1> QED
  BY <1>2, <1>3, <1>4 DEF Implements, A!vars

(* An error is a refusal, whether or not the step tidies up. *)
LEMMA Refusal ==
  ASSUME built' = built, NEW w \in Writers, NEW kind \in ErrorKinds,
         result[w] = Undecided, result' = [result EXCEPT ![w] = kind],
         target' = target \/ (Vacant /\ Vacant')
  PROVE  Implements
<1>1. \A v \in Writers : Bundle(v)' = Bundle(v) /\ Publishable(v)' = Publishable(v)
  BY OrdersStay
<1>2. [v \in Writers |-> Bundle(v)]' = [v \in Writers |-> Bundle(v)]
  BY <1>1
<1>3. {v \in Writers : ~Publishable(v)}' = {v \in Writers : ~Publishable(v)}
  BY <1>1
<1>4. (IF Vacant THEN Nothing ELSE target)' = IF Vacant THEN Nothing ELSE target
  BY DEF Vacant, Nothing
<1>5. A!Refuse(w)
  BY <1>2, <1>3, <1>4 DEF A!Refuse, ErrorKinds
<1> QED
  BY <1>5 DEF Implements, A!Next

(* The staged bundle taking a vacant target's place is the publication. *)
LEMMA Publication ==
  ASSUME IInv, built' = built, result' = result, NEW w \in Writers,
         result[w] = Undecided, Publishable(w), Accepted(w), Vacant,
         target' = Bundle(w)
  PROVE  Implements
<1>1. \A v \in Writers : Bundle(v)' = Bundle(v) /\ Publishable(v)' = Publishable(v)
  BY OrdersStay
<1>2. [v \in Writers |-> Bundle(v)]' = [v \in Writers |-> Bundle(v)]
  BY <1>1
<1>3. {v \in Writers : ~Publishable(v)}' = {v \in Writers : ~Publishable(v)}
  BY <1>1
<1>4. Bundle(w) \notin {Absent, {}}
  BY AcceptedNotEmpty
<1>5. /\ (IF Vacant THEN Nothing ELSE target)' = Bundle(w)
      /\ (IF Vacant THEN Nothing ELSE target) = Nothing
  BY <1>4 DEF Vacant
<1>6. [v \in Writers |-> Bundle(v)][w] = Bundle(w) /\ w \notin {v \in Writers : ~Publishable(v)}
  OBVIOUS
<1>7. A!Publish(w)
  BY <1>2, <1>3, <1>5, <1>6 DEF A!Publish
<1> QED
  BY <1>7 DEF Implements, A!Next

-------------------------------------------------------------------------------
(***************************************************************************)
(* Each call keeps CInv and is a step of AtomicExport, or none.            *)
(***************************************************************************)

(* Proceed changes no more than the point. *)
LEMMA ProceedClaims ==
  ASSUME IInv, CInv, NEW w \in Writers, NEW point \in Points, Proceed(w, point),
         at'[w] = point => Claim(w)'
  PROVE  CInv' /\ Implements
<1>1. /\ UNCHANGED <<built, target, unsynced, result, outages, targetExists>>
      /\ Others(w) /\ at'[w] = point
  BY ShapesHold DEF Proceed, Goto, Others, Shapes, files
<1>2. Settling(w)
  BY <1>1 DEF Settling
<1>3. CInv'
  BY <1>1, <1>2, SettlingKeeps
<1>4. Implements
  BY <1>1, Unnoticed
<1> QED
  BY <1>3, <1>4

(* A refusal anywhere but in the window of replaceEmptyTarget. *)
LEMMA RefuseClaims ==
  ASSUME IInv, CInv, NEW w \in Writers, NEW kind \in ErrorKinds, Refuse(w, kind),
         Running(w), at[w] \notin {"cleanup", "moveStage", "restore"},
         at[w] \in Claimed => kind = "publish"
  PROVE  CInv' /\ Implements
<1>1. /\ UNCHANGED <<built, target, stages, backups, targetExists, stageOwned, synced,
                     unsynced, litter, outages>>
      /\ Return(w, kind)
  BY DEF Refuse, files
<1>2. Shapes /\ Local(w) /\ Claim(w)
  BY Parts DEF CInv
<1>3. /\ result'[w] = kind /\ result'[w] # Undecided
      /\ \A v \in Writers \ {w} : result'[v] = result[v] /\ at'[v] = at[v]
      /\ at'[w] = IF stageOwned[w] THEN "cleanup" ELSE "returned"
  BY <1>1, <1>2, ReturnMoves
<1>4. Others(w)
  BY <1>1, <1>3 DEF Others
<1>5. \A v \in Writers : result'[v] = "ok" => result[v] = "ok"
  BY <1>3 DEF ErrorKinds
<1>6. /\ Bundle(w)' = Bundle(w) /\ Accepted(w)' = Accepted(w) /\ Sole' = Sole
      /\ Foreign' = Foreign
  BY <1>1, OrdersStay
<1>7. result[w] = Undecided /\ at[w] \notin Answered \cup {"crashed"}
  BY <1>2 DEF Claim, Running, Answered
<1>8. ~Accepted(w) => ~stageOwned[w]
  BY <1>2, <1>7 DEF Claim, Local, Tidying, Answered
<1>9. Claim(w)'
  BY <1>1, <1>2, <1>3, <1>6, <1>7, <1>8
  DEF Claim, Unseen, Swapping, Answered, Holding, Claimed, Vacant
<1>10. CInv'
  BY <1>1, <1>4, <1>5, <1>9, SettlingKeeps DEF Settling
<1>11. Implements
  BY <1>1, <1>7, Refusal DEF Return
<1> QED
  BY <1>10, <1>11

(* prepareEntries, and the look at the parent. *)
LEMMA PrepareClaims ==
  ASSUME IInv, CInv, NEW w \in Writers, Prepare(w)
  PROVE  CInv' /\ Implements
<1>1. at[w] = "prepare" /\ Claim(w) /\ Running(w)
  BY DEF Prepare, CInv, Running
<1>2. at[w] \notin {"cleanup", "moveStage", "restore"} \cup Claimed
  BY <1>1 DEF Claimed
<1>3. CASE built[w] = <<>> /\ Refuse(w, "policy")
  BY <1>1, <1>2, <1>3, RefuseClaims DEF ErrorKinds
<1>4. CASE Accepted(w) /\ Proceed(w, "lstatParent")
  <2>1. UNCHANGED <<built, target, backups, targetExists, result, litter, outages>>
    BY <1>4 DEF Proceed, files
  <2>2. /\ Bundle(w)' = Bundle(w) /\ Accepted(w)' = Accepted(w) /\ Sole' = Sole
        /\ Foreign' = Foreign
    BY <2>1, OrdersStay
  <2>3. ASSUME at'[w] = "lstatParent" PROVE Claim(w)'
    BY <1>1, <1>4, <2>1, <2>2, <2>3
    DEF Claim, Unseen, Swapping, Answered, Holding, Claimed, Vacant
  <2> QED
    BY <1>4, <2>3, ProceedClaims DEF Points
<1>5. ASSUME NEW i \in Refused(built[w]), Refuse(w, ItemRefusal(built[w], i))
      PROVE  CInv' /\ Implements
  <2>1. ItemRefusal(built[w], i) \in ErrorKinds
    BY <1>5 DEF Refused, ItemRefusal, ErrorKinds, Undecided
  <2> QED
    BY <1>1, <1>2, <1>5, <2>1, RefuseClaims
<1> QED
  BY <1>3, <1>4, <1>5 DEF Prepare, Accepted, Writable

(* The two Lstats find what they look for, or refuse. *)
LEMMA LstatClaims ==
  ASSUME IInv, CInv, NEW w \in Writers, LstatParent(w) \/ LstatTarget(w)
  PROVE  CInv' /\ Implements
<1>1. at[w] \in {"lstatParent", "lstatTarget"} /\ Claim(w) /\ Running(w)
  BY DEF LstatParent, LstatTarget, CInv, Running
<1>2. CASE Refuse(w, "destination")
  BY <1>1, <1>2, RefuseClaims DEF ErrorKinds, Claimed
<1>3. ASSUME NEW point \in {"lstatTarget", "readTarget", "makeStage"}, Proceed(w, point)
      PROVE  CInv' /\ Implements
  <2>1. UNCHANGED <<built, target, backups, targetExists, result, litter, outages>>
    BY <1>3 DEF Proceed, files
  <2>2. /\ Bundle(w)' = Bundle(w) /\ Accepted(w)' = Accepted(w) /\ Sole' = Sole
        /\ Foreign' = Foreign
    BY <2>1, OrdersStay
  <2>3. ~targetExists[w] /\ Accepted(w) /\ result[w] = Undecided
    BY <1>1 DEF Claim, Unseen, Answered
  <2>4. ASSUME at'[w] = point PROVE Claim(w)'
    BY <1>1, <1>3, <2>1, <2>2, <2>3, <2>4
    DEF Claim, Unseen, Swapping, Answered, Holding, Claimed, Vacant
  <2> QED
    BY <1>3, <2>4, ProceedClaims DEF Points
<1> QED
  BY <1>2, <1>3 DEF LstatParent, LstatTarget

(* Only the one export that may write finds the target empty. *)
LEMMA ReadTargetClaims ==
  ASSUME IInv, CInv, NEW w \in Writers, ReadTarget(w)
  PROVE  CInv' /\ Implements
<1>1. /\ Claim(w) /\ Shapes /\ Unsettled /\ at[w] = "readTarget" /\ Running(w)
      /\ Accepted(w) /\ result[w] = Undecided
  BY Parts DEF ReadTarget, CInv, Running, Claim, Answered
<1>2. CASE Refuse(w, "destination")
  BY <1>1, <1>2, RefuseClaims DEF ErrorKinds, Claimed
<1>3. CASE ~Refuse(w, "destination")
  <2>1. /\ target = {} /\ targetExists' = [targetExists EXCEPT ![w] = TRUE]
        /\ at' = [at EXCEPT ![w] = "makeStage"]
        /\ UNCHANGED <<built, target, stages, backups, stageOwned, result, synced,
                       unsynced, litter, outages>>
    BY <1>3 DEF ReadTarget, Goto, files
  <2>2. Others(w) /\ at'[w] = "makeStage"
    BY <1>1, <2>1 DEF Others, Shapes
  <2>3. Sole
    BY <1>1, <2>1 DEF Unsettled
  <2>4. /\ Bundle(w)' = Bundle(w) /\ Accepted(w)' = Accepted(w) /\ Sole' = Sole
        /\ Foreign' = Foreign
    BY <2>1, OrdersStay
  <2>5. Absent # {}
    BY DirectoriesAssumption
  <2>6. Claim(w)'
    BY <1>1, <2>1, <2>2, <2>3, <2>4, <2>5
    DEF Claim, Unseen, Swapping, Answered, Holding, Claimed, Vacant
  <2>7. CInv'
    BY <1>1, <2>1, <2>2, <2>6, SettlingKeeps DEF Settling, Shapes
  <2>8. Implements
    BY <2>1, Unnoticed
  <2> QED
    BY <2>7, <2>8
<1> QED
  BY <1>2, <1>3

(* Staging, and the backup's name: the target is not touched yet. *)
LEMMA StagingClaims ==
  ASSUME IInv, CInv, NEW w \in Writers,
         MakeStage(w) \/ Chmod(w) \/ WriteFile(w) \/ SyncStage(w)
           \/ MakeBackup(w) \/ DropBackup(w)
  PROVE  CInv' /\ Implements
<1>1. /\ Claim(w) /\ Shapes /\ Running(w) /\ result[w] = Undecided /\ Accepted(w)
      /\ at[w] \in Holding \ {"clearBackup", "moveTarget"}
  BY Parts
  DEF MakeStage, Chmod, WriteFile, SyncStage, MakeBackup, DropBackup, CInv, Running,
      Claim, Answered, Holding
<1>2. ASSUME NEW kind \in {"stage", "publish"}, Refuse(w, kind)
      PROVE  CInv' /\ Implements
  BY <1>1, <1>2, RefuseClaims DEF ErrorKinds, Claimed, Holding
<1>3. ASSUME UNCHANGED <<built, target, targetExists, unsynced, litter, outages>>,
             Others(w),
             \/ result' = result /\ at'[w] \in Holding \cup {"publish"}
             \/ result' = [result EXCEPT ![w] = "stage"] /\ at'[w] \in Answered,
             at'[w] \in Swapping => targetExists[w]
      PROVE  CInv' /\ Implements
  <2>1. /\ Bundle(w)' = Bundle(w) /\ Accepted(w)' = Accepted(w) /\ Sole' = Sole
        /\ Foreign' = Foreign
    BY <1>3, OrdersStay
  <2>2. Absent # {}
    BY DirectoriesAssumption
  <2>3. ~(outages = 0 /\ target = Bundle(w) /\ ~Vacant /\ target \notin Foreign)
    BY <1>1 DEF Claim, Holding, Claimed, Answered
  <2>4. at'[w] \notin Unseen \cup Claimed \cup {"moveStage", "restore", "crashed"}
    BY <1>3 DEF Unseen, Claimed, Holding, Answered
  <2>5. targetExists[w] => target # Absent
    BY <1>1, <2>2 DEF Claim
  <2>6. (Vacant)' = Vacant
    BY <1>3 DEF Vacant
  <2>7. at'[w] \notin Answered => result'[w] = Undecided
    BY <1>1, <1>3 DEF Answered, Holding
  <2>8. at'[w] \in Holding /\ targetExists[w] => target = {}
    BY <1>1 DEF Claim
  <2>9. Claim(w)'
    BY <1>1, <1>3, <2>1, <2>3, <2>4, <2>5, <2>6, <2>7, <2>8 DEF Claim
  <2>10. \A v \in Writers : result'[v] = "ok" => result[v] = "ok"
    BY <1>1, <1>3 DEF Shapes
  <2>11. CInv'
    BY <1>3, <2>9, <2>10, SettlingKeeps DEF Settling
  <2>12. Implements
    BY <1>1, <1>3, Unnoticed, Refusal DEF ErrorKinds
  <2> QED
    BY <2>11, <2>12
<1>4. CASE MakeStage(w) /\ ~Refuse(w, "stage")
  <2>1. /\ UNCHANGED <<built, target, backups, targetExists, result, synced, unsynced,
                       litter, outages>>
        /\ stages' = [stages EXCEPT ![w] = {}]
        /\ stageOwned' = [stageOwned EXCEPT ![w] = TRUE]
        /\ at' = [at EXCEPT ![w] = "chmod"]
    BY <1>4 DEF MakeStage, Goto
  <2> QED
    BY <1>1, <1>3, <2>1 DEF Others, Shapes, Holding, Swapping
<1>5. CASE Proceed(w, "write") /\ Chmod(w)
  <2>1. /\ UNCHANGED <<built, target, stages, backups, targetExists, stageOwned, result,
                       synced, unsynced, litter, outages>>
        /\ at' = [at EXCEPT ![w] = "write"]
    BY <1>5 DEF Proceed, Goto, files
  <2> QED
    BY <1>1, <1>3, <2>1 DEF Others, Shapes, Holding, Swapping
<1>6. CASE WriteFile(w)
  <2>1. /\ UNCHANGED <<built, target, backups, targetExists, stageOwned, synced,
                       unsynced, litter, outages>>
        /\ \A v \in Writers \ {w} : stages'[v] = stages[v]
    BY <1>1, <1>6 DEF WriteFile, Shapes
  <2>2. CASE UNCHANGED result /\ \E point \in {"write", "syncStage"} : Goto(w, point)
    BY <1>1, <1>3, <2>1, <2>2 DEF Others, Shapes, Holding, Swapping, Goto
  <2>3. CASE Return(w, "stage")
    <3>1. at' = [at EXCEPT ![w] = IF stageOwned'[w] THEN "cleanup" ELSE "returned"]
      BY <2>3 DEF Return, Goto
    <3>2. Others(w) /\ at'[w] \in Answered
      BY <1>1, <2>1, <2>3, <3>1 DEF Others, Shapes, Return, Answered
    <3>3. at'[w] \notin Swapping
      BY <3>2 DEF Answered, Swapping
    <3> QED
      BY <1>3, <2>1, <2>3, <3>2, <3>3 DEF Return
  <2> QED
    BY <1>6, <2>2, <2>3 DEF WriteFile
<1>7. CASE SyncStage(w) /\ ~Refuse(w, "stage")
  <2>1. /\ UNCHANGED <<built, target, stages, backups, targetExists, stageOwned, result,
                       unsynced, litter, outages>>
        /\ synced' = [synced EXCEPT ![w] = TRUE]
        /\ at' = [at EXCEPT ![w] = IF targetExists[w] THEN "makeBackup" ELSE "publish"]
    BY <1>7 DEF SyncStage, Goto, files
  <2> QED
    BY <1>1, <1>3, <2>1 DEF Others, Shapes, Holding, Swapping
<1>8. CASE MakeBackup(w) /\ ~Refuse(w, "publish")
  <2>1. /\ UNCHANGED <<built, target, stages, targetExists, stageOwned, result, synced,
                       unsynced, litter, outages>>
        /\ backups' = [backups EXCEPT ![w] = {}]
        /\ at' = [at EXCEPT ![w] = "dropBackup"]
        /\ at[w] = "makeBackup"
    BY <1>8 DEF MakeBackup, Goto
  <2>2. targetExists[w]
    BY <1>1, <2>1 DEF Claim, Swapping
  <2> QED
    BY <1>1, <1>3, <2>1, <2>2 DEF Others, Shapes, Holding
<1>9. CASE DropBackup(w)
  <2>1. /\ UNCHANGED <<built, target, stages, targetExists, stageOwned, result, synced,
                       unsynced, litter, outages>>
        /\ backups' \in {backups, [backups EXCEPT ![w] = Absent]}
        /\ at' \in {[at EXCEPT ![w] = "moveTarget"], [at EXCEPT ![w] = "clearBackup"]}
        /\ at[w] = "dropBackup"
    BY <1>9 DEF DropBackup, Goto, Proceed, files
  <2>2. targetExists[w]
    BY <1>1, <2>1 DEF Claim, Swapping
  <2> QED
    BY <1>1, <1>3, <2>1, <2>2 DEF Others, Shapes, Holding
<1> QED
  BY <1>2, <1>4, <1>5, <1>6, <1>7, <1>8, <1>9
  DEF MakeStage, Chmod, SyncStage, MakeBackup

(* The target changes hands: a vacant one is taken by the only one that may. *)
LEMMA PublishClaims ==
  ASSUME IInv, CInv, NEW w \in Writers, Publish(w)
  PROVE  CInv' /\ Implements
<1>1. /\ Claim(w) /\ Shapes /\ Running(w) /\ at[w] = "publish"
      /\ Accepted(w) /\ result[w] = Undecided /\ Publishable(w) /\ stages[w] = Bundle(w)
  BY ClaimingHas DEF Publish, CInv, Running, Claim, Claiming, Answered
<1>2. CASE Refuse(w, "publish")
  BY <1>1, <1>2, RefuseClaims DEF ErrorKinds, Claimed
<1>3. CASE ~Refuse(w, "publish")
  <2>1. /\ Vacant /\ target' = Bundle(w) /\ unsynced' = unsynced \cup {target}
        /\ stages' = [stages EXCEPT ![w] = Absent]
        /\ stageOwned' = [stageOwned EXCEPT ![w] = FALSE]
        /\ at' = [at EXCEPT ![w] = "syncParent"]
        /\ UNCHANGED <<built, backups, targetExists, result, synced, litter, outages>>
    BY <1>1, <1>3 DEF Publish, SetTarget, Goto, MayRenameTo, Vacant
  <2>2. Others(w) /\ at'[w] = "syncParent"
    BY <1>1, <2>1 DEF Others, Shapes
  <2>3. /\ Bundle(w)' = Bundle(w) /\ Accepted(w)' = Accepted(w) /\ Sole' = Sole
        /\ Foreign' = Foreign
    BY <2>1, OrdersStay
  <2>4. target' \notin {Absent, {}}
    BY <1>1, <2>1, AcceptedNotEmpty
  <2>5. Claim(w)'
    BY <1>1, <2>1, <2>2, <2>3, <2>4
    DEF Claim, Unseen, Swapping, Answered, Holding, Claimed, Vacant
  <2>6. CInv'
    BY <1>1, <2>1, <2>2, <2>5, SettlingKeeps DEF Settling
  <2>7. Implements
    BY <1>1, <2>1, Publication
  <2> QED
    BY <2>6, <2>7
<1> QED
  BY <1>2, <1>3

(* Moving the empty directory aside shows nothing, as before. *)
LEMMA MoveTargetClaims ==
  ASSUME IInv, CInv, NEW w \in Writers, MoveTarget(w)
  PROVE  CInv' /\ Implements
<1>1. /\ Claim(w) /\ Shapes /\ Running(w) /\ at[w] = "moveTarget" /\ Accepted(w) /\ Sole
      /\ result[w] = Undecided /\ targetExists[w] /\ target = {}
  BY Parts DEF MoveTarget, CInv, Running, Claim, Swapping, Holding, Answered
<1>2. CASE Refuse(w, "publish")
  BY <1>1, <1>2, RefuseClaims DEF ErrorKinds, Claimed
<1>3. CASE ~Refuse(w, "publish")
  <2>1. /\ backups' = [backups EXCEPT ![w] = {}]
        /\ target' = Absent /\ unsynced' = unsynced \cup {target}
        /\ at' = [at EXCEPT ![w] = "moveStage"]
        /\ UNCHANGED <<built, stages, targetExists, stageOwned, result, synced, litter,
                       outages>>
    BY <1>1, <1>3 DEF MoveTarget, SetTarget, Goto
  <2>2. Others(w) /\ at'[w] = "moveStage" /\ backups'[w] = {}
    BY <1>1, <2>1 DEF Others, Shapes
  <2>3. /\ Bundle(w)' = Bundle(w) /\ Accepted(w)' = Accepted(w) /\ Sole' = Sole
        /\ Foreign' = Foreign
    BY <2>1, OrdersStay
  <2>4. Vacant /\ Vacant'
    BY <1>1, <2>1 DEF Vacant
  <2>5. Claim(w)'
    BY <1>1, <2>1, <2>2, <2>3, <2>4
    DEF Claim, Unseen, Swapping, Answered, Holding, Claimed, Vacant
  <2>6. CInv'
    BY <1>1, <2>1, <2>2, <2>4, <2>5, SettlingKeeps DEF Settling
  <2>7. Implements
    BY <2>1, <2>4, Unnoticed
  <2> QED
    BY <2>6, <2>7
<1> QED
  BY <1>2, <1>3

(* The stage takes the place the empty directory left. *)
LEMMA MoveStageClaims ==
  ASSUME IInv, CInv, NEW w \in Writers, MoveStage(w)
  PROVE  CInv' /\ Implements
<1>1. /\ Claim(w) /\ Shapes /\ at[w] = "moveStage" /\ Accepted(w) /\ Sole /\ targetExists[w]
      /\ result[w] = Undecided /\ target = Absent /\ backups[w] = {}
      /\ Publishable(w) /\ stages[w] = Bundle(w)
  BY ClaimingHas DEF MoveStage, MoveStageOr, CInv, Claim, Swapping, Claiming, Answered
<1>2. CASE Proceed(w, "restore")
  <2>1. UNCHANGED <<built, target, backups, targetExists, result, litter, outages>>
    BY <1>2 DEF Proceed, files
  <2>2. /\ Bundle(w)' = Bundle(w) /\ Accepted(w)' = Accepted(w) /\ Sole' = Sole
        /\ Foreign' = Foreign
    BY <2>1, OrdersStay
  <2>3. ASSUME at'[w] = "restore" PROVE Claim(w)'
    BY <1>1, <2>1, <2>2, <2>3
    DEF Claim, Unseen, Swapping, Answered, Holding, Claimed, Vacant
  <2> QED
    BY <1>2, <2>3, ProceedClaims DEF Points
<1>3. CASE ~Proceed(w, "restore")
  <2>1. /\ target' = Bundle(w) /\ unsynced' = unsynced \cup {target}
        /\ stages' = [stages EXCEPT ![w] = Absent]
        /\ at' = [at EXCEPT ![w] = "removeBackup"]
        /\ UNCHANGED <<built, backups, targetExists, stageOwned, result, synced, litter,
                       outages>>
    BY <1>1, <1>3 DEF MoveStage, MoveStageOr, SetTarget, Goto
  <2>2. Others(w) /\ at'[w] = "removeBackup"
    BY <1>1, <2>1 DEF Others, Shapes
  <2>3. /\ Bundle(w)' = Bundle(w) /\ Accepted(w)' = Accepted(w) /\ Sole' = Sole
        /\ Foreign' = Foreign
    BY <2>1, OrdersStay
  <2>4. target' \notin {Absent, {}} /\ Vacant
    BY <1>1, <2>1, AcceptedNotEmpty DEF Vacant
  <2>5. Claim(w)'
    BY <1>1, <2>1, <2>2, <2>3, <2>4
    DEF Claim, Unseen, Swapping, Answered, Holding, Claimed, Vacant
  <2>6. CInv'
    BY <1>1, <2>1, <2>2, <2>4, <2>5, SettlingKeeps DEF Settling
  <2>7. Implements
    BY <1>1, <2>1, <2>4, Publication
  <2> QED
    BY <2>6, <2>7
<1> QED
  BY <1>2, <1>3

(* The rollback shows nothing either way, and the refusal is answered. *)
LEMMA RestoreClaims ==
  ASSUME IInv, CInv, NEW w \in Writers, Restore(w)
  PROVE  CInv' /\ Implements
<1>1. /\ Claim(w) /\ Shapes /\ Local(w) /\ at[w] = "restore" /\ Accepted(w) /\ Sole
      /\ targetExists[w] /\ result[w] = Undecided /\ target = Absent /\ backups[w] = {}
  BY Parts DEF Restore, CInv, Claim, Swapping, Answered
<1>2. /\ UNCHANGED <<built, stages, targetExists, stageOwned, synced, outages>>
      /\ Return(w, "publish")
      /\ \/ /\ target' = {} /\ unsynced' = unsynced \cup {target}
            /\ backups' = [backups EXCEPT ![w] = Absent] /\ litter' = litter
         \/ /\ UNCHANGED <<target, unsynced, backups>>
            /\ litter' = [litter EXCEPT ![w] = TRUE]
  BY <1>1 DEF Restore, SetTarget
<1>3. /\ result'[w] = "publish" /\ result'[w] # Undecided
      /\ \A v \in Writers \ {w} : result'[v] = result[v] /\ at'[v] = at[v]
      /\ at'[w] \in Answered
  BY <1>1, <1>2, ReturnMoves DEF ErrorKinds, Answered
<1>4. Others(w)
  BY <1>1, <1>2, <1>3 DEF Others, Shapes
<1>5. /\ Bundle(w)' = Bundle(w) /\ Accepted(w)' = Accepted(w) /\ Sole' = Sole
      /\ Foreign' = Foreign
  BY <1>2, OrdersStay
<1>6. Absent # {}
  BY DirectoriesAssumption
<1>7. \/ target' = {}
      \/ target' = Absent /\ litter'[w] /\ backups'[w] = {}
  BY <1>1, <1>2 DEF Shapes
<1>8. Vacant /\ Vacant'
  BY <1>1, <1>7 DEF Vacant
<1>9. Claim(w)'
  BY <1>1, <1>2, <1>3, <1>5, <1>6, <1>7, <1>8
  DEF Claim, Unseen, Swapping, Answered, Holding, Claimed
<1>10. Settling(w)
  BY <1>1, <1>2, <1>3, <1>8 DEF Settling
<1>11. CInv'
  BY <1>2, <1>4, <1>9, <1>10, SettlingKeeps
<1>12. Implements
  BY <1>1, <1>2, <1>8, Refusal DEF Return, ErrorKinds
<1> QED
  BY <1>11, <1>12

(* Removing the backup touches nothing anybody looks at. *)
LEMMA RemoveBackupClaims ==
  ASSUME IInv, CInv, NEW w \in Writers, ClearBackup(w) \/ RemoveBackup(w)
  PROVE  CInv' /\ Implements
<1>1. /\ Claim(w) /\ Shapes /\ Accepted(w) /\ Sole /\ targetExists[w]
      /\ result[w] = Undecided /\ target \in {{}, Bundle(w)} /\ target # Absent
      /\ at[w] \in {"clearBackup", "removeBackup"}
  <2>1. Claim(w) /\ Shapes /\ at[w] \in {"clearBackup", "removeBackup"}
    BY Parts DEF ClearBackup, RemoveBackup, CInv
  <2>2. /\ Accepted(w) /\ Sole /\ targetExists[w] /\ result[w] = Undecided
        /\ target \in {{}, Bundle(w)}
    BY <2>1 DEF Claim, Swapping, Answered, Holding, Claimed
  <2>3. target # Absent
    BY <2>2, AcceptedNotEmpty, DirectoriesAssumption
  <2> QED
    BY <2>1, <2>2, <2>3
<1>2. /\ UNCHANGED <<built, target, stages, targetExists, stageOwned, synced, unsynced,
                     outages>>
      /\ \A v \in Writers \ {w} : backups'[v] = backups[v] /\ litter'[v] = litter[v]
      /\ \/ Return(w, "publish")
         \/ at[w] = "removeBackup" /\ Goto(w, "syncParent") /\ UNCHANGED result
  BY <1>1 DEF ClearBackup, RemoveBackup, RemoveBackupThen, Shapes
<1>3. /\ Bundle(w)' = Bundle(w) /\ Accepted(w)' = Accepted(w) /\ Sole' = Sole
      /\ Foreign' = Foreign
  BY <1>2, OrdersStay
<1>4. CASE Return(w, "publish")
  <2>1. /\ result'[w] = "publish" /\ result'[w] # Undecided
        /\ \A v \in Writers \ {w} : result'[v] = result[v] /\ at'[v] = at[v]
        /\ at'[w] \in Answered
    BY <1>1, <1>4, ReturnMoves DEF ErrorKinds, Answered
  <2>2. Others(w)
    BY <1>1, <1>2, <2>1 DEF Others
  <2>3. Claim(w)'
    BY <1>1, <1>2, <1>3, <2>1
    DEF Claim, Unseen, Swapping, Answered, Holding, Claimed
  <2>4. Settling(w)
    BY <1>2, <2>1 DEF Settling
  <2>5. CInv'
    BY <1>2, <2>2, <2>3, <2>4, SettlingKeeps
  <2>6. Implements
    BY <1>1, <1>2, <1>4, Refusal DEF Return, ErrorKinds
  <2> QED
    BY <2>5, <2>6
<1>5. CASE at[w] = "removeBackup" /\ Goto(w, "syncParent") /\ UNCHANGED result
  <2>1. at'[w] = "syncParent" /\ Others(w) /\ target = Bundle(w)
    BY <1>1, <1>2, <1>5 DEF Others, Shapes, Goto, Claim, Claimed
  <2>2. Claim(w)'
    BY <1>1, <1>2, <1>3, <1>5, <2>1
    DEF Claim, Unseen, Swapping, Answered, Holding, Claimed
  <2>3. CInv'
    BY <1>2, <1>5, <2>1, <2>2, SettlingKeeps DEF Settling
  <2>4. Implements
    BY <1>2, <1>5, Unnoticed
  <2> QED
    BY <2>3, <2>4
<1> QED
  BY <1>2, <1>4, <1>5

(* With the parent synced the bundle is there to stay, and "ok" is answered. *)
LEMMA SyncParentClaims ==
  ASSUME IInv, CInv, NEW w \in Writers, SyncParent(w)
  PROVE  CInv' /\ Implements
<1>1. /\ Claim(w) /\ Shapes /\ Running(w) /\ at[w] = "syncParent" /\ Accepted(w)
      /\ result[w] = Undecided /\ target = Bundle(w)
  BY Parts DEF SyncParent, CInv, Running, Claim, Claimed, Answered
<1>2. CASE Refuse(w, "publish")
  BY <1>1, <1>2, RefuseClaims DEF ErrorKinds
<1>3. CASE ~Refuse(w, "publish")
  <2>1. /\ unsynced' = {} /\ stageOwned' = [stageOwned EXCEPT ![w] = FALSE]
        /\ UNCHANGED <<built, target, stages, backups, targetExists, synced, litter,
                       outages>>
        /\ Return(w, "ok")
    BY <1>3 DEF SyncParent, files
  <2>2. /\ result'[w] = "ok" /\ result'[w] # Undecided
        /\ \A v \in Writers \ {w} : result'[v] = result[v] /\ at'[v] = at[v]
        /\ at'[w] \in Answered
    BY <1>1, <2>1, ReturnMoves DEF Answered
  <2>3. Others(w)
    BY <1>1, <2>1, <2>2 DEF Others, Shapes
  <2>4. /\ Bundle(w)' = Bundle(w) /\ Accepted(w)' = Accepted(w) /\ Sole' = Sole
        /\ Foreign' = Foreign
    BY <2>1, OrdersStay
  <2>5. target \notin {Absent, {}}
    BY <1>1, AcceptedNotEmpty
  <2>6. Claim(w)'
    BY <1>1, <2>1, <2>2, <2>4, <2>5
    DEF Claim, Unseen, Swapping, Answered, Holding, Claimed
  <2>7. CInv'
    BY <2>1, <2>3, <2>6, SettlingKeeps DEF Settling
  <2>8. A!Acknowledge(w)
    <3>1. \A v \in Writers : Bundle(v)' = Bundle(v) /\ Publishable(v)' = Publishable(v)
      BY <2>1, OrdersStay
    <3>2. [v \in Writers |-> Bundle(v)]' = [v \in Writers |-> Bundle(v)]
      BY <3>1
    <3>3. {v \in Writers : ~Publishable(v)}' = {v \in Writers : ~Publishable(v)}
      BY <3>1
    <3>4. (IF Vacant THEN Nothing ELSE target) = [v \in Writers |-> Bundle(v)][w]
      BY <1>1, <2>5 DEF Vacant
    <3>5. (IF Vacant THEN Nothing ELSE target)' = IF Vacant THEN Nothing ELSE target
      BY <2>1 DEF Vacant, Nothing
    <3>6. result' = [result EXCEPT ![w] = "ok"]
      BY <2>1 DEF Return
    <3> QED
      BY <1>1, <3>2, <3>3, <3>4, <3>5, <3>6 DEF A!Acknowledge
  <2> QED
    BY <2>7, <2>8 DEF Implements, A!Next
<1> QED
  BY <1>2, <1>3

(* The deferred cleanup comes after the answer. *)
LEMMA CleanupClaims ==
  ASSUME IInv, CInv, NEW w \in Writers, Cleanup(w)
  PROVE  CInv' /\ Implements
<1>1. Claim(w) /\ Shapes /\ at[w] = "cleanup"
  BY Parts DEF Cleanup, CInv
<1>2. /\ UNCHANGED <<built, target, backups, targetExists, stageOwned, result, synced,
                     unsynced, outages>>
      /\ at' = [at EXCEPT ![w] = "returned"]
      /\ stages' = [stages EXCEPT ![w] = stages'[w]]
      /\ litter' = litter \/ litter' = [litter EXCEPT ![w] = TRUE]
  BY <1>1 DEF Cleanup, Goto, Shapes
<1>3. Others(w) /\ at'[w] = "returned" /\ (litter[w] => litter'[w])
  BY <1>1, <1>2 DEF Others, Shapes
<1>4. /\ Bundle(w)' = Bundle(w) /\ Accepted(w)' = Accepted(w) /\ Sole' = Sole
      /\ Foreign' = Foreign
  BY <1>2, OrdersStay
<1>5. Claim(w)'
  BY <1>1, <1>2, <1>3, <1>4
  DEF Claim, Unseen, Swapping, Answered, Holding, Claimed, Vacant
<1>6. CInv'
  BY <1>2, <1>3, <1>5, SettlingKeeps DEF Settling
<1>7. Implements
  BY <1>2, Unnoticed
<1> QED
  BY <1>6, <1>7

(* A run that crashes answers nothing any more. *)
LEMMA CrashClaims ==
  ASSUME IInv, CInv, NEW w \in Writers, Crash(w)
  PROVE  CInv' /\ Implements
<1>1. Claim(w) /\ Proceed(w, "crashed")
  BY DEF Crash, CInv
<1>2. UNCHANGED <<built, target, backups, targetExists, result, litter, outages>>
  BY <1>1 DEF Proceed, files
<1>3. /\ Bundle(w)' = Bundle(w) /\ Accepted(w)' = Accepted(w) /\ Sole' = Sole
      /\ Foreign' = Foreign
  BY <1>2, OrdersStay
<1>4. ASSUME at'[w] = "crashed" PROVE Claim(w)'
  BY <1>1, <1>2, <1>3, <1>4
  DEF Claim, Unseen, Swapping, Answered, Holding, Claimed, Vacant
<1> QED
  BY <1>1, <1>4, ProceedClaims DEF Points

(* A power loss may take back a bundle whose writer has not answered "ok". *)
LEMMA PowerLossClaims ==
  ASSUME IInv, CInv, PowerLoss
  PROVE  CInv' /\ Implements
<1>1. Shapes /\ Unsettled /\ target \in Whole /\ unsynced \subseteq Whole
  BY Parts DEF CInv
<1>2. /\ UNCHANGED <<built, stages, backups, targetExists, result, litter>>
      /\ unsynced' = {}
      /\ at' = [w \in Writers |-> IF Running(w) /\ at[w] # "prepare" THEN "crashed"
                                  ELSE at[w]]
  BY DEF PowerLoss
<1>3. target' \in unsynced \cup {target}
  BY <1>1, WholeSurvives DEF PowerLoss
<1>4. outages' # 0
  BY <1>1, BundlesAssumption DEF PowerLoss, Shapes
<1>5. /\ \A w \in Writers : /\ Bundle(w)' = Bundle(w) /\ Accepted(w)' = Accepted(w)
                            /\ Publishable(w)' = Publishable(w)
      /\ Sole' = Sole
  BY <1>2, OrdersStay
<1>6. ASSUME NEW w \in Writers PROVE Claim(w)'
  <2>1. Claim(w)
    BY DEF CInv
  <2>2. at'[w] = "crashed" \/ (at'[w] = at[w] /\ at[w] \in {"prepare", "returned", "crashed"})
    BY <1>2 DEF Running
  <2> QED
    BY <1>2, <1>4, <1>5, <2>1, <2>2
    DEF Claim, Unseen, Swapping, Answered, Holding, Claimed
<1>7. Unsettled'
  BY <1>1, <1>2, <1>3, <1>5 DEF Unsettled
<1>8. CInv'
  BY <1>6, <1>7 DEF CInv
<1>9. CASE target' = target \/ (Vacant /\ Vacant')
  BY <1>2, <1>8, <1>9, Unnoticed
<1>10. CASE ~(target' = target \/ (Vacant /\ Vacant'))
  <2>1. Vacant' /\ ~Vacant /\ unsynced # {}
    BY <1>1, <1>3, <1>10 DEF Unsettled, Vacant
  <2>2. PICK w \in Writers : target = Bundle(w) /\ result[w] # "ok"
    BY <1>1, <2>1 DEF Unsettled
  <2>3. [v \in Writers |-> Bundle(v)]' = [v \in Writers |-> Bundle(v)]
    BY <1>5
  <2>4. {v \in Writers : ~Publishable(v)}' = {v \in Writers : ~Publishable(v)}
    BY <1>5
  <2>5. (IF Vacant THEN Nothing ELSE target) = [v \in Writers |-> Bundle(v)][w]
    BY <2>1, <2>2
  <2>6. (IF Vacant THEN Nothing ELSE target)' = Nothing
    BY <2>1 DEF Nothing
  <2>7. A!Lose(w)
    BY <1>2, <2>2, <2>3, <2>4, <2>5, <2>6 DEF A!Lose
  <2> QED
    BY <1>8, <2>7 DEF Implements, A!Next
<1> QED
  BY <1>9, <1>10

(* Before any run has begun, and with no two that find the same empty directory. *)
LEMMA InitClaims == ASSUME Init, Uncontended PROVE CInv /\ A!Init
<1>1. built \in [Writers -> Bundles] /\ target \in InitialTargets
  BY DEF Init
<1>2. target = {} => Sole
  <2>1. SUFFICES ASSUME target = {}, NEW v \in Writers, NEW w \in Writers,
                        Accepted(v), Accepted(w)
                 PROVE  v = w
    BY DEF Sole
  <2>2. <<built, target>> \in Exports
    BY DEF Init
  <2>3. <<built, target>>[1] = built /\ <<built, target>>[2] = target
    OBVIOUS
  <2> QED
    BY <2>1, <2>2, <2>3 DEF Uncontended, Accepted
<1>3. Unsettled
  BY <1>2 DEF Init, Unsettled
<1>4. ASSUME NEW w \in Writers PROVE Claim(w)
  <2>1. target \notin {Absent, {}} => target \in Foreign
    BY <1>1 DEF Foreign
  <2> QED
    BY <2>1 DEF Init, Claim, Vacant, Unseen, Swapping, Answered, Holding, Claimed
<1>5. ASSUME NEW w \in Writers
      PROVE  (IF Vacant THEN Nothing ELSE target) # [v \in Writers |-> Bundle(v)][w]
  <2>1. Bundle(w) # Absent /\ Bundle(w) # NotDirectory
    BY <1>1, BundlesApart
  <2>2. CASE Vacant
    BY <2>1, <2>2 DEF Nothing
  <2>3. CASE ~Vacant
    <3>1. SUFFICES ASSUME target = Bundle(w) PROVE FALSE
      BY <2>3
    <3>2. target \in InitialTargets \ {Absent, NotDirectory} /\ target # {}
      BY <1>1, <2>1, <2>3, <3>1 DEF Vacant
    <3>3. PICK entry : entry \in target
      BY <3>2
    <3>4. entry[1] = w
      BY <3>1, <3>3 DEF Bundle, File
    <3> QED
      BY <3>2, <3>3, <3>4, ForeignAssumption
  <2> QED
    BY <2>2, <2>3
<1>6. A!Init
  BY <1>5 DEF A!Init, Init
<1> QED
  BY <1>3, <1>4, <1>6 DEF CInv

(* Every step keeps CInv, and is a step of AtomicExport or none. *)
LEMMA NextClaims == ASSUME IInv, CInv, [Next]_vars PROVE CInv' /\ Implements
<1>1. ASSUME NEW w \in Writers, Write(w) PROVE CInv' /\ Implements
  BY <1>1, PrepareClaims, LstatClaims, ReadTargetClaims, StagingClaims, PublishClaims,
     RemoveBackupClaims, MoveTargetClaims, MoveStageClaims, RestoreClaims,
     SyncParentClaims, CleanupClaims
  DEF Write
<1>2. CASE UNCHANGED vars
  <2>1. UNCHANGED <<built, target, stages, backups, at, targetExists, stageOwned, result,
                    synced, unsynced, litter, outages>>
    BY <1>2 DEF vars, files
  <2>2. /\ \A w \in Writers : Bundle(w)' = Bundle(w) /\ Accepted(w)' = Accepted(w)
        /\ Sole' = Sole /\ Foreign' = Foreign
    BY <2>1, OrdersStay
  <2>3. Unsettled'
    BY <2>1, <2>2 DEF CInv, Unsettled, Vacant
  <2>4. ASSUME NEW w \in Writers PROVE Claim(w)'
    <3>1. Claim(w)
      BY DEF CInv
    <3> QED
      BY <2>1, <2>2, <3>1 DEF Claim, Vacant
  <2>5. Implements
    BY <2>1, Unnoticed
  <2> QED
    BY <2>3, <2>4, <2>5 DEF CInv
<1> QED
  BY <1>1, <1>2, CrashClaims, PowerLossClaims DEF Next

(* With the empty directory contended for by nobody, both invariants hold together. *)
LEMMA ClaimsInvariance == ASSUME Uncontended PROVE Spec => [](IInv /\ CInv)
<1>1. Init => IInv /\ CInv
  BY InitHolds, InitClaims
<1>2. IInv /\ CInv /\ [Next]_vars => (IInv /\ CInv)'
  BY NextKeeps, NextClaims
<1> QED
  BY <1>1, <1>2, PTL DEF Spec

(***************************************************************************)
(* "Existing non-empty targets and all symlinks are refused"               *)
(* (snapshot.go:135), and replaceEmptyTarget's rollback: while the machine *)
(* is up, a run that is refused leaves the target as vacant or as foreign  *)
(* as it was, or with the bundle of whoever claimed it, whatever fails and *)
(* whoever crashes; only a failed rollback leaves the empty directory      *)
(* under the backup's name.                                                *)
(***************************************************************************)
THEOREM RefusalLosesNothing == ASSUME Uncontended PROVE Spec => []RefusedLeavesTarget
<1>1. ASSUME IInv, CInv PROVE RefusedLeavesTarget
  <2>1. SUFFICES ASSUME NEW w \in Writers, Returned(w), result[w] # "ok", outages = 0
                 PROVE  \/ \E v \in Writers : /\ target = Bundle(v)
                                              /\ v = w => result[w] = "publish"
                        \/ target = Absent /\ (targetExists[w] => litter[w] /\ backups[w] = {})
                        \/ target = {} \/ target \in Foreign
    BY DEF RefusedLeavesTarget
  <2>2. Claim(w) /\ target \in Whole
    BY <1>1, Parts DEF CInv
  <2>3. CASE target = Absent
    BY <2>1, <2>2, <2>3 DEF Claim, Returned
  <2>4. ASSUME NEW v \in Writers, target = Bundle(v), ~Vacant, target \notin Foreign
        PROVE  v = w => result[w] = "publish"
    BY <2>1, <2>2, <2>4 DEF Claim, Returned, Claimed
  <2> QED
    BY <2>2, <2>3, <2>4 DEF Whole, Vacant
<1> QED
  BY <1>1, ClaimsInvariance, PTL

(***************************************************************************)
(* "Writer publishes a complete bundle only after every policy and         *)
(* staged-write check passes" (snapshot.go:113), as one atomic step: what  *)
(* anybody sees at the target and what the runs answer is a behaviour of   *)
(* AtomicExport, in which nothing turns into a whole publishable bundle at *)
(* once, "ok" is answered only with that bundle there, and from then on no *)
(* failure and no power loss takes it away.                                *)
(***************************************************************************)
THEOREM ExportIsAtomic == ASSUME Uncontended PROVE Spec => ImplementsAtomicExport
<1>1. Init => A!Init
  BY InitClaims
<1>2. IInv /\ CInv /\ [Next]_vars => [A!Next]_(A!vars)
  BY NextClaims DEF Implements
<1> QED
  BY <1>1, <1>2, ClaimsInvariance, PTL DEF Spec, ImplementsAtomicExport, A!Spec

(***************************************************************************)
(* "Existing non-empty targets and all symlinks are refused."              *)
(* (snapshot.go:135): two exports that find the same empty directory can   *)
(* replace a target that is not vacant, and nothing else does.             *)
(***************************************************************************)
THEOREM NonEmptyKept == ASSUME Uncontended PROVE Spec => NonEmptyTargetKept
<1>1. ASSUME IInv, CInv, [Next]_vars, ~Vacant, outages' = outages
      PROVE  target' = target
  <2>1. ASSUME NEW w \in Writers, Write(w) PROVE target' = target
    <3>1. at[w] = "moveTarget" => target = {}
      BY <1>1 DEF CInv, Claim, Swapping, Holding
    <3>2. CASE MoveTarget(w)
      BY <1>1, <3>1, <3>2 DEF MoveTarget, Refuse, files, Vacant
    <3>3. CASE Publish(w) \/ MoveStage(w) \/ Restore(w)
      BY <1>1, <3>3
      DEF Publish, MoveStage, MoveStageOr, Restore, Refuse, Proceed, files, MayRenameTo,
          Vacant
    <3>4. CASE \/ Prepare(w) \/ LstatParent(w) \/ LstatTarget(w) \/ ReadTarget(w)
               \/ MakeStage(w) \/ Chmod(w) \/ WriteFile(w) \/ SyncStage(w)
      BY <3>4
      DEF Prepare, LstatParent, LstatTarget, ReadTarget, MakeStage, Chmod, WriteFile,
          SyncStage, Refuse, Proceed, files
    <3>5. CASE \/ MakeBackup(w) \/ DropBackup(w) \/ ClearBackup(w) \/ RemoveBackup(w)
               \/ SyncParent(w) \/ Cleanup(w)
      BY <3>5
      DEF MakeBackup, DropBackup, ClearBackup, RemoveBackup, RemoveBackupThen, SyncParent,
          Cleanup, Refuse, Proceed, files
    <3> QED
      BY <2>1, <3>2, <3>3, <3>4, <3>5 DEF Write
  <2>2. ASSUME NEW w \in Writers, Crash(w) PROVE target' = target
    BY <2>2 DEF Crash, Proceed, files
  <2>3. ~PowerLoss
    <3>1. outages \in Nat
      BY <1>1, BundlesAssumption DEF IInv, TypeOK
    <3> QED
      BY <1>1, <3>1 DEF PowerLoss
  <2> QED
    BY <1>1, <2>1, <2>2, <2>3 DEF Next, vars, files
<1>2. IInv /\ CInv /\ [Next]_vars => [~Vacant /\ outages' = outages => target' = target]_vars
  BY <1>1
<1> QED
  BY <1>2, ClaimsInvariance, PTL DEF Spec, NonEmptyTargetKept
===============================================================================
