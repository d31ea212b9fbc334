----------------------------- MODULE ExplanationProofs -----------------------------
(***************************************************************************)
(* Proofs about resource mode of explain, for any resources, files and     *)
(* clusters, however the cluster changes and whichever reads fail: it asks *)
(* only what it may, shows every refused read, reports every gap, and ends *)
(* with exit code 0 only when its answer is complete.                      *)
(***************************************************************************)
EXTENDS ExplanationProperties, VerdictLemmas

-------------------------------------------------------------------------------
(***************************************************************************)
(* The inductive invariant.  It relates the phase to the reads made before *)
(* it, the reads to what the completeness that all resources share and the *)
(* Namespace contexts record of them, and both to the source of the        *)
(* configurations; explanations are built from these three.                *)
(***************************************************************************)
Lists == {"validating", "mutating"}

IsForbidden(r, calls) == reads[r].call \in calls /\ reads[r].status = "forbidden"

TypeInv ==
  /\ command \in Commands
  /\ cluster \in history /\ history \subseteq Clusters
  /\ phase \in Phases
  /\ profile \in {"none", "declared", "verified", "mismatch"}
  /\ validating.status \in ReadStatuses
  /\ IsSequence(validating.items) /\ IsSequence(configurations)
  /\ base \in [Dimensions -> CompletenessStatuses]
  /\ incomplete \in BOOLEAN
  /\ reads \in Seq(ReadEntry)
  /\ published \in BOOLEAN

ContextInv ==
  /\ IsSequence(contexts) /\ Len(contexts) <= Len(command.resources)
  /\ \A i \in DOMAIN contexts : contexts[i].status \in CompletenessStatuses
  /\ phase \in {"decode", "connect", "discover", "validating", "mutating"} => contexts = <<>>
  /\ phase = "resources" => Len(contexts) < Len(command.resources)
  /\ phase \in {"explain", "export"} => Len(contexts) = Len(command.resources)

ReadInv ==
  /\ ReadsWithinBoundary
  /\ \A r \in DOMAIN reads : reads[r].call = "namespace" <=> reads[r].resource # 0
  /\ phase \in {"decode", "connect", "discover"} => reads = <<>>
  /\ phase = "connect" => command.webhookConfig # <<>> \/ command.context
  /\ phase \in {"discover", "validating", "mutating"} => command.context /\ profile = "verified"
  /\ phase \in {"validating", "mutating"} => command.webhookConfig = <<>>
  /\ phase \in {"validating", "mutating", "resources"} /\ command.context =>
       /\ profile = "verified" /\ reads # <<>> /\ reads[1].status = "success"
  /\ phase = "validating" => \A r \in DOMAIN reads : reads[r].call \notin Lists
  /\ phase = "mutating" => \A r \in DOMAIN reads : reads[r].call # "mutating"

ForbiddenInv ==
  /\ \A r \in DOMAIN reads : IsForbidden(r, {"discovery"}) => base["discovery"] = "forbidden"
  /\ phase # "mutating" =>
       \A r \in DOMAIN reads : IsForbidden(r, Lists) => base["configuration"] = "forbidden"
  /\ phase = "mutating" =>
       \A r \in DOMAIN reads : reads[r].call = "validating" => reads[r].status = validating.status
  /\ phase # "done" =>
       \A r \in DOMAIN reads : reads[r].call = "namespace" =>
         /\ reads[r].resource \in DOMAIN contexts
         /\ reads[r].status = "forbidden" => contexts[reads[r].resource].status = "forbidden"
  /\ ForbiddenReadsShown

SourceInv ==
  /\ phase \in Lists => resolver # Empty
  /\ phase = "mutating" /\ validating.status \in {"success", "empty"} =>
       \E first \in history : validating.items = first.validating
  /\ phase = "resources" => resolver # Empty /\ configurations # <<>>
  /\ phase \in {"resources", "explain", "export"} =>
       /\ resolver = Empty => base["discovery"] \in Unavailable
       /\ base["configuration"] \notin Unavailable => AllConfigurations(configurations)

AnswerInv ==
  /\ exit \in {NotExited, ExitSuccess, ExitInvalidInput, ExitIncompleteEvaluation,
               ExitInternalError}
  /\ exit = NotExited <=> phase # "done"
  /\ phase \notin {"export", "done"} => explanations = <<>>
  /\ phase = "export" =>
       /\ DOMAIN explanations = DOMAIN command.resources
       /\ \A i \in DOMAIN explanations : explanations[i] = ExplanationOf(i)
  /\ \A i \in DOMAIN explanations :
       /\ explanations[i].completeness \in [Dimensions -> CompletenessStatuses]
       /\ explanations[i].diagnostics \subseteq DiagnosticCodes

IInv == /\ TypeInv /\ ContextInv /\ ReadInv /\ ForbiddenInv /\ SourceInv /\ AnswerInv
        /\ GapsReported /\ ZeroMeansComplete

LEMMA NoAnswerYet ==
  ASSUME explanations' = <<>>, exit' # ExitSuccess
  PROVE  /\ ForbiddenReadsShown' /\ GapsReported' /\ ZeroMeansComplete'
         /\ \A i \in DOMAIN explanations' :
              /\ explanations'[i].completeness \in [Dimensions -> CompletenessStatuses]
              /\ explanations'[i].diagnostics \subseteq DiagnosticCodes
<1>1. DOMAIN explanations' = {}
  BY EmptySequence
<1> QED BY <1>1 DEF ForbiddenReadsShown, GapsReported, ZeroMeansComplete

(* The inputs of a command. *)
LEMMA Inputs ==
  ASSUME TypeInv
  PROVE  /\ IsSequence(command.resources) /\ command.resources # <<>>
         /\ Len(command.resources) \in Nat \ {0}
         /\ DOMAIN command.resources = 1..Len(command.resources)
         /\ IsSequence(command.webhookConfig)
         /\ \A k \in history : IsSequence(k.validating) /\ IsSequence(k.mutating)
<1>1. command \in Commands /\ history \subseteq Clusters
  BY DEF TypeInv
<1>2. IsSequence(command.resources) /\ command.resources # <<>> /\ IsSequence(command.webhookConfig)
  BY <1>1, InputsAssumption DEF IsSequence
<1>3. \A k \in history : IsSequence(k.validating) /\ IsSequence(k.mutating)
  BY <1>1, InputsAssumption DEF IsSequence
<1> QED BY <1>2, <1>3, SequenceFacts

LEMMA InitInv == Init => IInv
<1> SUFFICES ASSUME Init PROVE IInv
  OBVIOUS
<1>1. TypeInv
  <2>1. base \in [Dimensions -> CompletenessStatuses]
    BY DEF Init, Dimensions, CompletenessStatuses, OptionalContextStatus
  <2>2. reads \in Seq(ReadEntry) /\ IsSequence(configurations) /\ IsSequence(validating.items)
    BY EmptySequence DEF Init
  <2>3. validating.status \in ReadStatuses
    BY DEF Init, ReadStatuses
  <2> QED BY <2>1, <2>2, <2>3 DEF TypeInv, Init, Phases
<1>2. /\ phase = "decode" /\ reads = <<>> /\ contexts = <<>> /\ explanations = <<>>
      /\ exit = NotExited
  BY DEF Init
<1>3. DOMAIN reads = {} /\ DOMAIN contexts = {} /\ DOMAIN explanations = {}
  BY <1>2, EmptySequence
<1>4. ContextInv
  <2>1. IsSequence(contexts) /\ Len(contexts) <= Len(command.resources)
    BY <1>1, <1>2, EmptySequence, Inputs
  <2> QED BY <1>2, <1>3, <2>1 DEF ContextInv
<1>5. ReadInv
  BY <1>2, <1>3 DEF ReadInv, ReadsWithinBoundary
<1>6. ForbiddenInv
  BY <1>2, <1>3 DEF ForbiddenInv, ForbiddenReadsShown, IsForbidden
<1>7. SourceInv
  BY <1>2 DEF SourceInv, Lists
<1>8. AnswerInv /\ GapsReported /\ ZeroMeansComplete
  BY <1>2, <1>3 DEF AnswerInv, GapsReported, ZeroMeansComplete, NotExited, ExitSuccess
<1> QED BY <1>1, <1>4, <1>5, <1>6, <1>7, <1>8 DEF IInv

-------------------------------------------------------------------------------
(***************************************************************************)
(* The steps that read nothing.                                            *)
(***************************************************************************)
(* While there is no explanation yet, the command has not ended well. *)
LEMMA StillAsking ==
  ASSUME explanations' = <<>>,
         \/ phase' \in Phases \ {"export", "done"} /\ exit' = NotExited
         \/ phase' = "done" /\ exit' \in {ExitInvalidInput, ExitIncompleteEvaluation}
  PROVE  AnswerInv' /\ ForbiddenReadsShown' /\ GapsReported' /\ ZeroMeansComplete'
<1>1. exit' # ExitSuccess
  BY DEF NotExited, ExitSuccess, ExitInvalidInput, ExitIncompleteEvaluation
<1>2. ForbiddenReadsShown' /\ GapsReported' /\ ZeroMeansComplete'
  BY <1>1, NoAnswerYet
<1>3. \A i \in DOMAIN explanations' :
        /\ explanations'[i].completeness \in [Dimensions -> CompletenessStatuses]
        /\ explanations'[i].diagnostics \subseteq DiagnosticCodes
  BY <1>1, NoAnswerYet
<1>4. /\ exit' \in {NotExited, ExitSuccess, ExitInvalidInput, ExitIncompleteEvaluation,
                    ExitInternalError}
      /\ exit' = NotExited <=> phase' # "done"
      /\ phase' # "export"
  BY DEF NotExited, ExitSuccess, ExitInvalidInput, ExitIncompleteEvaluation, ExitInternalError
<1> QED BY <1>2, <1>3, <1>4 DEF AnswerInv

LEMMA AbortStep ==
  ASSUME IInv, phase \notin {"mutating", "export", "done"},
         UNCHANGED <<inputs, gathered, contexts, produced>>,
         phase' = "done", exit' \in {ExitInvalidInput, ExitIncompleteEvaluation}
  PROVE  IInv'
<1>1. UNCHANGED <<command, cluster, history, profile, resolver, validating, configurations,
                  base, incomplete, reads, contexts, explanations, published>>
  BY DEF inputs, gathered, produced
<1>2. explanations' = <<>>
  BY <1>1 DEF IInv, AnswerInv
<1>3. TypeInv' /\ ContextInv'
  BY <1>1 DEF IInv, TypeInv, ContextInv, Phases
<1>4. ReadInv'
  BY <1>1 DEF IInv, ReadInv, ReadsWithinBoundary
<1>5. AnswerInv' /\ ForbiddenReadsShown' /\ GapsReported' /\ ZeroMeansComplete'
  BY <1>2, StillAsking
<1>6. ForbiddenInv'
  BY <1>1, <1>5 DEF IInv, ForbiddenInv, IsForbidden
<1>7. SourceInv'
  BY <1>1 DEF IInv, SourceInv, Lists
<1> QED BY <1>3, <1>4, <1>5, <1>6, <1>7 DEF IInv

LEMMA DecodeStep ==
  ASSUME IInv, Decode
  PROVE  IInv'
<1>1. /\ phase = "decode" /\ UNCHANGED <<inputs, gathered, contexts, produced>>
      /\ \/ Acceptable(command) /\ phase' = "connect" /\ exit' = exit
         \/ phase' = "done" /\ exit' = ExitInvalidInput
  BY DEF Decode, Abort
<1>2. CASE phase' = "done" /\ exit' = ExitInvalidInput
  BY <1>1, <1>2, AbortStep
<1>3. CASE Acceptable(command) /\ phase' = "connect" /\ exit' = exit
  <2>1. UNCHANGED <<command, cluster, history, profile, resolver, validating, configurations,
                    base, incomplete, reads, contexts, explanations, published>>
    BY <1>1 DEF inputs, gathered, produced
  <2>2. reads = <<>> /\ contexts = <<>> /\ explanations = <<>> /\ exit = NotExited
    BY <1>1 DEF IInv, ReadInv, ContextInv, AnswerInv
  <2>3. TypeInv' /\ ContextInv'
    BY <1>1, <1>3, <2>1 DEF IInv, TypeInv, ContextInv, Phases
  <2>4. ReadInv'
    BY <1>1, <1>3, <2>1 DEF IInv, ReadInv, ReadsWithinBoundary, Acceptable
  <2>5. AnswerInv' /\ ForbiddenReadsShown' /\ GapsReported' /\ ZeroMeansComplete'
    BY <1>3, <2>1, <2>2, StillAsking DEF Phases
  <2>6. DOMAIN reads' = {}
    BY <2>1, <2>2, EmptySequence
  <2>7. ForbiddenInv' /\ SourceInv'
    BY <1>3, <2>1, <2>5, <2>6 DEF ForbiddenInv, SourceInv, Lists
  <2> QED BY <2>3, <2>4, <2>5, <2>7 DEF IInv
<1> QED BY <1>1, <1>2, <1>3

LEMMA ConnectFailsStep ==
  ASSUME IInv, ConnectFails
  PROVE  IInv'
<1>1. /\ phase = "connect" /\ UNCHANGED <<inputs, gathered, contexts, produced>>
      /\ phase' = "done" /\ exit' \in {ExitInvalidInput, ExitIncompleteEvaluation}
  BY DEF ConnectFails, Abort
<1> QED BY <1>1, AbortStep

LEMMA ConnectVerifiedStep ==
  ASSUME IInv, ConnectVerified
  PROVE  IInv'
<1>1. /\ phase = "connect" /\ command.context /\ phase' = "discover" /\ profile' = "verified"
      /\ UNCHANGED <<command, cluster, history, resolver, validating, configurations,
                     base, incomplete, reads, contexts, explanations, published, exit>>
  BY DEF ConnectVerified, inputs, produced
<1>2. reads = <<>> /\ contexts = <<>> /\ explanations = <<>> /\ exit = NotExited
  BY <1>1 DEF IInv, ReadInv, ContextInv, AnswerInv
<1>3. DOMAIN reads' = {}
  BY <1>1, <1>2, EmptySequence
<1>4. TypeInv' /\ ContextInv'
  BY <1>1 DEF IInv, TypeInv, ContextInv, Phases
<1>5. ReadInv'
  BY <1>1, <1>2, <1>3 DEF ReadInv, ReadsWithinBoundary
<1>6. AnswerInv' /\ ForbiddenReadsShown' /\ GapsReported' /\ ZeroMeansComplete'
  BY <1>1, <1>2, StillAsking DEF Phases
<1>7. ForbiddenInv' /\ SourceInv'
  BY <1>1, <1>3, <1>6 DEF ForbiddenInv, SourceInv, Lists
<1> QED BY <1>4, <1>5, <1>6, <1>7 DEF IInv

-------------------------------------------------------------------------------
(***************************************************************************)
(* Discovery: a mapping was found or it is on record as lacking, and the   *)
(* resources are built only with a mapping.                                *)
(***************************************************************************)
LEMMA Proceeding ==
  ASSUME NEW found, NEW selected, Proceed(found, selected)
  PROVE  \/ /\ phase' = "explain"
            /\ contexts' = [i \in DOMAIN command.resources |->
                              [namespaces |-> Empty, status |-> "not-required",
                               incomplete |-> FALSE]]
         \/ /\ phase' = "resources" /\ contexts' = contexts
            /\ found # Empty /\ selected # <<>>
BY DEF Proceed, SkipBuilding

(* The contexts when the resources are about to be built, or never are. *)
LEMMA ProceedContexts ==
  ASSUME TypeInv, contexts = <<>>, command' = command,
         NEW found, NEW selected, Proceed(found, selected)
  PROVE  ContextInv'
<1>1. Len(command.resources) \in Nat \ {0} /\ DOMAIN command.resources = 1..Len(command.resources)
  BY Inputs
<1>2. CASE phase' = "resources" /\ contexts' = contexts
  <2>1. IsSequence(contexts') /\ Len(contexts') = 0 /\ DOMAIN contexts' = {}
    BY <1>2, EmptySequence
  <2> QED BY <1>1, <1>2, <2>1 DEF ContextInv
<1>3. CASE /\ phase' = "explain"
           /\ contexts' = [i \in DOMAIN command.resources |->
                             [namespaces |-> Empty, status |-> "not-required",
                              incomplete |-> FALSE]]
  <2>1. /\ DOMAIN contexts' = 1..Len(command.resources)
        /\ \A i \in DOMAIN contexts' : contexts'[i].status = "not-required"
    BY <1>1, <1>3
  <2>2. contexts' = [i \in 1..Len(command.resources) |-> contexts'[i]]
    BY <1>1, <1>3
  <2>3. IsSequence(contexts') /\ Len(contexts') = Len(command.resources)
    BY <1>1, <2>2, TableIsSequence
  <2> QED BY <1>1, <1>3, <2>1, <2>3 DEF ContextInv, CompletenessStatuses
<1> QED BY <1>2, <1>3, Proceeding

LEMMA Settled ==
  ASSUME IInv, phase \in {"connect", "discover"}, UNCHANGED <<inputs, produced, exit>>,
         NEW found, NEW status \in {"provided", "hydrated", "forbidden", "unsupported"},
         SettleDiscovery(found, status),
         status \in {"provided", "hydrated"} => found # Empty
  PROVE  /\ phase' \in {"validating", "resources", "explain"}
         /\ phase' \in {"validating", "resources"} => found # Empty
         /\ phase' = "validating" => command.webhookConfig = <<>>
         /\ IsSequence(configurations') /\ incomplete' \in BOOLEAN
         /\ base' \in [Dimensions -> CompletenessStatuses] /\ base'["discovery"] = status
         /\ ContextInv' /\ SourceInv' /\ AnswerInv'
         /\ ForbiddenReadsShown' /\ GapsReported' /\ ZeroMeansComplete'
<1>1. /\ command' = command /\ history' = history
      /\ explanations' = explanations /\ exit' = exit
  BY DEF inputs, produced
<1>2. contexts = <<>> /\ explanations = <<>> /\ exit = NotExited /\ TypeInv
  BY DEF IInv, ContextInv, AnswerInv
<1> DEFINE ready == status \in {"provided", "hydrated"}
<1>3. /\ resolver' = found /\ configurations' = command.webhookConfig /\ incomplete' = ~ready
      /\ base' = [base EXCEPT
                    !["discovery"] = status,
                    !["configuration"] =
                      IF command.webhookConfig # <<>> THEN "provided" ELSE "missing"]
      /\ \/ /\ ready /\ command.webhookConfig = <<>> /\ phase' = "validating"
            /\ contexts' = contexts
         \/ Proceed(found, command.webhookConfig)
  BY DEF SettleDiscovery, ListsWanted
<1>4. /\ base' \in [Dimensions -> CompletenessStatuses] /\ base'["discovery"] = status
      /\ base'["configuration"] \notin Unavailable => command.webhookConfig # <<>>
  <2>1. base \in [Dimensions -> CompletenessStatuses]
    BY <1>2 DEF TypeInv
  <2> QED BY <1>3, <2>1 DEF Dimensions, CompletenessStatuses, Unavailable
<1>5. IsSequence(configurations')
  BY <1>2, <1>3, Inputs
<1>6. /\ phase' \in {"validating", "resources", "explain"}
      /\ phase' \in {"validating", "resources"} => found # Empty
      /\ phase' = "validating" => command.webhookConfig = <<>>
      /\ phase' = "resources" => command.webhookConfig # <<>>
  BY <1>3, Proceeding
<1>7. ContextInv'
  <2>1. CASE phase' = "validating" /\ contexts' = contexts
    <3>1. IsSequence(contexts') /\ Len(contexts') = 0 /\ DOMAIN contexts' = {}
      BY <1>2, <2>1, EmptySequence
    <3>2. Len(command.resources) \in Nat
      BY <1>2, Inputs
    <3> QED BY <1>1, <1>2, <2>1, <3>1, <3>2 DEF ContextInv
  <2>2. CASE Proceed(found, command.webhookConfig)
    BY <1>1, <1>2, <2>2, ProceedContexts
  <2> QED BY <1>3, <2>1, <2>2
<1>8. SourceInv'
  <2>1. resolver' = Empty => base'["discovery"] \in Unavailable
    BY <1>3, <1>4 DEF Unavailable
  <2>2. base'["configuration"] \notin Unavailable => AllConfigurations(configurations)'
    BY <1>1, <1>3, <1>4 DEF AllConfigurations
  <2> QED BY <1>3, <1>6, <2>1, <2>2 DEF SourceInv, Lists
<1>9. AnswerInv' /\ ForbiddenReadsShown' /\ GapsReported' /\ ZeroMeansComplete'
  BY <1>1, <1>2, <1>6, StillAsking DEF Phases
<1> QED BY <1>3, <1>4, <1>5, <1>6, <1>7, <1>8, <1>9

(* One more read of the cluster. *)
LEMMA ReadAppended ==
  ASSUME TypeInv, NEW e \in ReadEntry, reads' = Append(reads, e)
  PROVE  /\ reads' \in Seq(ReadEntry) /\ reads' # <<>>
         /\ Len(reads) \in Nat /\ DOMAIN reads = 1..Len(reads)
         /\ DOMAIN reads' = 1..(Len(reads) + 1)
         /\ \A r \in DOMAIN reads : reads'[r] = reads[r]
         /\ reads'[Len(reads) + 1] = e
         /\ \A r \in DOMAIN reads' : r \in DOMAIN reads \/ r = Len(reads) + 1
BY DEF TypeInv

LEMMA OneMoreRead ==
  ASSUME TypeInv, ReadsWithinBoundary, NEW e \in ReadEntry, reads' = Append(reads, e),
         command' = command, profile' = profile, command.context, profile = "verified",
         \/ reads = <<>> /\ e.call = "discovery"
         \/ reads # <<>> /\ e.call # "discovery" /\ reads[1].status = "success",
         e.call \in {"validating", "mutating"} => command.webhookConfig = <<>>,
         e.call = "namespace" => command.namespaceObject = Empty,
         \A r \in DOMAIN reads :
           reads[r].call # e.call \/ reads[r].resource # e.resource
  PROVE  ReadsWithinBoundary'
<1> DEFINE n == Len(reads) + 1
<1>1. /\ reads' # <<>> /\ Len(reads) \in Nat /\ DOMAIN reads = 1..Len(reads)
      /\ DOMAIN reads' = 1..n
      /\ \A r \in DOMAIN reads : reads'[r] = reads[r]
      /\ reads'[n] = e
      /\ \A r \in DOMAIN reads' : r \in DOMAIN reads \/ r = n
  BY ReadAppended
<1>2. reads # <<>> => 1 \in DOMAIN reads
  <2>1. reads \in Seq(ReadEntry)
    BY DEF TypeInv
  <2> QED BY <2>1
<1>3. reads = <<>> <=> n = 1
  <2>1. reads \in Seq(ReadEntry)
    BY DEF TypeInv
  <2> QED BY <2>1
<1>4. n \notin DOMAIN reads /\ n \in Nat /\ n > 0
  BY <1>1
<1> HIDE DEF n
<1>5. ASSUME NEW r \in DOMAIN reads'
      PROVE  /\ r = 1 <=> reads'[r].call = "discovery"
             /\ r > 1 => reads'[1].status = "success"
             /\ reads'[r].call \in {"validating", "mutating"} => command.webhookConfig = <<>>
             /\ reads'[r].call = "namespace" => command.namespaceObject = Empty
  <2>1. CASE r \in DOMAIN reads
    <3>1. /\ r = 1 <=> reads[r].call = "discovery"
          /\ r > 1 => reads[1].status = "success"
          /\ reads[r].call \in {"validating", "mutating"} => command.webhookConfig = <<>>
          /\ reads[r].call = "namespace" => command.namespaceObject = Empty
      BY <2>1 DEF ReadsWithinBoundary
    <3>2. reads # <<>>
      BY <2>1, <1>1, EmptySequence
    <3>3. reads'[r] = reads[r] /\ reads'[1] = reads[1]
      BY <1>1, <1>2, <2>1, <3>2
    <3> QED BY <3>1, <3>3
  <2>2. CASE r = n
    <3>1. r = 1 <=> e.call = "discovery"
      BY <1>3, <2>2
    <3>2. r > 1 => reads'[1].status = "success"
      <4>1. r > 1 => reads # <<>>
        BY <1>3, <1>4, <2>2
      <4>2. reads # <<>> => reads'[1] = reads[1] /\ reads[1].status = "success"
        BY <1>1, <1>2
      <4> QED BY <4>1, <4>2
    <3> QED BY <1>1, <2>2, <3>1, <3>2
  <2> QED BY <1>1, <2>1, <2>2
<1>6. ASSUME NEW r \in DOMAIN reads', NEW s \in DOMAIN reads', r # s
      PROVE  reads'[r].call # reads'[s].call \/ reads'[r].resource # reads'[s].resource
  <2>1. CASE r \in DOMAIN reads /\ s \in DOMAIN reads
    <3>1. <<reads[r].call, reads[r].resource>> # <<reads[s].call, reads[s].resource>>
      BY <1>6, <2>1 DEF ReadsWithinBoundary
    <3> QED BY <1>1, <2>1, <3>1
  <2>2. CASE r = n /\ s \in DOMAIN reads
    BY <1>1, <2>2
  <2>3. CASE s = n /\ r \in DOMAIN reads
    BY <1>1, <2>3
  <2> QED BY <1>1, <1>6, <2>1, <2>2, <2>3
<1>7. \A r, s \in DOMAIN reads' :
        r # s =>
          <<reads'[r].call, reads'[r].resource>> # <<reads'[s].call, reads'[s].resource>>
  BY <1>6
<1> QED BY <1>5, <1>7 DEF ReadsWithinBoundary

LEMMA ConnectOfflineStep ==
  ASSUME IInv, ConnectOffline
  PROVE  IInv'
<1>1. /\ phase = "connect" /\ ~command.context /\ profile' = "declared"
      /\ SettleDiscovery(Catalog, "provided")
      /\ UNCHANGED <<inputs, produced, exit>>
      /\ UNCHANGED <<command, cluster, history, validating, reads, published>>
  BY DEF ConnectOffline, inputs, produced
<1>2. Catalog # Empty
  BY InputsAssumption
<1>3. /\ phase' \in {"validating", "resources", "explain"}
      /\ phase' \in {"validating", "resources"} => Catalog # Empty
      /\ phase' = "validating" => command.webhookConfig = <<>>
      /\ IsSequence(configurations') /\ incomplete' \in BOOLEAN
      /\ base' \in [Dimensions -> CompletenessStatuses] /\ base'["discovery"] = "provided"
      /\ ContextInv' /\ SourceInv' /\ AnswerInv'
      /\ ForbiddenReadsShown' /\ GapsReported' /\ ZeroMeansComplete'
  BY <1>1, <1>2, Settled
<1>4. phase' # "validating"
  BY <1>1, <1>3 DEF IInv, ReadInv
<1>5. reads = <<>> /\ reads' = <<>> /\ DOMAIN reads' = {}
  BY <1>1, EmptySequence DEF IInv, ReadInv
<1>6. TypeInv'
  BY <1>1, <1>3 DEF IInv, TypeInv, Phases
<1>7. ReadInv'
  BY <1>1, <1>3, <1>4, <1>5 DEF ReadInv, ReadsWithinBoundary
<1>8. ForbiddenInv'
  BY <1>3, <1>5 DEF ForbiddenInv
<1> QED BY <1>3, <1>6, <1>7, <1>8 DEF IInv

LEMMA DiscoverStep ==
  ASSUME IInv, Discover
  PROVE  IInv'
<1>1. /\ phase = "discover" /\ UNCHANGED <<inputs, produced, exit>>
      /\ UNCHANGED <<command, cluster, history, profile, validating, published>>
  BY DEF Discover, inputs, produced
<1>2. PICK status \in ReadFailures \cup
                      {IF cluster.discovery = Empty THEN "empty" ELSE "success"} :
        /\ reads' = Append(reads, Read("discovery", 0, status))
        /\ SettleDiscovery(IF status = "success" THEN cluster.discovery ELSE Empty,
                           DiscoveryStatus(status))
  BY DEF Discover
<1> DEFINE found == IF status = "success" THEN cluster.discovery ELSE Empty
           e == Read("discovery", 0, status)
<1>3. /\ reads = <<>> /\ DOMAIN reads = {} /\ command.context /\ profile = "verified"
      /\ ReadsWithinBoundary /\ TypeInv
  BY <1>1, EmptySequence DEF IInv, ReadInv
<1>4. /\ status \in ReadStatuses
      /\ DiscoveryStatus(status) \in {"provided", "hydrated", "forbidden", "unsupported"}
      /\ DiscoveryStatus(status) \in {"provided", "hydrated"} => status = "success"
      /\ status = "forbidden" => DiscoveryStatus(status) = "forbidden"
      /\ status = "success" => cluster.discovery # Empty
  BY <1>2 DEF ReadStatuses, ReadFailures, DiscoveryStatus
<1>5. /\ e \in ReadEntry /\ e.call = "discovery" /\ e.resource = 0 /\ e.status = status
  BY <1>4 DEF ReadEntry, Read
<1>6. /\ phase' \in {"validating", "resources", "explain"}
      /\ phase' \in {"validating", "resources"} => found # Empty
      /\ phase' = "validating" => command.webhookConfig = <<>>
      /\ IsSequence(configurations') /\ incomplete' \in BOOLEAN
      /\ base' \in [Dimensions -> CompletenessStatuses]
      /\ base'["discovery"] = DiscoveryStatus(status)
      /\ ContextInv' /\ SourceInv' /\ AnswerInv'
      /\ ForbiddenReadsShown' /\ GapsReported' /\ ZeroMeansComplete'
  <2>1. DiscoveryStatus(status) \in {"provided", "hydrated"} => found # Empty
    BY <1>4
  <2>2. IInv /\ phase \in {"connect", "discover"} /\ SettleDiscovery(found, DiscoveryStatus(status))
    BY <1>1, <1>2
  <2> HIDE DEF found
  <2> QED BY <1>1, <1>4, <2>1, <2>2, Settled
<1>7. /\ reads' \in Seq(ReadEntry) /\ reads' # <<>> /\ DOMAIN reads' = {1} /\ reads'[1] = e
  <2>1. Len(reads) = 0
    BY <1>3, EmptySequence
  <2>2. reads' = Append(reads, e)
    BY <1>2
  <2> HIDE DEF e
  <2> QED BY <1>3, <1>5, <2>1, <2>2, ReadAppended
<1>8. ReadsWithinBoundary'
  <2>1. reads' = Append(reads, e)
    BY <1>2
  <2> HIDE DEF e
  <2> QED BY <1>1, <1>3, <1>5, <2>1, OneMoreRead
<1>9. TypeInv'
  BY <1>1, <1>3, <1>6, <1>7 DEF TypeInv, Phases
<1>10. phase' \in {"validating", "resources"} => reads'[1].status = "success"
  BY <1>5, <1>6, <1>7
<1>11. \A r \in DOMAIN reads' :
         /\ reads'[r].call = "discovery" /\ reads'[r].resource = 0
         /\ reads'[r].status = "forbidden" => base'["discovery"] = "forbidden"
  <2> HIDE DEF e
  <2> QED BY <1>4, <1>5, <1>6, <1>7
<1>12. ReadInv'
  BY <1>1, <1>3, <1>6, <1>7, <1>8, <1>10, <1>11 DEF ReadInv, Lists
<1>13. ForbiddenInv'
  BY <1>6, <1>11 DEF ForbiddenInv, IsForbidden, Lists
<1> QED BY <1>6, <1>9, <1>12, <1>13 DEF IInv

-------------------------------------------------------------------------------
(***************************************************************************)
(* The exit code of one explanation, and of all of them: 0 only when none  *)
(* has a diagnostic, a gap or an open verdict.                             *)
(***************************************************************************)
Clear(x) ==
  /\ x.diagnostics = {}
  /\ \A d \in Dimensions : x.completeness[d] \notin Unavailable
  /\ \A verdict \in VerdictsOf(x.evaluations) : verdict.determination = "determinate"

LEMMA VerdictOfSome ==
  ASSUME NEW evaluations, NEW verdict \in VerdictsOf(evaluations)
  PROVE  \E c \in DOMAIN evaluations : verdict \in VerdictsOf(<<evaluations[c]>>)
<1>1. PICK c \in DOMAIN evaluations :
        verdict \in {evaluations[c].verdicts[k] : k \in DOMAIN evaluations[c].verdicts}
  BY DEF VerdictsOf
<1> DEFINE one == <<evaluations[c]>>
<1>2. 1 \in DOMAIN one /\ one[1] = evaluations[c]
  OBVIOUS
<1>3. verdict \in {one[1].verdicts[k] : k \in DOMAIN one[1].verdicts}
  BY <1>1, <1>2
<1> HIDE DEF one
<1>4. verdict \in VerdictsOf(one)
  BY <1>2, <1>3 DEF VerdictsOf
<1> QED BY <1>4 DEF one

LEMMA ExplanationCode ==
  ASSUME NEW x, IsSequence(x.evaluations)
  PROVE  /\ ManifestExplanationExitCode(x) \in {ExitSuccess} \cup Unclear
         /\ ManifestExplanationExitCode(x) = ExitSuccess => Clear(x)
<1> DEFINE code(c) == EvaluationExitCode(VerdictsOf(<<x.evaluations[c]>>))
           unclean == {c \in DOMAIN x.evaluations : code(c) # ExitSuccess}
           first == CHOOSE c \in unclean : \A other \in unclean : c <= other
           lacking == \/ x.diagnostics # {}
                      \/ \E d \in Dimensions : x.completeness[d] \in Unavailable
<1>1. ManifestExplanationExitCode(x) =
        IF lacking THEN ExitIncompleteEvaluation
        ELSE IF unclean = {} THEN ExitSuccess ELSE code(first)
  BY DEF ManifestExplanationExitCode
<1>2. ExitIncompleteEvaluation \in Unclear /\ ExitSuccess \notin Unclear
  BY DEF Unclear, ExitSuccess, ExitIncompleteEvaluation, ExitInternalError
<1>3. CASE lacking
  <2> HIDE DEF unclean, first, code, lacking
  <2> QED BY <1>1, <1>2, <1>3
<1>4. CASE ~lacking /\ unclean = {}
  <2>1. ASSUME NEW verdict \in VerdictsOf(x.evaluations)
        PROVE  verdict.determination = "determinate"
    <3>1. PICK c \in DOMAIN x.evaluations : verdict \in VerdictsOf(<<x.evaluations[c]>>)
      BY VerdictOfSome
    <3>2. code(c) = ExitSuccess
      BY <1>4
    <3> QED BY <3>1, <3>2, EvaluationCode
  <2>2. Clear(x)
    BY <1>4, <2>1 DEF Clear
  <2>3. ManifestExplanationExitCode(x) = ExitSuccess
    <3> HIDE DEF unclean, first, code, lacking
    <3> QED BY <1>1, <1>4
  <2> QED BY <2>2, <2>3
<1>5. CASE ~lacking /\ unclean # {}
  <2>1. unclean \subseteq Nat
    BY SequenceFacts
  <2>2. first \in unclean
    <3> HIDE DEF unclean
    <3> QED BY <1>5, <2>1, LeastChosen
  <2> HIDE DEF first
  <2>3. code(first) # ExitSuccess /\ code(first) \in {ExitSuccess} \cup Unclear
    BY <2>2, EvaluationCode
  <2>4. ManifestExplanationExitCode(x) = code(first)
    <3> HIDE DEF unclean, code, lacking
    <3> QED BY <1>1, <1>5
  <2> HIDE DEF code
  <2> QED BY <2>3, <2>4
<1> QED BY <1>3, <1>4, <1>5

LEMMA ExecutionCode ==
  ASSUME NEW explained, \A i \in DOMAIN explained : IsSequence(explained[i].evaluations)
  PROVE  /\ ExecutionExitCode(explained) \in {ExitSuccess} \cup Unclear
         /\ ExecutionExitCode(explained) = ExitSuccess =>
              \A i \in DOMAIN explained : Clear(explained[i])
<1> DEFINE codes == {ManifestExplanationExitCode(explained[i]) : i \in DOMAIN explained}
<1>1. ExecutionExitCode(explained) = SelectExitCode(codes)
  BY DEF ExecutionExitCode
<1>2. \A i \in DOMAIN explained :
        /\ ManifestExplanationExitCode(explained[i]) \in {ExitSuccess} \cup Unclear
        /\ ManifestExplanationExitCode(explained[i]) = ExitSuccess => Clear(explained[i])
  BY ExplanationCode
<1>3. codes \subseteq {ExitSuccess} \cup Unclear
  BY <1>2
<1>4. ASSUME NEW i \in DOMAIN explained, ~Clear(explained[i])
      PROVE  codes \cap Unclear # {}
  BY <1>2, <1>4
<1>5. ExitSuccess \notin Unclear
  BY DEF Unclear, ExitSuccess, ExitIncompleteEvaluation, ExitInternalError
<1> HIDE DEF codes
<1> QED BY <1>1, <1>3, <1>4, <1>5, UnclearSelected

-------------------------------------------------------------------------------
(***************************************************************************)
(* What an explanation says of the reads, the sources and the verdicts it  *)
(* is built from.                                                          *)
(***************************************************************************)
LEMMA Finalized ==
  ASSUME NEW completeness \in [Dimensions -> CompletenessStatuses], NEW evaluations
  PROVE  LET final == FinalizeCompleteness(completeness, evaluations) IN
           /\ final \in [Dimensions -> CompletenessStatuses]
           /\ final["discovery"] = completeness["discovery"]
           /\ final["configuration"] = completeness["configuration"]
           /\ completeness["namespace"] = "forbidden" => final["namespace"] = "forbidden"
           /\ \A verdict \in VerdictsOf(evaluations) :
                DimensionOf(verdict.reason) \in Dimensions =>
                  final[DimensionOf(verdict.reason)] \in Unavailable
<1> DEFINE lacking == {DimensionOf(reason) : reason \in Reasons(evaluations)}
           final == FinalizeCompleteness(completeness, evaluations)
<1>1. final = [d \in Dimensions |->
                 IF d \notin lacking THEN completeness[d]
                 ELSE IF d = "namespace" THEN MissingUnlessUnavailable(completeness[d])
                 ELSE "missing"]
  BY DEF FinalizeCompleteness
<1>2. \A d \in lacking : d \in {"namespace", "identity", "equivalence", "authorization", "none"}
  BY DEF DimensionOf
<1>3. \A verdict \in VerdictsOf(evaluations) : DimensionOf(verdict.reason) \in lacking
  BY DEF Reasons
<1>4. "discovery" \notin lacking /\ "configuration" \notin lacking
  BY <1>2
<1>5. \A status : /\ MissingUnlessUnavailable(status) \in Unavailable
                  /\ status = "forbidden" => MissingUnlessUnavailable(status) = "forbidden"
  BY DEF MissingUnlessUnavailable, Unavailable
<1>6. "missing" \in Unavailable /\ Unavailable \subseteq CompletenessStatuses
  BY DEF Unavailable, CompletenessStatuses
<1>7. {"discovery", "configuration", "namespace"} \subseteq Dimensions
  BY DEF Dimensions
<1> HIDE DEF lacking, final
<1>8. final \in [Dimensions -> CompletenessStatuses]
  BY <1>1, <1>5, <1>6
<1>9. \A d \in lacking \cap Dimensions : final[d] \in Unavailable
  BY <1>1, <1>5, <1>6
<1>10. /\ final["discovery"] = completeness["discovery"]
       /\ final["configuration"] = completeness["configuration"]
       /\ completeness["namespace"] = "forbidden" => final["namespace"] = "forbidden"
  BY <1>1, <1>4, <1>5, <1>7
<1> QED BY <1>3, <1>8, <1>9, <1>10 DEF final

WellFormed(x) ==
  /\ IsSequence(x.evaluations)
  /\ x.completeness \in [Dimensions -> CompletenessStatuses]
  /\ x.diagnostics \subseteq DiagnosticCodes
  /\ \A verdict \in VerdictsOf(x.evaluations) :
       DimensionOf(verdict.reason) \in Dimensions =>
         x.completeness[DimensionOf(verdict.reason)] \in Unavailable

Shows(x, i) ==
  /\ x.completeness["discovery"] = base["discovery"]
  /\ x.completeness["configuration"] = base["configuration"]
  /\ contexts[i].status = "forbidden" => x.completeness["namespace"] = "forbidden"
  /\ resolver # Empty =>
       [c \in DOMAIN x.evaluations |-> x.evaluations[c].configuration] = configurations

LEMMA Explained ==
  ASSUME TypeInv, ContextInv, Len(contexts) = Len(command.resources),
         NEW i \in DOMAIN command.resources
  PROVE  WellFormed(ExplanationOf(i)) /\ Shows(ExplanationOf(i), i)
<1> DEFINE evaluations == EvaluationsOf(i)
           completeness == [base EXCEPT !["namespace"] = contexts[i].status]
           final == FinalizeCompleteness(completeness, evaluations)
           x == ExplanationOf(i)
<1>1. /\ x.completeness = final /\ x.evaluations = evaluations
      /\ x.diagnostics = DiagnosticsOf(i, evaluations)
  <2> HIDE DEF evaluations, final
  <2> QED BY DEF ExplanationOf, evaluations, final
<1>2. /\ completeness \in [Dimensions -> CompletenessStatuses]
      /\ completeness["discovery"] = base["discovery"]
      /\ completeness["configuration"] = base["configuration"]
      /\ completeness["namespace"] = contexts[i].status
  <2>1. i \in DOMAIN contexts
    BY Inputs, SequenceFacts DEF ContextInv
  <2>2. contexts[i].status \in CompletenessStatuses
    BY <2>1 DEF ContextInv
  <2>3. base \in [Dimensions -> CompletenessStatuses]
    BY DEF TypeInv
  <2> QED BY <2>2, <2>3 DEF Dimensions
<1>3. IsSequence(evaluations)
  <2>1. CASE resolver = Empty
    BY <2>1, EmptySequence DEF EvaluationsOf
  <2>2. CASE resolver # Empty
    <3>1. IsSequence(configurations)
      BY DEF TypeInv
    <3>2. Len(configurations) \in Nat /\ DOMAIN configurations = 1..Len(configurations)
      BY <3>1, SequenceFacts
    <3>3. evaluations = [c \in 1..Len(configurations) |-> evaluations[c]]
      BY <2>2, <3>2 DEF EvaluationsOf
    <3> HIDE DEF evaluations
    <3> QED BY <3>2, <3>3, TableIsSequence
  <2> QED BY <2>1, <2>2
<1>4. resolver # Empty =>
        [c \in DOMAIN evaluations |-> evaluations[c].configuration] = configurations
  <2> SUFFICES ASSUME resolver # Empty
               PROVE  [c \in DOMAIN evaluations |-> evaluations[c].configuration]
                        = configurations
    OBVIOUS
  <2>1. /\ DOMAIN evaluations = DOMAIN configurations
        /\ \A c \in DOMAIN configurations : evaluations[c].configuration = configurations[c]
    BY DEF EvaluationsOf
  <2>2. configurations = [c \in DOMAIN configurations |-> configurations[c]]
    <3>1. IsSequence(configurations)
      BY DEF TypeInv
    <3> QED BY <3>1, SequenceFacts
  <2> HIDE DEF evaluations
  <2>3. [c \in DOMAIN evaluations |-> evaluations[c].configuration]
          = [c \in DOMAIN configurations |-> configurations[c]]
    BY <2>1
  <2> QED BY <2>2, <2>3
<1>5. DiagnosticsOf(i, evaluations) \subseteq DiagnosticCodes
  BY DEF DiagnosticsOf, DiagnosticCodes
<1> HIDE DEF evaluations, completeness
<1>6. /\ final \in [Dimensions -> CompletenessStatuses]
      /\ final["discovery"] = completeness["discovery"]
      /\ final["configuration"] = completeness["configuration"]
      /\ completeness["namespace"] = "forbidden" => final["namespace"] = "forbidden"
      /\ \A verdict \in VerdictsOf(evaluations) :
           DimensionOf(verdict.reason) \in Dimensions =>
             final[DimensionOf(verdict.reason)] \in Unavailable
  BY <1>2, Finalized
<1> HIDE DEF final, x
<1>7. WellFormed(x)
  BY <1>1, <1>3, <1>5, <1>6 DEF WellFormed
<1>8. Shows(x, i)
  BY <1>1, <1>2, <1>4, <1>6 DEF Shows
<1> QED BY <1>7, <1>8 DEF x

(* A refused export adds to the diagnostics and leaves the rest alone. *)
LEMMA Refused ==
  ASSUME NEW explained, NEW refused, NEW i \in DOMAIN explained,
         explained[i] = ExplanationOf(i)
  PROVE  LET x == ApplySnapshotRefusal(explained, refused)[i] IN
           /\ x.evaluations = explained[i].evaluations
           /\ x.completeness = explained[i].completeness
           /\ explained[i].diagnostics \subseteq x.diagnostics
           /\ x.diagnostics \subseteq explained[i].diagnostics \cup {"SNAPSHOT_REFUSED"}
           /\ i \in refused => x.diagnostics # {}
<1> DEFINE e == EvaluationsOf(i)
           f == FinalizeCompleteness([base EXCEPT !["namespace"] = contexts[i].status], e)
           d == DiagnosticsOf(i, e)
           x == ApplySnapshotRefusal(explained, refused)[i]
<1>1. explained[i] = [profile |-> profile, completeness |-> f, diagnostics |-> d,
                      evaluations |-> e]
  BY DEF ExplanationOf
<1>2. x = IF i \in refused
          THEN [explained[i] EXCEPT !.diagnostics = @ \cup {"SNAPSHOT_REFUSED"}]
          ELSE explained[i]
  BY DEF ApplySnapshotRefusal
<1> HIDE DEF e, f, d, x
<1> QED BY <1>1, <1>2 DEF x

-------------------------------------------------------------------------------
(***************************************************************************)
(* The steps that answer.                                                  *)
(***************************************************************************)
Table(explained) == explained = [i \in DOMAIN command.resources |-> explained[i]]

LEMMA Concluded ==
  ASSUME TypeInv, Table(explanations'), phase' = "done",
         exit' = ExecutionExitCode(explanations'),
         \A i \in DOMAIN command.resources : WellFormed(explanations'[i])
  PROVE  /\ AnswerInv' /\ GapsReported'
         /\ exit' = ExitSuccess => \A i \in DOMAIN explanations' : Clear(explanations'[i])
<1>1. DOMAIN explanations' = DOMAIN command.resources
  BY DEF Table
<1>2. \A i \in DOMAIN explanations' : IsSequence(explanations'[i].evaluations)
  BY <1>1 DEF WellFormed
<1>3. /\ exit' \in {ExitSuccess} \cup Unclear
      /\ exit' = ExitSuccess => \A i \in DOMAIN explanations' : Clear(explanations'[i])
  <2>1. /\ ExecutionExitCode(explanations') \in {ExitSuccess} \cup Unclear
        /\ ExecutionExitCode(explanations') = ExitSuccess =>
             \A i \in DOMAIN explanations' : Clear(explanations'[i])
    BY <1>2, ExecutionCode
  <2> QED BY <2>1
<1>4. /\ exit' \in {NotExited, ExitSuccess, ExitInvalidInput, ExitIncompleteEvaluation,
                    ExitInternalError}
      /\ exit' # NotExited
  BY <1>3 DEF Unclear, NotExited, ExitSuccess, ExitInvalidInput, ExitIncompleteEvaluation,
     ExitInternalError
<1>5. \A i \in DOMAIN explanations' :
        /\ explanations'[i].completeness \in [Dimensions -> CompletenessStatuses]
        /\ explanations'[i].diagnostics \subseteq DiagnosticCodes
  BY <1>1 DEF WellFormed
<1>6. AnswerInv'
  BY <1>4, <1>5 DEF AnswerInv
<1>7. ASSUME NEW i \in DOMAIN explanations', NEW verdict \in VerdictsOf(explanations'[i].evaluations),
             verdict.determination # "determinate"
      PROVE  /\ exit' \in {ExitIncompleteEvaluation, ExitInternalError}
             /\ DimensionOf(verdict.reason) \in Dimensions =>
                  explanations'[i].completeness[DimensionOf(verdict.reason)] \in Unavailable
  <2>1. ~Clear(explanations'[i])
    BY <1>7 DEF Clear
  <2>2. exit' \in {ExitIncompleteEvaluation, ExitInternalError}
    BY <1>3, <2>1 DEF Unclear
  <2>3. WellFormed(explanations'[i])
    BY <1>1
  <2> QED BY <2>2, <2>3 DEF WellFormed
<1>8. GapsReported'
  BY <1>7 DEF GapsReported, VerdictsOf
<1> QED BY <1>3, <1>6, <1>8

(* Every forbidden read is shown in the dimension it was made for. *)
LEMMA ReadsShown ==
  ASSUME IInv, phase \in {"explain", "export"}, reads' = reads, Table(explanations'),
         \A i \in DOMAIN command.resources : Shows(explanations'[i], i)
  PROVE  ForbiddenReadsShown'
<1>1. DOMAIN explanations' = DOMAIN command.resources
  BY DEF Table
<1>2. ASSUME NEW r \in DOMAIN reads, NEW i \in DOMAIN explanations',
             reads[r].status = "forbidden", reads[r].resource \in {0, i}
      PROVE  explanations'[i].completeness[DimensionRead(reads[r].call)] = "forbidden"
  <2>1. reads[r].call \in {"discovery", "validating", "mutating", "namespace"}
    <3>1. reads \in Seq(ReadEntry)
      BY DEF IInv, TypeInv
    <3>2. reads[r] \in ReadEntry
      BY <3>1
    <3> QED BY <3>2 DEF ReadEntry
  <2>2. Shows(explanations'[i], i)
    BY <1>1
  <2>3. CASE reads[r].call = "discovery"
    <3>1. base["discovery"] = "forbidden"
      BY <1>2, <2>3 DEF IInv, ForbiddenInv, IsForbidden
    <3> QED BY <2>2, <2>3, <3>1 DEF Shows, DimensionRead
  <2>4. CASE reads[r].call \in Lists
    <3>1. base["configuration"] = "forbidden"
      BY <1>2, <2>4 DEF IInv, ForbiddenInv, IsForbidden
    <3> QED BY <2>2, <2>4, <3>1 DEF Shows, DimensionRead, Lists
  <2>5. CASE reads[r].call = "namespace"
    <3>1. reads[r].resource # 0
      BY <2>5 DEF IInv, ReadInv
    <3>2. reads[r].resource = i
      BY <1>2, <3>1
    <3>3. contexts[i].status = "forbidden"
      BY <1>2, <2>5, <3>2 DEF IInv, ForbiddenInv
    <3> QED BY <2>2, <2>5, <3>3 DEF Shows, DimensionRead
  <2> QED BY <2>1, <2>3, <2>4, <2>5 DEF Lists
<1>3. \A r \in DOMAIN reads : \A i \in DOMAIN explanations' :
        reads[r].status = "forbidden" /\ reads[r].resource \in {0, i} =>
          explanations'[i].completeness[DimensionRead(reads[r].call)] = "forbidden"
  BY <1>2
<1> QED BY <1>3 DEF ForbiddenReadsShown, DimensionRead

(* A clear answer was given with a mapping, on all the configurations. *)
LEMMA ClearIsComplete ==
  ASSUME IInv, phase \in {"explain", "export"}, UNCHANGED inputs, Table(explanations'),
         \A i \in DOMAIN command.resources : Shows(explanations'[i], i),
         exit' = ExitSuccess =>
           /\ \A i \in DOMAIN explanations' : Clear(explanations'[i])
           /\ command.snapshotOut => published'
  PROVE  ZeroMeansComplete'
<1> SUFFICES ASSUME exit' = ExitSuccess PROVE ZeroMeansComplete'
  BY DEF ZeroMeansComplete
<1>0. command' = command /\ history' = history
  BY DEF inputs
<1>1. DOMAIN explanations' = DOMAIN command.resources
  BY DEF Table
<1>2. Len(explanations') = Len(command.resources)
  <2>1. Len(command.resources) \in Nat /\ DOMAIN command.resources = 1..Len(command.resources)
    BY Inputs DEF IInv
  <2>2. explanations' = [i \in 1..Len(command.resources) |-> explanations'[i]]
    BY <2>1 DEF Table
  <2> QED BY <2>1, <2>2, TableIsSequence
<1>3. ASSUME NEW i \in DOMAIN explanations'
      PROVE  AllConfigurations([c \in DOMAIN explanations'[i].evaluations |->
                                  explanations'[i].evaluations[c].configuration])
  <2>1. Clear(explanations'[i]) /\ Shows(explanations'[i], i)
    BY <1>1
  <2>2. base["discovery"] \notin Unavailable /\ base["configuration"] \notin Unavailable
    BY <2>1 DEF Clear, Shows, Dimensions
  <2>3. resolver # Empty /\ AllConfigurations(configurations)
    BY <2>2 DEF IInv, SourceInv
  <2> QED BY <2>1, <2>3 DEF Shows
<1>5. \A i \in DOMAIN explanations' :
        \A verdict \in VerdictsOf(explanations'[i].evaluations) :
          verdict.determination = "determinate"
  BY DEF Clear
<1>6. Len(explanations') = Len(command'.resources) /\ (command'.snapshotOut => published')
  BY <1>0, <1>2
<1>7. \A i \in DOMAIN explanations' :
        AllConfigurations([c \in DOMAIN explanations[i].evaluations |->
                             explanations[i].evaluations[c].configuration])'
  BY <1>0, <1>3 DEF AllConfigurations
<1> QED BY <1>5, <1>6, <1>7 DEF ZeroMeansComplete, VerdictsOf

(* What is gathered when a command answers is left as it is. *)
LEMMA AnswerLeaves ==
  ASSUME IInv, phase \in {"explain", "export"}, phase' \in {"export", "done"},
         UNCHANGED <<inputs, gathered, contexts>>, published' \in BOOLEAN,
         ForbiddenReadsShown'
  PROVE  TypeInv' /\ ContextInv' /\ ReadInv' /\ ForbiddenInv' /\ SourceInv'
<1>1. UNCHANGED <<command, cluster, history, profile, resolver, validating, configurations,
                  base, incomplete, reads, contexts>>
  BY DEF inputs, gathered
<1>2. TypeInv'
  BY <1>1 DEF IInv, TypeInv, Phases
<1>3. ContextInv'
  BY <1>1 DEF IInv, ContextInv
<1>4. ReadInv'
  BY <1>1 DEF IInv, ReadInv, ReadsWithinBoundary
<1>5. ForbiddenInv'
  BY <1>1 DEF IInv, ForbiddenInv, IsForbidden
<1>6. SourceInv'
  <2>1. AllConfigurations(configurations)' = AllConfigurations(configurations)
    BY <1>1 DEF AllConfigurations
  <2> QED BY <1>1, <2>1 DEF IInv, SourceInv, Lists
<1> QED BY <1>2, <1>3, <1>4, <1>5, <1>6

(* An explanation is made of the command and of what was gathered for it. *)
LEMMA SameExplanation ==
  ASSUME UNCHANGED <<command, profile, resolver, configurations, base, incomplete, contexts>>,
         NEW i
  PROVE  EvaluationsOf(i)' = EvaluationsOf(i) /\ ExplanationOf(i)' = ExplanationOf(i)
<1>1. EvaluationsOf(i)' = EvaluationsOf(i)
  BY DEF EvaluationsOf, Scenario, Judge, Identified
<1>2. \A evaluations : DiagnosticsOf(i, evaluations)' = DiagnosticsOf(i, evaluations)
  BY DEF DiagnosticsOf
<1>3. ExplanationOf(i)' = ExplanationOf(i)
  BY <1>1, <1>2 DEF ExplanationOf, DiagnosticsOf
<1> QED BY <1>1, <1>3

LEMMA ExplainStep ==
  ASSUME IInv, Explain
  PROVE  IInv'
<1>1. /\ phase = "explain"
      /\ explanations' = [i \in DOMAIN command.resources |-> ExplanationOf(i)]
      /\ \/ command.snapshotOut /\ phase' = "export" /\ exit' = exit
         \/ /\ ~command.snapshotOut /\ phase' = "done"
            /\ exit' = ExecutionExitCode(explanations')
      /\ UNCHANGED <<inputs, gathered, contexts>> /\ published' = published
  BY DEF Explain, Finish
<1>2. UNCHANGED <<command, cluster, history, profile, resolver, validating, configurations,
                  base, incomplete, reads, contexts>>
  BY <1>1 DEF inputs, gathered
<1>3. /\ TypeInv /\ ContextInv /\ published \in BOOLEAN
      /\ Len(contexts) = Len(command.resources)
  BY <1>1 DEF IInv, TypeInv, ContextInv
<1>4. /\ Table(explanations') /\ DOMAIN explanations' = DOMAIN command.resources
      /\ \A i \in DOMAIN command.resources : explanations'[i] = ExplanationOf(i)
  BY <1>1 DEF Table
<1>5. \A i \in DOMAIN command.resources :
        WellFormed(explanations'[i]) /\ Shows(explanations'[i], i)
  BY <1>3, <1>4, Explained
<1>6. ForbiddenReadsShown'
  BY <1>1, <1>2, <1>4, <1>5, ReadsShown
<1>7. TypeInv' /\ ContextInv' /\ ReadInv' /\ ForbiddenInv' /\ SourceInv'
  BY <1>1, <1>3, <1>6, AnswerLeaves
<1>8. CASE phase' = "export" /\ exit' = exit
  <2>1. exit = NotExited /\ exit' = NotExited
    BY <1>1, <1>8 DEF IInv, AnswerInv
  <2>2. ASSUME NEW i \in DOMAIN command.resources
        PROVE  explanations'[i] = ExplanationOf(i)'
    <3>1. ExplanationOf(i)' = ExplanationOf(i)
      BY <1>2, SameExplanation
    <3> QED BY <1>4, <3>1
  <2>3. \A i \in DOMAIN explanations' :
          /\ explanations'[i].completeness \in [Dimensions -> CompletenessStatuses]
          /\ explanations'[i].diagnostics \subseteq DiagnosticCodes
    BY <1>4, <1>5 DEF WellFormed
  <2>4. DOMAIN explanations' = DOMAIN command'.resources
    BY <1>2, <1>4
  <2>5. \A i \in DOMAIN explanations' : explanations'[i] = ExplanationOf(i)'
    BY <1>4, <2>2
  <2>6. AnswerInv'
    BY <1>8, <2>1, <2>3, <2>4, <2>5 DEF AnswerInv
  <2>7. GapsReported'
    <3>1. \A i \in DOMAIN explanations' : \A verdict \in VerdictsOf(explanations'[i].evaluations) :
            DimensionOf(verdict.reason) \in Dimensions =>
              explanations'[i].completeness[DimensionOf(verdict.reason)] \in Unavailable
      BY <1>4, <1>5 DEF WellFormed
    <3> QED BY <1>8, <3>1 DEF GapsReported, VerdictsOf
  <2>8. ZeroMeansComplete'
    BY <2>1 DEF ZeroMeansComplete, NotExited, ExitSuccess
  <2> QED BY <1>6, <1>7, <2>6, <2>7, <2>8 DEF IInv
<1>9. CASE /\ ~command.snapshotOut /\ phase' = "done"
           /\ exit' = ExecutionExitCode(explanations')
  <2>1. /\ AnswerInv' /\ GapsReported'
        /\ exit' = ExitSuccess => \A i \in DOMAIN explanations' : Clear(explanations'[i])
    BY <1>3, <1>4, <1>5, <1>9, Concluded
  <2>2. ZeroMeansComplete'
    BY <1>1, <1>4, <1>5, <1>9, <2>1, ClearIsComplete
  <2> QED BY <1>6, <1>7, <2>1, <2>2 DEF IInv
<1> QED BY <1>1, <1>8, <1>9

LEMMA ExplainFailsStep ==
  ASSUME IInv, ExplainFails
  PROVE  IInv'
<1>1. /\ phase = "explain" /\ UNCHANGED <<inputs, gathered, contexts, produced>>
      /\ phase' = "done" /\ exit' = ExitInvalidInput
  BY DEF ExplainFails, Abort
<1> QED BY <1>1, AbortStep

LEMMA ExportStep ==
  ASSUME IInv, Export
  PROVE  IInv'
<1>1. /\ phase = "export" /\ phase' = "done" /\ exit' = ExecutionExitCode(explanations')
      /\ UNCHANGED <<inputs, gathered, contexts>>
  BY DEF Export, Finish
<1>2. PICK refused \in RefusalsOf(explanations) :
        /\ published' = (refused = {})
        /\ explanations' = ApplySnapshotRefusal(explanations, refused)
  BY DEF Export
<1>3. /\ TypeInv /\ ContextInv /\ Len(contexts) = Len(command.resources)
      /\ DOMAIN explanations = DOMAIN command.resources
      /\ \A i \in DOMAIN explanations : explanations[i] = ExplanationOf(i)
  BY <1>1 DEF IInv, ContextInv, AnswerInv
<1>4. Table(explanations') /\ DOMAIN explanations' = DOMAIN explanations
  BY <1>2, <1>3 DEF Table, ApplySnapshotRefusal
<1>5. ASSUME NEW i \in DOMAIN explanations
      PROVE  /\ WellFormed(explanations'[i]) /\ Shows(explanations'[i], i)
             /\ i \in refused => explanations'[i].diagnostics # {}
  <2>1. /\ explanations'[i].evaluations = explanations[i].evaluations
        /\ explanations'[i].completeness = explanations[i].completeness
        /\ explanations'[i].diagnostics \subseteq explanations[i].diagnostics \cup {"SNAPSHOT_REFUSED"}
        /\ i \in refused => explanations'[i].diagnostics # {}
    BY <1>2, <1>3, Refused
  <2>2. WellFormed(explanations[i]) /\ Shows(explanations[i], i)
    BY <1>3, Explained
  <2>3. WellFormed(explanations'[i])
    BY <2>1, <2>2 DEF WellFormed, DiagnosticCodes
  <2>4. Shows(explanations'[i], i)
    BY <2>1, <2>2 DEF Shows
  <2> QED BY <2>1, <2>3, <2>4
<1>6. ForbiddenReadsShown'
  BY <1>1, <1>3, <1>4, <1>5, ReadsShown DEF gathered
<1>7. published' \in BOOLEAN
  BY <1>2
<1>8. TypeInv' /\ ContextInv' /\ ReadInv' /\ ForbiddenInv' /\ SourceInv'
  BY <1>1, <1>6, <1>7, AnswerLeaves
<1>9. /\ AnswerInv' /\ GapsReported'
      /\ exit' = ExitSuccess => \A i \in DOMAIN explanations' : Clear(explanations'[i])
  BY <1>1, <1>3, <1>4, <1>5, Concluded
<1>10. refused # {} => \E i \in DOMAIN explanations : i \in refused
  <2> DEFINE all == DOMAIN explanations
             secrets == {i \in all : command.resources[i].secret}
             first == CHOOSE i \in secrets : \A j \in secrets : i <= j
  <2>1. all \subseteq Nat /\ all # {}
    <3>1. /\ Len(command.resources) \in Nat \ {0}
          /\ DOMAIN command.resources = 1..Len(command.resources)
      BY <1>3, Inputs
    <3>2. all = 1..Len(command.resources)
      BY <1>3, <3>1
    <3>3. \A n \in Nat \ {0} : 1..n \subseteq Nat /\ 1 \in 1..n
      OBVIOUS
    <3> HIDE DEF all
    <3> QED BY <3>1, <3>2, <3>3
  <2>2. \/ refused \in {{}, all} \/ \E i \in all : refused = {i}
        \/ secrets # {} /\ refused = {first}
    BY <1>2 DEF RefusalsOf
  <2>3. secrets # {} => first \in all
    <3>1. secrets \subseteq Nat /\ secrets \subseteq all
      BY <2>1
    <3> HIDE DEF secrets, all
    <3>2. secrets # {} => first \in secrets
      BY <3>1, LeastChosen
    <3> QED BY <3>1, <3>2
  <2> HIDE DEF first
  <2> QED BY <2>1, <2>2, <2>3
<1>11. exit' = ExitSuccess => published'
  <2>1. ASSUME exit' = ExitSuccess PROVE refused = {}
    <3>1. \A i \in DOMAIN explanations : i \notin refused
      BY <1>4, <1>5, <1>9, <2>1 DEF Clear
    <3> QED BY <1>10, <3>1
  <2> QED BY <1>2, <2>1
<1>12. ZeroMeansComplete'
  BY <1>1, <1>3, <1>4, <1>5, <1>9, <1>11, ClearIsComplete
<1> QED BY <1>6, <1>8, <1>9, <1>12 DEF IInv

LEMMA ConnectMismatchedStep ==
  ASSUME IInv, ConnectMismatched
  PROVE  IInv'
<1>1. /\ phase = "connect" /\ phase' = "done" /\ profile' = "mismatch"
      /\ explanations' = [i \in DOMAIN command.resources |-> MismatchExplanation]
      /\ exit' = ExecutionExitCode(explanations')
      /\ UNCHANGED <<command, cluster, history, resolver, validating, configurations, base,
                     incomplete, reads, contexts, published>>
  BY DEF ConnectMismatched, Finish, inputs
<1>2. /\ reads = <<>> /\ DOMAIN reads = {} /\ reads' = <<>> /\ DOMAIN reads' = {}
      /\ contexts = <<>> /\ TypeInv
  BY <1>1, EmptySequence DEF IInv, ReadInv, ContextInv
<1> DEFINE x == MismatchExplanation
<1>3. WellFormed(x) /\ x.diagnostics # {}
  <2>1. base \in [Dimensions -> CompletenessStatuses]
    BY <1>2 DEF TypeInv
  <2>2. x.completeness \in [Dimensions -> CompletenessStatuses]
    BY <2>1 DEF MismatchExplanation, Dimensions, CompletenessStatuses
  <2>3. x.evaluations = <<>> /\ x.diagnostics = {"PROFILE_MISMATCH"}
    BY DEF MismatchExplanation
  <2> HIDE DEF x
  <2>4. IsSequence(x.evaluations) /\ VerdictsOf(x.evaluations) = {}
    BY <2>3, EmptySequence DEF VerdictsOf
  <2> QED BY <2>2, <2>3, <2>4 DEF WellFormed, DiagnosticCodes
<1>4. /\ Table(explanations')
      /\ \A i \in DOMAIN command.resources : explanations'[i] = x
  BY <1>1 DEF Table
<1>5. /\ AnswerInv' /\ GapsReported'
      /\ exit' = ExitSuccess => \A i \in DOMAIN explanations' : Clear(explanations'[i])
  <2> HIDE DEF x
  <2> QED BY <1>1, <1>2, <1>3, <1>4, Concluded
<1>6. exit' # ExitSuccess
  <2>1. /\ DOMAIN command.resources = 1..Len(command.resources)
        /\ Len(command.resources) \in Nat \ {0}
    BY <1>2, Inputs
  <2>2. 1 \in DOMAIN command.resources /\ DOMAIN explanations' = DOMAIN command.resources
    BY <1>1, <2>1
  <2>3. ~Clear(explanations'[1])
    BY <1>3, <1>4, <2>2 DEF Clear
  <2> QED BY <1>5, <2>2, <2>3
<1>7. ZeroMeansComplete'
  BY <1>6 DEF ZeroMeansComplete
<1>8. TypeInv'
  BY <1>1 DEF IInv, TypeInv, Phases
<1>9. ContextInv'
  BY <1>1 DEF IInv, ContextInv
<1>10. ReadInv'
  BY <1>1, <1>2 DEF ReadInv, ReadsWithinBoundary
<1>11. ForbiddenInv'
  BY <1>1, <1>2 DEF ForbiddenInv, ForbiddenReadsShown
<1>12. SourceInv'
  BY <1>1 DEF SourceInv, Lists
<1> QED BY <1>5, <1>7, <1>8, <1>9, <1>10, <1>11, <1>12 DEF IInv

-------------------------------------------------------------------------------
(***************************************************************************)
(* The two LISTs.                                                          *)
(***************************************************************************)
LEMMA Listed ==
  ASSUME NEW items, NEW result \in ListResults(items), IsSequence(items)
  PROVE  /\ result.status \in ReadStatuses /\ IsSequence(result.items)
         /\ result.status \in {"success", "empty"} => result.items = items
BY EmptySequence DEF ListResults, ReadStatuses, ReadFailures

LEMMA Listing ==
  ASSUME IInv, phase \in Lists
  PROVE  /\ TypeInv /\ ReadsWithinBoundary /\ command.context /\ profile = "verified"
         /\ command.webhookConfig = <<>> /\ contexts = <<>> /\ resolver # Empty
         /\ reads # <<>> /\ reads[1].status = "success"
         /\ \A r \in DOMAIN reads : /\ reads[r].call # "namespace" /\ reads[r].resource = 0
                                    /\ reads[r].call # "mutating"
         /\ explanations = <<>> /\ exit = NotExited
         /\ cluster \in history
         /\ IsSequence(cluster.validating) /\ IsSequence(cluster.mutating)
<1>1. /\ TypeInv /\ ReadsWithinBoundary /\ command.context /\ profile = "verified"
      /\ command.webhookConfig = <<>> /\ resolver # Empty
      /\ reads # <<>> /\ reads[1].status = "success"
  BY DEF IInv, ReadInv, SourceInv, Lists
<1>2. contexts = <<>>
  BY DEF IInv, ContextInv, Lists
<1>3. explanations = <<>> /\ exit = NotExited
  BY DEF IInv, AnswerInv, Lists
<1>4. \A r \in DOMAIN reads : reads[r].call # "namespace"
  BY <1>2, EmptySequence DEF IInv, ForbiddenInv, Lists
<1>5. \A r \in DOMAIN reads : reads[r].resource = 0 /\ reads[r].call # "mutating"
  BY <1>4 DEF IInv, ReadInv, Lists
<1>6. cluster \in history /\ IsSequence(cluster.validating) /\ IsSequence(cluster.mutating)
  BY <1>1, Inputs DEF TypeInv
<1> QED BY <1>1, <1>2, <1>3, <1>4, <1>5, <1>6

LEMMA ListValidatingStep ==
  ASSUME IInv, ListValidating
  PROVE  IInv'
<1>1. /\ phase = "validating" /\ phase' = "mutating"
      /\ validating' \in ListResults(cluster.validating)
      /\ reads' = Append(reads, Read("validating", 0, validating'.status))
      /\ UNCHANGED <<command, cluster, history, profile, resolver, configurations, base,
                     incomplete, contexts, explanations, published, exit>>
  BY DEF ListValidating, inputs, produced
<1>2. /\ TypeInv /\ ReadsWithinBoundary /\ command.context /\ profile = "verified"
      /\ command.webhookConfig = <<>> /\ contexts = <<>> /\ resolver # Empty
      /\ reads # <<>> /\ reads[1].status = "success"
      /\ explanations = <<>> /\ exit = NotExited
      /\ cluster \in history /\ IsSequence(cluster.validating)
  BY <1>1, Listing DEF Lists
<1>3. \A r \in DOMAIN reads :
        /\ reads[r].call # "namespace" /\ reads[r].resource = 0
        /\ reads[r].call # "mutating" /\ reads[r].call # "validating"
  BY <1>1, Listing DEF Lists, IInv, ReadInv
<1>4. /\ validating'.status \in ReadStatuses /\ IsSequence(validating'.items)
      /\ validating'.status \in {"success", "empty"} => validating'.items = cluster.validating
  BY <1>1, <1>2, Listed
<1> DEFINE e == Read("validating", 0, validating'.status)
<1>5. /\ e \in ReadEntry /\ e.call = "validating" /\ e.resource = 0
      /\ e.status = validating'.status
  BY <1>4 DEF ReadEntry, Read
<1>6. reads' = Append(reads, e)
  BY <1>1
<1> HIDE DEF e
<1>7. /\ reads' \in Seq(ReadEntry) /\ reads' # <<>> /\ 1 \in DOMAIN reads
      /\ \A r \in DOMAIN reads' : reads'[r] = e \/ (r \in DOMAIN reads /\ reads'[r] = reads[r])
      /\ \A r \in DOMAIN reads : reads'[r] = reads[r]
  <2>1. reads \in Seq(ReadEntry)
    BY <1>2 DEF TypeInv
  <2>2. 1 \in DOMAIN reads
    BY <1>2, <2>1
  <2> QED BY <1>2, <1>5, <1>6, <2>2, ReadAppended
<1>8. ReadsWithinBoundary'
  BY <1>1, <1>2, <1>3, <1>5, <1>6, OneMoreRead
<1>9. TypeInv'
  BY <1>1, <1>2, <1>4, <1>7 DEF TypeInv, Phases
<1>10. ContextInv'
  BY <1>1 DEF IInv, ContextInv
<1>11. ReadInv'
  <2>1. reads'[1].status = "success"
    BY <1>2, <1>7
  <2>2. \A r \in DOMAIN reads' : /\ reads'[r].call # "mutating" /\ reads'[r].call # "namespace"
                                 /\ reads'[r].resource = 0
    BY <1>3, <1>5, <1>7
  <2> QED BY <1>1, <1>2, <1>7, <1>8, <2>1, <2>2 DEF ReadInv
<1>12. AnswerInv' /\ ForbiddenReadsShown' /\ GapsReported' /\ ZeroMeansComplete'
  BY <1>1, <1>2, StillAsking DEF Phases
<1>13. ForbiddenInv'
  <2>1. \A r \in DOMAIN reads' :
          /\ IsForbidden(r, {"discovery"})' => base'["discovery"] = "forbidden"
          /\ reads'[r].call = "validating" => reads'[r].status = validating'.status
          /\ reads'[r].call # "namespace"
    BY <1>1, <1>3, <1>5, <1>7 DEF IInv, ForbiddenInv, IsForbidden
  <2> QED BY <1>1, <1>12, <2>1 DEF ForbiddenInv
<1>14. SourceInv'
  BY <1>1, <1>2, <1>4 DEF SourceInv, Lists
<1> QED BY <1>9, <1>10, <1>11, <1>12, <1>13, <1>14 DEF IInv

LEMMA ListMutatingStep ==
  ASSUME IInv, ListMutating
  PROVE  IInv'
<1>1. /\ phase = "mutating"
      /\ UNCHANGED <<command, cluster, history, profile, resolver, validating,
                     explanations, published, exit>>
  BY DEF ListMutating, inputs, produced
<1>2. PICK result \in ListResults(cluster.mutating) :
        LET listed == validating.items \o result.items
            status == CombinedConfigurationStatus(validating.status, result.status, Len(listed))
        IN /\ reads' = Append(reads, Read("mutating", 0, result.status))
           /\ configurations' = listed
           /\ base' = [base EXCEPT !["configuration"] = status]
           /\ incomplete' = (status # "hydrated")
           /\ Proceed(resolver, listed)
  BY DEF ListMutating
<1> DEFINE listed == validating.items \o result.items
           status == CombinedConfigurationStatus(validating.status, result.status, Len(listed))
           e == Read("mutating", 0, result.status)
<1>3. /\ TypeInv /\ ReadsWithinBoundary /\ command.context /\ profile = "verified"
      /\ command.webhookConfig = <<>> /\ contexts = <<>> /\ resolver # Empty
      /\ reads # <<>> /\ reads[1].status = "success"
      /\ explanations = <<>> /\ exit = NotExited
      /\ cluster \in history /\ IsSequence(cluster.mutating)
      /\ \A r \in DOMAIN reads :
           /\ reads[r].call # "namespace" /\ reads[r].resource = 0 /\ reads[r].call # "mutating"
  BY <1>1, Listing DEF Lists
<1>4. /\ result.status \in ReadStatuses /\ IsSequence(result.items)
      /\ result.status \in {"success", "empty"} => result.items = cluster.mutating
  BY <1>2, <1>3, Listed
<1>5. IsSequence(listed)
  BY <1>3, <1>4, ConcatFacts DEF TypeInv
<1>6. /\ status \in CompletenessStatuses
      /\ "forbidden" \in {validating.status, result.status} => status = "forbidden"
      /\ status \notin Unavailable =>
           validating.status \in {"success", "empty"} /\ result.status \in {"success", "empty"}
  BY DEF CombinedConfigurationStatus, CompletenessStatuses, Unavailable
<1>7. /\ e \in ReadEntry /\ e.call = "mutating" /\ e.resource = 0 /\ e.status = result.status
  BY <1>4 DEF ReadEntry, Read
<1>8. /\ reads' = Append(reads, e) /\ configurations' = listed
      /\ base' = [base EXCEPT !["configuration"] = status]
      /\ incomplete' \in BOOLEAN /\ Proceed(resolver, listed)
  BY <1>2
<1> HIDE DEF e, status
<1>9. /\ reads' \in Seq(ReadEntry) /\ reads' # <<>>
      /\ reads'[1] = reads[1]
      /\ \A r \in DOMAIN reads' : reads'[r] = e \/ (r \in DOMAIN reads /\ reads'[r] = reads[r])
  <2>1. reads \in Seq(ReadEntry)
    BY <1>3 DEF TypeInv
  <2>2. 1 \in DOMAIN reads
    BY <1>3, <2>1
  <2> QED BY <1>3, <1>7, <1>8, <2>2, ReadAppended
<1>10. ReadsWithinBoundary'
  BY <1>1, <1>3, <1>7, <1>8, OneMoreRead
<1>11. \/ phase' = "explain"
       \/ phase' = "resources" /\ listed # <<>>
  <2> HIDE DEF listed
  <2> QED BY <1>8, Proceeding
<1>12. /\ base' \in [Dimensions -> CompletenessStatuses]
       /\ base'["discovery"] = base["discovery"] /\ base'["configuration"] = status
  BY <1>3, <1>6, <1>8 DEF TypeInv, Dimensions
<1>13. TypeInv'
  <2> HIDE DEF listed
  <2> QED BY <1>1, <1>3, <1>5, <1>8, <1>9, <1>11, <1>12 DEF TypeInv, Phases
<1>14. ContextInv'
  <2> HIDE DEF listed
  <2> QED BY <1>1, <1>3, <1>8, ProceedContexts
<1>15. ReadInv'
  <2>1. \A r \in DOMAIN reads' : reads'[r].call # "namespace" /\ reads'[r].resource = 0
    BY <1>3, <1>7, <1>9
  <2> QED BY <1>1, <1>3, <1>9, <1>10, <1>11, <2>1 DEF ReadInv
<1>16. AnswerInv' /\ ForbiddenReadsShown' /\ GapsReported' /\ ZeroMeansComplete'
  BY <1>1, <1>3, <1>11, StillAsking DEF Phases
<1>17. ForbiddenInv'
  <2>1. ASSUME NEW r \in DOMAIN reads'
        PROVE  /\ IsForbidden(r, {"discovery"})' => base'["discovery"] = "forbidden"
               /\ IsForbidden(r, Lists)' => base'["configuration"] = "forbidden"
               /\ reads'[r].call # "namespace"
    <3>1. CASE reads'[r] = e
      BY <1>6, <1>7, <1>12, <3>1 DEF IsForbidden
    <3>2. CASE r \in DOMAIN reads /\ reads'[r] = reads[r]
      <4>1. reads[r].call = "validating" => reads[r].status = validating.status
        BY <1>1, <3>2 DEF IInv, ForbiddenInv
      <4>2. IsForbidden(r, {"discovery"}) => base["discovery"] = "forbidden"
        BY <3>2 DEF IInv, ForbiddenInv
      <4> QED BY <1>3, <1>6, <1>12, <3>2, <4>1, <4>2 DEF IsForbidden, Lists
    <3> QED BY <1>9, <3>1, <3>2
  <2> QED BY <1>11, <1>16, <2>1 DEF ForbiddenInv
<1>18. SourceInv'
  <2>1. status \notin Unavailable => AllConfigurations(listed)
    <3> SUFFICES ASSUME status \notin Unavailable PROVE AllConfigurations(listed)
      OBVIOUS
    <3>1. PICK first \in history : validating.items = first.validating
      BY <1>1, <1>6 DEF IInv, SourceInv
    <3>2. listed = first.validating \o cluster.mutating
      BY <1>4, <1>6, <3>1
    <3> QED BY <1>3, <3>2 DEF AllConfigurations
  <2>2. AllConfigurations(listed) => AllConfigurations(configurations)'
    BY <1>1, <1>8 DEF AllConfigurations
  <2> HIDE DEF listed
  <2> QED BY <1>1, <1>3, <1>8, <1>11, <1>12, <2>1, <2>2 DEF SourceInv, Lists
<1> QED BY <1>13, <1>14, <1>15, <1>16, <1>17, <1>18 DEF IInv

(* More states of the cluster are more to choose the configurations from. *)
LEMMA ClusterChangesStep ==
  ASSUME IInv, ClusterChanges
  PROVE  IInv'
<1>1. /\ phase \in Reading /\ cluster' \in Clusters /\ history' = history \cup {cluster'}
      /\ UNCHANGED <<command, phase, profile, resolver, validating, configurations, base,
                     incomplete, reads, contexts, explanations, published, exit>>
  BY DEF ClusterChanges, gathered, produced
<1>2. explanations = <<>> /\ exit = NotExited /\ phase \in Phases \ {"export", "done"}
  BY <1>1 DEF IInv, AnswerInv, Reading, Phases
<1>3. TypeInv'
  BY <1>1 DEF IInv, TypeInv
<1>4. ContextInv'
  BY <1>1 DEF IInv, ContextInv
<1>5. ReadInv'
  BY <1>1 DEF IInv, ReadInv, ReadsWithinBoundary
<1>6. AnswerInv' /\ ForbiddenReadsShown' /\ GapsReported' /\ ZeroMeansComplete'
  BY <1>1, <1>2, StillAsking
<1>7. ForbiddenInv'
  BY <1>1, <1>6 DEF IInv, ForbiddenInv, IsForbidden
<1>8. SourceInv'
  <2>1. AllConfigurations(configurations) => AllConfigurations(configurations)'
    BY <1>1 DEF AllConfigurations
  <2> QED BY <1>1, <2>1 DEF IInv, SourceInv, Lists
<1> QED BY <1>3, <1>4, <1>5, <1>6, <1>7, <1>8 DEF IInv

LEMMA StutterStep ==
  ASSUME IInv, UNCHANGED vars
  PROVE  IInv'
<1>1. UNCHANGED <<command, cluster, history, phase, profile, resolver, validating,
                  configurations, base, incomplete, reads, contexts, explanations, published,
                  exit>>
  BY DEF vars, inputs, gathered, produced
<1>2. TypeInv' /\ ContextInv'
  BY <1>1 DEF IInv, TypeInv, ContextInv
<1>3. ReadInv'
  BY <1>1 DEF IInv, ReadInv, ReadsWithinBoundary
<1>4. ForbiddenInv'
  BY <1>1 DEF IInv, ForbiddenInv, IsForbidden, ForbiddenReadsShown, DimensionRead
<1>5. SourceInv'
  BY <1>1 DEF IInv, SourceInv, Lists, AllConfigurations
<1>6. GapsReported'
  BY <1>1 DEF IInv, GapsReported, VerdictsOf
<1>8. ZeroMeansComplete'
  <2>1. \A s : AllConfigurations(s) => AllConfigurations(s)'
    BY <1>1 DEF AllConfigurations
  <2>2. \A i : [c \in DOMAIN explanations[i].evaluations |->
                  explanations[i].evaluations[c].configuration]'
                = [c \in DOMAIN explanations[i].evaluations |->
                     explanations[i].evaluations[c].configuration]
    BY <1>1
  <2> QED BY <1>1, <2>1, <2>2 DEF IInv, ZeroMeansComplete, VerdictsOf
<1>7. AnswerInv'
  <2>1. \A i : ExplanationOf(i)' = ExplanationOf(i)
    BY <1>1, SameExplanation
  <2> QED BY <1>1, <2>1 DEF IInv, AnswerInv
<1> QED BY <1>2, <1>3, <1>4, <1>5, <1>6, <1>7, <1>8 DEF IInv

-------------------------------------------------------------------------------
(***************************************************************************)
(* Building the Scenarios of a resource: at most one read of its           *)
(* Namespace, which its context records.                                   *)
(***************************************************************************)
NoCall(outcome) ==
  /\ outcome.context.status \in {"provided", "not-required", "missing"}
  /\ outcome.calls = <<>>

OneCall(outcome, i, status) ==
  /\ outcome.context.status = NamespaceStatus(status)
  /\ outcome.calls = <<Read("namespace", i, status)>>
  /\ command.context /\ command.namespaceObject = Empty
  /\ NamespaceRequired(command.resources[i])

LEMMA OutcomesRecord ==
  ASSUME NEW i, NEW outcome \in NamespaceOutcomes(i)
  PROVE  \/ NoCall(outcome)
         \/ \E status \in GetResults(command.resources[i].namespace) : OneCall(outcome, i, status)
<1> DEFINE required == NamespaceRequired(command.resources[i])
           name == command.resources[i].namespace
           made(namespaces, status, calls) ==
             [context |-> [namespaces |-> namespaces, status |-> status,
                           incomplete |-> status \in Unavailable],
              calls   |-> calls]
           fetched(status) ==
             made(IF status = "success" THEN [n \in {name} |-> cluster.namespaces[n]] ELSE Empty,
                  NamespaceStatus(status), <<Read("namespace", i, status)>>)
<1>1. \/ /\ command.namespaceObject # Empty
         /\ outcome = made(IF required THEN command.namespaceObject ELSE Empty, "provided", <<>>)
      \/ outcome = made(Empty, "not-required", <<>>)
      \/ outcome = made(Empty, "missing", <<>>)
      \/ /\ command.namespaceObject = Empty /\ command.context /\ required
         /\ \E status \in GetResults(name) : outcome = fetched(status)
  BY Zenon DEF NamespaceOutcomes
<1>2. \A namespaces, status, calls :
        /\ made(namespaces, status, calls).context.status = status
        /\ made(namespaces, status, calls).calls = calls
  OBVIOUS
<1>3. CASE \E namespaces : \E status \in {"provided", "not-required", "missing"} :
             outcome = made(namespaces, status, <<>>)
  <2> HIDE DEF made
  <2> QED BY <1>2, <1>3 DEF NoCall
<1>4. CASE /\ command.namespaceObject = Empty /\ command.context /\ required
           /\ \E status \in GetResults(name) : outcome = fetched(status)
  <2>1. PICK status \in GetResults(name) : outcome = fetched(status)
    BY <1>4
  <2> HIDE DEF made
  <2>2. OneCall(outcome, i, status)
    BY <1>2, <1>4, <2>1 DEF OneCall
  <2> QED BY <2>2
<1> HIDE DEF made
<1> QED BY <1>1, <1>3, <1>4, Zenon

LEMMA ResolveResourceStep ==
  ASSUME IInv, ResolveResource
  PROVE  IInv'
<1> DEFINE i == Len(contexts) + 1
<1>1. /\ phase = "resources"
      /\ UNCHANGED <<inputs, profile, resolver, validating, configurations, base, incomplete,
                     produced>>
      /\ \/ /\ phase' = "done" /\ exit' \in {ExitInvalidInput, ExitIncompleteEvaluation}
            /\ UNCHANGED <<reads, contexts>>
         \/ \E outcome \in NamespaceOutcomes(i) : BuildResource(i, outcome)
  BY DEF ResolveResource, Abort
<1>2. CASE /\ phase' = "done" /\ exit' \in {ExitInvalidInput, ExitIncompleteEvaluation}
           /\ UNCHANGED <<reads, contexts>>
  BY <1>1, <1>2, AbortStep DEF gathered
<1>3. CASE \E outcome \in NamespaceOutcomes(i) : BuildResource(i, outcome)
  <2>1. PICK outcome \in NamespaceOutcomes(i) : BuildResource(i, outcome)
    BY <1>3
  <2>2. UNCHANGED <<command, cluster, history, profile, resolver, validating, configurations,
                    base, incomplete, explanations, published>>
    BY <1>1 DEF inputs, produced
  <2>3. /\ TypeInv /\ ReadsWithinBoundary /\ explanations = <<>> /\ exit = NotExited
        /\ IsSequence(contexts) /\ Len(contexts) < Len(command.resources)
        /\ resolver # Empty /\ configurations # <<>>
    BY <1>1 DEF IInv, ReadInv, ContextInv, SourceInv, AnswerInv
  <2>4. /\ Len(contexts) \in Nat /\ DOMAIN contexts = 1..Len(contexts)
        /\ Len(command.resources) \in Nat /\ i \in Nat /\ i # 0 /\ i \notin DOMAIN contexts
    BY <2>3, Inputs, SequenceFacts
  <2>5. /\ reads' = reads \o outcome.calls
        /\ \/ /\ contexts' = Append(contexts, outcome.context) /\ exit' = exit
              /\ phase' = IF i = Len(command.resources) THEN "explain" ELSE "resources"
           \/ phase' = "done" /\ exit' = ExitInvalidInput /\ contexts' = contexts
    BY <2>1 DEF BuildResource, Abort
  <2> HIDE DEF i
  <2>6. AnswerInv' /\ ForbiddenReadsShown' /\ GapsReported' /\ ZeroMeansComplete'
    BY <2>2, <2>3, <2>5, StillAsking DEF Phases
  <2>7. SourceInv'
    <3>1. phase' \in {"resources", "explain", "done"}
      BY <2>5
    <3>2. AllConfigurations(configurations) => AllConfigurations(configurations)'
      BY <2>2 DEF AllConfigurations
    <3> QED BY <1>1, <2>2, <2>3, <3>1, <3>2 DEF IInv, SourceInv, Lists
  <2>8. /\ outcome.context.status \in CompletenessStatuses
        /\ \/ reads' = reads
           \/ \E status \in ReadStatuses :
                /\ reads' = Append(reads, Read("namespace", i, status))
                /\ status = "forbidden" => outcome.context.status = "forbidden"
                /\ command.context /\ command.namespaceObject = Empty
    <3>1. IsSequence(reads)
      BY <2>3, SequenceOf DEF TypeInv
    <3>2. \/ NoCall(outcome)
          \/ \E status \in GetResults(command.resources[i].namespace) :
               OneCall(outcome, i, status)
      BY <2>1, OutcomesRecord
    <3>3. CASE NoCall(outcome)
      BY <2>5, <3>1, <3>3, ConcatNone DEF NoCall, CompletenessStatuses
    <3>4. ASSUME NEW status \in GetResults(command.resources[i].namespace),
                 OneCall(outcome, i, status)
          PROVE  /\ outcome.context.status \in CompletenessStatuses
                 /\ status \in ReadStatuses
                 /\ reads' = Append(reads, Read("namespace", i, status))
                 /\ status = "forbidden" => outcome.context.status = "forbidden"
                 /\ command.context /\ command.namespaceObject = Empty
      <4>1. status \in ReadStatuses
        BY DEF GetResults, ReadStatuses, ReadFailures
      <4>2. reads' = Append(reads, Read("namespace", i, status))
        BY <2>5, <3>1, <3>4, ConcatNone DEF OneCall
      <4>3. /\ outcome.context.status = NamespaceStatus(status)
            /\ command.context /\ command.namespaceObject = Empty
        BY <3>4 DEF OneCall
      <4>4. /\ NamespaceStatus(status) \in CompletenessStatuses
            /\ status = "forbidden" => NamespaceStatus(status) = "forbidden"
        BY DEF NamespaceStatus, CompletenessStatuses
      <4> QED BY <4>1, <4>2, <4>3, <4>4
    <3> QED BY <3>2, <3>3, <3>4
  <2>9. ContextInv'
    <3>1. CASE contexts' = contexts /\ phase' = "done"
      BY <2>2, <3>1 DEF IInv, ContextInv
    <3>2. CASE /\ contexts' = Append(contexts, outcome.context)
               /\ phase' = IF i = Len(command.resources) THEN "explain" ELSE "resources"
      <4>1. /\ IsSequence(contexts') /\ Len(contexts') = i
            /\ contexts'[i] = outcome.context
            /\ \A k \in DOMAIN contexts : contexts'[k] = contexts[k]
        BY <2>3, <2>4, <3>2, AppendFacts DEF i
      <4>2. DOMAIN contexts' = 1..i
        BY <4>1, SequenceFacts
      <4>3. \A k \in DOMAIN contexts' : k \in DOMAIN contexts \/ k = i
        BY <2>4, <4>2 DEF i
      <4>4. \A k \in DOMAIN contexts' : contexts'[k].status \in CompletenessStatuses
        BY <2>8, <4>1, <4>3 DEF IInv, ContextInv
      <4>5. /\ Len(contexts') <= Len(command.resources)
            /\ i # Len(command.resources) => Len(contexts') < Len(command.resources)
        BY <2>3, <2>4, <4>1 DEF i
      <4> QED BY <2>2, <3>2, <4>1, <4>4, <4>5 DEF ContextInv
    <3> QED BY <2>5, <3>1, <3>2
  <2>10. CASE reads' = reads
    <3>1. TypeInv'
      BY <2>2, <2>3, <2>5, <2>10 DEF TypeInv, Phases
    <3>2. ReadInv'
      BY <1>1, <2>2, <2>5, <2>10 DEF IInv, ReadInv, ReadsWithinBoundary
    <3>3. ForbiddenInv'
      <4>1. \A r \in DOMAIN reads : reads[r].call = "namespace" => reads[r].resource \in DOMAIN contexts
        BY <1>1 DEF IInv, ForbiddenInv
      <4>2. phase' # "done" =>
              /\ DOMAIN contexts \subseteq DOMAIN contexts'
              /\ \A k \in DOMAIN contexts : contexts'[k] = contexts[k]
        <5> SUFFICES ASSUME phase' # "done"
                     PROVE  /\ DOMAIN contexts \subseteq DOMAIN contexts'
                            /\ \A k \in DOMAIN contexts : contexts'[k] = contexts[k]
          OBVIOUS
        <5>1. contexts' = Append(contexts, outcome.context)
          BY <2>5
        <5>2. /\ IsSequence(contexts') /\ Len(contexts') = Len(contexts) + 1
              /\ \A k \in DOMAIN contexts : contexts'[k] = contexts[k]
          BY <2>3, <2>4, <5>1, AppendFacts
        <5>3. DOMAIN contexts' = 1..(Len(contexts) + 1)
          BY <5>2, SequenceFacts
        <5> QED BY <2>4, <5>2, <5>3
      <4>3. phase' # "mutating"
        BY <2>5
      <4> QED BY <1>1, <2>2, <2>6, <2>10, <4>1, <4>2, <4>3 DEF IInv, ForbiddenInv, IsForbidden
    <3> QED BY <2>6, <2>7, <2>9, <3>1, <3>2, <3>3 DEF IInv
  <2>11. ASSUME NEW status \in ReadStatuses,
                reads' = Append(reads, Read("namespace", i, status)),
                status = "forbidden" => outcome.context.status = "forbidden",
                command.context, command.namespaceObject = Empty
         PROVE  IInv'
    <3> DEFINE e == Read("namespace", i, status)
    <3>1. /\ e \in ReadEntry /\ e.call = "namespace" /\ e.resource = i /\ e.status = status
      BY <2>4 DEF ReadEntry, Read
    <3>2. reads' = Append(reads, e)
      BY <2>11
    <3> HIDE DEF e
    <3>3. reads # <<>> /\ reads[1].status = "success" /\ profile = "verified"
      BY <1>1, <2>11 DEF IInv, ReadInv
    <3>4. \A r \in DOMAIN reads :
            reads[r].call = "namespace" =>
              /\ reads[r].resource \in DOMAIN contexts
              /\ reads[r].status = "forbidden" => contexts[reads[r].resource].status = "forbidden"
      BY <1>1 DEF IInv, ForbiddenInv
    <3>5. \A r \in DOMAIN reads : reads[r].call # e.call \/ reads[r].resource # e.resource
      BY <2>4, <3>1, <3>4
    <3>6. ReadsWithinBoundary'
      BY <2>2, <2>3, <2>11, <3>1, <3>2, <3>3, <3>5, OneMoreRead
    <3>7. /\ reads' \in Seq(ReadEntry) /\ reads' # <<>> /\ reads'[1] = reads[1]
          /\ \A r \in DOMAIN reads' :
               reads'[r] = e \/ (r \in DOMAIN reads /\ reads'[r] = reads[r])
      <4>1. reads \in Seq(ReadEntry)
        BY <2>3 DEF TypeInv
      <4>2. 1 \in DOMAIN reads
        BY <3>3, <4>1
      <4> QED BY <2>3, <3>1, <3>2, <4>2, ReadAppended
    <3>8. phase' \in {"resources", "explain", "done"}
      BY <2>5
    <3>9. TypeInv'
      BY <2>2, <2>3, <3>7, <3>8 DEF TypeInv, Phases
    <3>10. ReadInv'
      <4>1. \A r \in DOMAIN reads' : reads'[r].call = "namespace" <=> reads'[r].resource # 0
        BY <2>4, <3>1, <3>7 DEF IInv, ReadInv
      <4> QED BY <2>2, <2>11, <3>3, <3>6, <3>7, <3>8, <4>1 DEF ReadInv
    <3>11. ForbiddenInv'
      <4>1. ASSUME NEW r \in DOMAIN reads'
            PROVE  /\ IsForbidden(r, {"discovery"})' => base'["discovery"] = "forbidden"
                   /\ IsForbidden(r, Lists)' => base'["configuration"] = "forbidden"
        <5>1. /\ IsForbidden(r, {"discovery"})' => reads'[r] = reads[r] /\ r \in DOMAIN reads
              /\ IsForbidden(r, Lists)' => reads'[r] = reads[r] /\ r \in DOMAIN reads
          BY <3>1, <3>7 DEF IsForbidden, Lists
        <5> QED BY <1>1, <2>2, <5>1 DEF IInv, ForbiddenInv, IsForbidden
      <4>2. ASSUME NEW r \in DOMAIN reads', phase' # "done", reads'[r].call = "namespace"
            PROVE  /\ reads'[r].resource \in DOMAIN contexts'
                   /\ reads'[r].status = "forbidden" =>
                        contexts'[reads'[r].resource].status = "forbidden"
        <5>1. contexts' = Append(contexts, outcome.context)
          BY <2>5, <4>2
        <5>2. /\ IsSequence(contexts') /\ Len(contexts') = i
              /\ contexts'[i] = outcome.context
              /\ \A k \in DOMAIN contexts : contexts'[k] = contexts[k]
          BY <2>3, <2>4, <5>1, AppendFacts DEF i
        <5>3. DOMAIN contexts' = 1..i
          BY <5>2, SequenceFacts
        <5>4. DOMAIN contexts \subseteq DOMAIN contexts' /\ i \in DOMAIN contexts'
          BY <2>4, <5>3 DEF i
        <5>5. CASE reads'[r] = e
          BY <2>11, <3>1, <5>2, <5>4, <5>5
        <5>6. CASE r \in DOMAIN reads /\ reads'[r] = reads[r]
          BY <3>4, <4>2, <5>2, <5>4, <5>6
        <5> QED BY <3>7, <5>5, <5>6
      <4> QED BY <2>6, <3>8, <4>1, <4>2 DEF ForbiddenInv
    <3> QED BY <2>6, <2>7, <2>9, <3>9, <3>10, <3>11 DEF IInv
  <2> QED BY <2>8, <2>10, <2>11
<1> QED BY <1>1, <1>2, <1>3

-------------------------------------------------------------------------------
(***************************************************************************)
(* The theorems.                                                           *)
(***************************************************************************)
LEMMA NextInv ==
  ASSUME IInv, [Next]_vars
  PROVE  IInv'
<1>1. CASE Decode
  BY <1>1, DecodeStep
<1>2. CASE ConnectOffline
  BY <1>2, ConnectOfflineStep
<1>3. CASE ConnectFails
  BY <1>3, ConnectFailsStep
<1>4. CASE ConnectMismatched
  BY <1>4, ConnectMismatchedStep
<1>5. CASE ConnectVerified
  BY <1>5, ConnectVerifiedStep
<1>6. CASE Discover
  BY <1>6, DiscoverStep
<1>7. CASE ListValidating
  BY <1>7, ListValidatingStep
<1>8. CASE ListMutating
  BY <1>8, ListMutatingStep
<1>9. CASE ResolveResource
  BY <1>9, ResolveResourceStep
<1>10. CASE Explain
  BY <1>10, ExplainStep
<1>11. CASE Export
  BY <1>11, ExportStep
<1>12. CASE ClusterChanges
  BY <1>12, ClusterChangesStep
<1>13. CASE UNCHANGED vars
  BY <1>13, StutterStep
<1>14. CASE ExplainFails
  BY <1>14, ExplainFailsStep
<1> QED BY <1>1, <1>2, <1>3, <1>4, <1>5, <1>6, <1>7, <1>8, <1>9, <1>10, <1>11, <1>12, <1>13,
           <1>14 DEF Next

(* The invariant the others follow from. *)
THEOREM ExplanationInvariant == Spec => []IInv
BY InitInv, NextInv, PTL DEF Spec

(* The variables hold what their declarations say. *)
THEOREM ExplanationTypes == Spec => []TypeOK
<1>1. IInv => TypeOK
  BY DEF IInv, TypeInv, ContextInv, SourceInv, AnswerInv, TypeOK
<1> QED BY <1>1, ExplanationInvariant, PTL

(* Whatever the clusters hold and however often they change, a command     *)
(* reads only what it may.                                                 *)
THEOREM ReadsBounded == Spec => []ReadsWithinBoundary
<1>1. IInv => ReadsWithinBoundary
  BY DEF IInv, ReadInv
<1> QED BY <1>1, ExplanationInvariant, PTL

(* A forbidden read is shown as forbidden, whatever else fails later. *)
THEOREM ForbiddenShown == Spec => []ForbiddenReadsShown
<1>1. IInv => ForbiddenReadsShown
  BY DEF IInv, ForbiddenInv
<1> QED BY <1>1, ExplanationInvariant, PTL

(* An open verdict is on the list of what is lacking, and in the exit code. *)
THEOREM GapsAreReported == Spec => []GapsReported
<1>1. IInv => GapsReported
  BY DEF IInv
<1> QED BY <1>1, ExplanationInvariant, PTL

(* Exit code 0 stands for a complete answer. *)
THEOREM ZeroIsComplete == Spec => []ZeroMeansComplete
<1>1. IInv => ZeroMeansComplete
  BY DEF IInv
<1> QED BY <1>1, ExplanationInvariant, PTL

-------------------------------------------------------------------------------
(***************************************************************************)
(* No verdict is guessed.  What the invariant above leaves open is where   *)
(* the inputs of an evaluation come from: the configurations from the      *)
(* files or from the cluster as it was at some time, and the Namespace     *)
(* from the file, from the cluster at some time, or from nowhere, as its   *)
(* status says.                                                            *)
(***************************************************************************)
Answers(context, name) ==
  /\ DOMAIN context.namespaces \subseteq {name}
  /\ context.status = "hydrated" =>
       \E state \in history : Extends(state.namespaces, context.namespaces)
  /\ context.status = "provided" => Extends(command.namespaceObject, context.namespaces)
  /\ context.status \notin {"hydrated", "provided"} => DOMAIN context.namespaces = {}

Sources ==
  Range(command.webhookConfig)
    \cup (UNION {Range(state.validating) \cup Range(state.mutating) : state \in history})

AuthenticInv ==
  /\ \A c \in DOMAIN validating.items : validating.items[c] \in Sources
  /\ \A c \in DOMAIN configurations : configurations[c] \in Sources

AnsweredInv ==
  \A i \in DOMAIN contexts : Answers(contexts[i], command.resources[i].namespace)

ExplainedInv ==
  \A i \in DOMAIN explanations :
    \/ explanations[i].evaluations = <<>>
    \/ /\ i \in DOMAIN contexts
       /\ explanations[i].evaluations = EvaluationsOf(i)
       /\ explanations[i].completeness = ExplanationOf(i).completeness

OriginInv == AuthenticInv /\ AnsweredInv /\ ExplainedInv

-------------------------------------------------------------------------------
(***************************************************************************)
(* A Webhook as a user has it: its conditions are as long, cost as much    *)
(* and ask the same queries.                                               *)
(***************************************************************************)
LEMMA ForUserFacts ==
  ASSUME NEW w, WellFormedWebhook(w), NEW user
  PROVE  /\ WellFormedConditions(ForUser(w, user))
         /\ DOMAIN ForUser(w, user).matchConditions = DOMAIN w.matchConditions
         /\ ForUser(w, user).namespaceSelector = w.namespaceSelector
         /\ ForUser(w, user).objectSelector = w.objectSelector
         /\ ForUser(w, user).rules = w.rules
         /\ ForUser(w, user).matchPolicy = w.matchPolicy
<1> DEFINE known(condition) ==
             IF OnUser(condition)
             THEN [condition EXCEPT !.form = "literal", !.value = (condition.user = user)]
             ELSE condition
           conditions == w.matchConditions
           seen == [k \in DOMAIN conditions |-> known(conditions[k])]
           v == ForUser(w, user)
<1>1. v = [w EXCEPT !.matchConditions = seen]
  BY DEF ForUser
<1>2. {"namespaceSelector", "objectSelector", "rules", "matchPolicy", "matchConditions"}
        \subseteq DOMAIN w
  BY DEF WellFormedWebhook
<1>3. \A k \in DOMAIN conditions :
        /\ {"form", "queries", "cost"} \subseteq DOMAIN conditions[k]
        /\ conditions[k].queries \in Seq(Range(conditions[k].queries))
        /\ conditions[k].cost \in Nat
  BY DEF WellFormedWebhook
<1>4. IsSequence(conditions)
  BY DEF WellFormedWebhook, IsSequence
<1>5. \A condition : {"form", "queries", "cost"} \subseteq DOMAIN condition =>
        known(condition).queries = condition.queries /\ known(condition).cost = condition.cost
  OBVIOUS
<1> HIDE DEF known, v
<1>6. /\ v.matchConditions = seen
      /\ v.namespaceSelector = w.namespaceSelector /\ v.objectSelector = w.objectSelector
      /\ v.rules = w.rules /\ v.matchPolicy = w.matchPolicy
  <2> HIDE DEF seen
  <2> QED BY <1>1, <1>2
<1>7. DOMAIN seen = DOMAIN conditions
  OBVIOUS
<1>8. IsSequence(seen)
  <2>1. Len(conditions) \in Nat /\ DOMAIN conditions = 1..Len(conditions)
    BY <1>4, SequenceFacts
  <2>2. seen = [k \in 1..Len(conditions) |-> seen[k]]
    BY <2>1
  <2> HIDE DEF seen
  <2> QED BY <2>1, <2>2, TableIsSequence
<1>9. \A k \in DOMAIN seen : seen[k].cost \in Nat /\ IsSequence(seen[k].queries)
  BY <1>3, <1>5 DEF IsSequence
<1> HIDE DEF seen
<1>10. WellFormedConditions(v)
  BY <1>6, <1>8, <1>9 DEF WellFormedConditions
<1> QED BY <1>6, <1>7, <1>10 DEF v

(* Where nobody asks for the user, everybody sees the same Webhook. *)
LEMMA UserUnseen ==
  ASSUME NEW w, \A k \in DOMAIN w.matchConditions : ~OnUser(w.matchConditions[k]),
         NEW user, NEW other
  PROVE  ForUser(w, user) = ForUser(w, other)
<1> DEFINE known(condition, u) ==
             IF OnUser(condition)
             THEN [condition EXCEPT !.form = "literal", !.value = (condition.user = u)]
             ELSE condition
           conditions == w.matchConditions
<1>1. \A u : ForUser(w, u) = [w EXCEPT !.matchConditions =
                                [k \in DOMAIN conditions |-> known(conditions[k], u)]]
  BY DEF ForUser
<1>2. \A k \in DOMAIN conditions : known(conditions[k], user) = known(conditions[k], other)
  OBVIOUS
<1> HIDE DEF known
<1>3. [k \in DOMAIN conditions |-> known(conditions[k], user)]
        = [k \in DOMAIN conditions |-> known(conditions[k], other)]
  BY <1>2
<1> QED BY <1>1, <1>3

(* Within the budget, a condition stops the evaluator on its own account. *)
LEMMA StopsAlike ==
  ASSUME NEW v, WellFormedConditions(v), NEW r, NEW s,
         \A k \in DOMAIN v.matchConditions :
           /\ ~(Spent(v, [authorization |-> r.authorization])[k] > CostBudget)
           /\ ~(Spent(v, [authorization |-> s.authorization])[k] > CostBudget)
  PROVE  Stopping(v, r) = Stopping(v, s)
<1>1. DOMAIN v.matchConditions = 1..Len(v.matchConditions) /\ Len(v.matchConditions) \in Nat
  BY SequenceFacts DEF WellFormedConditions
<1>2. \A k \in DOMAIN v.matchConditions : k \in 0..Len(v.matchConditions)
  BY <1>1
<1>3. ASSUME NEW x, NEW k \in DOMAIN v.matchConditions
      PROVE  Spent(v, x)[k] = Spent(v, [authorization |-> x.authorization])[k]
  <2> DEFINE given == [authorization |-> x.authorization]
  <2>1. given.authorization = x.authorization
    OBVIOUS
  <2> HIDE DEF given
  <2>2. Spent(v, given)[k] = Spent(v, x)[k]
    BY <1>2, <2>1, SameSpent
  <2> QED BY <2>2 DEF given
<1>4. \A k \in DOMAIN v.matchConditions :
        ~(Spent(v, r)[k] > CostBudget) /\ ~(Spent(v, s)[k] > CostBudget)
  BY <1>3
<1> QED BY <1>4 DEF Stopping

(***************************************************************************)
(* A determinate verdict is the one of every user it may be about, with    *)
(* any mapping, any decisions and any Namespace that was not read.         *)
(***************************************************************************)
LEMMA JudgedTrue ==
  ASSUME command \in Commands, NEW i, NEW w,
         WellFormedWebhook(w), SpelledPlain(w), WithinBudget(w),
         NEW found, NEW more, Extends(more, found),
         Judge(w, Scenario(command.resources[i], found)).determination = "determinate"
  PROVE  TrueWith(w, Judge(w, Scenario(command.resources[i], found)), i, more)
<1> DEFINE less == Scenario(command.resources[i], found)
           verdict == Judge(w, less)
           mine == ForUser(w, command.user)
<1> SUFFICES ASSUME NEW user \in PossibleUsers, NEW unknown \in Unknowns
             PROVE  Agrees(verdict,
                           VerdictOf(ForUser(w, user),
                                     [Scenario(command.resources[i], more) EXCEPT
                                        !.equivalents = unknown.equivalents,
                                        !.authorization = unknown.authorization]))
  BY DEF TrueWith
<1> DEFINE s == [Scenario(command.resources[i], more) EXCEPT
                   !.equivalents = unknown.equivalents,
                   !.authorization = unknown.authorization]
           v == ForUser(w, user)
<1>1. /\ s.authorization = unknown.authorization /\ less.authorization = Empty
      /\ s.request = less.request /\ s.namespaces = more /\ less.namespaces = found
      /\ less.equivalents = Empty
  BY DEF Scenario
<1>2. SuppliesMore(s, less)
  <2>1. DOMAIN Empty = {}
    BY EmptySequence DEF Empty
  <2> HIDE DEF s, less
  <2> QED BY <1>1, <2>1 DEF SuppliesMore, Extends
<1>3. \A a, b : Agrees(a, b) <=> Agrees(b, a)
  BY DEF Agrees
<1>4. verdict.determination = "determinate"
  OBVIOUS
<1>5. verdict = IF ~Identified(command) /\ WebhookRequiresIdentity(w)
                THEN Guarded(VerdictOf(mine, less)) ELSE VerdictOf(mine, less)
  <2> HIDE DEF less
  <2> QED BY DEF Judge
<1>6. user \in Users \cup {c.user : c \in Commands}
  BY DEF PossibleUsers
<1> HIDE DEF s, less, verdict
<1>7. CASE ~(~Identified(command) /\ WebhookRequiresIdentity(w))
  <2>1. v = mine
    <3>1. CASE Identified(command)
      BY <3>1 DEF PossibleUsers
    <3>2. CASE ~WebhookRequiresIdentity(w)
      <4>1. \A k \in DOMAIN w.matchConditions : ~OnUser(w.matchConditions[k])
        BY <3>2 DEF WebhookRequiresIdentity, SpelledPlain
      <4> QED BY <4>1, UserUnseen
    <3> QED BY <1>7, <3>1, <3>2
  <2>2. verdict = VerdictOf(v, less)
    BY <1>5, <1>7, <2>1
  <2>3. WellFormedConditions(v) /\ DOMAIN v.matchConditions = DOMAIN w.matchConditions
    BY ForUserFacts
  <2>4. ASSUME NEW k \in DOMAIN v.matchConditions
        PROVE  /\ ~(Spent(v, [authorization |-> less.authorization])[k] > CostBudget)
               /\ ~(Spent(v, [authorization |-> s.authorization])[k] > CostBudget)
    BY <1>1, <1>6, <2>3 DEF WithinBudget
  <2> HIDE DEF v, mine
  <2>5. Stopping(v, s) = Stopping(v, less)
    BY <2>3, <2>4, StopsAlike
  <2> QED BY <1>2, <1>3, <1>4, <2>2, <2>3, <2>5, MoreKeepsVerdict DEF v, s
<1>8. CASE ~Identified(command) /\ WebhookRequiresIdentity(w)
  <2>1. ~VerdictOf(mine, less).reached /\ verdict = VerdictOf(mine, less)
    <3>1. verdict = IF VerdictOf(mine, less).reached
                    THEN Undecided("IDENTITY_CONTEXT_MISSING", TRUE) ELSE VerdictOf(mine, less)
      BY <1>5, <1>8 DEF Guarded
    <3> HIDE DEF mine
    <3> QED BY <1>4, <3>1, VerdictFields
  <2>2. SameSelection(mine, v)
    BY ForUserFacts DEF SameSelection
  <2> HIDE DEF v, mine
  <2> QED BY <1>2, <1>3, <1>4, <2>1, <2>2, UnreachedKeepsVerdict DEF v, s
<1> QED BY <1>7, <1>8

(***************************************************************************)
(* With its Namespace at hand, no verdict lacks it.                        *)
(***************************************************************************)
LEMMA NamespaceAtHand ==
  ASSUME NEW i, NEW w, NEW found, command.resources[i].namespace \in DOMAIN found
  PROVE  Judge(w, Scenario(command.resources[i], found)).reason # "NAMESPACE_CONTEXT_MISSING"
<1> DEFINE less == Scenario(command.resources[i], found)
           mine == ForUser(w, command.user)
           r == less.request
<1>1. /\ less.namespaces = found /\ r.subresource = "" /\ r.operation = "CREATE"
      /\ r.namespace = command.resources[i].namespace
  BY DEF Scenario, RequestFor
<1> HIDE DEF less, mine
<1>2. NamespaceOutcome(mine, less) # "missing-context"
  <2>1. CASE NamespaceContextModeFor(r) = "request-object"
    <3>1. NamespaceContextFor(r, found).err \in {"none", "evaluation-error"}
      BY <2>1 DEF NamespaceContextFor
    <3> QED BY <1>1, <3>1 DEF NamespaceOutcome, MatchNamespaceSelector, MatchOutcome
  <2>2. CASE NamespaceContextModeFor(r) # "request-object"
    <3>1. ~IsNamespaceResource(r)
      BY <1>1, <2>2 DEF NamespaceContextModeFor
    <3>2. NamespaceFixtureLookupName(r) \in DOMAIN less.namespaces
      BY <1>1, <3>1 DEF NamespaceFixtureLookupName
    <3>3. NamespaceContextFor(r, less.namespaces).err = "none"
      BY <2>2, <3>2 DEF NamespaceContextFor
    <3> QED BY <3>3 DEF NamespaceOutcome, MatchNamespaceSelector, MatchOutcome
  <2> QED BY <2>1, <2>2
<1>3. VerdictOf(mine, less).reason # "NAMESPACE_CONTEXT_MISSING"
  BY <1>2, NamespaceMissing
<1>4. Judge(w, less) \in {VerdictOf(mine, less), Undecided("IDENTITY_CONTEXT_MISSING", TRUE)}
  BY DEF Judge, Guarded, mine
<1>5. Undecided("IDENTITY_CONTEXT_MISSING", TRUE).reason = "IDENTITY_CONTEXT_MISSING"
  BY DEF Undecided, Verdict
<1> QED BY <1>3, <1>4, <1>5 DEF less

-------------------------------------------------------------------------------
(***************************************************************************)
(* What an explanation is built from.                                      *)
(***************************************************************************)
LEMMA Evaluated ==
  ASSUME NEW i, NEW c \in DOMAIN EvaluationsOf(i)
  PROVE  /\ c \in DOMAIN configurations
         /\ EvaluationsOf(i)[c].configuration = configurations[c]
         /\ DOMAIN EvaluationsOf(i)[c].verdicts = DOMAIN configurations[c].webhooks
         /\ \A k \in DOMAIN configurations[c].webhooks :
              EvaluationsOf(i)[c].verdicts[k] =
                Judge(configurations[c].webhooks[k],
                      Scenario(command.resources[i], contexts[i].namespaces))
<1> DEFINE scenario == Scenario(command.resources[i], contexts[i].namespaces)
           judged(d) == [k \in DOMAIN configurations[d].webhooks |->
                           Judge(configurations[d].webhooks[k], scenario)]
<1>1. resolver # Empty
  BY EmptySequence DEF EvaluationsOf
<1>2. EvaluationsOf(i) =
        [d \in DOMAIN configurations |->
           [configuration |-> configurations[d], verdicts |-> judged(d)]]
  BY <1>1 DEF EvaluationsOf
<1>3. \A d : /\ DOMAIN judged(d) = DOMAIN configurations[d].webhooks
             /\ \A k \in DOMAIN configurations[d].webhooks :
                  judged(d)[k] = Judge(configurations[d].webhooks[k], scenario)
  OBVIOUS
<1> HIDE DEF judged
<1> QED BY <1>2, <1>3

(***************************************************************************)
(* The completeness says of the Namespace what its context says, unless a  *)
(* verdict lacks it; it is at hand only when the context says so.          *)
(***************************************************************************)
LEMMA NamespaceStated ==
  ASSUME IInv, OriginInv, NEW i \in DOMAIN explanations,
         explanations[i].evaluations # <<>>
  PROVE  LET status == explanations[i].completeness["namespace"]
             name   == command.resources[i].namespace
         IN \/ status \in {"hydrated", "provided"} /\ status = contexts[i].status
            \/ /\ status \notin {"hydrated", "provided"}
               /\ \A labels :
                    Extends([n \in {name} |-> labels], contexts[i].namespaces)
<1> DEFINE evaluations == EvaluationsOf(i)
           completeness == [base EXCEPT !["namespace"] = contexts[i].status]
           final == FinalizeCompleteness(completeness, evaluations)
           status == explanations[i].completeness["namespace"]
           name == command.resources[i].namespace
           lacking == {DimensionOf(reason) : reason \in Reasons(evaluations)}
           found == contexts[i].namespaces
<1>1. i \in DOMAIN contexts /\ explanations[i].completeness = final
  <2>1. i \in DOMAIN contexts /\ explanations[i].completeness = ExplanationOf(i).completeness
    BY DEF OriginInv, ExplainedInv
  <2> HIDE DEF evaluations, completeness, final
  <2>2. ExplanationOf(i).completeness = final
    BY DEF ExplanationOf, final, completeness, evaluations
  <2> QED BY <2>1, <2>2
<1>2. Answers(contexts[i], name)
  BY <1>1 DEF OriginInv, AnsweredInv
<1>3. completeness["namespace"] = contexts[i].status
  BY DEF IInv, TypeInv, Dimensions
<1>4. status = IF "namespace" \notin lacking THEN contexts[i].status
               ELSE MissingUnlessUnavailable(contexts[i].status)
  <2> HIDE DEF evaluations, completeness, lacking
  <2>1. final["namespace"] = IF "namespace" \notin lacking THEN completeness["namespace"]
                             ELSE MissingUnlessUnavailable(completeness["namespace"])
    BY DEF FinalizeCompleteness, lacking, Dimensions
  <2> QED BY <1>1, <1>3, <2>1
<1>5. name \in DOMAIN found => "namespace" \notin lacking
  <2> SUFFICES ASSUME name \in DOMAIN found, "namespace" \in lacking PROVE FALSE
    OBVIOUS
  <2>1. PICK verdict \in VerdictsOf(evaluations) : DimensionOf(verdict.reason) = "namespace"
    BY DEF Reasons
  <2>2. verdict.reason = "NAMESPACE_CONTEXT_MISSING"
    BY <2>1 DEF DimensionOf
  <2>3. PICK c \in DOMAIN evaluations : \E k \in DOMAIN evaluations[c].verdicts :
          verdict = evaluations[c].verdicts[k]
    BY <2>1 DEF VerdictsOf
  <2>4. PICK k \in DOMAIN evaluations[c].verdicts : verdict = evaluations[c].verdicts[k]
    BY <2>3
  <2>5. verdict = Judge(configurations[c].webhooks[k], Scenario(command.resources[i], found))
    <3> HIDE DEF found
    <3> QED BY <2>4, Evaluated DEF found
  <2> QED BY <2>2, <2>5, NamespaceAtHand
<1> HIDE DEF lacking, found, name, status
<1>6. CASE status \in {"hydrated", "provided"}
  BY <1>4, <1>6 DEF MissingUnlessUnavailable, status
<1>7. CASE status \notin {"hydrated", "provided"}
  <2>1. DOMAIN found \subseteq {name}
    BY <1>2 DEF Answers, found
  <2>2. DOMAIN found = {}
    <3>1. CASE contexts[i].status \notin {"hydrated", "provided"}
      BY <1>2, <3>1 DEF Answers, found
    <3>2. CASE contexts[i].status \in {"hydrated", "provided"}
      <4>1. "namespace" \in lacking
        BY <1>4, <1>7, <3>2
      <4> QED BY <1>5, <2>1, <4>1
    <3> QED BY <3>1, <3>2
  <2>3. \A labels : Extends([n \in {name} |-> labels], found)
    BY <2>2 DEF Extends
  <2> QED BY <1>7, <2>3 DEF status, found, name
<1> QED BY <1>6, <1>7

(***************************************************************************)
(* So what the verdicts rest on was there, and nothing else could change   *)
(* them.                                                                   *)
(***************************************************************************)
LEMMA Unguessed ==
  ASSUME NothingHidden, IInv, OriginInv
  PROVE  NoVerdictGuessed
<1> SUFFICES ASSUME NEW i \in DOMAIN explanations,
                    NEW c \in DOMAIN explanations[i].evaluations
             PROVE  LET evaluation == explanations[i].evaluations[c]
                        webhooks   == evaluation.configuration.webhooks
                    IN /\ Authentic(evaluation.configuration)
                       /\ \A k \in DOMAIN webhooks :
                            evaluation.verdicts[k].determination = "determinate" =>
                              TrueOf(webhooks[k], evaluation.verdicts[k], i)
  BY DEF NoVerdictGuessed
<1> DEFINE evaluation == explanations[i].evaluations[c]
           configuration == configurations[c]
           webhooks == configuration.webhooks
           found == contexts[i].namespaces
           stated == explanations[i].completeness["namespace"]
<1>1. explanations[i].evaluations # <<>>
  BY EmptySequence
<1>2. i \in DOMAIN contexts /\ explanations[i].evaluations = EvaluationsOf(i)
  BY <1>1 DEF OriginInv, ExplainedInv
<1>3. /\ c \in DOMAIN configurations /\ evaluation.configuration = configuration
      /\ \A k \in DOMAIN webhooks :
           evaluation.verdicts[k] = Judge(webhooks[k], Scenario(command.resources[i], found))
  BY <1>2, Evaluated
<1>4. Authentic(configuration)
  BY <1>3 DEF OriginInv, AuthenticInv, Sources, Authentic
<1>5. configuration \in Offered
  BY <1>4 DEF Authentic, Offered, IInv, TypeInv
<1>6. \A k \in DOMAIN webhooks :
        WellFormedWebhook(webhooks[k]) /\ SpelledPlain(webhooks[k]) /\ WithinBudget(webhooks[k])
  BY <1>5, ConfigurationsAssumption DEF NothingHidden, PlainlySpelled
<1>7. command \in Commands
  BY DEF IInv, TypeInv
<1>8. \/ stated \in {"hydrated", "provided"} /\ stated = contexts[i].status
      \/ /\ stated \notin {"hydrated", "provided"}
         /\ \A labels :
              Extends([n \in {command.resources[i].namespace} |-> labels], found)
  BY <1>1, NamespaceStated
<1>9. Answers(contexts[i], command.resources[i].namespace)
  BY <1>2 DEF OriginInv, AnsweredInv
<1> HIDE DEF evaluation, configuration, webhooks, found, stated
<1>10. ASSUME NEW k \in DOMAIN webhooks,
              evaluation.verdicts[k].determination = "determinate"
       PROVE  TrueOf(webhooks[k], evaluation.verdicts[k], i)
  <2>1. ASSUME NEW more, Extends(more, found)
        PROVE  TrueWith(webhooks[k], evaluation.verdicts[k], i, more)
    BY <1>3, <1>6, <1>7, <1>10, <2>1, JudgedTrue
  <2>2. CASE stated = "hydrated"
    <3>1. \E state \in history : Extends(state.namespaces, found)
      BY <1>8, <1>9, <2>2 DEF Answers, found
    <3>2. \E state \in history :
            TrueWith(webhooks[k], evaluation.verdicts[k], i, state.namespaces)
      BY <2>1, <3>1
    <3> QED BY <2>2, <3>2 DEF TrueOf, stated
  <2>3. CASE stated = "provided"
    <3>1. Extends(command.namespaceObject, found)
      BY <1>8, <1>9, <2>3 DEF Answers, found
    <3>2. TrueWith(webhooks[k], evaluation.verdicts[k], i, command.namespaceObject)
      BY <2>1, <3>1
    <3> QED BY <2>3, <3>2 DEF TrueOf, stated
  <2>4. CASE stated \notin {"hydrated", "provided"}
    <3>1. \A labels \in LabelSets :
            TrueWith(webhooks[k], evaluation.verdicts[k], i,
                     [n \in {command.resources[i].namespace} |-> labels])
      BY <1>8, <2>1, <2>4
    <3> QED BY <2>4, <3>1 DEF TrueOf, stated
  <2> QED BY <2>2, <2>3, <2>4
<1> QED BY <1>3, <1>4, <1>10 DEF evaluation, webhooks

-------------------------------------------------------------------------------
(***************************************************************************)
(* Where the inputs come from, step by step.  What the cluster held it has *)
(* held ever after, so nothing gathered loses its origin.                  *)
(***************************************************************************)
LEMMA SourcesStay ==
  ASSUME UNCHANGED command, history \subseteq history'
  PROVE  Sources \subseteq Sources'
BY DEF Sources

LEMMA NothingExplained ==
  ASSUME explanations' = <<>>
  PROVE  ExplainedInv'
<1>1. DOMAIN explanations' = {}
  BY EmptySequence
<1> QED BY <1>1 DEF ExplainedInv

LEMMA NothingAnswered ==
  ASSUME contexts' = <<>>
  PROVE  AnsweredInv'
<1>1. DOMAIN contexts' = {}
  BY EmptySequence
<1> QED BY <1>1 DEF AnsweredInv

LEMMA OriginInit == Init => OriginInv
<1> SUFFICES ASSUME Init PROVE OriginInv
  OBVIOUS
<1>1. /\ DOMAIN validating.items = {} /\ DOMAIN configurations = {}
      /\ DOMAIN contexts = {} /\ DOMAIN explanations = {}
  BY EmptySequence DEF Init
<1> QED BY <1>1 DEF OriginInv, AuthenticInv, AnsweredInv, ExplainedInv

LEMMA AuthenticStays ==
  ASSUME AuthenticInv, UNCHANGED <<command, validating, configurations>>,
         history \subseteq history'
  PROVE  AuthenticInv'
<1>1. Sources \subseteq Sources'
  BY SourcesStay
<1> QED BY <1>1 DEF AuthenticInv

LEMMA AnsweredStays ==
  ASSUME AnsweredInv, UNCHANGED <<command, contexts>>, history \subseteq history'
  PROVE  AnsweredInv'
BY DEF AnsweredInv, Answers

(* The steps that gather nothing and explain nothing. *)
LEMMA OriginStays ==
  ASSUME OriginInv, explanations = <<>>,
         UNCHANGED <<command, validating, configurations, contexts, explanations>>,
         history \subseteq history'
  PROVE  OriginInv'
BY AuthenticStays, AnsweredStays, NothingExplained DEF OriginInv

(* Contexts of resources that are not built hold no Namespace. *)
LEMMA ProceedAnswered ==
  ASSUME contexts = <<>>, UNCHANGED command,
         NEW found, NEW selected, Proceed(found, selected)
  PROVE  AnsweredInv'
<1>1. CASE contexts' = contexts
  BY <1>1, NothingAnswered
<1>2. CASE contexts' = [i \in DOMAIN command.resources |->
                          [namespaces |-> Empty, status |-> "not-required",
                           incomplete |-> FALSE]]
  <2>1. DOMAIN Empty = {}
    BY EmptySequence DEF Empty
  <2>2. \A i \in DOMAIN contexts' :
          DOMAIN contexts'[i].namespaces = {} /\ contexts'[i].status = "not-required"
    BY <1>2, <2>1
  <2> QED BY <2>2 DEF AnsweredInv, Answers
<1> QED BY <1>1, <1>2, Proceeding

LEMMA SettledOrigin ==
  ASSUME IInv, OriginInv, phase \in {"connect", "discover"},
         UNCHANGED <<inputs, validating, produced>>,
         NEW found, NEW status, SettleDiscovery(found, status)
  PROVE  OriginInv'
<1>1. /\ command' = command /\ history' = history /\ validating' = validating
      /\ explanations' = explanations
  BY DEF inputs, produced
<1>2. contexts = <<>> /\ explanations = <<>>
  BY DEF IInv, ContextInv, AnswerInv
<1>3. /\ configurations' = command.webhookConfig
      /\ contexts' = contexts \/ Proceed(found, command.webhookConfig)
  BY DEF SettleDiscovery
<1>4. AuthenticInv'
  <2>1. Sources \subseteq Sources'
    BY <1>1, SourcesStay
  <2>2. \A c \in DOMAIN configurations' : configurations'[c] \in Sources
    BY <1>3 DEF Sources, Range
  <2> QED BY <1>1, <2>1, <2>2 DEF OriginInv, AuthenticInv
<1>5. AnsweredInv'
  BY <1>1, <1>2, <1>3, NothingAnswered, ProceedAnswered
<1>6. ExplainedInv'
  BY <1>1, <1>2, NothingExplained
<1> QED BY <1>4, <1>5, <1>6 DEF OriginInv

(* What a LIST returns was in the cluster. *)
LEMMA ListedThere ==
  ASSUME NEW items, NEW result \in ListResults(items)
  PROVE  \A c \in DOMAIN result.items : result.items[c] \in Range(items)
<1>1. result.items = items \/ result.items = <<>>
  BY DEF ListResults
<1> QED BY <1>1, EmptySequence DEF Range

LEMMA ListValidatingOrigin ==
  ASSUME IInv, OriginInv, ListValidating
  PROVE  OriginInv'
<1>1. /\ phase = "validating" /\ validating' \in ListResults(cluster.validating)
      /\ UNCHANGED <<command, history, configurations, contexts, explanations>>
  BY DEF ListValidating, inputs, produced
<1>2. explanations = <<>> /\ cluster \in history
  BY <1>1 DEF IInv, AnswerInv, TypeInv
<1>3. Sources \subseteq Sources'
  BY <1>1, SourcesStay
<1>4. \A c \in DOMAIN validating'.items : validating'.items[c] \in Sources
  <2>1. \A c \in DOMAIN validating'.items : validating'.items[c] \in Range(cluster.validating)
    BY <1>1, ListedThere
  <2> QED BY <1>2, <2>1 DEF Sources
<1>6. AuthenticInv'
  BY <1>1, <1>3, <1>4 DEF OriginInv, AuthenticInv
<1> QED BY <1>1, <1>2, <1>6, AnsweredStays, NothingExplained DEF OriginInv

LEMMA ListMutatingOrigin ==
  ASSUME IInv, OriginInv, ListMutating
  PROVE  OriginInv'
<1>1. /\ phase = "mutating" /\ UNCHANGED <<command, history, validating, explanations>>
      /\ \E result \in ListResults(cluster.mutating) :
           /\ configurations' = validating.items \o result.items
           /\ Proceed(resolver, validating.items \o result.items)
  BY DEF ListMutating, inputs, produced
<1>2. PICK result \in ListResults(cluster.mutating) :
        /\ configurations' = validating.items \o result.items
        /\ Proceed(resolver, validating.items \o result.items)
  BY <1>1
<1> DEFINE listed == validating.items \o result.items
<1>3. /\ explanations = <<>> /\ contexts = <<>> /\ cluster \in history
      /\ IsSequence(cluster.mutating) /\ IsSequence(validating.items)
  BY <1>1, Listing DEF Lists, IInv, TypeInv
<1>4. IsSequence(result.items)
  BY <1>3, Listed
<1>5. Sources \subseteq Sources'
  BY <1>1, SourcesStay
<1>6. \A c \in DOMAIN validating.items : validating.items[c] \in Sources
  BY DEF OriginInv, AuthenticInv
<1>7. \A c \in DOMAIN result.items : result.items[c] \in Sources
  <2>1. \A c \in DOMAIN result.items : result.items[c] \in Range(cluster.mutating)
    BY ListedThere
  <2> QED BY <1>3, <2>1 DEF Sources
<1>8. \A c \in DOMAIN listed : listed[c] \in Sources
  <2>1. /\ DOMAIN validating.items = 1..Len(validating.items)
        /\ DOMAIN result.items = 1..Len(result.items)
    BY <1>3, <1>4, SequenceFacts
  <2>2. validating.items \in Seq(Sources) /\ result.items \in Seq(Sources)
    BY <1>3, <1>4, <1>6, <1>7, <2>1, SequenceIn
  <2>3. listed \in Seq(Sources)
    BY <2>2
  <2> HIDE DEF listed
  <2> QED BY <2>3
<1>9. AuthenticInv'
  <2> HIDE DEF listed
  <2>1. configurations' = listed
    BY <1>2 DEF listed
  <2> QED BY <1>1, <1>5, <1>6, <1>8, <2>1 DEF AuthenticInv
<1>10. AnsweredInv'
  <2> HIDE DEF listed
  <2> QED BY <1>1, <1>2, <1>3, ProceedAnswered DEF listed
<1> QED BY <1>1, <1>3, <1>9, <1>10, NothingExplained DEF OriginInv

(***************************************************************************)
(* A Namespace context has the Namespace its status says: the one of the   *)
(* file, the one the cluster has now, or none.                             *)
(***************************************************************************)
LEMMA OutcomeAnswers ==
  ASSUME cluster \in history, NEW i, NEW outcome \in NamespaceOutcomes(i),
         DOMAIN outcome.context.namespaces \subseteq {command.resources[i].namespace} \ {""}
  PROVE  Answers(outcome.context, command.resources[i].namespace)
<1> DEFINE required == NamespaceRequired(command.resources[i])
           name == command.resources[i].namespace
           made(namespaces, status, calls) ==
             [context |-> [namespaces |-> namespaces, status |-> status,
                           incomplete |-> status \in Unavailable],
              calls   |-> calls]
           there == [n \in {name} |-> cluster.namespaces[n]]
           fetched(status) ==
             made(IF status = "success" THEN there ELSE Empty,
                  NamespaceStatus(status), <<Read("namespace", i, status)>>)
           context == outcome.context
           given == IF required THEN command.namespaceObject ELSE Empty
<1>1. \/ outcome = made(given, "provided", <<>>)
      \/ outcome = made(Empty, "not-required", <<>>)
      \/ outcome = made(Empty, "missing", <<>>)
      \/ \E status \in GetResults(name) : outcome = fetched(status)
  BY Zenon DEF NamespaceOutcomes
<1>2. DOMAIN Empty = {}
  BY EmptySequence DEF Empty
<1>3. \A namespaces : Extends(namespaces, namespaces) /\ Extends(namespaces, Empty)
  BY <1>2 DEF Extends
<1>4. /\ DOMAIN context.namespaces \subseteq {name}
      /\ given \in {command.namespaceObject, Empty}
  OBVIOUS
<1> HIDE DEF made, name, there, given, context
<1>5. CASE outcome = made(given, "provided", <<>>)
  <2>1. context.status = "provided" /\ context.namespaces = given
    BY <1>5 DEF context, made
  <2> QED BY <1>3, <1>4, <2>1 DEF Answers, context, name
<1>6. ASSUME NEW status \in {"not-required", "missing"}, outcome = made(Empty, status, <<>>)
      PROVE  Answers(outcome.context, name)
  <2>1. context.status = status /\ context.namespaces = Empty
    BY <1>6 DEF context, made
  <2> QED BY <1>2, <1>4, <1>6, <2>1 DEF Answers, context, name
<1>7. ASSUME NEW status \in GetResults(name), outcome = fetched(status)
      PROVE  Answers(outcome.context, name)
  <2>1. /\ context.status = NamespaceStatus(status)
        /\ context.namespaces = IF status = "success" THEN there ELSE Empty
    BY <1>7 DEF context, made
  <2>2. CASE status = "success"
    <3>1. NamespaceStatus(status) = "hydrated"
      BY <2>2 DEF NamespaceStatus
    <3>2. name \in DOMAIN cluster.namespaces
      BY <2>2 DEF GetResults, ReadFailures
    <3>3. Extends(cluster.namespaces, there)
      BY <3>2 DEF Extends, there
    <3> QED BY <1>4, <2>1, <2>2, <3>1, <3>3 DEF Answers, context
  <2>3. CASE status # "success"
    <3>1. NamespaceStatus(status) \notin {"hydrated", "provided"}
      BY <2>3 DEF NamespaceStatus
    <3> QED BY <1>2, <1>4, <2>1, <2>3, <3>1 DEF Answers, context
  <2> QED BY <2>2, <2>3
<1> QED BY <1>1, <1>5, <1>6, <1>7 DEF name

LEMMA ResolveResourceOrigin ==
  ASSUME IInv, OriginInv, ResolveResource
  PROVE  OriginInv'
<1> DEFINE i == Len(contexts) + 1
<1>1. /\ phase = "resources"
      /\ UNCHANGED <<command, history, validating, configurations, explanations>>
      /\ \/ contexts' = contexts
         \/ \E outcome \in NamespaceOutcomes(i) : BuildResource(i, outcome)
  BY DEF ResolveResource, inputs, produced
<1>2. /\ explanations = <<>> /\ IsSequence(contexts) /\ cluster \in history
  BY <1>1 DEF IInv, AnswerInv, ContextInv, TypeInv
<1>3. CASE contexts' = contexts
  BY <1>1, <1>2, <1>3, OriginStays
<1>4. CASE \E outcome \in NamespaceOutcomes(i) : BuildResource(i, outcome)
  <2>1. PICK outcome \in NamespaceOutcomes(i) : BuildResource(i, outcome)
    BY <1>4
  <2>2. CASE contexts' = contexts
    BY <1>3, <2>2
  <2>3. CASE /\ contexts' = Append(contexts, outcome.context)
             /\ ScopeValid(command.resources[i], outcome.context.namespaces)
    <3>1. Answers(outcome.context, command.resources[i].namespace)
      BY <1>2, <2>1, <2>3, OutcomeAnswers DEF ScopeValid
    <3>2. /\ IsSequence(contexts') /\ Len(contexts') = i /\ contexts'[i] = outcome.context
          /\ Len(contexts) \in Nat /\ DOMAIN contexts = 1..Len(contexts)
          /\ \A k \in DOMAIN contexts : contexts'[k] = contexts[k]
      BY <1>2, <2>3, AppendFacts, SequenceFacts
    <3> HIDE DEF i
    <3>3. DOMAIN contexts' = 1..i
      BY <3>2, SequenceFacts
    <3>4. \A k \in DOMAIN contexts' : k \in DOMAIN contexts \/ k = i
      BY <3>2, <3>3 DEF i
    <3>5. \A k \in DOMAIN contexts' : Answers(contexts'[k], command.resources[k].namespace)
      BY <3>1, <3>2, <3>4 DEF OriginInv, AnsweredInv
    <3>6. AnsweredInv'
      BY <1>1, <3>5 DEF AnsweredInv, Answers
    <3> QED BY <1>1, <1>2, <3>6, AuthenticStays, NothingExplained DEF OriginInv
  <2> QED BY <2>1, <2>2, <2>3 DEF BuildResource
<1> QED BY <1>1, <1>3, <1>4

(* An explanation goes on saying what it said of what stays as it is. *)
LEMMA ExplainedAgain ==
  ASSUME OriginInv, UNCHANGED <<inputs, gathered, contexts>>,
         \A i \in DOMAIN explanations' :
           /\ i \in DOMAIN contexts
           /\ explanations'[i].evaluations = EvaluationsOf(i)
           /\ explanations'[i].completeness = ExplanationOf(i).completeness
  PROVE  OriginInv'
<1>1. UNCHANGED <<command, history, profile, resolver, validating, configurations, base,
                  incomplete, contexts>>
  BY DEF inputs, gathered
<1>2. ASSUME NEW i
      PROVE  EvaluationsOf(i)' = EvaluationsOf(i) /\ ExplanationOf(i)' = ExplanationOf(i)
  BY <1>1, SameExplanation
<1>3. ASSUME NEW i \in DOMAIN explanations'
      PROVE  /\ i \in DOMAIN contexts'
             /\ explanations'[i].evaluations = EvaluationsOf(i)'
             /\ explanations'[i].completeness = ExplanationOf(i)'.completeness
  <2>1. EvaluationsOf(i)' = EvaluationsOf(i) /\ ExplanationOf(i)' = ExplanationOf(i)
    BY <1>2
  <2> QED BY <1>1, <2>1
<1>4. ExplainedInv'
  BY <1>3 DEF ExplainedInv
<1> QED BY <1>1, <1>4, AuthenticStays, AnsweredStays DEF OriginInv

LEMMA ExplainOrigin ==
  ASSUME IInv, OriginInv, Explain
  PROVE  OriginInv'
<1>1. /\ phase = "explain" /\ UNCHANGED <<inputs, gathered, contexts>>
      /\ explanations' = [i \in DOMAIN command.resources |-> ExplanationOf(i)]
  BY DEF Explain
<1>2. DOMAIN contexts = DOMAIN command.resources
  BY <1>1, Inputs, SequenceFacts DEF IInv, ContextInv
<1>3. \A i : ExplanationOf(i).evaluations = EvaluationsOf(i)
  BY DEF ExplanationOf
<1>4. \A i \in DOMAIN explanations' :
        /\ i \in DOMAIN contexts
        /\ explanations'[i].evaluations = EvaluationsOf(i)
        /\ explanations'[i].completeness = ExplanationOf(i).completeness
  BY <1>1, <1>2, <1>3
<1> QED BY <1>1, <1>4, ExplainedAgain

LEMMA ExportOrigin ==
  ASSUME IInv, OriginInv, Export
  PROVE  OriginInv'
<1>1. /\ phase = "export" /\ UNCHANGED <<inputs, gathered, contexts>>
      /\ \E refused : explanations' = ApplySnapshotRefusal(explanations, refused)
  BY DEF Export
<1>2. PICK refused : explanations' = ApplySnapshotRefusal(explanations, refused)
  BY <1>1
<1>3. /\ DOMAIN contexts = DOMAIN command.resources
      /\ DOMAIN explanations = DOMAIN command.resources
      /\ \A i \in DOMAIN explanations : explanations[i] = ExplanationOf(i)
  BY <1>1, Inputs, SequenceFacts DEF IInv, ContextInv, AnswerInv
<1>4. \A i : ExplanationOf(i).evaluations = EvaluationsOf(i)
  BY DEF ExplanationOf
<1>5. DOMAIN explanations' = DOMAIN explanations
  BY <1>2 DEF ApplySnapshotRefusal
<1>6. ASSUME NEW i \in DOMAIN explanations'
      PROVE  /\ i \in DOMAIN contexts
             /\ explanations'[i].evaluations = EvaluationsOf(i)
             /\ explanations'[i].completeness = ExplanationOf(i).completeness
  <2>1. i \in DOMAIN explanations /\ explanations[i] = ExplanationOf(i)
    BY <1>3, <1>5
  <2>2. /\ explanations'[i].evaluations = explanations[i].evaluations
        /\ explanations'[i].completeness = explanations[i].completeness
    BY <1>2, <2>1, Refused
  <2> QED BY <1>3, <1>4, <2>1, <2>2
<1> QED BY <1>1, <1>6, ExplainedAgain

LEMMA ConnectMismatchedOrigin ==
  ASSUME IInv, OriginInv, ConnectMismatched
  PROVE  OriginInv'
<1>1. /\ UNCHANGED <<command, history, validating, configurations, contexts>>
      /\ explanations' = [i \in DOMAIN command.resources |-> MismatchExplanation]
  BY DEF ConnectMismatched, inputs
<1>2. MismatchExplanation.evaluations = <<>>
  BY DEF MismatchExplanation
<1>3. \A i \in DOMAIN explanations' : explanations'[i].evaluations = <<>>
  BY <1>1, <1>2
<1>4. ExplainedInv'
  BY <1>3 DEF ExplainedInv
<1> QED BY <1>1, <1>4, AuthenticStays, AnsweredStays DEF OriginInv

LEMMA NextOrigin ==
  ASSUME IInv, OriginInv, [Next]_vars
  PROVE  OriginInv'
<1>1. CASE Decode \/ ConnectFails \/ ConnectVerified \/ ExplainFails \/ ClusterChanges
  <2>1. /\ phase \in {"decode", "explain"} \cup Reading
        /\ UNCHANGED <<command, validating, configurations, contexts, explanations>>
        /\ history \subseteq history'
    BY <1>1 DEF Decode, ConnectFails, ConnectVerified, ExplainFails, ClusterChanges, Reading,
       inputs, gathered, produced
  <2>2. explanations = <<>>
    BY <2>1 DEF IInv, AnswerInv, Reading
  <2> QED BY <2>1, <2>2, OriginStays
<1>2. CASE ConnectOffline
  BY <1>2, SettledOrigin DEF ConnectOffline
<1>3. CASE ConnectMismatched
  BY <1>3, ConnectMismatchedOrigin
<1>4. CASE Discover
  BY <1>4, SettledOrigin DEF Discover
<1>5. CASE ListValidating
  BY <1>5, ListValidatingOrigin
<1>6. CASE ListMutating
  BY <1>6, ListMutatingOrigin
<1>7. CASE ResolveResource
  BY <1>7, ResolveResourceOrigin
<1>8. CASE Explain
  BY <1>8, ExplainOrigin
<1>9. CASE Export
  BY <1>9, ExportOrigin
<1>10. CASE UNCHANGED vars
  <2>1. UNCHANGED <<command, cluster, history, phase, profile, resolver, validating,
                    configurations, base, incomplete, reads, contexts, explanations,
                    published, exit>>
    BY <1>10 DEF vars, inputs, gathered, produced
  <2>2. AuthenticInv' /\ AnsweredInv'
    BY <2>1, AuthenticStays, AnsweredStays DEF OriginInv
  <2>3. ASSUME NEW i
        PROVE  EvaluationsOf(i)' = EvaluationsOf(i) /\ ExplanationOf(i)' = ExplanationOf(i)
    BY <2>1, SameExplanation
  <2>4. ASSUME NEW i \in DOMAIN explanations'
        PROVE  \/ explanations'[i].evaluations = <<>>
               \/ /\ i \in DOMAIN contexts'
                  /\ explanations'[i].evaluations = EvaluationsOf(i)'
                  /\ explanations'[i].completeness = ExplanationOf(i)'.completeness
    <3>1. EvaluationsOf(i)' = EvaluationsOf(i) /\ ExplanationOf(i)' = ExplanationOf(i)
      BY <2>3
    <3> QED BY <2>1, <3>1 DEF OriginInv, ExplainedInv
  <2>5. ExplainedInv'
    BY <2>4 DEF ExplainedInv
  <2> QED BY <2>2, <2>5 DEF OriginInv
<1> QED BY <1>1, <1>2, <1>3, <1>4, <1>5, <1>6, <1>7, <1>8, <1>9, <1>10 DEF Next

(***************************************************************************)
(* Whatever a command evaluates was on its files or in the cluster at some *)
(* time, and a Namespace context holds what its status says.               *)
(***************************************************************************)
THEOREM OriginInvariant == Spec => [](IInv /\ OriginInv)
<1>1. Init => IInv /\ OriginInv
  BY InitInv, OriginInit
<1>2. IInv /\ OriginInv /\ [Next]_vars => (IInv /\ OriginInv)'
  BY NextInv, NextOrigin
<1> QED BY <1>1, <1>2, PTL DEF Spec

(***************************************************************************)
(* No verdict is guessed: as long as the conditions spell the user plainly *)
(* and stay within the budget of the evaluator, whoever sent the request,  *)
(* whichever decisions and equivalences there are and whatever Namespaces  *)
(* were not read, a determinate verdict of resource mode is theirs.        *)
(***************************************************************************)
THEOREM VerdictsNotGuessed == ASSUME NothingHidden PROVE Spec => []NoVerdictGuessed
<1>1. IInv /\ OriginInv => NoVerdictGuessed
  BY Unguessed
<1> QED BY <1>1, OriginInvariant, PTL

-------------------------------------------------------------------------------
(***************************************************************************)
(* A determinate verdict on a request of nobody is that of anybody, within *)
(* the budget and beyond it: the scenario is the same.                     *)
(***************************************************************************)
LEMMA JudgedForAnyone ==
  ASSUME ~Identified(command), NEW w, WellFormedWebhook(w), SpelledPlain(w), NEW s,
         Judge(w, s).determination = "determinate", NEW user
  PROVE  Agrees(Judge(w, s), VerdictOf(ForUser(w, user), s))
<1> DEFINE mine == ForUser(w, command.user)
           v == ForUser(w, user)
<1>1. \A a, b : Agrees(a, b) <=> Agrees(b, a)
  BY DEF Agrees
<1>2. CASE WebhookRequiresIdentity(w)
  <2>1. Judge(w, s) = Guarded(VerdictOf(mine, s))
    BY <1>2 DEF Judge
  <2>2. ~VerdictOf(mine, s).reached /\ Judge(w, s) = VerdictOf(mine, s)
    <3>1. Judge(w, s) = IF VerdictOf(mine, s).reached
                        THEN Undecided("IDENTITY_CONTEXT_MISSING", TRUE) ELSE VerdictOf(mine, s)
      BY <2>1 DEF Guarded
    <3> HIDE DEF mine
    <3> QED BY <3>1, VerdictFields
  <2>3. SameSelection(mine, v)
    BY ForUserFacts DEF SameSelection
  <2>4. SuppliesMore(s, s)
    BY DEF SuppliesMore, Extends
  <2> HIDE DEF mine, v
  <2> QED BY <1>1, <2>2, <2>3, <2>4, UnreachedKeepsVerdict DEF v
<1>3. CASE ~WebhookRequiresIdentity(w)
  <2>1. \A k \in DOMAIN w.matchConditions : ~OnUser(w.matchConditions[k])
    BY <1>3 DEF WebhookRequiresIdentity, SpelledPlain
  <2>2. v = mine
    BY <2>1, UserUnseen
  <2>3. Judge(w, s) = VerdictOf(mine, s)
    BY <1>3 DEF Judge
  <2> QED BY <2>2, <2>3 DEF Agrees
<1> QED BY <1>2, <1>3

(***************************************************************************)
(* Nobody's request gets a determinate verdict that depends on who sent    *)
(* it, where every condition that asks for the user spells it the way the  *)
(* guard looks for: taking answers back afterwards is then as good as      *)
(* knowing that the user is not known (webhookRequiresIdentity,            *)
(* markMissingIdentity, internal/manifest/evaluate.go).                    *)
(***************************************************************************)
THEOREM AbsentUserDecidesNothing ==
  ASSUME PlainlySpelled
  PROVE  Spec => []MissingIdentityFailsClosed
<1>1. IInv /\ OriginInv => MissingIdentityFailsClosed
  <2> SUFFICES ASSUME IInv, OriginInv, ~Identified(command),
                      NEW i \in DOMAIN explanations,
                      NEW c \in DOMAIN explanations[i].evaluations,
                      NEW k \in DOMAIN explanations[i].evaluations[c].configuration.webhooks,
                      explanations[i].evaluations[c].verdicts[k].determination = "determinate",
                      NEW user \in Users
               PROVE  Agrees(explanations[i].evaluations[c].verdicts[k],
                             VerdictOf(ForUser(explanations[i].evaluations[c]
                                                 .configuration.webhooks[k], user),
                                       Scenario(command.resources[i], contexts[i].namespaces)))
    BY DEF MissingIdentityFailsClosed
  <2> DEFINE webhook == configurations[c].webhooks[k]
             scenario == Scenario(command.resources[i], contexts[i].namespaces)
  <2>1. explanations[i].evaluations # <<>>
    BY EmptySequence
  <2>2. explanations[i].evaluations = EvaluationsOf(i)
    BY <2>1 DEF OriginInv, ExplainedInv
  <2>3. /\ c \in DOMAIN configurations
        /\ explanations[i].evaluations[c].configuration = configurations[c]
        /\ explanations[i].evaluations[c].verdicts[k] = Judge(webhook, scenario)
    BY <2>2, Evaluated
  <2>4. configurations[c] \in Offered
    BY <2>3 DEF OriginInv, AuthenticInv, Sources, Offered, IInv, TypeInv
  <2>5. WellFormedWebhook(webhook) /\ SpelledPlain(webhook)
    BY <2>3, <2>4, ConfigurationsAssumption DEF PlainlySpelled
  <2> HIDE DEF webhook, scenario
  <2>6. Agrees(Judge(webhook, scenario), VerdictOf(ForUser(webhook, user), scenario))
    BY <2>3, <2>5, JudgedForAnyone
  <2> QED BY <2>3, <2>6 DEF webhook, scenario
<1> QED
  BY <1>1, OriginInvariant, PTL

-------------------------------------------------------------------------------
(***************************************************************************)
(* No Namespace is read unless one of the selected configurations has a    *)
(* namespace selector.  They are selected before the first one is.         *)
(***************************************************************************)
NamespaceAsked == \E r \in DOMAIN reads : reads[r].call = "namespace"

RequiredInv == NamespaceAsked => ConfigurationsHaveNamespaceSelector

(* The configurations stay what they are, and no Namespace is read. *)
LEMMA RequiredStays ==
  ASSUME RequiredInv, UNCHANGED <<reads, configurations>>
  PROVE  RequiredInv'
BY DEF RequiredInv, NamespaceAsked, ConfigurationsHaveNamespaceSelector

(* Before the resources, no Namespace has been read. *)
LEMMA NoneAskedYet ==
  ASSUME IInv, phase \in {"connect", "discover", "validating", "mutating"}
  PROVE  ~NamespaceAsked
<1>1. contexts = <<>> /\ phase # "done"
  BY DEF IInv, ContextInv
<1>2. DOMAIN contexts = {}
  BY <1>1, EmptySequence
<1> QED BY <1>1, <1>2 DEF NamespaceAsked, IInv, ForbiddenInv

LEMMA OtherRead ==
  ASSUME IInv, ~NamespaceAsked, NEW call \in {"discovery", "validating", "mutating"},
         NEW status \in ReadStatuses, reads' = Append(reads, Read(call, 0, status))
  PROVE  RequiredInv'
<1>1. Read(call, 0, status) \in ReadEntry /\ Read(call, 0, status).call = call
  BY DEF Read, ReadEntry
<1>2. TypeInv
  BY DEF IInv
<1>3. /\ \A r \in DOMAIN reads : reads'[r] = reads[r]
      /\ reads'[Len(reads) + 1].call = call
      /\ \A r \in DOMAIN reads' : r \in DOMAIN reads \/ r = Len(reads) + 1
  BY <1>1, <1>2, ReadAppended
<1>4. \A r \in DOMAIN reads' : reads'[r].call # "namespace"
  BY <1>3 DEF NamespaceAsked
<1> QED BY <1>4 DEF RequiredInv, NamespaceAsked

LEMMA ListRequired ==
  ASSUME IInv, ListValidating \/ ListMutating
  PROVE  RequiredInv'
<1>1. ~NamespaceAsked
  BY NoneAskedYet DEF ListValidating, ListMutating
<1>2. \A items : \A result \in ListResults(items) : result.status \in ReadStatuses
  BY DEF ListResults, ReadStatuses, ReadFailures
<1>3. \E call \in {"validating", "mutating"} : \E status \in ReadStatuses :
        reads' = Append(reads, Read(call, 0, status))
  BY <1>2 DEF ListValidating, ListMutating
<1> QED BY <1>1, <1>3, OtherRead

LEMMA ResolveRequired ==
  ASSUME IInv, RequiredInv, ResolveResource
  PROVE  RequiredInv'
<1> DEFINE i == Len(contexts) + 1
<1>1. /\ configurations' = configurations
      /\ \/ reads' = reads
         \/ \E outcome \in NamespaceOutcomes(i) : BuildResource(i, outcome)
  BY DEF ResolveResource
<1>2. IsSequence(reads)
  BY SequenceOf DEF IInv, TypeInv
<1>3. ASSUME NEW outcome \in NamespaceOutcomes(i), BuildResource(i, outcome)
      PROVE  reads' = reads \/ ConfigurationsHaveNamespaceSelector
  <2>1. reads' = reads \o outcome.calls
    BY <1>3 DEF BuildResource
  <2> QED BY <1>2, <2>1, OutcomesRecord, ConcatNone DEF NoCall, OneCall, NamespaceRequired
<1>4. CASE reads' = reads
  BY <1>1, <1>4, RequiredStays
<1>5. CASE ConfigurationsHaveNamespaceSelector
  BY <1>1, <1>5 DEF RequiredInv, ConfigurationsHaveNamespaceSelector
<1> QED BY <1>1, <1>3, <1>4, <1>5

LEMMA NextRequired ==
  ASSUME IInv, RequiredInv, [Next]_vars
  PROVE  RequiredInv'
<1>1. CASE \/ Decode \/ ConnectFails \/ ConnectVerified \/ ConnectMismatched
           \/ Explain \/ ExplainFails \/ Export \/ ClusterChanges \/ UNCHANGED vars
  BY <1>1, RequiredStays DEF Decode, ConnectFails, ConnectVerified, ConnectMismatched,
     Explain, ExplainFails, Export, ClusterChanges, vars, gathered
<1>2. CASE ConnectOffline
  <2>1. ~NamespaceAsked /\ reads' = reads
    BY <1>2, NoneAskedYet DEF ConnectOffline
  <2> QED BY <2>1 DEF RequiredInv, NamespaceAsked
<1>3. CASE Discover
  <2>1. ~NamespaceAsked
    BY <1>3, NoneAskedYet DEF Discover
  <2>2. \E status \in ReadStatuses : reads' = Append(reads, Read("discovery", 0, status))
    BY <1>3 DEF Discover, ReadStatuses, ReadFailures
  <2> QED BY <2>1, <2>2, OtherRead
<1>4. CASE ListValidating \/ ListMutating
  BY <1>4, ListRequired
<1>5. CASE ResolveResource
  BY <1>5, ResolveRequired
<1> QED BY <1>1, <1>2, <1>3, <1>4, <1>5 DEF Next

(***************************************************************************)
(* A Namespace is read only if a selector of the configurations needs it,  *)
(* where no selector is empty and there: the emptiness of a selector is    *)
(* all that ConfigurationsHaveNamespaceSelector does not look at           *)
(* (internal/manifest).                                                    *)
(***************************************************************************)
THEOREM NamespaceReadsNeeded ==
  ASSUME NoneEmpty
  PROVE  Spec => []NamespaceReadWhenNeeded
<1>1. Init => RequiredInv
  BY EmptySequence DEF Init, RequiredInv, NamespaceAsked
<1>2. IInv /\ RequiredInv /\ [Next]_vars => RequiredInv'
  BY NextRequired
<1>3. IInv /\ OriginInv /\ RequiredInv => NamespaceReadWhenNeeded
  <2> SUFFICES ASSUME IInv, OriginInv, RequiredInv, NamespaceAsked
               PROVE  SelectorNeedsNamespace
    BY DEF NamespaceReadWhenNeeded, NamespaceAsked
  <2>1. PICK c \in DOMAIN configurations :
          \E k \in DOMAIN configurations[c].webhooks :
            configurations[c].webhooks[k].namespaceSelector.form # "nil"
    BY DEF RequiredInv, ConfigurationsHaveNamespaceSelector
  <2>2. PICK k \in DOMAIN configurations[c].webhooks :
          configurations[c].webhooks[k].namespaceSelector.form # "nil"
    BY <2>1
  <2>3. configurations[c] \in Offered
    BY DEF OriginInv, AuthenticInv, Sources, Offered, IInv, TypeInv
  <2>4. ~EmptySelector(configurations[c].webhooks[k].namespaceSelector)
    BY <2>2, <2>3 DEF NoneEmpty
  <2> QED BY <2>2, <2>4 DEF SelectorNeedsNamespace
<1> QED
  BY <1>1, <1>2, <1>3, OriginInvariant, PTL DEF Spec
================================================================================
