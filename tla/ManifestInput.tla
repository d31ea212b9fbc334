----------------------------- MODULE ManifestInput -----------------------------
(***************************************************************************)
(* What `admitrace explain` does before it reads a cluster                 *)
(* (internal/manifest/input.go, internal/cli/explain.go): it decodes up to *)
(* three inputs, and either evaluates the one Scenario they amount to, or  *)
(* hands resources, configurations and a Namespace over to resource mode   *)
(* (Explanation).                                                          *)
(*                                                                         *)
(*   look -> file | (list -> entries ...) -> look ... -> done | handed     *)
(*                                                                         *)
(* The options are [primary, explicitly, webhookConfig, namespaceObject,   *)
(* context, operation, user, supplemental, snapshotOut]; the first, third  *)
(* and fourth are paths.  The files may change between any two steps.      *)
(***************************************************************************)
EXTENDS FileTree, ScenarioInput, ExitCode

VARIABLES
  options,         \* the command line, never changed
  task,            \* what the command does next, "idle" when it is not run
  role,            \* the input it is decoding
  entries,         \* the entries of a directory not inspected yet
  opened,          \* the entry found to be a regular file
  documents,       \* the documents of the directory so far
  inputs,          \* the documents of each input decoded
  explainExit      \* the exit code, when it does not come to resource mode

reading     == <<task, role, entries, opened, documents>>
explainVars == <<options, reading, inputs, explainExit>>

Stdin   == "-"
NoPath  == "no-path"
NoEntry == "no-entry"

Roles == {"primary", "webhookConfig", "namespaceObject"}

Tasks == {"idle", "look", "file", "list", "entries", "done", "handed"}

ExplainInit(first, given) ==
  /\ options = given
  /\ task = first
  /\ role = "primary"
  /\ entries = <<>>
  /\ opened = NoEntry
  /\ documents = <<>>
  /\ inputs = [r \in Roles |-> <<>>]
  /\ explainExit = NotExited

Path == options[role]

-------------------------------------------------------------------------------
(***************************************************************************)
(* splitDocuments: a line that is --- alone ends a document, except that   *)
(* the first one ends nothing when only comments come before it.           *)
(***************************************************************************)
Blank(lines) == WithoutComments(lines) = <<>>

SplitLine(split, line) ==
  IF line.mark # "separator" THEN [split EXCEPT !.current = Append(@, line)]
  ELSE IF ~split.separated /\ Blank(split.current)
       THEN [split EXCEPT !.current = <<>>, !.separated = TRUE]
  ELSE [texts |-> Append(split.texts, split.current), current |-> <<>>, separated |-> TRUE]

SplitDocuments(lines) ==
  LET start == [texts |-> <<>>, current |-> <<>>, separated |-> FALSE]
      upTo[i \in 0..Len(lines)] ==
        IF i = 0 THEN start ELSE SplitLine(upTo[i - 1], lines[i])
      split == upTo[Len(lines)]
  IN IF split.separated \/ split.current # <<>> THEN Append(split.texts, split.current)
     ELSE split.texts

(***************************************************************************)
(* decode: every document has to be an object before any is looked at      *)
(* further.  A Scenario is accepted alone, and only from an explicit file  *)
(* or from stdin.  A decoded document is [path, index, document].          *)
(***************************************************************************)
IsObject(document) == document # NoDocument /\ Documents[document].decodes

ClassOf(d) == Documents[d.document].class

Classified(d) == ClassOf(d) # "scenario" /\ Documents[d.document].conforms

Decoded(path) ==
  LET texts == SplitDocuments(tree[path].lines)
  IN [i \in DOMAIN texts |-> [path |-> path, index |-> i, document |-> FirstDocument(texts[i])]]

Mode(decoded, allowLegacy) ==
  IF \/ Len(decoded) \notin 1..MaximumDocuments
     \/ \E i \in DOMAIN decoded : ~IsObject(decoded[i].document) THEN "error"
  ELSE IF Len(decoded) = 1 /\ allowLegacy /\ Decodes(Documents[decoded[1].document])
       THEN "legacy"
  ELSE IF \A i \in DOMAIN decoded : Classified(decoded[i]) THEN "resource"
  ELSE "error"

-------------------------------------------------------------------------------
(***************************************************************************)
(* What becomes of an input.                                               *)
(***************************************************************************)
ExitWith(code) ==
  /\ task' = "done"
  /\ explainExit' = code
  /\ UNCHANGED <<options, role, entries, opened, documents, inputs>>

InputError == ExitWith(ExitInvalidInput)

(***************************************************************************)
(* evaluateLegacyScenario and explanationExitCode.                         *)
(***************************************************************************)
ResourceOnlyOptions ==
  \/ options.webhookConfig # NoPath \/ options.namespaceObject # NoPath
  \/ options.context \/ options.operation # "CREATE"
  \/ options.user \/ options.supplemental \/ options.snapshotOut

LegacyExitCode[document \in DOMAIN Documents] ==
  LET s == Documents[document].scenario
  IN CASE ~Valid(s)                        -> ExitInvalidInput
       [] Preparation(s) = "invalid"     -> ExitInvalidInput
       [] Preparation(s) = "unsupported" -> ExitIncompleteEvaluation
       [] OTHER -> EvaluationExitCode(ToSet(VerdictsOn(s)))

EvaluateLegacy(document) ==
  IF options.explicitly \/ ResourceOnlyOptions THEN InputError
  ELSE /\ task' = "done"
       /\ explainExit' = LegacyExitCode[document]
       /\ inputs' = [inputs EXCEPT !.primary = <<[path |-> Path, index |-> 1, document |-> document]>>]
       /\ UNCHANGED <<options, role, entries, opened, documents>>

(***************************************************************************)
(* The inputs are decoded one after the other; what resource mode needs    *)
(* besides the resources is asked for before the second is read, and the   *)
(* identity after the last.                                                *)
(***************************************************************************)
Proceed(decoded, given) ==
  LET next == CHOOSE r \in given : r = "webhookConfig" \/ "webhookConfig" \notin given
  IN IF given # {}
     THEN /\ role' = next /\ task' = "look"
          /\ inputs' = [inputs EXCEPT ![role] = decoded]
          /\ entries' = <<>> /\ opened' = NoEntry /\ documents' = <<>>
          /\ UNCHANGED <<options, explainExit>>
     ELSE IF options.supplemental /\ ~options.user THEN InputError
     ELSE /\ task' = "handed"
          /\ inputs' = [inputs EXCEPT ![role] = decoded]
          /\ UNCHANGED <<options, role, entries, opened, documents, explainExit>>

Given(roles) == {r \in roles : options[r] # NoPath}

AllOfClass(decoded, class) == \A i \in DOMAIN decoded : ClassOf(decoded[i]) = class

TakePrimary(decoded) ==
  IF /\ options.webhookConfig # NoPath \/ options.context
     /\ options.operation = "CREATE"
     /\ AllOfClass(decoded, "resource")
  THEN Proceed(decoded, Given({"webhookConfig", "namespaceObject"}))
  ELSE InputError

TakeConfigurations(decoded) ==
  IF AllOfClass(decoded, "configuration") THEN Proceed(decoded, Given({"namespaceObject"}))
  ELSE InputError

TakeNamespace(decoded) ==
  IF Len(decoded) = 1 /\ AllOfClass(decoded, "namespace") THEN Proceed(decoded, {})
  ELSE InputError

TakeLegacy(decoded) ==
  IF role = "primary" THEN EvaluateLegacy(decoded[1].document) ELSE InputError

TakeResources(decoded) ==
  CASE role = "primary"       -> TakePrimary(decoded)
    [] role = "webhookConfig" -> TakeConfigurations(decoded)
    [] OTHER                  -> TakeNamespace(decoded)

Take(decoded) ==
  CASE Mode(decoded, TRUE) = "error"  -> InputError
    [] Mode(decoded, TRUE) = "legacy" -> TakeLegacy(decoded)
    [] OTHER                          -> TakeResources(decoded)

-------------------------------------------------------------------------------
(***************************************************************************)
(* decodeCommandInput, DecodePath and DecodeFile.  Stdin is reserved for   *)
(* the first input.                                                        *)
(***************************************************************************)
ReadStdin ==
  /\ task = "look" /\ Path = Stdin
  /\ \E decoded \in {Decoded(Stdin)} :
       IF role = "primary" THEN Take(decoded) ELSE InputError

LookAt ==
  /\ task = "look" /\ Path # Stdin
  /\ IF Lstat(Path) = "missing" THEN InputError
     ELSE /\ task' = IF Stat(Path) = "directory" THEN "list" ELSE "file"
          /\ UNCHANGED <<options, role, entries, opened, documents, inputs, explainExit>>

ReadFile ==
  /\ task = "file"
  /\ \E decoded \in {Decoded(Path)} :
       IF CanRead(Path) THEN Take(decoded) ELSE InputError

(***************************************************************************)
(* DecodeDirectory: the names are listed once, and each entry is looked at *)
(* and then opened.  A link is no directory and no regular file.           *)
(***************************************************************************)
ListEntries ==
  /\ task = "list"
  /\ IF CanList(Path)
     THEN /\ entries' = Sorted(Entries(Path) \cap Supported)
          /\ task' = "entries"
          /\ UNCHANGED <<options, role, opened, documents, inputs, explainExit>>
     ELSE InputError

InspectEntry ==
  /\ task = "entries" /\ opened = NoEntry /\ entries # <<>>
  /\ IF Lstat(Head(entries)) = "missing" THEN InputError
     ELSE /\ opened' = IF Lstat(Head(entries)) = "file" THEN Head(entries) ELSE NoEntry
          /\ entries' = Tail(entries)
          /\ UNCHANGED <<options, task, role, documents, inputs, explainExit>>

ReadEntrySkipping ==            \* mutant: what does not decode is passed over
  /\ task = "entries" /\ opened # NoEntry
  /\ \E decoded \in {Decoded(opened)} :
       documents' = IF CanRead(opened) /\ Mode(decoded, FALSE) # "error"
                    THEN documents \o decoded ELSE documents
  /\ opened' = NoEntry
  /\ UNCHANGED <<options, task, role, entries, inputs, explainExit>>

ReadEntry ==
  /\ task = "entries" /\ opened # NoEntry
  /\ \E decoded \in {Decoded(opened)} :
       IF \/ ~CanRead(opened) \/ Mode(decoded, FALSE) = "error"
          \/ Len(documents \o decoded) > MaximumDocuments
       THEN InputError
       ELSE /\ documents' = documents \o decoded
            /\ opened' = NoEntry
            /\ UNCHANGED <<options, task, role, entries, inputs, explainExit>>

EndEntries ==
  /\ task = "entries" /\ opened = NoEntry /\ entries = <<>>
  /\ IF documents = <<>> THEN InputError
     ELSE TakeResources(documents)

ExplainNext ==
  \/ ReadStdin \/ LookAt \/ ReadFile
  \/ ListEntries \/ InspectEntry \/ ReadEntry \/ EndEntries
================================================================================
