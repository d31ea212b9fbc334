----------------------------- MODULE AtomicExport -----------------------------
(***************************************************************************)
(* What an export promises to whoever looks at the target directory:       *)
(* nothing is there or something whole is; a bundle appears in one step    *)
(* where nothing was; a writer answers "ok" only when its bundle is there, *)
(* and from then on the bundle stays, whatever fails.                      *)
(***************************************************************************)
CONSTANTS
  Writers,
  Nothing,         \* the target is absent or empty
  Undecided

VARIABLES
  order,           \* the bundle each writer is asked to write
  forbidden,       \* the writers whose bundle may not be written
  visible,         \* what is at the target
  answer           \* what each writer answered

vars == <<order, forbidden, visible, answer>>

Init ==
  /\ answer = [w \in Writers |-> Undecided]
  /\ \A w \in Writers : visible # order[w]

Publish(w) ==
  /\ w \notin forbidden
  /\ answer[w] = Undecided
  /\ visible = Nothing
  /\ visible' = order[w]
  /\ UNCHANGED <<order, forbidden, answer>>

Acknowledge(w) ==
  /\ answer[w] = Undecided
  /\ visible = order[w]
  /\ answer' = [answer EXCEPT ![w] = "ok"]
  /\ UNCHANGED <<order, forbidden, visible>>

Refuse(w) ==
  /\ answer[w] = Undecided
  /\ \E kind \in {"policy", "destination", "collision", "stage", "publish"} :
       answer' = [answer EXCEPT ![w] = kind]
  /\ UNCHANGED <<order, forbidden, visible>>

(* A power loss may undo a publication nobody has been told of. *)
Lose(w) ==
  /\ visible = order[w]
  /\ answer[w] # "ok"
  /\ visible' = Nothing
  /\ UNCHANGED <<order, forbidden, answer>>

Next == \E w \in Writers : Publish(w) \/ Acknowledge(w) \/ Refuse(w) \/ Lose(w)

Spec == Init /\ [][Next]_vars
===============================================================================
