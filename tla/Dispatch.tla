------------------------------- MODULE Dispatch -------------------------------
(***************************************************************************)
(* What evaluating a snapshot promises: the Webhooks get their verdicts    *)
(* one by one, in configuration order, and a verdict depends on the        *)
(* Webhook and the snapshot alone (docs/product/reference.md, "Every       *)
(* Webhook is evaluated independently against this same immutable          *)
(* snapshot").                                                             *)
(***************************************************************************)
EXTENDS Judgement

CONSTANTS
  Snapshots

VARIABLES
  input,           \* the snapshot
  verdicts         \* one verdict for each Webhook done

Init == input \in Snapshots /\ verdicts = <<>>

Pronounce(w) == verdicts' = Append(verdicts, VerdictOf(w, input)) /\ UNCHANGED input

Next ==
  /\ Len(verdicts) < Len(input.webhooks)
  /\ Pronounce(input.webhooks[Len(verdicts) + 1])

Spec == Init /\ [][Next]_<<input, verdicts>>

(***************************************************************************)
(* Every configured Webhook is pronounced upon in the end.                 *)
(***************************************************************************)
AllPronounced == <>(Len(verdicts) = Len(input.webhooks))
=============================================================================
