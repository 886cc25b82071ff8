---------------------------- MODULE ProbeAnswers ----------------------------
(***************************************************************************)
(* What the regression probe may rely on: it shows one check at a time,    *)
(* the check is judged while it is shown, and the probe takes note of that *)
(* verdict before it shows the next one.                                   *)
(***************************************************************************)
EXTENDS Naturals, Sequences

CONSTANT N  \* the checks of the probe

VARIABLES
  shown,    \* the check on the screen, the latest one
  verdict,  \* what was judged of it
  answers   \* the verdicts the probe has noted

ShowNext ==
  /\ shown = Len(answers) /\ shown < N
  /\ shown' = shown + 1
  /\ UNCHANGED <<verdict, answers>>

Judge ==
  /\ shown = Len(answers) + 1 /\ verdict = "none"
  /\ verdict' \in {"pass", "fail"}
  /\ UNCHANGED <<shown, answers>>

Note ==
  /\ verdict # "none"
  /\ answers' = Append(answers, verdict)
  /\ verdict' = "none"
  /\ UNCHANGED shown

Spec ==
  /\ shown = 0 /\ verdict = "none" /\ answers = <<>>
  /\ [][ShowNext \/ Judge \/ Note]_<<shown, verdict, answers>>
=============================================================================
