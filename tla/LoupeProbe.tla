----------------------------- MODULE LoupeProbe -----------------------------
(***************************************************************************)
(* diagnostics/run-loupe-background.py and the check() of the Windows      *)
(* probe it runs, loupe-background.c.  The probe draws, asks for a capture *)
(* on its standard output and waits for a file <sequence>.ack; the runner  *)
(* reads the output in chunks, samples the compositor and answers.  Each   *)
(* side has its own timeouts, and either may be gone when the other acts.  *)
(***************************************************************************)
EXTENDS Naturals, Sequences

CONSTANT N  \* the checks of the probe, 21 in the code

ASSUME ProbeAssumption == N \in Nat \ {0}

VARIABLES
  child,    \* the probe: where it is, its check, did it see a failure, its exit
  out,      \* its output that is not read yet
  open,     \* does some process hold the pipe's other end?
  runner,   \* where the runner is
  pending,  \* the output it has read and not handled
  asked,    \* the check it is working on
  samples,  \* the checks it has sampled, the rows of its result
  files,    \* <sequence>.tmp and <sequence>.ack
  code,     \* its exit status, once it has ended
  answers   \* history: the verdicts the probe noted

probe == <<child, out, open, answers>>
script == <<runner, pending, asked, samples, code>>
probeVars == <<probe, script, files>>

Checks == 1..N
Contents == {"none", "empty", "pass", "fail"}

(* The output, in pieces of which the last one of a line ends it: of is    *)
(* the check of a CAPTURE line, 0 for any other line.                      *)
Line(of) == <<[of |-> of, end |-> FALSE], [of |-> of, end |-> TRUE]>>
Piece == [of : 0..N, end : BOOLEAN]

ProbeTypeOK ==
  /\ child \in [pc : {"drawing", "asking", "exited"}, check : 0..N, failed : BOOLEAN,
                code : 0..2]
  /\ out \in Seq(Piece) /\ pending \in Seq(Piece)
  /\ open \in BOOLEAN
  /\ runner \in {"read", "sample", "write", "rename", "wait", "ended"}
  /\ asked \in 0..N
  /\ samples \in Seq([name : Checks, shown : 0..N, verdict : {"pass", "fail"}])
  /\ files \in [{"tmp", "ack"} -> [Checks -> Contents]]
  /\ code \in 0..2
  /\ answers \in Seq({"pass", "fail"})
  /\ Len(answers) <= child.check /\ Len(samples) <= child.check

ProbeInit ==
  /\ child = [pc |-> "drawing", check |-> 0, failed |-> FALSE, code |-> 0]
  /\ out = <<>> /\ open = TRUE /\ pending = <<>>
  /\ runner = "read" /\ asked = 0 /\ samples = <<>>
  /\ files = [f \in {"tmp", "ack"} |-> [c \in Checks |-> "none"]]
  /\ code = 0
  /\ answers = <<>>

-----------------------------------------------------------------------------
(* The probe. *)

(* It draws, which may fail, prints, and asks. *)
Ask ==
  /\ child.pc = "drawing" /\ child.check < N
  /\ \E failed \in {child.failed, TRUE} :
       child' = [child EXCEPT !.pc = "asking", !.check = @ + 1, !.failed = failed]
  /\ \E note \in {<<>>, Line(0)} : out' = out \o note \o Line(child.check + 1)
  /\ UNCHANGED <<open, answers, script, files>>

(* fopen() succeeds; the file is read and removed. *)
ReadAck ==
  /\ child.pc = "asking" /\ files["ack"][child.check] # "none"
  /\ LET verdict == IF files["ack"][child.check] = "pass" THEN "pass" ELSE "fail"
     IN /\ child' = [child EXCEPT !.pc = "drawing", !.failed = @ \/ verdict = "fail"]
        /\ answers' = Append(answers, verdict)
  /\ files' = [files EXCEPT !["ack"][child.check] = "none"]
  /\ UNCHANGED <<out, open, script>>

Exit(status) ==
  /\ child' = [child EXCEPT !.pc = "exited", !.code = status]
  /\ UNCHANGED <<out, open, answers, script, files>>

(* Fifteen seconds without an answer. *)
AskTimesOut == child.pc = "asking" /\ Exit(2)

(* A window, a device or a render target could not be created. *)
DrawFails == child.pc = "drawing" /\ child.check < N /\ Exit(2)

Finish == child.pc = "drawing" /\ child.check = N /\ Exit(IF child.failed THEN 1 ELSE 0)

(* Wine processes that inherited the pipe may outlive the probe. *)
PipeCloses ==
  /\ child.pc = "exited" /\ open
  /\ open' = FALSE
  /\ UNCHANGED <<child, out, answers, script, files>>

-----------------------------------------------------------------------------
(* The runner. *)

HasLine == \E k \in DOMAIN pending : pending[k].end

(* select() and read(): whatever has arrived. *)
ReadChunk ==
  /\ runner = "read" /\ ~HasLine
  /\ \E k \in 1..Len(out) :
       /\ pending' = pending \o SubSeq(out, 1, k)
       /\ out' = SubSeq(out, k + 1, Len(out))
  /\ UNCHANGED <<child, open, answers, runner, asked, samples, code, files>>

EndOfFile ==
  /\ runner = "read" /\ ~HasLine
  /\ out = <<>> /\ ~open
  /\ runner' = "wait"
  /\ UNCHANGED <<probe, pending, asked, samples, code, files>>

(* 120 seconds are over. *)
Deadline ==
  /\ runner = "read"
  /\ runner' = "wait"
  /\ UNCHANGED <<probe, pending, asked, samples, code, files>>

\* Mutant: a line stays where it was read, and is handled again.
TakeLineKept ==
  /\ runner = "read"
  /\ \E k \in DOMAIN pending :
       /\ pending[k].end /\ \A j \in 1..(k - 1) : ~pending[j].end
       /\ IF pending[k].of = 0
            THEN UNCHANGED <<runner, asked>>
            ELSE runner' = "sample" /\ asked' = pending[k].of
  /\ UNCHANGED <<probe, pending, samples, code, files>>

\* Mutant: what was read together with a line is dropped.
TakeLineOnly ==
  /\ runner = "read"
  /\ \E k \in DOMAIN pending :
       /\ pending[k].end /\ \A j \in 1..(k - 1) : ~pending[j].end
       /\ pending' = <<>>
       /\ IF pending[k].of = 0
            THEN UNCHANGED <<runner, asked>>
            ELSE runner' = "sample" /\ asked' = pending[k].of
  /\ UNCHANGED <<probe, samples, code, files>>

(* The first complete line is handled; the rest stays for the next turn. *)
TakeLine ==
  /\ runner = "read"
  /\ \E k \in DOMAIN pending :
       /\ pending[k].end /\ \A j \in 1..(k - 1) : ~pending[j].end
       /\ pending' = SubSeq(pending, k + 1, Len(pending))
       /\ IF pending[k].of = 0
            THEN UNCHANGED <<runner, asked>>
            ELSE runner' = "sample" /\ asked' = pending[k].of
  /\ UNCHANGED <<probe, samples, code, files>>

(* The pixel is the one expected, or not.  If the probe gave up meanwhile, *)
(* its window is gone.                                                     *)
Sample ==
  /\ runner = "sample"
  /\ \E verdict \in {"pass", "fail"} :
       samples' = Append(samples, [name |-> asked, verdict |-> verdict,
                             shown |-> IF child.pc = "asking" THEN child.check ELSE 0])
  /\ runner' = "write"
  /\ UNCHANGED <<probe, pending, asked, code, files>>

(* An exception: the finally clause terminates a probe that is left.       *)
Raises ==
  /\ runner' = "ended" /\ code' = 1
  /\ child' = IF child.pc = "exited" THEN child
                ELSE [child EXCEPT !.pc = "exited", !.code = 2]

(* The capture or its conversion fails or takes ten seconds. *)
SampleFails ==
  /\ runner = "sample"
  /\ Raises
  /\ UNCHANGED <<out, open, answers, pending, asked, samples, files>>

\* Mutant: the answer is written in place, and there before its contents are.
WriteAckInPlace ==
  /\ runner = "write"
  /\ files' = [files EXCEPT !["ack"][Len(samples)] = "empty",
                            !["tmp"][Len(samples)] = samples[Len(samples)].verdict]
  /\ runner' = "rename"
  /\ UNCHANGED <<probe, pending, asked, samples, code>>

(* The answer is numbered by the rows, not by the name in the request. *)
WriteAck ==
  /\ runner = "write"
  /\ files' = [files EXCEPT !["tmp"][Len(samples)] = samples[Len(samples)].verdict]
  /\ runner' = "rename"
  /\ UNCHANGED <<probe, pending, asked, samples, code>>

ReplaceAck ==
  /\ runner = "rename"
  /\ files' = [files EXCEPT !["ack"][Len(samples)] = files["tmp"][Len(samples)],
                            !["tmp"][Len(samples)] = "none"]
  /\ runner' = "read"
  /\ UNCHANGED <<probe, pending, asked, samples, code>>

\* Mutant: the exit status of the probe is not looked at.
WaitReturnsRows ==
  /\ runner = "wait" /\ child.pc = "exited"
  /\ runner' = "ended"
  /\ code' = IF Len(samples) = N THEN 0 ELSE 2
  /\ UNCHANGED <<probe, pending, asked, samples, files>>

WaitReturns ==
  /\ runner = "wait" /\ child.pc = "exited"
  /\ runner' = "ended"
  /\ code' = IF Len(samples) = N THEN child.code ELSE 2
  /\ UNCHANGED <<probe, pending, asked, samples, files>>

(* Five seconds without its end. *)
WaitTimesOut ==
  /\ runner = "wait" /\ child.pc # "exited"
  /\ Raises
  /\ UNCHANGED <<out, open, answers, pending, asked, samples, files>>

ScriptStep ==
  \/ ReadChunk \/ EndOfFile \/ TakeLine \/ Sample \/ SampleFails \/ WriteAck
  \/ ReplaceAck \/ WaitReturns

ProbeNext ==
  \/ Ask \/ ReadAck \/ AskTimesOut \/ DrawFails \/ Finish \/ PipeCloses
  \/ ScriptStep \/ Deadline \/ WaitTimesOut

ProbeSpec == ProbeInit /\ [][ProbeNext]_probeVars

(* Both programs run.  No timeout is relied on but the runner's last one.  *)
ProbeFairSpec ==
  /\ ProbeSpec
  /\ WF_probeVars(ScriptStep) /\ WF_probeVars(ReadAck)
  /\ WF_probeVars(Finish) /\ WF_probeVars(WaitTimesOut)

-----------------------------------------------------------------------------
(* Properties. *)

(* Status 0 is a promise: every check was sampled under its own name while *)
(* the probe showed it, had its pixel, and the probe itself saw no failure,*)
(* whichever timeouts raced with the answers.                              *)
ExitSound ==
  runner = "ended" /\ code = 0 =>
    /\ Len(samples) = N /\ ~child.failed
    /\ \A i \in Checks : samples[i] = [name |-> i, shown |-> i, verdict |-> "pass"]

(* A check that was asked for is answered, unless a capture fails or one   *)
(* side gives up: neither program waits for output or for a file that the  *)
(* other one has written already.                                          *)
CaptureAnswered == child.pc = "asking" ~> child.pc # "asking" \/ runner = "ended"

Judged ==
  IF Len(samples) = child.check /\ Len(answers) < child.check
    THEN samples[child.check].verdict ELSE "none"

Abstract == INSTANCE ProbeAnswers WITH shown <- child.check, verdict <- Judged

(* The chunks, the numbered files and their renaming implement a probe     *)
(* that notes, for each check, the verdict of that check.                  *)
Refines == Abstract!Spec
=============================================================================
