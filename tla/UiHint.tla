------------------------------- MODULE UiHint -------------------------------
(***************************************************************************)
(* diagnostics/ui-scheduler.py beside launch().  Each launch may start one *)
(* helper; the helper polls /proc for the main thread of the selected      *)
(* Lightroom, raises its utilisation minimum once, reads it back, and      *)
(* ends.  Everything it reads and writes goes by pid, one call at a time,  *)
(* while processes start, end and are tuned by their user.                 *)
(***************************************************************************)
EXTENDS Naturals

CONSTANTS
  Launches,  \* invocations of the launcher that start Lightroom
  Pids,      \* process ids
  None,      \* no process
  MaxTunes,  \* how often the user changes a thread's scheduling
  Reuse      \* may a pid name a new process between two calls of a helper?

ASSUME HintAssumption ==
  /\ None \notin Pids \cup {"starting", "selected", "foreign"}
  /\ MaxTunes \in Nat
  /\ Reuse \in BOOLEAN

VARIABLES
  proc,     \* the kind of process each pid names
  sched,    \* the scheduling attributes of its main thread
  heirs,    \* pids with a thread that was born with the helper's minimum
  launch,   \* where each launcher is
  pc,       \* where its helper is
  todo,     \* the pids its helper has yet to look at in this pass
  target,   \* the pid it tunes
  report,   \* the status it printed
  tunes     \* changes the user has made

hintVars == <<pc, todo, target, report>>
vars == <<proc, sched, heirs, launch, hintVars, tunes>>

(* "selected" has the prefix, the executable and the runtime mapped;       *)
(* "starting" is not mapped yet; "foreign" is another prefix's Lightroom.  *)
Kinds == {"starting", "selected", "foreign"}
Tuning == [nice : BOOLEAN, min : {"none", "hint", "user"}, reset : BOOLEAN,
           cpus : {"hybrid", "uniform"}]
Default == [nice |-> FALSE, min |-> "none", reset |-> FALSE, cpus |-> "hybrid"]
Labels == {"off", "list", "look", "maps", "affinity", "get", "set", "check",
           "recheck", "restore", "ended"}
Reports == {"silent", "skipped", "applied", "restored"}

TypeOK ==
  /\ proc \in [Pids -> Kinds \cup {None}]
  /\ sched \in [Pids -> Tuning]
  /\ heirs \subseteq Pids
  /\ launch \in [Launches -> {"idle", "playing", "waiting", "done", "raised"}]
  /\ pc \in [Launches -> Labels]
  /\ todo \in [Launches -> SUBSET Pids]
  /\ target \in [Launches -> Pids \cup {None}]
  /\ report \in [Launches -> Reports]
  /\ tunes \in 0..MaxTunes
  /\ \A h \in Launches : pc[h] \in {"maps", "affinity", "get", "set", "check",
                                     "recheck", "restore"} => target[h] \in Pids

Init ==
  /\ proc = [p \in Pids |-> None]
  /\ sched = [p \in Pids |-> Default]
  /\ heirs = {}
  /\ launch = [h \in Launches |-> "idle"]
  /\ pc = [h \in Launches |-> "off"]
  /\ todo = [h \in Launches |-> {}]
  /\ target = [h \in Launches |-> None]
  /\ report = [h \in Launches |-> "silent"]
  /\ tunes = 0

Active(h) == pc[h] \notin {"off", "ended"}
Goto(h, label) == pc' = [pc EXCEPT ![h] = label]

End(h, status) ==
  /\ Goto(h, "ended")
  /\ report' = [report EXCEPT ![h] = status]
  /\ todo' = [todo EXCEPT ![h] = {}]
  /\ target' = [target EXCEPT ![h] = None]

Continue(h, label) == Goto(h, label) /\ UNCHANGED <<todo, target, report>>

Custom(attr) == attr.nice \/ attr.min # "none"

-----------------------------------------------------------------------------
(* The launcher. *)

(* start_ui_hint() starts the helper, or goes on without it: LRCC_UI_BOOST *)
(* is off, the helper is not installed, or Popen fails.                    *)
StartHint(h) ==
  /\ launch[h] = "idle"
  /\ launch' = [launch EXCEPT ![h] = "playing"]
  /\ \E label \in {"off", "list"} : Goto(h, label)
  /\ UNCHANGED <<proc, sched, heirs, todo, target, report, tunes>>

(* wine() returns or raises: Lightroom ended, or handed over to the one    *)
(* that was running already.  A helper that lives is terminated.           *)
LightroomReturns(h) ==
  /\ launch[h] = "playing"
  /\ launch' = [launch EXCEPT ![h] = IF Active(h) THEN "waiting" ELSE "done"]
  /\ UNCHANGED <<proc, sched, heirs, hintVars, tunes>>

(* SIGTERM ends a helper between any two of its calls. *)
Terminated(h) ==
  /\ launch[h] = "waiting" /\ Active(h)
  /\ End(h, report[h])
  /\ UNCHANGED <<proc, sched, heirs, launch, tunes>>

WaitReturns(h) ==
  /\ launch[h] = "waiting" /\ ~Active(h)
  /\ launch' = [launch EXCEPT ![h] = "done"]
  /\ UNCHANGED <<proc, sched, heirs, hintVars, tunes>>

(* wait(timeout=5) gives up on a helper that is stuck in a system call. *)
WaitTimesOut(h) ==
  /\ launch[h] = "waiting" /\ Active(h)
  /\ launch' = [launch EXCEPT ![h] = "raised"]
  /\ UNCHANGED <<proc, sched, heirs, hintVars, tunes>>

-----------------------------------------------------------------------------
(* The helper. *)

List(h) ==
  /\ pc[h] = "list"
  /\ todo' = [todo EXCEPT ![h] = {p \in Pids : proc[p] # None}]
  /\ Goto(h, "look")
  /\ UNCHANGED <<proc, sched, heirs, launch, target, report, tunes>>

\* Mutant: a process matches by its name.
LookByName(h) ==
  /\ pc[h] = "look"
  /\ \E p \in todo[h] :
       /\ todo' = [todo EXCEPT ![h] = @ \ {p}]
       /\ IF proc[p] \in Kinds
            THEN target' = [target EXCEPT ![h] = p] /\ Goto(h, "affinity")
            ELSE UNCHANGED <<target, pc>>
  /\ UNCHANGED <<proc, sched, heirs, launch, report, tunes>>

\* Mutant: the process that matched is not remembered.
LookUnnamed(h) ==
  /\ pc[h] = "look"
  /\ \E p \in todo[h] :
       /\ todo' = [todo EXCEPT ![h] = @ \ {p}]
       /\ IF proc[p] \in {"starting", "selected"} THEN Goto(h, "maps") ELSE UNCHANGED pc
  /\ UNCHANGED <<proc, sched, heirs, launch, target, report, tunes>>

(* matches() reads owner, name and environment, then the mappings; a       *)
(* process that is gone does not match.                                    *)
Look(h) ==
  /\ pc[h] = "look"
  /\ \E p \in todo[h] :
       /\ todo' = [todo EXCEPT ![h] = @ \ {p}]
       /\ IF proc[p] \in {"starting", "selected"}
            THEN target' = [target EXCEPT ![h] = p] /\ Goto(h, "maps")
            ELSE UNCHANGED <<target, pc>>
  /\ UNCHANGED <<proc, sched, heirs, launch, report, tunes>>

ReadMaps(h) ==
  /\ pc[h] = "maps"
  /\ Continue(h, IF proc[target[h]] = "selected" THEN "affinity" ELSE "look")
  /\ UNCHANGED <<proc, sched, heirs, launch, tunes>>

(* Nothing matched: sleep and list again, until the deadline. *)
PollAgain(h) ==
  /\ pc[h] = "look" /\ todo[h] = {}
  /\ Continue(h, "list")
  /\ UNCHANGED <<proc, sched, heirs, launch, tunes>>

\* Mutant: the deadline is set anew with every pass.
GiveUpNever(h) == FALSE

GiveUp(h) ==
  /\ pc[h] = "look" /\ todo[h] = {}
  /\ End(h, "skipped")
  /\ UNCHANGED <<proc, sched, heirs, launch, tunes>>

ReadAffinity(h) ==
  /\ pc[h] = "affinity" /\ proc[target[h]] # None
  /\ IF sched[target[h]].cpus = "hybrid" THEN Continue(h, "get") ELSE End(h, "skipped")
  /\ UNCHANGED <<proc, sched, heirs, launch, tunes>>

GetAttr(h) ==
  /\ pc[h] = "get" /\ proc[target[h]] # None
  /\ IF Custom(sched[target[h]]) THEN End(h, "skipped") ELSE Continue(h, "set")
  /\ UNCHANGED <<proc, sched, heirs, launch, tunes>>

\* Mutant: KEEP_POLICY is set too, and the kernel drops RESET_ON_FORK.
SetAttrKeepPolicy(h) ==
  /\ pc[h] = "set" /\ proc[target[h]] # None
  /\ sched' = [sched EXCEPT ![target[h]].min = "hint"]
  /\ Continue(h, "check")
  /\ UNCHANGED <<proc, heirs, launch, tunes>>

(* KEEP_PARAMS leaves nice alone. *)
SetAttr(h) ==
  /\ pc[h] = "set" /\ proc[target[h]] # None
  /\ sched' = [sched EXCEPT ![target[h]].min = "hint", ![target[h]].reset = TRUE]
  /\ Continue(h, "check")
  /\ UNCHANGED <<proc, heirs, launch, tunes>>

CheckAttr(h) ==
  /\ pc[h] = "check" /\ proc[target[h]] # None
  /\ LET actual == sched[target[h]]
     IN Continue(h, IF actual.min = "hint" /\ actual.reset /\ ~actual.nice
                    THEN "recheck" ELSE "restore")
  /\ UNCHANGED <<proc, sched, heirs, launch, tunes>>

CheckAffinity(h) ==
  /\ pc[h] = "recheck" /\ proc[target[h]] # None
  /\ IF sched[target[h]].cpus = "hybrid" THEN End(h, "applied") ELSE Continue(h, "restore")
  /\ UNCHANGED <<proc, sched, heirs, launch, tunes>>

\* Mutant: the read-back failed and the minimum is left to the process's end.
RestoreNothing(h) ==
  /\ pc[h] = "restore" /\ proc[target[h]] # None
  /\ End(h, "restored")
  /\ UNCHANGED <<proc, sched, heirs, launch, tunes>>

(* The minimum goes back to 0, whoever set it; the reset flag stays. *)
Restore(h) ==
  /\ pc[h] = "restore" /\ proc[target[h]] # None
  /\ sched' = [sched EXCEPT ![target[h]].min = "none"]
  /\ End(h, "restored")
  /\ UNCHANGED <<proc, heirs, launch, tunes>>

(* A call fails: the process is gone, or the kernel refuses. *)
CallFails(h) ==
  /\ pc[h] \in {"affinity", "get", "set", "check", "recheck", "restore"}
  /\ proc[target[h]] = None \/ pc[h] = "set"
  /\ End(h, "skipped")
  /\ UNCHANGED <<proc, sched, heirs, launch, tunes>>

HintStep(h) ==
  \/ List(h) \/ Look(h) \/ ReadMaps(h) \/ PollAgain(h) \/ GiveUp(h)
  \/ ReadAffinity(h) \/ GetAttr(h) \/ SetAttr(h) \/ CheckAttr(h)
  \/ CheckAffinity(h) \/ Restore(h) \/ CallFails(h)

-----------------------------------------------------------------------------
(* The processes of the machine, and the user. *)

Targeted(p) == \E h \in Launches : Active(h) /\ target[h] = p

ProcessStarts ==
  \E p \in Pids, kind \in {"starting", "foreign"} :
    /\ proc[p] = None /\ (Targeted(p) => Reuse)
    /\ proc' = [proc EXCEPT ![p] = kind]
    /\ sched' = [sched EXCEPT ![p] = Default]
    /\ heirs' = heirs \ {p}
    /\ UNCHANGED <<launch, hintVars, tunes>>

LightroomMaps ==
  \E p \in Pids :
    /\ proc[p] = "starting"
    /\ proc' = [proc EXCEPT ![p] = "selected"]
    /\ UNCHANGED <<sched, heirs, launch, hintVars, tunes>>

ProcessEnds ==
  \E p \in Pids :
    /\ proc[p] # None
    /\ proc' = [proc EXCEPT ![p] = None]
    /\ sched' = [sched EXCEPT ![p] = Default]
    /\ heirs' = heirs \ {p}
    /\ UNCHANGED <<launch, hintVars, tunes>>

(* A thread inherits the minimum, unless the kernel resets it on fork. *)
Fork ==
  \E p \in Pids :
    /\ proc[p] # None
    /\ heirs' = heirs \cup {q \in {p} : sched[p].min = "hint" /\ ~sched[p].reset}
    /\ UNCHANGED <<proc, sched, launch, hintVars, tunes>>

UserTunes ==
  \E p \in Pids :
    /\ proc[p] # None /\ tunes < MaxTunes
    /\ tunes' = tunes + 1
    /\ sched' \in {[sched EXCEPT ![p].nice = ~@], [sched EXCEPT ![p].min = "user"],
                   [sched EXCEPT ![p].cpus = "uniform"]}
    /\ UNCHANGED <<proc, heirs, launch, hintVars>>

Next ==
  \/ \E h \in Launches :
       StartHint(h) \/ LightroomReturns(h) \/ Terminated(h) \/ WaitReturns(h)
       \/ WaitTimesOut(h) \/ HintStep(h)
  \/ ProcessStarts \/ LightroomMaps \/ ProcessEnds \/ Fork \/ UserTunes

Spec == Init /\ [][Next]_vars

(* A helper keeps running, and its clock, which it looks at after every    *)
(* pass that found nothing, goes on.                                       *)
FairSpec ==
  /\ Spec
  /\ \A h \in Launches : WF_vars(HintStep(h)) /\ SF_vars(GiveUp(h))

-----------------------------------------------------------------------------
(* Properties. *)

(* Only the main thread is raised: no thread that a process creates, at    *)
(* whatever point of the helper, is born with the helper's minimum.        *)
WorkersNotRaised == heirs = {}

(* The minimum is raised in no process but the selected prefix's Lightroom *)
(* on the selected runtime, whichever processes start and end meanwhile.   *)
RaisedSelected == \A p \in Pids : sched[p].min = "hint" => proc[p] = "selected"

(* Once no helper runs, a raised minimum is one that a helper reported, or *)
(* that of a helper cut short by SIGTERM: a failed read-back, or a second  *)
(* helper in between, leaves nothing raised in silence.                    *)
RaisedIsReported ==
  (\A h \in Launches : ~Active(h)) =>
    \A p \in Pids : sched[p].min = "hint" =>
      \E h \in Launches : pc[h] = "ended" /\ report[h] \in {"applied", "silent"}

(* A launch that ends without an error leaves no helper behind. *)
HelperGone == \A h \in Launches : launch[h] = "done" => ~Active(h)

(* Every helper ends, though nothing may ever match and processes may come *)
(* and go for ever.                                                        *)
HelperEnds == \A h \in Launches : Active(h) ~> ~Active(h)
=============================================================================
