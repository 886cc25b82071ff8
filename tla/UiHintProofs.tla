---------------------------- MODULE UiHintProofs ----------------------------
EXTENDS UiHint, TLAPS

(* From its mappings on, a helper's target is the selected Lightroom, or   *)
(* gone: no other process takes the pid meanwhile.                         *)
Matched == {"affinity", "get", "set", "check", "recheck", "restore"}

TargetKept ==
  \A h \in Launches : pc[h] \in Matched => proc[target[h]] \in {"selected", None}

(* Whatever is raised is reset on fork. *)
RaisedReset == \A p \in Pids : sched[p].min = "hint" => sched[p].reset

IInv ==
  /\ TypeOK /\ TargetKept /\ RaisedSelected /\ RaisedReset
  /\ WorkersNotRaised /\ HelperGone

(* A step of a launcher or a helper that changes no process and no         *)
(* scheduling: only the target and the launch matter.                      *)
LEMMA LooksKeep ==
  ASSUME TypeOK, TargetKept, RaisedSelected, RaisedReset, WorkersNotRaised, HelperGone,
         NEW h \in Launches,
         UNCHANGED <<proc, sched, heirs>>,
         pc' \in [Launches -> Labels], target' \in [Launches -> Pids \cup {None}],
         \A g \in Launches \ {h} :
           pc'[g] = pc[g] /\ target'[g] = target[g] /\ launch'[g] = launch[g],
         pc'[h] \in Matched => proc[target'[h]] \in {"selected", None},
         launch'[h] = "done" => pc'[h] \in {"off", "ended"}
  PROVE  TargetKept' /\ RaisedSelected' /\ RaisedReset' /\ WorkersNotRaised' /\ HelperGone'
<1>1. TargetKept'
  BY DEF TargetKept
<1>2. RaisedSelected' /\ RaisedReset' /\ WorkersNotRaised'
  BY DEF RaisedSelected, RaisedReset, WorkersNotRaised
<1>3. HelperGone'
  BY DEF HelperGone, Active
<1> QED
  BY <1>1, <1>2, <1>3

(* The user raises nothing in the helper's name, and resets nothing.       *)
LEMMA TunesKeep ==
  ASSUME TypeOK, UserTunes
  PROVE  \A q \in Pids : sched'[q].min = "hint" =>
           sched[q].min = "hint" /\ sched'[q].reset = sched[q].reset
<1>1. PICK p \in Pids :
        sched' \in {[sched EXCEPT ![p].nice = ~@], [sched EXCEPT ![p].min = "user"],
                    [sched EXCEPT ![p].cpus = "uniform"]}
  BY DEF UserTunes
<1>2. \A q \in Pids \ {p} : sched'[q] = sched[q]
  BY <1>1 DEF TypeOK
<1>3. sched'[p].min \in {sched[p].min, "user"} /\ sched'[p].reset = sched[p].reset
  BY <1>1 DEF TypeOK, Tuning
<1> QED
  BY <1>2, <1>3

(* The two ways a helper's call goes on. *)
LEMMA ContinueTypes ==
  ASSUME TypeOK, NEW h \in Launches, NEW label \in Labels, Continue(h, label),
         target[h] \in Pids \/ label \notin Matched \cup {"maps"},
         UNCHANGED <<proc, sched, heirs, launch, tunes>>
  PROVE  TypeOK'
BY DEF TypeOK, Continue, Goto, Matched

LEMMA EndTypes ==
  ASSUME TypeOK, NEW h \in Launches, NEW status \in Reports, End(h, status),
         UNCHANGED <<proc, sched, heirs, launch, tunes>>
  PROVE  TypeOK'
BY DEF TypeOK, End, Goto, Labels

(* The types are kept by every step. *)
LEMMA TypeStep ==
  ASSUME HintAssumption, TypeOK, [Next]_vars
  PROVE  TypeOK'
<1> USE HintAssumption DEF TypeOK, Labels, Reports, Kinds
<1> SUFFICES ASSUME Next PROVE TypeOK'
  BY DEF vars, hintVars
<1>1. ASSUME NEW h \in Launches, StartHint(h) PROVE TypeOK'
  BY <1>1 DEF StartHint, End, Continue, Goto, Active, hintVars, Tuning, Default
<1>2. ASSUME NEW h \in Launches, LightroomReturns(h) PROVE TypeOK'
  BY <1>2 DEF LightroomReturns, End, Continue, Goto, Active, hintVars, Tuning, Default
<1>3. ASSUME NEW h \in Launches, Terminated(h) PROVE TypeOK'
  BY <1>3 DEF Terminated, End, Continue, Goto, Active, hintVars, Tuning, Default
<1>4. ASSUME NEW h \in Launches, WaitReturns(h) PROVE TypeOK'
  BY <1>4 DEF WaitReturns, End, Continue, Goto, Active, hintVars, Tuning, Default
<1>5. ASSUME NEW h \in Launches, WaitTimesOut(h) PROVE TypeOK'
  BY <1>5 DEF WaitTimesOut, End, Continue, Goto, Active, hintVars, Tuning, Default
<1>6. ASSUME NEW h \in Launches, List(h) PROVE TypeOK'
  BY <1>6 DEF List, End, Continue, Goto, Active, hintVars, Tuning, Default
<1>7. ASSUME NEW h \in Launches, Look(h) PROVE TypeOK'
  <2>1. PICK p \in todo[h] :
          /\ todo' = [todo EXCEPT ![h] = @ \ {p}]
          /\ IF proc[p] \in {"starting", "selected"}
               THEN target' = [target EXCEPT ![h] = p] /\ pc' = [pc EXCEPT ![h] = "maps"]
               ELSE UNCHANGED <<target, pc>>
          /\ UNCHANGED <<proc, sched, heirs, launch, report, tunes>>
    BY <1>7 DEF Look, Goto
  <2>2. p \in Pids /\ todo' \in [Launches -> SUBSET Pids]
    BY <2>1
  <2>3. CASE proc[p] \in {"starting", "selected"}
    BY <2>1, <2>2, <2>3
  <2>4. CASE proc[p] \notin {"starting", "selected"}
    BY <2>1, <2>2, <2>4
  <2> QED
    BY <2>3, <2>4
<1>8. ASSUME NEW h \in Launches, ReadMaps(h) PROVE TypeOK'
  BY <1>8 DEF ReadMaps, End, Continue, Goto, Active, hintVars, Tuning, Default
<1>9. ASSUME NEW h \in Launches, PollAgain(h) PROVE TypeOK'
  BY <1>9 DEF PollAgain, End, Continue, Goto, Active, hintVars, Tuning, Default
<1>10. ASSUME NEW h \in Launches, GiveUp(h) PROVE TypeOK'
  BY <1>10 DEF GiveUp, End, Continue, Goto, Active, hintVars, Tuning, Default
<1>11. ASSUME NEW h \in Launches, ReadAffinity(h) PROVE TypeOK'
  <2>1. target[h] \in Pids
    BY <1>11 DEF ReadAffinity
  <2>2. CASE sched[target[h]].cpus = "hybrid"
    <3>1. Continue(h, "get") /\ UNCHANGED <<proc, sched, heirs, launch, tunes>>
      BY <1>11, <2>2 DEF ReadAffinity
    <3> QED
      BY <2>1, <3>1, ContinueTypes
  <2>3. CASE ~(sched[target[h]].cpus = "hybrid")
    <3>1. End(h, "skipped") /\ UNCHANGED <<proc, sched, heirs, launch, tunes>>
      BY <1>11, <2>3 DEF ReadAffinity
    <3> QED
      BY <2>1, <3>1, EndTypes
  <2> QED
    BY <2>1, <2>2, <2>3
<1>12. ASSUME NEW h \in Launches, GetAttr(h) PROVE TypeOK'
  <2>1. target[h] \in Pids
    BY <1>12 DEF GetAttr
  <2>2. CASE Custom(sched[target[h]])
    <3>1. End(h, "skipped") /\ UNCHANGED <<proc, sched, heirs, launch, tunes>>
      BY <1>12, <2>2 DEF GetAttr
    <3> QED
      BY <2>1, <3>1, EndTypes
  <2>3. CASE ~(Custom(sched[target[h]]))
    <3>1. Continue(h, "set") /\ UNCHANGED <<proc, sched, heirs, launch, tunes>>
      BY <1>12, <2>3 DEF GetAttr
    <3> QED
      BY <2>1, <3>1, ContinueTypes
  <2> QED
    BY <2>1, <2>2, <2>3
<1>13. ASSUME NEW h \in Launches, SetAttr(h) PROVE TypeOK'
  <2>1. target[h] \in Pids /\ sched' \in [Pids -> Tuning]
    <3>1. target[h] \in Pids
      BY <1>13 DEF SetAttr
    <3>2. [sched[target[h]] EXCEPT !.min = "hint", !.reset = TRUE] \in Tuning
      <4>1. sched[target[h]] \in Tuning
        BY <3>1
      <4> QED
        BY <4>1 DEF Tuning
    <3>3. sched' = [sched EXCEPT ![target[h]] =
                     [sched[target[h]] EXCEPT !.min = "hint", !.reset = TRUE]]
      BY <1>13 DEF SetAttr
    <3> QED
      BY <3>1, <3>2, <3>3
  <2>2. /\ pc' \in [Launches -> Labels]
        /\ UNCHANGED <<proc, heirs, launch, todo, target, report, tunes>>
    BY <1>13 DEF SetAttr, Continue, Goto
  <2>3. \A g \in Launches : g # h => pc'[g] = pc[g]
    BY <1>13 DEF SetAttr, Continue, Goto
  <2> QED
    BY <2>1, <2>2, <2>3
<1>14. ASSUME NEW h \in Launches, CheckAttr(h) PROVE TypeOK'
  BY <1>14 DEF CheckAttr, End, Continue, Goto, Active, hintVars, Tuning, Default
<1>15. ASSUME NEW h \in Launches, CheckAffinity(h) PROVE TypeOK'
  <2>1. target[h] \in Pids
    BY <1>15 DEF CheckAffinity
  <2>2. CASE sched[target[h]].cpus = "hybrid"
    <3>1. End(h, "applied") /\ UNCHANGED <<proc, sched, heirs, launch, tunes>>
      BY <1>15, <2>2 DEF CheckAffinity
    <3> QED
      BY <2>1, <3>1, EndTypes
  <2>3. CASE ~(sched[target[h]].cpus = "hybrid")
    <3>1. Continue(h, "restore") /\ UNCHANGED <<proc, sched, heirs, launch, tunes>>
      BY <1>15, <2>3 DEF CheckAffinity
    <3> QED
      BY <2>1, <3>1, ContinueTypes
  <2> QED
    BY <2>1, <2>2, <2>3
<1>16. ASSUME NEW h \in Launches, Restore(h) PROVE TypeOK'
  BY <1>16 DEF Restore, End, Continue, Goto, Active, hintVars, Tuning, Default
<1>17. ASSUME NEW h \in Launches, CallFails(h) PROVE TypeOK'
  BY <1>17 DEF CallFails, End, Continue, Goto, Active, hintVars, Tuning, Default
<1>18. CASE ProcessStarts
  BY <1>18 DEF ProcessStarts, hintVars, Targeted, Tuning, Default
<1>19. CASE LightroomMaps
  BY <1>19 DEF LightroomMaps, hintVars, Targeted, Tuning, Default
<1>20. CASE ProcessEnds
  BY <1>20 DEF ProcessEnds, hintVars, Targeted, Tuning, Default
<1>21. CASE Fork
  BY <1>21 DEF Fork, hintVars, Targeted, Tuning, Default
<1>22. CASE UserTunes
  <2>1. PICK p \in Pids :
          /\ tunes < MaxTunes /\ tunes' = tunes + 1
          /\ sched' \in {[sched EXCEPT ![p].nice = ~@], [sched EXCEPT ![p].min = "user"],
                         [sched EXCEPT ![p].cpus = "uniform"]}
          /\ UNCHANGED <<proc, heirs, launch, hintVars>>
    BY <1>22 DEF UserTunes
  <2>2. sched' \in [Pids -> Tuning]
    <3>1. sched[p] \in Tuning /\ (~sched[p].nice) \in BOOLEAN
      OBVIOUS
    <3>2. [sched[p] EXCEPT !.nice = ~@] \in Tuning
      BY <3>1 DEF Tuning
    <3>3. [sched[p] EXCEPT !.min = "user"] \in Tuning
      BY <3>1 DEF Tuning
    <3>4. [sched[p] EXCEPT !.cpus = "uniform"] \in Tuning
      BY <3>1 DEF Tuning
    <3> QED
      BY <2>1, <3>2, <3>3, <3>4
  <2>3. tunes' \in 0..MaxTunes
    BY <2>1
  <2> QED
    BY <2>1, <2>2, <2>3 DEF hintVars
<1> QED
  BY <1>1, <1>2, <1>3, <1>4, <1>5, <1>6, <1>7, <1>8, <1>9, <1>10, <1>11, <1>12, <1>13, <1>14,
     <1>15, <1>16, <1>17, <1>18, <1>19, <1>20, <1>21, <1>22 DEF Next, HintStep

(* The invariant is inductive when no pid is reused under a helper. *)
LEMMA IInvStep ==
  ASSUME HintAssumption, ~Reuse, IInv, [Next]_vars
  PROVE  IInv'
<1>0. TypeOK'
  BY TypeStep DEF IInv
<1> USE HintAssumption DEF IInv
<1> DEFINE Rest == TargetKept /\ RaisedSelected /\ RaisedReset /\ WorkersNotRaised /\ HelperGone
<1> SUFFICES Rest'
  BY <1>0
<1>1. CASE UNCHANGED vars
  BY <1>1 DEF vars, hintVars, TargetKept, RaisedSelected, RaisedReset, WorkersNotRaised,
              HelperGone, Active
<1>2. ASSUME NEW h \in Launches, StartHint(h) PROVE Rest'
  <2>1. UNCHANGED <<proc, sched, heirs>>
    BY <1>2 DEF StartHint
  <2>2. /\ pc' \in [Launches -> Labels] /\ target' \in [Launches -> Pids \cup {None}]
        /\ \A g \in Launches \ {h} :
             pc'[g] = pc[g] /\ target'[g] = target[g] /\ launch'[g] = launch[g]
    BY <1>0, <1>2 DEF StartHint, End, Continue, Goto, hintVars, TypeOK
  <2>3. pc'[h] \in Matched => proc[target'[h]] \in {"selected", None}
    BY <1>2 DEF StartHint, End, Continue, Goto, hintVars, TypeOK, Matched, TargetKept, Active
  <2>4. launch'[h] = "done" => pc'[h] \in {"off", "ended"}
    BY <1>2 DEF StartHint, End, Continue, Goto, hintVars, TypeOK, HelperGone, Active
  <2> QED
    BY <2>1, <2>2, <2>3, <2>4, LooksKeep
<1>3. ASSUME NEW h \in Launches, LightroomReturns(h) PROVE Rest'
  <2>1. UNCHANGED <<proc, sched, heirs>>
    BY <1>3 DEF LightroomReturns
  <2>2. /\ pc' \in [Launches -> Labels] /\ target' \in [Launches -> Pids \cup {None}]
        /\ \A g \in Launches \ {h} :
             pc'[g] = pc[g] /\ target'[g] = target[g] /\ launch'[g] = launch[g]
    BY <1>0, <1>3 DEF LightroomReturns, End, Continue, Goto, hintVars, TypeOK
  <2>3. pc'[h] \in Matched => proc[target'[h]] \in {"selected", None}
    BY <1>3 DEF LightroomReturns, End, Continue, Goto, hintVars, TypeOK, Matched, TargetKept, Active
  <2>4. launch'[h] = "done" => pc'[h] \in {"off", "ended"}
    BY <1>3 DEF LightroomReturns, End, Continue, Goto, hintVars, TypeOK, HelperGone, Active
  <2> QED
    BY <2>1, <2>2, <2>3, <2>4, LooksKeep
<1>4. ASSUME NEW h \in Launches, Terminated(h) PROVE Rest'
  <2>1. UNCHANGED <<proc, sched, heirs>>
    BY <1>4 DEF Terminated
  <2>2. /\ pc' \in [Launches -> Labels] /\ target' \in [Launches -> Pids \cup {None}]
        /\ \A g \in Launches \ {h} :
             pc'[g] = pc[g] /\ target'[g] = target[g] /\ launch'[g] = launch[g]
    BY <1>0, <1>4 DEF Terminated, End, Continue, Goto, hintVars, TypeOK
  <2>3. pc'[h] \in Matched => proc[target'[h]] \in {"selected", None}
    BY <1>4 DEF Terminated, End, Continue, Goto, hintVars, TypeOK, Matched, TargetKept, Active
  <2>4. launch'[h] = "done" => pc'[h] \in {"off", "ended"}
    BY <1>4 DEF Terminated, End, Continue, Goto, hintVars, TypeOK, HelperGone, Active
  <2> QED
    BY <2>1, <2>2, <2>3, <2>4, LooksKeep
<1>5. ASSUME NEW h \in Launches, WaitReturns(h) PROVE Rest'
  <2>1. UNCHANGED <<proc, sched, heirs>>
    BY <1>5 DEF WaitReturns
  <2>2. /\ pc' \in [Launches -> Labels] /\ target' \in [Launches -> Pids \cup {None}]
        /\ \A g \in Launches \ {h} :
             pc'[g] = pc[g] /\ target'[g] = target[g] /\ launch'[g] = launch[g]
    BY <1>0, <1>5 DEF WaitReturns, End, Continue, Goto, hintVars, TypeOK
  <2>3. pc'[h] \in Matched => proc[target'[h]] \in {"selected", None}
    BY <1>5 DEF WaitReturns, End, Continue, Goto, hintVars, TypeOK, Matched, TargetKept, Active
  <2>4. launch'[h] = "done" => pc'[h] \in {"off", "ended"}
    BY <1>5 DEF WaitReturns, End, Continue, Goto, hintVars, TypeOK, HelperGone, Active
  <2> QED
    BY <2>1, <2>2, <2>3, <2>4, LooksKeep
<1>6. ASSUME NEW h \in Launches, WaitTimesOut(h) PROVE Rest'
  <2>1. UNCHANGED <<proc, sched, heirs>>
    BY <1>6 DEF WaitTimesOut
  <2>2. /\ pc' \in [Launches -> Labels] /\ target' \in [Launches -> Pids \cup {None}]
        /\ \A g \in Launches \ {h} :
             pc'[g] = pc[g] /\ target'[g] = target[g] /\ launch'[g] = launch[g]
    BY <1>0, <1>6 DEF WaitTimesOut, End, Continue, Goto, hintVars, TypeOK
  <2>3. pc'[h] \in Matched => proc[target'[h]] \in {"selected", None}
    BY <1>6 DEF WaitTimesOut, End, Continue, Goto, hintVars, TypeOK, Matched, TargetKept, Active
  <2>4. launch'[h] = "done" => pc'[h] \in {"off", "ended"}
    BY <1>6 DEF WaitTimesOut, End, Continue, Goto, hintVars, TypeOK, HelperGone, Active
  <2> QED
    BY <2>1, <2>2, <2>3, <2>4, LooksKeep
<1>7. ASSUME NEW h \in Launches, List(h) PROVE Rest'
  <2>1. UNCHANGED <<proc, sched, heirs>>
    BY <1>7 DEF List
  <2>2. /\ pc' \in [Launches -> Labels] /\ target' \in [Launches -> Pids \cup {None}]
        /\ \A g \in Launches \ {h} :
             pc'[g] = pc[g] /\ target'[g] = target[g] /\ launch'[g] = launch[g]
    BY <1>0, <1>7 DEF List, End, Continue, Goto, hintVars, TypeOK
  <2>3. pc'[h] \in Matched => proc[target'[h]] \in {"selected", None}
    BY <1>7 DEF List, End, Continue, Goto, hintVars, TypeOK, Matched, TargetKept, Active
  <2>4. launch'[h] = "done" => pc'[h] \in {"off", "ended"}
    BY <1>7 DEF List, End, Continue, Goto, hintVars, TypeOK, HelperGone, Active
  <2> QED
    BY <2>1, <2>2, <2>3, <2>4, LooksKeep
<1>8. ASSUME NEW h \in Launches, Look(h) PROVE Rest'
  <2>1. UNCHANGED <<proc, sched, heirs>>
    BY <1>8 DEF Look
  <2>2. /\ pc' \in [Launches -> Labels] /\ target' \in [Launches -> Pids \cup {None}]
        /\ \A g \in Launches \ {h} :
             pc'[g] = pc[g] /\ target'[g] = target[g] /\ launch'[g] = launch[g]
    BY <1>0, <1>8 DEF Look, End, Continue, Goto, hintVars, TypeOK
  <2>3. pc'[h] \in Matched => proc[target'[h]] \in {"selected", None}
    BY <1>8 DEF Look, End, Continue, Goto, hintVars, TypeOK, Matched, TargetKept, Active
  <2>4. launch'[h] = "done" => pc'[h] \in {"off", "ended"}
    BY <1>8 DEF Look, End, Continue, Goto, hintVars, TypeOK, HelperGone, Active
  <2> QED
    BY <2>1, <2>2, <2>3, <2>4, LooksKeep
<1>9. ASSUME NEW h \in Launches, ReadMaps(h) PROVE Rest'
  <2>1. UNCHANGED <<proc, sched, heirs>>
    BY <1>9 DEF ReadMaps
  <2>2. /\ pc' \in [Launches -> Labels] /\ target' \in [Launches -> Pids \cup {None}]
        /\ \A g \in Launches \ {h} :
             pc'[g] = pc[g] /\ target'[g] = target[g] /\ launch'[g] = launch[g]
    BY <1>0, <1>9 DEF ReadMaps, End, Continue, Goto, hintVars, TypeOK
  <2>3. pc'[h] \in Matched => proc[target'[h]] \in {"selected", None}
    BY <1>9 DEF ReadMaps, End, Continue, Goto, hintVars, TypeOK, Matched, TargetKept, Active
  <2>4. launch'[h] = "done" => pc'[h] \in {"off", "ended"}
    BY <1>9 DEF ReadMaps, End, Continue, Goto, hintVars, TypeOK, HelperGone, Active
  <2> QED
    BY <2>1, <2>2, <2>3, <2>4, LooksKeep
<1>10. ASSUME NEW h \in Launches, PollAgain(h) PROVE Rest'
  <2>1. UNCHANGED <<proc, sched, heirs>>
    BY <1>10 DEF PollAgain
  <2>2. /\ pc' \in [Launches -> Labels] /\ target' \in [Launches -> Pids \cup {None}]
        /\ \A g \in Launches \ {h} :
             pc'[g] = pc[g] /\ target'[g] = target[g] /\ launch'[g] = launch[g]
    BY <1>0, <1>10 DEF PollAgain, End, Continue, Goto, hintVars, TypeOK
  <2>3. pc'[h] \in Matched => proc[target'[h]] \in {"selected", None}
    BY <1>10 DEF PollAgain, End, Continue, Goto, hintVars, TypeOK, Matched, TargetKept, Active
  <2>4. launch'[h] = "done" => pc'[h] \in {"off", "ended"}
    BY <1>10 DEF PollAgain, End, Continue, Goto, hintVars, TypeOK, HelperGone, Active
  <2> QED
    BY <2>1, <2>2, <2>3, <2>4, LooksKeep
<1>11. ASSUME NEW h \in Launches, GiveUp(h) PROVE Rest'
  <2>1. UNCHANGED <<proc, sched, heirs>>
    BY <1>11 DEF GiveUp
  <2>2. /\ pc' \in [Launches -> Labels] /\ target' \in [Launches -> Pids \cup {None}]
        /\ \A g \in Launches \ {h} :
             pc'[g] = pc[g] /\ target'[g] = target[g] /\ launch'[g] = launch[g]
    BY <1>0, <1>11 DEF GiveUp, End, Continue, Goto, hintVars, TypeOK
  <2>3. pc'[h] \in Matched => proc[target'[h]] \in {"selected", None}
    BY <1>11 DEF GiveUp, End, Continue, Goto, hintVars, TypeOK, Matched, TargetKept, Active
  <2>4. launch'[h] = "done" => pc'[h] \in {"off", "ended"}
    BY <1>11 DEF GiveUp, End, Continue, Goto, hintVars, TypeOK, HelperGone, Active
  <2> QED
    BY <2>1, <2>2, <2>3, <2>4, LooksKeep
<1>12. ASSUME NEW h \in Launches, ReadAffinity(h) PROVE Rest'
  <2>1. UNCHANGED <<proc, sched, heirs>>
    BY <1>12 DEF ReadAffinity
  <2>2. /\ pc' \in [Launches -> Labels] /\ target' \in [Launches -> Pids \cup {None}]
        /\ \A g \in Launches \ {h} :
             pc'[g] = pc[g] /\ target'[g] = target[g] /\ launch'[g] = launch[g]
    BY <1>0, <1>12 DEF ReadAffinity, End, Continue, Goto, hintVars, TypeOK
  <2>3. pc'[h] \in Matched => proc[target'[h]] \in {"selected", None}
    BY <1>12 DEF ReadAffinity, End, Continue, Goto, hintVars, TypeOK, Matched, TargetKept, Active
  <2>4. launch'[h] = "done" => pc'[h] \in {"off", "ended"}
    BY <1>12 DEF ReadAffinity, End, Continue, Goto, hintVars, TypeOK, HelperGone, Active
  <2> QED
    BY <2>1, <2>2, <2>3, <2>4, LooksKeep
<1>13. ASSUME NEW h \in Launches, GetAttr(h) PROVE Rest'
  <2>1. UNCHANGED <<proc, sched, heirs>>
    BY <1>13 DEF GetAttr
  <2>2. /\ pc' \in [Launches -> Labels] /\ target' \in [Launches -> Pids \cup {None}]
        /\ \A g \in Launches \ {h} :
             pc'[g] = pc[g] /\ target'[g] = target[g] /\ launch'[g] = launch[g]
    BY <1>0, <1>13 DEF GetAttr, End, Continue, Goto, hintVars, TypeOK
  <2>3. pc'[h] \in Matched => proc[target'[h]] \in {"selected", None}
    BY <1>13 DEF GetAttr, End, Continue, Goto, hintVars, TypeOK, Matched, TargetKept, Active
  <2>4. launch'[h] = "done" => pc'[h] \in {"off", "ended"}
    BY <1>13 DEF GetAttr, End, Continue, Goto, hintVars, TypeOK, HelperGone, Active
  <2> QED
    BY <2>1, <2>2, <2>3, <2>4, LooksKeep
<1>14. ASSUME NEW h \in Launches, CheckAttr(h) PROVE Rest'
  <2>1. UNCHANGED <<proc, sched, heirs>>
    BY <1>14 DEF CheckAttr
  <2>2. /\ pc' \in [Launches -> Labels] /\ target' \in [Launches -> Pids \cup {None}]
        /\ \A g \in Launches \ {h} :
             pc'[g] = pc[g] /\ target'[g] = target[g] /\ launch'[g] = launch[g]
    BY <1>0, <1>14 DEF CheckAttr, End, Continue, Goto, hintVars, TypeOK
  <2>3. pc'[h] \in Matched => proc[target'[h]] \in {"selected", None}
    BY <1>14 DEF CheckAttr, End, Continue, Goto, hintVars, TypeOK, Matched, TargetKept, Active
  <2>4. launch'[h] = "done" => pc'[h] \in {"off", "ended"}
    BY <1>14 DEF CheckAttr, End, Continue, Goto, hintVars, TypeOK, HelperGone, Active
  <2> QED
    BY <2>1, <2>2, <2>3, <2>4, LooksKeep
<1>15. ASSUME NEW h \in Launches, CheckAffinity(h) PROVE Rest'
  <2>1. UNCHANGED <<proc, sched, heirs>>
    BY <1>15 DEF CheckAffinity
  <2>2. /\ pc' \in [Launches -> Labels] /\ target' \in [Launches -> Pids \cup {None}]
        /\ \A g \in Launches \ {h} :
             pc'[g] = pc[g] /\ target'[g] = target[g] /\ launch'[g] = launch[g]
    BY <1>0, <1>15 DEF CheckAffinity, End, Continue, Goto, hintVars, TypeOK
  <2>3. pc'[h] \in Matched => proc[target'[h]] \in {"selected", None}
    BY <1>15 DEF CheckAffinity, End, Continue, Goto, hintVars, TypeOK, Matched, TargetKept, Active
  <2>4. launch'[h] = "done" => pc'[h] \in {"off", "ended"}
    BY <1>15 DEF CheckAffinity, End, Continue, Goto, hintVars, TypeOK, HelperGone, Active
  <2> QED
    BY <2>1, <2>2, <2>3, <2>4, LooksKeep
<1>16. ASSUME NEW h \in Launches, CallFails(h) PROVE Rest'
  <2>1. UNCHANGED <<proc, sched, heirs>>
    BY <1>16 DEF CallFails
  <2>2. /\ pc' \in [Launches -> Labels] /\ target' \in [Launches -> Pids \cup {None}]
        /\ \A g \in Launches \ {h} :
             pc'[g] = pc[g] /\ target'[g] = target[g] /\ launch'[g] = launch[g]
    BY <1>0, <1>16 DEF CallFails, End, Continue, Goto, hintVars, TypeOK
  <2>3. pc'[h] \in Matched => proc[target'[h]] \in {"selected", None}
    BY <1>16 DEF CallFails, End, Continue, Goto, hintVars, TypeOK, Matched, TargetKept, Active
  <2>4. launch'[h] = "done" => pc'[h] \in {"off", "ended"}
    BY <1>16 DEF CallFails, End, Continue, Goto, hintVars, TypeOK, HelperGone, Active
  <2> QED
    BY <2>1, <2>2, <2>3, <2>4, LooksKeep
<1>17. ASSUME NEW h \in Launches, SetAttr(h) PROVE Rest'
  <2>1. target[h] \in Pids /\ proc[target[h]] = "selected"
    BY <1>17 DEF SetAttr, TypeOK, TargetKept, Matched
  <2>2. \A p \in Pids : p # target[h] => sched'[p] = sched[p]
    BY <1>17, <2>1 DEF SetAttr, TypeOK
  <2>3. sched'[target[h]].min = "hint" => sched'[target[h]].reset
    BY <1>17, <2>1 DEF SetAttr, TypeOK, Tuning
  <2>4. RaisedSelected' /\ RaisedReset' /\ WorkersNotRaised'
    BY <1>17, <2>1, <2>2, <2>3 DEF SetAttr, RaisedSelected, RaisedReset, WorkersNotRaised
  <2>5. TargetKept'
    BY <1>17 DEF SetAttr, End, Continue, Goto, TypeOK, TargetKept, Matched
  <2>6. HelperGone'
    BY <1>17 DEF SetAttr, End, Continue, Goto, TypeOK, HelperGone, Active
  <2> QED
    BY <2>4, <2>5, <2>6
<1>18. ASSUME NEW h \in Launches, Restore(h) PROVE Rest'
  <2>1. target[h] \in Pids /\ proc[target[h]] = "selected"
    BY <1>18 DEF Restore, TypeOK, TargetKept, Matched
  <2>2. \A p \in Pids : p # target[h] => sched'[p] = sched[p]
    BY <1>18, <2>1 DEF Restore, TypeOK
  <2>3. sched'[target[h]].min = "hint" => sched'[target[h]].reset
    BY <1>18, <2>1 DEF Restore, TypeOK, Tuning
  <2>4. RaisedSelected' /\ RaisedReset' /\ WorkersNotRaised'
    BY <1>18, <2>1, <2>2, <2>3 DEF Restore, RaisedSelected, RaisedReset, WorkersNotRaised
  <2>5. TargetKept'
    BY <1>18 DEF Restore, End, Continue, Goto, TypeOK, TargetKept, Matched
  <2>6. HelperGone'
    BY <1>18 DEF Restore, End, Continue, Goto, TypeOK, HelperGone, Active
  <2> QED
    BY <2>4, <2>5, <2>6
<1>19. CASE ProcessStarts
  <2>1. TargetKept'
    BY <1>19 DEF ProcessStarts, hintVars, TypeOK, TargetKept, Matched, Targeted, Active
  <2>2. RaisedSelected'
    BY <1>19 DEF ProcessStarts, hintVars, TypeOK, RaisedSelected, Tuning, Default
  <2>3. RaisedReset'
    BY <1>19 DEF ProcessStarts, hintVars, TypeOK, RaisedReset, Tuning, Default
  <2>4. WorkersNotRaised'
    BY <1>19 DEF ProcessStarts, hintVars, TypeOK, RaisedReset, WorkersNotRaised
  <2>5. HelperGone'
    BY <1>19 DEF ProcessStarts, hintVars, HelperGone, Active
  <2> QED
    BY <2>1, <2>2, <2>3, <2>4, <2>5
<1>20. CASE LightroomMaps
  <2>1. TargetKept'
    BY <1>20 DEF LightroomMaps, hintVars, TypeOK, TargetKept, Matched, Targeted, Active
  <2>2. RaisedSelected'
    BY <1>20 DEF LightroomMaps, hintVars, TypeOK, RaisedSelected, Tuning, Default
  <2>3. RaisedReset'
    BY <1>20 DEF LightroomMaps, hintVars, TypeOK, RaisedReset, Tuning, Default
  <2>4. WorkersNotRaised'
    BY <1>20 DEF LightroomMaps, hintVars, TypeOK, RaisedReset, WorkersNotRaised
  <2>5. HelperGone'
    BY <1>20 DEF LightroomMaps, hintVars, HelperGone, Active
  <2> QED
    BY <2>1, <2>2, <2>3, <2>4, <2>5
<1>21. CASE ProcessEnds
  <2>1. TargetKept'
    BY <1>21 DEF ProcessEnds, hintVars, TypeOK, TargetKept, Matched, Targeted, Active
  <2>2. RaisedSelected'
    BY <1>21 DEF ProcessEnds, hintVars, TypeOK, RaisedSelected, Tuning, Default
  <2>3. RaisedReset'
    BY <1>21 DEF ProcessEnds, hintVars, TypeOK, RaisedReset, Tuning, Default
  <2>4. WorkersNotRaised'
    BY <1>21 DEF ProcessEnds, hintVars, TypeOK, RaisedReset, WorkersNotRaised
  <2>5. HelperGone'
    BY <1>21 DEF ProcessEnds, hintVars, HelperGone, Active
  <2> QED
    BY <2>1, <2>2, <2>3, <2>4, <2>5
<1>22. CASE Fork
  <2>1. TargetKept'
    BY <1>22 DEF Fork, hintVars, TypeOK, TargetKept, Matched, Targeted, Active
  <2>2. RaisedSelected'
    BY <1>22 DEF Fork, hintVars, TypeOK, RaisedSelected, Tuning, Default
  <2>3. RaisedReset'
    BY <1>22 DEF Fork, hintVars, TypeOK, RaisedReset, Tuning, Default
  <2>4. WorkersNotRaised'
    BY <1>22 DEF Fork, hintVars, TypeOK, RaisedReset, WorkersNotRaised
  <2>5. HelperGone'
    BY <1>22 DEF Fork, hintVars, HelperGone, Active
  <2> QED
    BY <2>1, <2>2, <2>3, <2>4, <2>5
<1>23. CASE UserTunes
  <2>1. TargetKept'
    BY <1>23 DEF UserTunes, hintVars, TypeOK, TargetKept, Matched, Targeted, Active
  <2>2. RaisedSelected'
    BY <1>23, TunesKeep DEF UserTunes, RaisedSelected
  <2>3. RaisedReset'
    BY <1>23, TunesKeep DEF RaisedReset
  <2>4. WorkersNotRaised'
    BY <1>23 DEF UserTunes, hintVars, TypeOK, RaisedReset, WorkersNotRaised
  <2>5. HelperGone'
    BY <1>23 DEF UserTunes, hintVars, HelperGone, Active
  <2> QED
    BY <2>1, <2>2, <2>3, <2>4, <2>5
<1> QED
  BY <1>1, <1>2, <1>3, <1>4, <1>5, <1>6, <1>7, <1>8, <1>9, <1>10, <1>11, <1>12, <1>13, <1>14,
     <1>15, <1>16, <1>17, <1>18, <1>19, <1>20, <1>21, <1>22, <1>23 DEF Next, HintStep

(* What is raised is a helper's to account for: one that has it in hand,   *)
(* or that has ended with a report of it or in silence.  Only a helper     *)
(* that has ended has printed anything, and none runs before its launch.   *)
InHand == {"check", "recheck", "restore"}
Accounts(h, p) ==
  \/ pc[h] = "ended" /\ report[h] \in {"applied", "silent"}
  \/ pc[h] \in InHand /\ target[h] = p
Held == \A p \in Pids : sched[p].min = "hint" => \E h \in Launches : Accounts(h, p)
Silent ==
  \A h \in Launches :
    /\ pc[h] # "ended" => report[h] = "silent"
    /\ launch[h] = "idle" => pc[h] = "off"

HInv == IInv /\ Held /\ Silent

(* A step of one helper that raises nothing and drops nothing.             *)
LEMMA HeldKept ==
  ASSUME TypeOK, Held, NEW h \in Launches,
         \A p \in Pids : sched'[p].min = "hint" => sched[p].min = "hint",
         \A g \in Launches \ {h} :
           pc'[g] = pc[g] /\ target'[g] = target[g] /\ report'[g] = report[g],
         pc[h] = "ended" => pc'[h] = "ended" /\ report'[h] = report[h],
         pc[h] \in InHand =>
           \/ pc'[h] \in InHand /\ target'[h] = target[h]
           \/ pc'[h] = "ended" /\ report'[h] \in {"applied", "silent"}
           \/ sched'[target[h]].min # "hint"
  PROVE  Held'
<1> SUFFICES ASSUME NEW p \in Pids, sched'[p].min = "hint"
             PROVE  \E g \in Launches : Accounts(g, p)'
  BY DEF Held
<1>1. PICK g \in Launches : Accounts(g, p)
  BY DEF Held
<1>2. CASE g # h
  BY <1>1, <1>2 DEF Accounts
<1>3. CASE g = h
  BY <1>1, <1>3 DEF Accounts, InHand
<1> QED
  BY <1>2, <1>3

LEMMA HeldStep ==
  ASSUME HintAssumption, ~Reuse, HInv, [Next]_vars
  PROVE  Held' /\ Silent'
<1> USE HintAssumption DEF HInv, IInv
<1>1. CASE UNCHANGED vars
  BY <1>1 DEF vars, hintVars, Held, Silent, Accounts
<1>2. ASSUME NEW h \in Launches, StartHint(h) PROVE Held' /\ Silent'
  <2>1. \A p \in Pids : sched'[p].min = "hint" => sched[p].min = "hint"
    BY <1>2 DEF StartHint, TypeOK, Tuning
  <2>2. \A g \in Launches \ {h} :
          pc'[g] = pc[g] /\ target'[g] = target[g] /\ report'[g] = report[g]
    BY <1>2 DEF StartHint, End, Continue, Goto, hintVars, TypeOK
  <2>3. pc[h] = "ended" => pc'[h] = "ended" /\ report'[h] = report[h]
    BY <1>2 DEF StartHint, Silent
  <2>4. pc[h] \in InHand =>
          \/ pc'[h] \in InHand /\ target'[h] = target[h]
          \/ pc'[h] = "ended" /\ report'[h] \in {"applied", "silent"}
          \/ sched'[target[h]].min # "hint"
    BY <1>2 DEF StartHint, End, Continue, Goto, hintVars, TypeOK, InHand, Silent, RaisedSelected,
       Tuning
  <2>5. Silent'
    BY <1>2, <2>2 DEF StartHint, End, Continue, Goto, hintVars, TypeOK, Silent, Active
  <2> QED
    BY <2>1, <2>2, <2>3, <2>4, <2>5, HeldKept
<1>3. ASSUME NEW h \in Launches, LightroomReturns(h) PROVE Held' /\ Silent'
  <2>1. \A p \in Pids : sched'[p].min = "hint" => sched[p].min = "hint"
    BY <1>3 DEF LightroomReturns, TypeOK, Tuning
  <2>2. \A g \in Launches \ {h} :
          pc'[g] = pc[g] /\ target'[g] = target[g] /\ report'[g] = report[g]
    BY <1>3 DEF LightroomReturns, End, Continue, Goto, hintVars, TypeOK
  <2>3. pc[h] = "ended" => pc'[h] = "ended" /\ report'[h] = report[h]
    BY <1>3 DEF LightroomReturns, Active, hintVars
  <2>4. pc[h] \in InHand =>
          \/ pc'[h] \in InHand /\ target'[h] = target[h]
          \/ pc'[h] = "ended" /\ report'[h] \in {"applied", "silent"}
          \/ sched'[target[h]].min # "hint"
    BY <1>3 DEF LightroomReturns, End, Continue, Goto, hintVars, TypeOK, InHand, Silent,
       RaisedSelected, Tuning
  <2>5. Silent'
    BY <1>3, <2>2 DEF LightroomReturns, End, Continue, Goto, hintVars, TypeOK, Silent, Active
  <2> QED
    BY <2>1, <2>2, <2>3, <2>4, <2>5, HeldKept
<1>4. ASSUME NEW h \in Launches, Terminated(h) PROVE Held' /\ Silent'
  <2>1. \A p \in Pids : sched'[p].min = "hint" => sched[p].min = "hint"
    BY <1>4 DEF Terminated, TypeOK, Tuning
  <2>2. \A g \in Launches \ {h} :
          pc'[g] = pc[g] /\ target'[g] = target[g] /\ report'[g] = report[g]
    BY <1>4 DEF Terminated, End, Continue, Goto, hintVars, TypeOK
  <2>3. pc[h] = "ended" => pc'[h] = "ended" /\ report'[h] = report[h]
    BY <1>4 DEF Terminated, Active, hintVars
  <2>4. pc[h] \in InHand =>
          \/ pc'[h] \in InHand /\ target'[h] = target[h]
          \/ pc'[h] = "ended" /\ report'[h] \in {"applied", "silent"}
          \/ sched'[target[h]].min # "hint"
    BY <1>4 DEF Terminated, End, Continue, Goto, hintVars, TypeOK, InHand, Silent,
       RaisedSelected, Tuning
  <2>5. Silent'
    BY <1>4, <2>2 DEF Terminated, End, Continue, Goto, hintVars, TypeOK, Silent, Active
  <2> QED
    BY <2>1, <2>2, <2>3, <2>4, <2>5, HeldKept
<1>5. ASSUME NEW h \in Launches, WaitReturns(h) PROVE Held' /\ Silent'
  <2>1. \A p \in Pids : sched'[p].min = "hint" => sched[p].min = "hint"
    BY <1>5 DEF WaitReturns, TypeOK, Tuning
  <2>2. \A g \in Launches \ {h} :
          pc'[g] = pc[g] /\ target'[g] = target[g] /\ report'[g] = report[g]
    BY <1>5 DEF WaitReturns, End, Continue, Goto, hintVars, TypeOK
  <2>3. pc[h] = "ended" => pc'[h] = "ended" /\ report'[h] = report[h]
    BY <1>5 DEF WaitReturns, Active, hintVars
  <2>4. pc[h] \in InHand =>
          \/ pc'[h] \in InHand /\ target'[h] = target[h]
          \/ pc'[h] = "ended" /\ report'[h] \in {"applied", "silent"}
          \/ sched'[target[h]].min # "hint"
    BY <1>5 DEF WaitReturns, End, Continue, Goto, hintVars, TypeOK, InHand, Silent,
       RaisedSelected, Tuning
  <2>5. Silent'
    BY <1>5, <2>2 DEF WaitReturns, End, Continue, Goto, hintVars, TypeOK, Silent, Active
  <2> QED
    BY <2>1, <2>2, <2>3, <2>4, <2>5, HeldKept
<1>6. ASSUME NEW h \in Launches, WaitTimesOut(h) PROVE Held' /\ Silent'
  <2>1. \A p \in Pids : sched'[p].min = "hint" => sched[p].min = "hint"
    BY <1>6 DEF WaitTimesOut, TypeOK, Tuning
  <2>2. \A g \in Launches \ {h} :
          pc'[g] = pc[g] /\ target'[g] = target[g] /\ report'[g] = report[g]
    BY <1>6 DEF WaitTimesOut, End, Continue, Goto, hintVars, TypeOK
  <2>3. pc[h] = "ended" => pc'[h] = "ended" /\ report'[h] = report[h]
    BY <1>6 DEF WaitTimesOut, Active, hintVars
  <2>4. pc[h] \in InHand =>
          \/ pc'[h] \in InHand /\ target'[h] = target[h]
          \/ pc'[h] = "ended" /\ report'[h] \in {"applied", "silent"}
          \/ sched'[target[h]].min # "hint"
    BY <1>6 DEF WaitTimesOut, End, Continue, Goto, hintVars, TypeOK, InHand, Silent,
       RaisedSelected, Tuning
  <2>5. Silent'
    BY <1>6, <2>2 DEF WaitTimesOut, End, Continue, Goto, hintVars, TypeOK, Silent, Active
  <2> QED
    BY <2>1, <2>2, <2>3, <2>4, <2>5, HeldKept
<1>7. ASSUME NEW h \in Launches, List(h) PROVE Held' /\ Silent'
  <2>1. \A p \in Pids : sched'[p].min = "hint" => sched[p].min = "hint"
    BY <1>7 DEF List, TypeOK, Tuning
  <2>2. \A g \in Launches \ {h} :
          pc'[g] = pc[g] /\ target'[g] = target[g] /\ report'[g] = report[g]
    BY <1>7 DEF List, End, Continue, Goto, hintVars, TypeOK
  <2>3. pc[h] = "ended" => pc'[h] = "ended" /\ report'[h] = report[h]
    BY <1>7 DEF List, Active, hintVars
  <2>4. pc[h] \in InHand =>
          \/ pc'[h] \in InHand /\ target'[h] = target[h]
          \/ pc'[h] = "ended" /\ report'[h] \in {"applied", "silent"}
          \/ sched'[target[h]].min # "hint"
    BY <1>7 DEF List, End, Continue, Goto, hintVars, TypeOK, InHand, Silent, RaisedSelected, Tuning
  <2>5. Silent'
    BY <1>7, <2>2 DEF List, End, Continue, Goto, hintVars, TypeOK, Silent, Active
  <2> QED
    BY <2>1, <2>2, <2>3, <2>4, <2>5, HeldKept
<1>8. ASSUME NEW h \in Launches, Look(h) PROVE Held' /\ Silent'
  <2>1. \A p \in Pids : sched'[p].min = "hint" => sched[p].min = "hint"
    BY <1>8 DEF Look, TypeOK, Tuning
  <2>2. \A g \in Launches \ {h} :
          pc'[g] = pc[g] /\ target'[g] = target[g] /\ report'[g] = report[g]
    BY <1>8 DEF Look, End, Continue, Goto, hintVars, TypeOK
  <2>3. pc[h] = "ended" => pc'[h] = "ended" /\ report'[h] = report[h]
    BY <1>8 DEF Look, Active, hintVars
  <2>4. pc[h] \in InHand =>
          \/ pc'[h] \in InHand /\ target'[h] = target[h]
          \/ pc'[h] = "ended" /\ report'[h] \in {"applied", "silent"}
          \/ sched'[target[h]].min # "hint"
    BY <1>8 DEF Look, End, Continue, Goto, hintVars, TypeOK, InHand, Silent, RaisedSelected, Tuning
  <2>5. Silent'
    BY <1>8, <2>2 DEF Look, End, Continue, Goto, hintVars, TypeOK, Silent, Active
  <2> QED
    BY <2>1, <2>2, <2>3, <2>4, <2>5, HeldKept
<1>9. ASSUME NEW h \in Launches, ReadMaps(h) PROVE Held' /\ Silent'
  <2>1. \A p \in Pids : sched'[p].min = "hint" => sched[p].min = "hint"
    BY <1>9 DEF ReadMaps, TypeOK, Tuning
  <2>2. \A g \in Launches \ {h} :
          pc'[g] = pc[g] /\ target'[g] = target[g] /\ report'[g] = report[g]
    BY <1>9 DEF ReadMaps, End, Continue, Goto, hintVars, TypeOK
  <2>3. pc[h] = "ended" => pc'[h] = "ended" /\ report'[h] = report[h]
    BY <1>9 DEF ReadMaps, Active, hintVars
  <2>4. pc[h] \in InHand =>
          \/ pc'[h] \in InHand /\ target'[h] = target[h]
          \/ pc'[h] = "ended" /\ report'[h] \in {"applied", "silent"}
          \/ sched'[target[h]].min # "hint"
    BY <1>9 DEF ReadMaps, End, Continue, Goto, hintVars, TypeOK, InHand, Silent, RaisedSelected,
       Tuning
  <2>5. Silent'
    BY <1>9, <2>2 DEF ReadMaps, End, Continue, Goto, hintVars, TypeOK, Silent, Active
  <2> QED
    BY <2>1, <2>2, <2>3, <2>4, <2>5, HeldKept
<1>10. ASSUME NEW h \in Launches, PollAgain(h) PROVE Held' /\ Silent'
  <2>1. \A p \in Pids : sched'[p].min = "hint" => sched[p].min = "hint"
    BY <1>10 DEF PollAgain, TypeOK, Tuning
  <2>2. \A g \in Launches \ {h} :
          pc'[g] = pc[g] /\ target'[g] = target[g] /\ report'[g] = report[g]
    BY <1>10 DEF PollAgain, End, Continue, Goto, hintVars, TypeOK
  <2>3. pc[h] = "ended" => pc'[h] = "ended" /\ report'[h] = report[h]
    BY <1>10 DEF PollAgain, Active, hintVars
  <2>4. pc[h] \in InHand =>
          \/ pc'[h] \in InHand /\ target'[h] = target[h]
          \/ pc'[h] = "ended" /\ report'[h] \in {"applied", "silent"}
          \/ sched'[target[h]].min # "hint"
    BY <1>10 DEF PollAgain, End, Continue, Goto, hintVars, TypeOK, InHand, Silent,
       RaisedSelected, Tuning
  <2>5. Silent'
    BY <1>10, <2>2 DEF PollAgain, End, Continue, Goto, hintVars, TypeOK, Silent, Active
  <2> QED
    BY <2>1, <2>2, <2>3, <2>4, <2>5, HeldKept
<1>11. ASSUME NEW h \in Launches, GiveUp(h) PROVE Held' /\ Silent'
  <2>1. \A p \in Pids : sched'[p].min = "hint" => sched[p].min = "hint"
    BY <1>11 DEF GiveUp, TypeOK, Tuning
  <2>2. \A g \in Launches \ {h} :
          pc'[g] = pc[g] /\ target'[g] = target[g] /\ report'[g] = report[g]
    BY <1>11 DEF GiveUp, End, Continue, Goto, hintVars, TypeOK
  <2>3. pc[h] = "ended" => pc'[h] = "ended" /\ report'[h] = report[h]
    BY <1>11 DEF GiveUp, Active, hintVars
  <2>4. pc[h] \in InHand =>
          \/ pc'[h] \in InHand /\ target'[h] = target[h]
          \/ pc'[h] = "ended" /\ report'[h] \in {"applied", "silent"}
          \/ sched'[target[h]].min # "hint"
    BY <1>11 DEF GiveUp, End, Continue, Goto, hintVars, TypeOK, InHand, Silent, RaisedSelected,
       Tuning
  <2>5. Silent'
    BY <1>11, <2>2 DEF GiveUp, End, Continue, Goto, hintVars, TypeOK, Silent, Active
  <2> QED
    BY <2>1, <2>2, <2>3, <2>4, <2>5, HeldKept
<1>12. ASSUME NEW h \in Launches, ReadAffinity(h) PROVE Held' /\ Silent'
  <2>1. \A p \in Pids : sched'[p].min = "hint" => sched[p].min = "hint"
    BY <1>12 DEF ReadAffinity, TypeOK, Tuning
  <2>2. \A g \in Launches \ {h} :
          pc'[g] = pc[g] /\ target'[g] = target[g] /\ report'[g] = report[g]
    BY <1>12 DEF ReadAffinity, End, Continue, Goto, hintVars, TypeOK
  <2>3. pc[h] = "ended" => pc'[h] = "ended" /\ report'[h] = report[h]
    BY <1>12 DEF ReadAffinity, Active, hintVars
  <2>4. pc[h] \in InHand =>
          \/ pc'[h] \in InHand /\ target'[h] = target[h]
          \/ pc'[h] = "ended" /\ report'[h] \in {"applied", "silent"}
          \/ sched'[target[h]].min # "hint"
    BY <1>12 DEF ReadAffinity, End, Continue, Goto, hintVars, TypeOK, InHand, Silent,
       RaisedSelected, Tuning
  <2>5. Silent'
    BY <1>12, <2>2 DEF ReadAffinity, End, Continue, Goto, hintVars, TypeOK, Silent, Active
  <2> QED
    BY <2>1, <2>2, <2>3, <2>4, <2>5, HeldKept
<1>13. ASSUME NEW h \in Launches, GetAttr(h) PROVE Held' /\ Silent'
  <2>1. \A p \in Pids : sched'[p].min = "hint" => sched[p].min = "hint"
    BY <1>13 DEF GetAttr, TypeOK, Tuning
  <2>2. \A g \in Launches \ {h} :
          pc'[g] = pc[g] /\ target'[g] = target[g] /\ report'[g] = report[g]
    BY <1>13 DEF GetAttr, End, Continue, Goto, hintVars, TypeOK
  <2>3. pc[h] = "ended" => pc'[h] = "ended" /\ report'[h] = report[h]
    BY <1>13 DEF GetAttr, Active, hintVars
  <2>4. pc[h] \in InHand =>
          \/ pc'[h] \in InHand /\ target'[h] = target[h]
          \/ pc'[h] = "ended" /\ report'[h] \in {"applied", "silent"}
          \/ sched'[target[h]].min # "hint"
    BY <1>13 DEF GetAttr, End, Continue, Goto, hintVars, TypeOK, InHand, Silent, RaisedSelected,
       Tuning
  <2>5. Silent'
    BY <1>13, <2>2 DEF GetAttr, End, Continue, Goto, hintVars, TypeOK, Silent, Active
  <2> QED
    BY <2>1, <2>2, <2>3, <2>4, <2>5, HeldKept
<1>14. ASSUME NEW h \in Launches, CheckAttr(h) PROVE Held' /\ Silent'
  <2>1. \A p \in Pids : sched'[p].min = "hint" => sched[p].min = "hint"
    BY <1>14 DEF CheckAttr, TypeOK, Tuning
  <2>2. \A g \in Launches \ {h} :
          pc'[g] = pc[g] /\ target'[g] = target[g] /\ report'[g] = report[g]
    BY <1>14 DEF CheckAttr, End, Continue, Goto, hintVars, TypeOK
  <2>3. pc[h] = "ended" => pc'[h] = "ended" /\ report'[h] = report[h]
    BY <1>14 DEF CheckAttr, Active, hintVars
  <2>4. pc[h] \in InHand =>
          \/ pc'[h] \in InHand /\ target'[h] = target[h]
          \/ pc'[h] = "ended" /\ report'[h] \in {"applied", "silent"}
          \/ sched'[target[h]].min # "hint"
    BY <1>14 DEF CheckAttr, End, Continue, Goto, hintVars, TypeOK, InHand, Silent,
       RaisedSelected, Tuning
  <2>5. Silent'
    BY <1>14, <2>2 DEF CheckAttr, End, Continue, Goto, hintVars, TypeOK, Silent, Active
  <2> QED
    BY <2>1, <2>2, <2>3, <2>4, <2>5, HeldKept
<1>15. ASSUME NEW h \in Launches, CheckAffinity(h) PROVE Held' /\ Silent'
  <2>1. \A p \in Pids : sched'[p].min = "hint" => sched[p].min = "hint"
    BY <1>15 DEF CheckAffinity, TypeOK, Tuning
  <2>2. \A g \in Launches \ {h} :
          pc'[g] = pc[g] /\ target'[g] = target[g] /\ report'[g] = report[g]
    BY <1>15 DEF CheckAffinity, End, Continue, Goto, hintVars, TypeOK
  <2>3. pc[h] = "ended" => pc'[h] = "ended" /\ report'[h] = report[h]
    BY <1>15 DEF CheckAffinity, Active, hintVars
  <2>4. pc[h] \in InHand =>
          \/ pc'[h] \in InHand /\ target'[h] = target[h]
          \/ pc'[h] = "ended" /\ report'[h] \in {"applied", "silent"}
          \/ sched'[target[h]].min # "hint"
    BY <1>15 DEF CheckAffinity, End, Continue, Goto, hintVars, TypeOK, InHand, Silent,
       RaisedSelected, Tuning
  <2>5. Silent'
    BY <1>15, <2>2 DEF CheckAffinity, End, Continue, Goto, hintVars, TypeOK, Silent, Active
  <2> QED
    BY <2>1, <2>2, <2>3, <2>4, <2>5, HeldKept
<1>16. ASSUME NEW h \in Launches, Restore(h) PROVE Held' /\ Silent'
  <2>1. \A p \in Pids : sched'[p].min = "hint" => sched[p].min = "hint"
    BY <1>16 DEF Restore, TypeOK, Tuning
  <2>2. \A g \in Launches \ {h} :
          pc'[g] = pc[g] /\ target'[g] = target[g] /\ report'[g] = report[g]
    BY <1>16 DEF Restore, End, Continue, Goto, hintVars, TypeOK
  <2>3. pc[h] = "ended" => pc'[h] = "ended" /\ report'[h] = report[h]
    BY <1>16 DEF Restore, Active, hintVars
  <2>4. pc[h] \in InHand =>
          \/ pc'[h] \in InHand /\ target'[h] = target[h]
          \/ pc'[h] = "ended" /\ report'[h] \in {"applied", "silent"}
          \/ sched'[target[h]].min # "hint"
    BY <1>16 DEF Restore, End, Continue, Goto, hintVars, TypeOK, InHand, Silent, RaisedSelected,
       Tuning
  <2>5. Silent'
    BY <1>16, <2>2 DEF Restore, End, Continue, Goto, hintVars, TypeOK, Silent, Active
  <2> QED
    BY <2>1, <2>2, <2>3, <2>4, <2>5, HeldKept
<1>17. ASSUME NEW h \in Launches, CallFails(h) PROVE Held' /\ Silent'
  <2>1. \A p \in Pids : sched'[p].min = "hint" => sched[p].min = "hint"
    BY <1>17 DEF CallFails, TypeOK, Tuning
  <2>2. \A g \in Launches \ {h} :
          pc'[g] = pc[g] /\ target'[g] = target[g] /\ report'[g] = report[g]
    BY <1>17 DEF CallFails, End, Continue, Goto, hintVars, TypeOK
  <2>3. pc[h] = "ended" => pc'[h] = "ended" /\ report'[h] = report[h]
    BY <1>17 DEF CallFails, Active, hintVars
  <2>4. pc[h] \in InHand =>
          \/ pc'[h] \in InHand /\ target'[h] = target[h]
          \/ pc'[h] = "ended" /\ report'[h] \in {"applied", "silent"}
          \/ sched'[target[h]].min # "hint"
    BY <1>17 DEF CallFails, End, Continue, Goto, hintVars, TypeOK, InHand, Silent,
       RaisedSelected, Tuning
  <2>5. Silent'
    BY <1>17, <2>2 DEF CallFails, End, Continue, Goto, hintVars, TypeOK, Silent, Active
  <2> QED
    BY <2>1, <2>2, <2>3, <2>4, <2>5, HeldKept
<1>18. ASSUME NEW h \in Launches, SetAttr(h) PROVE Held' /\ Silent'
  <2>1. pc[h] = "set" /\ target[h] \in Pids /\ pc'[h] = "check" /\ target'[h] = target[h]
    BY <1>18 DEF SetAttr, Continue, Goto, TypeOK
  <2>2. \A p \in Pids \ {target[h]} : sched'[p] = sched[p]
    BY <1>18 DEF SetAttr, TypeOK
  <2>3. ASSUME NEW p \in Pids, sched'[p].min = "hint"
        PROVE  \E g \in Launches : Accounts(g, p)'
    <3>1. CASE p = target[h]
      BY <2>1, <3>1 DEF Accounts, InHand
    <3>2. CASE p # target[h]
      <4>1. PICK g \in Launches : Accounts(g, p)
        BY <2>2, <2>3, <3>2 DEF Held
      <4>2. g # h
        BY <2>1, <4>1 DEF Accounts, InHand
      <4> QED
        BY <1>18, <4>1, <4>2 DEF SetAttr, Continue, Goto, TypeOK, Accounts
    <3> QED
      BY <3>1, <3>2
  <2>4. Silent'
    BY <1>18 DEF SetAttr, Continue, Goto, TypeOK, Silent
  <2> QED
    BY <2>3, <2>4 DEF Held
<1>19. CASE ProcessStarts
  <2>1. \A p \in Pids : sched'[p].min = "hint" => sched[p].min = "hint"
    BY <1>19 DEF ProcessStarts, TypeOK, Tuning, Default
  <2> QED
    BY <1>19, <2>1 DEF ProcessStarts, hintVars, Held, Silent, Accounts
<1>20. CASE LightroomMaps
  <2>1. \A p \in Pids : sched'[p].min = "hint" => sched[p].min = "hint"
    BY <1>20 DEF LightroomMaps, TypeOK, Tuning, Default
  <2> QED
    BY <1>20, <2>1 DEF LightroomMaps, hintVars, Held, Silent, Accounts
<1>21. CASE ProcessEnds
  <2>1. \A p \in Pids : sched'[p].min = "hint" => sched[p].min = "hint"
    BY <1>21 DEF ProcessEnds, TypeOK, Tuning, Default
  <2> QED
    BY <1>21, <2>1 DEF ProcessEnds, hintVars, Held, Silent, Accounts
<1>22. CASE Fork
  <2>1. \A p \in Pids : sched'[p].min = "hint" => sched[p].min = "hint"
    BY <1>22 DEF Fork, TypeOK, Tuning, Default
  <2> QED
    BY <1>22, <2>1 DEF Fork, hintVars, Held, Silent, Accounts
<1>23. CASE UserTunes
  <2>1. \A p \in Pids : sched'[p].min = "hint" => sched[p].min = "hint"
    BY <1>23, TunesKeep
  <2> QED
    BY <1>23, <2>1 DEF UserTunes, hintVars, Held, Silent, Accounts
<1> QED
  BY <1>1, <1>2, <1>3, <1>4, <1>5, <1>6, <1>7, <1>8, <1>9, <1>10, <1>11, <1>12, <1>13, <1>14,
     <1>15, <1>16, <1>17, <1>18, <1>19, <1>20, <1>21, <1>22, <1>23 DEF Next, HintStep

(* The types, for any number of launches and processes. *)
THEOREM TypeCorrect ==
  ASSUME HintAssumption
  PROVE  Spec => []TypeOK
<1>1. Init => TypeOK
  BY HintAssumption DEF Init, TypeOK, Labels, Reports, Kinds, Tuning, Default
<1>2. TypeOK /\ [Next]_vars => TypeOK'
  BY TypeStep
<1> QED
  BY <1>1, <1>2, PTL DEF Spec

LEMMA HintInvariant ==
  ASSUME HintAssumption, ~Reuse
  PROVE  Spec => []IInv
<1>1. Init => IInv
  BY HintAssumption DEF Init, IInv, TypeOK, Labels, Reports, Kinds, Tuning, Default, TargetKept,
     Matched, RaisedSelected, RaisedReset, WorkersNotRaised, HelperGone
<1>2. IInv /\ [Next]_vars => IInv'
  BY IInvStep
<1> QED
  BY <1>1, <1>2, PTL DEF Spec

(* No thread of Lightroom but its main thread is ever raised, for any      *)
(* number of launches and processes, as long as no pid names a new process *)
(* between two calls of a helper.                                          *)
THEOREM OnlyTheMainThread ==
  ASSUME HintAssumption, ~Reuse
  PROVE  Spec => []WorkersNotRaised
<1>1. IInv => WorkersNotRaised
  BY DEF IInv
<1> QED
  BY <1>1, HintInvariant, PTL

(* Under the same condition nothing is raised in any process but the       *)
(* selected one, whatever else has the threads and the names of Lightroom. *)
THEOREM OnlyTheSelected ==
  ASSUME HintAssumption, ~Reuse
  PROVE  Spec => []RaisedSelected
<1>1. IInv => RaisedSelected
  BY DEF IInv
<1> QED
  BY <1>1, HintInvariant, PTL

(* A launch that returned has no helper any more. *)
THEOREM NoHelperStays ==
  ASSUME HintAssumption, ~Reuse
  PROVE  Spec => []HelperGone
<1>1. IInv => HelperGone
  BY DEF IInv
<1> QED
  BY <1>1, HintInvariant, PTL

(* Nothing is left raised in silence: once no helper runs, whatever is     *)
(* still raised was reported or is a terminated helper's, although several *)
(* helpers and the user may have tuned the same thread in turn.            *)
THEOREM NothingLeftRaised ==
  ASSUME HintAssumption, ~Reuse
  PROVE  Spec => []RaisedIsReported
<1>1. Init => HInv
  BY HintAssumption DEF Init, HInv, IInv, TypeOK, Labels, Reports, Kinds, Tuning, Default,
     TargetKept, Matched, RaisedSelected, RaisedReset, WorkersNotRaised, HelperGone, Held, Silent
<1>2. HInv /\ [Next]_vars => HInv'
  BY IInvStep, HeldStep DEF HInv
<1>3. HInv => RaisedIsReported
  BY DEF HInv, Held, Accounts, RaisedIsReported, Active, InHand
<1> QED
  BY <1>1, <1>2, <1>3, PTL DEF Spec
=============================================================================
