--------------------------- MODULE RecorderProofs ---------------------------
EXTENDS RecordPan, Pacing, Samplers, FiniteSetTheorems, TLAPS

(* The measurement recorders: record-pan and its hotkeys, the samplers of  *)
(* tasks, and the percentiles of what was recorded.                        *)

-----------------------------------------------------------------------------
(* RecordPan: the recorder, its hotkey helpers and the gesture. *)

(* A hotkey helper's time began no later than now. *)
InTime == pc \in Hotkeys => HelperLimit <= wake /\ wake <= now + HelperLimit

TInv == TypeOK /\ InTime

(* What the hotkey may make of MangoHud. *)
Huds == [on : BOOLEAN, files : [count : Nat, begin : Nat, last : Nat]]

LEMMA ToggleTypes ==
  ASSUME now \in Nat, NEW hud \in Huds
  PROVE  Toggle(hud) \in Huds /\ (hud.on => ~Toggle(hud).on) /\ (~hud.on => Toggle(hud).on)
<1> DEFINE Files == [count : Nat, begin : Nat, last : Nat]
           then == CASE ~hud.on /\ hud.files.count = 0 -> [count |-> 1, begin |-> now, last |-> now]
                     [] ~hud.on /\ hud.files.count > 0 -> [hud.files EXCEPT !.count = @ + 1]
                     [] hud.on /\ hud.files.count = 1 -> [hud.files EXCEPT !.last = now]
                     [] OTHER -> hud.files
<1>0. hud.on \in BOOLEAN /\ hud.files \in Files
  BY DEF Huds
<1>1. CASE ~hud.on /\ hud.files.count = 0
  <2>1. then = [count |-> 1, begin |-> now, last |-> now]
    BY <1>1
  <2>2. then \in Files
    BY <2>1
  <2> QED
    BY <2>2, <1>0, <1>1 DEF Toggle, Huds
<1>2. CASE ~hud.on /\ hud.files.count > 0
  <2>1. then = [hud.files EXCEPT !.count = @ + 1]
    BY <1>2
  <2>2. then \in Files
    BY <2>1, <1>0
  <2> QED
    BY <2>2, <1>0, <1>2 DEF Toggle, Huds
<1>3. CASE hud.on /\ hud.files.count = 1
  <2>1. then = [hud.files EXCEPT !.last = now]
    BY <1>3
  <2>2. then \in Files
    BY <2>1, <1>0
  <2> QED
    BY <2>2, <1>0, <1>3 DEF Toggle, Huds
<1>4. CASE hud.on /\ hud.files.count # 1
  <2>1. then = hud.files
    BY <1>4
  <2> QED
    BY <2>1, <1>0, <1>4 DEF Toggle, Huds
<1> QED
  BY <1>1, <1>2, <1>3, <1>4 DEF Huds

LEMMA PressedTypes ==
  ASSUME TypeOK, NEW n \in 0..2
  PROVE  Pressed(n) \in Huds
<1>1. Hud \in Huds
  BY DEF TypeOK, Hud, Huds
<1>2. Toggle(Hud) \in Huds /\ Toggle(Toggle(Hud)) \in Huds
  BY <1>1, ToggleTypes DEF TypeOK
<1> QED
  BY <1>1, <1>2 DEF Pressed

(* The finally clause, wherever it starts. *)
LEMMA FinallyTypes ==
  ASSUME PanAssumption, TInv, NEW on \in BOOLEAN, Finally(on), now' = now
  PROVE  /\ pc' \in {"restore", "await", "ended"}
         /\ wake' \in Nat /\ now' <= wake' /\ key' = "up" /\ InTime'
BY DEF PanAssumption, TInv, TypeOK, InTime, Hotkeys, Finally, Goto

LEMMA FailsTypes ==
  ASSUME PanAssumption, TInv, Fails, UNCHANGED <<now, machine>>, keys' \in
           [astray : BOOLEAN, stopped : BOOLEAN, late : BOOLEAN]
  PROVE  TInv'
<1>1. started \in BOOLEAN /\ Finally(started)
  BY DEF TInv, TypeOK, Fails
<1>2. /\ pc' \in {"restore", "await", "ended"}
      /\ wake' \in Nat /\ now' <= wake' /\ key' = "up" /\ InTime'
  BY <1>1, FinallyTypes
<1> QED
  BY <1>2 DEF TInv, TypeOK, Fails, machine

LEMMA TypeStep ==
  ASSUME PanAssumption, TInv, [Next]_vars
  PROVE  TInv'
<1> USE PanAssumption DEF TInv, TypeOK, InTime, Hotkeys
<1> SUFFICES ASSUME Next PROVE TInv'
  BY DEF vars, machine, recorder
<1>1. CASE Begin
  BY <1>1 DEF Begin, Goto
<1>2. CASE CheckGesture
  BY <1>2 DEF CheckGesture, Goto, Fails, Finally, machine
<1>3. CASE StartLogging
  <2>1. Phase \in [from : Nat, to : Nat]
    BY <1>3 DEF StartLogging, Phase
  <2>2. phases' \in [{"start", "stop"} -> [from : Nat, to : Nat]]
    BY <1>3, <2>1 DEF StartLogging
  <2> QED
    BY <1>3, <2>2 DEF StartLogging, Goto, machine
<1>4. CASE SendStop
  BY <1>4 DEF SendStop, Goto, machine
<1>5. CASE StopLogging
  <2>1. Phase \in [from : Nat, to : Nat]
    BY <1>5 DEF StopLogging, Phase
  <2>2. phases' \in [{"start", "stop"} -> [from : Nat, to : Nat]]
    BY <1>5, <2>1 DEF StopLogging
  <2>3. pc' = "reap" /\ wake' = now + WaitLimit /\ now' = now /\ started' = FALSE /\ key' = "up"
    BY <1>5 DEF StopLogging, Goto
  <2>4. UNCHANGED <<pan, log, files, result, keys>>
    BY <1>5 DEF StopLogging, machine
  <2>5. wake' \in Nat /\ now' <= wake' /\ now' \in Nat
    BY <2>3 DEF PanAssumption
  <2>6. pan' \in [state : {"none", "launched", "active", "done", "failed"}, from : Nat, to : Nat]
        /\ log' \in [on : BOOLEAN, before : BOOLEAN]
        /\ files' \in [count : Nat, begin : Nat, last : Nat]
        /\ keys' \in [astray : BOOLEAN, stopped : BOOLEAN, late : BOOLEAN]
        /\ result' \in [status : {"incomplete", "complete"}, unknown : BOOLEAN, running : BOOLEAN]
    BY <2>4
  <2> QED
    BY <2>2, <2>3, <2>5, <2>6
<1>6. CASE Reap
  BY <1>6 DEF Reap, Goto, Fails, Finally, machine
<1>7. CASE Collect
  BY <1>7 DEF Collect, Goto, Fails, Finally, machine
<1>8. CASE Restored
  BY <1>8 DEF Restored, Goto, Finally, machine
<1>9. CASE AwaitGesture
  <2>1. PanRunning \in BOOLEAN
    BY DEF PanRunning
  <2>2. result' \in [status : {"incomplete", "complete"}, unknown : BOOLEAN, running : BOOLEAN]
    BY <1>9, <2>1 DEF AwaitGesture
  <2> QED
    BY <1>9, <2>2 DEF AwaitGesture, Goto, machine
<1>10. CASE HelperFails
  <2>1. (key = "pressed") \in BOOLEAN
    OBVIOUS
  <2>2. keys' \in [astray : BOOLEAN, stopped : BOOLEAN, late : BOOLEAN]
    BY <1>10, <2>1 DEF HelperFails
  <2>3. CASE pc = "restore"
    <3>1. result' = [result EXCEPT !.unknown = TRUE] /\ Finally(FALSE)
          /\ UNCHANGED <<phases, started, now, machine>>
      BY <1>10, <2>3 DEF HelperFails
    <3>2. result' \in [status : {"incomplete", "complete"}, unknown : BOOLEAN, running : BOOLEAN]
      BY <3>1
    <3>3. /\ pc' \in {"restore", "await", "ended"}
          /\ wake' \in Nat /\ now' <= wake' /\ key' = "up" /\ InTime'
      BY <3>1, FinallyTypes
    <3> QED
      BY <2>2, <3>1, <3>2, <3>3 DEF machine
  <2>4. CASE pc # "restore"
    BY <1>10, <2>2, <2>4, FailsTypes DEF HelperFails
  <2> QED
    BY <2>3, <2>4
<1>11. CASE Press
  <2>1. PICK n \in 0..2 :
          /\ log' = [log EXCEPT !.on = Pressed(n).on]
          /\ files' = Pressed(n).files
          /\ keys' = [keys EXCEPT !.astray = @ \/ n # 1, !.stopped = @ \/ (pc = "stop" /\ n > 0)]
    BY <1>11 DEF Press
  <2>2. Pressed(n) \in Huds
    BY PressedTypes
  <2>3. /\ log' \in [on : BOOLEAN, before : BOOLEAN]
        /\ files' \in [count : Nat, begin : Nat, last : Nat]
    BY <2>1, <2>2 DEF Huds
  <2>4. (n # 1) \in BOOLEAN /\ (pc = "stop" /\ n > 0) \in BOOLEAN
    OBVIOUS
  <2>5. keys' \in [astray : BOOLEAN, stopped : BOOLEAN, late : BOOLEAN]
    BY <2>1, <2>4
  <2> QED
    BY <1>11, <2>3, <2>5 DEF Press
<1>12. CASE GestureBegins
  <2>1. pan' \in [state : {"none", "launched", "active", "done", "failed"}, from : Nat, to : Nat]
    BY <1>12 DEF GestureBegins
  <2> QED
    BY <1>12, <2>1 DEF GestureBegins, recorder
<1>13. CASE GestureEnds
  <2>1. pan' \in [state : {"none", "launched", "active", "done", "failed"}, from : Nat, to : Nat]
    BY <1>13 DEF GestureEnds
  <2> QED
    BY <1>13, <2>1 DEF GestureEnds, recorder
<1>14. CASE GestureFails
  BY <1>14 DEF GestureFails, recorder
<1>15. CASE Tick
  BY <1>15 DEF Tick, recorder
<1> QED
  BY <1>1, <1>2, <1>3, <1>4, <1>5, <1>6, <1>7, <1>8, <1>9, <1>10, <1>11, <1>12, <1>13,
     <1>14, <1>15 DEF Next, RecorderStep

LEMMA InitTypes ==
  ASSUME PanAssumption, Init
  PROVE  TInv
<1>1. log \in [on : BOOLEAN, before : BOOLEAN]
  <2>1. PICK on \in {FALSE, InitiallyOn} : log = [on |-> on, before |-> on]
    BY DEF Init
  <2>2. on \in BOOLEAN
    BY DEF PanAssumption
  <2> QED
    BY <2>1, <2>2
<1>2. phases \in [{"start", "stop"} -> [from : Nat, to : Nat]]
  BY DEF Init, Unset
<1>3. /\ pan \in [state : {"none", "launched", "active", "done", "failed"}, from : Nat, to : Nat]
      /\ files \in [count : Nat, begin : Nat, last : Nat]
      /\ result \in [status : {"incomplete", "complete"}, unknown : BOOLEAN, running : BOOLEAN]
      /\ keys \in [astray : BOOLEAN, stopped : BOOLEAN, late : BOOLEAN]
  BY DEF Init
<1>4. now = 0 /\ wake = 0 /\ pc = "idle" /\ key = "up" /\ started = FALSE
  BY DEF Init
<1>5. now \in Nat /\ wake \in Nat /\ now <= wake
  BY <1>4
<1>6. InTime
  BY <1>4 DEF InTime, Hotkeys
<1> QED
  BY <1>1, <1>2, <1>3, <1>4, <1>5, <1>6 DEF TInv, TypeOK

(* The types, and the clock that never passes the end of a wait. *)
THEOREM RecordPanTyped ==
  ASSUME PanAssumption
  PROVE  Spec => []TypeOK
<1>1. Init => TInv
  BY InitTypes
<1>2. TInv /\ [Next]_vars => TInv'
  BY TypeStep
<1>3. TInv => TypeOK
  BY DEF TInv
<1> QED
  BY <1>1, <1>2, <1>3, PTL DEF Spec

-----------------------------------------------------------------------------
(* A recorder that ends while the gesture still runs says so, whatever the *)
(* gesture and the helpers did and however long they took.                 *)
THEOREM RecordPanAccounted ==
  ASSUME PanAssumption
  PROVE  Spec => []GestureAccounted
<1>1. Init => TInv /\ GestureAccounted
  <2>1. Init => pc # "ended"
    BY DEF Init
  <2> QED
    BY <2>1, InitTypes DEF GestureAccounted
<1>2. TInv /\ GestureAccounted /\ [Next]_vars => TInv' /\ GestureAccounted'
  <2> SUFFICES ASSUME TInv, GestureAccounted, [Next]_vars PROVE GestureAccounted'
    BY TypeStep
  <2> USE DEF GestureAccounted, PanRunning, TInv, TypeOK
  <2>1. CASE UNCHANGED vars
    BY <2>1 DEF vars, machine, recorder
  <2>2. CASE Begin
    BY <2>2 DEF Begin, Goto
  <2>3. CASE CheckGesture
    BY <2>3 DEF CheckGesture, Goto, Fails, Finally, machine
  <2>4. CASE StartLogging \/ SendStop \/ StopLogging
    BY <2>4 DEF StartLogging, SendStop, StopLogging, Goto
  <2>5. CASE Reap
    BY <2>5 DEF Reap, Goto, Fails, Finally, machine
  <2>6. CASE Collect
    BY <2>6 DEF Collect, Goto, Fails, Finally, machine
  <2>7. CASE Restored
    BY <2>7 DEF Restored, Goto, Finally, machine
  <2>8. CASE AwaitGesture
    BY <2>8 DEF AwaitGesture, machine
  <2>9. CASE HelperFails
    BY <2>9 DEF HelperFails, Goto, Fails, Finally, machine
  <2>10. CASE Press
    BY <2>10 DEF Press
  <2>11. CASE GestureBegins
    BY <2>11 DEF GestureBegins, recorder
  <2>12. CASE GestureEnds
    BY <2>12 DEF GestureEnds, recorder
  <2>13. CASE GestureFails
    BY <2>13 DEF GestureFails, recorder
  <2>14. CASE Tick
    BY <2>14 DEF Tick, recorder
  <2> QED
    BY <2>1, <2>2, <2>3, <2>4, <2>5, <2>6, <2>7, <2>8, <2>9, <2>10, <2>11, <2>12, <2>13,
       <2>14 DEF Next, RecorderStep
<1> QED
  BY <1>1, <1>2, PTL DEF Spec

-----------------------------------------------------------------------------
(* Where logging stands at each point of a run that began with it off and  *)
(* whose hotkeys and helpers worked: the recorder's started follows it, a  *)
(* hotkey helper's key press apart.                                        *)
Steady == ~log.before /\ ~keys.astray /\ ~keys.late

Follows ==
  /\ pc \in {"idle", "warm", "start", "reap", "collect"} => ~started
  /\ pc \in {"sleep", "stop"} => started
  /\ pc \in {"idle", "warm", "reap", "collect"} => ~log.on
  /\ pc = "sleep" => log.on
  /\ pc = "start" => (key = "up" => ~log.on) /\ (key = "pressed" => log.on)
  /\ pc \in {"stop", "restore"} => (key = "up" => log.on) /\ (key = "pressed" => ~log.on)
  /\ pc \in {"await", "ended"} => ~log.on \/ result.unknown

LEMMA PressToggles ==
  ASSUME TypeOK, Press, ~keys'.astray
  PROVE  /\ ~keys.astray /\ log'.before = log.before /\ keys'.late = keys.late
         /\ (log.on => ~log'.on) /\ (~log.on => log'.on)
<1>1. PICK n \in 0..2 :
        /\ log' = [log EXCEPT !.on = Pressed(n).on]
        /\ keys' = [keys EXCEPT !.astray = @ \/ n # 1, !.stopped = @ \/ (pc = "stop" /\ n > 0)]
  BY DEF Press
<1>2. ~keys.astray /\ n = 1 /\ keys'.late = keys.late
  BY <1>1 DEF TypeOK
<1>3. Pressed(n) = Toggle(Hud)
  BY <1>2 DEF Pressed
<1>4. Hud \in Huds /\ Hud.on = log.on
  BY DEF Hud, Huds, TypeOK
<1>5. Toggle(Hud) \in Huds /\ (Hud.on => ~Toggle(Hud).on) /\ (~Hud.on => Toggle(Hud).on)
  BY <1>4, ToggleTypes DEF TypeOK
<1>6. log'.on = Toggle(Hud).on /\ log'.before = log.before
  BY <1>1, <1>3 DEF TypeOK
<1> QED
  BY <1>2, <1>4, <1>5, <1>6

LEMMA FollowsStep ==
  ASSUME PanAssumption, TInv, Steady => Follows, [Next]_vars, Steady'
  PROVE  Follows'
<1> USE DEF Steady, Follows, TInv, TypeOK
<1>1. CASE UNCHANGED vars
  BY <1>1 DEF vars, machine, recorder
<1>2. CASE Begin
  BY <1>2 DEF Begin, Goto
<1>3. CASE CheckGesture
  BY <1>3 DEF CheckGesture, Goto, Fails, Finally, machine
<1>4. CASE StartLogging
  BY <1>4 DEF StartLogging, Goto, machine
<1>5. CASE SendStop
  BY <1>5 DEF SendStop, Goto, machine
<1>6. CASE StopLogging
  BY <1>6 DEF StopLogging, Goto, machine
<1>7. CASE Reap
  BY <1>7 DEF Reap, Goto, Fails, Finally, machine
<1>8. CASE Collect
  BY <1>8 DEF Collect, Goto, Fails, Finally, machine
<1>9. CASE Restored
  BY <1>9 DEF Restored, Goto, Finally, machine
<1>10. CASE AwaitGesture
  BY <1>10 DEF AwaitGesture, Goto, machine
<1>11. CASE HelperFails
  <2>1. keys'.astray = keys.astray /\ ~keys.late /\ key = "up" /\ log' = log
    BY <1>11 DEF HelperFails, machine
  <2>2. Steady /\ Follows
    BY <1>11, <2>1
  <2> QED
    BY <1>11, <2>1, <2>2 DEF HelperFails, Goto, Fails, Finally, Hotkeys
<1>12. CASE Press
  <2>1. /\ Steady /\ Follows
        /\ (log.on => ~log'.on) /\ (~log.on => log'.on)
    BY <1>12, PressToggles
  <2> QED
    BY <1>12, <2>1 DEF Press, Hotkeys
<1>13. CASE GestureBegins
  BY <1>13 DEF GestureBegins, recorder
<1>14. CASE GestureEnds
  BY <1>14 DEF GestureEnds, recorder
<1>15. CASE GestureFails
  BY <1>15 DEF GestureFails, recorder
<1>16. CASE Tick
  BY <1>16 DEF Tick, recorder
<1> QED
  BY <1>1, <1>2, <1>3, <1>4, <1>5, <1>6, <1>7, <1>8, <1>9, <1>10, <1>11, <1>12, <1>13, <1>14,
     <1>15, <1>16 DEF Next, RecorderStep

(* A run that began with logging off ends with it off, or says that it     *)
(* does not know, wherever it failed and whatever its time limits are, as  *)
(* long as no hotkey went astray and no helper failed after its key press. *)
THEOREM RecordPanRestored ==
  ASSUME PanAssumption
  PROVE  Spec => []LoggingRestored
<1>1. Init => TInv /\ (Steady => Follows)
  <2> SUFFICES ASSUME Init PROVE Steady => Follows
    BY InitTypes
  <2>1. pc = "idle" /\ started = FALSE /\ (log.on => log.before)
    BY DEF Init
  <2> QED
    BY <2>1 DEF Steady, Follows
<1>2. TInv /\ (Steady => Follows) /\ [Next]_vars => TInv' /\ (Steady => Follows)'
  BY TypeStep, FollowsStep
<1>3. TInv /\ (Steady => Follows) => LoggingRestored
  BY DEF Steady, Follows, LoggingRestored
<1> QED
  BY <1>1, <1>2, <1>3, PTL DEF Spec

-----------------------------------------------------------------------------
(* What a toggle does to the files: it opens the next, or ends the last.   *)
LEMMA ToggleFiles ==
  ASSUME now \in Nat, NEW hud \in Huds
  PROVE  /\ hud.files.count = 0 /\ Toggle(hud).files.count > 0 =>
              Toggle(hud).files.count = 1 /\ Toggle(hud).files.begin = now
         /\ hud.files.count > 0 => Toggle(hud).files.begin = hud.files.begin
         /\ ~hud.on => Toggle(hud).files.count = hud.files.count + 1
         /\ hud.on => Toggle(hud).files.count = hud.files.count
         /\ hud.on /\ hud.files.count = 1 => Toggle(hud).files.last = now
         /\ hud.files.last <= now => Toggle(hud).files.last <= now
<1> DEFINE Files == [count : Nat, begin : Nat, last : Nat]
<1>0. hud.on \in BOOLEAN /\ hud.files \in Files
  BY DEF Huds
<1>1. CASE ~hud.on /\ hud.files.count = 0
  <2>1. Toggle(hud).files = [count |-> 1, begin |-> now, last |-> now]
    BY <1>1 DEF Toggle
  <2> QED
    BY <2>1, <1>0, <1>1
<1>2. CASE ~hud.on /\ hud.files.count > 0
  <2>1. Toggle(hud).files = [hud.files EXCEPT !.count = @ + 1]
    BY <1>2 DEF Toggle
  <2> QED
    BY <2>1, <1>0, <1>2
<1>3. CASE hud.on /\ hud.files.count = 1
  <2>1. Toggle(hud).files = [hud.files EXCEPT !.last = now]
    BY <1>3 DEF Toggle
  <2> QED
    BY <2>1, <1>0, <1>3
<1>4. CASE hud.on /\ hud.files.count # 1
  <2>1. Toggle(hud).files = hud.files
    BY <1>4 DEF Toggle
  <2> QED
    BY <2>1, <1>0, <1>4
<1> QED
  BY <1>0, <1>1, <1>2, <1>3, <1>4

(* What a hotkey does to them, whether or not it took effect.  A stop that *)
(* had an effect and left one file, which was there before, closed it.     *)
LEMMA PressFiles ==
  ASSUME TypeOK, Press, files.last <= now
  PROVE  /\ files.count = 0 /\ files'.count > 0 => files'.begin = now
         /\ files.count > 0 => files'.begin = files.begin
         /\ files'.last <= now
         /\ keys'.stopped => keys.stopped \/ pc = "stop"
         /\ keys'.stopped /\ ~keys.stopped /\ files.count > 0 /\ files'.count = 1 =>
              ~log'.on
<1>1. PICK n \in 0..2 :
        /\ log' = [log EXCEPT !.on = Pressed(n).on]
        /\ files' = Pressed(n).files
        /\ keys' = [keys EXCEPT !.astray = @ \/ n # 1, !.stopped = @ \/ (pc = "stop" /\ n > 0)]
  BY DEF Press
<1>2. /\ keys'.stopped => keys.stopped \/ (pc = "stop" /\ n > 0)
      /\ log'.on = Pressed(n).on
  <2>1. log'.on = Pressed(n).on
    BY <1>1 DEF TypeOK
  <2>2. keys'.stopped = (keys.stopped \/ (pc = "stop" /\ n > 0))
    BY <1>1 DEF TypeOK
  <2> QED
    BY <2>1, <2>2
<1>3. Hud \in Huds /\ Hud.on = log.on /\ Hud.files = files
  BY DEF Hud, Huds, TypeOK
<1>4. now \in Nat
  BY DEF TypeOK
<1>5. files \in [count : Nat, begin : Nat, last : Nat]
  BY DEF TypeOK
<1> DEFINE One == Toggle(Hud)
           Two == Toggle(One)
<1>6. One \in Huds /\ (Hud.on => ~One.on) /\ (~Hud.on => One.on)
  BY <1>3, <1>4, ToggleTypes
<1>7. Two \in Huds /\ (One.on => ~Two.on) /\ (~One.on => Two.on)
  BY <1>4, <1>6, ToggleTypes
<1>8. /\ files.count = 0 /\ One.files.count > 0 => One.files.count = 1 /\ One.files.begin = now
      /\ files.count > 0 => One.files.begin = files.begin
      /\ ~Hud.on => One.files.count = files.count + 1
      /\ Hud.on => One.files.count = files.count
      /\ One.files.last <= now
  BY <1>3, <1>4, ToggleFiles
<1>9. /\ One.files.count = 0 /\ Two.files.count > 0 => Two.files.count = 1 /\ Two.files.begin = now
      /\ One.files.count > 0 => Two.files.begin = One.files.begin
      /\ ~One.on => Two.files.count = One.files.count + 1
      /\ One.on => Two.files.count = One.files.count
      /\ Two.files.last <= now
  BY <1>4, <1>6, <1>8, ToggleFiles
<1>10. One.files.count \in Nat /\ Two.files.count \in Nat
  BY <1>6, <1>7 DEF Huds
<1>11. CASE n = 0
  <2>1. Pressed(n) = Hud
    BY <1>11 DEF Pressed
  <2> QED
    BY <1>1, <1>2, <1>3, <1>5, <1>11, <2>1
<1>12. CASE n = 1
  <2>1. Pressed(n) = One
    BY <1>12 DEF Pressed
  <2> QED
    BY <1>1, <1>2, <1>3, <1>5, <1>6, <1>8, <1>10, <1>12, <2>1
<1>13. CASE n = 2
  <2>1. Pressed(n) = Two
    BY <1>13 DEF Pressed
  <2>2. files.count > 0 => Two.files.count > 1
    BY <1>3, <1>5, <1>6, <1>8, <1>9, <1>10
  <2>3. files.count = 0 /\ Two.files.count > 0 => Two.files.begin = now
    BY <1>3, <1>5, <1>6, <1>8, <1>9, <1>10
  <2>4. files.count > 0 => Two.files.begin = files.begin
    BY <1>3, <1>5, <1>6, <1>8, <1>9, <1>10
  <2> QED
    BY <1>1, <1>2, <1>5, <1>9, <1>10, <2>1, <2>2, <2>3, <2>4
<1> QED
  BY <1>11, <1>12, <1>13

(* When the first log of the run can have begun, and what the stop hotkey  *)
(* has made of it if it was the start hotkey's.                            *)
Own == phases["start"].from <= files.begin /\ files.begin <= phases["start"].to
LateLog == phases["start"].to + 5 <= files.begin
Stopped == keys.stopped /\ files.count = 1 /\ Own

Logs ==
  /\ files.last <= now
  /\ result.status = "complete" => pc \in {"await", "ended"}
  /\ pc \in {"idle", "warm"} => files.count = 0
  /\ pc \in {"idle", "warm", "start", "sleep"} => ~keys.stopped
  /\ pc = "start" =>
       /\ key = "up" => files.count = 0
       /\ files.count > 0 => wake <= files.begin + HelperLimit /\ files.begin <= now
  /\ pc = "sleep" => wake = phases["start"].to + 5 /\ (files.count > 0 => Own)
  /\ pc = "stop" =>
       /\ phases["start"].to + 5 <= now
       /\ key = "up" => ~keys.stopped /\ (files.count > 0 => Own)
       /\ files.count > 0 => Own \/ LateLog
       /\ Stopped => ~log.on
  /\ pc \in {"reap", "collect"} =>
       /\ files.count > 0 => Own \/ LateLog
       /\ Stopped => ~log.on /\ files.last <= phases["stop"].to

SInv == TInv /\ Logs /\ CompleteSound

LEMMA LogsStep ==
  ASSUME PanAssumption, SInv, [Next]_vars
  PROVE  Logs' /\ CompleteSound'
<1> USE DEF SInv, TInv, TypeOK, InTime, Logs, CompleteSound, Own, LateLog, Stopped
<1>1. CASE UNCHANGED vars
  BY <1>1 DEF vars, machine, recorder
<1>2. CASE Begin
  BY <1>2 DEF Begin, Goto
<1>3. CASE CheckGesture
  BY <1>3 DEF CheckGesture, Goto, Fails, Finally, machine
<1>4. CASE StartLogging
  BY <1>4 DEF StartLogging, Goto, Phase, Hotkeys, machine
<1>5. CASE SendStop
  BY <1>5 DEF SendStop, Goto, machine
<1>6. CASE StopLogging
  BY <1>6 DEF StopLogging, Goto, Phase, Hotkeys, machine
<1>7. CASE Reap
  BY <1>7 DEF Reap, Goto, Fails, Finally, machine
<1>8. CASE Collect
  BY <1>8 DEF Collect, Accepted, Begun, Goto, Fails, Finally, machine
<1>9. CASE Restored
  BY <1>9 DEF Restored, Goto, Finally, machine
<1>10. CASE AwaitGesture
  BY <1>10 DEF AwaitGesture, Goto, machine
<1>11. CASE HelperFails
  BY <1>11 DEF HelperFails, Goto, Fails, Finally, machine, Hotkeys
<1>12. CASE Press
  <2>1. /\ pc \in Hotkeys /\ key = "up" /\ key' = "pressed"
        /\ UNCHANGED <<now, pan, pc, wake, phases, started, result>>
    BY <1>12 DEF Press
  <2>2. /\ files.count = 0 /\ files'.count > 0 => files'.begin = now
        /\ files.count > 0 => files'.begin = files.begin
        /\ files'.last <= now
        /\ keys'.stopped => keys.stopped \/ pc = "stop"
        /\ keys'.stopped /\ ~keys.stopped /\ files.count > 0 /\ files'.count = 1 =>
             ~log'.on
    BY <1>12, PressFiles
  <2>3. /\ files.count \in Nat /\ files.begin \in Nat /\ files.last \in Nat
        /\ files'.count \in Nat /\ files'.begin \in Nat /\ files'.last \in Nat
    <3>1. TInv'
      BY <1>12, TypeStep DEF Next
    <3> QED
      BY <3>1
  <2>4. result'.status = "incomplete"
    BY <2>1 DEF Hotkeys
  <2>5. CASE pc = "start"
    BY <2>1, <2>2, <2>3, <2>4, <2>5 DEF Hotkeys
  <2>6. CASE pc = "stop"
    BY <2>1, <2>2, <2>3, <2>4, <2>6 DEF Hotkeys
  <2>7. CASE pc = "restore"
    BY <2>1, <2>2, <2>3, <2>4, <2>7 DEF Hotkeys
  <2> QED
    BY <2>1, <2>5, <2>6, <2>7 DEF Hotkeys
<1>13. CASE GestureBegins
  BY <1>13 DEF GestureBegins, recorder
<1>14. CASE GestureEnds
  BY <1>14 DEF GestureEnds, recorder
<1>15. CASE GestureFails
  BY <1>15 DEF GestureFails, recorder
<1>16. CASE Tick
  BY <1>16 DEF Tick, recorder
<1> QED
  BY <1>1, <1>2, <1>3, <1>4, <1>5, <1>6, <1>7, <1>8, <1>9, <1>10, <1>11, <1>12, <1>13, <1>14,
     <1>15, <1>16 DEF Next, RecorderStep

(* A complete result is about the log of its own start hotkey, whatever    *)
(* was logged before, however often a hotkey took effect and however long  *)
(* the helpers took; a stop hotkey that had an effect closed that log.     *)
THEOREM RecordPanSound ==
  ASSUME PanAssumption
  PROVE  Spec => []CompleteSound
<1>1. Init => SInv
  <2> SUFFICES ASSUME Init PROVE Logs /\ CompleteSound
    BY InitTypes DEF SInv
  <2>1. /\ files.count = 0 /\ files.last = 0 /\ now = 0 /\ pc = "idle" /\ ~keys.stopped
        /\ result.status = "incomplete"
    BY DEF Init
  <2> QED
    BY <2>1 DEF Logs, CompleteSound
<1>2. SInv /\ [Next]_vars => SInv'
  BY TypeStep, LogsStep DEF SInv
<1>3. SInv => CompleteSound
  BY DEF SInv
<1> QED
  BY <1>1, <1>2, <1>3, PTL DEF Spec
-----------------------------------------------------------------------------
(* Pacing: the percentiles, and the frames of a phase. *)

(* A nearest rank is a place in the list, and a higher quantile's is not   *)
(* before a lower one's.                                                   *)
LEMMA RankInRange ==
  ASSUME NEW n \in Nat \ {0}, NEW p \in 1..100, NEW q \in p..100
  PROVE  Rank(p, n) \in 1..n /\ Rank(q, n) \in 1..n /\ Rank(p, n) <= Rank(q, n)
<1>1. p * n \in Nat /\ q * n \in Nat /\ 1 <= p * n /\ p * n <= q * n /\ q * n <= 100 * n
  OBVIOUS
<1> QED
  BY <1>1 DEF Rank

(* The percentiles that summarize() and analyze-pacing report are values   *)
(* of the list, in order, and none is above the maximum.                   *)
THEOREM NearestOrdered ==
  ASSUME NEW values \in Seq(Int), values # <<>>, Ascending(values),
         NEW p \in 1..100, NEW q \in p..100
  PROVE  Nearest(values, p) <= Nearest(values, q) /\ Nearest(values, q) <= values[Len(values)]
<1>1. Len(values) \in Nat \ {0} /\ DOMAIN values = 1..Len(values)
  OBVIOUS
<1>2. /\ Rank(p, Len(values)) \in 1..Len(values) /\ Rank(q, Len(values)) \in 1..Len(values)
      /\ Rank(p, Len(values)) <= Rank(q, Len(values))
  BY <1>1, RankInRange
<1> QED
  BY <1>1, <1>2 DEF Nearest, Ascending

(* A nearest rank is what a percentile is: at least the share is not above *)
(* it, and less than the share is below it, for every list and quantile,   *)
(* with repeated values or not.                                            *)
THEOREM NearestIsPercentile ==
  ASSUME NEW values \in Seq(Int), values # <<>>, Ascending(values), NEW q \in 1..100
  PROVE  LeastOfShare(values, q)
<1> DEFINE n == Len(values)
           r == Rank(q, n)
           v == Nearest(values, q)
           upto == {i \in 1..n : values[i] <= v}
           below == {i \in 1..n : values[i] < v}
<1>1. n \in Nat \ {0} /\ DOMAIN values = 1..n /\ \A i \in 1..n : values[i] \in Int
  OBVIOUS
<1>2. r \in 1..n /\ r - 1 \in Nat
  <2>1. q \in q..100 /\ n \in Nat \ {0}
    BY <1>1
  <2>2. r \in 1..n
    BY <2>1, RankInRange
  <2> QED
    BY <1>1, <2>2
<1>3. q * n <= 100 * r /\ 100 * (r - 1) < q * n
  <2>1. q * n \in Nat
    BY <1>1
  <2> DEFINE share == q * n
  <2>2. r = -((-share) \div 100)
    BY DEF Rank
  <2> HIDE DEF share, r
  <2>3. share <= 100 * r /\ 100 * (r - 1) < share
    BY <2>1, <2>2 DEF share
  <2> QED
    BY <2>3 DEF share
<1>4. v = values[r]
  BY DEF Nearest
<1> HIDE DEF n, r, v
<1>5. /\ IsFiniteSet(1..n) /\ Cardinality(1..r) = r /\ Cardinality(1..(r - 1)) = r - 1
  <2>1. \A k \in Nat : IsFiniteSet(1..k) /\ Cardinality(1..k) = k
    <3> TAKE k \in Nat
    <3>1. k = (IF 1 > k THEN 0 ELSE k - 1 + 1)
      OBVIOUS
    <3> QED
      BY <3>1, FS_Interval
  <2> QED
    BY <1>1, <1>2, <2>1
<1>6. 1..r \subseteq upto /\ below \subseteq 1..(r - 1)
  <2>1. ASSUME NEW i \in 1..r PROVE i \in upto
    <3>1. i \in 1..n /\ r \in 1..n /\ i <= r
      BY <1>1, <1>2
    <3> QED
      BY <1>1, <1>4, <3>1 DEF Ascending
  <2>2. ASSUME NEW i \in below PROVE i \in 1..(r - 1)
    <3>1. i \in 1..n /\ r \in 1..n /\ values[i] < values[r]
      BY <1>2, <1>4
    <3>2. ~(r <= i)
      BY <1>1, <3>1 DEF Ascending
    <3> QED
      BY <1>1, <3>1, <3>2
  <2> QED
    BY <2>1, <2>2
<1>7. IsFiniteSet(upto) /\ IsFiniteSet(1..(r - 1))
  <2>1. upto \subseteq 1..n /\ 1..(r - 1) \subseteq 1..n
    BY <1>1, <1>2
  <2> QED
    BY <1>5, <2>1, FS_Subset
<1> HIDE DEF upto, below
<1>8. /\ Cardinality(upto) \in Nat /\ r <= Cardinality(upto)
      /\ Cardinality(below) \in Nat /\ Cardinality(below) <= r - 1
  <2>1. r <= Cardinality(upto)
    BY <1>5, <1>6, <1>7, FS_Subset
  <2>2. IsFiniteSet(below) /\ Cardinality(below) <= r - 1
    BY <1>5, <1>6, <1>7, FS_Subset
  <2> QED
    BY <1>7, <2>1, <2>2, FS_CardinalityType
<1>9. q * n \in Nat
  BY <1>1
<1>10. 100 * Cardinality(upto) >= q * n /\ 100 * Cardinality(below) < q * n
  <2> DEFINE share == q * n
             c == Cardinality(upto)
             d == Cardinality(below)
  <2>1. /\ share \in Nat /\ c \in Nat /\ d \in Nat /\ r <= c /\ d <= r - 1
        /\ share <= 100 * r /\ 100 * (r - 1) < share
    BY <1>3, <1>8, <1>9
  <2> HIDE DEF share, c, d
  <2>2. 100 * c >= share /\ 100 * d < share
    BY <1>1, <1>2, <2>1
  <2> QED
    BY <2>2 DEF share, c, d
<1> QED
  BY <1>10 DEF LeastOfShare, n, v, upto, below

(* A value between two neighbours is between them, and grows with its      *)
(* distance from the lower one.                                            *)
LEMMA Scaled ==
  ASSUME NEW d \in Nat, NEW r \in Nat, NEW s \in Nat, r <= s
  PROVE  d * r \in Nat /\ d * s \in Nat /\ d * r <= d * s
OBVIOUS

LEMMA BetweenBounds ==
  ASSUME NEW a \in Int, NEW b \in Int, a <= b, NEW r \in 0..99
  PROVE  /\ Between(a, b, r) \in Int
         /\ 100 * a <= Between(a, b, r) /\ Between(a, b, r) <= 100 * b
<1> DEFINE d == b - a
<1>1. d \in Nat /\ r \in Nat /\ r <= 100 /\ d * 100 = 100 * b - 100 * a
  OBVIOUS
<1>2. Between(a, b, r) = 100 * a + d * r
  BY DEF Between
<1> HIDE DEF d
<1>3. d * r \in Nat /\ d * r <= d * 100
  BY <1>1, Scaled
<1> QED
  BY <1>1, <1>2, <1>3

LEMMA BetweenGrows ==
  ASSUME NEW a \in Int, NEW b \in Int, a <= b, NEW r \in 0..99, NEW s \in 0..99, r <= s
  PROVE  Between(a, b, r) <= Between(a, b, s)
<1> DEFINE d == b - a
<1>1. d \in Nat /\ r \in Nat /\ s \in Nat /\ 100 * a \in Int
  OBVIOUS
<1>2. Between(a, b, r) = 100 * a + d * r /\ Between(a, b, s) = 100 * a + d * s
  BY DEF Between
<1> HIDE DEF d
<1>3. d * r \in Nat /\ d * s \in Nat /\ d * r <= d * s
  BY <1>1, Scaled
<1> QED
  BY <1>1, <1>2, <1>3

(* present-trace's percentiles are in order and not above the maximum, for *)
(* every list of times.                                                    *)
THEOREM InterpolatedOrdered ==
  ASSUME NEW values \in Seq(Int), values # <<>>, Ascending(values),
         NEW p \in 0..100, NEW q \in p..100
  PROVE  /\ Interpolated(values, p) <= Interpolated(values, q)
         /\ Interpolated(values, q) <= 100 * values[Len(values)]
<1> DEFINE n == Len(values)
           lp == Low(p, n)
           lq == Low(q, n)
           hp == High(p, n)
           hq == High(q, n)
           rp == Point(p, n) % 100
           rq == Point(q, n) % 100
<1>1. n \in Nat /\ n >= 1 /\ DOMAIN values = 1..n /\ \A i \in 1..n : values[i] \in Int
  OBVIOUS
<1>2. /\ Point(p, n) \in Nat /\ Point(q, n) \in Nat
      /\ Point(p, n) <= Point(q, n) /\ Point(q, n) <= (n - 1) * 100
  <2>1. n - 1 \in Nat /\ p \in Nat /\ q \in Nat /\ p <= q /\ q <= 100
    BY <1>1
  <2> DEFINE m == n - 1
  <2>2. m * p \in Nat /\ m * q \in Nat /\ m * p <= m * q /\ m * q <= m * 100
    <3> HIDE DEF m
    <3> QED
      BY <2>1 DEF m
  <2> QED
    BY <2>2 DEF Point
<1>3. /\ lp \in 1..n /\ lq \in 1..n /\ hp \in 1..n /\ hq \in 1..n
      /\ lp <= hp /\ lq <= hq /\ lp <= lq /\ (lp = lq => hp = hq) /\ (lp # lq => hp <= lq)
      /\ rp \in 0..99 /\ rq \in 0..99 /\ (lp = lq => rp <= rq)
  <2> DEFINE x == Point(p, n)
             y == Point(q, n)
             c == x \div 100
             e == y \div 100
  <2>1. /\ n \in Nat /\ n >= 1 /\ x \in Nat /\ y \in Nat /\ x <= y /\ y <= (n - 1) * 100
    BY <1>1, <1>2
  <2>2. /\ lp = c + 1 /\ hp = (IF lp < n THEN lp + 1 ELSE n) /\ rp = x % 100
        /\ lq = e + 1 /\ hq = (IF lq < n THEN lq + 1 ELSE n) /\ rq = y % 100
    BY DEF Low, High
  <2> HIDE DEF n, lp, lq, hp, hq, rp, rq, x, y
  <2>3. /\ c \in Nat /\ e \in Nat /\ x % 100 \in 0..99 /\ y % 100 \in 0..99
        /\ x = 100 * c + (x % 100) /\ y = 100 * e + (y % 100)
    BY <2>1
  <2> HIDE DEF c, e
  <2>4. c <= e /\ e <= n - 1 /\ (c = e => x % 100 <= y % 100)
    BY <2>1, <2>3
  <2> QED
    BY <2>1, <2>2, <2>3, <2>4
<1>4. /\ Interpolated(values, p) = Between(values[lp], values[hp], rp)
      /\ Interpolated(values, q) = Between(values[lq], values[hq], rq)
  BY DEF Interpolated
<1>5. /\ values[lp] \in Int /\ values[hp] \in Int /\ values[lq] \in Int /\ values[hq] \in Int
      /\ values[lp] <= values[hp] /\ values[lq] <= values[hq] /\ values[hq] <= values[n]
      /\ (lp # lq => values[hp] <= values[lq])
  <2> HIDE DEF n, lp, lq, hp, hq, rp, rq
  <2>1. \A i, j \in 1..n : i <= j => values[i] <= values[j]
    BY <1>1 DEF Ascending
  <2>2. n \in 1..n /\ hq <= n
    BY <1>1, <1>3
  <2>3. /\ values[lp] <= values[hp] /\ values[lq] <= values[hq] /\ values[hq] <= values[n]
        /\ (lp # lq => values[hp] <= values[lq])
    BY <1>3, <2>1, <2>2
  <2>4. values[lp] \in Int /\ values[hp] \in Int /\ values[lq] \in Int /\ values[hq] \in Int
    BY <1>1, <1>3
  <2> QED
    BY <2>3, <2>4
<1> HIDE DEF n, lp, lq, hp, hq, rp, rq
<1>6. \/ values[hp] <= values[lq]
      \/ values[lp] = values[lq] /\ values[hp] = values[hq] /\ rp <= rq
  BY <1>3, <1>5
<1>7. values[n] \in Int /\ rp \in 0..99 /\ rq \in 0..99
  BY <1>1, <1>3
<1>8. /\ Between(values[lp], values[hp], rp) <= Between(values[lq], values[hq], rq)
      /\ Between(values[lq], values[hq], rq) <= 100 * values[n]
  <2> DEFINE a == values[lp]
             b == values[hp]
             c == values[lq]
             d == values[hq]
             top == values[n]
  <2>1. /\ a \in Int /\ b \in Int /\ c \in Int /\ d \in Int /\ top \in Int
        /\ a <= b /\ c <= d /\ d <= top /\ (b <= c \/ (a = c /\ b = d /\ rp <= rq))
    BY <1>5, <1>6, <1>7
  <2> HIDE DEF a, b, c, d, top
  <2>2. Between(a, b, rp) \in Int /\ Between(a, b, rp) <= 100 * b
    BY <2>1, <1>7, BetweenBounds
  <2>3. /\ Between(c, d, rq) \in Int
        /\ 100 * c <= Between(c, d, rq) /\ Between(c, d, rq) <= 100 * d
    BY <2>1, <1>7, BetweenBounds
  <2>4. Between(a, b, rp) <= Between(c, d, rq)
    <3>1. CASE b <= c
      BY <3>1, <2>1, <2>2, <2>3
    <3>2. CASE a = c /\ b = d /\ rp <= rq
      <4>1. Between(a, b, rp) <= Between(a, b, rq)
        BY <3>2, <2>1, <1>7, BetweenGrows
      <4> QED
        BY <3>2, <4>1
    <3> QED
      BY <2>1, <3>1, <3>2
  <2>5. Between(c, d, rq) <= 100 * top
    BY <2>1, <2>3
  <2> QED
    BY <2>4, <2>5 DEF a, b, c, d, top
<1> QED
  BY <1>4, <1>8 DEF n

(* A frame that analyze-pacing counts for a phase was rendered in that     *)
(* phase, though its log's name says no more than the second.              *)
THEOREM FramesOfPhase ==
  ASSUME NEW began \in Nat, NEW elapsed \in Nat, NEW phase \in [start : Nat, end : Nat],
         InPhase(phase, Dated(began, elapsed))
  PROVE  phase.start <= began + elapsed /\ began + elapsed <= phase.end
BY DEF InPhase, Dated, Named
-----------------------------------------------------------------------------
(* Samplers: what a pass knows of the tasks. *)

(* A reading is of a task that has started, and none of its counters is    *)
(* above what the task has now.                                            *)
Of(reading, t) ==
  /\ reading.of <= starts
  /\ reading.start # 0 => reading.of # 0
  /\ reading.of # 0 /\ reading.of = task[t].start => reading.work <= task[t].work
  /\ ~Reuse \/ tool = "monitor" => reading.start = reading.of

Readings ==
  /\ starts >= 1
  /\ \A t \in Tasks : task[t].start <= starts
  /\ \A t \in Tasks : Of(before[t], t) /\ Of(after[t], t)
  /\ \A t \in Tasks : before[t].of = after[t].of /\ after[t].of # 0 =>
       before[t].work <= after[t].work

(* The task being read is the one whose start time was read, or gone. *)
EntryOf ==
  /\ place \in {"read", "name"} => entry.id \in Tasks
  /\ ~Reuse /\ tool = "trace" /\ place = "read" => task[entry.id].start \in {0, entry.start}

(* Between its identification and the end of a pass the traced process is  *)
(* not replaced, so both I/O readings are its own.                         *)
IoOf ==
  /\ place = "first" => ~later
  /\ ~Reuse /\ tool = "trace" =>
       /\ task[Main].start = 1 => io.before.of \in {0, 1} /\ io.after.of \in {0, 1}
       /\ later /\ place \in {"begin", "scan", "read", "io", "flag"} => io.before.of \in {0, 1}
       /\ later /\ place \in {"begin", "scan", "read", "io"} => task[Main].start \in {0, 1}
       /\ later /\ place = "flag" => io.after.of \in {0, 1}

SamplersInv == SamplersTypeOK /\ Readings /\ EntryOf /\ IoOf

LEMMA SamplersInitial == SamplersInit => SamplersInv
<1> SUFFICES ASSUME SamplersInit PROVE SamplersInv
  OBVIOUS
<1> USE SamplersAssumption DEF SamplersInit
<1>1. Nothing \in Reading /\ Empty \in [Tasks -> Reading] /\ \A t \in Tasks : Empty[t] = Nothing
  BY DEF Nothing, Empty, Reading
<1>2. task \in [Tasks -> Living] /\ \A t \in Tasks : task[t].start \in {0, 1}
  BY DEF Living, Gone
<1>3. /\ io \in [before : Reading, after : Reading] /\ io.before.of = 0 /\ io.after.of = 0
      /\ place \in {"first", "begin"} /\ (tool = "monitor" => place = "begin")
      /\ (tool = "trace" => place = "first")
  BY <1>1 DEF Nothing
<1>4. SamplersTypeOK
  <2>1. PICK on, off \in BOOLEAN : stats = [on |-> on, off |-> off, gap |-> FALSE]
    OBVIOUS
  <2>2. stats \in [on : BOOLEAN, off : BOOLEAN, gap : BOOLEAN]
    BY <2>1
  <2>3. starts \in 0..MaxStarts /\ entry \in [id : Tasks \cup {None}, start : 0..MaxStarts]
    OBVIOUS
  <2> QED
    BY <1>1, <1>2, <1>3, <2>2, <2>3 DEF SamplersTypeOK
<1>5. Readings
  BY <1>1, <1>2 DEF Readings, Of, Nothing
<1>6. EntryOf
  BY <1>3 DEF EntryOf
<1>7. IoOf
  BY <1>3 DEF IoOf
<1> QED
  BY <1>4, <1>5, <1>6, <1>7 DEF SamplersInv

LEMMA TaskTyped ==
  ASSUME SamplersTypeOK, NEW t \in Tasks
  PROVE  /\ task[t] \in Living /\ task[t].start \in 0..MaxStarts /\ task[t].work \in 0..MaxWork
         /\ task[t].ours \in BOOLEAN
<1>1. task[t] \in Living
  <2> HIDE DEF Living
  <2> QED
    BY DEF SamplersTypeOK
<1> QED
  BY <1>1 DEF Living

LEMMA ReadingsTyped ==
  ASSUME SamplersTypeOK, NEW t \in Tasks
  PROVE  /\ before[t] \in Reading /\ after[t] \in Reading
         /\ before[t].start \in 0..MaxStarts /\ before[t].work \in 0..MaxWork
         /\ before[t].of \in 0..MaxStarts
         /\ after[t].start \in 0..MaxStarts /\ after[t].work \in 0..MaxWork
         /\ after[t].of \in 0..MaxStarts
<1>1. before[t] \in Reading /\ after[t] \in Reading
  <2> HIDE DEF Reading
  <2> QED
    BY DEF SamplersTypeOK
<1> QED
  BY <1>1 DEF Reading

(* What may become of a task: it works on, it is gone, or its id is given  *)
(* to one that has never been before.                                      *)
LEMMA WorldMoves ==
  ASSUME SamplersInv, TaskStarts \/ TaskEnds \/ TaskWorks
  PROVE  /\ task' \in [Tasks -> Living] /\ starts' \in 0..MaxStarts /\ starts <= starts'
         /\ \A u \in Tasks :
              \/ task'[u].start = task[u].start /\ task[u].work <= task'[u].work
              \/ task'[u].start = 0
              \/ task'[u].start = starts + 1 /\ starts' = starts + 1 /\ (HalfRead(u) => Reuse)
         /\ UNCHANGED <<stats, tool, place, todo, entry, before, after, io, enabled, later, rows>>
<1> USE SamplersAssumption
<1>0. /\ task \in [Tasks -> Living] /\ starts \in 0..MaxStarts
      /\ Gone \in Living /\ Gone.start = 0
  BY DEF SamplersInv, SamplersTypeOK, Gone, Living
<1>1. CASE TaskStarts
  <2>1. PICK t \in Tasks, ours \in BOOLEAN :
          /\ starts < MaxStarts /\ (HalfRead(t) => Reuse)
          /\ task' = [task EXCEPT ![t] = [start |-> starts + 1, work |-> 0, ours |-> ours]]
          /\ starts' = starts + 1
    BY <1>1 DEF TaskStarts
  <2>2. UNCHANGED <<stats, tool, place, todo, entry, before, after, io, enabled, later, rows>>
    BY <1>1 DEF TaskStarts, pass
  <2> DEFINE new == [start |-> starts + 1, work |-> 0, ours |-> ours]
  <2>3. new \in Living /\ new.start = starts + 1
    BY <1>0, <2>1 DEF Living
  <2>4. task' = [task EXCEPT ![t] = new]
    BY <2>1
  <2>5. \A u \in Tasks : task[u].work \in 0..MaxWork
    BY TaskTyped DEF SamplersInv
  <2> HIDE DEF new
  <2>6. task' \in [Tasks -> Living] /\ \A u \in Tasks : task'[u] = IF u = t THEN new ELSE task[u]
    <3> HIDE DEF Living
    <3> QED
      BY <1>0, <2>3, <2>4
  <2> QED
    BY <1>0, <2>1, <2>2, <2>3, <2>5, <2>6
<1>2. CASE TaskEnds
  <2>1. PICK t \in Tasks :
          task' = [u \in Tasks |-> IF u = t \/ (tool = "trace" /\ t = Main) THEN Gone ELSE task[u]]
    BY <1>2 DEF TaskEnds
  <2>2. UNCHANGED <<starts, stats, tool, place, todo, entry, before, after, io, enabled,
                   later, rows>>
    BY <1>2 DEF TaskEnds, pass
  <2>3. task' \in [Tasks -> Living] /\ \A u \in Tasks : task'[u] = task[u] \/ task'[u] = Gone
    <3> HIDE DEF Living, Gone
    <3> QED
      BY <1>0, <2>1
  <2>4. \A u \in Tasks : task[u].work \in 0..MaxWork
    BY TaskTyped DEF SamplersInv
  <2> QED
    BY <1>0, <2>2, <2>3, <2>4
<1>3. CASE TaskWorks
  <2>1. PICK t \in Tasks : task[t].work < MaxWork /\ task' = [task EXCEPT ![t].work = @ + 1]
    BY <1>3 DEF TaskWorks
  <2>2. UNCHANGED <<starts, stats, tool, place, todo, entry, before, after, io, enabled,
                   later, rows>>
    BY <1>3 DEF TaskWorks, pass
  <2> DEFINE new == [start |-> task[t].start, work |-> task[t].work + 1, ours |-> task[t].ours]
  <2>3. /\ new \in Living /\ new.start = task[t].start /\ new.work = task[t].work + 1
        /\ \A u \in Tasks : task[u].work \in 0..MaxWork
    BY <2>1, TaskTyped DEF SamplersInv, Living
  <2>4. task' = [task EXCEPT ![t] = new]
    <3>1. task[t] \in Living
      BY TaskTyped DEF SamplersInv
    <3>2. [task[t] EXCEPT !.work = @ + 1] = new
      BY <3>1 DEF Living
    <3> QED
      BY <2>1, <3>2
  <2> HIDE DEF new
  <2>5. task' \in [Tasks -> Living] /\ \A u \in Tasks : task'[u] = IF u = t THEN new ELSE task[u]
    <3> HIDE DEF Living
    <3> QED
      BY <1>0, <2>3, <2>4
  <2> QED
    BY <1>0, <2>2, <2>3, <2>5
<1> QED
  BY <1>1, <1>2, <1>3

LEMMA WorldKeeps ==
  ASSUME SamplersInv, TaskStarts \/ TaskEnds \/ TaskWorks
  PROVE  SamplersInv'
<1> USE SamplersAssumption DEF SamplersInv
<1>1. /\ task' \in [Tasks -> Living] /\ starts' \in 0..MaxStarts /\ starts <= starts'
      /\ UNCHANGED <<stats, tool, place, todo, entry, before, after, io, enabled, later, rows>>
      /\ starts \in Nat /\ starts >= 1 /\ starts' \in Nat
  BY WorldMoves DEF SamplersTypeOK, Readings
<1>2. \A u \in Tasks :
        \/ task'[u].start = task[u].start /\ task[u].work <= task'[u].work
        \/ task'[u].start = 0
        \/ task'[u].start = starts + 1 /\ starts' = starts + 1 /\ (HalfRead(u) => Reuse)
  BY WorldMoves
<1>3. SamplersTypeOK'
  BY <1>1 DEF SamplersTypeOK
<1>4. ASSUME NEW t \in Tasks PROVE task'[t].start <= starts' /\ task'[t].work \in Nat
  <2>1. task'[t] \in Living
    BY <1>1
  <2> QED
    BY <1>1, <1>2, <2>1, TaskTyped DEF Readings, Living
<1>5. ASSUME NEW t \in Tasks, NEW reading \in Reading, Of(reading, t) PROVE Of(reading, t)'
  <2>1. reading.of \in Nat /\ reading.work \in Nat /\ reading.of <= starts
    BY <1>5 DEF Reading, Of
  <2>2. reading.of # 0 /\ reading.of = task'[t].start => reading.work <= task'[t].work
    <3> SUFFICES ASSUME reading.of # 0, reading.of = task'[t].start
                 PROVE  reading.work <= task'[t].work
      OBVIOUS
    <3>1. task'[t].start = task[t].start /\ task[t].work <= task'[t].work
      BY <1>1, <1>2, <2>1
    <3>2. reading.work <= task[t].work
      BY <1>5, <3>1 DEF Of
    <3> QED
      BY <1>4, <2>1, <3>1, <3>2, TaskTyped
  <2> QED
    BY <1>1, <1>5, <2>1, <2>2 DEF Of
<1>6. Readings'
  BY <1>1, <1>4, <1>5, ReadingsTyped DEF Readings
<1>7. EntryOf'
  <2>1. ASSUME ~Reuse, tool = "trace", place = "read"
        PROVE  task'[entry.id].start \in {0, entry.start}
    <3>1. entry.id \in Tasks /\ task[entry.id].start \in {0, entry.start}
      BY <2>1 DEF EntryOf
    <3>2. HalfRead(entry.id)
      BY <2>1 DEF HalfRead
    <3> QED
      BY <1>2, <2>1, <3>1, <3>2
  <2> QED
    BY <1>1, <2>1 DEF EntryOf
<1>8. IoOf'
  <2> SUFFICES ASSUME ~Reuse, tool = "trace" PROVE IoOf'
    BY <1>1 DEF IoOf
  <2>1. task'[Main].start = 1 => task[Main].start = 1
    BY <1>1, <1>2
  <2>2. place \in {"begin", "scan", "read", "io"} /\ task[Main].start \in {0, 1} =>
          task'[Main].start \in {0, 1}
    BY <1>2 DEF HalfRead
  <2> QED
    BY <1>1, <2>1, <2>2 DEF IoOf
<1> QED
  BY <1>3, <1>6, <1>7, <1>8

(* The flag, and the steps between two passes. *)
LEMMA BetweenPassesKeeps ==
  ASSUME SamplersInv,
         \/ StatsSwitched \/ FirstFlag \/ CheckIdentity \/ BeginPass \/ EndScan \/ Sleep
  PROVE  SamplersInv'
<1> USE SamplersAssumption DEF SamplersInv
<1>1. /\ UNCHANGED <<task, starts, tool, entry, before, io, later>>
      /\ after' \in {after, Empty} /\ todo' \in {todo, Tasks}
  BY DEF StatsSwitched, FirstFlag, CheckIdentity, BeginPass, EndScan, Sleep, world, pass
<1>2. stats' \in [on : BOOLEAN, off : BOOLEAN, gap : BOOLEAN] /\ enabled' \in BOOLEAN
  <2>1. stats \in [on : BOOLEAN, off : BOOLEAN, gap : BOOLEAN] /\ enabled \in BOOLEAN
    BY DEF SamplersTypeOK
  <2>2. PICK flag \in BOOLEAN : flag <=> ~stats.on
    OBVIOUS
  <2>3. CASE StatsSwitched
    <3>1. UNCHANGED enabled /\ stats' = [stats EXCEPT !.on = ~@, !.off = TRUE]
      BY <2>3 DEF StatsSwitched
    <3>2. stats' = [on |-> flag, off |-> TRUE, gap |-> stats.gap]
      BY <2>1, <2>2, <3>1
    <3> QED
      BY <2>1, <2>2, <3>1, <3>2
  <2>4. CASE BeginPass
    <3>1. UNCHANGED enabled /\ stats' = [stats EXCEPT !.gap = stats.off]
      BY <2>4 DEF BeginPass
    <3> QED
      BY <2>1, <3>1
  <2>5. CASE EndScan
    <3>1. UNCHANGED enabled /\ stats' = [stats EXCEPT !.off = ~stats.on]
      BY <2>5 DEF EndScan
    <3>2. stats' = [on |-> stats.on, off |-> flag, gap |-> stats.gap]
      BY <2>1, <2>2, <3>1
    <3> QED
      BY <2>1, <2>2, <3>1, <3>2
  <2>6. CASE FirstFlag
    BY <2>1, <2>6 DEF FirstFlag, world
  <2>7. CASE CheckIdentity \/ Sleep
    BY <2>1, <2>7 DEF CheckIdentity, Sleep, world
  <2> QED
    BY <2>3, <2>4, <2>5, <2>6, <2>7
<1>3. /\ place' = place \/ place' \in {"check", "begin", "scan", "io", "flag", "ended"}
      /\ rows' \in {rows, {}}
  BY DEF StatsSwitched, FirstFlag, CheckIdentity, BeginPass, EndScan, Sleep
<1>4. Nothing \in Reading /\ Empty \in [Tasks -> Reading] /\ \A t \in Tasks : Empty[t] = Nothing
  BY DEF Nothing, Empty, Reading
<1>5. SamplersTypeOK'
  <2>1. after' \in [Tasks -> Reading]
    BY <1>1, <1>4 DEF SamplersTypeOK
  <2> QED
    BY <1>1, <1>2, <1>3, <2>1 DEF SamplersTypeOK
<1>6. Readings'
  <2>1. \A t \in Tasks : after'[t] = after[t] \/ after'[t] = Nothing
    BY <1>1, <1>4
  <2>2. \A t \in Tasks : Of(Nothing, t)'
    BY <1>1 DEF Of, Nothing, Readings, SamplersTypeOK
  <2>3. \A t \in Tasks :
          Of(before[t], t)' /\ (Of(after[t], t) => (after'[t] = after[t] => Of(after[t], t)'))
    BY <1>1 DEF Of, Readings
  <2> QED
    BY <1>1, <2>1, <2>2, <2>3 DEF Readings, Of, Nothing
<1>7. EntryOf'
  BY <1>1, <1>3 DEF EntryOf
<1>8. IoOf'
  <2> SUFFICES ASSUME ~Reuse, tool = "trace" PROVE IoOf'
    BY <1>1, <1>3 DEF IoOf
  <2>1. CASE StatsSwitched \/ FirstFlag
    <3>1. place' = place \/ (place = "first" /\ place' = "begin")
      BY <2>1 DEF StatsSwitched, FirstFlag
    <3> QED
      BY <1>1, <2>1, <3>1 DEF IoOf
  <2>2. CASE CheckIdentity
    BY <1>1, <2>2 DEF CheckIdentity, IoOf
  <2>3. CASE BeginPass
    BY <1>1, <2>3 DEF BeginPass, IoOf
  <2>4. CASE EndScan
    BY <1>1, <2>4 DEF EndScan, IoOf
  <2>5. CASE Sleep
    BY <1>1, <2>5 DEF Sleep, IoOf
  <2> QED
    BY <2>1, <2>2, <2>3, <2>4, <2>5
<1> QED
  BY <1>2, <1>5, <1>6, <1>7, <1>8

LEMMA ReadFirstKeeps ==
  ASSUME SamplersInv, ReadFirst
  PROVE  SamplersInv'
<1> USE SamplersAssumption DEF SamplersInv
<1>1. PICK t \in todo :
        /\ todo' = todo \ {t}
        /\ IF Listed(t)
             THEN entry' = [id |-> t, start |-> IF tool = "trace" THEN task[t].start ELSE 0]
                  /\ place' = "read"
             ELSE UNCHANGED <<entry, place>>
  BY DEF ReadFirst
<1>2. /\ place = "scan" /\ t \in Tasks
      /\ UNCHANGED <<task, starts, stats, tool, before, after, io, enabled, later, rows>>
  BY DEF ReadFirst, world, SamplersTypeOK
<1>3. /\ place' \in {"scan", "read"} /\ entry' \in [id : Tasks \cup {None}, start : 0..MaxStarts]
      /\ place' = "read" => entry'.id \in Tasks
      /\ tool = "trace" /\ place' = "read" => task[entry'.id].start = entry'.start
  <2>1. CASE Listed(t)
    <3> DEFINE start == IF tool = "trace" THEN task[t].start ELSE 0
    <3>1. place' = "read" /\ entry' = [id |-> t, start |-> start] /\ start \in 0..MaxStarts
      BY <1>1, <1>2, <2>1, TaskTyped
    <3> QED
      BY <1>2, <3>1
  <2>2. CASE ~Listed(t)
    BY <1>1, <1>2, <2>2 DEF SamplersTypeOK
  <2> QED
    BY <2>1, <2>2
<1>4. SamplersTypeOK'
  BY <1>1, <1>2, <1>3 DEF SamplersTypeOK
<1>5. Readings'
  BY <1>2 DEF Readings, Of
<1>6. EntryOf'
  BY <1>2, <1>3 DEF EntryOf
<1>7. IoOf'
  BY <1>2, <1>3 DEF IoOf
<1> QED
  BY <1>4, <1>5, <1>6, <1>7

LEMMA ReadSecondKeeps ==
  ASSUME SamplersInv, ReadSecond
  PROVE  SamplersInv'
<1> USE SamplersAssumption DEF SamplersInv
<1> DEFINE t == entry.id
           start == IF tool = "trace" THEN entry.start ELSE task[t].start
           reading == [start |-> start, work |-> task[t].work, of |-> task[t].start]
           found == Alive(t) /\ (tool = "trace" => Listed(t))
<1>1. /\ place = "read" /\ t \in Tasks
      /\ UNCHANGED <<task, starts, stats, tool, todo, before, io, enabled, later, rows>>
      /\ IF found
           THEN /\ after' = [after EXCEPT ![t] = reading]
                /\ place' = IF tool = "trace" THEN "scan" ELSE "name"
           ELSE UNCHANGED after /\ place' = "scan"
      /\ entry' = IF place' = "name" THEN entry ELSE [id |-> None, start |-> 0]
  BY DEF ReadSecond, world, EntryOf
<1>2. entry.start \in 0..MaxStarts /\ tool \in {"trace", "monitor"}
  BY DEF SamplersTypeOK
<1>3. /\ reading \in Reading /\ reading.of = task[t].start /\ reading.work = task[t].work
      /\ reading.start = start
  BY <1>1, <1>2, TaskTyped DEF Reading
<1>4. found => task[t].start # 0 /\ Of(reading, t)
  <2> SUFFICES ASSUME found PROVE task[t].start # 0 /\ Of(reading, t)
    OBVIOUS
  <2>1. task[t].start # 0 /\ task[t].start <= starts /\ task[t].work \in Nat
    BY <1>1, TaskTyped DEF Alive, Readings
  <2>2. ~Reuse \/ tool = "monitor" => start = task[t].start
    BY <1>1, <1>2, <2>1 DEF EntryOf
  <2> QED
    BY <1>3, <2>1, <2>2 DEF Of
<1> HIDE DEF reading, found
<1>5. /\ after' \in [Tasks -> Reading]
      /\ \A u \in Tasks : after'[u] = after[u] \/ (found /\ u = t /\ after'[u] = reading)
  <2> HIDE DEF Reading
  <2> QED
    BY <1>1, <1>3 DEF SamplersTypeOK
<1>6. /\ entry' \in [id : Tasks \cup {None}, start : 0..MaxStarts]
      /\ place' \in {"scan", "name"} /\ (place' = "name" => entry'.id \in Tasks /\ tool # "trace")
  BY <1>1, <1>2 DEF SamplersTypeOK
<1>7. SamplersTypeOK'
  BY <1>1, <1>5, <1>6 DEF SamplersTypeOK
<1>8. Readings'
  <2>1. ASSUME NEW u \in Tasks
        PROVE  /\ Of(before[u], u) /\ Of(after'[u], u)
               /\ before[u].of = after'[u].of /\ after'[u].of # 0
                     => before[u].work <= after'[u].work
    <3>1. CASE after'[u] = after[u]
      BY <3>1 DEF Readings
    <3>2. CASE found /\ u = t /\ after'[u] = reading
      BY <1>3, <1>4, <3>2 DEF Readings, Of
    <3> QED
      BY <1>5, <3>1, <3>2
  <2> QED
    BY <1>1, <2>1 DEF Readings, Of
<1>9. EntryOf' /\ IoOf'
  BY <1>1, <1>6 DEF EntryOf, IoOf
<1> QED
  BY <1>7, <1>8, <1>9

LEMMA ReadNameKeeps ==
  ASSUME SamplersInv, ReadName
  PROVE  SamplersInv'
<1> USE SamplersAssumption DEF SamplersInv
<1>1. /\ place = "name" /\ place' = "scan" /\ entry' = [id |-> None, start |-> 0]
      /\ after' = (IF Alive(entry.id) THEN after ELSE [after EXCEPT ![entry.id] = Nothing])
      /\ UNCHANGED <<task, starts, stats, tool, todo, before, io, enabled, later, rows>>
  BY DEF ReadName, world
<1>2. Nothing \in Reading
  BY DEF Nothing, Reading
<1>3. /\ after' \in [Tasks -> Reading]
      /\ \A u \in Tasks : after'[u] = after[u] \/ after'[u] = Nothing
  <2> HIDE DEF Reading, Nothing
  <2> QED
    BY <1>1, <1>2 DEF SamplersTypeOK
<1>4. SamplersTypeOK'
  BY <1>1, <1>3 DEF SamplersTypeOK
<1>5. Readings'
  <2>1. \A t \in Tasks : Of(Nothing, t)'
    BY <1>1 DEF Of, Nothing, Readings, SamplersTypeOK
  <2>2. \A t \in Tasks : Of(before[t], t)' /\ (after'[t] = after[t] => Of(after[t], t)')
    BY <1>1 DEF Of, Readings
  <2> QED
    BY <1>1, <1>3, <2>1, <2>2 DEF Readings, Of, Nothing
<1>6. EntryOf' /\ IoOf'
  <2>1. tool # "trace"
    BY <1>1 DEF SamplersTypeOK
  <2> QED
    BY <1>1, <2>1 DEF EntryOf, IoOf
<1> QED
  BY <1>4, <1>5, <1>6

LEMMA ReadIoKeeps ==
  ASSUME SamplersInv, ReadIo
  PROVE  SamplersInv'
<1> USE SamplersAssumption DEF SamplersInv
<1> DEFINE reading == [start |-> 0, work |-> task[Main].work, of |-> task[Main].start]
<1>1. /\ place = "io" /\ place' = "flag" /\ io' = [io EXCEPT !.after = reading]
      /\ UNCHANGED <<task, starts, stats, tool, todo, entry, before, after, enabled, later, rows>>
  BY DEF ReadIo, world
<1>2. reading \in Reading /\ reading.of = task[Main].start
  BY TaskTyped DEF Reading
<1> HIDE DEF reading
<1>3. /\ io' \in [before : Reading, after : Reading]
      /\ io'.before = io.before /\ io'.after.of = task[Main].start
  BY <1>1, <1>2 DEF SamplersTypeOK
<1>4. SamplersTypeOK'
  BY <1>1, <1>3 DEF SamplersTypeOK
<1>5. Readings' /\ EntryOf'
  BY <1>1 DEF Readings, Of, EntryOf
<1>6. IoOf'
  BY <1>1, <1>3 DEF IoOf
<1> QED
  BY <1>4, <1>5, <1>6

(* The pass becomes the one the next is compared with. *)
LEMMA KeepPassKeeps ==
  ASSUME SamplersInv, KeepPass, place = "flag",
         UNCHANGED stats, enabled' \in {enabled, stats.on},
         rows' \subseteq [id : Tasks, from : 1..MaxStarts, to : 1..MaxStarts, gain : 0..MaxWork,
                          kind : {"cpu", "io"}, runqueue : Waits]
  PROVE  SamplersInv'
<1> USE SamplersAssumption DEF SamplersInv
<1>1. /\ before' = after /\ after' = Empty /\ io' = [before |-> io.after, after |-> Nothing]
      /\ later' = TRUE /\ place' = "sleep" /\ UNCHANGED <<task, starts, tool, todo, entry>>
  BY DEF KeepPass
<1>2. Nothing \in Reading /\ Empty \in [Tasks -> Reading] /\ \A t \in Tasks : Empty[t] = Nothing
  BY DEF Nothing, Empty, Reading
<1>3. stats \in [on : BOOLEAN, off : BOOLEAN, gap : BOOLEAN] /\ enabled \in BOOLEAN
  BY DEF SamplersTypeOK
<1>4. stats' \in [on : BOOLEAN, off : BOOLEAN, gap : BOOLEAN] /\ enabled' \in BOOLEAN
  BY <1>3
<1>5. io' \in [before : Reading, after : Reading] /\ io'.before = io.after /\ io'.after = Nothing
  BY <1>1, <1>2 DEF SamplersTypeOK
<1>6. SamplersTypeOK'
  BY <1>1, <1>2, <1>4, <1>5 DEF SamplersTypeOK
<1>7. Readings'
  <2>1. \A t \in Tasks : Of(Nothing, t)'
    BY <1>1 DEF Of, Nothing, Readings, SamplersTypeOK
  <2>2. \A t \in Tasks : Of(before[t], t)'
    BY <1>1 DEF Of, Readings
  <2> QED
    BY <1>1, <1>2, <2>1, <2>2 DEF Readings, Of, Nothing
<1>8. EntryOf' /\ IoOf'
  BY <1>1, <1>5 DEF EntryOf, IoOf, Nothing
<1> QED
  BY <1>6, <1>7, <1>8

LEMMA DeltasTyped ==
  ASSUME SamplersInv, NEW runqueue \in Waits
  PROVE  /\ Deltas(runqueue) \cup IoDeltas \subseteq
              [id : Tasks, from : 1..MaxStarts, to : 1..MaxStarts, gain : 0..MaxWork,
               kind : {"cpu", "io"}, runqueue : Waits]
         /\ \A r \in Deltas(runqueue) : r.runqueue = runqueue
         /\ \A r \in IoDeltas : r.runqueue = "none"
         /\ ~Reuse \/ tool = "monitor" => \A r \in Deltas(runqueue) : r.from = r.to
<1> USE SamplersAssumption DEF SamplersInv
<1>1. ASSUME NEW r \in Deltas(runqueue)
      PROVE  /\ r \in [id : Tasks, from : 1..MaxStarts, to : 1..MaxStarts, gain : 0..MaxWork,
                       kind : {"cpu", "io"}, runqueue : Waits]
             /\ r.runqueue = runqueue
             /\ ~Reuse \/ tool = "monitor" => r.from = r.to
  <2>1. PICK t \in Tasks : /\ r = Row(t, before[t], after[t], "cpu", runqueue)
                           /\ SameTask(before[t], after[t])
                           /\ tool = "trace" => after[t].work >= before[t].work
    BY <1>1 DEF Deltas
  <2>2. after[t].start # 0 /\ before[t].start = after[t].start
    BY <2>1 DEF SameTask
  <2>3. /\ before[t].of \in 1..MaxStarts /\ after[t].of \in 1..MaxStarts
        /\ before[t].work \in 0..MaxWork /\ after[t].work \in 0..MaxWork
        /\ ~Reuse \/ tool = "monitor" => before[t].of = after[t].of
    BY <2>2, ReadingsTyped DEF Readings, Of
  <2>4. after[t].work - before[t].work \in 0..MaxWork
    BY <2>1, <2>3 DEF Readings, SamplersTypeOK
  <2> QED
    BY <2>1, <2>3, <2>4 DEF Row
<1>2. ASSUME NEW r \in IoDeltas
      PROVE  /\ r \in [id : Tasks, from : 1..MaxStarts, to : 1..MaxStarts, gain : 0..MaxWork,
                       kind : {"cpu", "io"}, runqueue : Waits]
             /\ r.runqueue = "none"
  <2>1. /\ r = Row(Main, io.before, io.after, "io", "none")
        /\ io.before.of # 0 /\ io.after.of # 0 /\ io.after.work >= io.before.work
    BY <1>2 DEF IoDeltas
  <2>2. /\ io.before.of \in 0..MaxStarts /\ io.after.of \in 0..MaxStarts
        /\ io.before.work \in 0..MaxWork /\ io.after.work \in 0..MaxWork
    BY DEF SamplersTypeOK, Reading
  <2> QED
    BY <2>1, <2>2 DEF Row, Waits
<1> QED
  BY <1>1, <1>2

LEMMA ReportKeeps ==
  ASSUME SamplersInv, Remember \/ Report
  PROVE  SamplersInv'
<1>1. CASE Remember
  <2>1. KeepPass /\ place = "flag" /\ UNCHANGED <<stats, enabled, rows>>
    BY <1>1 DEF Remember
  <2> QED
    BY <2>1, KeepPassKeeps DEF SamplersInv, SamplersTypeOK
<1>2. CASE Report
  <2>1. /\ KeepPass /\ place = "flag"
        /\ UNCHANGED stats /\ enabled' \in {enabled, stats.on}
        /\ \E runqueue \in Waits : rows' \subseteq Deltas(runqueue) \cup IoDeltas
    <3>1. Runqueue \in Waits /\ "none" \in Waits
      BY DEF Runqueue, Waits
    <3> QED
      BY <1>2, <3>1 DEF Report
  <2> QED
    BY <2>1, DeltasTyped, KeepPassKeeps
<1> QED
  BY <1>1, <1>2

LEMMA SamplersStep ==
  ASSUME SamplersInv, [SamplersNext]_samplersVars
  PROVE  SamplersInv'
<1>1. CASE UNCHANGED samplersVars
  BY <1>1 DEF samplersVars, world, pass, SamplersInv, SamplersTypeOK, Readings, Of, EntryOf,
     IoOf
<1> QED
  BY <1>1, WorldKeeps, BetweenPassesKeeps, ReadFirstKeeps, ReadSecondKeeps, ReadNameKeeps,
     ReadIoKeeps,
     ReportKeeps DEF SamplersNext

LEMMA SamplersInvariant == SamplersSpec => []SamplersInv
BY SamplersInitial, SamplersStep, PTL DEF SamplersSpec

(* The variables keep their types: no gain that is reported is negative,   *)
(* whatever ids are reused, and none is of a counter that was not read.    *)
THEOREM SamplersTyped == SamplersSpec => []SamplersTypeOK
<1>1. SamplersInv => SamplersTypeOK
  BY DEF SamplersInv
<1> QED
  BY <1>1, SamplersInvariant, PTL

(* A reported gain is of one task, for every number of ids and of tasks,   *)
(* unless an id is reused while the trace is half-way through it.          *)
THEOREM SamplersGains ==
  ASSUME ~Reuse
  PROVE  SamplersSpec => []GainsOfOneTask
<1>1. SamplersInit => GainsOfOneTask
  BY DEF SamplersInit, GainsOfOneTask
<1>2. SamplersInv /\ GainsOfOneTask /\ [SamplersNext]_samplersVars => GainsOfOneTask'
  <2> SUFFICES ASSUME SamplersInv, GainsOfOneTask, [SamplersNext]_samplersVars
               PROVE  GainsOfOneTask'
    OBVIOUS
  <2>1. CASE Report
    <3>1. \A runqueue \in Waits : \A r \in Deltas(runqueue) : r.from = r.to
      BY DeltasTyped
    <3>2. tool = "trace" => \A r \in IoDeltas : r.from = r.to
      <4> SUFFICES ASSUME tool = "trace", NEW r \in IoDeltas PROVE r.from = r.to
        OBVIOUS
      <4>1. /\ r = Row(Main, io.before, io.after, "io", "none")
            /\ io.before.of # 0 /\ io.after.of # 0
        BY DEF IoDeltas
      <4>2. io.before.of \in {0, 1} /\ io.after.of \in {0, 1}
        BY <2>1 DEF Report, SamplersInv, IoOf
      <4> QED
        BY <4>1, <4>2 DEF Row
    <3>3. Runqueue \in Waits /\ "none" \in Waits
      BY DEF Runqueue, Waits
    <3>4. IF tool = "trace" THEN rows' = Deltas(Runqueue) \cup IoDeltas ELSE rows' = Deltas("none")
      BY <2>1 DEF Report
    <3> QED
      BY <3>1, <3>2, <3>3, <3>4 DEF GainsOfOneTask
  <2>2. CASE ~Report
    <3>1. rows' \in {rows, {}}
      BY <2>2 DEF SamplersNext, TaskStarts, TaskEnds, TaskWorks, StatsSwitched, FirstFlag,
         CheckIdentity, BeginPass, ReadFirst, ReadSecond, ReadName, EndScan, ReadIo, Remember,
         Sleep, samplersVars
    <3> QED
      BY <3>1 DEF GainsOfOneTask
  <2> QED
    BY <2>1, <2>2
<1> QED
  BY <1>1, <1>2, SamplersInvariant, PTL DEF SamplersSpec
=============================================================================
