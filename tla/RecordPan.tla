----------------------------- MODULE RecordPan -----------------------------
(***************************************************************************)
(* diagnostics/record-pan.py with the two helpers it runs, isolated-input  *)
(* pan-vertical and isolated-input record, and MangoHud's log, which only  *)
(* a hotkey switches.  Nobody tells the recorder whether a hotkey took     *)
(* effect: it sees the files that appear.  The clock counts seconds.       *)
(***************************************************************************)
EXTENDS Naturals

CONSTANTS
  Slowest,     \* the latest second, after its start, at which a gesture begins
  HelperLimit, \* the timeout of a hotkey helper, 5 in the code
  WaitLimit,   \* the timeout of a wait for the gesture, 15 in the code
  InitiallyOn  \* may MangoHud be logging before the run?

ASSUME PanAssumption ==
  /\ Slowest \in Nat
  /\ HelperLimit \in Nat
  /\ WaitLimit \in Nat
  /\ InitiallyOn \in BOOLEAN

VARIABLES
  now,      \* seconds since the run began
  pan,      \* the gesture: its state, when it began, when it ended
  log,      \* is MangoHud logging, and was it at the beginning?
  files,    \* how many log files appeared since the run began, and the first
            \* one: when its log began, and its last frame
  pc,       \* where the recorder is
  wake,     \* when its sleep, its wait or its helper's time is over
  key,      \* has the hotkey helper pressed the key?
  phases,   \* the time the start helper and the stop helper took
  started,  \* the recorder takes logging to be on
  result,   \* what it will write
  keys      \* history: did some hotkey not toggle once, did the stop hotkey
            \* take effect, did a helper fail after its key press?

machine == <<pan, log, files>>
recorder == <<pc, wake, key, phases, started, result>>
vars == <<now, machine, recorder, keys>>

Unset == [from |-> 0, to |-> 0]
Hotkeys == {"start", "stop", "restore"}

TypeOK ==
  /\ now \in Nat
  /\ pan \in [state : {"none", "launched", "active", "done", "failed"}, from : Nat, to : Nat]
  /\ log \in [on : BOOLEAN, before : BOOLEAN]
  /\ files \in [count : Nat, begin : Nat, last : Nat]
  /\ pc \in {"idle", "warm", "start", "sleep", "stop", "reap", "collect", "restore",
             "await", "ended"}
  /\ wake \in Nat
  /\ key \in {"up", "pressed"}
  /\ phases \in [{"start", "stop"} -> [from : Nat, to : Nat]]
  /\ started \in BOOLEAN
  /\ result \in [status : {"incomplete", "complete"}, unknown : BOOLEAN,
                 running : BOOLEAN]
  /\ keys \in [astray : BOOLEAN, stopped : BOOLEAN, late : BOOLEAN]
  /\ pc # "ended" => now <= wake

Init ==
  /\ now = 0
  /\ pan = [state |-> "none", from |-> 0, to |-> 0]
  /\ \E on \in {FALSE, InitiallyOn} : log = [on |-> on, before |-> on]
  /\ files = [count |-> 0, begin |-> 0, last |-> 0]
  /\ pc = "idle" /\ wake = 0 /\ key = "up"
  /\ phases = [p \in {"start", "stop"} |-> Unset]
  /\ started = FALSE
  /\ result = [status |-> "incomplete", unknown |-> FALSE, running |-> FALSE]
  /\ keys = [astray |-> FALSE, stopped |-> FALSE, late |-> FALSE]

PanRunning == pan.state \in {"launched", "active"}

(* The recorder goes on at a label, which it leaves at the latest after    *)
(* limit seconds.                                                          *)
Goto(label, limit) == pc' = label /\ wake' = now + limit /\ key' = "up"

(* The finally clause after a step that leaves on as the value of started. *)
Finally(on) ==
  \/ on /\ Goto("restore", HelperLimit)
  \/ ~on /\ PanRunning /\ Goto("await", WaitLimit)
  \/ ~on /\ ~PanRunning /\ Goto("ended", 0)

Fails == Finally(started) /\ UNCHANGED <<phases, started, result>>

-----------------------------------------------------------------------------
(* The hotkey: MangoHud polls its keys on the frames it renders. *)

(* A toggle ends the log that is open, or opens a file. *)
Toggle(hud) ==
  [on |-> ~hud.on,
   files |-> CASE ~hud.on /\ hud.files.count = 0 -> [count |-> 1, begin |-> now, last |-> now]
               [] ~hud.on /\ hud.files.count > 0 -> [hud.files EXCEPT !.count = @ + 1]
               [] hud.on /\ hud.files.count = 1 -> [hud.files EXCEPT !.last = now]
               [] OTHER -> hud.files]

Hud == [on |-> log.on, files |-> files]

(* The key is held for 200 ms.  It has no effect when no frame is rendered *)
(* meanwhile, and two when the release is seen after the repeat.           *)
Pressed(n) == CASE n = 0 -> Hud [] n = 1 -> Toggle(Hud) [] n = 2 -> Toggle(Toggle(Hud))

Press ==
  \E n \in 0..2 :
    /\ pc \in Hotkeys /\ key = "up"
    /\ log' = [log EXCEPT !.on = Pressed(n).on]
    /\ files' = Pressed(n).files
    /\ key' = "pressed"
    /\ keys' = [keys EXCEPT !.astray = @ \/ n # 1, !.stopped = @ \/ (pc = "stop" /\ n > 0)]
    /\ UNCHANGED <<now, pan, pc, wake, phases, started, result>>

(* The helper exits with an error, prints no phase, or runs into its       *)
(* timeout, before or after its key press.                                 *)
HelperFails ==
  /\ pc \in Hotkeys
  /\ keys' = [keys EXCEPT !.late = @ \/ key = "pressed"]
  /\ IF pc = "restore"
       THEN /\ result' = [result EXCEPT !.unknown = TRUE]
            /\ Finally(FALSE)
            /\ UNCHANGED <<phases, started>>
       ELSE Fails
  /\ UNCHANGED <<now, machine>>

Phase == [from |-> wake - HelperLimit, to |-> now]

-----------------------------------------------------------------------------
(* The recorder. *)

Begin ==
  /\ pc = "idle"
  /\ pan' = [pan EXCEPT !.state = "launched"]
  /\ Goto("warm", 1)
  /\ UNCHANGED <<now, log, files, phases, started, result, keys>>

CheckGesture ==
  /\ pc = "warm" /\ now = wake
  /\ IF PanRunning
       THEN Goto("start", HelperLimit) /\ UNCHANGED <<phases, started, result>>
       ELSE Fails
  /\ UNCHANGED <<now, machine, keys>>

StartLogging ==
  /\ pc = "start" /\ key = "pressed"
  /\ phases' = [phases EXCEPT !["start"] = Phase]
  /\ started' = TRUE
  /\ Goto("sleep", 5)
  /\ UNCHANGED <<now, machine, result, keys>>

\* Mutant: started is reset before the stop hotkey is sent.
SendStopReset ==
  /\ pc = "sleep" /\ now = wake
  /\ started' = FALSE
  /\ Goto("stop", HelperLimit)
  /\ UNCHANGED <<now, machine, phases, result, keys>>

SendStop ==
  /\ pc = "sleep" /\ now = wake
  /\ Goto("stop", HelperLimit)
  /\ UNCHANGED <<now, machine, phases, started, result, keys>>

StopLogging ==
  /\ pc = "stop" /\ key = "pressed"
  /\ phases' = [phases EXCEPT !["stop"] = Phase]
  /\ started' = FALSE
  /\ Goto("reap", WaitLimit)
  /\ UNCHANGED <<now, machine, result, keys>>

(* communicate() returns when the gesture is over, or times out. *)
Reap ==
  /\ pc = "reap" /\ (~PanRunning \/ now = wake)
  /\ IF pan.state = "done" THEN Goto("collect", 5) /\ UNCHANGED <<phases, started, result>>
                           ELSE Fails
  /\ UNCHANGED <<now, machine, keys>>

(* summarize(): the file is named for the second at which its log began,   *)
(* and holds the frames so far.                                            *)
Begun == phases["start"].from <= files.begin + 1 /\ files.begin <= phases["start"].to + 1
Sustained == files.last - files.begin \in 4..7
Contained == pan.from < phases["start"].from /\ phases["stop"].to < pan.to

\* Mutant: the name of the file is not compared with the start hotkey.
AcceptedStale == files.count = 1 /\ Sustained /\ Contained

(* Exactly one file, and it is the recording of this run's two hotkeys. *)
Accepted == files.count = 1 /\ Begun /\ Sustained /\ Contained

(* The files are read as soon as they all have some contents, or after     *)
(* five seconds.                                                           *)
Collect ==
  /\ pc = "collect" /\ (files.count > 0 \/ now = wake)
  /\ IF Accepted
       THEN /\ result' = [result EXCEPT !.status = "complete"]
            /\ Finally(FALSE)
            /\ UNCHANGED <<phases, started>>
       ELSE Fails
  /\ UNCHANGED <<now, machine, keys>>

Restored ==
  /\ pc = "restore" /\ key = "pressed"
  /\ Finally(FALSE)
  /\ UNCHANGED <<now, machine, phases, started, result, keys>>

\* Mutant: the last wait for the gesture has no timeout.
AwaitGestureOnly ==
  /\ pc = "await" /\ ~PanRunning
  /\ Goto("ended", 0)
  /\ UNCHANGED <<now, machine, phases, started, result, keys>>

AwaitGesture ==
  /\ pc = "await" /\ (~PanRunning \/ now = wake)
  /\ result' = [result EXCEPT !.running = PanRunning]
  /\ Goto("ended", 0)
  /\ UNCHANGED <<now, machine, phases, started, keys>>

RecorderStep ==
  \/ Begin \/ CheckGesture \/ StartLogging \/ SendStop \/ StopLogging \/ Reap \/ Collect
  \/ Restored \/ AwaitGesture \/ HelperFails

-----------------------------------------------------------------------------
(* The gesture, and the clock. *)

GestureBegins ==
  /\ pan.state = "launched" /\ now <= Slowest
  /\ pan' = [pan EXCEPT !.state = "active", !.from = now]
  /\ UNCHANGED <<now, log, files, recorder, keys>>

(* 1200 movements take ten seconds, or more. *)
GestureEnds ==
  /\ pan.state = "active" /\ now >= pan.from + 10
  /\ pan' = [pan EXCEPT !.state = "done", !.to = now]
  /\ UNCHANGED <<now, log, files, recorder, keys>>

GestureFails ==
  /\ PanRunning
  /\ pan' = [pan EXCEPT !.state = "failed"]
  /\ UNCHANGED <<now, log, files, recorder, keys>>

\* Mutant: a wait goes on past its limit.
TickPast ==
  /\ pc \notin {"idle", "ended"} /\ now <= wake
  /\ now' = now + 1
  /\ UNCHANGED <<machine, recorder, keys>>

(* A second goes by; an open log of this run has a frame of it, or not. *)
Tick ==
  /\ pc \notin {"idle", "ended"} /\ now < wake
  /\ now' = now + 1
  /\ \/ UNCHANGED files
     \/ log.on /\ files.count = 1 /\ files' = [files EXCEPT !.last = now + 1]
  /\ UNCHANGED <<pan, log, recorder, keys>>

Next == Press \/ RecorderStep \/ GestureBegins \/ GestureEnds \/ GestureFails \/ Tick

Spec == Init /\ [][Next]_vars

(* The recorder runs and time goes by; the gesture and the hotkey helpers  *)
(* are promised nothing.                                                   *)
FairSpec == Spec /\ WF_vars(RecorderStep) /\ WF_vars(Tick)

-----------------------------------------------------------------------------
(* Properties. *)

(* A complete result is about the log that the start hotkey opened,        *)
(* whatever was logged before and however often either hotkey took effect. *)
(* When the stop hotkey had an effect, it is that log it closed, and       *)
(* logging is off.                                                         *)
CompleteSound ==
  result.status = "complete" =>
    /\ files.begin \in phases["start"].from .. phases["start"].to
    /\ keys.stopped => ~log.on /\ files.last <= phases["stop"].to

(* A run that began with logging off, whose hotkeys toggled once, and none *)
(* of whose helpers failed after its key press ends with logging off or    *)
(* says that the state is unknown, at whatever point it failed.            *)
LoggingRestored ==
  /\ pc \in {"await", "ended"}
  /\ ~log.before /\ ~keys.astray /\ ~keys.late
  => ~log.on \/ result.unknown

(* A recorder that ends while the gesture still holds its button down says *)
(* so; it never ends the gesture itself.                                   *)
GestureAccounted == pc = "ended" /\ PanRunning => result.running

(* The recorder ends, though the gesture may never do. *)
RecorderEnds == (pc = "warm") ~> (pc = "ended")
=============================================================================
