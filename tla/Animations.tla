----------------------------- MODULE Animations -----------------------------
(***************************************************************************)
(* sync_animations(): before Lightroom reads its preferences file, a       *)
(* launch switches the one animationSpeed line off, or restores the value  *)
(* that animation-profile.json (the marker) keeps.  The file is shared     *)
(* with Lightroom, which reads it when it starts and writes it from memory *)
(* when it ends, with users who edit it, and with other launches.          *)
(***************************************************************************)
EXTENDS Naturals

CONSTANTS
  Launchers,  \* launches that may be in sync_animations() at one time
  Speeds,     \* the speeds that users or Lightroom choose, all non-zero
  Zero,       \* animationSpeed = 0, which only the launcher writes
  NoMatch,    \* the line is missing or ambiguous
  Absent,     \* the marker does not exist
  Torn,       \* the marker was created and holds no valid value
  Closed,     \* no Lightroom runs in the prefix
  MaxSaves,   \* bound on the changes Lightroom makes to other preferences
  MaxEdits    \* bound on the speeds a user chooses

\* What a preferences file holds: the speed, and a version of all the rest.
Preferences == [speed : Speeds \cup {Zero, NoMatch}, rest : 0..MaxSaves]

ASSUME AnimationsAssumption ==
  /\ {Zero, NoMatch, Absent, Torn} \cap Speeds = {}
  /\ Zero # NoMatch /\ Absent # Torn /\ Zero \notin {Absent, Torn}
  /\ Closed \notin Preferences
  /\ MaxSaves \in Nat /\ MaxEdits \in Nat

VARIABLES
  file,    \* the preferences file
  marker,  \* animation-profile.json
  app,     \* Lightroom's preferences in memory, or Closed
  edits,   \* how often a user chose one
  serial,  \* has no launch begun while another was starting? (history)
  pc, mode, text, original   \* each launch in sync_animations()

history == <<edits, serial>>
vars == <<file, marker, app, history, pc, mode, text, original>>
locals == <<pc, mode, text, original>>

Labels == {"idle", "check", "read", "marker", "create", "fill", "edit", "start"}

\* Lightroom's memory is a copy of the file only while it runs.
Running == app # Closed

TypeOK ==
  /\ file \in Preferences
  /\ marker \in Speeds \cup {Zero, Absent, Torn}
  /\ app \in Preferences \cup {Closed}
  /\ edits \in 0..MaxEdits
  /\ serial \in BOOLEAN
  /\ pc \in [Launchers -> Labels]
  /\ mode \in [Launchers -> {"off", "original"}]
  /\ text \in [Launchers -> Preferences]
  /\ original \in [Launchers -> Speeds \cup {Zero}]

Init ==
  /\ file \in [speed : Speeds, rest : {0}]
  /\ marker = Absent
  /\ app = Closed
  /\ edits = 0
  /\ serial = TRUE
  /\ pc = [l \in Launchers |-> "idle"]
  /\ mode = [l \in Launchers |-> "original"]
  /\ text = [l \in Launchers |-> file]
  /\ original = [l \in Launchers |-> file.speed]

Goto(l, label) == pc' = [pc EXCEPT ![l] = label]

-----------------------------------------------------------------------------
(* One launch, from the entry of sync_animations() to Lightroom's start.   *)

(* LRCC_ANIMATIONS, or the profile's default, gives the mode. *)
Begin(l, m) ==
  /\ pc[l] = "idle"
  /\ serial' = IF \A k \in Launchers : pc[k] = "idle" THEN serial ELSE FALSE
  /\ mode' = [mode EXCEPT ![l] = m]
  /\ Goto(l, IF m = "original" /\ marker = Absent THEN "start" ELSE "check")
  /\ UNCHANGED <<file, marker, app, edits, text, original>>

\* Mutant: the preferences are edited whether or not Lightroom runs.
CheckRunningIgnored(l) ==
  /\ pc[l] = "check"
  /\ Goto(l, "read")
  /\ UNCHANGED <<file, marker, app, history, mode, text, original>>

(* The scan of /proc for a lightroom.exe in this prefix. *)
CheckRunning(l) ==
  /\ pc[l] = "check"
  /\ Goto(l, IF Running THEN "start" ELSE "read")
  /\ UNCHANGED <<file, marker, app, history, mode, text, original>>

\* Mutant: a missing or ambiguous line goes unnoticed.
ReadPreferencesUnchecked(l) ==
  /\ pc[l] = "read"
  /\ text' = [text EXCEPT ![l] = file]
  /\ Goto(l, "marker")
  /\ UNCHANGED <<file, marker, app, history, mode, original>>

(* The whole file is read; it must hold exactly one animationSpeed. *)
ReadPreferences(l) ==
  /\ pc[l] = "read"
  /\ text' = [text EXCEPT ![l] = file]
  /\ Goto(l, IF file.speed = NoMatch THEN "start" ELSE "marker")
  /\ UNCHANGED <<file, marker, app, history, mode, original>>

\* Mutant: a torn marker is passed over and the file edited all the same.
ReadMarkerOptional(l) ==
  /\ pc[l] = "marker"
  /\ CASE marker = Absent -> Goto(l, "create") /\ UNCHANGED original
       [] marker = Torn -> Goto(l, "edit") /\ original' = [original EXCEPT ![l] = text[l].speed]
       [] OTHER -> Goto(l, "edit") /\ original' = [original EXCEPT ![l] = marker]
  /\ UNCHANGED <<file, marker, app, history, mode, text>>

(* A marker without a valid value ends the attempt. *)
ReadMarker(l) ==
  /\ pc[l] = "marker"
  /\ CASE marker = Absent -> Goto(l, "create") /\ UNCHANGED original
       [] marker = Torn -> Goto(l, "start") /\ UNCHANGED original
       [] OTHER -> Goto(l, "edit") /\ original' = [original EXCEPT ![l] = marker]
  /\ UNCHANGED <<file, marker, app, history, mode, text>>

\* Mutant: open('w') in place of open('x').
CreateMarkerTruncates(l) ==
  /\ pc[l] = "create"
  /\ marker' = Torn
  /\ Goto(l, "fill")
  /\ UNCHANGED <<file, app, history, mode, text, original>>

(* marker.open('x') creates the file or raises; launch() catches that. *)
CreateMarker(l) ==
  /\ pc[l] = "create"
  /\ \/ marker = Absent /\ marker' = Torn /\ Goto(l, "fill")
     \/ marker # Absent /\ marker' = marker /\ Goto(l, "start")
  /\ UNCHANGED <<file, app, history, mode, text, original>>

FillMarker(l) ==
  /\ pc[l] = "fill"
  /\ marker' = text[l].speed
  /\ original' = [original EXCEPT ![l] = text[l].speed]
  /\ Goto(l, "edit")
  /\ UNCHANGED <<file, app, history, mode, text>>

Desired(l) == IF mode[l] = "off" THEN Zero ELSE original[l]

(* A speed that somebody else changed is kept when restoring. *)
Retained(l) == mode[l] = "original" /\ text[l].speed \notin {Zero, original[l]}

(* The file is replaced by what was read with the one line changed. *)
EditPreferences(l) ==
  /\ pc[l] = "edit"
  /\ file' = IF Retained(l) \/ Desired(l) = text[l].speed
               THEN file
               ELSE [text[l] EXCEPT !.speed = Desired(l)]
  /\ Goto(l, "start")
  /\ UNCHANGED <<marker, app, history, mode, text, original>>

(* wine(lightroom.exe): a second instance hands over to the first.  The    *)
(* launch has no more to do with the preferences.                          *)
StartLightroom(l) ==
  /\ pc[l] = "start"
  /\ app' = IF Running THEN app ELSE file
  /\ Goto(l, "idle")
  /\ UNCHANGED <<file, marker, history, mode, text, original>>

Crash(l) ==
  /\ pc[l] # "idle"
  /\ Goto(l, "idle")
  /\ UNCHANGED <<file, marker, app, history, mode, text, original>>

-----------------------------------------------------------------------------
(* Lightroom and its user. *)

ChangeOther ==
  /\ Running /\ app.rest < MaxSaves
  /\ app' = [app EXCEPT !.rest = @ + 1]
  /\ UNCHANGED <<file, marker, history, locals>>

(* Lightroom writes the file as it ends, unless it is killed. *)
LightroomEnds ==
  /\ Running
  /\ app' = Closed
  /\ file' \in {app, file}
  /\ UNCHANGED <<marker, history, locals>>

(* Between launches a user edits the speed, or breaks the line. *)
UserEdits(v) ==
  /\ ~Running /\ edits < MaxEdits
  /\ \A l \in Launchers : pc[l] = "idle"
  /\ file' = [file EXCEPT !.speed = v]
  /\ edits' = edits + 1
  /\ UNCHANGED <<marker, app, serial, locals>>

-----------------------------------------------------------------------------
LaunchStep(l) ==
  \/ CheckRunning(l) \/ ReadPreferences(l) \/ ReadMarker(l) \/ CreateMarker(l)
  \/ FillMarker(l) \/ EditPreferences(l) \/ StartLightroom(l)

Next ==
  \/ \E l \in Launchers, m \in {"off", "original"} : Begin(l, m)
  \/ \E l \in Launchers : LaunchStep(l) \/ Crash(l)
  \/ ChangeOther \/ LightroomEnds
  \/ \E v \in Speeds \cup {NoMatch} : UserEdits(v)

Spec == Init /\ [][Next]_vars

-----------------------------------------------------------------------------
(* Properties. *)

(* Wherever the launcher's 0 has got to, on disk or in Lightroom's memory, *)
(* a value chosen by the user is kept beside the prefix to restore.  It    *)
(* has to survive a launcher killed between any two of its steps and two   *)
(* launches that both believe they create the marker.                      *)
OffIsReversible ==
  (file.speed = Zero \/ (Running /\ app.speed = Zero)) => marker \in Speeds

(* A value that was saved for restoring is never replaced. *)
MarkerSticks == [][(marker \in Speeds) => (marker' = marker)]_vars

(* "It skips edits while Lightroom is running in the selected prefix":     *)
(* while Lightroom runs, no step but its own ending changes the file, as   *)
(* long as no launch began while another was starting.                     *)
SkipsRunning == [][serial /\ Running /\ app' # Closed => UNCHANGED file]_vars

(* The launcher writes back what it read: no preference that Lightroom has *)
(* saved is rolled back to an earlier version, as long as no launch began  *)
(* while another was starting.                                             *)
OtherPreferencesKept == [][serial => file'.rest >= file.rest]_vars
=============================================================================
