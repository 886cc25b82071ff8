-------------------------- MODULE AnimationsProofs --------------------------
(***************************************************************************)
(* Proofs about Animations for any number of launches, overlapping or not. *)
(*                                                                         *)
(* The argument for OffIsReversible: a launch reaches the edit only when   *)
(* the marker holds a value of the user.  The marker goes from absent to   *)
(* torn by one exclusive creation, and from torn to a value only by the    *)
(* launch that created it; that launch read the file before any launch     *)
(* could have written 0, because a 0 needs a finished marker first.        *)
(***************************************************************************)
EXTENDS Animations, TLAPS

(* The launch that created the marker has yet to fill it. *)
OneFiller ==
  \A l \in Launchers : pc[l] = "fill" =>
    /\ marker = Torn
    /\ \A k \in Launchers : pc[k] = "fill" => k = l

(* What a launch has read holds a speed, and a 0 only if it can be undone. *)
TextReversible ==
  \A l \in Launchers : pc[l] \in {"marker", "create", "fill", "edit"} =>
    /\ text[l].speed # NoMatch
    /\ text[l].speed = Zero => marker \in Speeds

EditHasMarker ==
  \A l \in Launchers : pc[l] = "edit" => marker \in Speeds /\ original[l] \in Speeds

AnimationsInv ==
  /\ TypeOK
  /\ marker # Zero
  /\ OffIsReversible
  /\ OneFiller
  /\ TextReversible
  /\ EditHasMarker

LEMMA Constants ==
  /\ Zero \notin Speeds /\ NoMatch \notin Speeds /\ Absent \notin Speeds /\ Torn \notin Speeds
  /\ Zero # NoMatch /\ Absent # Torn /\ Zero # Absent /\ Zero # Torn
  /\ MaxSaves \in Nat /\ MaxEdits \in Nat
  /\ Closed \notin Preferences
BY AnimationsAssumption DEF AnimationsAssumption

LEMMA TypeInit == Init => TypeOK
BY Constants DEF Init, TypeOK, Preferences, Labels

LEMMA TypeStep == TypeOK /\ TextReversible /\ [Next]_vars => TypeOK'
<1> SUFFICES ASSUME TypeOK, TextReversible, [Next]_vars PROVE TypeOK'
  OBVIOUS
<1> USE Constants
<1>1. ASSUME NEW l \in Launchers, NEW m \in {"off", "original"}, Begin(l, m) PROVE TypeOK'
  BY <1>1 DEF TypeOK, history, Begin, Goto, Labels
<1>2. ASSUME NEW l \in Launchers, CheckRunning(l) PROVE TypeOK'
  BY <1>2 DEF TypeOK, history, CheckRunning, Goto, Labels
<1>3. ASSUME NEW l \in Launchers, ReadPreferences(l) PROVE TypeOK'
  BY <1>3 DEF TypeOK, history, ReadPreferences, Goto, Labels
<1>4. ASSUME NEW l \in Launchers, ReadMarker(l) PROVE TypeOK'
  <2>1. CASE marker \in {Absent, Torn}
    BY <1>4, <2>1 DEF TypeOK, history, ReadMarker, Goto, Labels
  <2>2. CASE marker \notin {Absent, Torn}
    BY <1>4, <2>2 DEF TypeOK, history, ReadMarker, Goto, Labels
  <2> QED BY <2>1, <2>2
<1>5. ASSUME NEW l \in Launchers, CreateMarker(l) PROVE TypeOK'
  BY <1>5 DEF TypeOK, history, CreateMarker, Goto, Labels
<1>6. ASSUME NEW l \in Launchers, FillMarker(l) PROVE TypeOK'
  <2>1. text[l].speed \in Speeds \cup {Zero}
    BY <1>6 DEF FillMarker, TextReversible, TypeOK, Preferences
  <2> QED BY <1>6, <2>1 DEF TypeOK, history, FillMarker, Goto, Labels
<1>7. ASSUME NEW l \in Launchers, EditPreferences(l) PROVE TypeOK'
  <2>1. Desired(l) \in Speeds \cup {Zero} /\ text[l] \in Preferences
    BY DEF TypeOK, Desired
  <2>2. [text[l] EXCEPT !.speed = Desired(l)] \in Preferences
    BY <2>1 DEF Preferences
  <2>3. file' \in Preferences
    BY <1>7, <2>2 DEF TypeOK, history, EditPreferences
  <2> QED BY <1>7, <2>3 DEF TypeOK, history, EditPreferences, Goto, Labels
<1>8. ASSUME NEW l \in Launchers, StartLightroom(l) \/ Crash(l) PROVE TypeOK'
  BY <1>8 DEF TypeOK, history, StartLightroom, Crash, Goto, Labels
<1>9. CASE ChangeOther
  <2>1. app' \in Preferences
    BY <1>9 DEF TypeOK, ChangeOther, Running, Preferences
  <2> QED BY <1>9, <2>1 DEF TypeOK, ChangeOther, locals, history
<1>10. CASE LightroomEnds
  BY <1>10 DEF TypeOK, LightroomEnds, Running, locals, history
<1>11. ASSUME NEW v \in Speeds \cup {NoMatch}, UserEdits(v) PROVE TypeOK'
  <2>1. file' \in Preferences
    BY <1>11 DEF TypeOK, UserEdits, Preferences
  <2> QED BY <1>11, <2>1 DEF TypeOK, UserEdits, locals, history
<1>12. CASE UNCHANGED vars
  BY <1>12 DEF TypeOK, vars, history
<1> QED
  BY <1>1, <1>2, <1>3, <1>4, <1>5, <1>6, <1>7, <1>8, <1>9, <1>10, <1>11, <1>12
     DEF Next, LaunchStep

-----------------------------------------------------------------------------
(* Every step keeps the invariant. *)

LEMMA InvInit == Init => AnimationsInv
BY Constants, TypeInit DEF Init, AnimationsInv, OffIsReversible, OneFiller, TextReversible,
  EditHasMarker, Running, Preferences

LEMMA InvStep == AnimationsInv /\ [Next]_vars => AnimationsInv'
<1> SUFFICES ASSUME AnimationsInv, [Next]_vars PROVE AnimationsInv'
  OBVIOUS
<1> USE Constants
<1>0. TypeOK /\ TypeOK'
  BY TypeStep DEF AnimationsInv
<1>1. ASSUME NEW l \in Launchers, NEW m \in {"off", "original"}, Begin(l, m)
      PROVE  AnimationsInv'
  BY <1>0, <1>1 DEF AnimationsInv, TypeOK, OffIsReversible, OneFiller, TextReversible,
    EditHasMarker, Running, Begin, Goto
<1>2. ASSUME NEW l \in Launchers, CheckRunning(l) \/ Crash(l) PROVE AnimationsInv'
  BY <1>0, <1>2 DEF AnimationsInv, TypeOK, OffIsReversible, OneFiller, TextReversible,
    EditHasMarker, Running, CheckRunning, Crash, Goto
<1>3. ASSUME NEW l \in Launchers, ReadPreferences(l) PROVE AnimationsInv'
  BY <1>0, <1>3 DEF AnimationsInv, TypeOK, OffIsReversible, OneFiller, TextReversible,
    EditHasMarker, Running, ReadPreferences, Goto
<1>4. ASSUME NEW l \in Launchers, ReadMarker(l) PROVE AnimationsInv'
  BY <1>0, <1>4 DEF AnimationsInv, TypeOK, OffIsReversible, OneFiller, TextReversible,
    EditHasMarker, Running, ReadMarker, Goto
<1>5. ASSUME NEW l \in Launchers, CreateMarker(l) PROVE AnimationsInv'
  BY <1>0, <1>5 DEF AnimationsInv, TypeOK, OffIsReversible, OneFiller, TextReversible,
    EditHasMarker, Running, CreateMarker, Goto
<1>6. ASSUME NEW l \in Launchers, FillMarker(l) PROVE AnimationsInv'
  <2>1. text[l].speed \in Speeds
    BY <1>6 DEF FillMarker, AnimationsInv, OneFiller, TextReversible, TypeOK, Preferences
  <2> QED
    BY <1>0, <1>6, <2>1 DEF AnimationsInv, TypeOK, OffIsReversible, OneFiller,
      TextReversible, EditHasMarker, Running, FillMarker, Goto
<1>7. ASSUME NEW l \in Launchers, EditPreferences(l) PROVE AnimationsInv'
  BY <1>0, <1>7 DEF AnimationsInv, TypeOK, OffIsReversible, OneFiller, TextReversible,
    EditHasMarker, Running, EditPreferences, Goto
<1>8. ASSUME NEW l \in Launchers, StartLightroom(l) PROVE AnimationsInv'
  BY <1>0, <1>8 DEF AnimationsInv, TypeOK, OffIsReversible, OneFiller, TextReversible,
    EditHasMarker, Running, StartLightroom, Goto
<1>9. CASE ChangeOther \/ LightroomEnds
  <2>1. UNCHANGED <<marker, pc, mode, text, original>>
    BY <1>9 DEF ChangeOther, LightroomEnds, locals, history
  <2>2. OffIsReversible'
    <3>1. CASE ChangeOther
      BY <1>0, <3>1 DEF AnimationsInv, OffIsReversible, ChangeOther, Running, TypeOK,
        Preferences
    <3>2. CASE LightroomEnds
      BY <3>2, <2>1 DEF AnimationsInv, OffIsReversible, LightroomEnds, Running
    <3> QED BY <1>9, <3>1, <3>2
  <2> QED
    BY <1>0, <2>1, <2>2 DEF AnimationsInv, OneFiller, TextReversible, EditHasMarker
<1>10. ASSUME NEW v \in Speeds \cup {NoMatch}, UserEdits(v) PROVE AnimationsInv'
  <2>1. file'.speed # Zero /\ ~Running'
    BY <1>0, <1>10 DEF UserEdits, TypeOK, Preferences, Running
  <2> QED
    BY <1>0, <1>10, <2>1 DEF AnimationsInv, OffIsReversible, OneFiller, TextReversible,
      EditHasMarker, Running, UserEdits, locals, history
<1>11. CASE UNCHANGED vars
  BY <1>0, <1>11 DEF AnimationsInv, OffIsReversible, OneFiller, TextReversible,
    EditHasMarker, Running, vars
<1> QED
  BY <1>1, <1>2, <1>3, <1>4, <1>5, <1>6, <1>7, <1>8, <1>9, <1>10, <1>11
     DEF Next, LaunchStep

(* Every variable of Animations keeps its type. *)
THEOREM AnimationsTyped == Spec => []TypeOK
<1>1. AnimationsInv => TypeOK
  BY DEF AnimationsInv
<1> QED BY <1>1, InvInit, InvStep, PTL DEF Spec

(* For any number of launches, overlapping and killed anywhere: where the  *)
(* launcher's 0 is, a value of the user is kept to restore.                *)
THEOREM AnimationsReversible == Spec => []OffIsReversible
<1>1. AnimationsInv => OffIsReversible
  BY DEF AnimationsInv
<1> QED BY <1>1, InvInit, InvStep, PTL DEF Spec

(* A saved value is never replaced by another, whatever the launches do. *)
THEOREM AnimationsMarkerSticks == Spec => MarkerSticks
<1>1. AnimationsInv /\ [Next]_vars => [(marker \in Speeds) => (marker' = marker)]_vars
  <2> SUFFICES ASSUME AnimationsInv, Next, marker \in Speeds PROVE marker' = marker
    BY DEF vars, history
  <2>1. \A l \in Launchers : pc[l] # "fill"
    BY Constants DEF AnimationsInv, OneFiller
  <2> QED
    BY <2>1, Constants DEF Next, LaunchStep, Begin, CheckRunning, ReadPreferences, ReadMarker,
      CreateMarker, FillMarker, EditPreferences, StartLightroom, Crash, ChangeOther,
      LightroomEnds, UserEdits
<1> QED BY <1>1, InvInit, InvStep, PTL DEF Spec, MarkerSticks

-----------------------------------------------------------------------------
(* Launches one after another. *)

(* As long as no launch began while another was starting, one at most is   *)
(* at work; Lightroom does not run from its look at the processes until it *)
(* is done, nor has the file changed since it was read; and Lightroom's    *)
(* memory is never behind the file.                                        *)
InTurn ==
  serial =>
    /\ \A k, l \in Launchers : pc[k] # "idle" /\ pc[l] # "idle" => k = l
    /\ \A l \in Launchers :
         /\ pc[l] \in {"read", "marker", "create", "fill", "edit"} => ~Running
         /\ pc[l] \in {"marker", "create", "fill", "edit"} => text[l] = file
    /\ Running => app.rest >= file.rest

SerialInv == AnimationsInv /\ InTurn

(* The step of one launch that begins, looks or is killed: it changes      *)
(* neither the file nor Lightroom.                                         *)
LEMMA LooksInTurn ==
  ASSUME TypeOK, InTurn, NEW l \in Launchers,
         UNCHANGED <<file, app>>, serial' => serial,
         pc[l] # "idle" \/ (serial' => \A k \in Launchers : pc[k] = "idle"),
         pc' \in [Launchers -> Labels], text' \in [Launchers -> Preferences],
         \A k \in Launchers \ {l} : pc'[k] = pc[k] /\ text'[k] = text[k],
         pc'[l] \in {"read", "marker", "create", "fill", "edit"} =>
           pc[l] \in {"read", "marker", "create", "fill", "edit"} \/ ~Running,
         pc'[l] \in {"marker", "create", "fill", "edit"} =>
           \/ text'[l] = file
           \/ pc[l] \in {"marker", "create", "fill", "edit"} /\ text'[l] = text[l]
  PROVE  InTurn'
<1> SUFFICES ASSUME serial', serial PROVE InTurn'
  BY DEF InTurn
<1>1. \A j, k \in Launchers : pc'[j] # "idle" /\ pc'[k] # "idle" => j = k
  BY DEF InTurn
<1>2. ASSUME NEW k \in Launchers
      PROVE  /\ pc'[k] \in {"read", "marker", "create", "fill", "edit"} => ~Running'
             /\ pc'[k] \in {"marker", "create", "fill", "edit"} => text'[k] = file'
  <2>1. CASE k = l
    BY <2>1 DEF InTurn, Running
  <2>2. CASE k # l
    BY <2>2 DEF InTurn, Running
  <2> QED
    BY <2>1, <2>2
<1>3. Running' => app'.rest >= file'.rest
  BY DEF InTurn, Running
<1> QED
  BY <1>1, <1>2, <1>3 DEF InTurn

LEMMA InTurnStep ==
  ASSUME AnimationsInv, InTurn, [Next]_vars
  PROVE  InTurn'
<1> USE Constants
<1>0. TypeOK /\ TypeOK'
  BY TypeStep DEF AnimationsInv
<1>1. ASSUME NEW l \in Launchers, NEW m \in {"off", "original"}, Begin(l, m) PROVE InTurn'
  <2>1. \/ serial' = serial /\ \A k \in Launchers : pc[k] = "idle"
        \/ serial' = FALSE
    BY <1>1 DEF Begin
  <2> QED
    BY <1>0, <1>1, <2>1, LooksInTurn DEF TypeOK, Begin, Goto
<1>2. ASSUME NEW l \in Launchers, CheckRunning(l) \/ Crash(l) PROVE InTurn'
  BY <1>0, <1>2, LooksInTurn DEF TypeOK, CheckRunning, Crash, Goto, history
<1>3. ASSUME NEW l \in Launchers, ReadPreferences(l) PROVE InTurn'
  BY <1>0, <1>3, LooksInTurn DEF TypeOK, ReadPreferences, Goto, history
<1>4. ASSUME NEW l \in Launchers, ReadMarker(l) PROVE InTurn'
  BY <1>0, <1>4, LooksInTurn DEF TypeOK, ReadMarker, Goto, history
<1>5. ASSUME NEW l \in Launchers, CreateMarker(l) \/ FillMarker(l) PROVE InTurn'
  BY <1>0, <1>5, LooksInTurn DEF TypeOK, CreateMarker, FillMarker, Goto, history
<1>6. ASSUME NEW l \in Launchers, EditPreferences(l) PROVE InTurn'
  <2> SUFFICES ASSUME serial PROVE InTurn'
    BY <1>6 DEF InTurn, EditPreferences, history
  <2>1. ~Running /\ app' = app /\ pc' = [pc EXCEPT ![l] = "start"]
    BY <1>6 DEF EditPreferences, InTurn, Goto
  <2>2. \A k \in Launchers : pc'[k] # "idle" => k = l /\ pc'[k] = "start"
    BY <1>0, <1>6, <2>1 DEF EditPreferences, InTurn, TypeOK
  <2> QED
    BY <2>1, <2>2 DEF InTurn, Running
<1>7. ASSUME NEW l \in Launchers, StartLightroom(l) PROVE InTurn'
  <2> SUFFICES ASSUME serial PROVE InTurn'
    BY <1>7 DEF InTurn, StartLightroom, history
  <2>1. /\ file' = file /\ app' = (IF Running THEN app ELSE file)
        /\ pc' = [pc EXCEPT ![l] = "idle"] /\ pc[l] = "start"
    BY <1>7 DEF StartLightroom, Goto
  <2>2. \A k \in Launchers : pc'[k] = "idle"
    BY <1>0, <2>1 DEF InTurn, TypeOK
  <2>3. app'.rest >= file'.rest
    BY <1>0, <2>1 DEF InTurn, TypeOK, Preferences
  <2> QED
    BY <2>2, <2>3 DEF InTurn
<1>8. CASE ChangeOther
  <2>1. Running /\ file' = file /\ app'.rest = app.rest + 1 /\ UNCHANGED <<serial, pc, text>>
    BY <1>0, <1>8 DEF ChangeOther, TypeOK, Running, Preferences, history, locals
  <2>2. app.rest \in Nat /\ file.rest \in Nat
    BY <1>0, <2>1 DEF TypeOK, Running, Preferences
  <2> QED
    BY <2>1, <2>2 DEF InTurn
<1>9. CASE LightroomEnds
  <2>1. Running /\ ~Running' /\ UNCHANGED <<serial, pc, text>>
    BY <1>9 DEF LightroomEnds, Running, history, locals
  <2> QED
    BY <2>1 DEF InTurn
<1>10. ASSUME NEW v \in Speeds \cup {NoMatch}, UserEdits(v) PROVE InTurn'
  <2>1. ~Running /\ app' = app /\ pc' = pc /\ \A l \in Launchers : pc[l] = "idle"
    BY <1>10 DEF UserEdits, locals
  <2> QED
    BY <2>1 DEF InTurn, Running
<1>11. CASE UNCHANGED vars
  BY <1>11 DEF InTurn, Running, vars, history
<1> QED
  BY <1>1, <1>2, <1>3, <1>4, <1>5, <1>6, <1>7, <1>8, <1>9, <1>10, <1>11 DEF Next, LaunchStep

LEMMA SerialInvariant == Spec => []SerialInv
<1>1. Init => SerialInv
  BY InvInit DEF Init, SerialInv, InTurn, Running
<1>2. SerialInv /\ [Next]_vars => SerialInv'
  BY InvStep, InTurnStep DEF SerialInv
<1> QED
  BY <1>1, <1>2, PTL DEF Spec

(* Only a launch that edits, Lightroom's end and a user write the file. *)
LEMMA Writers ==
  ASSUME SerialInv, [Next]_vars, serial
  PROVE  \/ file' = file
         \/ ~Running /\ file'.rest = file.rest
         \/ Running /\ app' = Closed /\ file' = app
<1> USE Constants
<1>0. TypeOK
  BY DEF SerialInv, AnimationsInv
<1>1. ASSUME NEW l \in Launchers, EditPreferences(l)
      PROVE  ~Running /\ file'.rest = file.rest
  <2>1. ~Running /\ text[l] = file
    BY <1>1 DEF EditPreferences, SerialInv, InTurn
  <2>2. file' = file \/ file' = [file EXCEPT !.speed = Desired(l)]
    BY <1>1, <2>1 DEF EditPreferences
  <2> QED
    BY <1>0, <2>1, <2>2 DEF TypeOK, Preferences
<1>2. CASE LightroomEnds
  BY <1>2 DEF LightroomEnds
<1>3. ASSUME NEW v \in Speeds \cup {NoMatch}, UserEdits(v)
      PROVE  ~Running /\ file'.rest = file.rest
  BY <1>0, <1>3 DEF UserEdits, TypeOK, Preferences
<1> QED
  BY <1>1, <1>2, <1>3 DEF Next, LaunchStep, vars, Begin, CheckRunning, ReadPreferences,
     ReadMarker, CreateMarker, FillMarker, StartLightroom, Crash, ChangeOther

(* While Lightroom runs, only its own end changes the file, for any number *)
(* of launches, as long as none began while another was starting.          *)
THEOREM AnimationsSkipsRunning == Spec => SkipsRunning
<1>1. SerialInv /\ [Next]_vars => [serial /\ Running /\ app' # Closed => UNCHANGED file]_vars
  BY Writers
<1> QED
  BY <1>1, SerialInvariant, PTL DEF Spec, SkipsRunning

(* Under the same condition no preference that Lightroom saved is rolled   *)
(* back: a launch that edits holds the file as it is, and Lightroom's      *)
(* memory is never behind it.                                              *)
THEOREM AnimationsOtherPreferencesKept == Spec => OtherPreferencesKept
<1>1. SerialInv /\ [Next]_vars => [serial => file'.rest >= file.rest]_vars
  <2> SUFFICES ASSUME SerialInv, [Next]_vars, serial PROVE file'.rest >= file.rest
    OBVIOUS
  <2>1. file.rest \in Nat
    BY DEF SerialInv, AnimationsInv, TypeOK, Preferences
  <2>2. Running => app.rest >= file.rest
    BY DEF SerialInv, InTurn
  <2> QED
    BY <2>1, <2>2, Writers
<1> QED
  BY <1>1, SerialInvariant, PTL DEF Spec, OtherPreferencesKept
=============================================================================
