---------------------------- MODULE RepairsProofs ----------------------------
(***************************************************************************)
(* Proofs about Repairs, for any files and prefixes and any sequence of    *)
(* commands, each killed anywhere.                                         *)
(***************************************************************************)
EXTENDS Repairs, TLAPS

(* A file is in the middle of being backed up only while its copy runs. *)
CopyTorn == pc = "copy" => store[Backup][file] = Torn

(* What p held first in place of f is in one of its backup directories, or *)
(* one of these was filled from another prefix before.                     *)
SavedIn(c, p, f) == store[Store(c, p)][f] \in {orig[p][f], Torn}
Saved(p, f) == orig[p][f] = Absent \/ \E c \in Repairs : SavedIn(c, p, f)
Covered(p, f) == Saved(p, f) \/ TakenElsewhere(p, f)

(* A command is saved from destroying the last original by three facts:    *)
(* what differs from the original is covered; a backup exists only of what *)
(* is covered, so that whoever finds one may pass it over; and a copy that *)
(* is running will either hold the original or is not the only one.        *)
ChangedSaved ==
  \A p \in made, f \in Files : dll[p][f] # orig[p][f] => Covered(p, f)

BackedUpSaved ==
  \A c \in Repairs, p \in made, f \in Files :
    store[Store(c, p)][f] # Absent => Covered(p, f)

TakenMade ==
  \A s \in Stores, f \in Files : store[s][f] # Absent => taken[s][f] \in made

TodoSaved ==
  pc # "idle" => \A f \in todo \ left : Covered(at, f)

CopySaves ==
  pc = "copy" =>
    /\ dll[at][file] # Absent /\ taken[Backup][file] = at
    /\ \/ orig[at][file] = Absent
       \/ dll[at][file] = orig[at][file]
       \/ \E c \in Repairs : Store(c, at) # Backup /\ SavedIn(c, at, file)
       \/ TakenElsewhere(at, file)

RestoreReads == pc # "idle" /\ cmd = "restore" => left = {}

SaveInv ==
  ChangedSaved /\ BackedUpSaved /\ TakenMade /\ TodoSaved /\ CopySaves /\ RestoreReads

(* A component is registered after it was replaced; the preferences are    *)
(* never registered.                                                       *)
RegisterInv ==
  /\ \A p \in Prefixes : "prefs" \notin override[p]
  /\ NativeHasPayload
  /\ pc # "idle" /\ cmd # "restore" => \A f \in Overridden(cmd) \ todo : dll[at][f] \in Repairs

-----------------------------------------------------------------------------
(* The constants. *)

LEMMA Constants ==
  /\ Base \in Prefixes /\ Commands \subseteq Repairs \cup {"restore"}
  /\ Absent # Torn /\ Prefixes \cap (Repairs \cup {Absent, Torn}) = {}
  /\ Absent \notin Repairs /\ Torn \notin Repairs
BY RepairsAssumption DEF RepairsAssumption

LEMMA ReplacedFiles ==
  \A c : Replaced(c) \subseteq Files /\ Overridden(c) \subseteq Replaced(c)
BY DEF Replaced, Overridden

(* Only repair-performance replaces the preferences, and registers another *)
(* component; restore-d2d replaces d2d1.                                   *)
LEMMA OverriddenNotPrefs == \A c \in Commands : "prefs" \notin Overridden(c)
BY Constants DEF Replaced, Overridden, Repairs

LEMMA RestoreReplaces == Replaced("restore") \subseteq {"d2d1"}
BY DEF Replaced

LEMMA StoreTyped == \A c \in Commands, p \in Prefixes : Store(c, p) \in Stores
<1> SUFFICES ASSUME NEW c \in Commands, NEW p \in Prefixes PROVE Store(c, p) \in Stores
  OBVIOUS
<1>1. CASE c \in Repairs BY <1>1 DEF Stores
<1>2. CASE c = "restore"
  <2>1. Store(c, p) = Store("d2d", p) BY <1>2 DEF Store
  <2> QED BY <2>1 DEF Stores, Repairs
<1> QED BY <1>1, <1>2, Constants

-----------------------------------------------------------------------------
(* Types. *)

LEMMA TypeInit == Init => TypeOK
<1> SUFFICES ASSUME Init PROVE TypeOK
  OBVIOUS
<1>1. PICK f \in Files \cup {None} :
        orig = [p \in Prefixes |-> [g \in Files |-> IF g = f /\ f # "prefs" THEN Absent ELSE p]]
  BY DEF Init
<1>2. orig \in [Prefixes -> [Files -> Content]]
  BY <1>1 DEF Content
<1>3. store \in [Stores -> [Files -> Content]]
  BY DEF Init, Content
<1> QED BY <1>2, <1>3, Constants DEF Init, TypeOK, None

LEMMA TypeStep == TypeOK /\ [Next]_vars => TypeOK'
<1> SUFFICES ASSUME TypeOK, [Next]_vars PROVE TypeOK'
  OBVIOUS
<1> USE Constants, ReplacedFiles DEF TypeOK, prefixVars, backups
<1>1. ASSUME NEW c \in Commands, NEW p \in Prefixes, Begin(c, p) PROVE TypeOK'
  BY <1>1 DEF Begin
<1>2. CASE Kill BY <1>2 DEF Kill, Ends, End
<1>3. CASE CopyEnds
  <2>1. file \in Files /\ cmd \in Commands /\ at \in Prefixes
    BY <1>3 DEF CopyEnds
  <2>2. Backup \in Stores BY <2>1, StoreTyped DEF Backup
  <2>3. dll[at][file] \in Content BY <2>1
  <2>4. store' \in [Stores -> [Files -> Content]] BY <1>3, <2>1, <2>2, <2>3 DEF CopyEnds
  <2> QED BY <1>3, <2>4 DEF CopyEnds
<1>4. CASE WritePrefs
  <2>1. cmd \in Commands /\ "prefs" \in Files /\ at \in Prefixes
    BY <1>4 DEF WritePrefs
  <2>2. Torn \in Content /\ "performance" \in Content
    BY DEF Content, Repairs
  <2>3. CASE pc = "work"
    <3>1. dll' = [dll EXCEPT ![at]["prefs"] = Torn] BY <1>4, <2>3 DEF WritePrefs
    <3>2. dll' \in [Prefixes -> [Files -> Content]] BY <2>1, <2>2, <3>1
    <3> QED BY <1>4, <2>3, <3>2 DEF WritePrefs
  <2>4. CASE pc = "prefs"
    <3>1. dll' = [dll EXCEPT ![at]["prefs"] = "performance"] BY <1>4, <2>4 DEF WritePrefs
    <3>2. dll' \in [Prefixes -> [Files -> Content]] BY <2>1, <2>2, <3>1
    <3> QED BY <1>4, <2>4, <3>2 DEF WritePrefs
  <2> QED BY <1>4, <2>3, <2>4 DEF WritePrefs
<1>5. CASE Finish BY <1>5 DEF Finish, Ends, End
<1>6. CASE Stops BY <1>6 DEF Stops, Ends, End
<1>7. ASSUME NEW f \in Files, SkipBackUp(f) PROVE TypeOK'
  BY <1>7 DEF SkipBackUp, Turn, Ends, End
<1>8. ASSUME NEW f \in Files, CopyBegins(f) PROVE TypeOK'
  <2>1. Backup \in Stores BY <1>8, StoreTyped DEF Backup, CopyBegins, Turn
  <2>2. store' \in [Stores -> [Files -> Content]] BY <1>8, <2>1 DEF CopyBegins, Content
  <2> QED BY <1>8, <2>2 DEF CopyBegins, Turn
<1>9. ASSUME NEW f \in Files, Replace(f) PROVE TypeOK'
  <2>1. Backup \in Stores /\ cmd \in Commands /\ at \in Prefixes
    BY <1>9, StoreTyped DEF Backup, Replace
  <2>2. (IF cmd = "restore" THEN store[Backup][f] ELSE cmd) \in Content
    BY <2>1 DEF Content
  <2>3. dll' \in [Prefixes -> [Files -> Content]] BY <1>9, <2>1, <2>2 DEF Replace
  <2> QED BY <1>9, <2>3 DEF Replace
<1>10. ASSUME NEW f \in Files, Override(f) PROVE TypeOK'
  BY <1>10 DEF Override
<1>11. ASSUME NEW q \in Prefixes, CopyPrefix(q) PROVE TypeOK'
  <2> DEFINE copy == [f \in Files |-> IF dll[Base][f] = Base THEN q ELSE dll[Base][f]]
  <2>1. copy \in [Files -> Content] BY DEF Content
  <2>2. dll' \in [Prefixes -> [Files -> Content]] /\ orig' \in [Prefixes -> [Files -> Content]]
    BY <1>11, <2>1 DEF CopyPrefix
  <2> QED BY <1>11, <2>2 DEF CopyPrefix
<1>12. CASE UNCHANGED vars BY <1>12 DEF vars
<1> QED BY <1>1, <1>2, <1>3, <1>4, <1>5, <1>6, <1>7, <1>8, <1>9, <1>10, <1>11, <1>12
        DEF Next, Step

(* WritePrefs changes no other file. *)
LEMMA PrefsOnly ==
  ASSUME TypeOK, WritePrefs, NEW p \in Prefixes, NEW f \in Files, f # "prefs"
  PROVE  dll'[p][f] = dll[p][f]
<1>1. PICK v \in {Torn, "performance"} : dll' = [dll EXCEPT ![at]["prefs"] = v]
  BY DEF WritePrefs
<1>2. at \in Prefixes /\ dll \in [Prefixes -> [Files -> Content]] BY DEF TypeOK
<1> QED BY <1>1, <1>2

(* For any prefixes, files and commands, the variables keep their types. *)
THEOREM RepairsTyped == Spec => []TypeOK
BY TypeInit, TypeStep, PTL DEF Spec

-----------------------------------------------------------------------------
(* What a step may never do. *)

LEMMA CopyTornInit == Init => CopyTorn
BY DEF Init, CopyTorn

LEMMA CopyTornStep == TypeOK /\ CopyTorn /\ [Next]_vars => CopyTorn'
<1> SUFFICES ASSUME TypeOK, CopyTorn, [Next]_vars PROVE CopyTorn'
  OBVIOUS
<1> USE Constants DEF TypeOK, CopyTorn, prefixVars, backups, Backup
<1>1. ASSUME NEW c \in Commands, NEW p \in Prefixes, Begin(c, p) PROVE CopyTorn'
  BY <1>1 DEF Begin
<1>2. CASE Kill \/ CopyEnds \/ WritePrefs \/ Finish \/ Stops
  BY <1>2 DEF Kill, CopyEnds, WritePrefs, Finish, Stops, Ends, End
<1>3. ASSUME NEW f \in Files, SkipBackUp(f) \/ Replace(f) \/ Override(f) PROVE CopyTorn'
  BY <1>3 DEF SkipBackUp, Turn, Ends, End, Replace, Override
<1>4. ASSUME NEW f \in Files, CopyBegins(f) PROVE CopyTorn'
  <2>1. Backup \in Stores BY <1>4, StoreTyped DEF CopyBegins, Turn
  <2> QED BY <1>4, <2>1 DEF CopyBegins, Turn
<1>5. ASSUME NEW p \in Prefixes, CopyPrefix(p) PROVE CopyTorn'
  BY <1>5 DEF CopyPrefix
<1>6. CASE UNCHANGED vars BY <1>6 DEF vars
<1> QED BY <1>1, <1>2, <1>3, <1>4, <1>5, <1>6 DEF Next, Step

(* The steps that write a backup directory are the two of a copy. *)
LEMMA StoreWritten ==
  ASSUME TypeOK, [Next]_vars, store' # store
  PROVE  \/ \E f \in Files : CopyBegins(f)
         \/ CopyEnds
BY DEF Next, Step, Begin, Kill, WritePrefs, Finish, Stops, SkipBackUp, Replace, Override,
       CopyPrefix, vars, prefixVars, backups

(* For any prefixes, files and commands, whether or not they share a       *)
(* backup directory: a finished backup is never written again.             *)
THEOREM RepairsBackupSticks == Spec => BackupSticks
<1>1. TypeOK /\ CopyTorn /\ [Next]_vars =>
        \A s \in Stores, f \in Files :
          store[s][f] \notin {Absent, Torn} => store'[s][f] = store[s][f]
  <2> SUFFICES ASSUME TypeOK, CopyTorn, [Next]_vars, NEW s \in Stores, NEW f \in Files,
                      store[s][f] \notin {Absent, Torn}
               PROVE  store'[s][f] = store[s][f]
    OBVIOUS
  <2>1. CASE store' = store BY <2>1
  <2>2. ASSUME NEW g \in Files, CopyBegins(g) PROVE store'[s][f] = store[s][f]
    BY <2>2 DEF CopyBegins, TypeOK
  <2>3. CASE CopyEnds BY <2>3 DEF CopyEnds, CopyTorn, TypeOK
  <2> QED BY <2>1, <2>2, <2>3, StoreWritten
<1> QED BY <1>1, TypeInit, TypeStep, CopyTornInit, CopyTornStep, PTL DEF Spec, BackupSticks

-----------------------------------------------------------------------------
(* The first original of every file stays recoverable. *)

LEMMA SaveInit == Init => SaveInv
<1> SUFFICES ASSUME Init PROVE SaveInv
  OBVIOUS
<1>1. \A s \in Stores, f \in Files : store[s][f] = Absent
  BY DEF Init
<1>2. \A c \in Repairs, p \in Prefixes : Store(c, p) \in Stores
  BY DEF Stores
<1> QED BY <1>1, <1>2, Constants DEF Init, SaveInv, ChangedSaved, BackedUpSaved, TakenMade, TodoSaved,
           CopySaves, RestoreReads

(* What a write to the backup directory of the running command leaves as   *)
(* it is: every other directory, and every other file of this one.         *)
LEMMA OtherStores ==
  ASSUME TypeOK, pc # "idle", NEW g \in Files, NEW v,
         store' = [store EXCEPT ![Backup][g] = v]
  PROVE  /\ Backup \in Stores /\ store'[Backup][g] = v
         /\ \A s \in Stores, f \in Files :
              s # Backup \/ f # g => store'[s][f] = store[s][f]
<1>1. Backup \in Stores
  BY StoreTyped DEF Backup, TypeOK
<1> QED BY <1>1 DEF TypeOK

(* Whatever covers a file still does when a copy begins: the backup it     *)
(* writes was absent.                                                      *)
LEMMA CoveredCopyBegins ==
  ASSUME TypeOK, NEW f \in Files, CopyBegins(f)
  PROVE  /\ \A p \in Prefixes, g \in Files : Covered(p, g) => Covered(p, g)'
         /\ \A p \in Prefixes : Store(cmd, p) = Backup => Covered(p, f)'
<1> USE Constants
<1>1. /\ pc = "work" /\ store[Backup][f] = Absent /\ cmd \in Commands /\ at \in Prefixes
      /\ store' = [store EXCEPT ![Backup][f] = Torn]
      /\ taken' = [taken EXCEPT ![Backup][f] = at]
      /\ at' = at /\ cmd' = cmd /\ orig' = orig
  BY DEF CopyBegins, Turn, prefixVars, TypeOK
<1>2. /\ Backup \in Stores /\ store'[Backup][f] = Torn /\ taken'[Backup][f] = at
      /\ \A s \in Stores, g \in Files :
           s # Backup \/ g # f => store'[s][g] = store[s][g] /\ taken'[s][g] = taken[s][g]
  <2>1. Backup \in Stores BY <1>1, OtherStores
  <2> QED BY <1>1, <2>1 DEF TypeOK
<1>3. \A c \in Repairs, p \in Prefixes : Store(c, p) \in Stores
  BY DEF Stores
<1>4. ASSUME NEW p \in Prefixes, NEW g \in Files, Covered(p, g) PROVE Covered(p, g)'
  <2>1. CASE orig[p][g] = Absent BY <1>1, <2>1 DEF Covered, Saved
  <2>2. ASSUME NEW c \in Repairs, SavedIn(c, p, g), orig[p][g] # Absent PROVE Covered(p, g)'
    <3>1. Store(c, p) # Backup \/ g # f
      BY <1>1, <2>2 DEF SavedIn
    <3> QED BY <1>1, <1>2, <1>3, <2>2, <3>1 DEF Covered, Saved, SavedIn
  <2>3. ASSUME NEW c \in Repairs, store[Store(c, p)][g] # Absent, taken[Store(c, p)][g] # p
        PROVE  Covered(p, g)'
    <3>1. Store(c, p) # Backup \/ g # f
      BY <1>1, <2>3
    <3> QED BY <1>2, <1>3, <2>3, <3>1 DEF Covered, TakenElsewhere
  <2> QED BY <1>4, <2>1, <2>2, <2>3 DEF Covered, Saved, TakenElsewhere
<1>5. ASSUME NEW p \in Prefixes, Store(cmd, p) = Backup PROVE Covered(p, f)'
  <2>1. PICK c \in Repairs : Store(c, p) = Backup
    <3>1. CASE cmd \in Repairs BY <1>5, <3>1
    <3>2. CASE cmd = "restore" BY <1>5, <3>2 DEF Store, Repairs
    <3> QED BY <1>1, <3>1, <3>2
  <2>2. CASE p = at BY <1>2, <2>1, <2>2 DEF Covered, Saved, SavedIn
  <2>3. CASE p # at BY <1>2, <2>1, <2>3 DEF Covered, TakenElsewhere
  <2> QED BY <2>2, <2>3
<1> QED BY <1>4, <1>5

LEMMA SaveCopyBegins ==
  ASSUME TypeOK, SaveInv, NEW f \in Files, CopyBegins(f)
  PROVE  SaveInv'
<1> USE Constants DEF SaveInv
<1>1. /\ pc = "work" /\ f \in left /\ at \in made /\ at \in Prefixes /\ cmd \in Repairs
      /\ store[Backup][f] = Absent /\ dll[at][f] # Absent
      /\ store' = [store EXCEPT ![Backup][f] = Torn]
      /\ taken' = [taken EXCEPT ![Backup][f] = at]
      /\ at' = at /\ cmd' = cmd /\ file' = f /\ pc' = "copy"
      /\ UNCHANGED <<dll, orig, made, todo, left>>
  BY DEF CopyBegins, Turn, prefixVars, TypeOK, RestoreReads
<1>2. /\ Backup \in Stores /\ taken'[Backup][f] = at /\ Backup' = Backup
      /\ \A s \in Stores, g \in Files :
           s # Backup \/ g # f => store'[s][g] = store[s][g] /\ taken'[s][g] = taken[s][g]
  <2>1. Backup \in Stores BY <1>1, OtherStores
  <2> QED BY <1>1, <2>1 DEF TypeOK, Backup
<1>3. /\ \A p \in Prefixes, g \in Files : Covered(p, g) => Covered(p, g)'
      /\ \A p \in Prefixes : Store(cmd, p) = Backup => Covered(p, f)'
  BY CoveredCopyBegins
<1>4. \A c \in Repairs, p \in Prefixes : Store(c, p) \in Stores
  BY DEF Stores
<1>5. made \subseteq Prefixes BY DEF TypeOK
<1>6. ChangedSaved' BY <1>1, <1>3, <1>5 DEF ChangedSaved
<1>7. BackedUpSaved'
  <2> SUFFICES ASSUME NEW c \in Repairs, NEW p \in made, NEW g \in Files,
                      store'[Store(c, p)][g] # Absent
               PROVE  Covered(p, g)'
    BY <1>1 DEF BackedUpSaved
  <2>1. CASE Store(c, p) = Backup /\ g = f
    <3>1. c = cmd BY <1>1, <2>1 DEF Backup, Store, Repairs
    <3> QED BY <1>3, <1>5, <2>1, <3>1
  <2>2. CASE Store(c, p) # Backup \/ g # f
    BY <1>2, <1>3, <1>4, <1>5, <2>2 DEF BackedUpSaved
  <2> QED BY <2>1, <2>2
<1>8. TakenMade' BY <1>1, <1>2 DEF TakenMade
<1>9. TodoSaved'
  <2>1. \A g \in todo \ left : g \in Files BY ReplacedFiles DEF TypeOK
  <2> QED BY <1>1, <1>3, <2>1 DEF TodoSaved
<1>10. CopySaves'
  <2> SUFFICES ASSUME orig[at][f] # Absent, dll[at][f] # orig[at][f]
               PROVE  \/ \E c \in Repairs : Store(c, at) # Backup /\ SavedIn(c, at, f)'
                      \/ TakenElsewhere(at, f)'
    BY <1>1, <1>2 DEF CopySaves
  <2>1. Covered(at, f) BY <1>1 DEF ChangedSaved
  <2>2. ASSUME NEW c \in Repairs, SavedIn(c, at, f)
        PROVE  Store(c, at) # Backup /\ SavedIn(c, at, f)'
    <3>1. Store(c, at) # Backup BY <1>1, <2>2 DEF SavedIn
    <3> QED BY <1>1, <1>2, <1>4, <2>2, <3>1 DEF SavedIn
  <2>3. ASSUME NEW c \in Repairs, store[Store(c, at)][f] # Absent, taken[Store(c, at)][f] # at
        PROVE  TakenElsewhere(at, f)'
    <3>1. Store(c, at) # Backup BY <1>1, <2>3
    <3> QED BY <1>1, <1>2, <1>4, <2>3, <3>1 DEF TakenElsewhere
  <2> QED BY <2>1, <2>2, <2>3 DEF Covered, Saved, TakenElsewhere
<1>11. RestoreReads' BY <1>1 DEF RestoreReads, Repairs
<1> QED BY <1>6, <1>7, <1>8, <1>9, <1>10, <1>11

LEMMA SaveCopyEnds ==
  ASSUME TypeOK, SaveInv, CopyEnds
  PROVE  SaveInv'
<1> USE Constants DEF SaveInv
<1>0. PICK f \in Files : f = file
  BY ReplacedFiles DEF CopyEnds, TypeOK
<1>1. /\ pc = "copy" /\ f \in left /\ at \in made /\ at \in Prefixes /\ cmd \in Repairs
      /\ dll[at][f] # Absent /\ taken[Backup][f] = at
      /\ store' = [store EXCEPT ![Backup][f] = dll[at][f]]
      /\ UNCHANGED <<dll, orig, made, at, cmd, todo, taken>>
      /\ left' = left \ {f} /\ pc' = "work"
  BY <1>0 DEF CopyEnds, prefixVars, TypeOK, RestoreReads, CopySaves
<1>2. /\ Backup \in Stores /\ store'[Backup][f] = dll[at][f]
      /\ \A s \in Stores, g \in Files : s # Backup \/ g # f => store'[s][g] = store[s][g]
  BY <1>1, OtherStores
<1>3. \A c \in Repairs, p \in Prefixes : Store(c, p) \in Stores
  BY DEF Stores
<1>4. made \subseteq Prefixes BY DEF TypeOK
<1>5. \A p \in Prefixes, g \in Files : TakenElsewhere(p, g) => TakenElsewhere(p, g)'
  BY <1>1, <1>2, <1>3 DEF TakenElsewhere
<1>6. Covered(at, f)'
  <2>1. CASE orig[at][f] = Absent BY <1>1, <2>1 DEF Covered, Saved
  <2>2. CASE dll[at][f] = orig[at][f]
    BY <1>1, <1>2, <2>2 DEF Covered, Saved, SavedIn, Backup
  <2>3. ASSUME NEW c \in Repairs, Store(c, at) # Backup, SavedIn(c, at, f)
        PROVE  Covered(at, f)'
    BY <1>1, <1>2, <1>3, <2>3 DEF Covered, Saved, SavedIn
  <2>4. CASE TakenElsewhere(at, f) BY <1>1, <1>5, <2>4 DEF Covered
  <2> QED BY <1>0, <1>1, <2>1, <2>2, <2>3, <2>4 DEF CopySaves
<1>7. ASSUME NEW c \in Repairs, NEW p \in Prefixes, Store(c, p) = Backup PROVE Covered(p, f)'
  <2>1. CASE p = at BY <1>6, <1>1, <2>1
  <2>2. CASE p # at BY <1>1, <1>2, <1>7, <2>2 DEF Covered, TakenElsewhere
  <2> QED BY <2>1, <2>2
<1>8. ASSUME NEW p \in Prefixes, NEW g \in Files, Covered(p, g) PROVE Covered(p, g)'
  <2>1. CASE TakenElsewhere(p, g) BY <1>5, <2>1 DEF Covered
  <2>2. CASE orig[p][g] = Absent BY <1>1, <2>2 DEF Covered, Saved
  <2>3. ASSUME NEW c \in Repairs, SavedIn(c, p, g) PROVE Covered(p, g)'
    <3>1. CASE Store(c, p) = Backup /\ g = f BY <1>7, <3>1
    <3>2. CASE Store(c, p) # Backup \/ g # f
      BY <1>1, <1>2, <1>3, <2>3, <3>2 DEF Covered, Saved, SavedIn
    <3> QED BY <3>1, <3>2
  <2> QED BY <1>8, <2>1, <2>2, <2>3 DEF Covered, Saved
<1>9. ChangedSaved' BY <1>1, <1>4, <1>8 DEF ChangedSaved
<1>10. BackedUpSaved'
  <2> SUFFICES ASSUME NEW c \in Repairs, NEW p \in made, NEW g \in Files,
                      store'[Store(c, p)][g] # Absent
               PROVE  Covered(p, g)'
    BY <1>1 DEF BackedUpSaved
  <2>1. CASE Store(c, p) = Backup /\ g = f BY <1>4, <1>7, <2>1
  <2>2. CASE Store(c, p) # Backup \/ g # f
    BY <1>2, <1>3, <1>4, <1>8, <2>2 DEF BackedUpSaved
  <2> QED BY <2>1, <2>2
<1>11. TakenMade' BY <1>1, <1>2 DEF TakenMade
<1>12. TodoSaved'
  <2>1. \A g \in todo : g \in Files BY ReplacedFiles DEF TypeOK
  <2> QED BY <1>1, <1>6, <1>8, <2>1 DEF TodoSaved
<1>13. CopySaves' BY <1>1 DEF CopySaves
<1>14. RestoreReads' BY <1>1 DEF RestoreReads, Repairs
<1> QED BY <1>9, <1>10, <1>11, <1>12, <1>13, <1>14

(* What covers a file is what is in the backup directories and what the    *)
(* prefix held first.                                                      *)
LEMMA CoveredSame ==
  ASSUME UNCHANGED <<store, taken>>, NEW p \in Prefixes, NEW f \in Files,
         orig'[p][f] = orig[p][f]
  PROVE  Covered(p, f)' <=> Covered(p, f)
BY DEF Covered, Saved, SavedIn, TakenElsewhere

(* A file is replaced only after it was saved. *)
LEMMA SaveReplaces ==
  ASSUME TypeOK, SaveInv, NEW f \in Files, f \in todo \ left, pc # "idle", NEW v,
         dll' = [dll EXCEPT ![at][f] = v], todo' \subseteq todo, pc' # "copy",
         UNCHANGED <<orig, made, store, taken, at, cmd, left>>
  PROVE  SaveInv'
<1> USE DEF SaveInv
<1>1. at \in made /\ at \in Prefixes /\ made \subseteq Prefixes BY DEF TypeOK
<1>2. \A p \in Prefixes, g \in Files : Covered(p, g)' <=> Covered(p, g)
  BY CoveredSame
<1>3. Covered(at, f) BY DEF TodoSaved
<1>4. ChangedSaved'
  <2> SUFFICES ASSUME NEW p \in made, NEW g \in Files, dll'[p][g] # orig[p][g]
               PROVE  Covered(p, g)'
    BY DEF ChangedSaved
  <2>1. CASE p = at /\ g = f BY <1>1, <1>2, <1>3, <2>1
  <2>2. CASE p # at \/ g # f
    <3>1. dll'[p][g] = dll[p][g] BY <1>1, <2>2 DEF TypeOK
    <3> QED BY <1>1, <1>2, <3>1 DEF ChangedSaved
  <2> QED BY <2>1, <2>2
<1>5. BackedUpSaved' BY <1>1, <1>2 DEF BackedUpSaved
<1>6. TakenMade' BY DEF TakenMade
<1>7. TodoSaved'
  <2>1. \A g \in todo : g \in Files BY ReplacedFiles DEF TypeOK
  <2> QED BY <1>1, <1>2, <2>1 DEF TodoSaved
<1>8. CopySaves' BY DEF CopySaves
<1>9. RestoreReads' BY DEF RestoreReads, TypeOK
<1> QED BY <1>4, <1>5, <1>6, <1>7, <1>8, <1>9

LEMMA SaveBegin ==
  ASSUME TypeOK, SaveInv, NEW c \in Commands, NEW p \in Prefixes, Begin(c, p)
  PROVE  SaveInv'
<1> USE DEF SaveInv
<1>1. UNCHANGED <<dll, orig, made, store, taken>> /\ made \subseteq Prefixes /\ p \in made
  BY DEF Begin, prefixVars, backups, TypeOK
<1>2. \A q \in Prefixes, g \in Files : Covered(q, g)' <=> Covered(q, g)
  BY <1>1, CoveredSame
<1>3. ChangedSaved' /\ BackedUpSaved' /\ TakenMade'
  BY <1>1, <1>2 DEF ChangedSaved, BackedUpSaved, TakenMade
<1>4. TodoSaved'
  <2>1. CASE c # "restore" BY <2>1 DEF Begin, TodoSaved
  <2>2. CASE c = "restore"
    <3> SUFFICES ASSUME NEW f \in Replaced(c) PROVE Covered(p, f)'
      BY <2>2 DEF Begin, TodoSaved
    <3>1. f \in Files BY ReplacedFiles
    <3>2. Store(c, p) = Store("d2d", p) /\ "d2d" \in Repairs BY <2>2 DEF Store, Repairs
    <3>3. store[Store("d2d", p)][f] # Absent BY <2>2, <3>2 DEF Begin, Refused
    <3> QED BY <1>1, <1>2, <3>1, <3>2, <3>3 DEF BackedUpSaved
  <2> QED BY <2>1, <2>2
<1>5. CopySaves' /\ RestoreReads' BY DEF Begin, CopySaves, RestoreReads
<1> QED BY <1>3, <1>4, <1>5

LEMMA SaveSkips ==
  ASSUME TypeOK, SaveInv, NEW f \in Files, SkipBackUp(f)
  PROVE  SaveInv'
<1> USE Constants DEF SaveInv
<1>1. /\ UNCHANGED <<dll, orig, made, store, taken>> /\ pc = "work" /\ pc' # "copy"
      /\ f \in left /\ at \in made /\ at \in Prefixes /\ made \subseteq Prefixes
  BY DEF SkipBackUp, Turn, Ends, End, prefixVars, backups, TypeOK
<1>2. \A q \in Prefixes, g \in Files : Covered(q, g)' <=> Covered(q, g)
  BY <1>1, CoveredSame
<1>3. ChangedSaved' /\ BackedUpSaved' /\ TakenMade'
  BY <1>1, <1>2 DEF ChangedSaved, BackedUpSaved, TakenMade
<1>4. TodoSaved'
  <2>1. CASE pc' = "idle" BY <2>1 DEF TodoSaved
  <2>2. CASE pc' # "idle"
    <3>1. /\ left' = left \ {f} /\ todo' = todo /\ at' = at
          /\ store[Backup][f] # Absent \/ dll[at][f] = Absent
      BY <2>2 DEF SkipBackUp, Ends, End
    <3>2. cmd \in Repairs BY <1>1 DEF TypeOK, RestoreReads
    <3>3. Covered(at, f)
      <4>1. CASE store[Backup][f] # Absent BY <1>1, <3>2, <4>1 DEF Backup, BackedUpSaved
      <4>2. CASE dll[at][f] = Absent BY <1>1, <4>2 DEF ChangedSaved, Covered, Saved
      <4> QED BY <3>1, <4>1, <4>2
    <3>4. \A g \in todo : g \in Files BY ReplacedFiles DEF TypeOK
    <3> QED BY <1>1, <1>2, <3>1, <3>3, <3>4 DEF TodoSaved
  <2> QED BY <2>1, <2>2
<1>5. CopySaves' BY <1>1 DEF CopySaves
<1>6. RestoreReads' BY DEF RestoreReads, SkipBackUp, Turn, Ends, End
<1> QED BY <1>3, <1>4, <1>5, <1>6

(* A new copy of DATA/prefix holds its originals, and whatever backup it   *)
(* finds was taken elsewhere.                                              *)
LEMMA SaveCopies ==
  ASSUME TypeOK, SaveInv, NEW q \in Prefixes, CopyPrefix(q)
  PROVE  SaveInv'
<1> USE DEF SaveInv
<1> DEFINE copy == [f \in Files |-> IF dll[Base][f] = Base THEN q ELSE dll[Base][f]]
<1>1. /\ dll' = [dll EXCEPT ![q] = copy] /\ orig' = [orig EXCEPT ![q] = copy]
      /\ q \notin made /\ made' = made \cup {q} /\ UNCHANGED <<store, taken>>
      /\ pc = "idle" /\ pc' = "idle" /\ made \subseteq Prefixes
  BY DEF CopyPrefix, backups, TypeOK
<1> HIDE DEF copy
<1>2. \A p \in made : dll'[p] = dll[p] /\ orig'[p] = orig[p]
  BY <1>1 DEF TypeOK
<1>3. \A p \in made, f \in Files : Covered(p, f)' <=> Covered(p, f)
  BY <1>1, <1>2, CoveredSame
<1>4. dll'[q] = orig'[q] BY <1>1 DEF TypeOK
<1>5. ChangedSaved' BY <1>1, <1>2, <1>3, <1>4 DEF ChangedSaved
<1>6. ASSUME NEW c \in Repairs, NEW f \in Files, store[Store(c, q)][f] # Absent
      PROVE  Covered(q, f)'
  <2>1. Store(c, q) \in Stores BY DEF Stores
  <2>2. taken[Store(c, q)][f] # q BY <1>1, <1>6, <2>1 DEF TakenMade
  <2> QED BY <1>1, <1>6, <2>2 DEF Covered, TakenElsewhere
<1>7. BackedUpSaved' BY <1>1, <1>3, <1>6 DEF BackedUpSaved
<1>8. TakenMade' BY <1>1 DEF TakenMade
<1> QED BY <1>1, <1>5, <1>7, <1>8 DEF TodoSaved, CopySaves, RestoreReads

LEMMA SaveStep == TypeOK /\ SaveInv /\ [Next]_vars => SaveInv'
<1> SUFFICES ASSUME TypeOK, SaveInv, [Next]_vars PROVE SaveInv'
  OBVIOUS
<1>1. ASSUME UNCHANGED <<dll, orig, made, store, taken, at, cmd, left, todo, file>>,
             pc' = pc \/ (pc # "idle" /\ pc' \in {"work", "prefs"})
      PROVE  SaveInv'
  BY <1>1 DEF SaveInv, ChangedSaved, BackedUpSaved, TakenMade, TodoSaved, CopySaves,
              RestoreReads, Covered, Saved, SavedIn, TakenElsewhere, Backup
<1>2. ASSUME pc' = "idle", UNCHANGED <<dll, orig, made, store, taken>> PROVE SaveInv'
  BY <1>2 DEF SaveInv, ChangedSaved, BackedUpSaved, TakenMade, TodoSaved, CopySaves,
              RestoreReads, Covered, Saved, SavedIn, TakenElsewhere
<1>3. CASE Kill
  <2>1. CASE pc' = "idle" BY <1>2, <1>3, <2>1 DEF Kill, prefixVars, backups
  <2>2. CASE pc' # "idle" BY <1>1, <1>3, <2>2 DEF Kill, Ends, End, prefixVars, backups
  <2> QED BY <2>1, <2>2
<1>4. CASE WritePrefs
  <2>1. "prefs" \in todo \ left /\ "prefs" \in Files /\ pc # "idle"
    BY <1>4, ReplacedFiles DEF WritePrefs, TypeOK
  <2>2. CASE pc = "work" BY <1>4, <2>1, <2>2, SaveReplaces DEF WritePrefs, backups
  <2>3. CASE pc = "prefs" BY <1>4, <2>1, <2>3, SaveReplaces DEF WritePrefs, backups
  <2> QED BY <1>4, <2>2, <2>3 DEF WritePrefs
<1>5. ASSUME NEW f \in Files, Replace(f) PROVE SaveInv'
  <2> DEFINE v == IF cmd = "restore" THEN store[Backup][f] ELSE cmd
  <2>1. /\ f \in todo \ left /\ pc # "idle" /\ dll' = [dll EXCEPT ![at][f] = v]
        /\ todo' \subseteq todo /\ pc' # "copy"
        /\ UNCHANGED <<orig, made, store, taken, at, cmd, left>>
    BY <1>5 DEF Replace, backups
  <2> HIDE DEF v
  <2> QED BY <2>1, SaveReplaces
<1>6. ASSUME NEW f \in Files, Override(f) PROVE SaveInv'
  BY <1>1, <1>6 DEF Override, backups
<1>7. CASE Finish \/ Stops
  BY <1>2, <1>7 DEF Finish, Stops, Ends, End, prefixVars, backups
<1>8. CASE UNCHANGED vars
  BY <1>1, <1>8 DEF vars
<1> QED BY <1>3, <1>4, <1>5, <1>6, <1>7, <1>8, SaveBegin, SaveSkips, SaveCopies,
           SaveCopyBegins, SaveCopyEnds DEF Next, Step

(* For any files and prefixes, and whatever commands run in them and are   *)
(* killed: what a prefix held before the first repair is in a backup, or   *)
(* its copy was cut short, or a shared directory held another prefix's     *)
(* file already.                                                           *)
THEOREM RepairsOriginalRecoverable == Spec => []OriginalRecoverable
<1>1. SaveInv => OriginalRecoverable
  BY DEF SaveInv, ChangedSaved, OriginalRecoverable, Covered, Saved, SavedIn
<1> QED BY <1>1, TypeInit, TypeStep, SaveInit, SaveStep, PTL DEF Spec

-----------------------------------------------------------------------------
(* A registered component is a repair's own. *)

LEMMA RegisterInit == Init => RegisterInv
BY Constants DEF Init, RegisterInv, NativeHasPayload

LEMMA RegisterStep == TypeOK /\ RegisterInv /\ [Next]_vars => RegisterInv'
<1> SUFFICES ASSUME TypeOK, RegisterInv, [Next]_vars PROVE RegisterInv'
  OBVIOUS
<1> USE Constants, ReplacedFiles DEF TypeOK, RegisterInv, NativeHasPayload, prefixVars
<1>1. ASSUME NEW c \in Commands, NEW p \in Prefixes, Begin(c, p) PROVE RegisterInv'
  BY <1>1 DEF Begin
<1>2. CASE Kill BY <1>2 DEF Kill, Ends, End
<1>3. CASE CopyEnds BY <1>3 DEF CopyEnds
<1>4. CASE WritePrefs
  <2>1. \A p \in Prefixes, f \in Files : f # "prefs" => dll'[p][f] = dll[p][f]
    BY <1>4, PrefsOnly
  <2>2. cmd \in Commands /\ at \in Prefixes /\ "prefs" \notin Overridden(cmd)
    BY <1>4, OverriddenNotPrefs DEF WritePrefs
  <2>3. /\ UNCHANGED <<override, made, cmd, at>> /\ pc # "idle"
        /\ \A f \in Overridden(cmd) \ todo' : f \in Overridden(cmd) \ todo
    BY <1>4, <2>2 DEF WritePrefs
  <2>4. NativeHasPayload' BY <2>1, <2>3
  <2>5. cmd # "restore" => \A f \in Overridden(cmd) \ todo' : dll'[at][f] \in Repairs
    BY <2>1, <2>2, <2>3
  <2> QED BY <2>3, <2>4, <2>5
<1>5. CASE Finish BY <1>5 DEF Finish, Ends, End
<1>6. CASE Stops BY <1>6 DEF Stops, Ends, End
<1>7. ASSUME NEW f \in Files, SkipBackUp(f) PROVE RegisterInv'
  BY <1>7 DEF SkipBackUp, Turn, Ends, End
<1>8. ASSUME NEW f \in Files, CopyBegins(f) PROVE RegisterInv'
  BY <1>8 DEF CopyBegins, Turn
<1>9. ASSUME NEW f \in Files, Replace(f) PROVE RegisterInv'
  <2> DEFINE v == IF cmd = "restore" THEN store[Backup][f] ELSE cmd
  <2>1. /\ dll' = [dll EXCEPT ![at][f] = v] /\ todo' = todo \ {f} /\ f \in todo
        /\ pc = "work" /\ UNCHANGED <<override, made, cmd, at, pc>>
    BY <1>9 DEF Replace
  <2>2. cmd \in Commands /\ at \in Prefixes BY <2>1
  <2>3. cmd # "restore" => v \in Repairs BY <2>2
  <2>4. cmd = "restore" => f = "d2d1" BY <2>1, RestoreReplaces
  <2> HIDE DEF v
  <2>5. \A p \in Prefixes, g \in Files :
          dll'[p][g] = IF p = at /\ g = f THEN v ELSE dll[p][g]
    BY <2>1, <2>2
  <2>6. NativeHasPayload' BY <2>1, <2>3, <2>4, <2>5
  <2>7. cmd # "restore" => \A g \in Overridden(cmd) \ todo' : dll'[at][g] \in Repairs
    BY <2>1, <2>2, <2>3, <2>5
  <2> QED BY <2>1, <2>6, <2>7
<1>10. ASSUME NEW f \in Files, Override(f) PROVE RegisterInv'
  <2>1. cmd \in Commands /\ at \in Prefixes /\ f \in Overridden(cmd) \ todo
    BY <1>10 DEF Override
  <2>2. "prefs" \notin Overridden(cmd) BY <2>1, OverriddenNotPrefs
  <2>3. CASE cmd = "restore"
    <3>1. override' = [override EXCEPT ![at] = @ \ {f}] BY <1>10, <2>3 DEF Override
    <3> QED BY <1>10, <2>1, <2>3, <3>1 DEF Override
  <2>4. CASE cmd # "restore"
    <3>1. override' = [override EXCEPT ![at] = @ \cup {f}] BY <1>10, <2>4 DEF Override
    <3>2. dll[at][f] \in Repairs BY <1>10, <2>1, <2>4 DEF Override
    <3> QED BY <1>10, <2>1, <2>2, <3>1, <3>2 DEF Override
  <2> QED BY <2>3, <2>4
<1>11. ASSUME NEW q \in Prefixes, CopyPrefix(q) PROVE RegisterInv'
  <2>1. /\ dll' = [dll EXCEPT ![q] =
               [f \in Files |-> IF dll[Base][f] = Base THEN q ELSE dll[Base][f]]]
        /\ override' = [override EXCEPT ![q] = override[Base]]
        /\ made' = made \cup {q} /\ pc' = "idle"
    BY <1>11 DEF CopyPrefix
  <2>2. \A f \in override[Base] \ {"d2d1"} : f \in Files /\ dll[Base][f] \in Repairs
    OBVIOUS
  <2>3. \A f \in override[Base] \ {"d2d1"} : dll'[q][f] \in Repairs
    BY <2>1, <2>2
  <2> QED BY <2>1, <2>3
<1>12. CASE UNCHANGED vars BY <1>12 DEF vars
<1> QED BY <1>1, <1>2, <1>3, <1>4, <1>5, <1>6, <1>7, <1>8, <1>9, <1>10, <1>11, <1>12
        DEF Next, Step

(* For any prefixes, files and commands: whichever step of a repair was    *)
(* its last, no native override names a component of Wine's own.           *)
THEOREM RepairsNativeHasPayload == Spec => []NativeHasPayload
<1>1. RegisterInv => NativeHasPayload BY DEF RegisterInv
<1> QED BY <1>1, TypeInit, TypeStep, RegisterInit, RegisterStep, PTL DEF Spec

-----------------------------------------------------------------------------
(* What restore-d2d rolls back. *)

Shared == Store("d2d", Base)
Kept == store[Shared]["d2d1"]
Source == taken[Shared]["d2d1"]

(* There is one backup of d2d1 for all prefixes.  It is what the prefix it *)
(* was taken in held first, or cut short; as long as there is none, every  *)
(* prefix has its original in place.  A restore has a backup to work from, *)
(* and puts that in place before it removes the override.                  *)
RollInv ==
  /\ Kept \in {Absent, Torn, orig[Source]["d2d1"]}
  /\ IF Kept = Absent THEN \A p \in made : dll[p]["d2d1"] = orig[p]["d2d1"]
                      ELSE Source \in made
  /\ pc = "copy" /\ cmd = "d2d" =>
       Kept # Absent /\ Source = at /\ dll[at]["d2d1"] \in {orig[at]["d2d1"]} \ {Absent}
  /\ pc # "idle" /\ cmd = "d2d" /\ "d2d1" \notin left => Kept # Absent
  /\ pc # "idle" /\ cmd = "restore" =>
       /\ left = {} /\ Kept # Absent
       /\ "d2d1" \in todo \/ dll[at]["d2d1"] = Kept
       /\ "d2d1" \in regs \/ "d2d1" \notin override[at]

LEMMA RollInit ==
  ASSUME "d2d1" \in Files, Init
  PROVE  RollInv
<1>1. Shared \in Stores
  BY Constants DEF Stores, Repairs, Shared
<1>2. Kept = Absent
  BY <1>1 DEF Init, Kept
<1> QED
  BY <1>2 DEF Init, RollInv, None

(* restore-d2d and experiment-d2d work on that backup, in every prefix. *)
LEMMA D2dStore ==
  ASSUME TypeOK, cmd \in Commands
  PROVE  /\ Shared \in Stores /\ Backup \in Stores /\ at \in made /\ at \in Prefixes
         /\ cmd \in {"d2d", "restore"} => Backup = Shared
         /\ cmd \notin {"d2d", "restore"} => Backup # Shared
<1>1. at \in made /\ at \in Prefixes
  BY DEF TypeOK
<1>2. Shared \in Stores
  BY Constants DEF Stores, Repairs, Shared
<1>3. Backup \in Stores
  BY <1>1, StoreTyped DEF Backup
<1>4. Backup.of = (IF cmd = "restore" THEN "d2d" ELSE cmd) /\ Shared.of = "d2d"
  BY DEF Backup, Store, Shared
<1>5. cmd \in {"d2d", "restore"} => Backup = Shared
  BY DEF Backup, Store, Shared
<1> QED
  BY <1>1, <1>2, <1>3, <1>4, <1>5

LEMMA RollStep ==
  ASSUME "d2d1" \in Files, TypeOK, RollInv, [Next]_vars
  PROVE  RollInv'
<1> USE Constants DEF RollInv
<1>0. /\ made \subseteq Prefixes
      /\ cmd \in Commands =>
           /\ Shared \in Stores /\ Backup \in Stores /\ at \in made /\ at \in Prefixes
           /\ cmd \in {"d2d", "restore"} => Backup = Shared
           /\ cmd \notin {"d2d", "restore"} => Backup # Shared
  BY D2dStore DEF TypeOK
<1>1. ASSUME NEW c \in Commands, NEW p \in Prefixes, Begin(c, p) PROVE RollInv'
  <2>1. /\ cmd' = c /\ pc' = "kill" /\ at' = p
        /\ left' = (IF c = "restore" THEN {} ELSE Replaced(c))
        /\ todo' = Replaced(c) /\ regs' = Overridden(c)
        /\ UNCHANGED <<dll, override, made, orig, store, taken>>
        /\ ~Refused(c, p)
    BY <1>1 DEF Begin, prefixVars, backups
  <2>2. c \in {"d2d", "restore"} => "d2d1" \in Replaced(c) /\ "d2d1" \in Overridden(c)
    BY DEF Replaced, Overridden
  <2>3. c = "restore" => Kept # Absent
    BY <2>1, <2>2 DEF Refused, Store, Kept, Shared
  <2>4. Kept' = Kept /\ Source' = Source
    BY <2>1 DEF Kept, Source
  <2> QED
    BY <2>1, <2>2, <2>3, <2>4
<1>2. ASSUME pc' = "idle", UNCHANGED <<dll, made, orig, store, taken>> PROVE RollInv'
  BY <1>2 DEF Kept, Source
<1>3. CASE Kill
  <2>1. UNCHANGED <<dll, override, made, orig, store, taken>> /\ pc # "idle" /\ pc # "copy"
    BY <1>3 DEF Kill, prefixVars, backups
  <2>2. Kept' = Kept /\ Source' = Source
    BY <2>1 DEF Kept, Source
  <2>3. CASE pc' = "work" /\ UNCHANGED <<cmd, at, file, left, todo, regs>>
    BY <2>1, <2>2, <2>3
  <2>4. CASE pc' = "idle" BY <1>2, <2>1, <2>4
  <2> QED
    BY <1>3, <2>3, <2>4 DEF Kill, Ends, End
<1>4. ASSUME NEW f \in Files, SkipBackUp(f) PROVE RollInv'
  <2>1. /\ UNCHANGED <<dll, override, made, orig, store, taken>> /\ pc = "work" /\ f \in left
    BY <1>4 DEF SkipBackUp, Turn, prefixVars, backups
  <2>2. CASE pc' = "idle" BY <1>2, <2>1, <2>2
  <2>3. CASE /\ store[Backup][f] # Absent \/ (dll[at][f] = Absent /\ ~Strict(cmd))
             /\ left' = left \ {f} /\ UNCHANGED <<cmd, at, pc, todo, regs>>
    <3>1. cmd \in Commands
      BY <2>1 DEF TypeOK
    <3>2. cmd = "d2d" /\ f = "d2d1" => Kept # Absent
      BY <1>0, <2>3, <3>1 DEF Strict, Kept
    <3>3. Kept' = Kept /\ Source' = Source
      BY <2>1 DEF Kept, Source
    <3> QED
      BY <2>1, <2>3, <3>2, <3>3
  <2> QED
    BY <1>4, <2>2, <2>3 DEF SkipBackUp, Ends, End
<1>5. ASSUME NEW f \in Files, CopyBegins(f) PROVE RollInv'
  <2>1. /\ UNCHANGED <<dll, override, made, orig, cmd, at, left, todo, regs>>
        /\ pc = "work" /\ pc' = "copy" /\ f \in left
        /\ store[Backup][f] = Absent /\ dll[at][f] # Absent
        /\ store' = [store EXCEPT ![Backup][f] = Torn]
        /\ taken' = [taken EXCEPT ![Backup][f] = at]
    BY <1>5 DEF CopyBegins, Turn, prefixVars
  <2>2. cmd \in Commands /\ f \in Replaced(cmd)
    BY <2>1 DEF TypeOK
  <2>3. cmd = "d2d" => f = "d2d1"
    BY <2>2 DEF Replaced
  <2>4. CASE cmd = "d2d"
    <3>1. Backup = Shared /\ f = "d2d1" /\ Shared \in Stores /\ at \in made
      BY <1>0, <2>2, <2>3, <2>4
    <3>2. Kept' = Torn /\ Source' = at /\ Kept = Absent
      BY <2>1, <3>1 DEF TypeOK, Kept, Source
    <3>3. dll[at]["d2d1"] = orig[at]["d2d1"] /\ dll[at]["d2d1"] # Absent
      BY <2>1, <3>1, <3>2
    <3> QED
      BY <2>1, <2>4, <3>1, <3>2, <3>3
  <2>5. CASE cmd # "d2d"
    <3>1. cmd # "restore"
      BY <2>1
    <3>2. Kept' = Kept /\ Source' = Source
      BY <1>0, <2>1, <2>2, <2>5, <3>1 DEF TypeOK, Kept, Source
    <3> QED
      BY <2>1, <2>5, <3>1, <3>2
  <2> QED
    BY <2>4, <2>5
<1>6. CASE CopyEnds
  <2>1. /\ UNCHANGED <<dll, override, made, orig, taken, cmd, at, todo, regs>>
        /\ pc = "copy" /\ pc' = "work" /\ left' = left \ {file} /\ file \in left
        /\ store' = [store EXCEPT ![Backup][file] = dll[at][file]]
    BY <1>6 DEF CopyEnds, prefixVars, TypeOK
  <2>2. cmd \in Commands /\ file \in Replaced(cmd) /\ file \in Files
    BY <2>1, ReplacedFiles DEF TypeOK
  <2>3. cmd = "d2d" => file = "d2d1"
    BY <2>2 DEF Replaced
  <2>4. cmd # "restore" /\ Source' = Source
    BY <2>1 DEF Source
  <2>5. CASE cmd = "d2d"
    <3>1. Kept' = dll[at]["d2d1"]
      BY <1>0, <2>1, <2>2, <2>3, <2>5 DEF TypeOK, Kept
    <3> QED
      BY <2>1, <2>4, <2>5, <3>1
  <2>6. CASE cmd # "d2d"
    <3>1. Kept' = Kept
      BY <1>0, <2>1, <2>2, <2>4, <2>6 DEF TypeOK, Kept
    <3> QED
      BY <2>1, <2>4, <2>6, <3>1
  <2> QED
    BY <2>5, <2>6
<1>7. ASSUME NEW f \in Files, Replace(f) PROVE RollInv'
  <2> DEFINE v == IF cmd = "restore" THEN store[Backup][f] ELSE cmd
  <2>1. /\ UNCHANGED <<override, made, orig, store, taken, cmd, at, pc, left, regs>>
        /\ pc = "work" /\ f \in todo \ left /\ todo' = todo \ {f}
        /\ dll' = [dll EXCEPT ![at][f] = v]
    BY <1>7 DEF Replace, backups
  <2>2. cmd \in Commands /\ f \in Replaced(cmd)
    BY <2>1 DEF TypeOK
  <2>3. f = "d2d1" => cmd \in {"d2d", "restore"}
    BY <2>2 DEF Replaced, Repairs
  <2>4. cmd = "restore" /\ f = "d2d1" => v = Kept
    BY <1>0, <2>2 DEF Kept
  <2> HIDE DEF v
  <2>5. \A p \in made : dll'[p]["d2d1"] = IF p = at /\ f = "d2d1" THEN v ELSE dll[p]["d2d1"]
    BY <1>0, <2>1 DEF TypeOK
  <2>6. f = "d2d1" => Kept # Absent
    BY <2>1, <2>3
  <2>7. Kept' = Kept /\ Source' = Source /\ at \in made
    BY <1>0, <2>1, <2>2 DEF Kept, Source
  <2> QED
    BY <2>1, <2>3, <2>4, <2>5, <2>6, <2>7
<1>8. CASE WritePrefs
  <2>1. /\ UNCHANGED <<override, made, orig, store, taken, cmd, at, left, regs>>
        /\ pc \in {"work", "prefs"} /\ pc' \in {"work", "prefs"} /\ todo = {"prefs"}
        /\ todo' \in {todo, {}}
    BY <1>8 DEF WritePrefs, backups
  <2>2. \A p \in Prefixes : dll'[p]["d2d1"] = dll[p]["d2d1"]
    BY <1>8, PrefsOnly
  <2>3. cmd # "restore"
    BY <2>1, RestoreReplaces DEF TypeOK
  <2>4. Kept' = Kept /\ Source' = Source
    BY <2>1 DEF Kept, Source
  <2> QED
    BY <1>0, <2>1, <2>2, <2>3, <2>4
<1>9. ASSUME NEW f \in Files, Override(f) PROVE RollInv'
  <2>1. /\ UNCHANGED <<dll, made, orig, store, taken, cmd, at, pc, left, todo>>
        /\ pc = "work" /\ regs' = regs \ {f}
        /\ override' = [override EXCEPT ![at] = IF cmd = "restore" THEN @ \ {f} ELSE @ \cup {f}]
    BY <1>9 DEF Override, backups
  <2>2. cmd = "restore" => override'[at] = override[at] \ {f}
    BY <1>0, <2>1 DEF TypeOK
  <2>3. Kept' = Kept /\ Source' = Source
    BY <2>1 DEF Kept, Source
  <2> QED
    BY <2>1, <2>2, <2>3
<1>10. CASE Finish \/ Stops
  BY <1>2, <1>10 DEF Finish, Stops, Ends, End, prefixVars, backups
<1>11. ASSUME NEW q \in Prefixes, CopyPrefix(q) PROVE RollInv'
  <2> DEFINE copy == [f \in Files |-> IF dll[Base][f] = Base THEN q ELSE dll[Base][f]]
  <2>1. /\ dll' = [dll EXCEPT ![q] = copy] /\ orig' = [orig EXCEPT ![q] = copy]
        /\ q \notin made /\ made' = made \cup {q} /\ UNCHANGED <<store, taken>>
        /\ pc' = "idle"
    BY <1>11 DEF CopyPrefix, backups
  <2> HIDE DEF copy
  <2>2. \A p \in made : dll'[p] = dll[p] /\ orig'[p] = orig[p]
    BY <2>1 DEF TypeOK
  <2>3. dll'[q] = orig'[q]
    BY <2>1 DEF TypeOK
  <2>4. Kept' = Kept /\ Source' = Source
    BY <2>1 DEF Kept, Source
  <2> QED
    BY <2>1, <2>2, <2>3, <2>4
<1>12. CASE UNCHANGED vars
  <2>1. Kept' = Kept /\ Source' = Source
    BY <1>12 DEF vars, Kept, Source
  <2> QED
    BY <1>12, <2>1 DEF vars
<1> QED
  BY <1>1, <1>3, <1>4, <1>5, <1>6, <1>7, <1>8, <1>9, <1>10, <1>11, <1>12 DEF Next, Step

(* restore-d2d, once done, has removed the native override of its prefix;  *)
(* and if the backup was taken in this prefix, the original component is   *)
(* in place, unless that copy was cut short.  Whatever was repaired,       *)
(* restored and killed before, in this prefix and others.                  *)
THEOREM RepairsRestoreRollsBack == Spec => []RestoreRollsBack
<1>1. CASE "d2d1" \notin Files
  <2>1. RestoreRollsBack
    BY <1>1 DEF RestoreRollsBack, Replaced
  <2> QED
    BY <2>1, PTL
<1>2. CASE "d2d1" \in Files
  <2>1. Init => TypeOK /\ RollInv
    BY <1>2, TypeInit, RollInit
  <2>2. TypeOK /\ RollInv /\ [Next]_vars => (TypeOK /\ RollInv)'
    BY <1>2, TypeStep, RollStep
  <2>3. TypeOK /\ RollInv => RestoreRollsBack
    <3> SUFFICES ASSUME TypeOK, RollInv, Done("restore"), NEW f \in Replaced("restore")
                 PROVE  /\ taken[Backup][f] = at => dll[at][f] \in {orig[at][f], Torn}
                        /\ f \notin override[at]
      BY DEF RestoreRollsBack
    <3>1. f = "d2d1"
      BY RestoreReplaces
    <3>2. pc # "idle" /\ cmd = "restore" /\ todo = {} /\ regs = {}
      BY DEF Done
    <3>3. Backup = Shared
      BY <3>2 DEF Backup, Store, Shared
    <3> QED
      BY <3>1, <3>2, <3>3 DEF RollInv, Kept, Source
  <2> QED
    BY <2>1, <2>2, <2>3, PTL DEF Spec
<1> QED
  BY <1>1, <1>2
=============================================================================
