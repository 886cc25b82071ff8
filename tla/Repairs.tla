------------------------------ MODULE Repairs ------------------------------
(***************************************************************************)
(* The commands that replace Windows components of a prefix: repair-dxvk,  *)
(* experiment-d2d and restore-d2d, repair-d3d12, repair-performance.  Each *)
(* ends the prefix's server, keeps the first original of every file it     *)
(* replaces in a backup directory, renames the new file over the old one   *)
(* and selects it in the registry.  Commands run one at a time; each can   *)
(* be killed or raise between any two of its steps.  Lightroom can start   *)
(* and end between any two: a command looks for it at most once, before it *)
(* ends the server, and nothing keeps it away afterwards.  So the module   *)
(* assumes nothing of what runs in a prefix.                               *)
(***************************************************************************)
EXTENDS Naturals

CONSTANTS
  Prefixes,  \* the prefixes of the runners; a member also stands for the
             \* component that Wine itself put into that prefix
  Base,      \* DATA/prefix, of which the others are copies
  Files,     \* the components that are represented
  Commands,  \* the commands that users issue
  Absent,    \* there is no such file
  Torn       \* the file was opened for writing and not finished

Repairs == {"dxvk", "d2d", "d3d12", "performance"}
None == "none"

ASSUME RepairsAssumption ==
  /\ Base \in Prefixes
  /\ Files \subseteq {"d3d11", "dxgi", "d2d1", "d3d12", "d3d12core", "shcore", "prefs"}
  /\ Commands \subseteq Repairs \cup {"restore"}
  /\ Absent # Torn
  /\ Prefixes \cap (Repairs \cup {Absent, Torn}) = {}
  /\ {Absent, Torn} \cap Repairs = {}

VARIABLES
  dll,       \* the components of each prefix
  override,  \* the components the registry declares native
  store,     \* the backup directories
  taken,     \* the prefix in which each backup was begun (history)
  made,      \* the prefixes that exist
  orig,      \* what each prefix held when it was made (history)
  cmd, at,   \* the running command and its prefix
  pc,        \* where it is
  file,      \* the file it is copying
  left,      \* files it has yet to back up
  todo,      \* files it has yet to replace
  regs       \* registry values it has yet to write

vars == <<dll, override, store, taken, made, orig, cmd, at, pc, file, left,
          todo, regs>>
prefixVars == <<dll, override, made, orig>>
backups == <<store, taken>>

(* What a file can hold: Wine's own component, a repair's, nothing or part *)
(* of one.                                                                 *)
Content == Prefixes \cup Repairs \cup {Absent, Torn}

Replaced(c) == Files \cap
  CASE c = "dxvk" -> {"d3d11", "dxgi"}
    [] c \in {"d2d", "restore"} -> {"d2d1"}
    [] c = "d3d12" -> {"d3d12", "d3d12core"}
    [] OTHER -> {"d3d11", "dxgi", "d3d12", "d3d12core", "shcore", "prefs"}

Overridden(c) == IF c = "performance" THEN Files \cap {"shcore"} ELSE Replaced(c)

(* repair-d3d12 and repair-performance keep one directory per prefix; the  *)
(* other two keep theirs under DATA/patches for all prefixes.              *)
Store(c, p) == [of |-> IF c = "restore" THEN "d2d" ELSE c,
                prefix |-> IF c \in {"d3d12", "performance"} THEN p ELSE Base]

Stores == {Store(c, p) : c \in Repairs, p \in Prefixes}
Backup == Store(cmd, at)

TypeOK ==
  /\ dll \in [Prefixes -> [Files -> Content]]
  /\ override \in [Prefixes -> SUBSET Files]
  /\ store \in [Stores -> [Files -> Content]]
  /\ taken \in [Stores -> [Files -> Prefixes]]
  /\ Base \in made /\ made \subseteq Prefixes
  /\ orig \in [Prefixes -> [Files -> Content]]
  /\ cmd \in Commands \cup {None} /\ at \in made
  /\ pc \in {"idle", "kill", "work", "copy", "prefs"}
  /\ left \subseteq Replaced(cmd) /\ todo \subseteq Replaced(cmd)
  /\ regs \subseteq Overridden(cmd)
  /\ file \in Files \cup {None}
  /\ pc = "copy" => file \in left
  /\ pc = "idle" => left = {} /\ todo = {} /\ regs = {}
  /\ pc # "idle" => cmd \in Commands

(* A component that Wine does not provide can be missing at first. *)
Init ==
  /\ \E f \in Files \cup {None} :
       orig = [p \in Prefixes |-> [g \in Files |->
                 IF g = f /\ f # "prefs" THEN Absent ELSE p]]
  /\ dll = orig
  /\ override = [p \in Prefixes |-> {}]
  /\ store = [s \in Stores |-> [f \in Files |-> Absent]]
  /\ taken = [s \in Stores |-> [f \in Files |-> Base]]
  /\ made = {Base}
  /\ cmd = None /\ at = Base
  /\ pc = "idle" /\ file = None
  /\ left = {} /\ todo = {} /\ regs = {}

-----------------------------------------------------------------------------
(* One command. *)

Ends == pc' = "idle" /\ cmd' = None /\ at' = Base /\ file' = None

\* Mutant: what a command had left to do outlives it.
EndKeepsWork == Ends /\ UNCHANGED <<left, todo, regs>>

End == Ends /\ left' = {} /\ todo' = {} /\ regs' = {}

(* restore-d2d needs a backup; repair-performance preferences it can edit. *)
(* It also refuses when it finds Lightroom running, which may be so or not *)
(* at any time.  A command that is refused has changed nothing.            *)
Refused(c, p) ==
  \/ c = "restore" /\ \E f \in Replaced(c) : store[Store(c, p)][f] = Absent
  \/ c = "performance" /\ "prefs" \in Files /\ dll[p]["prefs"] = Torn

Begin(c, p) ==
  /\ pc = "idle" /\ p \in made /\ ~Refused(c, p)
  /\ cmd' = c /\ at' = p /\ pc' = "kill"
  /\ left' = (IF c = "restore" THEN {} ELSE Replaced(c))
  /\ todo' = Replaced(c) /\ regs' = Overridden(c)
  /\ UNCHANGED <<prefixVars, backups, file>>

(* wineserver -k exits with 1 if the prefix has no server; three of the    *)
(* commands take that for an error.                                        *)
Strict(c) == c \in {"dxvk", "d2d", "restore"}

Kill ==
  /\ pc = "kill"
  /\ \/ pc' = "work" /\ UNCHANGED <<cmd, at, file, left, todo, regs>>
     \/ Strict(cmd) /\ End
  /\ UNCHANGED <<prefixVars, backups>>

(* All but repair-performance finish one file before the next one.         *)
Turn(f) ==
  /\ pc = "work" /\ f \in left
  /\ cmd # "performance" => left = todo
  /\ cmd = "d3d12" => left = regs

(* `if not backup.exists()': the first copy is the one that is kept.  A    *)
(* missing component is passed over or makes copy2 raise.                  *)
SkipBackUp(f) ==
  /\ Turn(f)
  /\ \/ /\ \/ store[Backup][f] # Absent
           \/ dll[at][f] = Absent /\ ~Strict(cmd)
        /\ left' = left \ {f}
        /\ UNCHANGED <<cmd, at, pc, file, todo, regs>>
     \/ /\ store[Backup][f] = Absent /\ dll[at][f] = Absent /\ Strict(cmd)
        /\ End
  /\ UNCHANGED <<prefixVars, backups>>

\* Mutant: every repair backs up what it finds.
CopyBeginsAlways(f) ==
  /\ Turn(f) /\ dll[at][f] # Absent
  /\ store' = [store EXCEPT ![Backup][f] = Torn]
  /\ taken' = [taken EXCEPT ![Backup][f] = at]
  /\ file' = f /\ pc' = "copy"
  /\ UNCHANGED <<prefixVars, cmd, at, left, todo, regs>>

CopyBegins(f) ==
  /\ Turn(f) /\ store[Backup][f] = Absent /\ dll[at][f] # Absent
  /\ store' = [store EXCEPT ![Backup][f] = Torn]
  /\ taken' = [taken EXCEPT ![Backup][f] = at]
  /\ file' = f /\ pc' = "copy"
  /\ UNCHANGED <<prefixVars, cmd, at, left, todo, regs>>

CopyEnds ==
  /\ pc = "copy"
  /\ store' = [store EXCEPT ![Backup][file] = dll[at][file]]
  /\ left' = left \ {file} /\ pc' = "work" /\ file' = None
  /\ UNCHANGED <<prefixVars, taken, cmd, at, todo, regs>>

\* Mutant: a file is replaced before it is backed up.
ReplaceUnsaved(f) ==
  /\ pc = "work" /\ f \in todo /\ f # "prefs"
  /\ dll' = [dll EXCEPT ![at][f] = IF cmd = "restore" THEN store[Backup][f] ELSE cmd]
  /\ todo' = todo \ {f}
  /\ UNCHANGED <<override, backups, made, orig, cmd, at, pc, file, left, regs>>

(* The new file is written beside the old one and renamed over it.         *)
Replace(f) ==
  /\ pc = "work" /\ f \in todo \ left /\ f # "prefs"
  /\ cmd = "performance" => left = {}
  /\ dll' = [dll EXCEPT ![at][f] = IF cmd = "restore" THEN store[Backup][f] ELSE cmd]
  /\ todo' = todo \ {f}
  /\ UNCHANGED <<override, backups, made, orig, cmd, at, pc, file, left, regs>>

(* The preferences are written in place, after all components. *)
WritePrefs ==
  /\ todo = {"prefs"} /\ left = {}
  /\ \/ /\ pc = "work" /\ pc' = "prefs"
        /\ dll' = [dll EXCEPT ![at]["prefs"] = Torn]
        /\ UNCHANGED todo
     \/ /\ pc = "prefs" /\ pc' = "work"
        /\ dll' = [dll EXCEPT ![at]["prefs"] = "performance"]
        /\ todo' = {}
  /\ UNCHANGED <<override, backups, made, orig, cmd, at, file, left, regs>>

\* Mutant: the registry is written before the file is replaced.
OverrideEarly(f) ==
  /\ pc = "work" /\ f \in regs
  /\ override' = [override EXCEPT ![at] = IF cmd = "restore" THEN @ \ {f} ELSE @ \cup {f}]
  /\ regs' = regs \ {f}
  /\ UNCHANGED <<dll, backups, made, orig, cmd, at, pc, file, left, todo>>

\* Mutant: restoring declares the component native like the others.
OverrideKeepsNative(f) ==
  /\ pc = "work" /\ f \in regs \ todo
  /\ cmd # "d3d12" => todo = {}
  /\ override' = [override EXCEPT ![at] = @ \cup {f}]
  /\ regs' = regs \ {f}
  /\ UNCHANGED <<dll, backups, made, orig, cmd, at, pc, file, left, todo>>

(* wine reg add.  repair-d3d12 does it after each file, the others at the  *)
(* end.                                                                    *)
Override(f) ==
  /\ pc = "work" /\ f \in regs \ todo
  /\ cmd # "d3d12" => todo = {}
  /\ override' = [override EXCEPT ![at] = IF cmd = "restore" THEN @ \ {f} ELSE @ \cup {f}]
  /\ regs' = regs \ {f}
  /\ UNCHANGED <<dll, backups, made, orig, cmd, at, pc, file, left, todo>>

(* The command prints its result. *)
Done(c) == pc = "work" /\ cmd = c /\ left = {} /\ todo = {} /\ regs = {}

Finish ==
  /\ Done(cmd)
  /\ End
  /\ UNCHANGED <<prefixVars, backups>>

(* The command is killed, or a copy, a write or a Wine call raises. *)
Stops ==
  /\ pc # "idle"
  /\ End
  /\ UNCHANGED <<prefixVars, backups>>

-----------------------------------------------------------------------------
(* Between commands. *)

(* stage-staging, stage-proton: cp -a of a prefix that does not exist yet. *)
(* Its runner then updates the components that are Wine's own.             *)
CopyPrefix(q) ==
  /\ pc = "idle" /\ q \notin made
  /\ made' = made \cup {q}
  /\ LET copy == [f \in Files |-> IF dll[Base][f] = Base THEN q ELSE dll[Base][f]] IN
       dll' = [dll EXCEPT ![q] = copy] /\ orig' = [orig EXCEPT ![q] = copy]
  /\ override' = [override EXCEPT ![q] = override[Base]]
  /\ UNCHANGED <<backups, cmd, at, pc, file, left, todo, regs>>

Step ==
  \/ Kill \/ CopyEnds \/ WritePrefs \/ Finish \/ Stops
  \/ \E f \in Files : SkipBackUp(f) \/ CopyBegins(f) \/ Replace(f) \/ Override(f)

Next ==
  \/ \E c \in Commands, p \in Prefixes : Begin(c, p)
  \/ Step
  \/ \E p \in Prefixes : CopyPrefix(p)

Spec == Init /\ [][Next]_vars

-----------------------------------------------------------------------------
(* Properties. *)

(* A backup of f that a repair in p would find was taken in another prefix. *)
TakenElsewhere(p, f) ==
  \E c \in Repairs : store[Store(c, p)][f] # Absent /\ taken[Store(c, p)][f] # p

(* After any number of repairs in any order and any prefixes, each killed  *)
(* anywhere, what a prefix held before the first of them is in a backup    *)
(* directory, unless the copy into it was cut short, or the two directories *)
(* that all prefixes share had been filled from another prefix.            *)
OriginalRecoverable ==
  \A p \in made, f \in Files :
    dll[p][f] # orig[p][f] /\ orig[p][f] # Absent =>
      \/ \E c \in Repairs : store[Store(c, p)][f] \in {orig[p][f], Torn}
      \/ TakenElsewhere(p, f)

(* "Re-running the repair retains the first DLL backup rather than         *)
(* replacing it": no step changes a finished backup.                       *)
BackupSticks ==
  [][\A s \in Stores, f \in Files :
       store[s][f] \notin {Absent, Torn} => store'[s][f] = store[s][f]]_vars

(* The registry never declares native a component that is still Wine's     *)
(* own, whichever step of a repair was its last.  (restore-d2d, stopped    *)
(* before its last step, leaves just that for d2d1.)                       *)
NativeHasPayload ==
  \A p \in made : \A f \in override[p] \ {"d2d1"} : dll[p][f] \in Repairs

(* "restore-d2d rolls this experiment back": when it is done, component    *)
(* and registry are as before, if the backup was taken in this prefix and  *)
(* was not cut short.                                                      *)
RestoreRollsBack ==
  Done("restore") =>
    \A f \in Replaced("restore") :
      /\ taken[Backup][f] = at => dll[at][f] \in {orig[at][f], Torn}
      /\ f \notin override[at]

(* "Original DLLs retained in ..", printed when repair-d3d12 is done: the  *)
(* backups it leaves are whole files.                                      *)
RetainedWhole ==
  Done("d3d12") => \A f \in Replaced(cmd) : store[Backup][f] # Torn
=============================================================================
