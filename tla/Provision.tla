------------------------------ MODULE Provision ------------------------------
(***************************************************************************)
(* How a prefix comes to be: prepare (bootstrap, wineboot, the winetricks  *)
(* verbs, repair_vcrun, repair_browser), stage-lightroom, and the commands *)
(* that copy DATA/prefix for another runner.  What has been done is known  *)
(* from files that mark it: bin/wine, system.reg, .prepared-<verb>,        *)
(* prepared.json, lightroom.exe, the destination of a copy.  A command can *)
(* be killed, or raise, between any two steps, and is then issued again.   *)
(***************************************************************************)
EXTENDS FiniteSets

CONSTANTS
  Prefixes,    \* the prefixes of the runners
  Base,        \* DATA/prefix, of which the others are copies
  Preparable,  \* the prefixes that users prepare
  Verbs,       \* corefonts, msxml6, gdiplus, atmlib, dxvk
  Browser      \* Gecko

Arches == {"x86", "x64"}
Deps == Verbs \cup Arches \cup {"overrides", Browser}
None == "none"

ASSUME ProvisionAssumption ==
  /\ Base \in Prefixes /\ Preparable \subseteq Prefixes
  /\ None \notin Prefixes \cup Verbs
  /\ Browser \notin Verbs
  /\ (Verbs \cup {Browser}) \cap (Arches \cup {"overrides"}) = {}

VARIABLES
  wine,      \* how much of the runtime archive is extracted
  home,      \* what is there of each prefix
  deps,      \* the dependencies installed in each prefix
  app,       \* what is there of Lightroom in each prefix
  torn,      \* whose msvcp140.dll was opened for writing and not finished
  markers,   \* the files DATA/.prepared-<verb>
  prepared,  \* does DATA/prepared.json exist?
  pc, at,    \* the running command and its prefix
  rest,      \* the verbs that prepare has yet to look at
  verb,      \* the verb that winetricks has installed and prepare not marked
  arch,      \* the runtime that repair_vcrun is at
  alone,     \* is a repair run by itself, not by prepare?
  staged,    \* the last copy that a command announced, or None
  reopened   \* the DLLs of DATA/prefix written since prepared.json (history)

command == <<pc, at, rest, verb, arch, alone, staged>>
disk == <<wine, home, deps, app, torn, markers, prepared, reopened>>
vars == <<disk, command>>

\* part: the beginning; runs: bin/wine is there; whole: everything is.
Amounts == {"absent", "part", "runs", "whole"}
\* begun: system.reg is there, but wineboot, or the copy, was not finished.
Homes == {"absent", "part", "begun", "whole"}
Labels == {"idle", "extract", "unmark", "boot", "init", "verbs", "mark", "cabinet", "dll",
           "install", "overrides", "browser", "record", "unpack", "rename", "cp",
           "announce"}

HasSystemReg(p) == home[p] \in {"begun", "whole"}

TypeOK ==
  /\ wine \in Amounts
  /\ home \in [Prefixes -> Homes]
  /\ deps \in [Prefixes -> SUBSET Deps]
  /\ app \in [Prefixes -> {"absent", "part", "whole"}]
  /\ torn \in [Prefixes -> SUBSET Arches] /\ reopened \subseteq Arches
  /\ markers \subseteq Verbs
  /\ prepared \in BOOLEAN
  /\ pc \in Labels /\ at \in Prefixes
  /\ rest \subseteq Verbs
  /\ verb \in Verbs \cup {None}
  /\ arch \in Arches /\ alone \in BOOLEAN
  /\ staged \in Prefixes \cup {None}
  /\ pc = "mark" => verb \in rest

Init ==
  /\ wine = "absent"
  /\ home = [p \in Prefixes |-> "absent"]
  /\ deps = [p \in Prefixes |-> {}]
  /\ app = [p \in Prefixes |-> "absent"]
  /\ torn = [p \in Prefixes |-> {}] /\ reopened = {}
  /\ markers = {} /\ prepared = FALSE
  /\ pc = "idle" /\ at = Base /\ rest = {} /\ verb = None /\ staged = None
  /\ arch = "x86" /\ alone = FALSE

-----------------------------------------------------------------------------
(* prepare. *)

Prepare(p) ==
  /\ pc = "idle" /\ p \in Preparable
  /\ at' = p /\ staged' = None /\ alone' = FALSE
  /\ pc' = (IF wine \in {"runs", "whole"} THEN "unmark" ELSE "extract")
  /\ UNCHANGED <<disk, rest, verb, arch>>

(* bootstrap(): extractall writes member after member over what is there.  *)
Extract ==
  /\ pc = "extract"
  /\ wine' = CASE wine = "absent" -> "part" [] wine = "part" -> "runs" [] OTHER -> "whole"
  /\ pc' = IF wine = "runs" THEN "unmark" ELSE "extract"
  /\ UNCHANGED <<home, deps, app, torn, markers, prepared, reopened>>
  /\ UNCHANGED <<at, rest, verb, arch, alone, staged>>

Unmark ==
  /\ pc = "unmark"
  /\ prepared' = FALSE /\ pc' = "boot"
  /\ home' = [home EXCEPT ![at] = IF @ = "absent" THEN "part" ELSE @]
  /\ UNCHANGED <<wine, deps, app, torn, markers, reopened>>
  /\ UNCHANGED <<at, rest, verb, arch, alone, staged>>

(* wineboot --init, unless there is a system.reg: a wineboot that was cut  *)
(* short after it had written one is not repeated.                         *)
Boot ==
  /\ pc = "boot"
  /\ IF HasSystemReg(at)
       THEN pc' = "verbs" /\ rest' = Verbs /\ UNCHANGED home
       ELSE /\ pc' = "init" /\ UNCHANGED rest
            /\ home' \in {home, [home EXCEPT ![at] = "begun"]}
  /\ UNCHANGED <<wine, deps, app, torn, markers, prepared, reopened>>
  /\ UNCHANGED <<at, verb, arch, alone, staged>>

BootEnds ==
  /\ pc = "init"
  /\ home' = [home EXCEPT ![at] = "whole"]
  /\ pc' = "verbs" /\ rest' = Verbs
  /\ UNCHANGED <<wine, deps, app, torn, markers, prepared, reopened>>
  /\ UNCHANGED <<at, verb, arch, alone, staged>>

(* A verb that is marked is not installed again. *)
SkipVerb(v) ==
  /\ pc = "verbs" /\ v \in rest /\ v \in markers
  /\ rest' = rest \ {v}
  /\ UNCHANGED <<disk, pc, at, verb, arch, alone, staged>>

\* Mutant: the marker is written before winetricks has run.
InstallVerbMarked(v) ==
  /\ pc = "verbs" /\ v \in rest \ markers
  /\ markers' = markers \cup {v}
  /\ verb' = v /\ pc' = "mark"
  /\ UNCHANGED <<wine, home, deps, app, torn, prepared, reopened>>
  /\ UNCHANGED <<at, rest, arch, alone, staged>>

InstallVerb(v) ==
  /\ pc = "verbs" /\ v \in rest \ markers
  /\ deps' = [deps EXCEPT ![at] = @ \cup {v}]
  /\ verb' = v /\ pc' = "mark"
  /\ UNCHANGED <<wine, home, app, torn, markers, prepared, reopened>>
  /\ UNCHANGED <<at, rest, arch, alone, staged>>

\* Mutant: the verb is not cleared when it is marked.
MarkVerbAgain ==
  /\ pc = "mark"
  /\ markers' = markers \cup {verb}
  /\ rest' = rest \ {verb} /\ pc' \in {"verbs", "mark"}
  /\ UNCHANGED <<wine, home, deps, app, torn, prepared, reopened>>
  /\ UNCHANGED <<at, verb, arch, alone, staged>>

MarkVerb ==
  /\ pc = "mark"
  /\ markers' = markers \cup {verb}
  /\ rest' = rest \ {verb} /\ verb' = None /\ pc' = "verbs"
  /\ UNCHANGED <<wine, home, deps, app, torn, prepared, reopened>>
  /\ UNCHANGED <<at, arch, alone, staged>>

(* winetricks win11 ends the loop. *)
VerbsEnd ==
  /\ pc = "verbs" /\ rest = {}
  /\ pc' = "cabinet" /\ arch' = "x86"
  /\ UNCHANGED <<disk, at, rest, verb, alone, staged>>

(* repair_vcrun: for either architecture msvcp140.dll is extracted over    *)
(* the one that is there, in place; then the installer runs ...            *)
WriteDll ==
  /\ pc = "cabinet" /\ pc' = "dll"
  /\ torn' = [torn EXCEPT ![at] = @ \cup {arch}]
  /\ reopened' = IF at = Base THEN reopened \cup {arch} ELSE reopened
  /\ UNCHANGED <<wine, home, deps, app, markers, prepared>>
  /\ UNCHANGED <<at, rest, verb, arch, alone, staged>>

DllWritten ==
  /\ pc = "dll" /\ pc' = "install"
  /\ torn' = [torn EXCEPT ![at] = @ \ {arch}]
  /\ UNCHANGED <<wine, home, deps, app, markers, prepared, reopened>>
  /\ UNCHANGED <<at, rest, verb, arch, alone, staged>>

InstallVcrun ==
  /\ pc = "install"
  /\ deps' = [deps EXCEPT ![at] = @ \cup {arch}]
  /\ pc' = (IF arch = "x86" THEN "cabinet" ELSE "overrides") /\ arch' = "x64"
  /\ UNCHANGED <<wine, home, app, torn, markers, prepared, reopened>>
  /\ UNCHANGED <<at, rest, verb, alone, staged>>

(* ... and at last the registry prefers all of its DLLs. *)
OverrideVcrun ==
  /\ pc = "overrides"
  /\ deps' = [deps EXCEPT ![at] = @ \cup {"overrides"}]
  /\ pc' = IF alone THEN "idle" ELSE "browser"
  /\ UNCHANGED <<wine, home, app, torn, markers, prepared, reopened>>
  /\ UNCHANGED <<at, rest, verb, arch, alone, staged>>

RepairBrowser ==
  /\ pc = "browser"
  /\ deps' = [deps EXCEPT ![at] = @ \cup {Browser}]
  /\ pc' = IF alone THEN "idle" ELSE "record"
  /\ UNCHANGED <<wine, home, app, torn, markers, prepared, reopened>>
  /\ UNCHANGED <<at, rest, verb, arch, alone, staged>>

Record ==
  /\ pc = "record"
  /\ prepared' = TRUE /\ reopened' = {} /\ pc' = "idle"
  /\ UNCHANGED <<wine, home, deps, app, torn, markers>>
  /\ UNCHANGED <<at, rest, verb, arch, alone, staged>>

(* repair-vcrun and repair-browser, in any prefix that has a system.reg.   *)
(* Neither looks at prepared.json or removes it.                           *)
RepairAlone(p) ==
  /\ pc = "idle" /\ wine \in {"runs", "whole"} /\ HasSystemReg(p)
  /\ pc' \in {"cabinet", "browser"}
  /\ at' = p /\ arch' = "x86" /\ alone' = TRUE /\ staged' = None
  /\ UNCHANGED <<disk, rest, verb>>

-----------------------------------------------------------------------------
(* stage-lightroom. *)

(* prepared.json is asked for, not the prefix. *)
StageLightroom(p) ==
  /\ pc = "idle" /\ prepared /\ app[p] = "absent"
  /\ at' = p /\ pc' = "unpack" /\ staged' = None
  /\ UNCHANGED <<disk, rest, verb, arch, alone>>

\* Mutant: the payload is unpacked in place.
UnpackInPlace ==
  /\ pc = "unpack" /\ pc' = "rename"
  /\ home' = [home EXCEPT ![at] = IF @ = "absent" THEN "part" ELSE @]
  /\ app' = [app EXCEPT ![at] = "part"]
  /\ UNCHANGED <<wine, deps, torn, markers, prepared, reopened>>
  /\ UNCHANGED <<at, rest, verb, arch, alone, staged>>

(* The payload is unpacked into a temporary directory inside the prefix,   *)
(* whose directories are made if they are missing ...                      *)
Unpack ==
  /\ pc = "unpack" /\ pc' = "rename"
  /\ home' = [home EXCEPT ![at] = IF @ = "absent" THEN "part" ELSE @]
  /\ UNCHANGED <<wine, deps, app, torn, markers, prepared, reopened>>
  /\ UNCHANGED <<at, rest, verb, arch, alone, staged>>

(* ... and renamed when it is complete. *)
RenameLightroom ==
  /\ pc = "rename"
  /\ app' = [app EXCEPT ![at] = "whole"]
  /\ pc' = "idle"
  /\ UNCHANGED <<wine, home, deps, torn, markers, prepared, reopened>>
  /\ UNCHANGED <<at, rest, verb, arch, alone, staged>>

-----------------------------------------------------------------------------
(* stage-staging, stage-proton. *)

(* `if not destination.exists()': the copy is made once. *)
StageCopy(q) ==
  /\ pc = "idle" /\ q # Base
  /\ home[q] = "absent" => home[Base] # "absent"
  /\ at' = q /\ staged' = None
  /\ pc' = IF home[q] = "absent" THEN "cp" ELSE "announce"
  /\ UNCHANGED <<disk, rest, verb, arch, alone>>

(* cp -a creates the destination and then fills it. *)
CopyPrefix ==
  /\ pc = "cp"
  /\ IF home[at] = "absent"
       THEN /\ \E h \in {"part"} \cup (IF HasSystemReg(Base) THEN {"begun"} ELSE {}) :
                 home' = [home EXCEPT ![at] = h]
            /\ app' \in {app, [app EXCEPT ![at] = IF app[Base] = "whole" THEN "part" ELSE @]}
            /\ pc' = "cp" /\ UNCHANGED <<deps, torn>>
       ELSE /\ home' = [home EXCEPT ![at] = home[Base]]
            /\ deps' = [deps EXCEPT ![at] = deps[Base]]
            /\ torn' = [torn EXCEPT ![at] = torn[Base]]
            /\ app' = [app EXCEPT ![at] = app[Base]]
            /\ pc' = "announce"
  /\ UNCHANGED <<wine, markers, prepared, reopened>>
  /\ UNCHANGED <<at, rest, verb, arch, alone, staged>>

Announce ==
  /\ pc = "announce"
  /\ staged' = at /\ pc' = "idle"
  /\ UNCHANGED <<disk, at, rest, verb, arch, alone>>

-----------------------------------------------------------------------------
(* The command is killed or one of its calls raises. *)
Stops ==
  /\ pc # "idle"
  /\ pc' = "idle" /\ rest' = {} /\ verb' = None
  /\ UNCHANGED <<disk, at, arch, alone, staged>>

Next ==
  \/ \E p \in Prefixes : Prepare(p) \/ RepairAlone(p) \/ StageLightroom(p) \/ StageCopy(p)
  \/ Extract \/ Unmark \/ Boot \/ BootEnds \/ MarkVerb \/ VerbsEnd
  \/ WriteDll \/ DllWritten \/ InstallVcrun \/ OverrideVcrun \/ RepairBrowser \/ Record
  \/ Unpack \/ RenameLightroom \/ CopyPrefix \/ Announce
  \/ \E v \in Verbs : SkipVerb(v) \/ InstallVerb(v)
  \/ Stops

Spec == Init /\ [][Next]_vars

-----------------------------------------------------------------------------
(* Properties. *)

(* The verbs' markers and prepared.json can be believed of the             *)
(* dependencies of DATA/prefix, if no other prefix is prepared: wherever   *)
(* an earlier prepare was killed and whatever it then skipped, they are    *)
(* all there, and so is a system.reg.  A DLL can be torn only if a repair  *)
(* that was issued after prepared.json opened it.                          *)
(* It does not follow that wineboot ever finished: home may be "begun".    *)
PreparedComplete ==
  /\ markers \subseteq deps[Base]
  /\ prepared => HasSystemReg(Base) /\ deps[Base] = Deps /\ torn[Base] \subseteq reopened

(* Lightroom is there as a whole or not at all, in DATA/prefix and in      *)
(* every complete copy of it.                                              *)
AppWhole ==
  /\ app[Base] # "part"
  /\ \A p \in Prefixes : home[p] = "whole" => app[p] # "part"
=============================================================================
