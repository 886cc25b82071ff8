------------------------------- MODULE Launch -------------------------------
(***************************************************************************)
(* Invocations of bin/omarchy-lightroom-cc for the custom runner           *)
(* (--runner lightroom-omarchy-proton) over one Wine prefix: selection of  *)
(* the runtime from the saved profile or the command line, the guard that  *)
(* scans /proc for another runtime, the Wine helpers run before Lightroom, *)
(* Lightroom itself, `stop', and the commands that run Wine without the    *)
(* guard.  The processes of the prefix (a umu-run that has yet to bring up *)
(* Wine, Wine clients, their wineserver, what Lightroom leaves behind) are *)
(* the environment the launcher shares with every other invocation.        *)
(***************************************************************************)
EXTENDS Naturals, FiniteSets

CONSTANTS
  Launchers,    \* slots for live invocations of the script
  Runtimes,     \* the runtimes staged under DATA/runtimes
  Stable,       \* the runtime the stable profile names
  Performance,  \* the runtime the performance profile names
  NoRuntime,    \* RUNTIME before main() has selected one
  NoOwner,      \* owner of a process no launcher waits for
  Commands,     \* the commands that users issue
  Selections,   \* what they select: "saved", a --profile, or a --runtime
  Overlap       \* may a launch begin while another is still starting?

LaunchCommands == {"run", "cc"}                \* launch(LR, ..), launch(CC, ..)
UnguardedCommands == {"ui"}                    \* wine(..) without the guard
AllCommands == LaunchCommands \cup UnguardedCommands
                 \cup {"stop", "use-stable", "use-performance"}

ASSUME LaunchAssumption ==
  /\ Stable \in Runtimes /\ Performance \in Runtimes
  /\ NoRuntime \notin Runtimes
  /\ NoOwner \notin Launchers
  /\ "unattended" \notin Runtimes \cup {NoRuntime}
  /\ Commands \subseteq AllCommands
  /\ Selections \subseteq {"saved", "stable", "performance"} \cup Runtimes
  /\ Overlap \in BOOLEAN

VARIABLES
  profile,  \* launch-profile.json: absent, a profile's name, or not valid
  genuine,  \* do the performance components match the pinned digests?
  task,     \* the command and selection of each invocation
  pc,       \* where each invocation is
  rt,       \* RUNTIME of each invocation
  todo,     \* processes of the /proc listing the guard has yet to look at
  clash,    \* has the guard met another runtime?
  procs,    \* live processes of the prefix
  booting,  \* the clients that are still umu-run: no Wine is mapped yet
  astray    \* history: has a launcher been killed while what it started
            \* was booting, and has the prefix not been quiet since?

vars == <<profile, genuine, task, pc, rt, todo, clash, procs, booting, astray>>

Prefix == <<procs, booting, astray>>

ProfileStates == {"absent", "stable", "performance", "invalid"}

\* The labels of launch() between its entry and the start of the program.
Guarding == {"list", "scan"}
Passed == {"scale", "scaleWait", "export", "exportWait", "import", "importWait",
           "start"}
Labels == {"idle", "select", "app", "stop", "tool", "toolWait", "save", "replace"}
            \cup Guarding \cup Passed

NoTask == [cmd |-> "none", sel |-> "saved"]
Task == [cmd : Commands \cup {"none"}, sel : Selections \cup {"saved"}]

Kinds == {"server", "helper", "app", "agent"}
Process == [kind : Kinds, rt : Runtimes, owner : Launchers \cup {NoOwner}]

Server(r) == [kind |-> "server", rt |-> r, owner |-> NoOwner]
Agent(r) == [kind |-> "agent", rt |-> r, owner |-> NoOwner]
Client(kind, l) == [kind |-> kind, rt |-> rt[l], owner |-> l]

Servers == {p \in procs : p.kind = "server"}
Clients == procs \ Servers
OwnedBy(l) == {p \in procs : p.owner = l}
BootingOf(l) == {p \in booting : p.owner = l}

TypeOK ==
  /\ profile \in ProfileStates
  /\ genuine \in BOOLEAN
  /\ task \in [Launchers -> Task]
  /\ pc \in [Launchers -> Labels]
  /\ rt \in [Launchers -> Runtimes \cup {NoRuntime}]
  /\ todo \in [Launchers -> SUBSET Process]
  /\ clash \in [Launchers -> BOOLEAN]
  /\ procs \subseteq Process
  /\ booting \subseteq Clients
  /\ astray \in BOOLEAN
  /\ \A l \in Launchers :
       pc[l] \in Guarding \cup Passed \cup {"app", "stop", "tool", "toolWait"}
         => rt[l] \in Runtimes

(* A launch prepares from its invocation until it runs the program, and is *)
(* starting until the program has brought up Wine.                         *)
Preparing(l) ==
  /\ task[l].cmd \in LaunchCommands
  /\ pc[l] \in {"select"} \cup Guarding \cup Passed

Starting(l) == Preparing(l) \/ (pc[l] = "app" /\ BootingOf(l) # {})

Init ==
  /\ profile \in ProfileStates
  /\ genuine \in BOOLEAN
  /\ task = [l \in Launchers |-> NoTask]
  /\ pc = [l \in Launchers |-> "idle"]
  /\ rt = [l \in Launchers |-> NoRuntime]
  /\ todo = [l \in Launchers |-> {}]
  /\ clash = [l \in Launchers |-> FALSE]
  /\ procs = {}
  /\ booting = {}
  /\ astray = FALSE

-----------------------------------------------------------------------------
(* The invocation and main(). *)

Goto(l, label) == pc' = [pc EXCEPT ![l] = label]

(* The process of the invocation ends; its globals go with it. *)
Exit(l) ==
  /\ Goto(l, "idle")
  /\ task' = [task EXCEPT ![l] = NoTask]
  /\ rt' = [rt EXCEPT ![l] = NoRuntime]
  /\ todo' = [todo EXCEPT ![l] = {}]
  /\ clash' = [clash EXCEPT ![l] = FALSE]

(* A user issues a command.  use-profile is handled before a runtime is    *)
(* selected; every other command selects one first.                        *)
Invoke(l, c, s) ==
  /\ pc[l] = "idle" /\ OwnedBy(l) = {}
  /\ (c \in LaunchCommands /\ ~Overlap) => \A k \in Launchers : ~Starting(k)
  /\ task' = [task EXCEPT ![l] = [cmd |-> c, sel |-> s]]
  /\ Goto(l, IF c \in {"use-stable", "use-performance"} THEN "save" ELSE "select")
  /\ UNCHANGED <<profile, genuine, rt, todo, clash, Prefix>>

(* saved_profile(): no file means stable; any other content is an error. *)
ProfileName(sel) ==
  IF sel # "saved" THEN sel ELSE IF profile = "absent" THEN "stable" ELSE profile

(* configure_profile() validates the components of performance only;       *)
(* --runtime names a staged runtime directly.                              *)
Selectable(name) ==
  \/ name \in Runtimes \cup {"stable"}
  \/ name = "performance" /\ genuine

\* Mutant: the profile's name is taken for a runtime directory.
UnresolvedRuntime(name) == name

RuntimeOf(name) ==
  CASE name = "stable" -> Stable [] name = "performance" -> Performance [] OTHER -> name

Select(l) ==
  /\ pc[l] = "select"
  /\ Selectable(ProfileName(task[l].sel))
  /\ rt' = [rt EXCEPT ![l] = RuntimeOf(ProfileName(task[l].sel))]
  /\ Goto(l, CASE task[l].cmd \in LaunchCommands -> "list"
               [] task[l].cmd \in UnguardedCommands -> "tool"
               [] OTHER -> "stop")
  /\ UNCHANGED <<profile, genuine, task, todo, clash, Prefix>>

SelectFails(l) ==
  /\ pc[l] = "select"
  /\ ~Selectable(ProfileName(task[l].sel))
  /\ Exit(l)
  /\ UNCHANGED <<profile, genuine, Prefix>>

(* save_profile(): validate the candidate, then replace the file in one    *)
(* rename of a finished temporary file.                                    *)
ValidateProfile(l) ==
  /\ pc[l] = "save"
  /\ IF task[l].cmd = "use-stable" \/ genuine
       THEN Goto(l, "replace") /\ UNCHANGED <<task, rt, todo, clash>>
       ELSE Exit(l)
  /\ UNCHANGED <<profile, genuine, Prefix>>

ReplaceProfile(l) ==
  /\ pc[l] = "replace"
  /\ profile' = IF task[l].cmd = "use-stable" THEN "stable" ELSE "performance"
  /\ Exit(l)
  /\ UNCHANGED <<genuine, Prefix>>

(* What was astray is over when the prefix is quiet. *)
Settles == astray' = (astray /\ procs' # {})

(* `stop' runs wineserver -k, which ends the server and with it every      *)
(* client, but no umu-run that has yet to become one; without a server it  *)
(* fails and ends the command.                                             *)
Stop(l) ==
  /\ pc[l] = "stop"
  /\ procs' = IF Servers = {} THEN procs ELSE booting
  /\ Settles
  /\ Exit(l)
  /\ UNCHANGED <<profile, genuine, booting>>

-----------------------------------------------------------------------------
(* launch(): the guard. *)

(* conflicting_prefix_runtimes() lists /proc once.  The Wine process of a  *)
(* umu-run that is booting is a child of it that the listing lacks ...     *)
ListProcesses(l) ==
  /\ pc[l] = "list"
  /\ todo' = [todo EXCEPT ![l] = procs \ booting]
  /\ Goto(l, "scan")
  /\ UNCHANGED <<profile, genuine, task, rt, clash, Prefix>>

\* Mutant: only clients conflict, by the ntdll they map.
ConflictsClientsOnly(p, r) == p.kind # "server" /\ p \notin booting /\ p.rt # r

(* A wineserver conflicts by its executable, a client by the ntdll it maps; *)
(* a umu-run is neither, though its environment names the prefix.           *)
Conflicts(p, r) == p \notin booting /\ p.rt # r

(* ... and then reads each process in turn; one that has gone is skipped.  *)
ScanProcess(l) ==
  /\ pc[l] = "scan"
  /\ \E p \in todo[l] :
       /\ todo' = [todo EXCEPT ![l] = @ \ {p}]
       /\ clash' = [clash EXCEPT ![l] = @ \/ (p \in procs /\ Conflicts(p, rt[l]))]
  /\ UNCHANGED <<profile, genuine, task, pc, rt, Prefix>>

\* Mutant: the scan stops at the first process that does not conflict.
GuardPassesEarly(l) ==
  /\ pc[l] = "scan" /\ ~clash[l]
  /\ Goto(l, "scale")
  /\ UNCHANGED <<profile, genuine, task, rt, todo, clash, Prefix>>

GuardPasses(l) ==
  /\ pc[l] = "scan" /\ todo[l] = {} /\ ~clash[l]
  /\ Goto(l, "scale")
  /\ UNCHANGED <<profile, genuine, task, rt, todo, clash, Prefix>>

GuardRefuses(l) ==
  /\ pc[l] = "scan" /\ todo[l] = {} /\ clash[l]
  /\ Exit(l)
  /\ UNCHANGED <<profile, genuine, Prefix>>

-----------------------------------------------------------------------------
(* launch(): the helpers and the program. *)

(* wine() starts umu-run, which has the prefix in its environment and maps *)
(* no Wine yet.  The launcher waits for the process it started and for     *)
(* nothing else: helpers run with PROTON_VERB=runinprefix, Lightroom with  *)
(* run.                                                                    *)
Wine(p) ==
  /\ procs' = procs \cup {p}
  /\ booting' = booting \cup {p}
  /\ UNCHANGED astray

WaitLabel == [scale |-> "scaleWait", export |-> "exportWait",
              import |-> "importWait", tool |-> "toolWait"]

StartHelper(l) ==
  /\ pc[l] \in DOMAIN WaitLabel
  /\ Wine(Client("helper", l))
  /\ Goto(l, WaitLabel[pc[l]])
  /\ UNCHANGED <<profile, genuine, task, rt, todo, clash>>

(* No Hyprland session: sync_display_scale returns.  No palette, or the    *)
(* theme marker matches: sync_theme returns.  The backups exist: nothing   *)
(* is exported before the import.                                          *)
SkipHelper(l) ==
  /\ \/ pc[l] = "scale" /\ Goto(l, "export")
     \/ pc[l] = "export" /\ Goto(l, "import")
     \/ pc[l] = "export" /\ Goto(l, "start")
  /\ UNCHANGED <<profile, genuine, task, rt, todo, clash, Prefix>>

HelperReturns(l) ==
  /\ OwnedBy(l) = {}
  /\ \/ pc[l] = "scaleWait" /\ Goto(l, "export") /\ UNCHANGED <<task, rt, todo, clash>>
     \/ pc[l] = "exportWait" /\ Goto(l, "import") /\ UNCHANGED <<task, rt, todo, clash>>
     \/ pc[l] = "importWait" /\ Goto(l, "start") /\ UNCHANGED <<task, rt, todo, clash>>
     \/ pc[l] = "toolWait" /\ Exit(l)
  /\ UNCHANGED <<profile, genuine, Prefix>>

\* Mutant: Proton's verb waits for the helpers' server to exit first.
StartProgramWaits(l) ==
  /\ pc[l] = "start" /\ Servers = {}
  /\ Wine(Client("app", l))
  /\ Goto(l, "app")
  /\ UNCHANGED <<profile, genuine, task, rt, todo, clash>>

StartProgram(l) ==
  /\ pc[l] = "start"
  /\ Wine(Client("app", l))
  /\ Goto(l, "app")
  /\ UNCHANGED <<profile, genuine, task, rt, todo, clash>>

(* wine(exe) has returned or raised, and launch() with it. *)
ProgramReturns(l) ==
  /\ pc[l] = "app" /\ OwnedBy(l) = {}
  /\ Exit(l)
  /\ UNCHANGED <<profile, genuine, Prefix>>

(* An exception before the try block of launch(), where there is nothing   *)
(* to undo: a helper failed, the program is not installed, hyprctl failed. *)
Raise(l) ==
  /\ pc[l] \in Guarding \cup Passed \cup {"tool", "toolWait"}
  /\ OwnedBy(l) = {}
  /\ Exit(l)
  /\ UNCHANGED <<profile, genuine, Prefix>>

(* The launcher is killed; what it started lives on. *)
Crash(l) ==
  /\ pc[l] # "idle"
  /\ Exit(l)
  /\ astray' = (astray \/ BootingOf(l) # {})
  /\ UNCHANGED <<profile, genuine, procs, booting>>

-----------------------------------------------------------------------------
(* The environment. *)

(* umu-run has entered the runtime and started Wine: the client joins the  *)
(* prefix's server and starts one only if none is running.                 *)
Boots(p) ==
  /\ p \in booting
  /\ booting' = booting \ {p}
  /\ procs' = procs \cup (IF Servers = {} THEN {Server(p.rt)} ELSE {})
  /\ UNCHANGED <<profile, genuine, task, pc, rt, todo, clash, astray>>

(* A client ends, or umu-run fails before it is one. *)
ClientEnds(p) ==
  /\ p \in Clients
  /\ procs' = procs \ {p}
  /\ booting' = booting \ {p}
  /\ Settles
  /\ UNCHANGED <<profile, genuine, task, pc, rt, todo, clash>>

(* Lightroom or Creative Cloud leaves a background process behind. *)
SpawnAgent(p) ==
  /\ p \in procs \ booting /\ p.kind = "app"
  /\ procs' = procs \cup {Agent(p.rt)}
  /\ UNCHANGED <<profile, genuine, task, pc, rt, todo, clash, booting, astray>>

(* The server lingers after its last client and then exits. *)
ServerIdles ==
  /\ Clients \subseteq booting /\ Servers # {}
  /\ procs' = procs \ Servers
  /\ Settles
  /\ UNCHANGED <<profile, genuine, task, pc, rt, todo, clash, booting>>

(* A performance component is modified or staged again. *)
RestageComponents ==
  /\ genuine' = ~genuine
  /\ UNCHANGED <<profile, task, pc, rt, todo, clash, Prefix>>

-----------------------------------------------------------------------------
LauncherStep(l) ==
  \/ Select(l) \/ SelectFails(l)
  \/ ValidateProfile(l) \/ ReplaceProfile(l) \/ Stop(l)
  \/ ListProcesses(l) \/ ScanProcess(l) \/ GuardPasses(l) \/ GuardRefuses(l)
  \/ StartHelper(l) \/ SkipHelper(l) \/ HelperReturns(l)
  \/ StartProgram(l) \/ ProgramReturns(l)

Environment ==
  \/ \E p \in procs : Boots(p) \/ ClientEnds(p) \/ SpawnAgent(p)
  \/ ServerIdles
  \/ RestageComponents

Next ==
  \/ \E l \in Launchers, c \in Commands, s \in Selections : Invoke(l, c, s)
  \/ \E l \in Launchers : LauncherStep(l) \/ Raise(l) \/ Crash(l)
  \/ Environment

Spec == Init /\ [][Next]_vars

(* A launcher that is not killed keeps executing, a helper (reg add, reg   *)
(* export, reg import) ends.  Nothing is assumed of users, of Lightroom,   *)
(* of what it leaves behind, or of the server's idle timeout.              *)
Fairness ==
  /\ \A l \in Launchers : WF_vars(LauncherStep(l))
  /\ \A l \in Launchers :
       WF_vars(\E p \in procs : p.kind = "helper" /\ p.owner = l /\ ClientEnds(p))

FairSpec == Spec /\ Fairness

-----------------------------------------------------------------------------
(* Properties. *)

(* All processes that live in the prefix at one time are of one runtime,   *)
(* as long as no launcher was killed while what it had started was booting *)
(* (the guard cannot see that, and the next launch passes it).  The guard  *)
(* of launch() looks once, long before the first Wine process it starts;   *)
(* this says that looking once is enough.                                  *)
SingleRuntime == ~astray => \A p, q \in procs : p.rt = q.rt

(* "The launcher never starts a new runtime over live processes from a     *)
(* different runtime": no Wine process comes up while one of another       *)
(* runtime lives.  The launcher does not keep this: see astray.            *)
NeverOverForeign ==
  [][\A p \in (procs \ booting)' \ (procs \ booting), q \in procs \ booting :
       p.rt = q.rt]_vars

Session == INSTANCE PrefixSession WITH
             session <- CASE procs = {} -> NoRuntime
                          [] procs # {} /\ astray -> "unattended"
                          [] OTHER -> (CHOOSE p \in procs : TRUE).rt,
             Quiet <- NoRuntime,
             Unattended <- "unattended"

(* The prefix behaves as PrefixSession: from one runtime to another, and   *)
(* out of an unattended session, only through a quiet prefix.              *)
SessionSpec == Session!SSpec

(* A launch that begins does not prepare for ever: it starts the program,  *)
(* refuses or fails, whatever else happens to the prefix, because it waits *)
(* for its own helpers only and never for the server to exit.              *)
StartupEnds == \A l \in Launchers : Preparing(l) ~> ~Preparing(l)
=============================================================================
