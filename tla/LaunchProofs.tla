---------------------------- MODULE LaunchProofs ----------------------------
(***************************************************************************)
(* Proofs about Launch for any number of launchers and staged runtimes.    *)
(*                                                                         *)
(* The argument for SingleRuntime: every Wine client that has booted keeps *)
(* a wineserver alive, and as long as no launcher is killed while what it  *)
(* started is booting, only the one launch that is starting has a client   *)
(* booting.  So while a launch scans nothing boots: no server of another   *)
(* runtime appears, and one that was there is met by the scan unless it is *)
(* gone.  Clients can appear behind the scan's back (an application spawns *)
(* a process after the listing), which is why the guard must look at the   *)
(* server and not only at the clients.                                     *)
(***************************************************************************)
EXTENDS Launch, TLAPS

(* The assumption on users under which the guard is enough: a launch       *)
(* begins only when no other is starting, and nothing bypasses the guard.  *)
Serial == ~Overlap /\ Commands \cap UnguardedCommands = {}

ClientsHaveServer == Clients \subseteq booting \/ Servers # {}

AstrayLives == astray => procs # {}

OneStarting == \A k, l \in Launchers : Starting(k) /\ Starting(l) => k = l

OnlyLaunchesStart ==
  \A l \in Launchers :
    /\ pc[l] \notin {"tool", "toolWait"}
    /\ pc[l] \in Guarding \cup Passed => task[l].cmd \in LaunchCommands

(* The parts that hold until a launcher is killed at the wrong moment. *)
OneRuntime == \A p, q \in procs : p.rt = q.rt

Waiting == {"scaleWait", "exportWait", "importWait", "app"}

BootingOwned == \A p \in booting : p.owner \in Launchers /\ pc[p.owner] \in Waiting

ScanMeetsServers ==
  \A l \in Launchers : pc[l] = "scan" =>
    \A p \in Servers : p.rt = rt[l] \/ p \in todo[l] \/ clash[l]

PassedOwnsPrefix ==
  \A l \in Launchers : pc[l] \in Passed => \A p \in procs : p.rt = rt[l]

Attended == OneRuntime /\ BootingOwned /\ ScanMeetsServers /\ PassedOwnsPrefix

LaunchInv ==
  /\ TypeOK
  /\ AstrayLives
  /\ ClientsHaveServer
  /\ OneStarting
  /\ OnlyLaunchesStart
  /\ ~astray => Attended

-----------------------------------------------------------------------------
(* Type correctness.  The facts about constants that every step needs.     *)
LEMMA ConstantFacts ==
  /\ Stable \in Runtimes /\ Performance \in Runtimes
  /\ NoRuntime \notin Runtimes /\ NoOwner \notin Launchers
  /\ Selections \subseteq {"saved", "stable", "performance"} \cup Runtimes
BY LaunchAssumption DEF LaunchAssumption

(* The runtime that main() selects is a staged one. *)
LEMMA SelectedRuntime ==
  ASSUME TypeOK, NEW l \in Launchers, Selectable(ProfileName(task[l].sel))
  PROVE  RuntimeOf(ProfileName(task[l].sel)) \in Runtimes
BY ConstantFacts DEF TypeOK, Selectable, RuntimeOf, ProfileName, ProfileStates, Task

(* The variables of the prefix have their types after the step. *)
PrefixTyped == procs \subseteq Process /\ booting \subseteq Clients /\ astray \in BOOLEAN

(* umu-run comes into the prefix as a client of the launcher's runtime. *)
LEMMA WineTyped ==
  ASSUME TypeOK, NEW l \in Launchers, rt[l] \in Runtimes,
         NEW kind \in Kinds \ {"server"}, Wine(Client(kind, l))
  PROVE  PrefixTyped'
BY DEF TypeOK, Wine, Client, Process, Kinds, PrefixTyped, Clients, Servers

LEMMA TypeInit == Init => TypeOK
<1> SUFFICES ASSUME Init PROVE TypeOK
  OBVIOUS
<1>1. procs \subseteq Process /\ booting \subseteq Clients /\ astray \in BOOLEAN
  BY DEF Init
<1> QED
  BY <1>1 DEF Init, TypeOK, NoTask, Task, Labels, ProfileStates, Guarding, Passed

LEMMA ExitTyped ==
  ASSUME TypeOK, NEW l \in Launchers, Exit(l)
  PROVE  /\ task' \in [Launchers -> Task]
         /\ pc' \in [Launchers -> Labels]
         /\ rt' \in [Launchers -> Runtimes \cup {NoRuntime}]
         /\ todo' \in [Launchers -> SUBSET Process]
         /\ clash' \in [Launchers -> BOOLEAN]
         /\ \A k \in Launchers :
              pc'[k] \in Guarding \cup Passed \cup {"app", "stop", "tool", "toolWait"}
                => rt'[k] \in Runtimes
BY DEF TypeOK, Exit, Goto, NoTask, Task, Labels, Guarding, Passed

LEMMA TypeStep == TypeOK /\ [Next]_vars => TypeOK'
<1> SUFFICES ASSUME TypeOK, [Next]_vars PROVE TypeOK'
  OBVIOUS
<1> USE ConstantFacts DEF Prefix, Clients, Servers
<1>1. ASSUME NEW l \in Launchers, NEW c \in Commands, NEW s \in Selections,
             Invoke(l, c, s)
      PROVE  TypeOK'
  BY <1>1 DEF TypeOK, Invoke, Goto, Task, Labels, Guarding, Passed
<1>2. ASSUME NEW l \in Launchers, Select(l) PROVE TypeOK'
  BY <1>2, SelectedRuntime DEF TypeOK, Select, Goto, Labels, Guarding, Passed
<1>3. ASSUME NEW l \in Launchers, SelectFails(l) PROVE TypeOK'
  BY <1>3, ExitTyped DEF TypeOK, SelectFails
<1>4. ASSUME NEW l \in Launchers, ValidateProfile(l) PROVE TypeOK'
  <2>1. CASE Exit(l)
    BY <1>4, <2>1, ExitTyped DEF TypeOK, ValidateProfile
  <2>2. CASE ~Exit(l)
    BY <1>4, <2>2 DEF TypeOK, ValidateProfile, Goto, Labels, Guarding, Passed
  <2> QED BY <2>1, <2>2
<1>5. ASSUME NEW l \in Launchers, ReplaceProfile(l) PROVE TypeOK'
  BY <1>5, ExitTyped DEF TypeOK, ReplaceProfile, ProfileStates
<1>6. ASSUME NEW l \in Launchers, Stop(l) PROVE TypeOK'
  BY <1>6, ExitTyped DEF TypeOK, Stop, Settles
<1>7. ASSUME NEW l \in Launchers, ListProcesses(l) PROVE TypeOK'
  BY <1>7 DEF TypeOK, ListProcesses, Goto, Labels, Guarding, Passed
<1>8. ASSUME NEW l \in Launchers, ScanProcess(l) PROVE TypeOK'
  BY <1>8 DEF TypeOK, ScanProcess, Conflicts
<1>9. ASSUME NEW l \in Launchers, GuardPasses(l) PROVE TypeOK'
  BY <1>9 DEF TypeOK, GuardPasses, Goto, Labels, Guarding, Passed
<1>10. ASSUME NEW l \in Launchers, GuardRefuses(l) PROVE TypeOK'
  BY <1>10, ExitTyped DEF TypeOK, GuardRefuses
<1>11. ASSUME NEW l \in Launchers, StartHelper(l) PROVE TypeOK'
  <2>1. rt[l] \in Runtimes
    BY <1>11 DEF StartHelper, TypeOK, WaitLabel, Passed, Guarding
  <2>2. PrefixTyped'
    BY <1>11, <2>1, WineTyped DEF StartHelper, Kinds
  <2> QED BY <1>11, <2>1, <2>2 DEF TypeOK, PrefixTyped, StartHelper, Goto, WaitLabel, Labels,
        Guarding, Passed
<1>12. ASSUME NEW l \in Launchers, SkipHelper(l) PROVE TypeOK'
  BY <1>12 DEF TypeOK, SkipHelper, Goto, Labels, Guarding, Passed
<1>13. ASSUME NEW l \in Launchers, HelperReturns(l) PROVE TypeOK'
  <2>1. CASE Exit(l)
    BY <1>13, <2>1, ExitTyped DEF TypeOK, HelperReturns
  <2>2. CASE ~Exit(l)
    BY <1>13, <2>2 DEF TypeOK, HelperReturns, Goto, Labels, Guarding, Passed
  <2> QED BY <2>1, <2>2
<1>14. ASSUME NEW l \in Launchers, StartProgram(l) PROVE TypeOK'
  <2>1. rt[l] \in Runtimes
    BY <1>14 DEF StartProgram, TypeOK, Passed, Guarding
  <2>2. PrefixTyped'
    BY <1>14, <2>1, WineTyped DEF StartProgram, Kinds
  <2> QED BY <1>14, <2>1, <2>2 DEF TypeOK, PrefixTyped, StartProgram, Goto, Labels, Guarding, Passed
<1>15. ASSUME NEW l \in Launchers, ProgramReturns(l) \/ Raise(l) \/ Crash(l) PROVE TypeOK'
  BY <1>15, ExitTyped DEF TypeOK, ProgramReturns, Raise, Crash
<1>16. CASE Environment
  <2>1. PrefixTyped'
    <3>0. \A p \in procs : p.rt \in Runtimes
      BY DEF TypeOK, Process
    <3>1. ASSUME NEW p \in procs, Boots(p) PROVE PrefixTyped'
      <4>1. Server(p.rt) \in Process
        BY <3>0 DEF Server, Process, Kinds
      <4> QED BY <3>1, <4>1 DEF TypeOK, Boots, PrefixTyped, Server
    <3>2. ASSUME NEW p \in procs, ClientEnds(p) PROVE PrefixTyped'
      BY <3>2 DEF TypeOK, ClientEnds, PrefixTyped, Settles
    <3>3. ASSUME NEW p \in procs, SpawnAgent(p) PROVE PrefixTyped'
      <4>1. Agent(p.rt) \in Process
        BY <3>0 DEF Agent, Process, Kinds
      <4> QED BY <3>3, <4>1 DEF TypeOK, SpawnAgent, PrefixTyped
    <3>4. CASE ServerIdles \/ RestageComponents
      BY <3>4 DEF TypeOK, ServerIdles, RestageComponents, PrefixTyped, Settles
    <3> QED BY <1>16, <3>1, <3>2, <3>3, <3>4 DEF Environment
  <2>2. genuine' \in BOOLEAN /\ UNCHANGED <<profile, task, pc, rt, todo, clash>>
    BY <1>16 DEF TypeOK, Environment, Boots, ClientEnds, SpawnAgent, ServerIdles,
      RestageComponents
  <2> QED BY <2>1, <2>2 DEF TypeOK, PrefixTyped
<1>17. CASE UNCHANGED vars
  BY <1>17 DEF TypeOK, vars
<1> QED
  BY <1>1, <1>2, <1>3, <1>4, <1>5, <1>6, <1>7, <1>8, <1>9, <1>10, <1>11, <1>12,
     <1>13, <1>14, <1>15, <1>16, <1>17 DEF Next, LauncherStep

(* Every variable of Launch keeps its type. *)
THEOREM TypeCorrect == Spec => []TypeOK
BY TypeInit, TypeStep, PTL DEF Spec
-----------------------------------------------------------------------------
(* The strengthening of SingleRuntime, part by part. *)

(* The parts of LaunchInv that hold whatever happened to a launcher. *)
Orderly == ClientsHaveServer /\ OneStarting /\ OnlyLaunchesStart

(* What each action has to show: the order is kept, and so are the other   *)
(* parts unless the prefix is, or has become, unattended.                  *)
Preserved == Orderly' /\ (~astray /\ ~astray' => Attended')

(* When the prefix is quiet there is nothing the other parts could miss. *)
LEMMA QuietAttended ==
  ASSUME TypeOK, procs = {}
  PROVE  Attended
BY DEF TypeOK, Attended, OneRuntime, BootingOwned, ScanMeetsServers, PassedOwnsPrefix,
  Clients, Servers

(* A prefix becomes attended again only by becoming quiet. *)
LEMMA AttendedAgain ==
  ASSUME [Next]_vars, astray, ~astray'
  PROVE  procs' = {}
BY DEF Next, vars, Prefix, LauncherStep, Environment, Invoke, Select, SelectFails,
  ValidateProfile, ReplaceProfile, Stop, ListProcesses, ScanProcess, GuardPasses,
  GuardRefuses, StartHelper, SkipHelper, HelperReturns, StartProgram, ProgramReturns,
  Raise, Crash, Wine, Settles, Boots, ClientEnds, SpawnAgent, ServerIdles,
  RestageComponents

(* A prefix that is unattended is not quiet. *)
LEMMA AstrayStep ==
  ASSUME TypeOK, AstrayLives, [Next]_vars
  PROVE  AstrayLives'
BY DEF TypeOK, AstrayLives, Next, vars, Prefix, Clients, LauncherStep, Environment,
  Invoke, Select, SelectFails, ValidateProfile, ReplaceProfile, Stop, ListProcesses,
  ScanProcess, GuardPasses, GuardRefuses, StartHelper, SkipHelper, HelperReturns,
  StartProgram, ProgramReturns, Raise, Crash, BootingOf, Wine, Settles, Boots,
  ClientEnds, SpawnAgent, ServerIdles, RestageComponents

LEMMA InvInit == Init => LaunchInv
<1> SUFFICES ASSUME Init PROVE LaunchInv
  OBVIOUS
<1>1. TypeOK
  BY TypeInit
<1>2. Attended
  BY <1>1, QuietAttended DEF Init
<1>3. AstrayLives /\ ClientsHaveServer /\ OneStarting /\ OnlyLaunchesStart
  BY DEF Init, AstrayLives, ClientsHaveServer, Clients, Servers, OneStarting, Starting, Preparing,
    OnlyLaunchesStart, Guarding, Passed
<1> QED BY <1>1, <1>2, <1>3 DEF LaunchInv

(* While a launch prepares, other launches neither prepare nor boot. *)
LEMMA OnlyOne ==
  ASSUME LaunchInv, NEW l \in Launchers, Preparing(l)
  PROVE  \A k \in Launchers \ {l} : ~Starting(k) /\ pc[k] \notin Guarding \cup Passed
BY DEF LaunchInv, OneStarting, OnlyLaunchesStart, Starting, Preparing

(* While the launch that is starting waits for nothing, nothing boots. *)
LEMMA NothingBoots ==
  ASSUME LaunchInv, ~astray, NEW l \in Launchers, Preparing(l), pc[l] \notin Waiting
  PROVE  booting = {}
<1> SUFFICES ASSUME NEW p \in booting PROVE FALSE
  OBVIOUS
<1> DEFINE k == p.owner
<1>1. k \in Launchers /\ pc[k] \in Waiting /\ k # l
  BY DEF LaunchInv, Attended, BootingOwned
<1>2. Starting(k)
  BY <1>1 DEF Waiting, Starting, Preparing, Passed, BootingOf, LaunchInv, OnlyLaunchesStart
<1> QED BY <1>1, <1>2, OnlyOne
-----------------------------------------------------------------------------
(* One lemma per group of actions. *)

(* An invocation that ends disturbs no other one. *)
LEMMA InvEnd ==
  ASSUME LaunchInv, NEW l \in Launchers, Exit(l),
         procs' \in {procs, booting}, booting' = booting,
         procs' = procs \/ Servers = {} \/ procs' = booting,
         pc[l] \notin Waiting \/ BootingOf(l) = {} \/ astray'
  PROVE  Preserved
<1>1. pc'[l] = "idle" /\ \A k \in Launchers \ {l} :
        /\ pc'[k] = pc[k] /\ task'[k] = task[k] /\ rt'[k] = rt[k]
        /\ todo'[k] = todo[k] /\ clash'[k] = clash[k]
  BY DEF Exit, Goto, LaunchInv, TypeOK
<1>2. procs' \subseteq procs
  BY DEF LaunchInv, TypeOK, Clients
<1>3. \A k \in Launchers : Starting(k)' => Starting(k)
  BY <1>1 DEF Starting, Preparing, BootingOf, Guarding, Passed
<1>4. OneStarting'
  BY <1>3 DEF LaunchInv, OneStarting
<1>5. OnlyLaunchesStart'
  BY <1>1 DEF LaunchInv, OnlyLaunchesStart, Guarding, Passed
<1>6. ClientsHaveServer'
  BY DEF LaunchInv, ClientsHaveServer, Clients, Servers
<1>7. ASSUME ~astray, ~astray' PROVE Attended'
  <2>1. OneRuntime' /\ ScanMeetsServers' /\ PassedOwnsPrefix'
    BY <1>1, <1>2, <1>7 DEF LaunchInv, Attended, OneRuntime, ScanMeetsServers,
      PassedOwnsPrefix, Servers, Passed
  <2>2. BootingOwned'
    <3> SUFFICES ASSUME NEW p \in booting
                 PROVE  p.owner \in Launchers /\ pc'[p.owner] \in Waiting
      BY DEF BootingOwned
    <3>1. p.owner \in Launchers /\ pc[p.owner] \in Waiting
      BY <1>7 DEF LaunchInv, Attended, BootingOwned
    <3>2. p.owner # l
      BY <1>7, <3>1 DEF BootingOf
    <3> QED BY <1>1, <3>1, <3>2
  <2> QED BY <2>1, <2>2 DEF Attended
<1> QED BY <1>4, <1>5, <1>6, <1>7 DEF Preserved, Orderly

(* A launcher that goes on without a step of the prefix. *)
LEMMA InvMove ==
  ASSUME LaunchInv, NEW l \in Launchers, UNCHANGED Prefix,
         pc'[l] \notin {"tool", "toolWait"},
         pc[l] \notin Waiting \/ BootingOf(l) = {},
         pc'[l] \in Guarding \cup Passed => task'[l].cmd \in LaunchCommands,
         Starting(l)' => \A k \in Launchers \ {l} : ~Starting(k),
         \A k \in Launchers \ {l} :
           /\ pc'[k] = pc[k] /\ task'[k] = task[k] /\ rt'[k] = rt[k]
           /\ todo'[k] = todo[k] /\ clash'[k] = clash[k],
         ~astray /\ pc'[l] = "scan"
           => \A p \in Servers : p.rt = rt'[l] \/ p \in todo'[l] \/ clash'[l],
         ~astray /\ pc'[l] \in Passed => \A p \in procs : p.rt = rt'[l]
  PROVE  Preserved
<1>1. \A k \in Launchers \ {l} : Starting(k)' <=> Starting(k)
  BY DEF Starting, Preparing, BootingOf, Prefix
<1>2. OneStarting'
  BY <1>1 DEF LaunchInv, OneStarting
<1>3. OnlyLaunchesStart'
  BY DEF LaunchInv, OnlyLaunchesStart
<1>4. ClientsHaveServer'
  BY DEF LaunchInv, ClientsHaveServer, Clients, Servers, Prefix
<1>5. ASSUME ~astray PROVE Attended'
  <2>1. OneRuntime'
    BY <1>5 DEF LaunchInv, Attended, OneRuntime, Prefix
  <2>2. BootingOwned'
    <3> SUFFICES ASSUME NEW p \in booting
                 PROVE  p.owner \in Launchers /\ pc'[p.owner] \in Waiting
      BY DEF BootingOwned, Prefix
    <3>1. p.owner \in Launchers /\ pc[p.owner] \in Waiting
      BY <1>5 DEF LaunchInv, Attended, BootingOwned
    <3>2. p.owner # l
      BY <3>1 DEF BootingOf
    <3> QED BY <3>1, <3>2
  <2>3. ScanMeetsServers' /\ PassedOwnsPrefix'
    BY <1>5 DEF LaunchInv, Attended, ScanMeetsServers, PassedOwnsPrefix, Servers, Prefix
  <2> QED BY <2>1, <2>2, <2>3 DEF Attended
<1> QED BY <1>2, <1>3, <1>4, <1>5 DEF Preserved, Orderly, Prefix

LEMMA InvInvoke ==
  ASSUME Serial, LaunchInv, NEW l \in Launchers, NEW c \in Commands,
         NEW s \in Selections, Invoke(l, c, s)
  PROVE  Preserved
<1>1. /\ pc[l] = "idle" /\ pc'[l] \in {"save", "select"} /\ task'[l].cmd = c
      /\ \A k \in Launchers \ {l} : pc'[k] = pc[k] /\ task'[k] = task[k]
      /\ UNCHANGED <<rt, todo, clash, Prefix>>
  BY DEF Invoke, Goto, LaunchInv, TypeOK
<1>2. Starting(l)' => \A k \in Launchers \ {l} : ~Starting(k)
  BY <1>1 DEF Starting, Preparing, Invoke, Serial
<1> QED BY <1>1, <1>2, InvMove DEF Guarding, Passed, Waiting

LEMMA InvSelect ==
  ASSUME Serial, LaunchInv, NEW l \in Launchers, Select(l)
  PROVE  Preserved
<1>1. task[l].cmd \notin UnguardedCommands
  BY DEF LaunchInv, TypeOK, Task, Serial, UnguardedCommands
<1>2. /\ pc[l] = "select" /\ pc'[l] \in {"list", "stop"}
      /\ pc'[l] = "list" => task[l].cmd \in LaunchCommands
      /\ \A k \in Launchers \ {l} : pc'[k] = pc[k] /\ rt'[k] = rt[k]
      /\ UNCHANGED <<task, todo, clash, Prefix>>
  BY <1>1 DEF Select, Goto, LaunchInv, TypeOK
<1>3. Starting(l)' => Preparing(l)
  BY <1>2 DEF Starting, Preparing
<1> QED BY <1>2, <1>3, OnlyOne, InvMove DEF Guarding, Passed, Waiting

LEMMA InvScan ==
  ASSUME LaunchInv, NEW l \in Launchers, ListProcesses(l) \/ ScanProcess(l)
  PROVE  Preserved
<1>1. /\ pc[l] \in Guarding /\ pc'[l] = "scan"
      /\ \A k \in Launchers \ {l} :
           pc'[k] = pc[k] /\ todo'[k] = todo[k] /\ clash'[k] = clash[k]
      /\ UNCHANGED <<task, rt, Prefix>>
  BY DEF ListProcesses, ScanProcess, Goto, Guarding, LaunchInv, TypeOK
<1>2. Preparing(l)
  BY <1>1 DEF Preparing, LaunchInv, OnlyLaunchesStart
<1>3. \A p \in Servers : p \notin booting
  BY DEF LaunchInv, TypeOK, Clients
<1>4. ASSUME ~astray
      PROVE  \A p \in Servers : p.rt = rt[l] \/ p \in todo'[l] \/ clash'[l]
  <2>1. CASE ListProcesses(l)
    BY <1>3, <2>1 DEF ListProcesses, Servers, LaunchInv, TypeOK
  <2>2. CASE ScanProcess(l)
    <3>1. \A p \in Servers : p.rt = rt[l] \/ p \in todo[l] \/ clash[l]
      BY <1>4, <2>2 DEF ScanProcess, LaunchInv, Attended, ScanMeetsServers
    <3> QED BY <1>3, <2>2, <3>1 DEF ScanProcess, Conflicts, Servers, LaunchInv, TypeOK
  <2> QED BY <2>1, <2>2
<1> QED BY <1>1, <1>2, <1>4, OnlyOne, InvMove DEF Guarding, Passed, Waiting, Preparing

(* The guard is sound: when the scan has met no other runtime, the prefix  *)
(* is quiet or runs the launch's own runtime.                              *)
LEMMA GuardSound ==
  ASSUME LaunchInv, ~astray, NEW l \in Launchers, GuardPasses(l)
  PROVE  \A p \in procs : p.rt = rt[l]
<1>1. \A p \in Servers : p.rt = rt[l]
  BY DEF GuardPasses, LaunchInv, Attended, ScanMeetsServers
<1>2. Preparing(l) /\ pc[l] \notin Waiting
  BY DEF GuardPasses, LaunchInv, OnlyLaunchesStart, Preparing, Guarding, Waiting
<1>3. procs # {} => Servers # {}
  BY <1>2, NothingBoots DEF LaunchInv, ClientsHaveServer, Clients
<1> QED BY <1>1, <1>3 DEF LaunchInv, Attended, OneRuntime, Servers

LEMMA InvProceed ==
  ASSUME LaunchInv, NEW l \in Launchers,
         GuardPasses(l) \/ SkipHelper(l) \/ HelperReturns(l)
  PROVE  Preserved
<1>1. pc[l] # "toolWait"
  BY DEF LaunchInv, OnlyLaunchesStart
<1>2. /\ pc[l] \in Guarding \cup Passed
      /\ pc[l] \notin Waiting \/ OwnedBy(l) = {}
      /\ pc'[l] \in Passed
      /\ \A k \in Launchers \ {l} : pc'[k] = pc[k]
      /\ UNCHANGED <<task, rt, todo, clash, Prefix>>
  BY <1>1 DEF GuardPasses, SkipHelper, HelperReturns, Goto, Guarding, Passed, Waiting,
    LaunchInv, TypeOK
<1>3. Preparing(l)
  BY <1>2 DEF LaunchInv, OnlyLaunchesStart, Preparing
<1>4. pc[l] \notin Waiting \/ BootingOf(l) = {}
  BY <1>2 DEF OwnedBy, BootingOf, LaunchInv, TypeOK, Clients
<1>5. ASSUME ~astray PROVE \A p \in procs : p.rt = rt[l]
  <2>1. CASE GuardPasses(l)
    BY <1>5, <2>1, GuardSound
  <2>2. CASE ~GuardPasses(l)
    <3>1. pc[l] \in Passed
      BY <1>1, <2>2 DEF SkipHelper, HelperReturns, Passed
    <3> QED BY <1>5, <3>1 DEF LaunchInv, Attended, PassedOwnsPrefix
  <2> QED BY <2>1, <2>2
<1>6. pc'[l] \notin {"tool", "toolWait", "scan"}
  BY <1>2 DEF Passed
<1> QED BY <1>2, <1>3, <1>4, <1>5, <1>6, OnlyOne, InvMove DEF Preparing

LEMMA InvValidate ==
  ASSUME LaunchInv, NEW l \in Launchers, ValidateProfile(l), ~Exit(l)
  PROVE  Preserved
<1>1. /\ pc[l] = "save" /\ pc'[l] = "replace"
      /\ \A k \in Launchers \ {l} : pc'[k] = pc[k]
      /\ UNCHANGED <<task, rt, todo, clash, Prefix>>
  BY DEF ValidateProfile, Goto, LaunchInv, TypeOK
<1>2. ~Starting(l)'
  BY <1>1 DEF Starting, Preparing, Guarding, Passed
<1> QED BY <1>1, <1>2, InvMove DEF Guarding, Passed, Waiting

LEMMA InvStart ==
  ASSUME LaunchInv, NEW l \in Launchers, StartHelper(l) \/ StartProgram(l)
  PROVE  Preserved
<1>1. PICK kind \in Kinds \ {"server"} : Wine(Client(kind, l))
  BY DEF StartHelper, StartProgram, Kinds
<1>2. /\ pc[l] \in Passed \ Waiting
      /\ pc'[l] \in Waiting
      /\ \A k \in Launchers \ {l} : pc'[k] = pc[k]
      /\ UNCHANGED <<task, rt, todo, clash>>
  <2>1. pc[l] # "tool"
    BY DEF LaunchInv, OnlyLaunchesStart
  <2> QED
    BY <2>1 DEF StartHelper, StartProgram, WaitLabel, Goto, Passed, Waiting, LaunchInv, TypeOK
<1>3. Preparing(l)
  BY <1>2 DEF LaunchInv, OnlyLaunchesStart, Preparing
<1>4. \A k \in Launchers \ {l} : ~Starting(k) /\ pc[k] \notin Guarding \cup Passed
  BY <1>3, OnlyOne
<1>5. OneStarting'
  <2>1. ASSUME NEW k \in Launchers \ {l} PROVE ~Starting(k)'
    <3>1. BootingOf(k)' = BootingOf(k)
      BY <1>1 DEF BootingOf, Wine, Client
    <3> QED BY <1>2, <1>4, <3>1 DEF Starting, Preparing
  <2> QED BY <2>1 DEF OneStarting
<1>6. OnlyLaunchesStart'
  BY <1>2, <1>3 DEF LaunchInv, OnlyLaunchesStart, Guarding, Passed, Waiting, Preparing
<1>7. ClientsHaveServer'
  BY <1>1 DEF LaunchInv, ClientsHaveServer, Clients, Servers, Wine, Client
<1>8. ASSUME ~astray PROVE Attended'
  <2>1. \A p \in procs' : p.rt = rt[l]
    BY <1>1, <1>2, <1>8 DEF LaunchInv, Attended, PassedOwnsPrefix, Wine, Client
  <2>2. OneRuntime'
    BY <2>1 DEF OneRuntime
  <2>3. BootingOwned'
    <3>1. booting' = {Client(kind, l)}
      BY <1>1, <1>2, <1>3, <1>8, NothingBoots DEF Wine
    <3> QED BY <1>2, <3>1 DEF BootingOwned, Client
  <2>4. ScanMeetsServers' /\ PassedOwnsPrefix'
    BY <1>2, <1>4, <2>1 DEF ScanMeetsServers, PassedOwnsPrefix, Guarding, Passed, Waiting
  <2> QED BY <2>2, <2>3, <2>4 DEF Attended
<1> QED BY <1>5, <1>6, <1>7, <1>8 DEF Preserved, Orderly

LEMMA InvBoots ==
  ASSUME LaunchInv, NEW p \in procs, Boots(p)
  PROVE  Preserved
<1>1. UNCHANGED <<task, pc, rt, todo, clash, astray>> /\ booting' \subseteq booting
  BY DEF Boots
<1>2. OneStarting' /\ OnlyLaunchesStart'
  BY <1>1 DEF LaunchInv, OneStarting, OnlyLaunchesStart, Starting, Preparing, BootingOf
<1>3. Servers' # {}
  <2>1. CASE Servers = {}
    <3>1. Server(p.rt) \in procs'
      BY <2>1 DEF Boots
    <3> QED BY <3>1 DEF Servers, Server
  <2>2. CASE Servers # {}
    BY <2>2 DEF Boots, Servers
  <2> QED BY <2>1, <2>2
<1>4. \A q \in procs' : \E o \in procs : q.rt = o.rt
  BY DEF Boots, Server
<1>5. ASSUME ~astray PROVE Attended'
  <2>1. OneRuntime' /\ PassedOwnsPrefix'
    BY <1>1, <1>4, <1>5 DEF LaunchInv, Attended, OneRuntime, PassedOwnsPrefix
  <2>2. BootingOwned'
    BY <1>1, <1>5 DEF LaunchInv, Attended, BootingOwned
  <2>3. ASSUME NEW l \in Launchers PROVE pc[l] # "scan"
    <3> SUFFICES ASSUME pc[l] = "scan" PROVE FALSE
      OBVIOUS
    <3>1. Preparing(l) /\ pc[l] \notin Waiting
      BY DEF LaunchInv, OnlyLaunchesStart, Preparing, Guarding, Waiting
    <3> QED BY <1>5, <3>1, NothingBoots DEF Boots
  <2>4. ScanMeetsServers'
    BY <1>1, <2>3 DEF ScanMeetsServers
  <2> QED BY <2>1, <2>2, <2>4 DEF Attended
<1> QED BY <1>2, <1>3, <1>5 DEF Preserved, Orderly, ClientsHaveServer

LEMMA InvEnvironment ==
  ASSUME LaunchInv, Environment, \A p \in procs : ~Boots(p)
  PROVE  Preserved
<1>1. UNCHANGED <<task, pc, rt, todo, clash>> /\ booting' \subseteq booting
  BY DEF Environment, ClientEnds, SpawnAgent, ServerIdles, RestageComponents, Prefix
<1>2. /\ Servers' \subseteq Servers
      /\ \A p \in procs' : \E q \in procs : p.rt = q.rt
      /\ ClientsHaveServer'
  <2>1. ASSUME NEW p \in procs, ClientEnds(p) PROVE <1>2!:
    <3>1. procs' = procs \ {p} /\ booting' = booting \ {p} /\ Servers' = Servers
      BY <2>1 DEF ClientEnds, Clients, Servers
    <3> QED BY <3>1 DEF LaunchInv, ClientsHaveServer, Clients
  <2>2. ASSUME NEW p \in procs, SpawnAgent(p) PROVE <1>2!:
    <3>1. procs' = procs \cup {Agent(p.rt)} /\ p \in Clients \ booting
      BY <2>2 DEF SpawnAgent, Clients, Servers
    <3>2. Servers' = Servers /\ Agent(p.rt).rt = p.rt
      BY <3>1 DEF Servers, Agent
    <3> QED BY <3>1, <3>2 DEF LaunchInv, ClientsHaveServer
  <2>3. CASE ServerIdles
    BY <2>3 DEF ServerIdles, ClientsHaveServer, Clients, Servers
  <2>4. CASE RestageComponents
    BY <2>4 DEF RestageComponents, Prefix, LaunchInv, ClientsHaveServer, Clients, Servers
  <2> QED BY <2>1, <2>2, <2>3, <2>4 DEF Environment
<1>3. OneStarting' /\ OnlyLaunchesStart'
  BY <1>1 DEF LaunchInv, OneStarting, OnlyLaunchesStart, Starting, Preparing, BootingOf
<1>4. ASSUME ~astray PROVE Attended'
  <2>1. OneRuntime' /\ PassedOwnsPrefix'
    BY <1>1, <1>2, <1>4 DEF LaunchInv, Attended, OneRuntime, PassedOwnsPrefix
  <2>2. BootingOwned'
    BY <1>1, <1>4 DEF LaunchInv, Attended, BootingOwned
  <2>3. ScanMeetsServers'
    BY <1>1, <1>2, <1>4 DEF LaunchInv, Attended, ScanMeetsServers
  <2> QED BY <2>1, <2>2, <2>3 DEF Attended
<1> QED BY <1>2, <1>3, <1>4 DEF Preserved, Orderly

LEMMA InvStep == Serial /\ LaunchInv /\ [Next]_vars => LaunchInv'
<1> SUFFICES ASSUME Serial, LaunchInv, [Next]_vars PROVE LaunchInv'
  OBVIOUS
<1>1. ASSUME NEW l \in Launchers, NEW c \in Commands, NEW s \in Selections,
             Invoke(l, c, s)
      PROVE  Preserved
  BY <1>1, InvInvoke
<1>2. ASSUME NEW l \in Launchers, Select(l) PROVE Preserved
  BY <1>2, InvSelect
<1>3. ASSUME NEW l \in Launchers, ListProcesses(l) \/ ScanProcess(l) PROVE Preserved
  BY <1>3, InvScan
<1>4. ASSUME NEW l \in Launchers, GuardPasses(l) \/ SkipHelper(l) \/ HelperReturns(l)
      PROVE  Preserved
  BY <1>4, InvProceed
<1>5. ASSUME NEW l \in Launchers, StartHelper(l) \/ StartProgram(l) PROVE Preserved
  BY <1>5, InvStart
<1>6. ASSUME NEW l \in Launchers,
             \/ SelectFails(l) \/ ReplaceProfile(l) \/ GuardRefuses(l) \/ Stop(l)
             \/ ProgramReturns(l) \/ Raise(l) \/ Crash(l)
      PROVE  Preserved
  <2>1. Exit(l) /\ procs' \in {procs, booting} /\ booting' = booting
    BY <1>6 DEF SelectFails, ReplaceProfile, GuardRefuses, ProgramReturns, Raise,
      Crash, Stop, Prefix
  <2>2. pc[l] \notin Waiting \/ OwnedBy(l) = {} \/ BootingOf(l) = {} \/ astray'
    BY <1>6 DEF SelectFails, ReplaceProfile, GuardRefuses, ProgramReturns, Raise,
      Crash, Stop, Waiting
  <2>3. pc[l] \notin Waiting \/ BootingOf(l) = {} \/ astray'
    BY <2>2 DEF OwnedBy, BootingOf, LaunchInv, TypeOK, Clients
  <2> QED BY <2>1, <2>3, InvEnd
<1>7. ASSUME NEW l \in Launchers, ValidateProfile(l) PROVE Preserved
  <2>1. CASE Exit(l)
    BY <1>7, <2>1, InvEnd DEF ValidateProfile, Prefix, Waiting
  <2>2. CASE ~Exit(l)
    BY <1>7, <2>2, InvValidate
  <2> QED BY <2>1, <2>2
<1>8. ASSUME NEW p \in procs, Boots(p) PROVE Preserved
  BY <1>8, InvBoots
<1>9. ASSUME Environment, \A p \in procs : ~Boots(p) PROVE Preserved
  BY <1>9, InvEnvironment
<1>10. ASSUME UNCHANGED vars PROVE Preserved
  <2>1. Orderly'
    BY <1>10 DEF vars, Orderly, LaunchInv, ClientsHaveServer, Clients, Servers,
      OneStarting, Starting, Preparing, BootingOf, OnlyLaunchesStart
  <2>2. Attended => Attended'
    BY <1>10 DEF vars, Attended, OneRuntime, BootingOwned, ScanMeetsServers,
      PassedOwnsPrefix, Servers
  <2>3. ~astray => Attended
    BY DEF LaunchInv
  <2> QED BY <2>1, <2>2, <2>3 DEF Preserved
<1>11. Preserved
  <2>1. CASE Environment
    BY <1>8, <1>9, <2>1
  <2>2. ASSUME NEW l \in Launchers, LauncherStep(l) PROVE Preserved
    BY <1>2, <1>3, <1>4, <1>5, <1>6, <1>7, <2>2 DEF LauncherStep
  <2> QED BY <1>1, <1>6, <1>10, <2>1, <2>2 DEF Next
<1>12. TypeOK' /\ AstrayLives'
  BY TypeStep, AstrayStep DEF LaunchInv
<1>13. ASSUME ~astray' PROVE Attended'
  <2>1. CASE ~astray
    BY <1>11, <1>13, <2>1 DEF Preserved
  <2>2. CASE astray
    <3>1. procs' = {}
      BY <1>13, <2>2, AttendedAgain
    <3>2. booting' = {} /\ Servers' = {}
      BY <1>12, <3>1 DEF TypeOK, Clients, Servers
    <3> QED BY <3>1, <3>2 DEF Attended, OneRuntime, BootingOwned, ScanMeetsServers,
          PassedOwnsPrefix
  <2> QED BY <2>1, <2>2
<1> QED BY <1>11, <1>12, <1>13 DEF Preserved, Orderly, LaunchInv

(* Under Serial, for any number of launchers and runtimes, no two          *)
(* processes of different runtimes live in the prefix together, unless a   *)
(* launcher was killed while what it had started was still umu-run and the *)
(* prefix has not been quiet since.                                        *)
THEOREM LaunchSafe == Serial => (Spec => []SingleRuntime)
<1> SUFFICES ASSUME Serial PROVE Spec => []SingleRuntime
  OBVIOUS
<1>1. LaunchInv => SingleRuntime
  BY DEF LaunchInv, Attended, OneRuntime, SingleRuntime
<1>2. LaunchInv /\ [Next]_vars => LaunchInv'
  BY InvStep
<1> QED BY <1>1, <1>2, InvInit, PTL DEF Spec

-----------------------------------------------------------------------------
(* The abstract specification. *)

(* A step only adds processes to the prefix or only removes some. *)
LEMMA ProcsGrowOrShrink ==
  TypeOK /\ [Next]_vars => procs' \subseteq procs \/ procs \subseteq procs'
BY DEF TypeOK, Next, vars, Prefix, Clients, LauncherStep, Environment, Invoke, Select,
  SelectFails, ValidateProfile, ReplaceProfile, Stop, ListProcesses, ScanProcess,
  GuardPasses, GuardRefuses, StartHelper, SkipHelper, HelperReturns, StartProgram,
  ProgramReturns, Raise, Crash, Wine, Boots, ClientEnds, SpawnAgent, ServerIdles,
  RestageComponents

(* Only a kill leaves the prefix unattended, and it ends no process. *)
LEMMA GoesAstray ==
  ASSUME TypeOK, [Next]_vars, ~astray, astray'
  PROVE  procs' = procs /\ procs # {}
BY DEF TypeOK, Next, vars, Prefix, Clients, LauncherStep, Environment, Invoke, Select,
  SelectFails, ValidateProfile, ReplaceProfile, Stop, ListProcesses, ScanProcess,
  GuardPasses, GuardRefuses, StartHelper, SkipHelper, HelperReturns, StartProgram,
  ProgramReturns, Raise, Crash, BootingOf, Wine, Settles, Boots, ClientEnds, SpawnAgent,
  ServerIdles, RestageComponents

(* Under Serial the prefix implements PrefixSession: initial states map to *)
(* a quiet prefix, and every step to Open, Abandon, Close or a stutter.    *)
THEOREM LaunchImplementsSession == Serial => (Spec => SessionSpec)
<1> DEFINE session == CASE procs = {} -> NoRuntime
                        [] procs # {} /\ astray -> "unattended"
                        [] OTHER -> (CHOOSE p \in procs : TRUE).rt
<1> SUFFICES ASSUME Serial PROVE Spec => SessionSpec
  OBVIOUS
<1>1. LaunchInv /\ [Next]_vars => LaunchInv'
  BY InvStep
<1>2. Init => Session!SInit
  BY DEF Init, Session!SInit
<1>3. LaunchInv /\ LaunchInv' /\ [Next]_vars => [Session!SNext]_session
  <2> SUFFICES ASSUME LaunchInv, LaunchInv', [Next]_vars
               PROVE  [Session!SNext]_session
    OBVIOUS
  <2>0. "unattended" # NoRuntime /\ NoRuntime \notin Runtimes
    BY LaunchAssumption DEF LaunchAssumption
  <2>1. procs # {} => (CHOOSE p \in procs : TRUE) \in procs
    OBVIOUS
  <2>2. procs' # {} => (CHOOSE p \in procs' : TRUE) \in procs'
    OBVIOUS
  <2>3. procs # {} /\ ~astray => session = (CHOOSE p \in procs : TRUE).rt /\ session \in Runtimes
    BY <2>1 DEF LaunchInv, TypeOK, Process
  <2>4. procs' # {} /\ ~astray' => session' = (CHOOSE p \in procs' : TRUE).rt /\ session' \in Runtimes
    BY <2>2 DEF LaunchInv, TypeOK, Process
  <2>5. CASE procs = {} /\ procs' = {}
    BY <2>5
  <2>6. CASE procs = {} /\ procs' # {}
    <3>1. ~astray'
      BY <2>6, GoesAstray DEF LaunchInv, AstrayLives
    <3> QED BY <2>4, <2>6, <3>1 DEF Session!SNext, Session!Open
  <2>7. CASE procs # {} /\ procs' = {}
    <3>1. session # NoRuntime /\ session' = NoRuntime
      BY <2>0, <2>3, <2>7
    <3> QED BY <3>1 DEF Session!SNext, Session!Close
  <2>8. CASE procs # {} /\ procs' # {} /\ astray
    <3>1. astray'
      BY <2>8, AttendedAgain
    <3> QED BY <2>8, <3>1
  <2>9. CASE procs # {} /\ procs' # {} /\ ~astray /\ astray'
    BY <2>3, <2>9 DEF Session!SNext, Session!Abandon
  <2>10. CASE procs # {} /\ procs' # {} /\ ~astray /\ ~astray'
    <3>1. (CHOOSE p \in procs : TRUE).rt = (CHOOSE p \in procs' : TRUE).rt
      BY <2>1, <2>2, <2>10, ProcsGrowOrShrink DEF LaunchInv, Attended, OneRuntime
    <3> QED BY <2>3, <2>4, <2>10, <3>1
  <2> QED BY <2>5, <2>6, <2>7, <2>8, <2>9, <2>10 DEF LaunchInv, TypeOK
<1> QED BY <1>1, <1>2, <1>3, InvInit, PTL DEF Spec, SessionSpec, Session!SSpec
=============================================================================
