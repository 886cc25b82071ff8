# Verification of omarchy-lightroom-cc

TLA+ models of the launcher `src/bin/omarchy-lightroom-cc` and of the helper and
the measuring tools beside it in `src/diagnostics/`, TLC runs that check them on
small instances, and TLAPS proofs, for every instance, of all that the runs check but
liveness. `PROJECT.json` lists components, runs, mutants, theorems, findings and
hazards, and maps each definition to the lines it models.

- [1. Inventory](#1-inventory)
- [2. The modules and the code](#2-the-modules-and-the-code)
- [3. Runs](#3-runs)
- [4. Proofs](#4-proofs)
- [5. Where code and documentation disagree](#5-where-code-and-documentation-disagree)
- [6. Not modelled](#6-not-modelled)
- [7. Plan](#7-plan)

## 1. Inventory

The program is one Python script without a daemon, with tools that are scripts
of their own. Every command is a process
of its own; what commands share is the disk (DATA, the Wine prefixes, the
cache) and the process table. Nothing is locked: two commands, or a command
and Lightroom, meet through files and through `/proc`. A command can be killed
anywhere, and raises anywhere (`run()` has `check=True`); what is on the disk
then stays, and the user issues the command again. So the hard behaviours are
check-then-act across processes, multi-step updates of the disk that stop
half-way, and marker files that say what was done. The tools measure a program
that does not know of them: they read `/proc` piece by piece, send keys that may
have no effect, and wait for events that do not say what they answer.

| Component | State | Operations | Depends on | Correct when |
|---|---|---|---|---|
| Launch and profiles (`main`, `launch`, `configure_profile`, `save_profile`, `conflicting_prefix_runtimes`, `wine`) | `launch-profile.json`; RUNTIME/PREFIX globals; the processes of the prefix | `run`, `cc`, `ui`, `stop`, `use-profile` | `/proc`, wineserver, helpers below | one runtime per prefix at a time; starting up ends |
| Animation preference (`sync_animations`) | the preferences file, `animation-profile.json` | part of each launch | Lightroom, which owns the file while it runs | the user's speed can be restored; nothing Lightroom saved is lost |
| Archive cache (`fetch`, `digest`) | `cache/<file>`, `cache/<file>.partial` | called by every command that installs | curl | what is returned has the pinned digest |
| Component repairs (`repair_dxvk`, `experiment_d2d`, `restore_d2d`, `repair_d3d12`, `repair_performance`) | DLLs, preferences, registry overrides, backup directories | one command each | wineserver, `wine reg` | the first original stays recoverable; no override without its DLL |
| Provisioning (`bootstrap`, `prepare`, `repair_vcrun`, `repair_browser`, `stage_lightroom`, `stage_proton`, `stage_staging`) | runtime directory, prefixes, `.prepared-<verb>`, `prepared.json` | one command each | fetch, winetricks, cp | markers promise only what is there; staged things are whole |
| Windows theme and display scale (`sync_theme`, `sync_display_scale`) | `theme.json`, `theme-backup/`, registry | part of each launch | reg export/import, hyprctl | the original registry is kept once, the marker follows the import |
| UI scheduling hint (`ui_hint_command`, `diagnostics/ui-scheduler.py`) | a child process of the launch, `/proc`, sched attributes | start, sample, raise, reset | pidfd-less process matching | only Lightroom's thread is raised, and lowered again |
| Environment policy (`runtime_env`) | none: a function of profile, runtime and environment | per Wine call | DXVK, MangoHud | one frame limiter, user settings win |
| Desktop dispatch, X11 check (`dispatch_desktop`, `check_x11`, `restore_xwayland_socket`) | the socket path in `/tmp/.X11-unix` | before a launch | Xwayland, hyprctl | a missing socket is relinked, an existing one left |
| Adobe payloads (`unpack_adobe`, `adobe_path`) | none | stage-lightroom, install-cc | lzma | paths stay inside, decoder parameters are right |
| Status, doctor, integrate | reads the others' state | one command each | | report what is there |
| Measurement recorders: `record-pan` | a gesture, MangoHud's log | hotkeys, timeouts, one log file | `isolated-input`, MangoHud | a complete result is the recording that was asked for; logging is left as it was |
| `menu-latency`, `menu-cpu-profile` | input sent, map events, intervals | open, wait for the map, close | `x11-menu-events` | a map is put down to its own request |
| `stall-trace`, `monitor`, `resources` | two passes over `/proc` | read, compare, report | kernel counters | a gain is one task's; waiting times were counted |
| `transition-latency`, `analyze-pacing`, `present-trace` | none: offline | score, attribute, percentiles | captures, logs | what is scored exists; frames belong to their phase |
| Isolated display fixtures (`run-loupe-background.py`, `loupe-background.c`, `isolated-input.py`, ...) | pipes, acknowledgement files, an X display of their own | start, drive, acknowledge | Wine, Weston | driver and fixture stay in step; status 0 is a promise |
| Windows and X11 probes (`diagnostics/*.c`) | none | call one interface, print | | |
| Component builds (`scripts/*.py`) | a build directory | fetch, patch, make, digest | | |

Interactions: a launch runs guard, display scale, theme, animations, hint
helper, program, in that order, in one process; `repair-*`, `prepare` and
`stage-*` change the prefix a launch uses; all installing commands share the
cache; profiles select the runtime whose processes the guard looks for. The hint
helper is a child of the launch that ends on its own, with Lightroom, or by
SIGTERM. `record-pan` and `menu-latency` run `isolated-input` once per key or
gesture; `menu-cpu-profile` reads what `menu-latency` wrote.

## 2. The modules and the code

Each component is a module; its `MC` module gives constants for TLC, and its
`Proofs` module holds the theorems. `RecorderProofs` has those of RecordPan, Pacing
and Samplers, `FixtureProofs` those of Menus, TransitionScore and LoupeProbe; a
module that is extended beside another one has names of its own for its
specification (`SamplersSpec`, `ProbeSpec` and so on). Operators named in a comment `Mutant:` are
not part of the model: each is a plausible bug of the action it precedes, and
shows that the property it is listed with in `PROJECT.json` depends on the code.

**Launch** (with **PrefixSession**, its abstract specification). A `Launchers`
slot is a live invocation; `pc` is the place in `main()`/`launch()`. `Invoke`
is the command line, `Select` is `saved_profile` with `configure_profile`,
`ListProcesses`/`ScanProcess`/`GuardPasses`/`GuardRefuses` are the one pass of
`conflicting_prefix_runtimes()` over `/proc` — the listing first, then each
process in turn, so that one may start or end in between. `Wine` is `wine()`: it
starts umu-run, a Python program that carries WINEPREFIX and maps no Wine, so the
guard does not see it (`Conflicts`, `:607-620`); some time later it `Boots`: its
client joins the running wineserver or starts its own. `Crash` kills the launcher
alone; what is booting then is `astray`, and comes up whatever happens meanwhile.
`StartHelper`/`HelperReturns` are the Wine calls of `sync_display_scale` and
`sync_theme`. The four calls of the theme (three exports and an import) are one export and one import.
`Raise` is any exception before the program starts. The
performance profile's component digests are the one boolean `genuine`, which
staging can flip. `PrefixSession` promises that a prefix changes runtime only
through a quiet prefix, and that a session which was left booting is unattended
until the prefix is quiet. `wineserver -k` is one step; it does not reach a umu-run.

**Animations**. `sync_animations()` step by step; `file` is the preferences
file as a speed plus a version of everything else, `app` is the copy Lightroom
holds while it runs. `CreateMarker` and `FillMarker` are the two writes of
`marker.open("x")`. Users choose non-zero speeds; Lightroom itself never
changes the speed. `serial` is history: no launch began while another one was
starting.

**Fetch**. One archive; paths name inodes, so that a rename and an open file
descriptor are told apart. `OpenPartial` truncates whatever `.partial` names.
Interrupting an invocation ends its curl as well (same process group); a curl
that outlives a killed launcher is not modelled.

**Repairs**. One command runs at a time, in the steps `Kill` (wineserver -k),
per file `CopyBegins`/`CopyEnds` (`shutil.copy2`, not atomic) or `SkipBackUp`,
`Replace` (copy beside, then rename), `Override` (`wine reg add`), then
`Finish`. `Turn` and the guards of `Replace` and `Override` give each command
its order: repair-d3d12 finishes one component with its registry value before
the next, repair-dxvk and experiment-d2d replace all and then register,
repair-performance backs up everything before it replaces anything. The order
of the files within a loop is left open. `Stops` is a kill, or an exception,
between any two steps. A file's content is only told apart by where it came
from: a prefix (Wine's own component), a repair, torn, or absent. `orig` is a
history variable, and so is `taken`, the prefix in which a backup was begun.
A repair in one prefix and the copies of it share the backup directories of
repair-dxvk and experiment-d2d under DATA/patches. Lightroom is not in the module: a
command looks for it at most once, before it ends the server (`Refused`), and
nothing keeps it away afterwards, so no property assumes or promises anything of
it; what Lightroom saves to its preferences between the read (`:956`) and the write
(`:986`) is lost, which the model does not show.

**Provision**. `prepare` with every marker it reads and writes, the two repairs
it contains (also as commands of their own), `stage-lightroom`, and the copy
of the prefix that `stage-staging` and `stage-proton` make. Each amount of
extraction or copying that later code can tell apart is a value; a prefix is
"begun" when there is a system.reg although wineboot, or the copy, was not finished,
and then no later `prepare` repeats wineboot (`:263`). Wine's own update of a prefix
that it finds half-made is not relied on. `WriteDll`/`DllWritten` are cabextract's
write of `msvcp140.dll` over the one that is there; `torn` is what a kill in between
leaves, and `reopened` (history) the DLLs written since `prepared.json`.

**UiHint**. `start_ui_hint()`, the end of `launch()`, and `ui-scheduler.py`, one
system call per action: `List`/`Look`/`ReadMaps` are the loop over `/proc` with
`matches()`, `ReadAffinity` ... `Restore` are `apply_hint()`. A process is
"selected" once the executable and the runtime are mapped, and cannot stop being
so but by ending (Wine does not `exec` another program in it). Attributes are
abstracted to nice, the minimum (none, the helper's, the user's), the reset flag
and whether the allowed CPUs are asymmetric. A pid that a helper works on is not
given to a new process between two of its calls unless `Reuse`.

**RecordPan**. `record-pan.py` with a clock in seconds. `Press` is the hotkey that
the helper sends: MangoHud polls its keys, so it toggles no, one or two times.
`HelperFails` is an error or a timeout, before or after the key press. `Finally`
is the finally clause; `Accepted` is `summarize()` and the count of files, with
the file's whole-second name as a tolerance of a second. A gesture begins within
`Slowest` seconds, takes ten or more, may fail or never end.

**LoupeProbe** (with **ProbeAnswers**, its abstract specification). The probe's
`check()` and the loop of the runner. A line of output is two pieces, so that a
chunk can end within a line; `files` are the `.tmp` and `.ack` of each sequence
number. The timeouts of both sides are choices without a clock: the probe's
fifteen seconds are less than what settling, capture and conversion may take
together (0.3 + 10 + 10), so every race of the two can happen. `ProbeAnswers`
promises that what the probe notes of a check is the verdict of that check.

**Menus**. `menu-latency.py`: the clock moves with every helper; Lightroom handles
its input in order, and the menu it is at maps its windows one by one
(`MapWindow`), before and after the runner has sent more; the observer
stamps windows in the order in which they were mapped. `Intervals`, `Orderly`
and `Holding` are what `menu-cpu-profile.py` makes of the result, `Disjoint` and
`ModulesAt` its image ranges.

**Samplers**. `stall-trace.py` and `monitor.py` with `resources.py` are two orders
of the same reads, told apart by `tool`: the trace reads a start time and then the
counters, the monitor looks at the environment and then reads both in one line,
and drops the entry if a later read fails. `work` stands for every counter of a
task. `stats` is `sched_schedstats`, with its history from the last counter of a
pass to the first of the next, which is the interval that a reported delta is about;
`Runqueue` says whether a delta is reported and whether it was counted all the while.

**TransitionScore** and **Pacing** are operators only: `score()` of
`transition-latency.py`, and the percentiles and the dating of frames in
`record-pan.py`, `analyze-pacing.py` and `present-trace.py`. They are evaluated on
bounded inputs by ASSUMEs of `MCMenus` and `MCRecordPan`, against a reference
definition where there is one (`LeastOfShare` of a nearest rank), and proved about
for lists of every length.

## 3. Runs

| Run | Instance | Shows |
|---|---|---|
| launch | 3 invocations, 2 runtimes, run/stop/use-profile, no overlapping launches, killed anywhere | `SingleRuntime` but of what a killed launcher left booting; the launcher implements `PrefixSession` |
| launch_startup | 2 overlapping invocations of run, cc, ui, stop | `StartupEnds` under fairness |
| animations | 2 overlapping launches, 2 speeds | `OffIsReversible`, `MarkerSticks`; `SkipsRunning`, `OtherPreferencesKept` of launches one after the other |
| fetch | 2 invocations one at a time, 2 chunks, 3 inodes | `VerifiedUse`, `PromotesPinned` |
| repairs | repair-dxvk, experiment-d2d, restore-d2d, repair-performance on `dxgi`, `d2d1`, `prefs`, in a prefix and in a copy of it made at any time | originals recoverable but for shared directories, finished backups kept, overrides have payloads, restore rolls back |
| repairs_torn (violation) | 2 prefixes, repair-d3d12 | `RetainedWhole` fails |
| provision | 2 prefixes, 2 verbs, both architectures of the VC runtime | `PreparedComplete`, `AppWhole` |
| ui_hint | 2 launches, 1 pid, 1 change by the user | only the selected main thread is raised, nothing left raised in silence, helpers end |
| record_pan | limits 2 and 4, logging on or off before | `CompleteSound`, `LoggingRestored`, `RecorderEnds` |
| loupe_probe | 4 checks | refines `ProbeAnswers`; `ExitSound`, `CaptureAnswered` |
| menus | 4 openings, up to 2 windows each | `OwnMap`, `CompleteProfiles` |
| samplers | 2 ids, 4 tasks | `GainsOfOneTask` |

Bounds. Two runtimes suffice for a conflict; three invocations are a launch, a
live session and a command that interferes. Two speeds tell a restored value
from another. Two chunks make a half-overwritten download; three inodes are
the cached file, the one being renamed and a new one. In `repairs` the three files are one
that two repairs replace (`dxgi`), one that is restored (`d2d1`) and the one
written in place (`prefs`); repair-d3d12, which replaces none of them, is in
`repairs_torn`. Three constraints of `MCRepairs` keep the product of two prefixes in
TLC's reach, and cut no interaction of what the properties relate: a behaviour
repairs `d2d1` or the two other files (`OneKind`; they have no command, backup or
registry value in common, and each property is of one file at a time); where `dxgi`
was missing at first there is no copy (`MissingOnce`; nothing of it can be lost); the
preferences are replaced in one of the prefixes (`PrefsOnce`; their backups are per
prefix). The theorems have no such limit. Two verbs are one
marked and one not. `MaxSaves` and `MaxEdits` bound how often Lightroom saves
and a user edits; one and two are enough for a stale copy to overwrite a newer
one and for a choice to follow a choice. Symmetry is used for interchangeable
launchers, inodes and verbs, and in no run with a liveness property.

Two helpers and one pid are two helpers on one thread, one pid that is used again
and again, and a user who interferes. In `record_pan` the timeouts of the code, 5
and 15 seconds, are 2 and 4: what matters is whether a helper's time, the gesture
and the fixed five seconds overlap, and a gesture of ten seconds still ends
before, in and after the waits; the theorems hold for every limit. Four checks are the first, two that follow each
other and the last; four openings are two of each kind of request. Two ids with
four tasks let both be used again, or one of them three times.

Deadlock is checked where the system is not over at some time: a user can always
issue a command. The tools (`record_pan`, `loupe_probe`, `menus`, `samplers`) end, and
their runs say `CHECK_DEADLOCK FALSE`.

Assumptions on use. `Overlap = FALSE` in Launch and Fetch, and the history
variable `serial` in Animations, say that a user does not begin a launch (a fetch)
while another one is still starting (running). The code does not enforce it; the
safety of the guard and of the shared `.partial` rests on it, and the theorems
make it explicit. `Prompt` in Menus: the windows of a menu are all mapped, and the
observer has stamped them, before the next opening is requested, 0.3 seconds and
three processes after the first of them was taken.
`Reuse = FALSE` in UiHint and Samplers: a pid is not given away again within the
microseconds between two calls of a tool that works on it; between two passes, or
between two tasks, it is.
`Preparable = {Base}` says that only DATA/prefix is prepared.

Fairness. In `launch_startup` a launcher that is not killed keeps executing, and
`reg add/export/import` end: both are what a scheduler and short-lived programs
give. Nothing is assumed of users, of Lightroom, of the background processes it
leaves, or of the server's idle timeout, so `StartupEnds` shows that starting up
never waits for them; the mutant, Proton's `waitforexitandrun`, does. In `ui_hint` a
helper runs, and a pass that finds nothing is, some time, one that finds the
deadline over (strong fairness of `GiveUp`: the clock goes on). In `record_pan` the
recorder runs and time goes by; neither the gesture nor a hotkey helper is
promised to end. In `loupe_probe` both programs run; no timeout is relied on but the
runner's last one, since `CaptureAnswered` must not be an effect of giving up.

## 4. Proofs

All hold for every value of the constants allowed by the named assumptions.

- `LaunchProofs`. `TypeCorrect` needs nothing. `LaunchSafe` (`SingleRuntime`) and
  `LaunchImplementsSession` assume that launches do not overlap and that no unguarded
  command (`ui`) is used, and speak of the prefix while it is not `astray`: nothing is
  promised of the runtimes that come up after a launcher was killed while its
  umu-run was booting, until the prefix has been quiet. `SingleRuntime` is not
  inductive, because the guard decides on a listing that is older than the decision,
  and does not see what is booting. The invariant adds that at most one launch is
  starting, that every client that is up has a server, and, until a launcher goes
  astray, that whatever boots belongs to a launcher that waits for it, that a scan
  has each server still in its `todo`, or has set its `clash`, or the server is of
  its runtime, and that once it has passed, every process is; so no other runtime
  can have come in since it looked.
- `AnimationsProofs`. `AnimationsReversible` (`OffIsReversible`) and
  `AnimationsMarkerSticks`, for overlapping launches killed anywhere. The
  invariant adds that a launch about to edit has read a marker that still
  stands, and that a launch between create and fill is the only one there.
  `AnimationsSkipsRunning` and `AnimationsOtherPreferencesKept` rest on `InTurn`,
  which is about launches one after another: one at most is at work, Lightroom has
  not started since it looked nor the file changed since it read it, and
  Lightroom's memory is not behind the file.
- `FetchProofs`. `FetchVerified` and `FetchPromotesPinned`, for downloads of
  any length, if fetches do not overlap. The invariant adds that the chunks
  below `pos` are those the server delivered, and that the verified partial
  file is still the pinned one at the rename.

- `RepairsProofs`, for any prefixes, files and commands, killed anywhere. None of its
  theorems has an assumption. `RepairsOriginalRecoverable`: the invariant is that
  whatever differs from its original is saved or was passed over for a backup taken
  elsewhere, that a file is saved before it is due to be replaced, and that a
  running copy either holds the original or is not its only copy.
  `RepairsNativeHasPayload` adds that a component is registered only after it was
  replaced. `RepairsRestoreRollsBack`: a backup holds the original of the prefix in
  which it was taken or is cut short, and what a restore has put back and
  unregistered stays so until it ends.
- `ProvisionProofs`. `ProvisionPrepared` and `ProvisionAppWhole` assume
  `BaseOnly`. The invariant ties what is installed, and what can be torn, to where
  `prepare`, or a repair by itself, is. It says of wineboot only that there is a
  system.reg; that wineboot finished is not true and not claimed.

- `UiHintProofs`. `TypeCorrect` needs nothing; `OnlyTheMainThread`
  (`WorkersNotRaised`), `OnlyTheSelected` (`RaisedSelected`), `NoHelperStays` and
  `NothingLeftRaised` (`RaisedIsReported`) assume `~Reuse`. The invariant says what a helper between two
  calls may rely on: from `affinity` on, its target is selected or gone; at
  `check` a minimum that is the helper's comes with the reset flag; a minimum that
  no ended helper accounts for belongs to a helper that is still at work on it.
  `NoHelperStays`: a launch that ends without an error leaves no helper.
- `RecorderProofs`, of `record-pan` for every value of the limits. `RecordPanSound`
  (`CompleteSound`): the invariant follows the one file from the hotkey that
  created it and bounds its dates by the phases; the one file is
  either the start hotkey's own, or it begins at least five seconds after the
  start phase, and the recorder's test that the log begins within a second of
  that phase rejects the second kind. `RecordPanRestored` (`LoggingRestored`) relates `started`, the place of the
  recorder and the real state of the log. `RecordPanAccounted`: a gesture that
  still holds its button at the end is in the result.

  Of the percentiles: `NearestIsPercentile` (`LeastOfShare`), `NearestOrdered` and
  `InterpolatedOrdered`: a nearest rank is what a percentile is, and percentiles of
  either kind are in order and within the list. `FramesOfPhase`: trimming a second
  at both ends makes up for a log name without fractions.

  Of the samplers, for any ids and tasks: `SamplersGains` (`GainsOfOneTask`) assumes
  `~Reuse`; the types, which say that no gain is negative, assume nothing. A reading
  is of a task that has started and has no more than that task has now; its start
  time is the task's own for the monitor, which takes both in one line, and for the
  trace if the id was not reused in between. The I/O of a process has no start time:
  the invariant `IoOf` says that the traced process is not replaced between its identification and the end of the
  pass.
- `FixtureProofs`, of the probe for any number of checks. `ProbeExitSound`
  (`ExitSound`) and `ProbeImplementsAnswers` (`Refines`) share an invariant: there
  is at most one request in the pipe and what was read of it, the last thing the
  probe wrote, for its latest check; the runner has a row for each check, or for
  all but the one the probe asks for; an acknowledgement that exists is complete and
  the latest row's, and is gone before the next check is drawn. So an answer that
  comes after the probe's timeout is not taken for the next check's. A step of
  either program is then one of ProbeAnswers' or a stutter.

  Of the menus, for any openings and windows: `MapsOwned` (`OwnMap`) assumes
  `Prompt`. The invariant says that an opening which Lightroom is not done with is
  the latest, that so is what is mapped, and that a line which the runner does not
  skip is the latest request's. `CompleteProfiled` (`CompleteProfiles`) does not need it:
  a map, whoever caused it, is stamped between its request and the next.
  `OneModule`: no address is in two images of a list that is sorted and passes the
  check of `pe_modules()`.

  Of the transitions: `ScoreOrdered`: in what `score()` scores, a settled frame exists,
  so `next()` finds one, and it is not before the first change; this rests on the
  triangle inequality and on the thresholds 2, 5 and 10.

Each inductive invariant was checked by TLC on the instance of its run, or a smaller
one, before it was proved. Left to TLC are the liveness properties `StartupEnds`,
`HelperEnds`, `RecorderEnds` and `CaptureAnswered`, since ENABLED is out of the
prover's reach; every invariant and every action property of the passing runs, and
both refinements, are proved.

## 5. Where code and documentation disagree

The run *repairs_torn* (`expect: violation`) shows that a backup which was cut short
counts as the backup; `PROJECT.json` quotes the lines. The others have no run:

- docs/launch-profiles-2026-09-20.md:30 says "The launcher never starts a new
  runtime over live processes from a different runtime." A launcher that is killed
  just after it started umu-run leaves a process that the guard does not count
  (`:607-620`); the next launch, of the other profile, passes, and both runtimes come
  up. `NeverOverForeign` of Launch says what the document says, and TLC refutes it on
  the instance of `launch` in a few seconds. It fails, too, when two launches of
  different profiles overlap (`Overlap = TRUE`: both find the prefix empty), and with
  an unguarded command.
- `:709` prints "original value preserved". The marker keeps the speed before the
  first "off" only; a speed chosen before a second one is overwritten and kept
  nowhere.
- A prefix copy that was cut short is reported as staged (`:240`, `:203`).
- ui-scheduler.py:69 says "Preserve user/application scheduling choices". When
  the read-back fails, `:86` sets the minimum to 0, also one that the user has set
  since `:70`. With `Reuse = TRUE`, `RaisedSelected` fails: the helper goes by pid.
- record-pan.py: a hotkey helper that fails after its key press leaves logging on
  without `logging_state_unknown`, or makes the finally clause toggle it on again.
  isolated-input.py:101 says "Send during active rendering", but the toggle of the
  finally clause may be sent when the gesture is over. A stop hotkey without
  effect can still give a complete result, if the log's last frame is written
  within seven seconds.
- loupe-background.c waits fifteen seconds for an answer that the runner may take
  twenty seconds to give; the runner goes on reading until the last Wine process
  closes the pipe or its 120 seconds are over.
- stall-trace.py:37 says "Never present their unchanged values as evidence that
  runnable threads did not wait." The flag is looked at (`:84`) after the counters of
  a pass were read (`:81`): switched on in between, it is set at this look and at the
  next, and the next pass reports a waiting time over an interval whose beginning was
  not counted. Off and on again between two looks does the same. `WaitsCounted` of
  Samplers says what the comment says; TLC refutes it on the instance of `samplers`.
- menu-latency.py: without `Prompt`, a second window of an opening that is stamped
  after the next request counts as that request's map.

Met while reading, without a run of their own: `ui` and the repairs run Wine
without the guard, so after `use-profile` they can start the new runtime over
the old one's session (`:1228`). `stop` followed by `repair-dxvk`, as
docs/setup.md:44-45 has it, fails: `wineserver -k` returns 1 without a server
and `:368` takes that for an error (`:1022` does not). repair-d3d12 repeated
where a component was missing at first backs up its own payload (`:1029`).
`bootstrap()` takes `bin/wine` for the whole runtime (`:77`). `prepare` takes
`system.reg` for a finished wineboot (`:263`), so that `prepared.json` may stand over
a prefix whose wineboot was cut short. `repair-vcrun` by itself leaves `prepared.json`
in place while it overwrites DLLs (`:295`), and a kill leaves a torn one under it.
`prepared.json` and the verbs' markers describe one prefix and are read for all
(`:272`, `:478`). repair-dxvk and experiment-d2d in a second prefix find the backups
of the first and save nothing: the second prefix's own components are lost, and
restore-d2d installs those of the first (`:375`, `:506`). repair-performance looks for
Lightroom once, the other repairs do not: one that is started while a repair runs is
killed, or has its components replaced under it (`:950`). `sync_animations()` looks for
Lightroom before it reads the preferences and not again (`:660`). Two
invocations that fetch one archive share its `.partial`: the curl of one
truncates the file that the other has verified and is about to rename (`:63`;
`Overlap = TRUE` in MCFetch shows it in seconds).

## 6. Not modelled

Windows and X11 probes, the builds, status/doctor/integrate, `frame-sample` and the
host state in `monitor` have no state that steps of two actors can spoil. The theme
is two helpers of the launch; its marker is written after the import, and its
backups by `reg export`, whose partial results are outside this code.
`restore_xwayland_socket()` links with one call that fails harmlessly when
somebody was faster. `runtime_env` and the LZMA parameters are functions that a unit test
enumerates. `headless-session` stages packages much as `fetch` does, but renames the
download before it verifies it and verifies the archive on every call; it then
starts a compositor. The LZMA decoder, winetricks, Proton and
Wine are outside the repository; of Wine the models keep only that a client joins
or starts the prefix's server and what `wineserver -k` returns. Values in the
registry other than DLL overrides, and the copy of `user.reg` that is never read
back, are left out. A crash of the machine (unsynced writes) is not modelled,
only of processes. GPU engine counters of `monitor` are compared as the CPU's are, per
DRM client, and are not told apart; the file format of `present-trace` is not
modelled.

## 7. Plan

1. (done) Launch with PrefixSession; Animations; Fetch; Repairs; Provision.
2. (done) UiHint; RecordPan; LoupeProbe with ProbeAnswers; Menus; Samplers;
   TransitionScore and Pacing.
3. (done) Proofs of every invariant, action property and refinement of the runs.
4. What is left: the bound on starting up as a safety property (a measure that each
   step of a launch decreases), as far as it goes without ENABLED, for
   `StartupEnds`; and the same for `HelperEnds` and `CaptureAnswered`.
