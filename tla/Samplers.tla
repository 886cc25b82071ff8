------------------------------ MODULE Samplers ------------------------------
(***************************************************************************)
(* The two samplers of /proc: diagnostics/stall-trace.py, which follows    *)
(* the threads of one Lightroom, and monitor.py over resources.py, which   *)
(* follows the processes of a prefix.  Either takes one pass after the     *)
(* other over tasks that come and go, a task in several reads, and         *)
(* reports what cumulative counters gained between two passes.             *)
(***************************************************************************)
EXTENDS Naturals

CONSTANTS
  Tasks,      \* task ids: of threads for the trace, of processes for the monitor
  Main,       \* the main thread, whose id is that of the traced process
  None,       \* no id
  MaxStarts,  \* how many tasks start in all
  MaxWork,    \* bound of a counter
  Reuse       \* may a task id be reused while the trace is half-way through it?

ASSUME SamplersAssumption ==
  /\ Main \in Tasks
  /\ None \notin Tasks
  /\ MaxStarts \in Nat \ {0} /\ MaxWork \in Nat
  /\ Reuse \in BOOLEAN

VARIABLES
  task,    \* the task that each id names: its start time, its counters, and whether it
           \* is a thread of the traced process, or a process of the prefix
  starts,  \* tasks started so far, the start time of the next one
  stats,   \* sched_schedstats: its value; whether it was ever off since a pass had
           \* read its last counter; and whether it was, before the next pass read
           \* its first (history)
  tool,    \* "trace" or "monitor"
  place,   \* where it is
  todo,    \* the ids it has yet to read in this pass
  entry,   \* the id it is reading, and the start time it has read
  before,  \* the previous pass
  after,   \* this pass
  io,      \* the process's I/O counters: this pass's and the previous one's
  enabled, \* the flag as it was read last
  later,   \* is there a previous pass?
  rows     \* what the last pass reported

world == <<task, starts, stats>>
pass == <<todo, entry, before, after, io>>
samplersVars == <<world, tool, place, pass, enabled, later, rows>>

(* work stands for each counter that only grows while a task lives. *)
Living == [start : 0..MaxStarts, work : 0..MaxWork, ours : BOOLEAN]
Gone == [start |-> 0, work |-> 0, ours |-> FALSE]

(* What a row says of a thread's waiting time: nothing; that it was counted *)
(* all the while; or that it was, when it was not (history).                *)
Waits == {"none", "counted", "partly"}

(* A reading: what was read as the start time, the counter, and, as        *)
(* history, whose counter it is.  0 is no start time.                      *)
Reading == [start : 0..MaxStarts, work : 0..MaxWork, of : 0..MaxStarts]
Nothing == [start |-> 0, work |-> 0, of |-> 0]
Empty == [t \in Tasks |-> Nothing]

SamplersTypeOK ==
  /\ task \in [Tasks -> Living] /\ starts \in 0..MaxStarts
  /\ stats \in [on : BOOLEAN, off : BOOLEAN, gap : BOOLEAN]
  /\ tool \in {"trace", "monitor"}
  /\ place \in {"first", "check", "begin", "scan", "read", "name", "io", "flag", "sleep",
               "ended"}
  /\ todo \subseteq Tasks
  /\ entry \in [id : Tasks \cup {None}, start : 0..MaxStarts]
  /\ before \in [Tasks -> Reading] /\ after \in [Tasks -> Reading]
  /\ io \in [before : Reading, after : Reading]
  /\ enabled \in BOOLEAN /\ later \in BOOLEAN
  /\ rows \subseteq [id : Tasks, from : 1..MaxStarts, to : 1..MaxStarts, gain : 0..MaxWork,
                     kind : {"cpu", "io"}, runqueue : Waits]
  /\ tool = "trace" => place # "name"

Alive(t) == task[t].start # 0

(* The trace finds a thread in the directory of its process, the monitor a *)
(* process by its environment.                                             *)
Listed(t) == IF tool = "trace" THEN Alive(Main) /\ Alive(t) /\ (t = Main \/ task[t].ours)
                               ELSE task[t].ours

SamplersInit ==
  /\ task = [t \in Tasks |-> IF t = Main THEN [start |-> 1, work |-> 0, ours |-> TRUE] ELSE Gone]
  /\ starts = 1
  /\ \E on \in BOOLEAN : stats = [on |-> on, off |-> ~on, gap |-> FALSE]
  /\ tool \in {"trace", "monitor"}
  /\ place = IF tool = "trace" THEN "first" ELSE "begin"
  /\ todo = {} /\ entry = [id |-> None, start |-> 0]
  /\ before = Empty /\ after = Empty
  /\ io = [before |-> Nothing, after |-> Nothing]
  /\ enabled = FALSE /\ later = FALSE
  /\ rows = {}

-----------------------------------------------------------------------------
(* The tasks, and the administrator. *)

(* Is the trace between two reads of one task, or between identifying its  *)
(* process and reading it for the last time in this pass?                  *)
HalfRead(t) ==
  /\ tool = "trace"
  /\ t = entry.id \/ (t = Main /\ place \in {"begin", "scan", "read", "io"})

TaskStarts ==
  \E t \in Tasks, ours \in BOOLEAN :
    /\ ~Alive(t) /\ starts < MaxStarts
    /\ HalfRead(t) => Reuse
    /\ task' = [task EXCEPT ![t] = [start |-> starts + 1, work |-> 0, ours |-> ours]]
    /\ starts' = starts + 1
    /\ UNCHANGED <<stats, tool, place, pass, enabled, later, rows>>

(* A process takes its threads with it. *)
TaskEnds ==
  \E t \in Tasks :
    /\ Alive(t)
    /\ task' = [u \in Tasks |-> IF u = t \/ (tool = "trace" /\ t = Main) THEN Gone ELSE task[u]]
    /\ UNCHANGED <<starts, stats, tool, place, pass, enabled, later, rows>>

TaskWorks ==
  \E t \in Tasks :
    /\ Alive(t) /\ task[t].work < MaxWork
    /\ task' = [task EXCEPT ![t].work = @ + 1]
    /\ UNCHANGED <<starts, stats, tool, place, pass, enabled, later, rows>>

StatsSwitched ==
  /\ tool = "trace"
  /\ stats' = [stats EXCEPT !.on = ~@, !.off = TRUE]
  /\ UNCHANGED <<task, starts, tool, place, pass, enabled, later, rows>>

-----------------------------------------------------------------------------
(* One pass. *)

(* The trace reads the flag before its first pass. *)
FirstFlag ==
  /\ place = "first"
  /\ enabled' = stats.on
  /\ place' = "begin"
  /\ UNCHANGED <<world, tool, pass, later, rows>>

\* Mutant: the process is not identified again.
CheckAlive ==
  /\ place = "check"
  /\ place' = IF Alive(Main) THEN "begin" ELSE "ended"
  /\ UNCHANGED <<world, tool, pass, enabled, later, rows>>

(* The trace ends with its process, whose start time identifies it. *)
CheckIdentity ==
  /\ place = "check"
  /\ place' = IF task[Main].start = 1 THEN "begin" ELSE "ended"
  /\ UNCHANGED <<world, tool, pass, enabled, later, rows>>

BeginPass ==
  /\ place = "begin"
  /\ todo' = Tasks /\ after' = Empty
  /\ stats' = [stats EXCEPT !.gap = stats.off]
  /\ place' = "scan"
  /\ UNCHANGED <<task, starts, tool, entry, before, io, enabled, later, rows>>

(* The first read: of stat for the trace, of environ for the monitor. *)
ReadFirst ==
  /\ place = "scan"
  /\ \E t \in todo :
       /\ todo' = todo \ {t}
       /\ IF Listed(t)
            THEN entry' = [id |-> t, start |-> IF tool = "trace" THEN task[t].start ELSE 0]
                 /\ place' = "read"
            ELSE UNCHANGED <<entry, place>>
  /\ UNCHANGED <<world, tool, before, after, io, enabled, later, rows>>

(* The second read: of schedstat for the trace, of stat, with start time   *)
(* and counters in one line, for the monitor.  A task that is gone has no  *)
(* entry.                                                                  *)
ReadSecond ==
  /\ place = "read"
  /\ LET t == entry.id
         start == IF tool = "trace" THEN entry.start ELSE task[t].start
     IN IF Alive(t) /\ (tool = "trace" => Listed(t))
          THEN /\ after' = [after EXCEPT ![t] = [start |-> start, work |-> task[t].work,
                                                 of |-> task[t].start]]
               /\ place' = IF tool = "trace" THEN "scan" ELSE "name"
          ELSE UNCHANGED after /\ place' = "scan"
  /\ entry' = IF place' = "name" THEN entry ELSE [id |-> None, start |-> 0]
  /\ UNCHANGED <<world, tool, todo, before, io, enabled, later, rows>>

(* The monitor's further reads, comm the last of them, drop the entry of a *)
(* task that is gone.                                                      *)
ReadName ==
  /\ place = "name"
  /\ after' = IF Alive(entry.id) THEN after ELSE [after EXCEPT ![entry.id] = Nothing]
  /\ entry' = [id |-> None, start |-> 0]
  /\ place' = "scan"
  /\ UNCHANGED <<world, tool, todo, before, io, enabled, later, rows>>

EndScan ==
  /\ place = "scan" /\ todo = {}
  /\ place' = IF tool = "trace" THEN "io" ELSE "flag"
  /\ stats' = [stats EXCEPT !.off = ~stats.on]
  /\ UNCHANGED <<task, starts, tool, pass, enabled, later, rows>>

(* process_io() is empty when the process is gone. *)
ReadIo ==
  /\ place = "io"
  /\ io' = [io EXCEPT !.after = [start |-> 0, work |-> task[Main].work, of |-> task[Main].start]]
  /\ place' = "flag"
  /\ UNCHANGED <<world, tool, todo, entry, before, after, enabled, later, rows>>

-----------------------------------------------------------------------------
(* What two passes tell. *)

\* Mutant: the passes are swapped.
RowSwapped(t, old, new, kind, runqueue) ==
  [id |-> t, from |-> old.of, to |-> new.of, gain |-> old.work - new.work,
   kind |-> kind, runqueue |-> runqueue]

Row(t, old, new, kind, runqueue) ==
  [id |-> t, from |-> old.of, to |-> new.of, gain |-> new.work - old.work,
   kind |-> kind, runqueue |-> runqueue]

SameTask(old, new) == new.start # 0 /\ old.start = new.start

(* The trace leaves out a counter that went back. *)
Deltas(runqueue) ==
  {Row(t, before[t], after[t], "cpu", runqueue) :
     t \in {u \in Tasks : SameTask(before[u], after[u])
                          /\ (tool = "trace" => after[u].work >= before[u].work)}}

IoDeltas ==
  {Row(Main, io.before, io.after, "io", "none") : present \in
     {TRUE} \cap {io.before.of # 0 /\ io.after.of # 0 /\ io.after.work >= io.before.work}}

(* Waiting times are reported if the flag was set when it was looked at    *)
(* after the previous pass, and is again.  Whether schedstats counted all  *)
(* the time between the two passes is another question.                    *)
Runqueue ==
  CASE ~(enabled /\ stats.on) -> "none"
    [] enabled /\ stats.on /\ stats.gap -> "partly"
    [] OTHER -> "counted"

KeepPass ==
  /\ before' = after /\ after' = Empty
  /\ io' = [before |-> io.after, after |-> Nothing]
  /\ later' = TRUE /\ place' = "sleep"
  /\ UNCHANGED <<task, starts, tool, todo, entry>>

(* The first pass is only remembered. *)
Remember ==
  /\ place = "flag" /\ ~later
  /\ KeepPass
  /\ UNCHANGED <<stats, enabled, rows>>

(* Each further one is compared with the one before; the trace reads the   *)
(* flag once more.                                                         *)
Report ==
  /\ place = "flag" /\ later
  /\ IF tool = "trace"
       THEN rows' = Deltas(Runqueue) \cup IoDeltas /\ enabled' = stats.on
       ELSE rows' = Deltas("none") /\ UNCHANGED enabled
  /\ KeepPass
  /\ UNCHANGED stats

(* The next pass, or the end of the time. *)
Sleep ==
  /\ place = "sleep"
  /\ place' \in {IF tool = "trace" THEN "check" ELSE "begin", "ended"}
  /\ rows' = {}
  /\ UNCHANGED <<world, tool, pass, enabled, later>>

SamplersNext ==
  \/ TaskStarts \/ TaskEnds \/ TaskWorks \/ StatsSwitched
  \/ FirstFlag \/ CheckIdentity \/ BeginPass \/ ReadFirst \/ ReadSecond \/ ReadName
  \/ EndScan \/ ReadIo \/ Remember \/ Report \/ Sleep

SamplersSpec == SamplersInit /\ [][SamplersNext]_samplersVars

-----------------------------------------------------------------------------
(* Properties. *)

(* A gain that is reported for a task is a difference of two counters of   *)
(* that task, however often its id was reused between the passes, and, for *)
(* the monitor, within them.  That goes for a process's I/O, too, which    *)
(* has no start time of its own to compare.                                *)
GainsOfOneTask == \A r \in rows : r.from = r.to

(* "Never present their unchanged values as evidence that runnable threads *)
(* did not wait": a waiting time is reported only if schedstats counted    *)
(* all the while from the last counter of one pass to the first of the     *)
(* next.                                                                   *)
WaitsCounted == \A r \in rows : r.runqueue # "partly"
=============================================================================
