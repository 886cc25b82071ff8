------------------------------- MODULE Menus -------------------------------
(***************************************************************************)
(* diagnostics/menu-latency.py: a series of menu openings, each one timed  *)
(* from the submission of its input to the MapNotify that x11-menu-events  *)
(* stamps.  Lightroom handles its input in order and as late as it likes,  *)
(* and nothing in a map event says which request it answers.  The result   *)
(* is what menu-cpu-profile.py cuts its samples with.                      *)
(***************************************************************************)
EXTENDS Naturals, Sequences

CONSTANTS
  Openings,  \* the number of openings, twice the pairs
  Windows,   \* how many windows a menu may map
  Prompt     \* are a menu's windows all mapped and stamped before the next
             \* request, 0.3 seconds and three processes after the first?

ASSUME MenuAssumption ==
  /\ Openings \in Nat \ {0}
  /\ Windows \in Nat \ {0}
  /\ Prompt \in BOOLEAN

VARIABLES
  now,     \* the clock; it moves on with every input helper
  input,   \* the input Lightroom has not handled: an opening, or 0 for Escape
  shown,   \* how many windows the menu has mapped that Lightroom is opening
  mapped,  \* the windows that were mapped and not yet stamped, by opening
  lines,   \* the observer's stamped lines that the runner has not taken
  alive,   \* has the observer not ended?
  pc,      \* where the runner is
  rows     \* the openings measured: the start of the input and the map

fixture == <<input, shown, mapped, lines, alive>>
vars == <<now, fixture, pc, rows>>

Stamped == [of : 1..Openings, stamp : Nat]
NoMap == [of |-> 0, stamp |-> 0]

TypeOK ==
  /\ now \in Nat
  /\ input \in Seq(0..Openings)
  /\ shown \in 0..Windows
  /\ mapped \in Seq(1..Openings)
  /\ lines \in Seq(Stamped)
  /\ alive \in BOOLEAN
  /\ pc \in {"request", "wait", "close", "complete", "incomplete"}
  /\ rows \in Seq([start : Nat, map : Stamped \cup {NoMap}])
  /\ Len(rows) <= Openings

Init ==
  /\ now = 0
  /\ input = <<>> /\ shown = 0 /\ mapped = <<>> /\ lines = <<>> /\ alive = TRUE
  /\ pc = "request" /\ rows = <<>>

-----------------------------------------------------------------------------
(* Lightroom and the observer. *)

(* The menu that Lightroom is opening maps one window, or one more. *)
MapWindow ==
  /\ input # <<>> /\ Head(input) # 0 /\ shown < Windows
  /\ mapped' = Append(mapped, Head(input))
  /\ shown' = shown + 1
  /\ UNCHANGED <<now, input, lines, alive, pc, rows>>

(* It is done with one input, if with no window at all, and turns to the   *)
(* next; the runner may have sent that long before.                        *)
HandleInput ==
  /\ input # <<>>
  /\ input' = Tail(input) /\ shown' = 0
  /\ UNCHANGED <<now, mapped, lines, alive, pc, rows>>

(* The time is the observer's own, when it receives the event. *)
Stamp ==
  /\ alive /\ mapped # <<>>
  /\ lines' = Append(lines, [of |-> Head(mapped), stamp |-> now])
  /\ mapped' = Tail(mapped)
  /\ UNCHANGED <<now, input, shown, alive, pc, rows>>

(* It lives for sixty seconds. *)
ObserverEnds ==
  /\ alive
  /\ alive' = FALSE
  /\ UNCHANGED <<now, input, shown, mapped, lines, pc, rows>>

-----------------------------------------------------------------------------
(* The runner. *)

This == rows[Len(rows)]

(* The helper takes the time before it sends its input. *)
Request ==
  /\ pc = "request"
  /\ Prompt => mapped = <<>> /\ \A k \in DOMAIN input : input[k] = 0
  /\ now' = now + 1
  /\ input' = Append(input, Len(rows) + 1)
  /\ rows' = Append(rows, [start |-> now + 1, map |-> NoMap])
  /\ pc' = "wait"
  /\ UNCHANGED <<shown, mapped, lines, alive>>

(* A helper exits with an error, before or after it sent its input. *)
HelperFails ==
  /\ pc \in {"request", "close"}
  /\ input' \in {input, Append(input, IF pc = "close" THEN 0 ELSE Len(rows) + 1)}
  /\ pc' = "incomplete"
  /\ UNCHANGED <<now, shown, mapped, lines, alive, rows>>

(* An event from before this request belongs to an earlier one. *)
SkipEarlier ==
  /\ pc = "wait" /\ lines # <<>>
  /\ Head(lines).stamp < This.start
  /\ lines' = Tail(lines)
  /\ UNCHANGED <<now, input, shown, mapped, alive, pc, rows>>

\* Mutant: the first event in the queue is taken.
TakeFirst ==
  /\ pc = "wait" /\ lines # <<>>
  /\ rows' = [rows EXCEPT ![Len(rows)].map = Head(lines)]
  /\ lines' = Tail(lines)
  /\ pc' = "close"
  /\ UNCHANGED <<now, input, shown, mapped, alive>>

TakeMap ==
  /\ pc = "wait" /\ lines # <<>>
  /\ Head(lines).stamp >= This.start
  /\ rows' = [rows EXCEPT ![Len(rows)].map = Head(lines)]
  /\ lines' = Tail(lines)
  /\ pc' = "close"
  /\ UNCHANGED <<now, input, shown, mapped, alive>>

\* Mutant: after its wait the runner goes on to close the menu and to the next.
TimesOutGoesOn ==
  /\ pc = "wait" /\ lines = <<>>
  /\ pc' = "close"
  /\ UNCHANGED <<now, fixture, rows>>

(* Five seconds without a map of this request, or the end of the observer: *)
(* no other request is sent.                                               *)
TimesOut ==
  /\ pc = "wait"
  /\ pc' = "incomplete"
  /\ UNCHANGED <<now, fixture, rows>>

\* Mutant: the series has one opening too many.
CloseLate ==
  /\ pc = "close"
  /\ now' = now + 1
  /\ input' = input \o <<0, 0>>
  /\ pc' = IF Len(rows) > Openings THEN "complete" ELSE "request"
  /\ UNCHANGED <<shown, mapped, lines, alive, rows>>

(* Escape, twice, then the next opening. *)
Close ==
  /\ pc = "close"
  /\ now' = now + 1
  /\ input' = input \o <<0, 0>>
  /\ pc' = IF Len(rows) = Openings THEN "complete" ELSE "request"
  /\ UNCHANGED <<shown, mapped, lines, alive, rows>>

RunnerStep ==
  Request \/ HelperFails \/ SkipEarlier \/ TakeMap \/ TimesOut \/ Close

Next == MapWindow \/ HandleInput \/ Stamp \/ ObserverEnds \/ RunnerStep

Spec == Init /\ [][Next]_vars

-----------------------------------------------------------------------------
(* menu-cpu-profile.py: the intervals, and what lies in them. *)

Intervals == [i \in DOMAIN rows |-> <<rows[i].start, rows[i].map.stamp>>]

(* No interval ends before it begins, or after the next one begins. *)
Orderly(intervals) ==
  /\ intervals # <<>>
  /\ \A i \in DOMAIN intervals : intervals[i][1] <= intervals[i][2]
  /\ \A i \in DOMAIN intervals : i > 1 => intervals[i - 1][2] <= intervals[i][1]

(* The intervals a sample lies in; the first one counts it. *)
Holding(intervals, time) ==
  {i \in DOMAIN intervals : intervals[i][1] <= time /\ time <= intervals[i][2]}

(* The images of a process, sorted by base: none reaches into the next.    *)
Disjoint(modules) ==
  \A i \in DOMAIN modules : i > 1 => modules[i - 1].end <= modules[i].base

ModulesAt(modules, address) ==
  {i \in DOMAIN modules : modules[i].base <= address /\ address < modules[i].end}

-----------------------------------------------------------------------------
(* Properties. *)

(* A map is put down to the request that caused it, however late Lightroom *)
(* handles its input and however many windows a menu maps, if it has       *)
(* mapped them all before the next request: nothing in the event of a      *)
(* later one would tell it from a map of that request.                     *)
OwnMap == \A i \in DOMAIN rows : rows[i].map # NoMap => rows[i].map.of = i

(* A complete result has a map for every opening, its intervals pass the   *)
(* check of menu-cpu-profile, and no sample is in two of them.             *)
CompleteProfiles ==
  pc = "complete" =>
    /\ Len(rows) = Openings /\ \A i \in DOMAIN rows : rows[i].map # NoMap
    /\ Orderly(Intervals)
    /\ \A time \in 0..now : \A i, j \in Holding(Intervals, time) : i = j
=============================================================================
