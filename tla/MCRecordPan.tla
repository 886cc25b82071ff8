---------------------------- MODULE MCRecordPan ----------------------------
EXTENDS RecordPan, Pacing
\* The clock is bounded by the recorder's own limits: 25 seconds at most.

(* Nearest ranks, for lists with repeated values and for long ones.        *)
ASSUME \A n \in 1..5 : \A values \in [1..n -> 1..3] :
  Ascending(values) => \A q \in {50, 95, 99} : LeastOfShare(values, q)
ASSUME \A n \in 1..120, q \in {50, 95, 99} : LeastOfShare([i \in 1..n |-> i], q)

(* Interpolated percentiles are in order, and the last one is the maximum. *)
ASSUME \A n \in 1..5 : \A values \in [1..n -> 1..3] :
  Ascending(values) =>
    /\ Interpolated(values, 50) <= Interpolated(values, 95)
    /\ Interpolated(values, 95) <= Interpolated(values, 99)
    /\ Interpolated(values, 100) = 100 * values[n]

(* A frame that is counted for a phase was rendered in it.                 *)
ASSUME \A began, elapsed \in {0, 1, 499, 500, 999, 1000, 1001, 2000} :
  \A from \in {0, 1, 999, 1000}, to \in {2000, 2999, 3000} :
    InPhase([start |-> from, end |-> to], Dated(began, elapsed)) =>
      from <= began + elapsed /\ began + elapsed <= to
=============================================================================
