------------------------------- MODULE Pacing -------------------------------
(***************************************************************************)
(* What the readers of frame logs compute: summarize() of record-pan.py,   *)
(* analyze-pacing.py and present-trace.py.  Quantiles are in hundredths;   *)
(* the code's floating-point products round to the same indices (for .5,   *)
(* .95 and .99 of up to 65536 values).  Times are in milliseconds.         *)
(***************************************************************************)
EXTENDS Integers, Sequences, FiniteSets

Ascending(values) == \A i, j \in DOMAIN values : i <= j => values[i] <= values[j]

(* The nearest rank: ceil(q * n), counted from 1. *)
Rank(q, n) == -((-(q * n)) \div 100)
Nearest(values, q) == values[Rank(q, Len(values))]

(* What a percentile is: the least value of the list that the given share  *)
(* of it does not exceed.                                                  *)
LeastOfShare(values, q) ==
  LET v == Nearest(values, q)
      n == Len(values)
  IN /\ 100 * Cardinality({i \in 1..n : values[i] <= v}) >= q * n
     /\ 100 * Cardinality({i \in 1..n : values[i] < v}) < q * n

(* present-trace interpolates between two neighbours.  The value is a      *)
(* hundred times the percentile.                                           *)
Point(p, n) == (n - 1) * p
Low(p, n) == Point(p, n) \div 100 + 1
High(p, n) == IF Low(p, n) < n THEN Low(p, n) + 1 ELSE n
Between(a, b, rest) == 100 * a + (b - a) * rest
Interpolated(values, p) ==
  LET n == Len(values)
  IN Between(values[Low(p, n)], values[High(p, n)], Point(p, n) % 100)

(* A log is named for the second at which it began; a frame is dated by    *)
(* that name and the time elapsed since the log began, and belongs to the  *)
(* phases that contain it with a second to spare on either side.           *)
Named(began) == (began \div 1000) * 1000
Dated(began, elapsed) == Named(began) + elapsed
InPhase(phase, time) == phase.start + 1000 <= time /\ time <= phase.end - 1000
=============================================================================
