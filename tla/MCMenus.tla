------------------------------ MODULE MCMenus ------------------------------
EXTENDS Menus, TransitionScore
\* Two pairs of openings, and menus that map two windows.  The two offline
\* readers of the fixture's measurements are evaluated on bounded inputs.

(* An address is in one image at most, for every list of three images on a *)
(* line of seven addresses that pe_modules() accepts.                      *)
Modules == {m \in [base : 0..5, end : 1..6] : m.base < m.end}
ASSUME \A modules \in [1..3 -> Modules] :
  Disjoint(modules) =>
    \A address \in 0..6 : \A i, j \in ModulesAt(modules, address) : i = j

(* One byte of a region, at the borders of the three thresholds. *)
MCImages == {0, 1, 2, 6, 8, 11, 28}
MCDifference(a, b) == IF a > b THEN a - b ELSE b - a

(* A scored transition has a first change and a settled frame, in this     *)
(* order, whatever three frames precede the input and four follow it.      *)
ASSUME \A pixels \in [1..7 -> MCImages] :
  LET score == Score(pixels, 1..3, 4..7)
  IN score.status = "scored" =>
       /\ {score.first, score.settled} \subseteq 4..5
       /\ score.first <= score.settled
=============================================================================
