-------------------------- MODULE TransitionScore --------------------------
(***************************************************************************)
(* score() of diagnostics/transition-latency.py: from the captured frames  *)
(* around one input, when a region first changed and when it had settled.  *)
(* Frames are numbered from 1.  Differences are sums over the region, so   *)
(* that the mean of the code is a difference divided by Size.              *)
(***************************************************************************)
EXTENDS Integers

CONSTANTS
  Images,            \* contents of the region
  Blank,             \* those that are blank background
  Size,              \* bytes of the region
  Difference(_, _)   \* sum of the absolute differences of the bytes

ASSUME SizeAssumption == Size \in Nat \ {0} /\ Blank \subseteq Images

ASSUME DifferenceAssumption ==
  \A a, b \in Images :
    /\ Difference(a, b) \in Nat
    /\ Difference(a, a) = 0
    /\ Difference(a, b) = Difference(b, a)
    /\ \A c \in Images : Difference(a, c) <= Difference(a, b) + Difference(b, c)

Above(a, b, threshold) == Difference(a, b) > threshold * Size
Below(a, b, threshold) == Difference(a, b) < threshold * Size

IsLeast(n, S) == n \in S /\ \A m \in S : n <= m
Least(S) == CHOOSE n \in S : IsLeast(n, S)
Greatest(S) == CHOOSE n \in S : \A m \in S : n >= m

(* The last three frames of a window: windows are runs of frames. *)
LastThree(window) == {n \in window : n > Greatest(window) - 3}

(* The first frame that differs from the one before the input, and the     *)
(* first of three or more that all look like the last one.                 *)
Changed(pixels, baseline, active) ==
  {n \in active : Above(pixels[n], baseline, 5)}

Settled(pixels, target, active) ==
  {n \in active : /\ n <= Greatest(active) - 2
                  /\ \A m \in active : m >= n => Below(pixels[m], target, 2)}

Unscored(pixels, before, active) ==
  LET baseline == pixels[Greatest(before)]
      target == pixels[Greatest(active)]
  IN \/ baseline \in Blank \/ target \in Blank
     \/ \E n \in LastThree(before) : ~Below(pixels[n], baseline, 2)
     \/ \E n \in LastThree(active) : ~Below(pixels[n], target, 2)
     \/ ~Above(baseline, target, 10)

Score(pixels, before, active) ==
  IF Unscored(pixels, before, active)
    THEN [status |-> "unscored", first |-> 0, settled |-> 0]
    ELSE [status |-> "scored",
          first |-> Least(Changed(pixels, pixels[Greatest(before)], active)),
          settled |-> Least(Settled(pixels, pixels[Greatest(active)], active))]

(* The windows score() takes: frames before the input, and frames from the *)
(* input to the next one, at least three of each.                          *)
Window(before, active, frames) ==
  \E b \in 3..frames : \E a \in (b + 3)..frames :
    before = 1..b /\ active = (b + 1)..a
=============================================================================
