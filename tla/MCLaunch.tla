------------------------------ MODULE MCLaunch ------------------------------
EXTENDS Launch, TLC
\* Two staged runtimes and the invocations that can disturb each other.
CONSTANTS l1, l2, l3, stableRt, perfRt, none, nobody

MCLaunchers == {l1, l2}
ThreeLaunchers == {l1, l2, l3}
MCRuntimes == {stableRt, perfRt}
GuardedCommands == {"run", "stop", "use-stable", "use-performance"}
EveryProgram == {"run", "cc", "ui", "stop"}
SavedOnly == {"saved"}
LaunchSymmetry == Permutations({l1, l2, l3})
=============================================================================
