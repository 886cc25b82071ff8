---------------------------- MODULE MCAnimations ----------------------------
EXTENDS Animations, TLC
\* Two user speeds suffice to tell a restored value from another one.
CONSTANTS l1, l2, fast, slow

MCLaunchers == {l1, l2}
MCSpeeds == {fast, slow}
LauncherSymmetry == Permutations(MCLaunchers)
=============================================================================
