---------------------------- MODULE MCProvision ----------------------------
EXTENDS Provision, TLC
\* Two verbs are enough for one that is marked and one that is not.
CONSTANTS base, twin, corefonts, dxvk

MCPrefixes == {base, twin}
MCPreparable == {base}
MCVerbs == {corefonts, dxvk}
VerbSymmetry == Permutations(MCVerbs)
=============================================================================
