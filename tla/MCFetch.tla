------------------------------ MODULE MCFetch ------------------------------
EXTENDS Fetch, TLC
\* Two chunks make a partly overwritten download; three files are the cached
\* one, the one being renamed and a new one.
CONSTANTS f1, f2, i1, i2, i3

MCFetchers == {f1, f2}
MCInodes == {i1, i2, i3}
FetchSymmetry == Permutations(MCFetchers) \cup Permutations(MCInodes)
=============================================================================
