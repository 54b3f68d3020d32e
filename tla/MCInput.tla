------------------------------ MODULE MCInput -------------------------------
EXTENDS Input, XdgShellProperties

CONSTANT MaxSurfaces

\* Slots are interchangeable, and so are keyboards.
Symmetry == Permutations(Slots) \cup Permutations(Keyboards)

\* TLC goes on only from states with few surfaces.
FewSurfaces == Cardinality(Allocated) + Cardinality(wm.left) <= MaxSurfaces
=============================================================================
