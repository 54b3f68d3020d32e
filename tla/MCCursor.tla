------------------------------ MODULE MCCursor ------------------------------
EXTENDS Cursor, XdgShellProperties

CONSTANT MaxNodes

\* Slots are interchangeable; so are keyboards, backgrounds and popups.
Symmetry ==
  Permutations(Slots) \cup Permutations(Keyboards)
    \cup Permutations(Backgrounds) \cup Permutations(Popups)

\* TLC goes on only from states with few windows, popups and backgrounds.
FewNodes ==
  Len(wm.stack) + Cardinality(wm.left) + FoldSet(LAMBDA t, n : n + Len(trees[t]), 0, Slots)
    <= MaxNodes
=============================================================================
