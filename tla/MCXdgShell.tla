----------------------------- MODULE MCXdgShell -----------------------------
EXTENDS XdgShellProperties

\* Slots are interchangeable; so are keyboards and backgrounds.
Symmetry ==
  Permutations(Slots) \cup Permutations(Keyboards) \cup Permutations(Backgrounds)
=============================================================================
