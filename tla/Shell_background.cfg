SPECIFICATION Spec
CONSTANTS
  s1 = s1
  s2 = s2
  k1 = k1
  b1 = b1
  NULL = NULL
  Slots = {s1, s2}
  Sizes = {0, 1}
  Keyboards = {k1}
  Remnants = {}
  Backgrounds = {b1}
  Popups = {}
SYMMETRY Symmetry
INVARIANTS
  BackgroundIsBehind
CHECK_DEADLOCK FALSE
