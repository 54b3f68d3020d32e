SPECIFICATION InputSpec
CONSTANTS
  s1 = s1
  s2 = s2
  r1 = r1
  k1 = k1
  k2 = k2
  NULL = NULL
  Super = Super
  L = L
  Q = Q
  Slots = {s1, s2}
  Sizes = {0}
  Keyboards = {k1, k2}
  Remnants = {r1}
  Backgrounds = {}
  Popups = {}
  OtherKeys = {}
  MaxSurfaces = 2
SYMMETRY Symmetry
CONSTRAINT FewSurfaces
INVARIANTS
  InputTypeOK
  ReachableIsAllocated
  NoStuckKey
  KeyboardsAreLive
  KeyboardIsOffered
PROPERTIES
  KeyboardStaysAligned
  QuitNeedsOneKeyboard
  ImplementsXdgShell
CHECK_DEADLOCK FALSE
