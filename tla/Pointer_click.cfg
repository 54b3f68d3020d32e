SPECIFICATION CursorSpec
CONSTANTS
  s1 = s1
  s2 = s2
  r1 = r1
  p1 = p1
  p2 = p2
  b1 = b1
  NULL = NULL
  Slots = {s1, s2}
  Sizes = {0, 3}
  Keyboards = {}
  Remnants = {r1}
  Backgrounds = {b1}
  Popups = {p1, p2}
  LastCell = 1
  MaxNodes = 3
SYMMETRY Symmetry
CONSTRAINT FewNodes
INVARIANTS
  CursorTypeOK
  PopupsAreOwned
PROPERTIES
  ClickGivesFocus
  ImplementsXdgShell
CHECK_DEADLOCK FALSE
