SPECIFICATION CursorSpec
CONSTANTS
  s1 = s1
  s2 = s2
  k1 = k1
  b1 = b1
  NULL = NULL
  Slots = {s1, s2}
  Sizes = {0, 1, 3}
  Keyboards = {k1}
  Remnants = {}
  Backgrounds = {b1}
  Popups = {}
  LastCell = 2
  MaxNodes = 3
SYMMETRY Symmetry
CONSTRAINT FewNodes
PROPERTY ClickFocusesWindow
CHECK_DEADLOCK FALSE
