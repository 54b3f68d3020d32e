SPECIFICATION CursorSpec
CONSTANTS
  s1 = s1
  p1 = p1
  p2 = p2
  NULL = NULL
  Slots = {s1}
  Sizes = {0, 3}
  Keyboards = {}
  Remnants = {}
  Backgrounds = {}
  Popups = {p1, p2}
  LastCell = 1
  MaxNodes = 3
SYMMETRY Symmetry
CONSTRAINT FewNodes
PROPERTY ClickReachesOwner
CHECK_DEADLOCK FALSE
