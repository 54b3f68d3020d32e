SPECIFICATION Spec
CONSTANTS
  s1 = s1
  s2 = s2
  s3 = s3
  NULL = NULL
  Slots = {s1, s2, s3}
  Sizes = {0, 1, 2}
  Keyboards = {}
  Remnants = {}
  Backgrounds = {}
  Popups = {}
SYMMETRY Symmetry
INVARIANTS
  TypeOK
  
  OnlyFocusedIsActivated
  BorderShowsFocusAndSize
  FocusedOnTop
PROPERTIES
  FocusIsHandedOver
  OrderIsKept
  FocusDanglesOnlyFromHidden
  FocusedUnactivatedOnlyByReuse
  ShowsDesktop
CHECK_DEADLOCK FALSE
