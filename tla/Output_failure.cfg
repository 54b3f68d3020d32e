SPECIFICATION OutputFairSpec
CONSTANTS
  s1 = s1
  o1 = o1
  o2 = o2
  b1 = b1
  b2 = b2
  NULL = NULL
  Slots = {s1}
  Sizes = {0, 1}
  Keyboards = {}
  Remnants = {}
  Backgrounds = {b1, b2}
  Popups = {}
  Outputs = {o1, o2}
  FrameCommits = {TRUE, FALSE}
PROPERTY FrameRequestIsAnswered
CHECK_DEADLOCK FALSE
