SPECIFICATION SessionSpec
CONSTANTS
  s1 = s1
  r1 = r1
  o1 = o1
  o2 = o2
  b1 = b1
  NULL = NULL
  Slots = {s1}
  Sizes = {0, 1}
  Keyboards = {}
  Remnants = {r1}
  Backgrounds = {b1}
  Popups = {}
  Outputs = {o1, o2}
  FrameCommits = {TRUE}
INVARIANTS
  OutputTypeOK
  OutputsAgree
  FrameIsDue
  ConfigureIsPending
  LifecycleTypeOK
  OnlyLiveIsDestroyed
  OnlySceneLeaks
  
  LeavesClean
PROPERTIES
  HandlersFindTheServer
  ImplementsXdgShell
  FrameRequestIsAnswered
  InitialCommitIsAnswered
  QuitEnds
CHECK_DEADLOCK FALSE
