---------------------------- MODULE OutputProofs ----------------------------
(***************************************************************************)
(* Proofs about the outputs of Output, for any number of displays and      *)
(* toplevels: that plugging them implements XdgShell, and that the list,   *)
(* the layout, the frame events and the windows that wait agree.           *)
(***************************************************************************)
EXTENDS Output, XdgShellStepProofs

\* The inductive invariant.  Of a display whose handler ends the process the list
\* may know more than the layout.
OutputInv ==
  /\ IInv
  /\ plugged \in SUBSET Outputs /\ enabled \in SUBSET plugged
  /\ outputs \in Seq(Outputs) /\ layout \in Seq(Outputs)
  /\ IsInjective(outputs) /\ IsInjective(layout)
  /\ ToSet(outputs) \subseteq enabled /\ ToSet(layout) \subseteq enabled
  /\ OutputsAgree
  /\ due \subseteq ToSet(layout) /\ needs \subseteq ToSet(layout)
  /\ waiting \subseteq Mapped

\* A step of the outputs puts a background on top of the scene, ends the process,
\* is one of the rest of the compositor, or one XdgShell sees nothing of.
LEMMA OutputNextNext ==
  ASSUME [OutputNext]_outputVars PROVE [Next]_shellVars
PROOF
  <1>1. CASE UNCHANGED outputVars
    BY <1>1 DEF outputVars, shellVars
  <1>2. ASSUME NEW o \in Outputs, NEW b \in Backgrounds, NEW result \in Results,
               NewOutput(o, b, result)
        PROVE  [Next]_shellVars
    <2>1. UNCHANGED shellVars \/ AddBackground(b) \/ LoseOutput(b)
      BY <1>2 DEF NewOutput, Plug, AddBackground, PutOnTop, LoseOutput, shellVars
    <2> QED
      BY <2>1 DEF Next, Unattended
  <1>3. ASSUME NEW o \in Outputs, DestroyOutput(o) PROVE [Next]_shellVars
    BY <1>3 DEF DestroyOutput, shellVars
  <1>4. CASE Events
    <2>1. CASE Elsewhere
      BY <2>1 DEF Elsewhere, Next, Unattended
    <2>2. CASE ~Elsewhere
      BY <1>4, <2>2 DEF Events, Frame, RequestState, FrameRequest, shellVars
    <2> QED
      BY <2>1, <2>2
  <1>5. CASE Ending
    BY <1>5 DEF Ending, Next
  <1> QED
    BY <1>1, <1>2, <1>3, <1>4, <1>5 DEF OutputNext, Plugging, Unplugging

-----------------------------------------------------------------------------
(* The invariant *)

\* The first output of the row is one of it.
LEMMA PrimaryOfRow ==
  ASSUME NEW row \in Seq(Outputs) PROVE Primary(row) \subseteq ToSet(row)
BY DEF Primary, ToSet

\* A step that leaves the displays alone keeps the invariant of the outputs.
LEMMA SameDisplays ==
  ASSUME OutputInv, IInv', UNCHANGED displayVars, status' # "crashed" => status # "crashed",
         due' \subseteq ToSet(layout), needs' \subseteq ToSet(layout), waiting' \subseteq Mapped'
  PROVE  OutputInv'
BY DEF OutputInv, OutputsAgree, displayVars

\* A display that comes is enabled, listed and in the layout, or only the first
\* or none of it.
LEMMA NewOutputInv ==
  ASSUME OutputInv, IInv', NEW o \in Outputs, NEW b \in Backgrounds, NEW result \in Results,
         NewOutput(o, b, result)
  PROVE  OutputInv'
PROOF
  <1>1. o \notin ToSet(layout) /\ o \notin ToSet(outputs)
    BY DEF NewOutput, OutputInv
  <1>2. Mapped' = Mapped /\ plugged' = plugged \cup {o} /\ status = "running"
    BY DEF NewOutput, Mapped
  <1> DEFINE listed == Insert(outputs, o)
             placed == Append(layout, o)
  <1>a. /\ listed \in Seq(Outputs) /\ IsInjective(listed)
        /\ ToSet(listed) = ToSet(outputs) \cup {o}
    BY <1>1, InsertProperties DEF OutputInv
  <1>b. /\ placed \in Seq(Outputs) /\ IsInjective(placed)
        /\ ToSet(placed) = ToSet(layout) \cup {o}
    BY <1>1, OnTopProperties DEF OutputInv
  <1> HIDE DEF listed, placed
  <1>3. CASE result \in {"refused", "unlisted"}
    <2>1. /\ UNCHANGED <<outputs, layout, frameVars>>
          /\ enabled' \in SUBSET plugged' /\ enabled \subseteq enabled'
      BY <1>2, <1>3 DEF NewOutput, Plug, OutputInv
    <2> QED
      BY <1>2, <2>1 DEF OutputInv, OutputsAgree, frameVars
  <1>4. CASE result \in {"bare", "shown"}
    <2>1. /\ outputs' = listed /\ layout' = placed
          /\ Schedule(ToSet(layout')) /\ waiting' = waiting
          /\ enabled' = enabled \cup {o}
      BY <1>4 DEF NewOutput, Plug, listed, placed
    <2>2. ToSet(outputs') = ToSet(layout')
      BY <1>2, <1>a, <1>b, <2>1 DEF OutputInv, OutputsAgree
    <2> QED
      BY <1>2, <1>a, <1>b, <2>1, <2>2 DEF OutputInv, OutputsAgree, Schedule
  <1>5. CASE result \in {"unplaced", "unbound"}
    <2>1. /\ outputs' = listed /\ layout' \in {layout, placed}
          /\ UNCHANGED frameVars /\ status' = "crashed"
          /\ enabled' = enabled \cup {o}
      BY <1>5 DEF NewOutput, Plug, listed, placed
    <2>2. /\ layout' \in Seq(Outputs) /\ IsInjective(layout')
          /\ ToSet(layout) \subseteq ToSet(layout')
          /\ ToSet(layout') \subseteq ToSet(layout) \cup {o}
      BY <1>b, <2>1 DEF OutputInv
    <2> QED
      BY <1>2, <1>a, <2>1, <2>2 DEF OutputInv, OutputsAgree, frameVars
  <1> QED
    BY <1>3, <1>4, <1>5 DEF Results

\* A display that goes takes its place in the list, the layout and the events.
LEMMA DestroyOutputInv ==
  ASSUME OutputInv, IInv', NEW o \in Outputs, DestroyOutput(o)
  PROVE  OutputInv'
PROOF
  <1>1. /\ outputs' = Without(outputs, o) /\ layout' = Without(layout, o)
        /\ plugged' = plugged \ {o} /\ enabled' = enabled \ {o}
        /\ due' = (due \ {o}) \cup ToSet(layout')
        /\ needs' = (needs \ {o}) \cup ToSet(layout')
        /\ waiting' = waiting /\ Mapped' = Mapped /\ status # "crashed"
    BY DEF DestroyOutput, Mapped
  <1>2. /\ outputs' \in Seq(Outputs) /\ IsInjective(outputs')
        /\ ToSet(outputs') = ToSet(outputs) \ {o}
    BY <1>1, WithoutProperties DEF OutputInv
  <1>3. /\ layout' \in Seq(Outputs) /\ IsInjective(layout')
        /\ ToSet(layout') = ToSet(layout) \ {o}
    BY <1>1, WithoutProperties DEF OutputInv
  <1> QED
    BY <1>1, <1>2, <1>3 DEF OutputInv, OutputsAgree

\* The process that has died does nothing.
LEMMA ActsAlive ==
  ASSUME Elsewhere PROVE status # "crashed"
BY DEF Elsewhere, Client, NewToplevel, InitialCommit, MapCommit, SizeCommit, UnmapCommit,
       DestroyToplevel, DestroySurface, Disconnect, RequestMaximize, RequestFullscreen,
       NewDecoration, SendConfigure, ScheduleConfigure, FocusRequest, SeatKeyboard

\* Every step keeps the invariant.
LEMMA OutputNextInv ==
  ASSUME OutputInv, [OutputNext]_outputVars PROVE OutputInv'
PROOF
  <1>1. IInv'
    BY OutputNextNext, NextIInv DEF OutputInv
  <1>2. Primary(layout) \subseteq ToSet(layout)
    BY PrimaryOfRow DEF OutputInv
  <1>3. /\ due \subseteq ToSet(layout) /\ needs \subseteq ToSet(layout)
        /\ waiting \subseteq Mapped
    BY DEF OutputInv
  <1>4. CASE UNCHANGED outputVars
    <2>1. UNCHANGED displayVars /\ Mapped' = Mapped /\ status' = status
      BY <1>4 DEF outputVars, displayVars, Mapped
    <2> QED
      BY <1>1, <1>3, <1>4, <2>1, SameDisplays DEF outputVars
  <1>5. ASSUME NEW o \in Outputs, NEW b \in Backgrounds, NEW result \in Results,
               NewOutput(o, b, result)
        PROVE  OutputInv'
    BY <1>1, <1>5, NewOutputInv
  <1>6. ASSUME NEW o \in Outputs, DestroyOutput(o) PROVE OutputInv'
    BY <1>1, <1>6, DestroyOutputInv
  <1>7. ASSUME NEW o \in Outputs, NEW ok \in FrameCommits, FrameEvent(o, ok) PROVE OutputInv'
    <2>1. /\ UNCHANGED displayVars /\ Mapped' = Mapped
          /\ due' \subseteq due /\ needs' \subseteq needs /\ waiting' \subseteq waiting
          /\ status' = status
      BY <1>7 DEF FrameEvent, Frame, Mapped
    <2> QED
      BY <1>1, <1>3, <2>1, SameDisplays
  <1>8. ASSUME NEW o \in Outputs, NEW ok \in BOOLEAN, RequestState(o, ok) PROVE OutputInv'
    <2>1. /\ UNCHANGED displayVars /\ Mapped' = Mapped /\ waiting' = waiting
          /\ status' = status
          /\ due' \subseteq due \cup ToSet(layout)
          /\ needs' \subseteq needs \cup ToSet(layout)
      BY <1>8 DEF RequestState, Schedule, Mapped
    <2> QED
      BY <1>1, <1>3, <2>1, SameDisplays
  <1>9. ASSUME NEW t \in Slots, FrameRequest(t) PROVE OutputInv'
    <2>1. /\ UNCHANGED displayVars /\ Mapped' = Mapped /\ waiting' = waiting \cup {t}
          /\ t \in Mapped /\ status' = status
          /\ due' \subseteq due \cup Primary(layout)
          /\ needs' \subseteq needs \cup Primary(layout)
      BY <1>9 DEF FrameRequest, Schedule, Mapped
    <2> QED
      BY <1>1, <1>2, <1>3, <2>1, SameDisplays
  <1>10. CASE Elsewhere
    <2>1. /\ UNCHANGED displayVars /\ waiting' = waiting \cap Mapped'
          /\ due' \subseteq due \cup Primary(layout)
          /\ needs' \subseteq needs \cup Primary(layout)
          /\ status # "crashed"
      BY <1>10, ActsAlive DEF Elsewhere, Schedule
    <2> QED
      BY <1>1, <1>2, <1>3, <2>1, SameDisplays
  <1>11. CASE Ending
    <2>1. /\ UNCHANGED displayVars /\ UNCHANGED frameVars /\ Mapped' = Mapped
          /\ status = "running"
      BY <1>11 DEF Ending, Terminate, Mapped
    <2> QED
      BY <1>1, <1>3, <2>1, SameDisplays DEF frameVars
  <1> QED
    BY <1>4, <1>5, <1>6, <1>7, <1>8, <1>9, <1>10, <1>11
       DEF OutputNext, Plugging, Unplugging, Events, FrameEvent

\* No display is there when the server starts.
LEMMA OutputInitInv == OutputInit => OutputInv
PROOF
  <1> SUFFICES ASSUME OutputInit PROVE OutputInv
    OBVIOUS
  <1>1. IInv
    BY InitIInv DEF OutputInit
  <1>2. /\ ToSet(<< >>) = {} /\ IsInjective(<< >>)
    BY DEF ToSet, IsInjective
  <1> QED
    BY <1>1, <1>2 DEF OutputInit, OutputInv, OutputsAgree

\* The inductive invariant holds in every reachable state.
THEOREM OutputInductive == OutputSpec => []OutputInv
PROOF
  <1>1. OutputInv /\ [OutputNext]_outputVars => OutputInv'
    BY OutputNextInv
  <1> QED
    BY <1>1, OutputInitInv, PTL DEF OutputSpec

\* All an output does to the windows is to put its background in the scene: every
\* theorem about XdgShell is one about Output.
THEOREM OutputRefinesXdgShell == OutputSpec => ImplementsXdgShell
PROOF
  <1>1. OutputInit => Init
    BY DEF OutputInit
  <1>2. [OutputNext]_outputVars => [Next]_shellVars
    BY OutputNextNext
  <1> QED
    BY <1>1, <1>2, PTL DEF OutputSpec, Spec, ImplementsXdgShell

\* Frame events are due on outputs of the layout only, and only visible windows
\* wait for one.
THEOREM OutputTypeCorrect == OutputSpec => []OutputTypeOK
PROOF
  <1>1. OutputInv => OutputTypeOK
    <2> SUFFICES ASSUME OutputInv PROVE OutputTypeOK
      OBVIOUS
    <2>1. TypeOK
      BY DEF OutputInv, IInv, Sound, TypeOK
    <2>2. \A s \in Seq(Outputs) : ToSet(s) \subseteq enabled => s \in Seq(enabled)
      BY DEF ToSet
    <2> QED
      BY <2>1, <2>2 DEF OutputTypeOK, OutputInv, OutputsAgree
  <1> QED
    BY <1>1, OutputInductive, PTL

\* As long as the process lives, the list and the layout hold the same outputs,
\* each once, however displays come, fail and go.
THEOREM OutputsStayAgreed == OutputSpec => []OutputsAgree
PROOF
  <1>1. OutputInv => OutputsAgree
    BY DEF OutputInv
  <1> QED
    BY <1>1, OutputInductive, PTL

-----------------------------------------------------------------------------
(* The frame a window waits for *)

\* A display cannot show what it is given.
FrameFails == FALSE \in FrameCommits /\ \E o \in Outputs : FrameEvent(o, FALSE)

\* Where the scene stays, so does what lies over a window.
LEMMA ExposedSame ==
  ASSUME UNCHANGED <<life, wm>>, NEW t PROVE Exposed(t)' = Exposed(t)
BY DEF Exposed, Mapped

\* A step that leaves the scene and the row alone, adds no window that waits but a
\* hidden one, and takes no frame event.
LEMMA SameScene ==
  ASSUME FrameIsDue, UNCHANGED <<life, wm, status, layout>>, due \subseteq due',
         \A t \in waiting' \ waiting : ~Exposed(t)
  PROVE  FrameIsDue'
PROOF
  <1>1. \A t : Exposed(t)' = Exposed(t)
    BY ExposedSame
  <1> QED
    BY <1>1 DEF FrameIsDue

\* A frame event whose commit succeeds tells the windows that are exposed.
LEMMA SuccessKeepsDue ==
  ASSUME FrameIsDue, NEW o \in Outputs, NEW told, Frame(o, TRUE, told)
  PROVE  FrameIsDue'
PROOF
  <1>1. /\ UNCHANGED <<life, wm, status, layout>> /\ waiting' = waiting \ told
        /\ due \ {o} \subseteq due'
        /\ IF o \in Primary(layout) THEN \A t \in waiting \ told : ~Exposed(t) ELSE told = {}
    BY DEF Frame, displayVars
  <1>2. \A t : Exposed(t)' = Exposed(t)
    BY <1>1, ExposedSame
  <1>3. CASE o \in Primary(layout)
    BY <1>1, <1>2, <1>3 DEF FrameIsDue
  <1>4. CASE o \notin Primary(layout)
    BY <1>1, <1>2, <1>4 DEF FrameIsDue
  <1> QED
    BY <1>3, <1>4

\* What the rest of the compositor does is shown, where it can be seen.
LEMMA ElsewhereKeepsDue ==
  ASSUME FrameIsDue, Elsewhere PROVE FrameIsDue'
PROOF
  <1>1. layout' = layout /\ waiting' \subseteq waiting /\ status # "crashed"
    BY ActsAlive DEF Elsewhere, displayVars
  <1>2. CASE Schedule(Primary(layout))
    BY <1>1, <1>2 DEF FrameIsDue, Schedule
  <1>3. CASE View' = View /\ UNCHANGED <<due, needs>>
    <2>1. ASSUME NEW t \in waiting', Exposed(t)' PROVE Exposed(t)
      <3>1. t \in Slots
        BY <2>1 DEF Exposed, Mapped
      <3>2. <<t, wm.border[t], wm.geo[t]>>' \in View'
        BY <2>1, <3>1 DEF View
      <3>3. PICK u \in {v \in Slots : Exposed(v)} :
              <<t, wm'.border[t], wm'.geo[t]>> = <<u, wm.border[u], wm.geo[u]>>
        BY <1>3, <3>2 DEF View
      <3> QED
        BY <3>3
    <2> QED
      BY <1>1, <1>3, <2>1 DEF FrameIsDue
  <1> QED
    BY <1>2, <1>3 DEF Elsewhere

\* Of all steps, only a commit that fails takes the frame event from the display
\* that paces the windows while one of them waits in full view.
LEMMA FrameDueStep ==
  ASSUME OutputInv, FrameIsDue, [OutputNext]_outputVars
  PROVE  FrameIsDue' \/ FrameFails
PROOF
  <1>1. CASE UNCHANGED outputVars
    BY <1>1, SameScene DEF outputVars
  <1>2. ASSUME NEW o \in Outputs, NEW b \in Backgrounds, NEW result \in Results,
               NewOutput(o, b, result)
        PROVE  FrameIsDue'
    <2>1. CASE result \in {"refused", "unlisted"}
      <3>1. UNCHANGED <<life, wm, status, layout, frameVars>>
        BY <1>2, <2>1 DEF NewOutput, Plug
      <3> QED
        BY <3>1, SameScene DEF frameVars
    <2>2. CASE result \in {"bare", "shown"}
      <3>1. layout' = Append(layout, o) /\ due' = due \cup ToSet(layout')
        BY <1>2, <2>2 DEF NewOutput, Plug, Schedule
      <3>2. layout' \in Seq(Outputs)
        BY <3>1 DEF OutputInv
      <3> QED
        BY <3>1, <3>2, PrimaryOfRow DEF FrameIsDue
    <2>3. CASE result \in {"unplaced", "unbound"}
      BY <1>2, <2>3 DEF NewOutput, Plug, FrameIsDue
    <2> QED
      BY <2>1, <2>2, <2>3 DEF Results
  <1>3. ASSUME NEW o \in Outputs, DestroyOutput(o) PROVE FrameIsDue'
    <2>1. layout' = Without(layout, o) /\ ToSet(layout') \subseteq due'
      BY <1>3 DEF DestroyOutput
    <2>2. layout' \in Seq(Outputs)
      BY <2>1, WithoutProperties DEF OutputInv
    <2> QED
      BY <2>1, <2>2, PrimaryOfRow DEF FrameIsDue
  <1>4. ASSUME NEW o \in Outputs, NEW ok \in BOOLEAN, RequestState(o, ok) PROVE FrameIsDue'
    <2>1. UNCHANGED <<life, wm, status, layout, waiting>> /\ due \subseteq due'
      BY <1>4 DEF RequestState, Schedule, displayVars
    <2> QED
      BY <2>1, SameScene
  <1>5. ASSUME NEW t \in Slots, FrameRequest(t) PROVE FrameIsDue'
    <2>1. layout' = layout /\ waiting' = waiting \cup {t} /\ UNCHANGED <<life, wm, status>>
      BY <1>5 DEF FrameRequest, displayVars
    <2>2. CASE Schedule(Primary(layout))
      BY <2>1, <2>2 DEF Schedule, FrameIsDue
    <2>3. CASE ~Exposed(t) /\ UNCHANGED due
      BY <2>1, <2>3, SameScene
    <2> QED
      BY <1>5, <2>2, <2>3 DEF FrameRequest
  <1>6. CASE Ending
    <2>1. UNCHANGED <<life, wm, layout, due, waiting>> /\ status = "running"
      BY <1>6 DEF Ending, Terminate, displayVars, frameVars
    <2>2. \A t : Exposed(t)' = Exposed(t)
      BY <2>1, ExposedSame
    <2> QED
      BY <2>1, <2>2 DEF FrameIsDue
  <1>7. ASSUME NEW o \in Outputs, NEW ok \in FrameCommits, NEW told \in SUBSET Slots,
               Frame(o, ok, told)
        PROVE  FrameIsDue' \/ FrameFails
    <2>1. ok \in BOOLEAN
      BY CommitsAssumption
    <2>2. CASE ok
      <3>1. Frame(o, TRUE, told)
        BY <1>7, <2>1, <2>2
      <3> QED
        BY <3>1, SuccessKeepsDue
    <2>3. CASE ~ok
      <3>1. ok = FALSE
        BY <2>1, <2>3
      <3> QED
        BY <1>7, <3>1 DEF FrameFails, FrameEvent
    <2> QED
      BY <2>2, <2>3
  <1> QED
    BY <1>1, <1>2, <1>3, <1>4, <1>5, <1>6, <1>7, ElsewhereKeepsDue
       DEF OutputNext, Plugging, Unplugging, Events

\* No display that comes, goes or moves up in the row, no resize, nothing that
\* covers or uncovers a window and nothing a window does loses the frame event of
\* the windows in full view that wait; a commit that fails is the only thing that
\* can.  (One that succeeds may leave windows waiting that something hides.)
THEOREM OnlyFailureLosesTheFrame ==
  OutputSpec => [][FrameIsDue => FrameIsDue' \/ FrameFails]_outputVars
PROOF
  <1>1. OutputInv /\ [OutputNext]_outputVars
          => [FrameIsDue => FrameIsDue' \/ FrameFails]_outputVars
    BY FrameDueStep
  <1> QED
    BY <1>1, OutputInductive, PTL DEF OutputSpec

\* With displays that show what they are given, a window in full view that waits
\* has a frame event to come, always: what FrameRequestIsAnswered rests on.
THEOREM FrameStaysDue ==
  ASSUME FrameCommits = {TRUE} PROVE OutputSpec => []FrameIsDue
PROOF
  <1>1. OutputInit => FrameIsDue
    BY DEF OutputInit, FrameIsDue
  <1>2. OutputInv /\ FrameIsDue /\ [OutputNext]_outputVars => FrameIsDue'
    BY FrameDueStep DEF FrameFails
  <1> QED
    BY <1>1, <1>2, OutputInductive, PTL DEF OutputSpec
=============================================================================
