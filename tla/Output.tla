------------------------------- MODULE Output -------------------------------
(***************************************************************************)
(* The outputs of PulseDE (src/pulse-de/src/output.c), composed with the   *)
(* windows of XdgShell: hot-plugging, the background an output brings, and *)
(* the frame events that tell clients when to draw.                        *)
(*                                                                         *)
(* The layout is a row: wlroots puts an output to the right of the ones    *)
(* there are.  All windows are at the origin, so the first output of the   *)
(* row is the one that shows them and paces them.  wlroots schedules a     *)
(* frame event on visible damage and on the frame request of a visible     *)
(* client, and one more after every buffer it has shown; it tells of a     *)
(* frame the windows that are visible.  What lies over a window, a         *)
(* background, a popup of a popup or another window, may hide all of it or *)
(* not: sizes are not compared, and how opaque a window is is its client's *)
(* choice.  Popups in the tree of a window count as part of it.            *)
(***************************************************************************)
EXTENDS XdgShellProperties

CONSTANTS Outputs,      \* displays
          FrameCommits  \* what the commit of a frame may return

ASSUME CommitsAssumption == {TRUE} \subseteq FrameCommits /\ FrameCommits \subseteq BOOLEAN

VARIABLES plugged,     \* displays wlroots knows
          enabled,     \* displays whose first commit succeeded
          outputs,     \* server->outputs
          layout,      \* outputs of the layout and the scene, left to right
          due,         \* outputs with a frame event to come
          needs,       \* outputs with something to show
          waiting      \* windows that have asked for the next frame

frameVars == <<due, needs, waiting>>
displayVars == <<plugged, enabled, outputs, layout>>
outputVars == <<life, wm, status, plugged, enabled, outputs, layout,
                due, needs, waiting>>

OutputTypeOK ==
  /\ TypeOK
  /\ plugged \in SUBSET Outputs /\ enabled \in SUBSET plugged
  /\ outputs \in Seq(enabled) /\ layout \in Seq(enabled)
  /\ due \in SUBSET ToSet(layout) /\ needs \in SUBSET ToSet(layout)
  /\ waiting \in SUBSET Mapped

OutputInit ==
  /\ Init
  /\ plugged = {} /\ enabled = {} /\ outputs = << >> /\ layout = << >>
  /\ due = {} /\ needs = {} /\ waiting = {}

\* The output that shows the windows, as a set.
Primary(row) == IF row = << >> THEN {} ELSE {Head(row)}

\* Something in the scene has to be drawn.
Schedule(os) == due' = due \cup os /\ needs' = needs \cup os

\* Nothing lies over window t: it is certain to be visible.
Exposed(t) ==
  /\ t \in Mapped /\ wm.geo[t] > 0
  /\ \A n \in ToSet(wm.stack) : Above(wm.stack, n, t) => n \in Slots \ Mapped

\* The exposed windows, as they look.
View == {<<t, wm.border[t], wm.geo[t]>> : t \in {u \in Slots : Exposed(u)}}

-----------------------------------------------------------------------------
(* output_handle_new *)

\* How far the handler gets: the display refuses its mode, there is no memory
\* for the pulse_output, no layout output, no scene output, no memory for the
\* rect, or all goes well.
Results == {"refused", "unlisted", "unplaced", "unbound", "bare", "shown"}

\* Mutation: the return after the failed commit is forgotten.
PlugUnchecked(o, b, result) ==
  /\ enabled' = IF result = "refused" THEN enabled ELSE enabled \cup {o}
  /\ outputs' = Insert(outputs, o)
  /\ layout' = Append(layout, o)
  /\ wm' = [wm EXCEPT !.stack = Append(@, b)]
  /\ Schedule(ToSet(layout'))
  /\ UNCHANGED <<waiting, status>>

\* Mutation: the display joins the layout before there is a pulse_output.
PlugEarly(o, b, result) ==
  /\ enabled' = IF result = "refused" THEN enabled ELSE enabled \cup {o}
  /\ outputs' = IF result \in {"bare", "shown"} THEN Insert(outputs, o) ELSE outputs
  /\ layout' = IF result # "refused" THEN Append(layout, o) ELSE layout
  /\ wm' = IF result = "shown" THEN [wm EXCEPT !.stack = Append(@, b)] ELSE wm
  /\ Schedule(ToSet(layout'))
  /\ UNCHANGED <<waiting, status>>

\* The display is enabled and shown, and a rect of its size is put on top of
\* the scene.  That there is a layout output and a scene output is not tested:
\* wlroots reads through the NULL it is given.
Plug(o, b, result) ==
  /\ enabled' = IF result = "refused" THEN enabled ELSE enabled \cup {o}
  /\ \/ /\ result \in {"bare", "shown"}
        /\ outputs' = Insert(outputs, o)
        /\ layout' = Append(layout, o)
        /\ wm' = IF result = "shown" THEN [wm EXCEPT !.stack = Append(@, b)] ELSE wm
        /\ Schedule(ToSet(layout'))
        /\ UNCHANGED <<waiting, status>>
     \/ /\ result \in {"unplaced", "unbound"}
        /\ outputs' = Insert(outputs, o)
        /\ layout' = IF result = "unbound" THEN Append(layout, o) ELSE layout
        /\ status' = "crashed"
        /\ UNCHANGED <<wm, frameVars>>
     \/ /\ result \in {"refused", "unlisted"}
        /\ UNCHANGED <<outputs, layout, wm, status, frameVars>>

\* One fresh rect per call: Backgrounds bounds the number of plugs.
NewOutput(o, b, result) ==
  /\ status = "running" /\ o \notin plugged /\ b \notin ToSet(wm.stack)
  /\ plugged' = plugged \cup {o}
  /\ Plug(o, b, result)
  /\ UNCHANGED life

-----------------------------------------------------------------------------
(* The listeners of an output *)

\* Mutation: the test of the commit's result is inverted.
FrameInverted(o, ok, told) ==
  /\ status = "running" /\ o \in due
  /\ due' = IF o \in needs /\ ok THEN due ELSE due \ {o}
  /\ needs' = IF ok THEN needs \ {o} ELSE needs
  /\ waiting' = IF ok THEN waiting ELSE waiting \ told
  /\ UNCHANGED <<life, wm, status, displayVars>>

\* A frame event; told are the waiting windows that wlroots finds visible on the
\* output.  A commit with nothing to show returns true at once; one that fails
\* leaves the clients unanswered and nothing scheduled.
Frame(o, ok, told) ==
  /\ status = "running" /\ o \in due /\ (o \in needs \/ ok)
  /\ told \subseteq waiting
  /\ IF ok /\ o \in Primary(layout) THEN \A t \in waiting \ told : ~Exposed(t) ELSE told = {}
  /\ due' = IF o \in needs /\ ok THEN due ELSE due \ {o}
  /\ needs' = IF ok THEN needs \ {o} ELSE needs
  /\ waiting' = waiting \ told
  /\ UNCHANGED <<life, wm, status, displayVars>>

\* The display's state changes, where the commit succeeds; its result is not
\* read.
RequestState(o, ok) ==
  /\ status = "running" /\ o \in ToSet(layout)
  /\ IF ok THEN Schedule(ToSet(layout)) ELSE UNCHANGED <<due, needs>>
  /\ UNCHANGED <<life, wm, status, displayVars, waiting>>

\* Mutation: the windows' focus goes with a display.
DestroyOutputUnfocused(o) ==
  /\ status # "crashed" /\ o \in plugged
  /\ plugged' = plugged \ {o} /\ enabled' = enabled \ {o}
  /\ outputs' = Without(outputs, o)
  /\ layout' = Without(layout, o)
  /\ due' = (due \ {o}) \cup ToSet(layout') /\ needs' = (needs \ {o}) \cup ToSet(layout')
  /\ wm' = [wm EXCEPT !.focused = NULL]
  /\ UNCHANGED <<life, status, waiting>>

\* The display goes; its background stays.  The others move to the left.
DestroyOutput(o) ==
  /\ status # "crashed" /\ o \in plugged
  /\ plugged' = plugged \ {o} /\ enabled' = enabled \ {o}
  /\ outputs' = Without(outputs, o)
  /\ layout' = Without(layout, o)
  /\ due' = (due \ {o}) \cup ToSet(layout') /\ needs' = (needs \ {o}) \cup ToSet(layout')
  /\ UNCHANGED <<life, wm, status, waiting>>

\* A client asks to be told when to draw its next frame.
FrameRequest(t) ==
  /\ status = "running" /\ t \in Mapped
  /\ waiting' = waiting \cup {t}
  /\ Schedule(Primary(layout)) \/ (~Exposed(t) /\ UNCHANGED <<due, needs>>)
  /\ UNCHANGED <<life, wm, status, displayVars>>

\* The rest of the compositor: a change of the scene is shown, unless something
\* hides it.
Elsewhere ==
  /\ \/ \E t \in Slots : Client(t) \/ SendConfigure(t)
     \/ \E r \in Remnants : DestroySurface(r)
     \/ \E t \in Slots \cup {NULL} : FocusRequest(t)
     \/ \E k \in Keyboards \cup {NULL} : SeatKeyboard(k)
  /\ \/ /\ <<wm.stack, wm.border, wm.geo, Mapped>>' # <<wm.stack, wm.border, wm.geo, Mapped>>
        /\ Schedule(Primary(layout))
     \/ View' = View /\ UNCHANGED <<due, needs>>
  /\ waiting' = waiting \cap Mapped'
  /\ UNCHANGED displayVars

Plugging ==
  \E o \in Outputs, b \in Backgrounds, result \in Results : NewOutput(o, b, result)

Unplugging == \E o \in Outputs : DestroyOutput(o)

Events ==
  \/ \E o \in Outputs, ok \in FrameCommits, told \in SUBSET Slots : Frame(o, ok, told)
  \/ \E o \in Outputs, ok \in BOOLEAN : RequestState(o, ok)
  \/ \E t \in Slots : FrameRequest(t)
  \/ Elsewhere

Ending == Terminate /\ UNCHANGED <<displayVars, frameVars>>

OutputNext == Plugging \/ Unplugging \/ Events \/ Ending

OutputSpec == OutputInit /\ [][OutputNext]_outputVars

\* A frame event of o whose commit returns ok.
FrameEvent(o, ok) == \E told \in SUBSET Slots : Frame(o, ok, told)

\* A display whose frame event is due emits it, at its next vertical blank or
\* when the event loop is idle; and it does not fail every commit for ever.
\* The idle sources of the event loop run, as in XdgShell.
FrameFairness ==
  \A o \in Outputs : /\ WF_outputVars(\E ok \in FrameCommits : FrameEvent(o, ok))
                     /\ SF_outputVars(FrameEvent(o, TRUE))

OutputFairSpec == OutputSpec /\ FrameFairness /\ Fairness

-----------------------------------------------------------------------------
(* Properties *)

\* As long as the process lives, the list and the layout agree on the outputs,
\* whatever order displays come, fail to be set up and go in: of the failures of
\* the new handler, those after which they would not end the process
\* (output.c:95-107, 141-182).
OutputsAgree ==
  status # "crashed" =>
    /\ IsInjective(outputs) /\ IsInjective(layout)
    /\ ToSet(outputs) = ToSet(layout)

\* As long as a window that nothing hides waits for its next frame, the display
\* that paces it has a frame event to come, though displays come, go and take its
\* place, and other windows and backgrounds cover and uncover it (output.c:62-72,
\* 95-107).  So it is where no commit fails.
FrameIsDue ==
  status # "crashed" /\ (\E t \in waiting : Exposed(t)) => Primary(layout) \subseteq due

\* output.c:68-72: a window that asks for the next frame is told of it, though
\* displays come, go and are resized and windows come and go, unless something
\* comes to lie over it, no display is left, or displays come and go for ever.
\* The exception for what lies over it is not idle: the background of a display
\* plugged in later (BackgroundIsBehind) leaves all windows waiting until they
\* are raised.
FrameRequestIsAnswered ==
  <>[][layout' = layout]_layout =>
    \A t \in Slots :
      (t \in waiting) ~>
        (t \notin waiting \/ ~Exposed(t) \/ layout = << >> \/ status # "running")

\* With its outputs the compositor implements XdgShell: all an output does to
\* the scene is to add its background.
ImplementsXdgShell == Spec
=============================================================================
