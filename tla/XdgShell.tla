------------------------------ MODULE XdgShell ------------------------------
(***************************************************************************)
(* Window management of PulseDE (src/pulse-de/src/xdg-shell.c): the        *)
(* life of a pulse_toplevel, the focus function, and the border            *)
(* decoration.c draws around a window.                                     *)
(*                                                                         *)
(* A slot is a piece of heap memory that can hold a pulse_toplevel: calloc *)
(* may hand out the address of a toplevel freed earlier, so a pointer is a *)
(* slot.  The compositor is one thread: a handler, with all it calls, is   *)
(* one step.  Handlers are operators on the record wm, so that a handler   *)
(* that calls another is their composition.                                *)
(*                                                                         *)
(* The environment is open: the cursor (FocusRequest), the keyboards       *)
(* (SeatKeyboard), the key bindings (Terminate), the outputs               *)
(* (AddBackground, LoseOutput) and the popups that hang at the root of the *)
(* scene (AttachPopup, DetachPopup) do here anything their modules may do. *)
(***************************************************************************)
EXTENDS WlList

CONSTANTS Slots,        \* heap cells for pulse_toplevel
          Remnants,     \* xdg_surfaces that outlive their xdg_toplevel
          Sizes,        \* window sizes; 0 is an empty geometry
          Keyboards,    \* keyboard devices
          Backgrounds,  \* background rects output.c puts in the scene
          Popups,       \* xdg_popups
          NULL

Tops == {"signal", "line"}
Sides == {"surface2", "line"}

Borders == [size : Sizes, top : Tops, sides : Sides]

\* What hangs at the root of the scene beside the windows.
Others == Backgrounds \cup Popups

ASSUME SizesAssumption == Sizes \subseteq Nat /\ 0 \in Sizes

ASSUME NullAssumption == NULL \notin Slots \cup Remnants \cup Keyboards \cup Borders

ASSUME SceneAssumption ==
  /\ Slots \cap Others = {} /\ Backgrounds \cap Popups = {}
  /\ Remnants \cap (Slots \cup Others) = {}

VARIABLES life,    \* protocol state of the xdg_toplevel in each slot
          wm,      \* the state of the server and of its seat
          status   \* of the compositor process

shellVars == <<life, wm, status>>

Lives == {"free", "new", "initial", "configured", "mapped"}

WindowManager ==
  [toplevels : Seq(Slots),                  \* server->toplevels
   focused   : Slots \cup {NULL},           \* server->focused_toplevel
   border    : [Slots -> Borders \cup {NULL}],
   geo       : [Slots -> Sizes],            \* xdg_surface geometry
   stack     : Seq(Slots \cup Others), \* children of the scene's root
   activated : SUBSET Slots,                \* last set_activated was TRUE
   scheduled : SUBSET Slots,                \* a configure is pending
   left      : SUBSET Remnants, \* their trees are hidden, with stale data
   keyboard  : Keyboards \cup {NULL},       \* the seat's keyboard
   kbdFocus  : Slots \cup Remnants \cup {NULL}] \* the seat's keyboard focus

TypeOK ==
  /\ life \in [Slots -> Lives]
  /\ wm \in WindowManager
  /\ status \in {"running", "terminated", "crashed"}

Allocated == {t \in Slots : life[t] # "free"}
Mapped == {t \in Slots : life[t] = "mapped"}

-----------------------------------------------------------------------------
(* decoration.c *)

TopColour(focused) == IF focused THEN "signal" ELSE "line"

\* Mutation: all four sides of the focused window are lit.
SignalSides(focused) == IF focused THEN "signal" ELSE "line"

SideColour(focused) == IF focused THEN "surface2" ELSE "line"

\* Only the top rect is created in the colour of the focus state.
CreateBorder(size, focused) ==
  [size |-> size, top |-> TopColour(focused), sides |-> "line"]

UpdateBorder(b, size, focused) ==
  IF b = NULL THEN NULL
  ELSE [size |-> size, top |-> TopColour(focused), sides |-> SideColour(focused)]

-----------------------------------------------------------------------------
(* xdg_shell_focus_toplevel *)

\* Mutation: the window that loses the focus is not told.
DefocusSilently(w) ==
  IF w.focused \notin Allocated THEN w
  ELSE [w EXCEPT !.border[w.focused] = UpdateBorder(@, w.geo[w.focused], FALSE)]

\* Mutation: the window that loses the focus is lowered.
DefocusAndLower(w) ==
  IF w.focused \notin Allocated THEN w
  ELSE LET prev == w.focused IN
       [w EXCEPT !.activated = @ \ {prev},
                 !.stack = Insert(Without(@, prev), prev),
                 !.border[prev] = UpdateBorder(@, w.geo[prev], FALSE)]

\* The block on prev.  What it writes through a dangling pointer is lost.
Defocus(w) ==
  IF w.focused \notin Allocated THEN w
  ELSE LET prev == w.focused IN
       [w EXCEPT !.activated = @ \ {prev},
                 !.scheduled = @ \cup {prev},
                 !.border[prev] = UpdateBorder(@, w.geo[prev], FALSE)]

\* Mutation: the window is not raised.
RefocusInPlace(w, t) ==
  [w EXCEPT !.focused = t, !.activated = @ \cup {t}, !.scheduled = @ \cup {t},
            !.border[t] = UpdateBorder(@, w.geo[t], TRUE),
            !.kbdFocus = IF w.keyboard = NULL THEN @ ELSE t]

\* Mutation: the keyboard is not moved to the window.
RefocusWithoutEnter(w, t) ==
  [w EXCEPT !.focused = t, !.stack = RaiseToTop(@, t), !.activated = @ \cup {t},
            !.scheduled = @ \cup {t}, !.border[t] = UpdateBorder(@, w.geo[t], TRUE)]

\* Mutation: the window is not told that it is activated.
RefocusUnactivated(w, t) ==
  [w EXCEPT !.focused = t, !.stack = RaiseToTop(@, t), !.border[t] = UpdateBorder(@, w.geo[t], TRUE),
            !.kbdFocus = IF w.keyboard = NULL THEN @ ELSE t]

\* The rest of the function, for t # NULL.
Refocus(w, t) ==
  [w EXCEPT !.focused = t,
            !.stack = RaiseToTop(@, t),
            !.activated = @ \cup {t},
            !.scheduled = @ \cup {t},
            !.border[t] = UpdateBorder(@, w.geo[t], TRUE),
            !.kbdFocus = IF w.keyboard = NULL THEN @ ELSE t]

FocusToplevel(w, t) ==
  IF t = w.focused THEN w
  ELSE IF t = NULL THEN [Defocus(w) EXCEPT !.focused = NULL, !.kbdFocus = NULL]
  ELSE Refocus(Defocus(w), t)

\* FocusToplevel(w, t) reads a freed pulse_toplevel: the process may die, or
\* go on with what the memory happens to hold.
Survives(w, t) ==
  \/ UNCHANGED status
  \/ w.focused \notin Allocated \cup {NULL, t} /\ status' = "crashed"

-----------------------------------------------------------------------------
(* The listeners of a toplevel *)

MapHandler(w, t, borderOk) ==
  LET b == IF w.geo[t] > 0 /\ borderOk THEN CreateBorder(w.geo[t], TRUE) ELSE NULL
  IN FocusToplevel([w EXCEPT !.border[t] = b], t)

\* Mutation: only the focused window's border follows its size.
CommitWhenFocused(w, t) ==
  IF w.border[t] = NULL \/ w.geo[t] = 0 \/ w.focused # t THEN w
  ELSE [w EXCEPT !.border[t] = UpdateBorder(@, w.geo[t], TRUE)]

CommitHandler(w, t) ==
  IF w.border[t] = NULL \/ w.geo[t] = 0 THEN w
  ELSE [w EXCEPT !.border[t] = UpdateBorder(@, w.geo[t], w.focused = t)]

\* Mutation: only the head of the list is considered.
HeadToplevel(w, t) == IF Head(w.toplevels) = t THEN NULL ELSE Head(w.toplevels)

NextToplevel(w, t) ==
  LET others == Without(w.toplevels, t)
  IN IF others = << >> THEN NULL ELSE Head(others)

\* Mutation: the test whether t is the focused one is forgotten.
UnmapAndRefocus(w, t) == FocusToplevel([w EXCEPT !.border[t] = NULL], NextToplevel(w, t))

\* Mutation: the test whether t is the focused one is inverted.
UnmapUnlessFocused(w, t) ==
  LET hidden == [w EXCEPT !.border[t] = NULL]
  IN IF w.focused = t THEN hidden ELSE FocusToplevel(hidden, NextToplevel(w, t))

UnmapHandler(w, t) ==
  LET hidden == [w EXCEPT !.border[t] = NULL]
  IN IF w.focused = t THEN FocusToplevel(hidden, NextToplevel(w, t)) ELSE hidden

\* Mutation: wl_list_remove(&toplevel->link) is forgotten.
DestroyLinked(w, t) == [w EXCEPT !.border[t] = NULL]

DestroyHandler(w, t) ==
  [w EXCEPT !.border[t] = NULL, !.toplevels = Without(@, t)]

\* What wlroots drops with a window and its surface: scene tree, toplevel state
\* and the seat's focus on it.  focused_toplevel is not wlroots' to clear.
SurfaceGone(w, t) ==
  [w EXCEPT !.stack = Without(@, t),
            !.activated = @ \ {t},
            !.scheduled = @ \ {t},
            !.geo[t] = 0,
            !.kbdFocus = IF @ = t THEN NULL ELSE @]

\* The surface stays, as r.  Its tree is hidden, but still in the scene, and its
\* node.data is the address of the freed toplevel.
SurfaceStays(w, t, r) ==
  [SurfaceGone(w, t) EXCEPT !.left = @ \cup {r},
                            !.kbdFocus = IF w.kbdFocus = t THEN r ELSE @]

\* An unmapped xdg_surface is reset: no pending configure, no geometry.
SurfaceReset(w, t) == [w EXCEPT !.scheduled = @ \ {t}, !.geo[t] = 0]

-----------------------------------------------------------------------------
Init ==
  /\ life = [t \in Slots |-> "free"]
  /\ wm = [toplevels |-> << >>, focused |-> NULL,
           border |-> [t \in Slots |-> NULL], geo |-> [t \in Slots |-> 0],
           stack |-> << >>, activated |-> {}, scheduled |-> {}, left |-> {},
           keyboard |-> NULL, kbdFocus |-> NULL]
  /\ status = "running"

Goto(t, l) == life' = [life EXCEPT ![t] = l]

NewToplevel(t) ==
  /\ status = "running" /\ life[t] = "free"
  /\ Goto(t, "new")
  /\ wm' = [wm EXCEPT !.toplevels = Insert(@, t), !.stack = Append(@, t)]
  /\ UNCHANGED status

\* Mutation: the initial commit is taken for any other commit.
InitialCommitUnanswered(t) ==
  /\ status = "running" /\ life[t] = "new"
  /\ Goto(t, "initial")
  /\ wm' = CommitHandler(wm, t)
  /\ UNCHANGED status

\* The branch of the commit handler that answers with set_size(0, 0).
InitialCommit(t) ==
  /\ status = "running" /\ life[t] = "new"
  /\ Goto(t, "initial")
  /\ wm' = [wm EXCEPT !.scheduled = @ \cup {t}]
  /\ UNCHANGED status

\* wlroots sends a scheduled configure when the event loop is idle; the
\* client acknowledges the one that follows its initial commit.
SendConfigure(t) ==
  /\ status = "running" /\ t \in wm.scheduled
  /\ Goto(t, IF life[t] = "initial" THEN "configured" ELSE life[t])
  /\ wm' = [wm EXCEPT !.scheduled = @ \ {t}]
  /\ UNCHANGED status

\* The commit of the first buffer: map, then commit, in one request.
MapCommit(t, size, borderOk) ==
  /\ status = "running" /\ life[t] = "configured"
  /\ Goto(t, "mapped")
  /\ LET sized == [wm EXCEPT !.geo[t] = size]
     IN wm' = CommitHandler(MapHandler(sized, t, borderOk), t)
  /\ Survives(wm, t)

SizeCommit(t, size) ==
  /\ status = "running" /\ life[t] = "mapped"
  /\ wm' = CommitHandler([wm EXCEPT !.geo[t] = size], t)
  /\ UNCHANGED <<life, status>>

UnmapCommit(t) ==
  /\ status = "running" /\ life[t] = "mapped"
  /\ Goto(t, "new")
  /\ wm' = SurfaceReset(UnmapHandler(wm, t), t)
  /\ UNCHANGED status

\* wlroots unmaps a mapped toplevel before it destroys it.
Destroyed(t) == DestroyHandler(IF life[t] = "mapped" THEN UnmapHandler(wm, t) ELSE wm, t)

\* xdg_toplevel.destroy.  A client has to destroy the toplevel before its
\* xdg_surface, which goes by a later request.
DestroyToplevel(t, r) ==
  /\ status = "running" /\ life[t] # "free" /\ r \notin wm.left
  /\ Goto(t, "free")
  /\ wm' = SurfaceStays(Destroyed(t), t, r)
  /\ UNCHANGED status

DestroySurface(r) ==
  /\ status # "crashed" /\ r \in wm.left
  /\ wm' = [wm EXCEPT !.left = @ \ {r}, !.kbdFocus = IF @ = r THEN NULL ELSE @]
  /\ UNCHANGED <<life, status>>

\* The client goes: wlroots destroys toplevel and surface at once.  Clients go on
\* dying in server_finish(), after the loop has been terminated.
Disconnect(t) ==
  /\ status # "crashed" /\ life[t] # "free"
  /\ Goto(t, "free")
  /\ wm' = SurfaceGone(Destroyed(t), t)
  /\ UNCHANGED status

\* Maximize and fullscreen are denied with a bare configure.
ScheduleConfigure(t) ==
  /\ status = "running"
  /\ wm' = [wm EXCEPT !.scheduled = @ \cup {t}]
  /\ UNCHANGED <<life, status>>

RequestMaximize(t) == life[t] # "free" /\ ScheduleConfigure(t)

RequestFullscreen(t) == life[t] # "free" /\ ScheduleConfigure(t)

\* decoration_handle_new_toplevel_decoration: set_mode schedules a configure.
\* A client may ask for a decoration only while it has no buffer.
NewDecoration(t) == life[t] \notin {"free", "mapped"} /\ ScheduleConfigure(t)

-----------------------------------------------------------------------------
(* What the other components do to this one *)

FocusRequest(t) ==
  /\ status = "running" /\ t \in Mapped \cup {NULL}
  /\ wm' = FocusToplevel(wm, t)
  /\ Survives(wm, t)
  /\ UNCHANGED life

SeatKeyboard(k) ==
  /\ status # "crashed"
  /\ wm' = [wm EXCEPT !.keyboard = k]
  /\ UNCHANGED <<life, status>>

PutOnTop(n) ==
  /\ status = "running" /\ n \notin ToSet(wm.stack)
  /\ wm' = [wm EXCEPT !.stack = Append(@, n)]
  /\ UNCHANGED <<life, status>>

AddBackground(b) == PutOnTop(b)

\* The handler of a new output passes NULL to wlroots, and the process dies.
LoseOutput(b) ==
  /\ status = "running" /\ b \notin ToSet(wm.stack)
  /\ status' = "crashed"
  /\ UNCHANGED <<life, wm>>

\* The tree of a popup whose parent has no scene tree that can be found.
AttachPopup(p) == PutOnTop(p)

DetachPopup(p) ==
  /\ status # "crashed" /\ p \in ToSet(wm.stack)
  /\ wm' = [wm EXCEPT !.stack = Without(@, p)]
  /\ UNCHANGED <<life, status>>

Terminate ==
  /\ status = "running"
  /\ status' = "terminated"
  /\ UNCHANGED <<life, wm>>

-----------------------------------------------------------------------------
Client(t) ==
  \/ NewToplevel(t)
  \/ InitialCommit(t)
  \/ \E size \in Sizes, borderOk \in BOOLEAN : MapCommit(t, size, borderOk)
  \/ \E size \in Sizes : SizeCommit(t, size)
  \/ UnmapCommit(t)
  \/ \E r \in Remnants : DestroyToplevel(t, r)
  \/ Disconnect(t)
  \/ RequestMaximize(t)
  \/ RequestFullscreen(t)
  \/ NewDecoration(t)

\* What goes on without the user's hands.
Unattended ==
  \/ \E t \in Slots : Client(t) \/ SendConfigure(t)
  \/ \E r \in Remnants : DestroySurface(r)
  \/ \E b \in Backgrounds : AddBackground(b) \/ LoseOutput(b)

Next ==
  \/ Unattended
  \/ \E p \in Popups : AttachPopup(p) \/ DetachPopup(p)
  \/ \E t \in Slots \cup {NULL} : FocusRequest(t)
  \/ \E k \in Keyboards \cup {NULL} : SeatKeyboard(k)
  \/ Terminate

Spec == Init /\ [][Next]_shellVars

\* The event loop runs its idle sources: every scheduled configure is sent.
Fairness == \A t \in Slots : WF_shellVars(SendConfigure(t))

FairSpec == Spec /\ Fairness
=============================================================================
