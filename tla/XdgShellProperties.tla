------------------------- MODULE XdgShellProperties -------------------------
(***************************************************************************)
(* What the window management of PulseDE promises, and what the comments   *)
(* and documents of the repository say of it that the code does not keep.  *)
(***************************************************************************)
EXTENDS XdgShell

\* Nothing the compositor follows (server->toplevels, the trees the hit test
\* walks, the pending configures, the seat's focus) reaches a freed
\* pulse_toplevel, and nothing allocated is missing from the list or from the
\* scene.  The trees of wm.left do point to freed memory, from the destruction of
\* a toplevel to that of its xdg_surface (xdg-shell.c:200-220, 292): they are
\* hidden, and no handler looks at them, but the seat may still have its
\* keyboard focus on their surface.
ReachableIsAllocated ==
  /\ ToSet(wm.toplevels) = Allocated
  /\ ToSet(wm.stack) \ Others = Allocated
  /\ IsInjective(wm.toplevels) /\ IsInjective(wm.stack)
  /\ wm.scheduled \subseteq Allocated
  /\ wm.kbdFocus \in Allocated \cup wm.left \cup {NULL}

\* At most one window has the activated state, and it is the one
\* server->focused_toplevel points to (xdg-shell.c:33-36).
OnlyFocusedIsActivated == wm.activated \subseteq {wm.focused} \cap Allocated

\* A border exists only on a visible window, is lit (2px signal top, dark
\* sides) exactly on the focused one, and has the size the window last
\* committed, in whatever order focus changes, maps and resizes come.
BorderShowsFocusAndSize ==
  \A t \in Slots : wm.border[t] # NULL =>
    /\ t \in Mapped
    /\ wm.border[t].top = TopColour(t = wm.focused)
    /\ wm.border[t].sides = SideColour(t = wm.focused)
    /\ wm.geo[t] > 0 => wm.border[t].size = wm.geo[t]

\* No visible window is drawn over the focused one (pulse-xdg-shell.h:62-63),
\* although it is raised only when the focus moves to it.
FocusedOnTop ==
  wm.focused \in Allocated => \A u \in Mapped : ~Above(wm.stack, u, wm.focused)

\* A window that is shown and focused hands the focus over when it is unmapped or
\* destroyed: to another toplevel that exists, or to none if there is no other
\* (xdg-shell.c:161-172).  One that is focused and hidden does not: see
\* FocusedIsAllocated.
FocusIsHandedOver ==
  [][ wm.focused \in Mapped \ Mapped' =>
        LET others == Allocated' \ {wm.focused}
        IN IF others = {} THEN wm'.focused = NULL ELSE wm'.focused \in others ]_shellVars

\* Windows keep their relative order: only the window that receives the focus
\* moves, and it moves to the top.
OrderIsKept ==
  [][ \A a, b \in (Allocated \cap Allocated') \ {wm'.focused} :
        Above(wm.stack, a, b) <=> Above(wm'.stack, a, b) ]_shellVars

\* With a keyboard in the seat, keystrokes that go to the focused window (or
\* nowhere, when none is) keep doing so through every map, unmap, destroy and
\* click, unless the focused window itself is freed.
KeyboardStaysAligned ==
  [][ (wm.kbdFocus = wm.focused /\ wm.keyboard # NULL)
        => \/ wm'.kbdFocus = wm'.focused
           \/ wm'.focused \notin Allocated' \cup {NULL} ]_shellVars

\* What the user sees of the windows: the mapped ones, in the order of the
\* scene; the active one is mapped, activated and focused.
Desk ==
  INSTANCE Desktop WITH
    Windows <- Slots,
    shown   <- Mapped,
    over    <- {p \in Mapped \X Mapped : Above(wm.stack, p[1], p[2])},
    active  <- IF wm.focused \in wm.activated \cap Mapped THEN wm.focused ELSE NULL

\* The window management implements Desktop: whatever clients, clicks, outputs
\* and pointers into freed memory do, the user sees windows open on top and
\* active, the focus move with the raise, and nothing else (pulse-xdg-shell.h:
\* 59-67, docs/platform/04-window-manager.md).  One exception is part of Desktop: a
\* window may open inactive if none is active, which is what a window at the
\* address of a freed focused one does (see FocusedUnactivatedOnlyByReuse).
ShowsDesktop == Desk!DesktopSpec

\* The focus is never lost in one step: while the focused window is shown, no
\* handler leaves focused_toplevel on freed memory, the destruction of that
\* window included (xdg-shell.c:161-172, 200-220).  It takes two: the focus has
\* to go to a window that is not shown first.
FocusDanglesOnlyFromHidden ==
  [][ wm.focused \in Mapped \cup {NULL} => wm'.focused \in Allocated' \cup {NULL} ]_shellVars

\* A toplevel comes to be focused without the activated state in one way only:
\* focused_toplevel dangled, and the toplevel has been given its address, so that
\* the focus function takes it for focused already (xdg-shell.c:39-41, 272).  No
\* unmap, destruction, click or map of other windows leads there.
FocusedUnactivatedOnlyByReuse ==
  [][ wm'.focused \in Allocated' \ wm'.activated =>
        \/ wm.focused \in Allocated \ wm.activated
        \/ wm.focused \notin Allocated \cup {NULL} /\ wm'.focused = wm.focused ]_shellVars

\* A client that waits for the answer to its initial commit has a configure on
\* its way, whatever focus changes, resets and requests of other windows have
\* scheduled or taken back (xdg-shell.c:180-185).
ConfigureIsPending == \A t \in Slots : life[t] = "initial" => t \in wm.scheduled

\* A client that has made its initial commit gets the configure it has to
\* wait for (xdg-shell.c:180-185), unless the compositor ends.
InitialCommitIsAnswered ==
  \A t \in Slots :
    (life[t] = "initial") ~> (life[t] # "initial" \/ status # "running")

-----------------------------------------------------------------------------
(* Statements of the repository that the code does not keep *)

\* xdg-shell.c:35-36: the shell can query focused_toplevel.  The unmap handler
\* may focus a toplevel that is not mapped; destroyed, it leaves its address.
FocusedIsAllocated == wm.focused \in Allocated \cup {NULL}

\* pulse-xdg-shell.h:61-62: exactly one toplevel holds keyboard focus.  The
\* seat is not told when it has no keyboard, nor when it gets one.
KeyboardFollowsFocus ==
  (wm.keyboard # NULL /\ wm.focused \in Mapped) => wm.kbdFocus = wm.focused

\* output.c:184: the rect is the background.  It is created on top of the
\* windows that exist when an output is plugged in.
BackgroundIsBehind ==
  \A b \in Backgrounds, t \in Mapped : ~Above(wm.stack, b, t)
=============================================================================
