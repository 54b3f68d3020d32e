------------------------------- MODULE Cursor -------------------------------
(***************************************************************************)
(* The pointer of PulseDE (src/pulse-de/src/cursor.c) and the hit test of  *)
(* xdg-shell.c, composed with the windows of XdgShell and their popups.    *)
(*                                                                         *)
(* The screen is one row of cells between the top and the bottom border of *)
(* the windows, all of which PulseDE puts at the origin: a window of size  *)
(* n covers cells 0 .. n - 1, and its left and right border rects lie over *)
(* the first and the last of them.  A window with an empty geometry covers *)
(* nothing, a background rect every cell, a popup one.                     *)
(*                                                                         *)
(* A release, an axis event and a frame are passed to the seat and change  *)
(* nothing here.                                                           *)
(***************************************************************************)
EXTENDS Popup

VARIABLES cursor,        \* position of server->cursor
          pointerFocus,  \* the surface with the seat's pointer focus
          image          \* whose cursor image is shown

cursorVars == <<life, wm, status, popups, trees, cursor, pointerFocus, image>>

\* The wl_surfaces: of toplevels, of those that outlive theirs, of popups.
Surfaces == Allocated \cup wm.left \cup {p \in Popups : popups[p].life # "free"}

CursorTypeOK ==
  /\ PopupTypeOK
  /\ cursor \in Cells
  /\ pointerFocus \in Surfaces \cup {NULL}
  /\ image \in {"default", "client"}

-----------------------------------------------------------------------------
(* xdg_shell_toplevel_at *)

\* The border rects are created after the surface, hence lie over it.
Frame(w, t) ==
  IF w.border[t] = NULL THEN {}
  ELSE {x \in {0, w.border[t].size - 1} : 0 <= x /\ x < w.border[t].size}

\* wlroots enables the scene tree of an xdg_surface while it is mapped.
PopupAt(p, x) == popups[p].life = "mapped" /\ popups[p].at = x

PopupsAt(t, x) == {i \in DOMAIN trees[t] : PopupAt(trees[t][i], x)}

Covers(w, n, x) ==
  \/ n \in Backgrounds
  \/ n \in Popups /\ PopupAt(n, x)
  \/ n \in Mapped /\ (x < w.geo[n] \/ x \in Frame(w, n) \/ PopupsAt(n, x) # {})

NodesAt(w, x) == {i \in DOMAIN w.stack : Covers(w, w.stack[i], x)}

\* The surface at x, if n is the topmost of the root's children there: none
\* where a rect is on top.
SurfaceOf(w, n, x) ==
  IF n \in Slots /\ PopupsAt(n, x) # {} THEN trees[n][Max(PopupsAt(n, x))]
  ELSE IF n \in Backgrounds \/ (n \in Slots /\ x \in Frame(w, n)) THEN NULL
  ELSE n

SurfaceAt(w, x) ==
  IF NodesAt(w, x) = {} THEN NULL ELSE SurfaceOf(w, w.stack[Max(NodesAt(w, x))], x)

\* The walk from a surface up to the first tree with data, a toplevel's.
OwnerOf(s) ==
  IF s \notin Popups THEN s
  ELSE IF popups[s].parent \in Slots THEN popups[s].parent ELSE NULL

ToplevelAt(w, x) == OwnerOf(SurfaceAt(w, x))

-----------------------------------------------------------------------------
(* cursor.c *)

CursorInit ==
  /\ PopupInit
  /\ cursor = 0
  /\ pointerFocus = NULL
  /\ image = "default"

\* cursor_update_focus, with the cursor at x.
UpdateFocus(x) ==
  LET s == SurfaceAt(wm, x)
  IN /\ cursor' = x
     /\ pointerFocus' = s
     /\ image' = IF OwnerOf(s) = NULL THEN "default" ELSE image
     /\ UNCHANGED popupVars

\* Mutation: the delta is added to the position without wlr_cursor_move.
CursorMotionUnconfined(delta) == status = "running" /\ UpdateFocus(cursor + delta)

\* wlr_cursor_move keeps the cursor inside the output layout.
CursorMotion(delta) ==
  LET x == cursor + delta
  IN /\ status = "running"
     /\ UpdateFocus(IF x < 0 THEN 0 ELSE Min({x, LastCell}))

CursorMotionAbsolute(x) == status = "running" /\ UpdateFocus(x)

\* Mutation: the click focuses the window the seat's pointer is in.
ButtonOnPointerFocus ==
  /\ status = "running"
  /\ LET t == IF pointerFocus \in wm.left THEN NULL ELSE OwnerOf(pointerFocus)
     IN wm' = FocusToplevel(wm, t) /\ Survives(wm, t)
  /\ UNCHANGED <<life, popups, trees, cursor, pointerFocus, image>>

\* A press is forwarded to the client with the pointer focus, which need not be
\* that of the surface under the cursor; then the window there is focused.
ButtonPress ==
  /\ status = "running"
  /\ LET t == ToplevelAt(wm, cursor)
     IN wm' = FocusToplevel(wm, t) /\ Survives(wm, t)
  /\ UNCHANGED <<life, popups, trees, cursor, pointerFocus, image>>

\* The request of a client is honoured if one of its surfaces has the pointer
\* focus.  Every window has a client of its own; s is the window, or the surface
\* it has left.
RequestSetCursor(s) ==
  /\ status = "running" /\ s \in Allocated \cup wm.left
  /\ image' = IF \/ pointerFocus = s
                 \/ pointerFocus \in Popups /\ popups[pointerFocus].window = s
              THEN "client" ELSE image
  /\ UNCHANGED <<popupVars, cursor, pointerFocus>>

\* The surfaces that outlive their toplevel in this step: one at most.
LeftBehind == wm'.left \ wm.left

\* The rest of the compositor: the seat drops the pointer focus on a surface
\* that is destroyed, and nothing else looks at the pointer.
Elsewhere ==
  /\ \/ PopupNext
     \/ WindowStep(Unattended)
     \/ WindowStep(Terminate)
     \/ \E k \in Keyboards \cup {NULL} : WindowStep(SeatKeyboard(k))
  /\ \/ pointerFocus \in Surfaces' /\ UNCHANGED pointerFocus
     \/ pointerFocus \notin Surfaces' /\ pointerFocus' \in LeftBehind
     \/ pointerFocus \notin Surfaces' /\ LeftBehind = {} /\ pointerFocus' = NULL
  /\ UNCHANGED <<cursor, image>>

CursorNext ==
  \/ \E delta \in {-1, 1} : CursorMotion(delta)
  \/ \E x \in Cells : CursorMotionAbsolute(x)
  \/ ButtonPress
  \/ \E s \in Slots \cup Remnants : RequestSetCursor(s)
  \/ Elsewhere

CursorSpec == CursorInit /\ [][CursorNext]_cursorVars

-----------------------------------------------------------------------------
(* Properties *)

\* No child of the scene's root that is drawn over n covers cell x.
Uncovered(w, n, x) ==
  \A m \in ToSet(w.stack) : Above(w.stack, m, n) => ~Covers(w, m, x)

\* The user sees surface s, of a window or of a popup, at cell x.
SeenAt(w, s, x) ==
  \E n \in ToSet(w.stack) :
    /\ Uncovered(w, n, x)
    /\ \/ s = n /\ n \in Popups /\ PopupAt(n, x)
       \/ /\ s = n /\ n \in Mapped
          /\ x < w.geo[n] /\ x \notin Frame(w, n)
          /\ \A p \in ToSet(trees[n]) : ~PopupAt(p, x)
       \/ /\ n \in Mapped /\ s \in ToSet(trees[n]) /\ PopupAt(s, x)
          /\ \A p \in ToSet(trees[n]) : Above(trees[n], p, s) => ~PopupAt(p, x)

\* A click on a window the user sees, or on a popup of it, focuses the window,
\* wherever the seat's pointer focus is; the surface stays under the cursor
\* although the scene is reordered, so that the next click changes nothing, and
\* the pointer focus, if it is right, stays so (cursor.c:8, 95-108).  The window
\* is activated, with one exception: it was taken for focused already, without
\* being activated, because it has the address of a freed one (xdg-shell.c:39-41;
\* FocusedUnactivatedOnlyByReuse says that there is no other way to this).
ClickGivesFocus ==
  [][ ButtonPress =>
        \A s \in Slots \cup Popups :
          SeenAt(wm, s, cursor) /\ OwnerOf(s) # NULL =>
            LET t == OwnerOf(s) IN
            /\ wm'.focused = t
            /\ t \in wm'.activated \/ (wm.focused = t /\ t \notin wm.activated)
            /\ SeenAt(wm, s, cursor)' ]_cursorVars

\* With its pointer and its popups the compositor implements XdgShell: a click
\* asks for the focus of no window but a mapped one, motion asks for none, and
\* popups move no window.
ImplementsXdgShell == Spec

\* cursor.c:8: clicking an unfocused window focuses it.  A click on its border
\* hits a rect, and clears the focus instead.
ClickFocusesWindow ==
  [][ \A t \in Slots :
        ButtonPress /\ Covers(wm, t, cursor) /\ Uncovered(wm, t, cursor)
          => wm'.focused = t ]_cursorVars

\* xdg-shell.c:290-291: the hit test walks up from any surface to the toplevel
\* that owns it.  It does not from the surface of a nested popup, and a click
\* on it clears the focus of its window.
ClickReachesOwner ==
  [][ \A p \in Popups :
        ButtonPress /\ SeenAt(wm, p, cursor) => wm'.focused = popups[p].window ]_cursorVars
=============================================================================
