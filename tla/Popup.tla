------------------------------- MODULE Popup --------------------------------
(***************************************************************************)
(* The popups of PulseDE (src/pulse-de/src/xdg-shell.c, from line 336),    *)
(* composed with the windows of XdgShell.                                  *)
(*                                                                         *)
(* A popup of a window lives in the scene tree of the window, over its     *)
(* surface and its border, and is raised and hidden with it.  The tree of  *)
(* a popup is not stored where the handler looks for the tree of a parent, *)
(* so a popup of a popup hangs at the root of the scene.                   *)
(*                                                                         *)
(* A client creates popups of mapped surfaces only.  wlroots destroys the  *)
(* popups of a surface, the innermost first, before the surface is unmapped *)
(* or destroyed; each destruction is a step here, for no handler of theirs *)
(* looks at another object.                                                *)
(***************************************************************************)
EXTENDS XdgShell

CONSTANT LastCell

ASSUME LastCellAssumption == LastCell \in Nat

ASSUME PopupsAssumption == NULL \notin Others

\* The screen: a row of cells.
Cells == 0 .. LastCell

VARIABLES popups,  \* the pulse_popup in each heap cell
          trees    \* the popups in the scene tree of each window

popupVars == <<life, wm, status, popups, trees>>

PopupLives == {"free", "new", "initial", "mapped"}

PopupTypeOK ==
  /\ TypeOK
  /\ popups \in [Popups -> [life   : PopupLives,
                            parent : Slots \cup Popups \cup {NULL},
                            window : Slots \cup {NULL}, \* at the end of the parents
                            at     : Cells]]            \* the cell it covers
  /\ trees \in [Slots -> Seq(Popups)]

NoPopup == [life |-> "free", parent |-> NULL, window |-> NULL, at |-> 0]

PopupInit ==
  /\ Init
  /\ popups = [p \in Popups |-> NoPopup]
  /\ trees = [t \in Slots |-> << >>]

Children(n) == {p \in Popups : popups[p].parent = n}

-----------------------------------------------------------------------------
(* xdg_shell_handle_new_popup *)

\* Mutation: the parent's data is not looked up.
JoinRoot(p, parent) == AttachPopup(p) /\ UNCHANGED trees

\* Where the tree of p goes: only a toplevel's base->data holds a tree.
JoinScene(p, parent) ==
  \/ /\ parent \in Slots
     /\ trees' = [trees EXCEPT ![parent] = Append(@, p)]
     /\ UNCHANGED shellVars
  \/ /\ parent \in Popups
     /\ AttachPopup(p)
     /\ UNCHANGED trees

NewPopup(p, parent, x) ==
  /\ status = "running" /\ popups[p].life = "free"
  /\ \/ parent \in Mapped
     \/ parent \in Popups /\ popups[parent].life = "mapped"
  /\ LET window == IF parent \in Slots THEN parent ELSE popups[parent].window
     IN popups' = [popups EXCEPT ![p] = [life |-> "new", parent |-> parent,
                                         window |-> window, at |-> x]]
  /\ JoinScene(p, parent)

-----------------------------------------------------------------------------
(* The listeners of a popup *)

PopupStep(p, from, to) ==
  /\ status = "running" /\ popups[p].life = from
  /\ popups' = [popups EXCEPT ![p].life = to]
  /\ UNCHANGED <<life, wm, status, trees>>

\* The commit handler answers the initial commit with the configure that
\* wlr_xdg_popup_unconstrain_from_box schedules.
PopupInitialCommit(p) == PopupStep(p, "new", "initial")

\* The client has had its configure and commits a buffer.
PopupMap(p) == PopupStep(p, "initial", "mapped")

PopupUnmap(p) == Children(p) = {} /\ PopupStep(p, "mapped", "new")

\* The destroy handler, with the scene tree wlroots destroys.
PopupDestroy(p) ==
  /\ status # "crashed" /\ popups[p].life # "free" /\ Children(p) = {}
  /\ popups' = [popups EXCEPT ![p] = NoPopup]
  /\ \/ /\ popups[p].parent \in Slots
        /\ trees' = [trees EXCEPT ![popups[p].parent] = Without(@, p)]
        /\ UNCHANGED shellVars
     \/ /\ popups[p].parent \in Popups
        /\ DetachPopup(p)
        /\ UNCHANGED trees

PopupNext ==
  \/ \E p \in Popups, parent \in Slots \cup Popups, x \in Cells : NewPopup(p, parent, x)
  \/ \E p \in Popups : \/ PopupInitialCommit(p) \/ PopupMap(p)
                       \/ PopupUnmap(p) \/ PopupDestroy(p)

\* A step of a window, which keeps the ones with popups on the screen.
WindowStep(A) ==
  /\ A
  /\ \A t \in Slots : Children(t) # {} => life'[t] = "mapped"
  /\ UNCHANGED <<popups, trees>>

-----------------------------------------------------------------------------
(* Properties *)

\* Every popup hangs exactly once in the scene, under the window it is a popup
\* of or, if its parent is a popup, at the root; and the scene holds no freed
\* popup, and none whose parent is gone (xdg-shell.c:346-352, 374-382).
PopupsAreOwned ==
  /\ \A t \in Slots : IsInjective(trees[t]) /\ ToSet(trees[t]) = Children(t)
  /\ ToSet(wm.stack) \cap Popups = UNION {Children(q) : q \in Popups}
  /\ \A p \in Popups : popups[p].life # "free" =>
       \/ popups[p].parent \in Mapped
       \/ popups[p].parent \in Popups /\ popups[popups[p].parent].life = "mapped"
=============================================================================
