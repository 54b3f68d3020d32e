------------------------------ MODULE Desktop -------------------------------
(***************************************************************************)
(* What PulseDE promises its user, and nothing of how it keeps it: which   *)
(* windows are shown, which is drawn over which, and which one is active   *)
(* (raised, lit and activated).  A window is drawn over others by being    *)
(* opened, switched to, or made active by the closing of the one that was. *)
(***************************************************************************)
EXTENDS Integers

CONSTANTS Windows, NULL

VARIABLES shown,   \* the windows on the screen
          over,    \* the pairs <<a, b>> of them with a drawn over b
          active   \* the one that has the user's attention

desktopVars == <<shown, over, active>>

DesktopInit == shown = {} /\ over = {} /\ active = NULL

\* The order of the windows in S once t, one of them, is drawn over the rest.
OnTopOf(order, S, t) ==
  {p \in order : p[1] \in S /\ p[2] \in S \ {t}} \cup {<<t, u>> : u \in S \ {t}}

\* A new window appears on top and is active.  Where none was, it may stay
\* inactive: so does one that is taken for focused already because it has the
\* address of a freed window that was (xdg-shell.c:39-41).
Open(t) ==
  /\ t \notin shown
  /\ shown' = shown \cup {t}
  /\ over' = OnTopOf(over, shown', t)
  /\ active' = t \/ (active = NULL /\ active' = NULL)

\* A window disappears.  Another may be raised and made active, but only in
\* the place of the active one.
Close(t) ==
  /\ t \in shown
  /\ shown' = shown \ {t}
  /\ \/ /\ active' = IF active = t THEN NULL ELSE active
        /\ over' = {p \in over : t \notin {p[1], p[2]}}
     \/ /\ active \in {t, NULL}
        /\ active' \in shown'
        /\ over' = OnTopOf(over, shown', active')

Switch(t) ==
  /\ t \in shown
  /\ active' = t
  /\ over' = OnTopOf(over, shown, t)
  /\ UNCHANGED shown

Blur == active' = NULL /\ UNCHANGED <<shown, over>>

DesktopNext ==
  \/ \E t \in Windows : Open(t) \/ Close(t) \/ Switch(t)
  \/ Blur

DesktopSpec == DesktopInit /\ [][DesktopNext]_desktopVars

-----------------------------------------------------------------------------
\* The active window is shown, with none drawn over it; any two windows that
\* are shown are drawn one over the other, and none is over itself.
Orderly ==
  /\ shown \subseteq Windows
  /\ over \subseteq shown \X shown
  /\ active # NULL => active \in shown /\ \A u \in shown : <<u, active>> \notin over
  /\ \A a, b \in shown : a # b => (<<a, b>> \in over <=> <<b, a>> \notin over)
  /\ \A a \in shown : <<a, a>> \notin over
=============================================================================
