------------------------------ MODULE Lifecycle ------------------------------
(***************************************************************************)
(* The process of PulseDE from main() to its exit: server_init() brings    *)
(* the subsystems up one by one and unwinds through its labels when one    *)
(* fails, server_run() runs the event loop, server_finish() takes          *)
(* everything down (src/pulse-de/src/server.c, src/pulse-de/src/main.c).   *)
(*                                                                         *)
(* A subsystem is the object its constructor returns; that a destructor is *)
(* one step lets a signal arrive between any two.  "clients" stands for    *)
(* the connected clients and all their windows.                            *)
(***************************************************************************)
EXTENDS SequencesExt

VARIABLES phase,      \* where main() is
          live,       \* what has been constructed and not destroyed
          todo,       \* destructor calls that remain on the way out
          shouldExit  \* main.c's should_exit

lifecycleVars == <<phase, live, todo, shouldExit>>

\* In the order of server_init().
Subsystems ==
  <<"display", "backend", "renderer", "allocator", "scene", "layout",
    "scene_layout", "compositor", "subcompositor", "data_device", "xdg_shell",
    "decoration", "seat", "cursor", "xcursor">>

\* What wlroots destroys with the display it was constructed for, and the
\* attachment of the scene to such a layout.  A scene has no display.
OwnedByDisplay ==
  {"layout", "scene_layout", "compositor", "subcompositor", "data_device",
   "xdg_shell", "decoration", "seat"}

Phases == {"init", "unwind", "socket", "start", "loop", "finish", "exited"}

LifecycleTypeOK ==
  /\ phase \in Phases
  /\ live \subseteq ToSet(Subsystems) \cup {"clients"}
  /\ todo \in Seq(ToSet(Subsystems) \cup {"clients"})
  /\ shouldExit \in BOOLEAN
  /\ phase \in {"socket", "start", "loop"} => ToSet(Subsystems) \subseteq live
  /\ todo # << >> <=> phase \in {"unwind", "finish"}

LifecycleInit ==
  phase = "init" /\ live = {} /\ todo = << >> /\ shouldExit = FALSE

-----------------------------------------------------------------------------
(* server_init *)

\* o is the one whose turn it is.
IsNext(o) == Len(Subsystems) > Cardinality(live) /\ o = Subsystems[Cardinality(live) + 1]

\* Mutation: success is returned before the last construction.
CreateAllButOne(o) ==
  /\ phase = "init" /\ IsNext(o)
  /\ live' = live \cup {o}
  /\ phase' = IF o = "cursor" THEN "socket" ELSE "init"
  /\ UNCHANGED <<todo, shouldExit>>

Create(o) ==
  /\ phase = "init" /\ IsNext(o)
  /\ live' = live \cup {o}
  /\ phase' = IF o = Last(Subsystems) THEN "socket" ELSE "init"
  /\ UNCHANGED <<todo, shouldExit>>

\* The calls under the error labels, which fall through to the next.
Unwind == <<"cursor", "allocator", "renderer", "backend", "display">>

\* Mutation: no cursor, yet the jump goes to err_cursor.
LabelCursor(o) ==
  CASE o = "display" -> 6 [] o = "backend" -> 5 [] o = "renderer" -> 4
    [] o = "allocator" -> 3 [] o \in {"cursor", "xcursor"} -> 1 [] OTHER -> 2

\* Mutation: the jumps go one label too far.
LabelTooFar(o) ==
  CASE o = "display" -> 6 [] o = "backend" -> 6 [] o = "renderer" -> 5
    [] o = "allocator" -> 4 [] o = "xcursor" -> 2 [] OTHER -> 3

\* Where the construction of o jumps to when it fails.
Label(o) ==
  CASE o = "display" -> 6 [] o = "backend" -> 5 [] o = "renderer" -> 4
    [] o = "allocator" -> 3 [] o = "xcursor" -> 1 [] OTHER -> 2

Leave(next, calls) ==
  /\ todo' = calls
  /\ phase' = IF calls = << >> THEN "exited" ELSE next

Fail(o) ==
  /\ phase = "init" /\ IsNext(o)
  /\ Leave("unwind", SubSeq(Unwind, Label(o), Len(Unwind)))
  /\ UNCHANGED <<live, shouldExit>>

-----------------------------------------------------------------------------
(* server_run, server_finish *)

\* What the constructor of o is given, and o holds on to.  The compositor lets go of
\* a renderer that is destroyed.  Handlers of clients use everything there is.
Uses(o) ==
  CASE o \in {"display", "scene", "xcursor"} -> {}
    [] o = "renderer" -> {"backend"}
    [] o = "allocator" -> {"backend", "renderer"}
    [] o = "scene_layout" -> {"scene", "layout"}
    [] o = "cursor" -> {"layout"}
    [] o = "clients" -> ToSet(Subsystems)
    [] OTHER -> {"display"}

\* Mutation: the clients are left to wl_display_destroy().
FinishClientsLast ==
  <<"xcursor", "cursor", "allocator", "renderer", "backend", "clients", "display">>

\* Mutation: the display goes before the backend.
FinishBackendLast ==
  <<"clients", "xcursor", "cursor", "allocator", "renderer", "display", "backend">>

FinishCalls ==
  <<"clients", "xcursor", "cursor", "allocator", "renderer", "backend", "display">>

AddSocket(ok) ==
  /\ phase = "socket"
  /\ IF ok THEN phase' = "start" /\ UNCHANGED todo ELSE Leave("finish", FinishCalls)
  /\ UNCHANGED <<live, shouldExit>>

StartBackend(ok) ==
  /\ phase = "start"
  /\ IF ok THEN phase' = "loop" /\ UNCHANGED todo ELSE Leave("finish", FinishCalls)
  /\ UNCHANGED <<live, shouldExit>>

Connect ==
  /\ phase = "loop"
  /\ live' = live \cup {"clients"}
  /\ UNCHANGED <<phase, todo, shouldExit>>

\* wl_display_terminate(), which the key binding calls and nothing else.
Quit ==
  /\ phase = "loop"
  /\ Leave("finish", FinishCalls)
  /\ UNCHANGED <<live, shouldExit>>

\* The next destructor.  The display takes along what it owns.
Destroy ==
  /\ phase \in {"unwind", "finish"}
  /\ live' = live \ ({Head(todo)} \cup IF Head(todo) = "display" THEN OwnedByDisplay ELSE {})
  /\ Leave(phase, Tail(todo))
  /\ UNCHANGED shouldExit

\* SIGTERM or SIGINT.  Nothing reads the flag.
Signal ==
  /\ phase # "exited"
  /\ shouldExit' = TRUE
  /\ UNCHANGED <<phase, live, todo>>

Advance ==
  \/ \E o \in ToSet(Subsystems) : Create(o) \/ Fail(o)
  \/ \E ok \in BOOLEAN : AddSocket(ok) \/ StartBackend(ok)
  \/ Destroy

LifecycleNext == Advance \/ Connect \/ Quit \/ Signal

LifecycleSpec == LifecycleInit /\ [][LifecycleNext]_lifecycleVars

\* The program goes on, except where it waits for an event.
LifecycleFairSpec == LifecycleSpec /\ WF_lifecycleVars(Advance)

-----------------------------------------------------------------------------
(* Properties *)

\* server.c:223-244, 304-326: a destructor is called once, and only for what
\* exists: whatever construction fails, no label destroys what was not made.
OnlyLiveIsDestroyed ==
  IsInjective(todo) /\ ToSet(todo) \ live \subseteq {"clients"}

\* server.c:223-244, 304-326: whatever construction failed, a process that leaves
\* has destroyed all else it made, though it leaks the scene (NothingLeaks).
OnlySceneLeaks == phase = "exited" => live \subseteq {"scene"}

\* server.c:223-244, 302-326: though things are not destroyed in the reverse of the
\* order they are made in, nothing goes before what uses it: not the seat before
\* the windows whose destroy handlers look at it, not the backend before the
\* renderer and the allocator on it, not the layout before the cursor.
UsersGoFirst == \A o \in live : Uses(o) \subseteq live

\* server.c:231-232 and 324-325: the scene is cleaned up with the display.  It was
\* not given one (server.c:98), and nobody destroys it.
NothingLeaks == phase = "exited" => live = {}

\* pulse-server.h:119: server_run() blocks until SIGTERM or SIGINT, and then
\* the process exits.
SignalStopsTheLoop == shouldExit ~> (phase = "exited")
=============================================================================
