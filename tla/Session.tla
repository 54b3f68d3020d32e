------------------------------ MODULE Session -------------------------------
(***************************************************************************)
(* A session of PulseDE: the windows and the outputs (Output) in the       *)
(* process that starts, runs the event loop and takes everything down      *)
(* (Lifecycle).  Handlers run in the loop, outputs are announced while the *)
(* backend starts, and the destroy handlers of what is left run inside the *)
(* destructors of server_finish().                                         *)
(***************************************************************************)
EXTENDS Output, Lifecycle

sessionVars == <<life, wm, status, plugged, enabled, outputs, layout,
                 due, needs, waiting, phase, live, todo, shouldExit>>

SessionInit == OutputInit /\ LifecycleInit

-----------------------------------------------------------------------------
\* server_init() and server_run() up to the event loop.
StartUp ==
  /\ \/ \E o \in ToSet(Subsystems) : Create(o) \/ Fail(o)
     \/ \E ok \in BOOLEAN : AddSocket(ok) \/ StartBackend(ok)
  /\ UNCHANGED outputVars

\* wlr_backend_start() announces the outputs that are there.
Announce == phase = "start" /\ Plugging /\ UNCHANGED lifecycleVars

ClientConnects == Connect /\ UNCHANGED outputVars

\* The surfaces of the clients, with a toplevel or without.
Surfaces == Allocated \cup wm.left

\* A handler, called from wl_display_run().  A surface has a client.
Handle ==
  /\ phase = "loop"
  /\ Plugging \/ Unplugging \/ Events
  /\ "clients" \in live \/ Surfaces' = {}
  /\ UNCHANGED lifecycleVars

\* Mutation: the binding sets a flag, as the signal handler does.
QuitByFlag == phase = "loop" /\ Ending /\ UNCHANGED lifecycleVars

\* Super+Q, up to the loop's return.  The handlers that are left of the batch of
\* events it is in still run, but none of them reads the flag it clears: the step
\* stands for the end of the batch, and they come before it.
QuitSession == Ending /\ Quit

\* wl_display_destroy_clients() and wlr_backend_destroy() call the handlers of
\* the windows and the outputs that are left, and then return.
Leftover ==
  /\ phase = "finish"
  /\ \/ Head(todo) = "clients" /\ Elsewhere /\ Surfaces' \in SUBSET Surfaces \ {Surfaces}
     \/ Head(todo) = "backend" /\ Unplugging
  /\ UNCHANGED lifecycleVars

DestroyNext ==
  /\ Destroy
  /\ Head(todo) = "clients" => Surfaces = {}
  /\ Head(todo) = "backend" => plugged = {}
  /\ UNCHANGED outputVars

SignalSession == Signal /\ UNCHANGED outputVars

Proceed == StartUp \/ Leftover \/ DestroyNext

SessionNext ==
  /\ status # "crashed"
  /\ Proceed \/ Announce \/ ClientConnects \/ Handle \/ QuitSession \/ SignalSession

\* The fairness of Output, in the event loop, and of Lifecycle.
SessionFairness ==
  /\ WF_sessionVars(status # "crashed" /\ Proceed)
  /\ \A t \in Slots : WF_shellVars(phase = "loop" /\ SendConfigure(t))
  /\ \A o \in Outputs :
       /\ WF_outputVars(phase = "loop" /\ \E ok \in FrameCommits : FrameEvent(o, ok))
       /\ SF_outputVars(phase = "loop" /\ FrameEvent(o, TRUE))

SessionSpec == SessionInit /\ [][SessionNext]_sessionVars /\ SessionFairness

-----------------------------------------------------------------------------
(* Properties *)

\* No handler runs before what it uses is made or after it is destroyed: those
\* of windows use the scene, the seat and the decoration manager, those of
\* outputs the scene and the layout, and of new ones the renderer and the allocator
\* (xdg-shell.c:30-86, 200-220, output.c:95-199), in start-up, in the loop, and in
\* teardown whatever is left then.
HandlersFindTheServer ==
  [][ /\ Allocated \cup Allocated' # {} /\ <<life, wm>>' # <<life, wm>> =>
           {"display", "xdg_shell", "scene", "seat", "decoration"} \subseteq live
      /\ <<plugged, outputs>>' # <<plugged, outputs>> =>
           {"display", "backend", "scene", "layout", "scene_layout"} \subseteq live
      /\ ~(plugged' \subseteq plugged) => {"renderer", "allocator"} \subseteq live
    ]_sessionVars

\* Once the binding has quit, the process is on its way out, and it does not leave
\* before every window, every surface and every display is destroyed, those that
\* came while it was starting or quitting included (input.c:69-74, server.c:299-326).
LeavesClean ==
  /\ status = "terminated" => phase \in {"finish", "exited"}
  /\ phase = "exited" => Surfaces = {} /\ plugged = {}

\* The quit binding ends the process, though windows and outputs are left and
\* displays and clients go on doing things (input.c:69-74, server.c:281-326).
QuitEnds == (status = "terminated") ~> (phase = "exited")
=============================================================================
