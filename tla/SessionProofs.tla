--------------------------- MODULE SessionProofs ----------------------------
(***************************************************************************)
(* Proofs about a session, for any number of windows and displays: what    *)
(* holds of the outputs, of the windows and of the process holds in it, no *)
(* handler runs before what it uses is there or after it has gone, and the *)
(* process does not leave before all handlers have run.                    *)
(***************************************************************************)
EXTENDS Session, OutputProofs, LifecycleProofs

\* A step of the session is one of the outputs and windows, or none of theirs.
LEMMA SessionNextOutputNext ==
  ASSUME [SessionNext]_sessionVars PROVE [OutputNext]_outputVars
PROOF
  <1>1. CASE UNCHANGED sessionVars
    BY <1>1 DEF sessionVars, outputVars
  <1>2. CASE Proceed
    BY <1>2 DEF Proceed, StartUp, Leftover, DestroyNext, OutputNext, Events
  <1>3. CASE Announce \/ ClientConnects \/ Handle \/ QuitSession \/ SignalSession
    BY <1>3 DEF Announce, ClientConnects, Handle, QuitSession, SignalSession, OutputNext
  <1> QED
    BY <1>1, <1>2, <1>3 DEF SessionNext

\* A session is a run of the outputs with the windows.
LEMMA SessionIsOutput == SessionSpec => OutputSpec
PROOF
  <1>1. SessionInit => OutputInit
    BY DEF SessionInit
  <1>2. [SessionNext]_sessionVars => [OutputNext]_outputVars
    BY SessionNextOutputNext
  <1> QED
    BY <1>1, <1>2, PTL DEF SessionSpec, OutputSpec

\* Whatever start-up and teardown do, the windows do what XdgShell allows.
THEOREM SessionRefinesXdgShell == SessionSpec => ImplementsXdgShell
BY SessionIsOutput, OutputRefinesXdgShell, PTL

\* What Desktop promises the user holds from start-up to the exit.
THEOREM SessionShowsDesktop == SessionSpec => ShowsDesktop
BY SessionRefinesXdgShell, RefinesDesktop, PTL DEF ImplementsXdgShell

\* Displays that are announced during start-up, and those that go in teardown,
\* leave the list and the layout with the same outputs as long as the process
\* lives.
THEOREM SessionOutputsAgree == SessionSpec => []OutputsAgree
BY SessionIsOutput, OutputsStayAgreed, PTL

\* With displays that show what they are given, a window that waits in full view
\* has its frame event to come from start-up to the end.
THEOREM SessionFrameStaysDue ==
  ASSUME FrameCommits = {TRUE} PROVE SessionSpec => []FrameIsDue
BY SessionIsOutput, FrameStaysDue, PTL

\* In a session, too, a client that waits for the answer to its initial commit has
\* it on its way.
THEOREM SessionAnswerIsOnItsWay == SessionSpec => []ConfigureIsPending
BY SessionRefinesXdgShell, AnswerIsOnItsWay, PTL DEF ImplementsXdgShell

-----------------------------------------------------------------------------
(* The process *)

\* A step of the session is one of the process, or none of it.
LEMMA SessionNextLifecycleNext ==
  ASSUME [SessionNext]_sessionVars PROVE [LifecycleNext]_lifecycleVars
PROOF
  <1>1. CASE UNCHANGED sessionVars
    BY <1>1 DEF sessionVars, lifecycleVars
  <1>2. CASE StartUp \/ DestroyNext
    BY <1>2 DEF StartUp, DestroyNext, LifecycleNext, Advance
  <1>3. CASE Leftover \/ Announce \/ Handle
    BY <1>3 DEF Leftover, Announce, Handle
  <1>4. CASE ClientConnects \/ QuitSession \/ SignalSession
    BY <1>4 DEF ClientConnects, QuitSession, SignalSession, LifecycleNext
  <1> QED
    BY <1>1, <1>2, <1>3, <1>4 DEF SessionNext, Proceed

\* A session is a run of the process: its handlers make and destroy no subsystem.
LEMMA SessionIsLifecycle == SessionSpec => LifecycleSpec
PROOF
  <1>1. SessionInit => LifecycleInit
    BY DEF SessionInit
  <1>2. [SessionNext]_sessionVars => [LifecycleNext]_lifecycleVars
    BY SessionNextLifecycleNext
  <1> QED
    BY <1>1, <1>2, PTL DEF SessionSpec, LifecycleSpec

\* What holds of the process holds of it with its windows and displays.
THEOREM SessionKeepsLifecycle ==
  SessionSpec => /\ []LifecycleTypeOK
                 /\ []OnlyLiveIsDestroyed
                 /\ []OnlySceneLeaks
                 /\ []UsersGoFirst
BY SessionIsLifecycle, LifecycleTypeCorrect, LabelsFit, NothingElseLeaks, UsersLeaveFirst, PTL

-----------------------------------------------------------------------------
(* Start-up and teardown *)

\* There are windows, surfaces and displays only in the loop, displays also while
\* the backend starts, and all of them on the way out until their destructor has
\* returned.
SessionInv ==
  /\ phase \in {"init", "unwind", "socket", "exited"} => Surfaces = {} /\ plugged = {}
  /\ phase = "start" => Surfaces = {}
  /\ phase = "finish" => /\ Surfaces # {} => "clients" \in ToSet(todo)
                         /\ plugged # {} => "backend" \in ToSet(todo)
  /\ status = "terminated" => phase \in {"finish", "exited"}

\* The surfaces are the same as long as no window does anything.
LEMMA SurfacesSame ==
  ASSUME life' = life, wm'.left = wm.left PROVE Surfaces' = Surfaces
BY DEF Surfaces, Allocated

\* Nor does a display that comes or goes touch them.
LEMMA PluggingSurfaces ==
  ASSUME IInv, Plugging \/ Unplugging PROVE Surfaces' = Surfaces
PROOF
  <1>1. wm \in WindowManager
    BY DEF IInv, Sound
  <1>2. CASE Unplugging
    BY <1>2, SurfacesSame DEF Unplugging, DestroyOutput
  <1>3. ASSUME NEW o, NEW b, NEW result, NewOutput(o, b, result) PROVE Surfaces' = Surfaces
    <2>1. life' = life /\ wm' \in {wm, [wm EXCEPT !.stack = Append(@, b)]}
      BY <1>3 DEF NewOutput, Plug
    <2>2. wm'.left = wm.left
      BY <1>1, <2>1 DEF WindowManager
    <2> QED
      BY <2>1, <2>2, SurfacesSame
  <1> QED
    BY <1>2, <1>3 DEF Plugging

\* server_finish() calls both destructors.
LEMMA FinishIsWhole ==
  ASSUME Leave("finish", FinishCalls)
  PROVE  phase' = "finish" /\ {"clients", "backend"} \subseteq ToSet(todo')
PROOF
  <1>1. phase' = "finish" /\ ToSet(todo') = Calls
    BY FinishNames DEF Leave
  <1> QED
    BY <1>1 DEF Calls

\* Before the loop there is no window, and a step that leaves the outputs alone
\* keeps it so.
LEMMA StartUpInv ==
  ASSUME SessionInv, StartUp
  PROVE  SessionInv'
PROOF
  <1>1. Surfaces' = Surfaces /\ plugged' = plugged /\ status' = status
    BY SurfacesSame DEF StartUp, outputVars
  <1>2. ASSUME NEW o, Create(o) PROVE SessionInv'
    <2>1. phase = "init" /\ phase' \in {"init", "socket"}
      BY <1>2 DEF Create
    <2> QED
      BY <1>1, <2>1 DEF SessionInv
  <1>3. ASSUME NEW o, Fail(o) PROVE SessionInv'
    <2>1. phase = "init" /\ phase' \in {"unwind", "exited"}
      BY <1>3 DEF Fail, Leave
    <2> QED
      BY <1>1, <2>1 DEF SessionInv
  <1>4. ASSUME NEW ok \in BOOLEAN, AddSocket(ok) \/ StartBackend(ok) PROVE SessionInv'
    <2>1. CASE ok
      <3>1. \/ phase = "socket" /\ phase' = "start"
            \/ phase = "start" /\ phase' = "loop"
        BY <1>4, <2>1 DEF AddSocket, StartBackend
      <3> QED
        BY <1>1, <3>1 DEF SessionInv
    <2>2. CASE ~ok
      <3>1. phase \in {"socket", "start"} /\ Leave("finish", FinishCalls)
        BY <1>4, <2>2 DEF AddSocket, StartBackend
      <3>2. phase' = "finish" /\ {"clients", "backend"} \subseteq ToSet(todo')
        BY <3>1, FinishIsWhole
      <3>3. Surfaces' = {} /\ status' # "terminated"
        BY <1>1, <3>1 DEF SessionInv
      <3> QED
        BY <3>2, <3>3 DEF SessionInv
    <2> QED
      BY <2>1, <2>2
  <1> QED
    BY <1>2, <1>3, <1>4 DEF StartUp

\* Only the binding terminates.
LEMMA StatusKept ==
  ASSUME Plugging \/ Unplugging \/ Events
  PROVE  status' \in {status, "crashed"}
PROOF
  <1>1. CASE Plugging \/ Unplugging
    BY <1>1 DEF Plugging, Unplugging, NewOutput, Plug, DestroyOutput
  <1>2. ASSUME NEW t \in Slots, Client(t) \/ SendConfigure(t)
        PROVE  status' \in {status, "crashed"}
    BY <1>2 DEF Client, NewToplevel, InitialCommit, MapCommit, Survives, SizeCommit,
                UnmapCommit, DestroyToplevel, Disconnect, RequestMaximize,
                RequestFullscreen, NewDecoration, ScheduleConfigure, SendConfigure
  <1>3. CASE Elsewhere
    BY <1>2, <1>3 DEF Elsewhere, DestroySurface, FocusRequest, Survives, SeatKeyboard
  <1>4. CASE Events /\ ~Elsewhere
    BY <1>4 DEF Events, Frame, RequestState, FrameRequest
  <1> QED
    BY <1>1, <1>3, <1>4

\* The head of what is left is left.
LEMMA HeadIsLeft ==
  ASSUME LifecycleInv, phase \in {"unwind", "finish"}
  PROVE  /\ OnTheWayOut /\ Head(todo) \in ToSet(todo)
         /\ ToSet(Tail(todo)) = ToSet(todo) \ {Head(todo)}
         /\ Tail(todo) = << >> => ToSet(todo) = {"display"}
BY TailCalls DEF LifecycleInv, OnTheWayOut

\* A handler that a destructor of server_finish() calls.
LEMMA LeftoverInv ==
  ASSUME IInv, LifecycleInv, SessionInv, Leftover
  PROVE  SessionInv'
PROOF
  <1>1. phase = "finish" /\ phase' = "finish" /\ todo' = todo
    BY DEF Leftover, lifecycleVars
  <1>2. Head(todo) \in ToSet(todo)
    BY <1>1, HeadIsLeft
  <1>3. CASE Head(todo) = "clients" /\ Elsewhere
    <2>1. plugged' = plugged /\ status' \in {status, "crashed"}
      BY <1>3, StatusKept DEF Elsewhere, displayVars, Events
    <2> QED
      BY <1>1, <1>2, <1>3, <2>1 DEF SessionInv
  <1>4. CASE Head(todo) = "backend" /\ Unplugging
    <2>1. Surfaces' = Surfaces
      BY <1>4, PluggingSurfaces
    <2> QED
      BY <1>1, <1>2, <1>4, <2>1 DEF SessionInv
  <1> QED
    BY <1>3, <1>4 DEF Leftover

\* The destructor of the clients, or of the backend, returns when its windows, or
\* its displays, are gone.
LEMMA DestroyNextInv ==
  ASSUME LifecycleInv, SessionInv, DestroyNext
  PROVE  SessionInv'
PROOF
  <1>1. /\ Surfaces' = Surfaces /\ plugged' = plugged /\ todo' = Tail(todo)
        /\ phase \in {"unwind", "finish"}
        /\ phase' = IF Tail(todo) = << >> THEN "exited" ELSE phase
    BY SurfacesSame DEF DestroyNext, Destroy, Leave, outputVars
  <1>2. CASE phase = "unwind"
    BY <1>1, <1>2 DEF SessionInv, DestroyNext, outputVars
  <1>3. CASE phase = "finish"
    <2>1. /\ ToSet(todo') = ToSet(todo) \ {Head(todo)}
          /\ Tail(todo) = << >> => ToSet(todo) = {"display"}
      BY <1>1, HeadIsLeft
    <2>2. /\ Surfaces # {} => "clients" \in ToSet(todo')
          /\ plugged # {} => "backend" \in ToSet(todo')
      BY <1>3, <2>1 DEF SessionInv, DestroyNext
    <2>3. Tail(todo) = << >> => Surfaces = {} /\ plugged = {}
      BY <1>3, <2>1 DEF SessionInv
    <2> QED
      BY <1>1, <1>3, <2>2, <2>3 DEF SessionInv
  <1> QED
    BY <1>1, <1>2, <1>3

\* Every step keeps the invariant.
LEMMA SessionNextInv ==
  ASSUME IInv, LifecycleInv, SessionInv, [SessionNext]_sessionVars
  PROVE  SessionInv'
PROOF
  <1>1. CASE UNCHANGED sessionVars
    BY <1>1, SurfacesSame DEF sessionVars, SessionInv
  <1>2. CASE StartUp
    BY <1>2, StartUpInv
  <1>3. CASE Announce
    <2>1. /\ phase = "start" /\ phase' = "start"
          /\ Surfaces' = Surfaces /\ status' \in {status, "crashed"}
      BY <1>3, StatusKept, PluggingSurfaces DEF Announce, lifecycleVars
    <2> QED
      BY <2>1 DEF SessionInv
  <1>4. CASE ClientConnects
    <2>1. phase = "loop" /\ phase' = "loop" /\ status' = status
      BY <1>4 DEF ClientConnects, Connect, outputVars
    <2> QED
      BY <2>1 DEF SessionInv
  <1>5. CASE Handle
    <2>1. phase = "loop" /\ phase' = "loop" /\ status' \in {status, "crashed"}
      BY <1>5, StatusKept DEF Handle, lifecycleVars
    <2> QED
      BY <2>1 DEF SessionInv
  <1>6. CASE QuitSession
    <2>1. phase' = "finish" /\ {"clients", "backend"} \subseteq ToSet(todo')
      BY <1>6, FinishIsWhole DEF QuitSession, Quit
    <2> QED
      BY <2>1 DEF SessionInv
  <1>7. CASE SignalSession
    <2>1. /\ phase' = phase /\ todo' = todo /\ status' = status
          /\ Surfaces' = Surfaces /\ plugged' = plugged
      BY <1>7, SurfacesSame DEF SignalSession, Signal, outputVars
    <2> QED
      BY <2>1 DEF SessionInv
  <1>8. CASE Leftover
    BY <1>8, LeftoverInv
  <1>9. CASE DestroyNext
    BY <1>9, DestroyNextInv
  <1> QED
    BY <1>1, <1>2, <1>3, <1>4, <1>5, <1>6, <1>7, <1>8, <1>9 DEF SessionNext, Proceed

\* The process starts with nothing to handle.
LEMMA SessionInitInv == SessionInit => SessionInv
PROOF
  <1> SUFFICES ASSUME SessionInit PROVE SessionInv
    OBVIOUS
  <1>1. Surfaces = {} /\ plugged = {} /\ status = "running" /\ phase = "init"
    BY DEF SessionInit, OutputInit, Init, Surfaces, Allocated, LifecycleInit
  <1> QED
    BY <1>1 DEF SessionInv

\* The two invariants hold in every state of a session.
LEMMA SessionInductive == SessionSpec => [](LifecycleInv /\ SessionInv)
PROOF
  <1>1. IInv /\ LifecycleInv /\ SessionInv /\ [SessionNext]_sessionVars => SessionInv'
    BY SessionNextInv
  <1>2. SessionSpec => []LifecycleInv
    BY SessionIsLifecycle, LifecycleInductive, PTL
  <1>3. OutputInv => IInv
    BY DEF OutputInv
  <1>4. SessionSpec => []IInv
    BY <1>3, SessionIsOutput, OutputInductive, PTL
  <1> QED
    BY <1>1, <1>2, <1>4, SessionInitInv, PTL DEF SessionSpec

-----------------------------------------------------------------------------
(* The handlers *)

\* The handlers of a step and the subsystems they use.
HandlerStep ==
  /\ Allocated \cup Allocated' # {} /\ <<life, wm>>' # <<life, wm>> =>
       {"display", "xdg_shell", "scene", "seat", "decoration"} \subseteq live
  /\ <<plugged, outputs>>' # <<plugged, outputs>> =>
       {"display", "backend", "scene", "layout", "scene_layout"} \subseteq live
  /\ ~(plugged' \subseteq plugged) => {"renderer", "allocator"} \subseteq live

\* What the handlers use, of all there is.
LEMMA WholeServer ==
  ASSUME ToSet(Subsystems) \subseteq live PROVE HandlerStep
PROOF
  <1>1. {"display", "backend", "scene", "layout", "scene_layout", "xdg_shell", "seat",
         "decoration", "renderer", "allocator"} \subseteq ToSet(Subsystems)
    BY SubsystemNames DEF OwnedByDisplay
  <1> QED
    BY <1>1 DEF HandlerStep

\* A step that runs a handler runs in the loop, in the backend's start, or in
\* one of the destructors that come before those of what it uses.
LEMMA SessionHandlerStep ==
  ASSUME LifecycleInv, [SessionNext]_sessionVars
  PROVE  HandlerStep
PROOF
  <1>1. CASE UNCHANGED <<life, wm, plugged, outputs>>
    BY <1>1 DEF HandlerStep
  <1>2. CASE phase \in {"start", "loop"}
    BY <1>2, WholeServer DEF LifecycleInv
  <1>3. CASE Leftover
    <2>1. phase = "finish"
      BY <1>3 DEF Leftover
    <2>2. OnTheWayOut /\ Head(todo) \in ToSet(todo)
      BY <2>1, HeadIsLeft
    <2>3. CASE Head(todo) = "clients"
      <3>1. ToSet(Subsystems) \subseteq live
        BY <2>2, <2>3 DEF OnTheWayOut
      <3> QED
        BY <3>1, WholeServer
    <2>4. CASE Head(todo) = "backend" /\ Unplugging
      <3>1. <<life, wm>>' = <<life, wm>> /\ plugged' \subseteq plugged
        BY <2>4 DEF Unplugging, DestroyOutput
      <3>2. {"scene", "layout", "scene_layout"} \subseteq live
        BY <2>1 DEF LifecycleInv, OwnedByDisplay
      <3>3. "display" \in ToSet(todo)
        <4>1. todo \in Seq(Calls) /\ todo # << >> /\ todo[Len(todo)] = "display"
          BY <2>2 DEF OnTheWayOut
        <4> HIDE DEF Calls
        <4>2. Len(todo) \in DOMAIN todo
          BY <4>1, NoCalls
        <4> QED
          BY <4>1, <4>2 DEF ToSet
      <3>4. {"display", "backend"} \subseteq live
        BY <2>2, <2>4, <3>3 DEF OnTheWayOut
      <3> QED
        BY <3>1, <3>2, <3>4 DEF HandlerStep
    <2> QED
      BY <1>3, <2>3, <2>4 DEF Leftover
  <1>4. CASE StartUp \/ DestroyNext \/ SignalSession \/ UNCHANGED sessionVars
    BY <1>1, <1>4 DEF StartUp, DestroyNext, SignalSession, sessionVars, outputVars
  <1>5. CASE Announce \/ ClientConnects \/ Handle \/ QuitSession
    BY <1>2, <1>5 DEF Announce, ClientConnects, Connect, Handle, QuitSession, Quit
  <1> QED
    BY <1>3, <1>4, <1>5 DEF SessionNext, Proceed

\* No handler runs before what it uses is made or after it is destroyed, with
\* any number of windows and displays left when the compositor quits.
THEOREM HandlersAreServed == SessionSpec => HandlersFindTheServer
PROOF
  <1>1. LifecycleInv /\ [SessionNext]_sessionVars => [HandlerStep]_sessionVars
    BY SessionHandlerStep
  <1> QED
    BY <1>1, SessionInductive, PTL DEF SessionSpec, HandlersFindTheServer, HandlerStep

\* A session the binding ends is on its way out at once, and it leaves when every
\* window and every display has gone through its destroy handler, not before.
THEOREM SessionLeavesClean == SessionSpec => []LeavesClean
PROOF
  <1>1. SessionInv => LeavesClean
    BY DEF SessionInv, LeavesClean
  <1> QED
    BY <1>1, SessionInductive, PTL
=============================================================================
