# PulseDE in TLA+

This directory holds TLA+ models of PulseDE, the Wayland compositor in
`src/pulse-de/` of the repository, the TLC configurations that check them and
the TLAPS proofs about them. Paths below are relative to `src/pulse-de/src/`
unless they say otherwise.

PulseDE is one process with one thread. Everything it does after start-up is a
handler that wlroots calls from the event loop. A handler runs to its end before
the next one starts, so **one handler, with every call it makes, is one step of
a model**. What is hard is not parallelism: it is the *order* in which clients,
devices, displays and the user make handlers run, and the state one handler
leaves for another to find.

## 1. Inventory

| Component | State | Operations | Talks to |
|---|---|---|---|
| `main.c` | `should_exit` | signal handler, arguments, init / run / finish | `server.c` |
| `server.c` | the pointers of `pulse_server` | `server_init` with its error labels, `server_run`, `server_finish` | constructs all the others |
| `xdg-shell.c`, toplevels | `toplevels`, `focused_toplevel`, one `pulse_toplevel` per window, the scene | new, map, commit, unmap, destroy, move / resize / maximize / fullscreen requests, `xdg_shell_focus_toplevel`, `xdg_shell_toplevel_at` | calls `decoration.c`, the seat, the scene |
| `xdg-shell.c`, popups | one `pulse_popup` per popup, the tree it gets in the scene | new, initial commit, destroy | the scene trees of windows |
| `decoration.c` | four rects per border, the decoration manager | create / update / destroy border, new decoration | called by `xdg-shell.c` |
| `cursor.c` | the cursor, the seat's pointer focus, the cursor image | motion, absolute motion, button, axis, frame, set cursor, set selection | calls the hit test and the focus function |
| `input.c` | `keyboards`, the seat's keyboard and capabilities | new keyboard, new pointer, key, modifiers, destroy, two bindings | terminates the loop; is read by the focus function |
| `output.c` | `outputs`, the output layout, backgrounds | new, frame, state request, destroy | adds nodes to the scene |

Shared state ties them together: the **scene** (windows, borders, popups and
backgrounds in one stacking order: written by `xdg-shell.c`, `decoration.c` and
`output.c`, read by the hit test), the **seat** (keyboard, keyboard focus,
pointer focus: written by `input.c`, `cursor.c` and the focus function) and
**`focused_toplevel`**.

What makes each component correct:

* *Windows*: nothing freed is reachable; one window at most looks focused, is
  activated and is on top; focus is handed over, never lost; a client that waits
  for a configure gets it; keystrokes go where the focus is; and the user sees
  all of this change as one.
* *Popups*: the scene holds exactly the popups that live.
* *Pointer*: a click gives the window the user sees everything that focus is,
  whatever surface has the pointer focus, and leaves what was clicked under the
  cursor.
* *Keyboards*: no key sticks; a freed keyboard is not used; a binding takes its
  keys from one keyboard; clients are told of the keyboard there is.
* *Outputs*: list and layout agree; clients are told when to draw.
* *Process*: each failure undoes exactly what was done, and nothing goes before
  what uses it; handlers find what they use, in start-up, in the loop and in
  teardown; the quit binding and signals end it.

`PROJECT.json` lists under `hazards` what in this code a test would hardly
reach, each with its line and the properties that cover it.

## 2. Modules

Specifications (`A <- B`: B extends A; `Desktop` is instantiated):

```
WlList <- XdgShell <- XdgShellProperties <- MCXdgShell
             ^  ^          |        ^
             |  |          v        |
             | Input    Desktop   Output  Lifecycle
             |  ^                    ^       ^
           Popup MCInput             |       |
             ^                       Session-+
           Cursor <- MCCursor
```

Proofs:

```
WlListProofs <- XdgShellProofs <- XdgShellStepProofs
                                    ^      ^      ^
                         InputProofs  OutputProofs  CursorProofs
                                           ^
                     LifecycleProofs <- SessionProofs
```

**`WlList`** - the intrusive `wl_list` and the children of a scene tree, as
sequences: insert at the head, remove, raise to the top.

**`XdgShell`** - the core: `xdg-shell.c` with `decoration.c`. `Slots` are heap
cells for a `pulse_toplevel`. `free` followed by `calloc` may return the same
address, so a pointer is a slot and a dangling pointer may come to point to
another window. `life[t]` is the protocol state of the window in a slot:

```
free -NewToplevel-> new -InitialCommit-> initial -SendConfigure-> configured
                     ^                                              | MapCommit
                     +--------------- UnmapCommit -------- mapped <-+
```

and any of them goes to `free`, in one of two ways. A client destroys the toplevel
(`DestroyToplevel`) and its xdg_surface by a later request (`DestroySurface`), or
it disconnects and wlroots destroys both at once (`Disconnect`). In between, the
surface is a *remnant*, a member of `wm.left`: the window's tree is hidden but
still in the scene, its `node.data` points to the freed `pulse_toplevel`
(`xdg-shell.c:292`), and the seat may have its focus on the surface.
`ReachableIsAllocated` therefore is about the trees the hit test walks, which
stops at hidden ones, and says of remnants that they are all the seat can be left
with. `wm` is a record with the
server's fields and what wlroots keeps for it: `toplevels`, `focused`, the
`border` and the `geo`metry of each window, the `stack` of the scene (bottom
first), the windows `activated`, the configures `scheduled`, the remnants `left`,
the seat's `keyboard` and `kbdFocus`. Handlers are operators from a record to a record,
so that `MapCommit` is written `CommitHandler(MapHandler(...))`, in the order in
which wlroots calls the two. What the focus function writes through a dangling
pointer is lost, and the process may or may not survive it (`Survives`).

`XdgShell` is an **open specification**: `FocusRequest`, `SeatKeyboard`,
`AddBackground`, `LoseOutput`, `AttachPopup`, `DetachPopup` and `Terminate` are all
that the other components can do to it. It is thereby the abstract specification that
`Cursor`, `Input`, `Output` and `Session` implement: each of them states
`ImplementsXdgShell == Spec` (the mapping is the identity on the variables of
`XdgShell`).

**`Desktop`** - what the user is promised and nothing of how: which windows are
shown, which is drawn over which, which one is active. Windows open on top and
active, close, are switched to. One exception is part of it: where no window is
active a new one may open inactive, as a window does that has the address of a
freed one the focus still points to. `FocusedUnactivatedOnlyByReuse` says that
there is no other way to it. `XdgShellProperties` instantiates it as `Desk`, with the
refinement mapping: shown are the mapped windows, `over` is their order in the
scene, active is the window that is focused, mapped and activated; `ShowsDesktop`
says that `XdgShell` implements it. What a window loses and another gains in one
call of the focus function (scene, activation, border, `focused_toplevel`) must
thereby change as one.

**`XdgShellProperties`** - what else `XdgShell` promises, and what comments and
documents say of it that does not hold.

**`Popup`** - `xdg-shell.c:336-394`: `popups`, one record per heap cell, and
`trees`, the popups in the scene tree of each window. A popup of a window is in
its tree and is raised with it. The handler finds no tree for a popup whose parent
is a popup (only a toplevel's `base->data` is ever set) and attaches it to the
root of the scene.

**`Cursor`** - `cursor.c` and the hit test over a row of cells: windows lie at
the origin (no code moves them), border rects lie over the first and the last
cell of a window, popups over one cell, backgrounds over every cell. The hit test
returns a surface and walks up to its window. `pointerFocus` is a window, a
remnant or a popup: only motion and the destruction of the surface change it.
Clicks replace `FocusRequest`, with any button and whether or not another is held;
releases are passed to the seat and have no action.

**`Input`** - `input.c`: the keyboards, the keys each holds, the keys the focused
client believes to be down (`seen`), the seat's `capabilities`. Key events
replace `SeatKeyboard` and `Terminate`.

**`Output`** - `output.c`: plugging in, with the display that refuses its mode, the
three allocations and the two NULL results the handler does not test (`Results`),
state changes, frame events and unplugging, with what is `due` at a display, what
it `needs` to show and who is `waiting`. A display without a layout output or a
scene output (`unplaced`, `unbound`) is in `server->outputs` when the handler
passes the NULL on, and the process ends. `wlr_scene_output_send_frame_done` tells
the windows that are visible on the output, so `Frame` tells a set `told` of the
waiting windows: those that are certain to be visible (`Exposed`: nothing lies
over them) and any of the others, for what lies over a window may hide all of it
or not. `NewOutput` replaces `AddBackground` and `LoseOutput`.

In each composition `Elsewhere` is the rest of the compositor, with what wlroots
does to the component's state meanwhile.

**`Lifecycle`** - `server.c` and `main.c`: fifteen constructions that may each
fail, the labels, the loop, the teardown, and a signal between any two steps.

**`Session`** - `Output` (hence windows) inside `Lifecycle`: displays are
announced while the backend starts, handlers run in the loop, Super+Q ends it,
and the destroy handlers of the windows and displays that are left run inside
the destructors of `server_finish()`, which return only when none is left. The
binding clears the flag of `wl_display_run()` and returns; the handlers that are
left of the same batch of events still run. They read no flag, so `QuitSession`
stands for the end of the batch, and they come before it.

The definitions whose comment begins with *Mutation:* are variants of the
definition below them with one plausible bug; `PROJECT.json` pairs each with the
property that finds it. No specification uses them.

### What is assumed of wlroots

wlroots and libwayland are not in the repository. Modelled from how the code
uses them, with the event names and signatures of the 0.18 series the code is
written for (`src/meson.build:35` of the repository asks for 0.17):

* a mapped toplevel is unmapped before it is destroyed; in the commit of the
  first buffer the map handler runs before the commit handler; an unmapped
  xdg_surface is reset, so its next commit is an initial one;
* `set_activated`, `set_size`, `set_mode` and `schedule_configure` schedule a
  configure that is sent when the loop is idle; a client attaches no buffer
  before it has acknowledged the one that follows its initial commit, and asks
  for a decoration only while it has none;
* a client destroys a toplevel before its xdg_surface; the scene tree goes with
  the xdg_surface, and an unmapped tree is disabled; the seat drops its focus on a
  surface that is destroyed. An xdg_surface gets one toplevel in its life, and it
  and its wl_surface go in one step: what happens between the two touches no
  state of the compositor;
* a popup is created on a mapped surface; the popups of a surface are destroyed,
  the innermost first, before the surface is unmapped or destroyed;
* every window is its own client;
* a keyboard that is destroyed releases its held keys first and is no longer the
  seat's; keycodes are updated before the key event, modifiers after it;
* `enter` hands the keycodes it is given to the client; leaving forgets them;
* the modifiers of a keyboard follow its keys: `Bound` asks for the Super key
  among its keycodes, where `input.c:104-105` asks for the modifier. A nested
  backend that sets modifiers without keys is left out;
* an output is put to the right of the others; a frame event follows visible
  damage, the frame request of a visible surface, and every buffer shown;
* a frame is told to the surfaces that are visible on the output; popups in the
  tree of a window count as part of the window, and windows fit the first display;
* `wlr_scene_output_layout_add_output` reads through both its arguments, so that a
  NULL ends the process;
* what is constructed for a display is destroyed with it; the compositor global
  lets go of a renderer that is destroyed.

## 3. Runs

`CHECK_DEADLOCK FALSE` is set throughout: the compositor really ends (after a
crash, or when it is terminated and everything is gone, nothing can happen).

| Run | Instance | Shows |
|---|---|---|
| `Shell_windows` | 3 slots, sizes 0, 1 and 2, no remnants | `TypeOK`, `ReachableIsAllocated`, `OnlyFocusedIsActivated`, `BorderShowsFocusAndSize`, `FocusedOnTop`, `FocusIsHandedOver`, `OrderIsKept`, `FocusDanglesOnlyFromHidden`, `FocusedUnactivatedOnlyByReuse`, `ShowsDesktop` |
| `Keys_seat` | 2 slots, 1 remnant, 2 keyboards, 3 keys, states with at most 2 surfaces | `InputTypeOK`, `ReachableIsAllocated`, `NoStuckKey`, `KeyboardsAreLive`, `KeyboardIsOffered`, `KeyboardStaysAligned`, `QuitNeedsOneKeyboard`, `ImplementsXdgShell` |
| `Pointer_click` | 2 slots, 1 remnant, 2 popups, 1 background, sizes 0 and 3, 2 cells, states with at most 3 nodes | `CursorTypeOK`, `PopupsAreOwned`, `ClickGivesFocus`, `ImplementsXdgShell` |
| `Session_whole` | 1 slot, 1 remnant, 2 displays, 1 background, sizes 0 and 1, no frame fails, `SessionFairness` | `OutputTypeOK`, `OutputsAgree`, `FrameIsDue`, `ConfigureIsPending`, `LifecycleTypeOK`, `OnlyLiveIsDestroyed`, `OnlySceneLeaks`, `UsersGoFirst`, `LeavesClean`, `HandlersFindTheServer`, `ImplementsXdgShell`, `FrameRequestIsAnswered`, `InitialCommitIsAnswered`, `QuitEnds` |

**Bounds.** Three slots are the least in which a window loses the focus, another
receives it and a third must not notice; two are enough for reuse (one slot
dangles while the other takes the focus). Size 0 is the empty geometry for which
no border is made; with 1 and 2 a border can have the wrong size; a window of
size 3 has one inner cell between two that its border hides, and cells 0 and 1
are one of each. Two windows and a popup are enough for a click to reorder the
scene under a popup; with two popups they can be siblings or nested. Two keyboards
show modifiers on one and keys on the other, and a keyboard unplugged while the
other is the seat's. In `Session_whole` one window is enough for the frame handler
to tell or to pass over, as its background is there or not, while two displays make
the one that paces it change. `Remnants` bounds the surfaces that outlive their
toplevel at a time; one at a time meets each kind of step. `Backgrounds` bounds the
number of displays plugged in with a rect during a run: without a fresh one no
display can be plugged in. Two runs have a state constraint besides: TLC does not
go on from a state with more than `MaxSurfaces` windows and remnants
(`FewSurfaces`), or with more than `MaxNodes` windows, popups, backgrounds and
remnants (`FewNodes`). With two windows there is room for a remnant only where one
has gone, which is where it comes from; with three nodes there can be two windows
and a popup, a window and two popups, or a window, a popup and the background.
Symmetry is declared in runs without liveness only. All of these properties but
the three liveness properties are also proved for every bound (section 4); the
runs found them before the proofs.

**Safety under liveness.** Three invariants say what the liveness properties of
`Session_whole` rest on besides fairness, so that a step which loses the work is
caught at once, and can be proved not to exist: `FrameIsDue` (under
`FrameRequestIsAnswered`): while a window that nothing lies over waits, the display
that paces it has a frame event to come; `ConfigureIsPending` (under `InitialCommitIsAnswered`): a
client that waits has its configure scheduled; `LeavesClean` (under `QuitEnds`):
once the binding has quit the process is on its way out, and it does not leave
before every window and display has run its destroy handler.

**Fairness.** `Fairness` assumes weak fairness of `SendConfigure`: the event loop
runs its idle sources. `FrameFairness` assumes that a due frame event is emitted,
and that a display does not fail every commit for ever (strong fairness of the
successful one); it gives the failing case its best chance, and `Output_failure`
is violated nevertheless. `LifecycleFairSpec` assumes that the program takes its
next step unless it waits for an event. `SessionFairness` is the three together:
start-up and teardown proceed, destructors with the handlers they call included;
configures and frames only while the loop runs. No fairness is assumed of
clients, users or devices.

`FrameRequestIsAnswered` is checked twice: `Session_whole` lets no frame commit
fail (`FrameCommits = {TRUE}`), which is the least that makes it true, and
`Output_failure` lets one fail. Its antecedent `<>[][layout' = layout]_layout`
excludes displays that are plugged and unplugged for ever: the display that
paces the window could be another one each time a frame is due. A window that
something lies over need not be told, and is not when it is hidden: after
`Shell_background` has put a background over all windows they wait until they
are raised. The property asks for the answer where the window is in full view, and
`FrameIsDue` for the frame event as soon as it is in full view again.

### Runs that find a violation

Each states what a comment or a document says, and TLC shows how the code
departs from it (`PROJECT.json`, `findings`, quotes both).

| Run | What happens |
|---|---|
| `Shell_dangling` | Unmapping the focused window focuses the first *other* toplevel of the list, though it may not be mapped. Destroying that one, which is then not unmapped first, leaves `focused_toplevel` dangling; the next focus change reads freed memory, and a new window at the same address is "already focused". |
| `Shell_keyboard` | A window focused while the seat has no keyboard gets no keystrokes after one is plugged in. |
| `Shell_background` | A display plugged in later puts its background over all windows. |
| `Pointer_border` | Clicking a window's border clears the focus. |
| `Pointer_nested` | Clicking a popup of a popup clears the focus of its window: the walk up from its surface finds no window. |
| `Output_failure` | One failed frame commit: clients that wait for a frame are not told, and nothing schedules another. |
| `Life_signal` | SIGTERM and SIGINT do not end the process. |
| `Life_scene` | The scene is given no display and destroyed by nobody: it is left when the process is not. |

Smaller departures the models contain, without a run of their own: a configure
may be scheduled before the initial commit (`NewDecoration`, `RequestMaximize`
on a `new` window); the pointer focus is updated by motion only (`Cursor`); the
release of a key whose press a binding consumed is forwarded, and an enter hands
over a consumed key that is still down (`Input`); a popup of a popup is placed
relative to the root, and is not raised with its window (`Popup`); the
background of a display stays when the display goes (`DestroyOutput`); the renderer
is destroyed before the compositor global constructed with it (`FinishCalls`); a
NULL layout output or scene output is passed on (`Plug`); the press of a button
goes to the client with the pointer focus, though another window may have come
under the cursor since (`ButtonPress`). The header of the decorations words them
differently from the code: `include/pulse-decoration.h:16` has a 1px top line
where `decoration.c:108` makes it 2px on the focused window, and lines 31-33 have
five rects and Surface-1 for the unfocused top where `decoration.c:115-122` makes
four, and the colour is that of the line (109). The models follow the code.

## 4. Proofs

Everything here holds for any sets of windows, remnants, keyboards, keys,
backgrounds, popups, displays, sizes and for any number of cells.

| Module | Theorem | Property |
|---|---|---|
| `XdgShellProofs` | `Inductive` | `IInv` |
| | `TypeCorrect` | `TypeOK` |
| | `NoDanglingLinks` | `ReachableIsAllocated` |
| | `AtMostOneActivated` | `OnlyFocusedIsActivated` |
| | `BordersTellTheFocus` | `BorderShowsFocusAndSize` |
| | `FocusedIsRaised` | `FocusedOnTop` |
| `XdgShellStepProofs` | `RefinesDesktop` | `ShowsDesktop` |
| | `ScreenIsOrderly` | `Desk!Orderly`, the invariant of `Desktop` |
| | `HandsFocusOver` | `FocusIsHandedOver` |
| | `UnactivatedOnlyByReuse` | `FocusedUnactivatedOnlyByReuse` |
| | `KeepsOrder` | `OrderIsKept` |
| | `KeepsKeyboardAligned` | `KeyboardStaysAligned` |
| | `FocusOutlivesTheShown` | `FocusDanglesOnlyFromHidden` |
| | `AnswerIsOnItsWay` | `ConfigureIsPending` |
| `InputProofs` | `InputRefinesXdgShell` | `ImplementsXdgShell` |
| | `InputTypeCorrect`, `KeyboardsStayLive`, `KeysDoNotStick`, `KeyboardStaysOffered`, `QuitIsOneKeyboards` | `InputTypeOK`, `KeyboardsAreLive`, `NoStuckKey`, `KeyboardIsOffered`, `QuitNeedsOneKeyboard` |
| `OutputProofs` | `OutputRefinesXdgShell` | `ImplementsXdgShell` |
| | `OutputTypeCorrect`, `OutputsStayAgreed` | `OutputTypeOK`, `OutputsAgree` |
| | `OnlyFailureLosesTheFrame` | `FrameIsDue`, once true, holds until a frame commit fails |
| | `FrameStaysDue` | `FrameIsDue`, where no frame commit fails |
| `LifecycleProofs` | `LifecycleTypeCorrect`, `LabelsFit`, `NothingElseLeaks`, `UsersLeaveFirst` | `LifecycleTypeOK`, `OnlyLiveIsDestroyed`, `OnlySceneLeaks`, `UsersGoFirst` |
| `SessionProofs` | `SessionRefinesXdgShell`, `SessionShowsDesktop` | `ImplementsXdgShell`, `ShowsDesktop` |
| | `SessionKeepsLifecycle` | the four of `Lifecycle` |
| | `SessionOutputsAgree`, `SessionFrameStaysDue`, `SessionAnswerIsOnItsWay` | `OutputsAgree`, `FrameIsDue`, `ConfigureIsPending` |
| | `HandlersAreServed`, `SessionLeavesClean` | `HandlersFindTheServer`, `LeavesClean` |
| `CursorProofs` | `CursorRefinesXdgShell` | `ImplementsXdgShell` |
| | `CursorTypeCorrect`, `PopupsStayOwned`, `ClicksFocus` | `CursorTypeOK`, `PopupsAreOwned`, `ClickGivesFocus` |

**Assumptions**, all on constants and evaluated by TLC in every run:
`SizesAssumption` (sizes are naturals, 0 among them), `NullAssumption` and
`PopupsAssumption` (NULL is no slot, remnant, keyboard, border, background or
popup), `SceneAssumption` (slots, remnants, backgrounds and popups are different
things),
`LastCellAssumption`, `KeysAssumption` (Super, L and Q are three keys),
`CommitsAssumption` (a frame's commit may succeed). `FrameStaysDue` and
`SessionFrameStaysDue` alone assume more, `FrameCommits = {TRUE}`, and have to:
`FrameIsDue` is false after a failed commit, which is the bug `Output_failure`
shows. `OnlyFailureLosesTheFrame` assumes nothing and says that there is no other
way to lose the frame.

**Lists.** `WlListProofs` proves what the list operators return for every
sequence without repetitions: elements, injectivity, and how the order of the
elements that stay is kept. `FiniteSetTheorems` and `SequenceTheorems` of the
library give the rest.

**Windows.** `IInv` is the typing of `life` and `status`, `Sound(wm, Mapped, {})`
(the record is typed, list and scene hold exactly the allocated slots, at most
the focused one is activated, borders are on mapped windows and agree with focus
and size) and `OnTop(wm, Mapped)`. None of the properties is inductive alone:
that the focused window stays on top needs that the scene holds every slot once;
that borders agree needs that the window losing the focus is the one `focused`
names, or that the name dangles and then no window is lit; that needs
`activated` and borders to belong to allocated slots. The third argument of
`Sound` is the set of windows excused from the clause on borders: the map handler
creates a border whose sides are not lit yet, and hands the focus function a
record that is not sound. Each handler has a lemma (`FocusSound`, `UnmapSound`,
`MapSound`, ...) over *any* record, so the step lemmas of `MapCommit`,
`DestroyToplevel` and `Disconnect` chain them as the code chains its calls; `Carry` brings a sound
record back to `IInv'`. `NextIInv` has one step per action.

**Refinement.** `XdgShellStepProofs` states on records what a handler does to the
order of the windows and to the active one, then maps each action of `XdgShell` to
a step of `Desktop` or to a stutter; `IInv` gives it that the scene holds each
window once.

**Steps.** The action properties are proved the same way, a lemma on records for
each handler and one step per action of `Next`. For `FocusOutlivesTheShown` and
`AnswerIsOnItsWay` one lemma per handler says both where it leaves the focus and
what it leaves `scheduled` (`LeftStep`, `PendingStep`). The focus dangles only when
a slot that is focused is freed without its unmap handler having run; a window
that is shown is unmapped first, and then the focus goes to a slot that is
allocated, or to none. The same lemma says what becomes of a shown window's focus
(`HandOverStep`, for `HandsFocusOver`) and that the window a handler leaves focused is
activated, unless it was focused before (`ReuseStep`, for
`UnactivatedOnlyByReuse`): the slot was then allocated and not activated, or it was
free, and `NewToplevel` has allocated it. `ConfigureIsPending` is inductive with `IInv`: `scheduled`
loses a slot only when its configure is sent or the surface is gone or reset, and
each of these takes the window out of `initial`.

**The process.** `Lifecycle` has no constants, so that TLC's run is exhaustive; the
proof tells why it holds, and `Session` needs it for any number of windows.
`LifecycleInv` has one conjunct per phase. In `init`, `live` is what
`server_init()` makes before its n-th construction (`MadeBefore(n)`), for some n.
From the jump to a label on, `OnTheWayOut`: the calls that remain name no
subsystem twice, all they name is live (there may be no clients),
all that is live is named, the scene, or
goes with the display, which is named last. `LabelFits` shows that the label of
the n-th construction destroys exactly what of `MadeBefore(n)` has a destructor
call; `TailCalls` that one call less keeps `OnTheWayOut`. When no call remains,
only the scene can. That users go first is a matter of order: in each list of calls
whatever has a call comes after the calls of all that use it (`Ordered`), what has no
call goes with the display, last, and the tail of an ordered list is ordered
(`UsesNames`, `FinishOrdered`); during the construction nothing is made before what
it uses (`UsesMade`).

**Compositions.** Each refinement theorem carries the theorems on windows over:
`InputSpec => Spec` and `Spec => []IInv` give `IInv` to the composition's own
invariant. `InputInv` adds that every freed keyboard holds nothing and that a
plugged one is offered, without which a key press could make `seen` outlive the
capability. `OutputInv` adds that list and layout hold enabled displays only.
A session is a run of `OutputSpec` and a run of `LifecycleSpec` at once
(`SessionIsOutput`, `SessionIsLifecycle`), which gives it the invariants of both.
`SessionInv` says how the two meet and nothing else: where there can be windows,
remnants and displays, and that on the way out those that are left have their destructor still
to come; it does not name the order of the calls. That a handler of a window finds
the server then follows from `OnTheWayOut`: the clients come first, while all
subsystems are live; and a display goes inside the backend's destructor, while the
backend, the layout and the scene are. `PopupInv` adds
that a freed popup has no parent, which makes `PopupsAreOwned` inductive: an
address may be reused only when nothing hangs on it. `CursorInv` adds
that the pointer focus is on a surface that exists. The surface the user sees
(`SeenAt`, stated by what covers what) is the one the hit test returns
(`SeenIsHit`), so that a click focuses its window; `ClickFocuses` shows that raising
the window then leaves what was clicked uncovered. The window is activated if
the focus function did anything; it did nothing only if the window was focused.

**Only model-checked**: `FrameRequestIsAnswered`, `InitialCommitIsAnswered` and
`QuitEnds`, which hold by fairness, so that a proof needs ENABLED, out of reach of
the provers here; what of each is safety is proved (`FrameStaysDue`,
`AnswerIsOnItsWay`, `SessionLeavesClean`). The properties of the runs that find a
violation are false.

## 5. Not modelled

* Popup grabs (the code has none), subsurfaces (not told from their surface).
* Axis, pointer frame and clipboard handlers (`cursor.c:115-135, 163-169`): they
  pass their argument to wlroots and keep nothing.
* The implicit grab: a drag that leaves its window sends motion to the next.
  `Cursor` has the focus move as the code moves it; which surface gets the release
  is decided in the seat, and what clients make of a button they have seen pressed
  and not released is theirs.
* Sizes and positions of outputs and backgrounds, so nothing is said of a
  background that keeps its size when a mode changes (`output.c:193`).
* Allocation failure of a `pulse_toplevel`, `pulse_popup` or `pulse_keyboard`: the
  handler returns with nothing changed, which is a stutter. Those of a border,
  of a `pulse_output`, of its layout output and scene output and of a background are
  modelled.
* Keymap, key repeat, adaptive sync, scale; move and resize requests, which only
  log; a keymap that cannot be compiled.
* The command line (`main.c:40-110`), which ends the process before the server
  exists or sets the log level and the backend; logging.
* A backend that goes away by itself: no code listens to it.
* Everything in `docs/platform` and `docs/design-system`: it has no code. The two
  unit tests check constants.

## 6. Plan

Done: `WlList`, `XdgShell`, `Desktop`, `Popup`, `Cursor`, `Input`, `Output`,
`Lifecycle`, `Session`, and the proofs of section 4. What is left:

1. Pointer and keyboards in one composition (a click moves the pressed keys to
   another client): `Cursor` and `Input` each leave the other's actions open, and
   an instance with both needs a smaller `XdgShell` to stay within TLC's reach.
2. Positions of displays and of their backgrounds, for the rect that outlives its
   display.
3. `PopupsAreOwned` and `ClickGivesFocus` inside a session: `Session` composes
   windows and outputs with the process, and leaves the pointer and the keyboards
   open.
