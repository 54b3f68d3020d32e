------------------------------- MODULE Input --------------------------------
(***************************************************************************)
(* The keyboards of PulseDE (src/pulse-de/src/input.c), composed with the  *)
(* windows of XdgShell: which keys each keyboard holds, and which of them  *)
(* the client with the keyboard focus believes to be pressed.              *)
(*                                                                         *)
(* wlroots adds a key to the keycodes of its keyboard before it emits the  *)
(* key event and to the modifiers after it; it releases the keys of a      *)
(* keyboard before it destroys it, and hands the keycodes of the seat's    *)
(* keyboard to a surface that gets the keyboard focus.                     *)
(***************************************************************************)
EXTENDS XdgShell

CONSTANTS Super, L, Q,   \* the keys of the two bindings
          OtherKeys

Keys == {Super, L, Q} \cup OtherKeys

ASSUME KeysAssumption == Cardinality({Super, L, Q}) = 3

VARIABLES keyboards,    \* server->keyboards
          plugged,      \* the keyboards that exist
          capabilities, \* what the seat tells clients it has
          held,         \* keycodes of each keyboard
          seen          \* pressed keys, for the client with the keyboard focus

deviceVars == <<keyboards, plugged, capabilities>>
inputVars == <<life, wm, status, keyboards, plugged, capabilities, held, seen>>

InputTypeOK ==
  /\ TypeOK
  /\ plugged \in SUBSET Keyboards
  /\ keyboards \in Seq(plugged)
  /\ capabilities \in SUBSET {"keyboard", "pointer"}
  /\ held \in [Keyboards -> SUBSET Keys]
  /\ seen \in SUBSET Keys

InputInit ==
  /\ Init
  /\ keyboards = << >>
  /\ plugged = {}
  /\ capabilities = {}
  /\ held = [k \in Keyboards |-> {}]
  /\ seen = {}

-----------------------------------------------------------------------------
(* input.c *)

\* wlr_seat_set_keyboard.
SetKeyboard(k) == wm' = [wm EXCEPT !.keyboard = k]

\* Mutation: the link is not put into server->keyboards.
NewKeyboardUnlinked(k) ==
  /\ status = "running" /\ k \notin plugged
  /\ plugged' = plugged \cup {k}
  /\ SetKeyboard(k)
  /\ capabilities' = capabilities \cup {"keyboard"}
  /\ UNCHANGED <<life, status, keyboards, held, seen>>

NewKeyboard(k) ==
  /\ status = "running" /\ k \notin plugged
  /\ plugged' = plugged \cup {k}
  /\ keyboards' = Insert(keyboards, k)
  /\ SetKeyboard(k)
  /\ capabilities' = capabilities \cup {"keyboard"}
  /\ UNCHANGED <<life, status, held, seen>>

\* Mutation: the capabilities are set without those the seat has.
NewPointerAlone ==
  /\ status = "running"
  /\ capabilities' = {"pointer"}
  /\ UNCHANGED <<life, wm, status, keyboards, plugged, held, seen>>

\* The cursor multiplexes its pointers: that there is one is all that counts.
NewPointer ==
  /\ status = "running"
  /\ capabilities' = capabilities \cup {"pointer"}
  /\ UNCHANGED <<life, wm, status, keyboards, plugged, held, seen>>

\* Mutation: the link stays in server->keyboards.
KeyboardDestroyLinked(k) ==
  /\ status # "crashed" /\ k \in plugged /\ held[k] = {}
  /\ plugged' = plugged \ {k}
  /\ SetKeyboard(IF wm.keyboard = k THEN NULL ELSE wm.keyboard)
  /\ UNCHANGED <<life, status, keyboards, capabilities, held, seen>>

\* The seat has no keyboard until the next event of another one.
KeyboardDestroy(k) ==
  /\ status # "crashed" /\ k \in plugged /\ held[k] = {}
  /\ plugged' = plugged \ {k}
  /\ keyboards' = Without(keyboards, k)
  /\ SetKeyboard(IF wm.keyboard = k THEN NULL ELSE wm.keyboard)
  /\ UNCHANGED <<life, status, capabilities, held, seen>>

\* A backend may report modifiers without a key.
Modifiers(k) ==
  /\ status = "running" /\ k \in plugged
  /\ SetKeyboard(k)
  /\ UNCHANGED <<life, status, deviceVars, held, seen>>

\* Mutation: the modifiers are those of the whole seat.
BoundOnSeat(k, key) == (\E j \in Keyboards : Super \in held[j]) /\ key \in {L, Q}

\* handle_compositor_keybinding returns true.  The Super modifier is the Super key
\* held; a nested backend that sets modifiers without their keys is left out.
Bound(k, key) == Super \in held[k] /\ key \in {L, Q}

\* Mutation: locking the screen takes the focus, but not through the function.
ConsumeAndLeave(key) ==
  /\ status' = IF key = Q THEN "terminated" ELSE status
  /\ wm' = IF key = L THEN [wm EXCEPT !.focused = NULL, !.kbdFocus = NULL] ELSE wm
  /\ UNCHANGED seen

\* Super+L does nothing yet, Super+Q ends the event loop.
Consume(key) ==
  /\ status' = IF key = Q THEN "terminated" ELSE status
  /\ UNCHANGED <<wm, seen>>

\* A pressed key that goes to the client with the keyboard focus.
ForwardPress(k, key) ==
  /\ SetKeyboard(k)
  /\ seen' = IF wm.kbdFocus = NULL THEN seen ELSE seen \cup {key}
  /\ UNCHANGED status

KeyPress(k, key) ==
  /\ status = "running" /\ k \in plugged /\ key \notin held[k]
  /\ held' = [held EXCEPT ![k] = @ \cup {key}]
  /\ IF Bound(k, key) THEN Consume(key) ELSE ForwardPress(k, key)
  /\ UNCHANGED <<life, deviceVars>>

\* Mutation: a binding consumes the release of its key, too.
KeyReleaseBound(k, key) ==
  /\ status # "crashed" /\ k \in plugged /\ key \in held[k]
  /\ held' = [held EXCEPT ![k] = @ \ {key}]
  /\ IF Bound(k, key) THEN UNCHANGED <<wm, seen>>
     ELSE SetKeyboard(k) /\ seen' = seen \ {key}
  /\ UNCHANGED <<life, status, deviceVars>>

\* Bindings are not looked up: every release goes to the client.  Keyboards
\* that go away with the backend, after the event loop, release theirs too.
KeyRelease(k, key) ==
  /\ status # "crashed" /\ k \in plugged /\ key \in held[k]
  /\ held' = [held EXCEPT ![k] = @ \ {key}]
  /\ SetKeyboard(k)
  /\ seen' = seen \ {key}
  /\ UNCHANGED <<life, status, deviceVars>>

\* The rest of the compositor.  A client that gets the keyboard focus is told
\* the keys of the seat's keyboard, one that loses it forgets them.  A surface
\* that outlives its toplevel keeps the focus it has.
Elsewhere ==
  /\ Unattended \/ \E t \in Slots \cup {NULL} : FocusRequest(t)
  /\ seen' = IF wm'.kbdFocus \in {wm.kbdFocus} \cup Remnants THEN seen
             ELSE IF wm'.kbdFocus = NULL THEN {} ELSE held[wm.keyboard]
  /\ UNCHANGED <<deviceVars, held>>

InputNext ==
  \/ \E k \in Keyboards : NewKeyboard(k) \/ KeyboardDestroy(k) \/ Modifiers(k)
  \/ NewPointer
  \/ \E k \in Keyboards, key \in Keys : KeyPress(k, key) \/ KeyRelease(k, key)
  \/ Elsewhere

InputSpec == InputInit /\ [][InputNext]_inputVars

-----------------------------------------------------------------------------
(* Properties *)

\* No key sticks: what the focused client believes to be pressed is down on
\* some keyboard, whatever bindings, keyboards and focus changes come between
\* its press and its release (input.c:109-126).
NoStuckKey == seen \subseteq UNION {held[k] : k \in Keyboards}

\* The list holds every keyboard there is, once, and one that has been freed
\* holds no key and is not the seat's (input.c:129-140, 177-181).
KeyboardsAreLive ==
  /\ IsInjective(keyboards) /\ ToSet(keyboards) = plugged
  /\ \A k \in Keyboards \ plugged : held[k] = {} /\ wm.keyboard # k

\* Clients ask only for what the seat says it has: as long as it has a
\* keyboard, or believes a client to hold keys, it says so, in whatever order
\* keyboards and pointers are announced (input.c:183-188, 205-207).
KeyboardIsOffered ==
  wm.keyboard # NULL \/ seen # {} => "keyboard" \in capabilities

\* The compositor quits on Super and Q held on one keyboard: Super on one and
\* Q on another are two clients' keys (input.c:104-113).
QuitNeedsOneKeyboard ==
  [][ (status = "running" /\ status' = "terminated")
        => \E k \in Keyboards : {Super, Q} \subseteq held'[k] ]_inputVars

\* With its keyboards the compositor implements XdgShell: no key moves a
\* window, its focus or the keyboard focus.
ImplementsXdgShell == Spec
=============================================================================
