---------------------------- MODULE InputProofs -----------------------------
(***************************************************************************)
(* Proofs about the keyboards of Input, for any number of keyboards, keys  *)
(* and toplevels.  That the module implements XdgShell and what it keeps   *)
(* of its own are proved together: a keyboard that goes leaves the seat    *)
(* what XdgShell's invariant allows, and the keys a client is told of are  *)
(* those of the keyboard XdgShell's steps leave in the seat.               *)
(***************************************************************************)
EXTENDS Input, XdgShellStepProofs

KeysTyped ==
  /\ plugged \in SUBSET Keyboards
  /\ keyboards \in Seq(Keyboards)
  /\ capabilities \in SUBSET {"keyboard", "pointer"}
  /\ held \in [Keyboards -> SUBSET Keys]
  /\ seen \in SUBSET Keys

\* The inductive invariant: a keyboard is offered as soon as there is one, not
\* only when a client notices.
InputInv ==
  /\ IInv
  /\ KeysTyped
  /\ KeyboardsAreLive
  /\ NoStuckKey
  /\ KeyboardIsOffered
  /\ plugged # {} => "keyboard" \in capabilities

\* The seat's keyboard and its focus, where only the first is set.
LEMMA SetKeyboardFields ==
  ASSUME IInv, NEW k, SetKeyboard(k)
  PROVE  wm'.keyboard = k /\ wm'.kbdFocus = wm.kbdFocus
BY DEF IInv, Sound, SetKeyboard, WindowManager

-----------------------------------------------------------------------------
(* The implementation of XdgShell *)

\* A step with the seat's keyboard set is one of XdgShell's.
LEMMA SetKeyboardNext ==
  ASSUME NEW k \in Keyboards \cup {NULL}, SetKeyboard(k), status # "crashed",
         UNCHANGED <<life, status>>
  PROVE  [Next]_shellVars
PROOF
  <1>1. SeatKeyboard(k)
    BY DEF SetKeyboard, SeatKeyboard
  <1> QED
    BY <1>1 DEF Next

\* Every step is one of XdgShell's, or one it sees nothing of.
LEMMA InputNextNext ==
  ASSUME IInv, [InputNext]_inputVars PROVE [Next]_shellVars
PROOF
  <1>1. CASE UNCHANGED inputVars
    BY <1>1 DEF inputVars, shellVars
  <1>2. ASSUME NEW k \in Keyboards, NewKeyboard(k) \/ Modifiers(k) PROVE [Next]_shellVars
    <2>1. SetKeyboard(k) /\ status # "crashed" /\ UNCHANGED <<life, status>>
      BY <1>2 DEF NewKeyboard, Modifiers
    <2> QED
      BY <2>1, SetKeyboardNext
  <1>3. ASSUME NEW k \in Keyboards, KeyboardDestroy(k) PROVE [Next]_shellVars
    <2> DEFINE left == IF wm.keyboard = k THEN NULL ELSE wm.keyboard
    <2>1. left \in Keyboards \cup {NULL}
      BY DEF IInv, Sound, WindowManager
    <2>2. SetKeyboard(left) /\ status # "crashed" /\ UNCHANGED <<life, status>>
      BY <1>3 DEF KeyboardDestroy
    <2> QED
      BY <2>1, <2>2, SetKeyboardNext
  <1>4. CASE NewPointer
    BY <1>4 DEF NewPointer, shellVars
  <1>5. ASSUME NEW k \in Keyboards, NEW key \in Keys, KeyPress(k, key)
        PROVE  [Next]_shellVars
    <2>1. CASE Bound(k, key)
      <3>1. status = "running" /\ Consume(key) /\ life' = life
        BY <1>5, <2>1 DEF KeyPress
      <3>2. UNCHANGED shellVars \/ Terminate
        BY <3>1 DEF Consume, Terminate, shellVars
      <3> QED
        BY <3>2 DEF Next
    <2>2. CASE ~Bound(k, key)
      <3>1. SetKeyboard(k) /\ status # "crashed" /\ UNCHANGED <<life, status>>
        BY <1>5, <2>2 DEF KeyPress, ForwardPress
      <3> QED
        BY <3>1, SetKeyboardNext
    <2> QED
      BY <2>1, <2>2
  <1>6. ASSUME NEW k \in Keyboards, NEW key \in Keys, KeyRelease(k, key)
        PROVE  [Next]_shellVars
    <2>1. SetKeyboard(k) /\ status # "crashed" /\ UNCHANGED <<life, status>>
      BY <1>6 DEF KeyRelease
    <2> QED
      BY <2>1, SetKeyboardNext
  <1>7. CASE Elsewhere
    BY <1>7 DEF Elsewhere, Next
  <1> QED
    BY <1>1, <1>2, <1>3, <1>4, <1>5, <1>6, <1>7 DEF InputNext

-----------------------------------------------------------------------------
(* The invariant *)

\* What an invariant of the keyboards is made of, for a step that leaves the
\* devices alone.
LEMMA SameDevices ==
  ASSUME InputInv, UNCHANGED deviceVars, held' \in [Keyboards -> SUBSET Keys],
         seen' \in SUBSET Keys,
         \A k \in Keyboards \ plugged : held'[k] = {} /\ wm'.keyboard # k,
         seen' \subseteq UNION {held'[k] : k \in Keyboards},
         wm'.keyboard # NULL \/ seen' # {} => "keyboard" \in capabilities
  PROVE  (KeysTyped /\ KeyboardsAreLive /\ NoStuckKey /\ KeyboardIsOffered
           /\ (plugged # {} => "keyboard" \in capabilities))'
BY DEF InputInv, KeysTyped, KeyboardsAreLive, NoStuckKey, KeyboardIsOffered, deviceVars

\* Every step keeps what the module says of the keyboards.
LEMMA InputNextInv ==
  ASSUME InputInv, [InputNext]_inputVars PROVE InputInv'
PROOF
  <1> DEFINE Mine == /\ KeysTyped /\ KeyboardsAreLive /\ NoStuckKey /\ KeyboardIsOffered
                     /\ plugged # {} => "keyboard" \in capabilities
  <1>0. IInv /\ Mine /\ NULL \notin Keyboards
    BY NullAssumption DEF InputInv
  <1>1. IInv'
    BY <1>0, InputNextNext, NextIInv
  <1>2. ASSUME UNCHANGED inputVars PROVE Mine'
    BY <1>0, <1>2 DEF inputVars, KeysTyped, KeyboardsAreLive, NoStuckKey, KeyboardIsOffered
  <1>3. ASSUME NEW k \in Keyboards, NewKeyboard(k) PROVE Mine'
    <2>1. wm'.keyboard = k
      BY <1>0, <1>3, SetKeyboardFields DEF NewKeyboard
    <2>2. k \notin ToSet(keyboards) /\ IsInjective(keyboards) /\ keyboards \in Seq(Keyboards)
      BY <1>0, <1>3 DEF NewKeyboard, KeyboardsAreLive, KeysTyped
    <2>3. /\ Insert(keyboards, k) \in Seq(Keyboards) /\ IsInjective(Insert(keyboards, k))
          /\ ToSet(Insert(keyboards, k)) = ToSet(keyboards) \cup {k}
      BY <2>2, InsertProperties
    <2> QED
      BY <1>0, <1>3, <2>1, <2>3
         DEF NewKeyboard, KeysTyped, KeyboardsAreLive, NoStuckKey, KeyboardIsOffered
  <1>4. ASSUME NEW k \in Keyboards, KeyboardDestroy(k) PROVE Mine'
    <2>1. wm'.keyboard = IF wm.keyboard = k THEN NULL ELSE wm.keyboard
      BY <1>0, <1>4, SetKeyboardFields DEF KeyboardDestroy
    <2>2. IsInjective(keyboards) /\ keyboards \in Seq(Keyboards)
      BY <1>0 DEF KeyboardsAreLive, KeysTyped
    <2>3. /\ Without(keyboards, k) \in Seq(Keyboards) /\ IsInjective(Without(keyboards, k))
          /\ ToSet(Without(keyboards, k)) = ToSet(keyboards) \ {k}
      BY <2>2, WithoutProperties
    <2> QED
      BY <1>0, <1>4, <2>1, <2>3
         DEF KeyboardDestroy, KeysTyped, KeyboardsAreLive, NoStuckKey, KeyboardIsOffered
  <1>5. ASSUME NewPointer PROVE Mine'
    BY <1>0, <1>5 DEF NewPointer, KeysTyped, KeyboardsAreLive, NoStuckKey, KeyboardIsOffered
  <1>6. ASSUME NEW k \in Keyboards, Modifiers(k) PROVE Mine'
    <2>1. wm'.keyboard = k
      BY <1>0, <1>6, SetKeyboardFields DEF Modifiers
    <2> QED
      BY <1>6, <2>1, SameDevices
         DEF Modifiers, InputInv, KeysTyped, KeyboardsAreLive, NoStuckKey
  <1>7. ASSUME NEW k \in Keyboards, NEW key \in Keys, KeyPress(k, key) PROVE Mine'
    <2>1. /\ UNCHANGED deviceVars /\ k \in plugged
          /\ held' = [held EXCEPT ![k] = @ \cup {key}]
      BY <1>7 DEF KeyPress
    <2>2. /\ wm'.keyboard \in {wm.keyboard, k}
          /\ seen' \in {seen, seen \cup {key}}
      BY <1>0, <1>7, SetKeyboardFields DEF KeyPress, Consume, ForwardPress
    <2>3. /\ held' \in [Keyboards -> SUBSET Keys] /\ seen' \in SUBSET Keys
          /\ \A j \in Keyboards : held'[j] = IF j = k THEN held[k] \cup {key} ELSE held[j]
      BY <1>0, <2>1, <2>2 DEF KeysTyped
    <2>4. \A j \in Keyboards \ plugged : held'[j] = {} /\ wm'.keyboard # j
      BY <1>0, <2>1, <2>2, <2>3 DEF KeyboardsAreLive
    <2>5. seen' \subseteq UNION {held'[j] : j \in Keyboards}
      BY <1>0, <2>2, <2>3 DEF NoStuckKey
    <2>6. "keyboard" \in capabilities
      BY <1>0, <2>1
    <2> QED
      BY <2>1, <2>3, <2>4, <2>5, <2>6, SameDevices
  <1>8. ASSUME NEW k \in Keyboards, NEW key \in Keys, KeyRelease(k, key) PROVE Mine'
    <2>1. /\ UNCHANGED deviceVars /\ k \in plugged /\ seen' = seen \ {key}
          /\ held' = [held EXCEPT ![k] = @ \ {key}]
      BY <1>8 DEF KeyRelease
    <2>2. wm'.keyboard = k
      BY <1>0, <1>8, SetKeyboardFields DEF KeyRelease
    <2>3. /\ held' \in [Keyboards -> SUBSET Keys] /\ seen' \in SUBSET Keys
          /\ \A j \in Keyboards : held'[j] = IF j = k THEN held[k] \ {key} ELSE held[j]
      BY <1>0, <2>1 DEF KeysTyped
    <2>4. \A j \in Keyboards \ plugged : held'[j] = {} /\ wm'.keyboard # j
      BY <1>0, <2>1, <2>2, <2>3 DEF KeyboardsAreLive
    <2>5. seen' \subseteq UNION {held'[j] : j \in Keyboards}
      BY <1>0, <2>1, <2>3 DEF NoStuckKey
    <2>6. "keyboard" \in capabilities
      BY <1>0, <2>1
    <2> QED
      BY <2>1, <2>3, <2>4, <2>5, <2>6, SameDevices
  <1>9. ASSUME Elsewhere PROVE Mine'
    <2>1. SeatKept(wm, wm')
      BY <1>0, <1>9, UnattendedKept, FocusRequestKept DEF Elsewhere
    <2>2. /\ UNCHANGED deviceVars /\ held' = held
          /\ wm'.keyboard = wm.keyboard
      BY <1>9, <2>1 DEF Elsewhere, SeatKept
    <2>3. wm.keyboard \in Keyboards \cup {NULL}
      BY <1>0 DEF IInv, Sound, WindowManager
    <2>4. \/ seen' = seen \/ seen' = {}
          \/ wm.keyboard \in Keyboards /\ seen' = held[wm.keyboard]
      BY <1>9, <2>1, <2>3 DEF Elsewhere, SeatKept
    <2>5. seen' \in SUBSET Keys /\ held' \in [Keyboards -> SUBSET Keys]
      BY <1>0, <2>2, <2>4 DEF KeysTyped
    <2>6. seen' \subseteq UNION {held'[j] : j \in Keyboards}
      BY <1>0, <2>2, <2>4 DEF NoStuckKey
    <2>7. \A j \in Keyboards \ plugged : held'[j] = {} /\ wm'.keyboard # j
      BY <1>0, <2>2 DEF KeyboardsAreLive
    <2>8. wm'.keyboard # NULL \/ seen' # {} => "keyboard" \in capabilities
      BY <1>0, <2>2, <2>4 DEF KeyboardIsOffered
    <2> QED
      BY <2>2, <2>5, <2>6, <2>7, <2>8, SameDevices
  <1> HIDE DEF Mine
  <1>10. Mine'
    BY <1>2, <1>3, <1>4, <1>5, <1>6, <1>7, <1>8, <1>9 DEF InputNext
  <1> QED
    BY <1>1, <1>10 DEF InputInv, Mine

\* The inductive invariant holds in every reachable state.
THEOREM InputInductive == InputSpec => []InputInv
PROOF
  <1>1. InputInit => InputInv
    <2>1. ASSUME InputInit PROVE InputInv
      <3>1. Init => IInv
        BY InitIInv
      <3>2. wm.keyboard = NULL
        BY <2>1 DEF InputInit, Init
      <3>3. ToSet(keyboards) = {} /\ IsInjective(keyboards) /\ keyboards \in Seq(Keyboards)
        BY <2>1 DEF InputInit, ToSet, IsInjective
      <3> QED
        BY <2>1, <3>1, <3>2, <3>3, NullAssumption
           DEF InputInit, InputInv, KeysTyped, KeyboardsAreLive, NoStuckKey, KeyboardIsOffered
    <2> QED
      BY <2>1
  <1>2. InputInv /\ [InputNext]_inputVars => InputInv'
    BY InputNextInv
  <1> QED
    BY <1>1, <1>2, PTL DEF InputSpec

\* With its keyboards the compositor implements XdgShell; every theorem about
\* XdgShell is one about Input.
THEOREM InputRefinesXdgShell == InputSpec => ImplementsXdgShell
PROOF
  <1>1. InputInit => Init
    BY DEF InputInit
  <1>2. InputInv /\ [InputNext]_inputVars => [Next]_shellVars
    BY InputNextNext DEF InputInv
  <1> QED
    BY <1>1, <1>2, InputInductive, PTL DEF InputSpec, Spec, ImplementsXdgShell

\* Every variable stays in its type, and the list holds existing keyboards only.
THEOREM InputTypeCorrect == InputSpec => []InputTypeOK
PROOF
  <1>1. InputInv => InputTypeOK
    <2>1. ASSUME InputInv PROVE InputTypeOK
      <3>1. TypeOK
        BY <2>1 DEF InputInv, IInv, Sound, TypeOK
      <3>2. keyboards \in Seq(plugged)
        <4>1. keyboards \in Seq(Keyboards) /\ \A i \in DOMAIN keyboards : keyboards[i] \in plugged
          BY <2>1 DEF InputInv, KeysTyped, KeyboardsAreLive, ToSet
        <4> QED
          BY <4>1
      <3> QED
        BY <2>1, <3>1, <3>2 DEF InputTypeOK, InputInv, KeysTyped
    <2> QED
      BY <2>1
  <1> QED
    BY <1>1, InputInductive, PTL

\* A client never believes a key to be pressed that no keyboard holds.
THEOREM KeysDoNotStick == InputSpec => []NoStuckKey
PROOF
  <1>1. InputInv => NoStuckKey
    BY DEF InputInv
  <1> QED
    BY <1>1, InputInductive, PTL

\* The list of keyboards and the seat know those there are, and no freed one.
THEOREM KeyboardsStayLive == InputSpec => []KeyboardsAreLive
PROOF
  <1>1. InputInv => KeyboardsAreLive
    BY DEF InputInv
  <1> QED
    BY <1>1, InputInductive, PTL

\* The seat says that it has a keyboard whenever it has one.
THEOREM KeyboardStaysOffered == InputSpec => []KeyboardIsOffered
PROOF
  <1>1. InputInv => KeyboardIsOffered
    BY DEF InputInv
  <1> QED
    BY <1>1, InputInductive, PTL

\* No step of the rest of the compositor ends it.
LEMMA NextStatus ==
  ASSUME Unattended \/ \E t \in Slots \cup {NULL} : FocusRequest(t)
  PROVE  status' = status \/ status' = "crashed"
BY DEF Unattended, Client, NewToplevel, InitialCommit, MapCommit, SizeCommit, UnmapCommit,
       DestroyToplevel, DestroySurface, Disconnect, RequestMaximize, RequestFullscreen,
       NewDecoration, SendConfigure, ScheduleConfigure, AddBackground, PutOnTop, LoseOutput,
       FocusRequest, Survives

QuitStep ==
  status = "running" /\ status' = "terminated" =>
    \E k \in Keyboards : {Super, Q} \subseteq held'[k]

\* The compositor quits on two keys held on one keyboard.
THEOREM QuitIsOneKeyboards == InputSpec => QuitNeedsOneKeyboard
PROOF
  <1>1. ASSUME InputInv, [InputNext]_inputVars PROVE QuitStep
    <2>1. SUFFICES ASSUME status = "running", status' = "terminated"
                   PROVE  \E k \in Keyboards : {Super, Q} \subseteq held'[k]
      BY DEF QuitStep
    <2>2. \E k \in Keyboards, key \in Keys : KeyPress(k, key) /\ Bound(k, key)
      BY <1>1, <2>1, NextStatus
         DEF InputNext, inputVars, NewKeyboard, KeyboardDestroy, Modifiers, NewPointer,
             KeyPress, ForwardPress, KeyRelease, Elsewhere
    <2>3. PICK k \in Keyboards, key \in Keys : KeyPress(k, key) /\ Bound(k, key)
      BY <2>2
    <2>4. key = Q /\ held' = [held EXCEPT ![k] = @ \cup {key}] /\ Super \in held[k]
      BY <2>1, <2>3 DEF KeyPress, Consume, Bound
    <2>5. held'[k] = held[k] \cup {Q}
      BY <1>1, <2>4 DEF InputInv, KeysTyped
    <2> QED
      BY <2>4, <2>5
  <1>2. InputInv /\ [InputNext]_inputVars => QuitStep
    BY <1>1
  <1>3. [QuitStep]_inputVars
          => [(status = "running" /\ status' = "terminated")
                => \E k \in Keyboards : {Super, Q} \subseteq held'[k]]_inputVars
    BY DEF QuitStep
  <1> QED
    BY <1>2, <1>3, InputInductive, PTL DEF InputSpec, QuitNeedsOneKeyboard
=============================================================================
