---------------------------- MODULE CursorProofs ----------------------------
(***************************************************************************)
(* Proofs about the pointer and the popups of Cursor, for any number of    *)
(* windows, popups and cells: every popup stays under its parent, the hit  *)
(* test answers with a visible window or none, so that clicks implement    *)
(* XdgShell, and a click focuses what the user sees.                       *)
(***************************************************************************)
EXTENDS Cursor, XdgShellStepProofs, WellFoundedInduction

-----------------------------------------------------------------------------
(* The windows leave the popups in the scene alone *)

\* The popups at the root of the scene.
PopupNodes(w) == ToSet(w.stack) \cap Popups

\* No focus change adds or removes one.
LEMMA FocusNodes ==
  ASSUME NEW w \in WindowManager, IsInjective(w.stack), NEW t \in Slots \cup {NULL}
  PROVE  PopupNodes(FocusToplevel(w, t)) = PopupNodes(w)
PROOF
  <1> DEFINE r == FocusToplevel(w, t)
  <1>1. CASE t = w.focused
    BY <1>1 DEF FocusToplevel
  <1>2. CASE t # w.focused /\ t = NULL
    <2> DEFINE d == Defocus(w)
    <2>1. r = [d EXCEPT !.focused = NULL, !.kbdFocus = NULL]
      BY <1>2 DEF FocusToplevel
    <2>2. d \in WindowManager /\ d.stack = w.stack
      BY DefocusFields
    <2> HIDE DEF d
    <2> QED
      BY <2>1, <2>2 DEF WindowManager, PopupNodes
  <1>3. CASE t # w.focused /\ t # NULL
    <2>1. t \in Slots /\ t \notin Popups
      BY <1>3, SceneAssumption DEF Others
    <2>2. FocusMoved(w, t, r)
      BY <1>3, <2>1, FocusChange
    <2> HIDE DEF r
    <2>3. r.stack = RaiseToTop(w.stack, t)
      BY <2>2 DEF FocusMoved
    <2>4. t \in Slots \cup Others /\ w.stack \in Seq(Slots \cup Others)
      BY <2>1 DEF WindowManager
    <2>5. ToSet(r.stack) = ToSet(w.stack) \cup {t}
      BY <2>3, <2>4, RaiseToTopProperties
    <2> QED
      BY <2>1, <2>5 DEF PopupNodes, r
  <1> QED
    BY <1>1, <1>2, <1>3

\* Nor does the commit of a first buffer, with the border it creates.
LEMMA MapNodes ==
  ASSUME NEW w \in WindowManager, IsInjective(w.stack), NEW t \in Slots,
         NEW size \in Sizes, NEW ok \in BOOLEAN
  PROVE  PopupNodes(CommitHandler(MapHandler([w EXCEPT !.geo[t] = size], t, ok), t))
           = PopupNodes(w)
PROOF
  <1> DEFINE g == [w EXCEPT !.geo[t] = size]
             b == IF g.geo[t] > 0 /\ ok THEN CreateBorder(g.geo[t], TRUE) ELSE NULL
             h == [g EXCEPT !.border[t] = b]
             f == FocusToplevel(h, t)
  <1>1. g \in WindowManager /\ g.geo[t] \in Sizes /\ g.stack = w.stack
    BY DEF WindowManager
  <1>2. MapHandler(g, t, ok) = f
    BY DEF MapHandler
  <1> HIDE DEF g
  <1>3. b \in Borders \cup {NULL}
    BY <1>1 DEF CreateBorder, TopColour, Borders, Tops, Sides
  <1> HIDE DEF b
  <1>4. h \in WindowManager /\ h.stack = w.stack
    BY <1>1, <1>3 DEF WindowManager
  <1> HIDE DEF h
  <1>5. f \in WindowManager /\ PopupNodes(f) = PopupNodes(h)
    BY <1>4, FocusKept, FocusNodes
  <1> HIDE DEF f
  <1>6. CommitHandler(f, t).stack = f.stack
    BY <1>5, CommitKept
  <1>7. PopupNodes(CommitHandler(f, t)) = PopupNodes(w)
    BY <1>4, <1>5, <1>6 DEF PopupNodes
  <1> QED
    BY <1>2, <1>7 DEF g

\* The unmap handler passes the focus on, which raises a window.
LEMMA UnmapNodes ==
  ASSUME NEW w, NEW M, NEW X, Sound(w, M, X), NEW t \in Slots
  PROVE  PopupNodes(UnmapHandler(w, t)) = PopupNodes(w)
PROOF
  <1> DEFINE h == [w EXCEPT !.border[t] = NULL]
             next == NextToplevel(w, t)
  <1>1. w \in WindowManager /\ IsInjective(w.stack)
    BY DEF Sound, Linked
  <1>2. h \in WindowManager /\ h.stack = w.stack
    BY <1>1 DEF WindowManager
  <1>3. UnmapHandler(w, t) = IF w.focused = t THEN FocusToplevel(h, next) ELSE h
    BY DEF UnmapHandler
  <1>4. next \in Slots \cup {NULL}
    BY NextToplevelAllocated DEF Allocated
  <1> HIDE DEF h, next
  <1>5. PopupNodes(h) = PopupNodes(w)
    BY <1>2 DEF PopupNodes
  <1>6. PopupNodes(FocusToplevel(h, next)) = PopupNodes(h)
    BY <1>1, <1>2, <1>4, FocusNodes
  <1> QED
    BY <1>3, <1>5, <1>6

\* No step of the windows does.
LEMMA WindowNodes ==
  ASSUME IInv,
         \/ Unattended \/ Terminate
         \/ \E k \in Keyboards \cup {NULL} : SeatKeyboard(k)
         \/ \E t \in Slots \cup {NULL} : FocusRequest(t)
  PROVE  PopupNodes(wm') = PopupNodes(wm)
PROOF
  <1>0. /\ wm \in WindowManager /\ IsInjective(wm.stack)
        /\ wm.stack \in Seq(Slots \cup Others)
        /\ Sound(wm, Mapped, {})
    BY DEF IInv, Sound, Linked, WindowManager
  <1>1. ASSUME NEW n \in Slots \cup Backgrounds, wm'.stack = Append(wm.stack, n)
        PROVE  PopupNodes(wm') = PopupNodes(wm)
    <2>1. n \notin Popups /\ n \in Slots \cup Others
      BY SceneAssumption DEF Others
    <2>2. ToSet(wm'.stack) = ToSet(wm.stack) \cup {n}
      BY <1>0, <1>1, <2>1, OnTopProperties
    <2> QED
      BY <2>1, <2>2 DEF PopupNodes
  <1>2. ASSUME wm'.stack = wm.stack PROVE PopupNodes(wm') = PopupNodes(wm)
    BY <1>2 DEF PopupNodes
  <1>3. ASSUME NEW t \in Slots, NewToplevel(t) PROVE PopupNodes(wm') = PopupNodes(wm)
    BY <1>0, <1>1, <1>3 DEF NewToplevel, WindowManager
  <1>4. ASSUME NEW b \in Backgrounds, AddBackground(b) PROVE PopupNodes(wm') = PopupNodes(wm)
    BY <1>0, <1>1, <1>4 DEF AddBackground, PutOnTop, WindowManager
  <1>5. ASSUME NEW t \in Slots,
               \/ InitialCommit(t) \/ SendConfigure(t) \/ RequestMaximize(t)
               \/ RequestFullscreen(t) \/ NewDecoration(t)
        PROVE  PopupNodes(wm') = PopupNodes(wm)
    <2>1. \E S : wm' = [wm EXCEPT !.scheduled = S]
      BY <1>5 DEF InitialCommit, SendConfigure, ScheduleConfigure, RequestMaximize,
                  RequestFullscreen, NewDecoration
    <2> QED
      BY <1>0, <1>2, <2>1 DEF WindowManager
  <1>6. ASSUME NEW t \in Slots, NEW size \in Sizes, NEW ok \in BOOLEAN,
               MapCommit(t, size, ok)
        PROVE  PopupNodes(wm') = PopupNodes(wm)
    BY <1>0, <1>6, MapNodes DEF MapCommit
  <1>7. ASSUME NEW t \in Slots, NEW size \in Sizes, SizeCommit(t, size)
        PROVE  PopupNodes(wm') = PopupNodes(wm)
    <2> DEFINE g == [wm EXCEPT !.geo[t] = size]
    <2>1. wm' = CommitHandler(g, t)
      BY <1>7 DEF SizeCommit
    <2>2. g \in WindowManager /\ g.stack = wm.stack
      BY <1>0 DEF WindowManager
    <2> HIDE DEF g
    <2>3. wm'.stack = wm.stack
      BY <2>1, <2>2, CommitKept
    <2> QED
      BY <1>2, <2>3
  <1>8. ASSUME NEW t \in Slots, UnmapCommit(t) PROVE PopupNodes(wm') = PopupNodes(wm)
    <2> DEFINE u == UnmapHandler(wm, t)
    <2>1. wm' = SurfaceReset(u, t)
      BY <1>8 DEF UnmapCommit
    <2>2. u \in WindowManager /\ PopupNodes(u) = PopupNodes(wm)
      BY <1>0, UnmapKept, UnmapNodes
    <2> HIDE DEF u
    <2>3. wm'.stack = u.stack
      BY <2>1, <2>2 DEF SurfaceReset, WindowManager
    <2> QED
      BY <2>2, <2>3 DEF PopupNodes
  <1>9. ASSUME NEW t \in Slots, Goes(t) PROVE PopupNodes(wm') = PopupNodes(wm)
    <2> DEFINE u == IF life[t] = "mapped" THEN UnmapHandler(wm, t) ELSE wm
    <2>1. Destroyed(t) = DestroyHandler(u, t)
      BY DEF Destroyed
    <2>2. u \in WindowManager /\ PopupNodes(u) = PopupNodes(wm) /\ IsInjective(u.stack)
      <3>1. CASE life[t] = "mapped"
        <4>1. t \in Mapped
          BY <3>1 DEF Mapped
        <4>2. Sound(UnmapHandler(wm, t), Mapped \ {t}, {})
          BY <4>1, UnmapSound, MappedAllocated DEF IInv
        <4> QED
          BY <1>0, <3>1, <4>2, UnmapNodes DEF Sound, Linked
      <3>2. CASE life[t] # "mapped"
        BY <1>0, <3>2
      <3> QED
        BY <3>1, <3>2
    <2> HIDE DEF u
    <2>3. wm'.stack = Without(u.stack, t)
      BY <1>9, <2>1, <2>2, GoneFields DEF Goes
    <2>4. u.stack \in Seq(Slots \cup Others)
      BY <2>2 DEF WindowManager
    <2>5. ToSet(wm'.stack) = ToSet(u.stack) \ {t} /\ t \notin Popups
      BY <2>2, <2>3, <2>4, WithoutProperties, SceneAssumption DEF Others
    <2> QED
      BY <2>2, <2>5 DEF PopupNodes
  <1>10. ASSUME NEW t \in Slots \cup {NULL}, FocusRequest(t)
         PROVE  PopupNodes(wm') = PopupNodes(wm)
    BY <1>0, <1>10, FocusNodes DEF FocusRequest
  <1>11. ASSUME Terminate \/ \E k \in Keyboards \cup {NULL} : SeatKeyboard(k)
         PROVE  PopupNodes(wm') = PopupNodes(wm)
    <2>1. wm'.stack = wm.stack
      BY <1>0, <1>11 DEF Terminate, SeatKeyboard, WindowManager
    <2> QED
      BY <1>2, <2>1
  <1>12. ASSUME \/ \E r \in Remnants : DestroySurface(r)
                \/ \E b \in Backgrounds : LoseOutput(b)
         PROVE  PopupNodes(wm') = PopupNodes(wm)
    <2>1. wm'.stack = wm.stack
      BY <1>0, <1>12 DEF DestroySurface, LoseOutput, WindowManager
    <2> QED
      BY <1>2, <2>1
  <1>13. ASSUME NEW t \in Slots, Client(t) PROVE PopupNodes(wm') = PopupNodes(wm)
    BY <1>3, <1>5, <1>6, <1>7, <1>8, <1>9, <1>13, DestroyGoes DEF Client
  <1> QED
    BY <1>4, <1>5, <1>10, <1>11, <1>12, <1>13 DEF Unattended

-----------------------------------------------------------------------------
(* The popups *)

PopupRecord ==
  [life : PopupLives, parent : Slots \cup Popups \cup {NULL},
   window : Slots \cup {NULL}, at : Cells]

\* The invariant of the popups: a freed one has no parent.
PopupInv ==
  /\ IInv
  /\ popups \in [Popups -> PopupRecord]
  /\ trees \in [Slots -> Seq(Popups)]
  /\ \A p \in Popups : popups[p].life = "free" => popups[p].parent = NULL
  /\ PopupsAreOwned

\* NULL, toplevels and popups are different things.
LEMMA Distinct ==
  /\ NULL \notin Slots /\ NULL \notin Popups /\ Slots \cap Popups = {}
  /\ 0 \in Cells
BY NullAssumption, PopupsAssumption, SceneAssumption, LastCellAssumption DEF Others, Cells

\* A popup that is created goes under its parent, or to the root.
LEMMA NewPopupInv ==
  ASSUME PopupInv, IInv', NEW p \in Popups, NEW parent \in Slots \cup Popups, NEW x \in Cells,
         NewPopup(p, parent, x)
  PROVE  PopupInv'
PROOF
  <1> DEFINE window == IF parent \in Slots THEN parent ELSE popups[parent].window
             new == [life |-> "new", parent |-> parent, window |-> window, at |-> x]
  <1>1. /\ popups \in [Popups -> PopupRecord] /\ trees \in [Slots -> Seq(Popups)]
        /\ popups' = [popups EXCEPT ![p] = new]
        /\ popups[p].life = "free" /\ popups[p].parent = NULL
    BY DEF PopupInv, NewPopup
  <1>2. new \in PopupRecord
    BY <1>1 DEF PopupRecord, PopupLives
  <1>3. new.life = "new" /\ new.parent = parent
    OBVIOUS
  <1> HIDE DEF new
  <1>4. /\ popups' \in [Popups -> PopupRecord] /\ popups'[p] = new
        /\ \A q \in Popups \ {p} : popups'[q] = popups[q]
    BY <1>1, <1>2
  <1>5. /\ Children(parent)' = Children(parent) \cup {p} /\ p \notin Children(parent)
        /\ \A n \in (Slots \cup Popups) \ {parent} : /\ Children(n)' = Children(n)
                                                    /\ p \notin Children(n)
    BY <1>1, <1>3, <1>4, Distinct DEF Children
  <1>6. \/ parent \in Mapped
        \/ parent \in Popups /\ popups[parent].life = "mapped"
    BY DEF NewPopup
  <1>7. Mapped' = Mapped
    BY DEF NewPopup, JoinScene, AttachPopup, PutOnTop, shellVars, Mapped
  <1>8. \A q \in Popups : popups'[q].life = "free" => popups'[q].parent = NULL
    BY <1>3, <1>4 DEF PopupInv
  <1>9. \A q \in Popups : popups'[q].life # "free" =>
          \/ popups'[q].parent \in Mapped'
          \/ popups'[q].parent \in Popups /\ popups'[popups'[q].parent].life = "mapped"
    BY <1>1, <1>3, <1>4, <1>6, <1>7 DEF PopupInv, PopupsAreOwned
  <1>10. /\ \A t \in Slots : IsInjective(trees[t]) /\ ToSet(trees[t]) = Children(t)
         /\ ToSet(wm.stack) \cap Popups = UNION {Children(q) : q \in Popups}
    BY DEF PopupInv, PopupsAreOwned
  <1>11. CASE parent \in Slots
    <2>1. trees' = [trees EXCEPT ![parent] = Append(@, p)] /\ wm' = wm
      BY <1>11, Distinct DEF NewPopup, JoinScene, shellVars
    <2>2. /\ Append(trees[parent], p) \in Seq(Popups) /\ IsInjective(Append(trees[parent], p))
          /\ ToSet(Append(trees[parent], p)) = Children(parent) \cup {p}
      BY <1>1, <1>5, <1>10, <1>11, OnTopProperties
    <2>3. /\ trees' \in [Slots -> Seq(Popups)]
          /\ trees'[parent] = Append(trees[parent], p)
          /\ \A t \in Slots \ {parent} : trees'[t] = trees[t]
      BY <1>1, <1>11, <2>1, <2>2
    <2>4. \A t \in Slots : IsInjective(trees'[t]) /\ ToSet(trees'[t]) = Children(t)'
      BY <1>5, <1>10, <2>2, <2>3
    <2>5. ToSet(wm'.stack) \cap Popups = UNION {Children(q)' : q \in Popups}
      BY <1>5, <1>10, <1>11, <2>1, Distinct
    <2> QED
      BY <1>4, <1>8, <1>9, <2>3, <2>4, <2>5 DEF PopupInv, PopupsAreOwned
  <1>12. CASE parent \in Popups
    <2>1. trees' = trees /\ AttachPopup(p)
      BY <1>12, Distinct DEF NewPopup, JoinScene
    <2>2. wm'.stack = Append(wm.stack, p) /\ wm.stack \in Seq(Slots \cup Others)
      BY <2>1 DEF AttachPopup, PutOnTop, PopupInv, IInv, Sound, WindowManager
    <2>3. ToSet(wm'.stack) = ToSet(wm.stack) \cup {p}
      BY <2>2, OnTopProperties DEF Others
    <2>4. \A t \in Slots : IsInjective(trees'[t]) /\ ToSet(trees'[t]) = Children(t)'
      BY <1>5, <1>10, <1>12, <2>1, Distinct
    <2>5. UNION {Children(q)' : q \in Popups} = (UNION {Children(q) : q \in Popups}) \cup {p}
      BY <1>5, <1>12
    <2>6. ToSet(wm'.stack) \cap Popups = UNION {Children(q)' : q \in Popups}
      BY <1>10, <2>3, <2>5
    <2> QED
      BY <1>1, <1>4, <1>8, <1>9, <2>1, <2>4, <2>6 DEF PopupInv, PopupsAreOwned
  <1> QED
    BY <1>11, <1>12

\* A popup changes its life, with no popup of it hanging on the one it leaves.
LEMMA PopupStepInv ==
  ASSUME PopupInv, IInv', NEW p \in Popups, NEW from, NEW to \in PopupLives \ {"free"},
         PopupStep(p, from, to), from # "free", from = "mapped" => Children(p) = {}
  PROVE  PopupInv'
PROOF
  <1>1. /\ popups \in [Popups -> PopupRecord] /\ trees \in [Slots -> Seq(Popups)]
        /\ popups' = [popups EXCEPT ![p] = [popups[p] EXCEPT !.life = to]]
        /\ popups[p].life = from /\ wm' = wm /\ trees' = trees /\ Mapped' = Mapped
    BY DEF PopupInv, PopupStep, Mapped
  <1> DEFINE new == [popups[p] EXCEPT !.life = to]
  <1>2. new \in PopupRecord /\ new.life = to /\ new.parent = popups[p].parent
    BY <1>1 DEF PopupRecord
  <1> HIDE DEF new
  <1>3. /\ popups' \in [Popups -> PopupRecord]
        /\ \A q \in Popups : /\ popups'[q].parent = popups[q].parent
                             /\ popups'[q].life = IF q = p THEN to ELSE popups[q].life
    BY <1>1, <1>2 DEF new
  <1>4. \A n \in Slots \cup Popups : Children(n)' = Children(n)
    BY <1>3 DEF Children
  <1>5. \A q \in Popups : popups'[q].life = "free" => popups'[q].parent = NULL
    BY <1>3 DEF PopupInv
  <1>6. \A q \in Popups : popups'[q].life # "free" =>
          \/ popups'[q].parent \in Mapped'
          \/ popups'[q].parent \in Popups /\ popups'[popups'[q].parent].life = "mapped"
    <2>1. ASSUME NEW q \in Popups, popups'[q].life # "free", popups'[q].parent \notin Mapped'
          PROVE  popups'[q].parent \in Popups /\ popups'[popups'[q].parent].life = "mapped"
      <3>1. popups[q].life # "free" /\ popups[q].parent \notin Mapped
        BY <1>1, <1>3, <2>1
      <3>2. popups[q].parent \in Popups /\ popups[popups[q].parent].life = "mapped"
        BY <3>1 DEF PopupInv, PopupsAreOwned
      <3>3. popups[q].parent # p
        BY <1>1, <3>2 DEF Children
      <3> QED
        BY <1>3, <3>2, <3>3
    <2> QED
      BY <2>1
  <1>7. PopupsAreOwned'
    BY <1>1, <1>4, <1>6 DEF PopupInv, PopupsAreOwned
  <1> QED
    BY <1>1, <1>3, <1>5, <1>7 DEF PopupInv

\* A popup that is destroyed leaves the tree it is in.
LEMMA PopupDestroyInv ==
  ASSUME PopupInv, IInv', NEW p \in Popups, PopupDestroy(p)
  PROVE  PopupInv'
PROOF
  <1> DEFINE parent == popups[p].parent
  <1>1. /\ popups \in [Popups -> PopupRecord] /\ trees \in [Slots -> Seq(Popups)]
        /\ popups' = [popups EXCEPT ![p] = NoPopup]
        /\ popups[p].life # "free" /\ Children(p) = {}
    BY DEF PopupInv, PopupDestroy
  <1>2. NoPopup \in PopupRecord /\ NoPopup.life = "free" /\ NoPopup.parent = NULL
    BY Distinct DEF NoPopup, PopupRecord, PopupLives
  <1>3. /\ popups' \in [Popups -> PopupRecord] /\ popups'[p] = NoPopup
        /\ \A q \in Popups \ {p} : popups'[q] = popups[q]
    BY <1>1, <1>2
  <1>4. \A n \in Slots \cup Popups : Children(n)' = Children(n) \ {p}
    BY <1>2, <1>3, Distinct DEF Children
  <1>5. Mapped' = Mapped
    BY DEF PopupDestroy, DetachPopup, shellVars, Mapped
  <1>6. \A q \in Popups : popups'[q].life = "free" => popups'[q].parent = NULL
    BY <1>2, <1>3 DEF PopupInv
  <1>7. \A q \in Popups : popups'[q].life # "free" =>
          \/ popups'[q].parent \in Mapped'
          \/ popups'[q].parent \in Popups /\ popups'[popups'[q].parent].life = "mapped"
    <2>1. ASSUME NEW q \in Popups, popups'[q].life # "free", popups'[q].parent \notin Mapped'
          PROVE  popups'[q].parent \in Popups /\ popups'[popups'[q].parent].life = "mapped"
      <3>1. q # p /\ popups[q].life # "free" /\ popups[q].parent \notin Mapped
        BY <1>2, <1>3, <1>5, <2>1
      <3>2. popups[q].parent \in Popups /\ popups[popups[q].parent].life = "mapped"
        BY <3>1 DEF PopupInv, PopupsAreOwned
      <3>3. popups[q].parent # p
        BY <1>1 DEF Children
      <3> QED
        BY <1>3, <3>1, <3>2, <3>3
    <2> QED
      BY <2>1
  <1>8. /\ \A t \in Slots : IsInjective(trees[t]) /\ ToSet(trees[t]) = Children(t)
        /\ ToSet(wm.stack) \cap Popups = UNION {Children(q) : q \in Popups}
    BY DEF PopupInv, PopupsAreOwned
  <1>9. \A n \in (Slots \cup Popups) \ {parent} : Children(n)' = Children(n)
    <2>1. \A n \in (Slots \cup Popups) \ {parent} : p \notin Children(n)
      BY DEF Children
    <2> QED
      BY <1>4, <2>1
  <1>10. CASE parent \in Slots
    <2>1. trees' = [trees EXCEPT ![parent] = Without(@, p)] /\ wm' = wm
      BY <1>10, Distinct DEF PopupDestroy, shellVars
    <2>2. /\ Without(trees[parent], p) \in Seq(Popups) /\ IsInjective(Without(trees[parent], p))
          /\ ToSet(Without(trees[parent], p)) = Children(parent) \ {p}
      BY <1>1, <1>8, <1>10, WithoutProperties
    <2>3. /\ trees' \in [Slots -> Seq(Popups)]
          /\ trees'[parent] = Without(trees[parent], p)
          /\ \A t \in Slots \ {parent} : trees'[t] = trees[t]
      BY <1>1, <1>10, <2>1, <2>2
    <2> HIDE DEF parent
    <2>4. ASSUME NEW t \in Slots
          PROVE  IsInjective(trees'[t]) /\ ToSet(trees'[t]) = Children(t)'
      <3>1. CASE t = parent
        BY <1>4, <2>2, <2>3, <3>1
      <3>2. CASE t # parent
        BY <1>8, <1>9, <2>3, <3>2
      <3> QED
        BY <3>1, <3>2
    <2>5. ToSet(wm'.stack) \cap Popups = UNION {Children(q)' : q \in Popups}
      BY <1>4, <1>8, <1>9, <1>10, <2>1, Distinct
    <2> QED
      BY <1>3, <1>6, <1>7, <2>3, <2>4, <2>5 DEF PopupInv, PopupsAreOwned
  <1>11. CASE parent \in Popups
    <2>1. trees' = trees /\ DetachPopup(p)
      BY <1>11, Distinct DEF PopupDestroy
    <2>2. /\ wm'.stack = Without(wm.stack, p) /\ wm.stack \in Seq(Slots \cup Others)
          /\ IsInjective(wm.stack)
      BY <2>1 DEF DetachPopup, PopupInv, IInv, Sound, Linked, WindowManager
    <2>3. ToSet(wm'.stack) = ToSet(wm.stack) \ {p}
      BY <2>2, WithoutProperties
    <2> HIDE DEF parent
    <2>4. ASSUME NEW t \in Slots
          PROVE  IsInjective(trees'[t]) /\ ToSet(trees'[t]) = Children(t)'
      <3>1. t # parent
        BY <1>11, Distinct
      <3> QED
        BY <1>8, <1>9, <2>1, <3>1
    <2>5. UNION {Children(q)' : q \in Popups} = (UNION {Children(q) : q \in Popups}) \ {p}
      BY <1>4
    <2>6. ToSet(wm'.stack) \cap Popups = UNION {Children(q)' : q \in Popups}
      BY <1>8, <2>3, <2>5
    <2> QED
      BY <1>1, <1>3, <1>6, <1>7, <2>1, <2>4, <2>6 DEF PopupInv, PopupsAreOwned
  <1> QED
    BY <1>1, <1>10, <1>11 DEF PopupInv, PopupsAreOwned, Mapped

\* A step of the windows leaves the popups, and the windows that have some, alone.
LEMMA WindowStepInv ==
  ASSUME PopupInv, IInv', PopupNodes(wm') = PopupNodes(wm),
         \A t \in Slots : Children(t) # {} => life'[t] = "mapped",
         UNCHANGED <<popups, trees>>
  PROVE  PopupInv'
PROOF
  <1>1. \A n : Children(n)' = Children(n)
    BY DEF Children
  <1>2. \A p \in Popups : popups[p].life # "free" /\ popups[p].parent \in Mapped =>
                            popups[p].parent \in Mapped'
    <2> SUFFICES ASSUME NEW p \in Popups, popups[p].parent \in Mapped
                 PROVE  popups[p].parent \in Mapped'
      OBVIOUS
    <2>1. p \in Children(popups[p].parent) /\ popups[p].parent \in Slots
      BY DEF Children, Mapped
    <2> QED
      BY <2>1 DEF Mapped
  <1>3. PopupsAreOwned'
    BY <1>1, <1>2 DEF PopupInv, PopupsAreOwned, PopupNodes
  <1> QED
    BY <1>3 DEF PopupInv

-----------------------------------------------------------------------------
(* The hit test *)

\* A set of positions that is not empty has a last one.
LEMMA MaxOf ==
  ASSUME NEW n \in Nat, NEW S \in SUBSET (1 .. n), S # {}
  PROVE  Max(S) \in S /\ \A j \in S : j <= Max(S)
PROOF
  <1> DEFINE T == {n - i : i \in S}
             R == {ss \in Nat \X Nat : ss[1] < ss[2]}
  <1>1. IsWellFoundedOn(R, Nat)
    BY NatLessThanWellFounded DEF OpToRel
  <1>2. T \subseteq Nat /\ T # {}
    <2>1. \A i \in S : n - i \in Nat
      OBVIOUS
    <2> QED
      BY <2>1
  <1>3. \E m \in T : \A y \in T : <<y, m>> \notin R
    <2> HIDE DEF T, R
    <2> QED
      BY <1>1, <1>2, WFMin
  <1>4. PICK m \in T : \A y \in T : ~(y < m)
    BY <1>2, <1>3
  <1>5. PICK i \in S : m = n - i
    OBVIOUS
  <1>6. \A j \in S : i >= j
    BY <1>4, <1>5
  <1> QED
    BY <1>6 DEF Max

\* The hit test answers with a surface that is there, and the window it belongs
\* to is visible.
LEMMA HitsVisible ==
  ASSUME PopupInv, NEW x \in Cells
  PROVE  /\ SurfaceAt(wm, x) \in Surfaces \cup {NULL}
         /\ ToplevelAt(wm, x) \in Mapped \cup {NULL}
PROOF
  <1> DEFINE k == wm.stack
             S == NodesAt(wm, x)
             n == k[Max(S)]
             P == PopupsAt(n, x)
  <1>0. NULL \notin Slots /\ NULL \notin Popups /\ Slots \cap Popups = {}
    BY Distinct
  <1>1. CASE S = {}
    BY <1>0, <1>1 DEF SurfaceAt, ToplevelAt, OwnerOf
  <1>2. CASE S # {}
    <2>1. k \in Seq(Slots \cup Others)
      BY DEF PopupInv, IInv, Sound, WindowManager
    <2>2. S \in SUBSET (1 .. Len(k)) /\ Len(k) \in Nat
      BY <2>1 DEF NodesAt
    <2> HIDE DEF S
    <2>3. Max(S) \in S
      BY <1>2, <2>2, MaxOf
    <2>4. Covers(wm, n, x) /\ n \in ToSet(k)
      BY <2>1, <2>3 DEF NodesAt, ToSet, S
    <2>5. SurfaceAt(wm, x) = SurfaceOf(wm, n, x)
      BY <1>2 DEF SurfaceAt, S
    <2> HIDE DEF n
    <2>6. CASE n \in Slots /\ P # {}
      <3>1. trees[n] \in Seq(Popups) /\ ToSet(trees[n]) = Children(n)
        BY <2>6 DEF PopupInv, PopupsAreOwned
      <3>2. P \in SUBSET (1 .. Len(trees[n])) /\ Len(trees[n]) \in Nat
        BY <3>1 DEF PopupsAt
      <3> DEFINE p == trees[n][Max(P)]
      <3> HIDE DEF P
      <3>3. Max(P) \in P
        BY <2>6, <3>2, MaxOf
      <3>4. p \in ToSet(trees[n]) /\ PopupAt(p, x)
        BY <3>1, <3>3 DEF PopupsAt, ToSet, P
      <3>5. SurfaceOf(wm, n, x) = p
        BY <2>6 DEF SurfaceOf, P
      <3> HIDE DEF p
      <3>6. p \in Popups /\ popups[p].parent = n /\ popups[p].life = "mapped"
        BY <3>1, <3>4 DEF Children, PopupAt
      <3>7. n \in Mapped
        BY <1>0, <2>6, <3>6 DEF PopupInv, PopupsAreOwned
      <3> QED
        BY <2>5, <2>6, <3>5, <3>6, <3>7 DEF Surfaces, ToplevelAt, OwnerOf
    <2>7. CASE ~(n \in Slots /\ P # {}) /\ (n \in Backgrounds \/ (n \in Slots /\ x \in Frame(wm, n)))
      <3>1. SurfaceOf(wm, n, x) = NULL
        BY <2>7 DEF SurfaceOf
      <3> QED
        BY <1>0, <2>5, <3>1 DEF ToplevelAt, OwnerOf
    <2>8. CASE /\ ~(n \in Slots /\ P # {})
               /\ ~(n \in Backgrounds \/ (n \in Slots /\ x \in Frame(wm, n)))
      <3>1. SurfaceOf(wm, n, x) = n
        BY <2>8 DEF SurfaceOf
      <3>2. CASE n \in Popups
        <4>1. popups[n].life = "mapped"
          BY <1>0, <2>4, <2>8, <3>2 DEF Covers, PopupAt, Mapped
        <4>2. n \in UNION {Children(q) : q \in Popups}
          BY <2>4, <3>2 DEF PopupInv, PopupsAreOwned
        <4>3. popups[n].parent \in Popups
          BY <4>2 DEF Children
        <4> QED
          BY <1>0, <2>5, <3>1, <3>2, <4>1, <4>3 DEF Surfaces, ToplevelAt, OwnerOf
      <3>3. CASE n \notin Popups
        <4>1. n \in Mapped
          BY <2>4, <2>8, <3>3 DEF Covers
        <4>2. n \in Allocated
          BY <4>1 DEF Mapped, Allocated
        <4> QED
          BY <2>5, <3>1, <3>3, <4>1, <4>2 DEF Surfaces, ToplevelAt, OwnerOf
      <3> QED
        BY <3>2, <3>3
    <2> QED
      BY <2>6, <2>7, <2>8
  <1> QED
    BY <1>1, <1>2

-----------------------------------------------------------------------------
(* Clicks *)

\* A position that none in the set comes after is the last one.
LEMMA LastOf ==
  ASSUME NEW n \in Nat, NEW S \in SUBSET (1 .. n), NEW i \in S, \A j \in S : ~(i < j)
  PROVE  Max(S) = i
PROOF
  <1> DEFINE m == Max(S)
  <1>1. m \in S /\ i <= m
    BY MaxOf
  <1> HIDE DEF m
  <1>2. m \in 1 .. n /\ i \in 1 .. n /\ ~(i < m)
    BY <1>1
  <1>3. m = i
    BY <1>1, <1>2
  <1> QED
    BY <1>3 DEF m

\* What the user sees at a cell is what the hit test finds there.
LEMMA SeenIsHit ==
  ASSUME PopupInv, NEW x \in Cells, NEW s \in Slots \cup Popups, SeenAt(wm, s, x)
  PROVE  SurfaceAt(wm, x) = s
PROOF
  <1> DEFINE k == wm.stack
             S == NodesAt(wm, x)
  <1>0. NULL \notin Slots /\ NULL \notin Popups /\ Slots \cap Others = {}
        /\ Backgrounds \cap Popups = {} /\ Others = Backgrounds \cup Popups
    BY Distinct, SceneAssumption DEF Others
  <1>1. PICK n \in ToSet(k) :
          /\ Uncovered(wm, n, x)
          /\ \/ s = n /\ n \in Popups /\ PopupAt(n, x)
             \/ /\ s = n /\ n \in Mapped
                /\ x < wm.geo[n] /\ x \notin Frame(wm, n)
                /\ \A p \in ToSet(trees[n]) : ~PopupAt(p, x)
             \/ /\ n \in Mapped /\ s \in ToSet(trees[n]) /\ PopupAt(s, x)
                /\ \A p \in ToSet(trees[n]) : Above(trees[n], p, s) => ~PopupAt(p, x)
    BY DEF SeenAt
  <1>2. k \in Seq(Slots \cup Others) /\ \A t \in Slots : trees[t] \in Seq(Popups)
    BY DEF PopupInv, IInv, Sound, WindowManager
  <1>3. ASSUME n \in Slots PROVE PopupsAt(n, x) # {} <=> \E p \in ToSet(trees[n]) : PopupAt(p, x)
    BY <1>2, <1>3 DEF PopupsAt, ToSet
  <1>4. n \in Mapped => n \in Slots
    BY DEF Mapped
  <1>5. Covers(wm, n, x)
    BY <1>1, <1>3, <1>4 DEF Covers
  <1>6. PICK i \in 1 .. Len(k) : k[i] = n
    BY <1>2 DEF ToSet
  <1>7. S \in SUBSET (1 .. Len(k)) /\ i \in S /\ Len(k) \in Nat
    BY <1>2, <1>5, <1>6 DEF NodesAt
  <1>8. ASSUME NEW j \in S, i < j PROVE FALSE
    <2>1. j \in DOMAIN k /\ i \in DOMAIN k /\ k[j] \in ToSet(k) /\ Covers(wm, k[j], x)
      BY <1>2, <1>6, <1>8 DEF NodesAt, ToSet
    <2>2. Above(k, k[j], n)
      BY <1>6, <1>8, <2>1 DEF Above
    <2> QED
      BY <1>1, <2>1, <2>2 DEF Uncovered
  <1> HIDE DEF S
  <1>9. Max(S) = i
    BY <1>7, <1>8, LastOf
  <1>10. SurfaceAt(wm, x) = SurfaceOf(wm, n, x)
    BY <1>6, <1>7, <1>9 DEF SurfaceAt, S
  <1>11. CASE s = n /\ n \in Popups
    BY <1>0, <1>10, <1>11 DEF SurfaceOf
  <1>12. CASE /\ s = n /\ n \in Mapped /\ x \notin Frame(wm, n)
              /\ \A p \in ToSet(trees[n]) : ~PopupAt(p, x)
    BY <1>0, <1>3, <1>4, <1>10, <1>12 DEF SurfaceOf
  <1>13. CASE /\ n \in Mapped /\ s \in ToSet(trees[n]) /\ PopupAt(s, x)
              /\ \A p \in ToSet(trees[n]) : Above(trees[n], p, s) => ~PopupAt(p, x)
    <2> DEFINE P == PopupsAt(n, x)
    <2>1. trees[n] \in Seq(Popups) /\ n \in Slots
      BY <1>2, <1>4, <1>13
    <2>2. PICK m \in 1 .. Len(trees[n]) : trees[n][m] = s
      BY <1>13, <2>1 DEF ToSet
    <2>3. P \in SUBSET (1 .. Len(trees[n])) /\ m \in P /\ Len(trees[n]) \in Nat
      BY <1>13, <2>1, <2>2 DEF PopupsAt
    <2>4. ASSUME NEW j \in P, m < j PROVE FALSE
      <3>1. /\ j \in DOMAIN trees[n] /\ m \in DOMAIN trees[n]
            /\ trees[n][j] \in ToSet(trees[n]) /\ PopupAt(trees[n][j], x)
        BY <2>1, <2>2, <2>4 DEF PopupsAt, ToSet
      <3>2. Above(trees[n], trees[n][j], s)
        BY <2>2, <2>4, <3>1 DEF Above
      <3> QED
        BY <1>13, <3>1, <3>2
    <2> HIDE DEF P
    <2>5. Max(P) = m
      BY <2>3, <2>4, LastOf
    <2>6. SurfaceOf(wm, n, x) = trees[n][Max(P)]
      BY <2>1, <2>3 DEF SurfaceOf, P
    <2> QED
      BY <1>10, <2>2, <2>5, <2>6
  <1> QED
    BY <1>1, <1>11, <1>12, <1>13

-----------------------------------------------------------------------------
(* The steps *)

\* A step of the pointer or of a popup is one of the windows, one that hangs a
\* popup in the scene or takes it out, or one XdgShell sees nothing of.
LEMMA CursorNextNext ==
  ASSUME PopupInv, cursor \in Cells, [CursorNext]_cursorVars PROVE [Next]_shellVars
PROOF
  <1>1. CASE UNCHANGED cursorVars
    BY <1>1 DEF cursorVars, shellVars
  <1>2. ASSUME NEW x, UpdateFocus(x) PROVE [Next]_shellVars
    BY <1>2 DEF UpdateFocus, popupVars, shellVars
  <1>3. CASE (\E d \in {-1, 1} : CursorMotion(d)) \/ (\E x \in Cells : CursorMotionAbsolute(x))
    BY <1>2, <1>3 DEF CursorMotion, CursorMotionAbsolute
  <1>4. CASE ButtonPress
    <2> DEFINE t == ToplevelAt(wm, cursor)
    <2>1. /\ status = "running" /\ wm' = FocusToplevel(wm, t) /\ Survives(wm, t)
          /\ life' = life
      BY <1>4 DEF ButtonPress
    <2>2. t \in Mapped \cup {NULL}
      BY HitsVisible
    <2> HIDE DEF t
    <2>3. FocusRequest(t) /\ t \in Slots \cup {NULL}
      BY <2>1, <2>2 DEF FocusRequest, Mapped
    <2> QED
      BY <2>3 DEF Next
  <1>5. CASE \E s \in Slots \cup Remnants : RequestSetCursor(s)
    BY <1>5 DEF RequestSetCursor, popupVars, shellVars
  <1>6. CASE Elsewhere
    <2>1. ASSUME NEW p \in Popups, NEW parent \in Slots \cup Popups, NEW x \in Cells,
                 NewPopup(p, parent, x)
          PROVE  [Next]_shellVars
      BY <2>1 DEF NewPopup, JoinScene, Next
    <2>2. ASSUME NEW p \in Popups,
                 PopupInitialCommit(p) \/ PopupMap(p) \/ PopupUnmap(p)
          PROVE  [Next]_shellVars
      BY <2>2 DEF PopupInitialCommit, PopupMap, PopupUnmap, PopupStep, shellVars
    <2>3. ASSUME NEW p \in Popups, PopupDestroy(p) PROVE [Next]_shellVars
      BY <2>3 DEF PopupDestroy, Next
    <2>4. CASE PopupNext
      BY <2>1, <2>2, <2>3, <2>4 DEF PopupNext
    <2>5. CASE WindowStep(Unattended) \/ WindowStep(Terminate)
               \/ \E k \in Keyboards \cup {NULL} : WindowStep(SeatKeyboard(k))
      BY <2>5 DEF WindowStep, Next
    <2> QED
      BY <1>6, <2>4, <2>5 DEF Elsewhere
  <1> QED
    BY <1>1, <1>3, <1>4, <1>5, <1>6 DEF CursorNext

\* Every step keeps the invariant of the popups.
LEMMA CursorNextPopup ==
  ASSUME PopupInv, cursor \in Cells, [CursorNext]_cursorVars PROVE PopupInv'
PROOF
  <1>0. IInv'
    BY CursorNextNext, NextIInv DEF PopupInv
  <1>1. ASSUME UNCHANGED popupVars PROVE PopupInv'
    BY <1>1, <1>0 DEF popupVars, PopupInv, PopupsAreOwned, Children, Mapped
  <1>2. ASSUME NEW x, UpdateFocus(x) PROVE PopupInv'
    BY <1>1, <1>2 DEF UpdateFocus
  <1>3. CASE \/ UNCHANGED cursorVars
             \/ \E d \in {-1, 1} : CursorMotion(d)
             \/ \E x \in Cells : CursorMotionAbsolute(x)
             \/ \E s \in Slots \cup Remnants : RequestSetCursor(s)
    BY <1>1, <1>2, <1>3 DEF CursorMotion, CursorMotionAbsolute, RequestSetCursor,
                            cursorVars, popupVars
  <1>4. CASE ButtonPress
    <2> DEFINE t == ToplevelAt(wm, cursor)
    <2>1. /\ status = "running" /\ wm' = FocusToplevel(wm, t) /\ Survives(wm, t)
          /\ life' = life /\ UNCHANGED <<popups, trees>>
      BY <1>4 DEF ButtonPress
    <2>2. t \in Mapped \cup {NULL}
      BY HitsVisible
    <2> HIDE DEF t
    <2>3. FocusRequest(t) /\ t \in Slots \cup {NULL}
      BY <2>1, <2>2 DEF FocusRequest, Mapped
    <2>4. PopupNodes(wm') = PopupNodes(wm)
      BY <2>3, WindowNodes DEF PopupInv
    <2>5. \A u \in Slots : Children(u) # {} => life'[u] = "mapped"
      BY <2>1, Distinct DEF PopupInv, PopupsAreOwned, Children, Mapped
    <2> QED
      BY <1>0, <2>1, <2>4, <2>5, WindowStepInv
  <1>5. CASE Elsewhere
    <2>1. ASSUME NEW p \in Popups, NEW parent \in Slots \cup Popups, NEW x \in Cells,
                 NewPopup(p, parent, x)
          PROVE  PopupInv'
      BY <1>0, <2>1, NewPopupInv
    <2>2. ASSUME NEW p \in Popups,
                 PopupInitialCommit(p) \/ PopupMap(p) \/ PopupUnmap(p)
          PROVE  PopupInv'
      <3>1. PICK from \in PopupLives \ {"free"}, to \in PopupLives \ {"free"} :
              PopupStep(p, from, to) /\ (from = "mapped" => Children(p) = {})
        BY <2>2 DEF PopupInitialCommit, PopupMap, PopupUnmap, PopupLives
      <3> QED
        BY <1>0, <3>1, PopupStepInv
    <2>3. ASSUME NEW p \in Popups, PopupDestroy(p) PROVE PopupInv'
      BY <1>0, <2>3, PopupDestroyInv
    <2>4. CASE PopupNext
      BY <2>1, <2>2, <2>3, <2>4 DEF PopupNext
    <2>5. CASE WindowStep(Unattended) \/ WindowStep(Terminate)
               \/ \E k \in Keyboards \cup {NULL} : WindowStep(SeatKeyboard(k))
      <3>1. /\ Unattended \/ Terminate \/ \E k \in Keyboards \cup {NULL} : SeatKeyboard(k)
            /\ \A u \in Slots : Children(u) # {} => life'[u] = "mapped"
            /\ UNCHANGED <<popups, trees>>
        BY <2>5 DEF WindowStep
      <3>2. PopupNodes(wm') = PopupNodes(wm)
        BY <3>1, WindowNodes DEF PopupInv
      <3> QED
        BY <1>0, <3>1, <3>2, WindowStepInv
    <2> QED
      BY <1>5, <2>4, <2>5 DEF Elsewhere
  <1> QED
    BY <1>3, <1>4, <1>5 DEF CursorNext

\* The invariant of the pointer.
CursorInv ==
  /\ PopupInv
  /\ cursor \in Cells
  /\ pointerFocus \in Surfaces \cup {NULL}
  /\ image \in {"default", "client"}

\* No focus change makes or destroys a surface.
LEMMA FocusLeft ==
  ASSUME IInv, NEW t \in Slots \cup {NULL}
  PROVE  FocusToplevel(wm, t).left = wm.left
PROOF
  <1> DEFINE d == Defocus(wm)
  <1>1. wm \in WindowManager /\ IsInjective(wm.stack)
    BY DEF IInv, Sound, Linked
  <1>2. CASE t = wm.focused
    BY <1>2 DEF FocusToplevel
  <1>3. CASE t # wm.focused /\ t = NULL
    <2>1. FocusToplevel(wm, t) = [d EXCEPT !.focused = NULL, !.kbdFocus = NULL]
      BY <1>3 DEF FocusToplevel
    <2>2. d \in WindowManager /\ d.left = wm.left
      BY <1>1, DefocusFields
    <2> HIDE DEF d
    <2> QED
      BY <2>1, <2>2 DEF WindowManager
  <1>4. CASE t # wm.focused /\ t # NULL
    <2>1. t \in Slots
      BY <1>4
    <2>2. FocusMoved(wm, t, FocusToplevel(wm, t))
      BY <1>1, <1>4, <2>1, FocusChange
    <2> QED
      BY <2>2 DEF FocusMoved
  <1> QED
    BY <1>2, <1>3, <1>4

\* Every step keeps the invariant of the pointer.
LEMMA CursorNextInv ==
  ASSUME CursorInv, [CursorNext]_cursorVars PROVE CursorInv'
PROOF
  <1>0. PopupInv'
    BY CursorNextPopup DEF CursorInv
  <1>1. ASSUME life' = life, popups' = popups, wm'.left = wm.left PROVE Surfaces' = Surfaces
    BY <1>1 DEF Surfaces, Allocated
  <1>2. ASSUME NEW x \in Cells, UpdateFocus(x) PROVE CursorInv'
    <2> DEFINE s == SurfaceAt(wm, x)
    <2>1. s \in Surfaces \cup {NULL}
      BY HitsVisible DEF CursorInv
    <2>2. /\ cursor' = x /\ pointerFocus' = s
          /\ image' \in {"default", image}
          /\ Surfaces' = Surfaces
      BY <1>1, <1>2 DEF UpdateFocus, popupVars
    <2> HIDE DEF s
    <2> QED
      BY <1>0, <2>1, <2>2 DEF CursorInv
  <1>3. CASE UNCHANGED cursorVars
    BY <1>0, <1>1, <1>3 DEF cursorVars, CursorInv
  <1>4. ASSUME NEW d \in {-1, 1}, CursorMotion(d) PROVE CursorInv'
    <2> DEFINE x == cursor + d
               y == IF x < 0 THEN 0 ELSE Min({x, LastCell})
    <2>1. x \in Int /\ LastCell \in Nat
      BY LastCellAssumption DEF CursorInv, Cells
    <2> HIDE DEF x
    <2>2. Min({x, LastCell}) = IF x <= LastCell THEN x ELSE LastCell
      BY <2>1 DEF Min
    <2>3. y \in Cells
      BY <2>1, <2>2 DEF Cells
    <2>4. UpdateFocus(y)
      BY <1>4 DEF CursorMotion, x
    <2> HIDE DEF y
    <2> QED
      BY <1>2, <2>3, <2>4
  <1>5. ASSUME NEW x \in Cells, CursorMotionAbsolute(x) PROVE CursorInv'
    BY <1>2, <1>5 DEF CursorMotionAbsolute
  <1>6. CASE ButtonPress
    <2>1. /\ wm' = FocusToplevel(wm, ToplevelAt(wm, cursor))
          /\ life' = life /\ UNCHANGED <<popups, cursor, pointerFocus, image>>
      BY <1>6 DEF ButtonPress
    <2>2. ToplevelAt(wm, cursor) \in Slots \cup {NULL}
      BY HitsVisible DEF CursorInv, Mapped
    <2>3. wm'.left = wm.left
      BY <2>1, <2>2, FocusLeft DEF CursorInv, PopupInv
    <2> QED
      BY <1>0, <1>1, <2>1, <2>3 DEF CursorInv
  <1>7. ASSUME NEW s \in Slots \cup Remnants, RequestSetCursor(s) PROVE CursorInv'
    <2>1. /\ image' \in {"client", image}
          /\ Surfaces' = Surfaces /\ UNCHANGED <<cursor, pointerFocus>>
      BY <1>1, <1>7 DEF RequestSetCursor, popupVars
    <2> QED
      BY <1>0, <2>1 DEF CursorInv
  <1>8. CASE Elsewhere
    <2>1. pointerFocus' \in Surfaces' \cup {NULL} /\ UNCHANGED <<cursor, image>>
      BY <1>8 DEF Elsewhere, LeftBehind, Surfaces
    <2> QED
      BY <1>0, <2>1 DEF CursorInv
  <1> QED
    BY <1>3, <1>4, <1>5, <1>6, <1>7, <1>8 DEF CursorNext

\* No window, no popup.
LEMMA CursorInitInv == CursorInit => CursorInv
PROOF
  <1> SUFFICES ASSUME CursorInit PROVE CursorInv
    OBVIOUS
  <1>1. IInv
    BY InitIInv DEF CursorInit, PopupInit
  <1>2. NoPopup \in PopupRecord /\ NoPopup.life = "free" /\ NoPopup.parent = NULL
    BY Distinct DEF NoPopup, PopupRecord, PopupLives
  <1>3. /\ popups \in [Popups -> PopupRecord] /\ \A p \in Popups : popups[p] = NoPopup
        /\ trees \in [Slots -> Seq(Popups)] /\ \A t \in Slots : trees[t] = << >>
        /\ wm.stack = << >>
    BY <1>2 DEF CursorInit, PopupInit, Init
  <1>4. \A n \in Slots \cup Popups : Children(n) = {}
    BY <1>2, <1>3, Distinct DEF Children
  <1>5. ToSet(<< >>) = {} /\ IsInjective(<< >>)
    BY DEF ToSet, IsInjective
  <1>6. PopupsAreOwned
    BY <1>2, <1>3, <1>4, <1>5 DEF PopupsAreOwned
  <1>7. PopupInv
    BY <1>1, <1>2, <1>3, <1>6 DEF PopupInv
  <1> QED
    BY <1>7, Distinct DEF CursorInit, CursorInv

\* A surface the user sees, in the tree of a window, is seen there after the
\* window has been focused.
LEMMA ClickFocuses ==
  ASSUME CursorInv, NEW s \in Slots \cup Popups,
         ButtonPress, SeenAt(wm, s, cursor), OwnerOf(s) # NULL
  PROVE  /\ wm'.focused = OwnerOf(s)
         /\ \/ OwnerOf(s) \in wm'.activated
            \/ wm.focused = OwnerOf(s) /\ OwnerOf(s) \notin wm.activated
         /\ SeenAt(wm, s, cursor)'
PROOF
  <1> DEFINE k == wm.stack
  <1>t. PICK t : t = OwnerOf(s)
    OBVIOUS
  <1>0. NULL \notin Slots /\ NULL \notin Popups /\ Slots \cap Others = {}
        /\ Others = Backgrounds \cup Popups
    BY Distinct, SceneAssumption DEF Others
  <1>1. PopupInv /\ cursor \in Cells
    BY DEF CursorInv
  <1>2. ToplevelAt(wm, cursor) = t
    BY <1>1, <1>t, SeenIsHit DEF ToplevelAt
  <1>3. t \in Mapped
    BY <1>1, <1>2, <1>t, HitsVisible
  <1>4. /\ wm' = FocusToplevel(wm, t)
        /\ life' = life /\ popups' = popups /\ trees' = trees /\ cursor' = cursor
    BY <1>2 DEF ButtonPress
  <1>5. /\ wm \in WindowManager /\ IsInjective(k) /\ k \in Seq(Slots \cup Others)
        /\ \A u \in Slots : BorderSound(wm, Mapped, u)
        /\ t \in Slots /\ \A u \in Slots : wm.geo[u] \in Nat
    BY <1>1, <1>3, SizesAssumption DEF PopupInv, IInv, Sound, Linked, WindowManager, Mapped
  <1>6. CASE t = wm.focused
    <2>1. wm' = wm
      BY <1>4, <1>6 DEF FocusToplevel
    <2>2. SeenAt(wm, s, cursor)'
      BY <1>4, <2>1 DEF SeenAt, Uncovered, Covers, PopupAt, PopupsAt, Frame, Mapped
    <2> QED
      BY <1>t, <1>6, <2>1, <2>2
  <1>7. CASE t # wm.focused
    <2>1. FocusMoved(wm, t, wm')
      BY <1>4, <1>5, <1>7, FocusChange
    <2>2. /\ wm'.focused = t /\ t \in wm'.activated /\ wm'.geo = wm.geo
          /\ wm'.stack = RaiseToTop(k, t)
          /\ wm'.border[t] = UpdateBorder(wm.border[t], wm.geo[t], TRUE)
      BY <1>5, <2>1 DEF FocusMoved
    <2>3. t \in ToSet(wm'.stack) /\ \A m : ~Above(wm'.stack, m, t)
      BY <1>5, <2>2, RaiseToTopProperties
    <2>4. wm.geo[t] > 0 => Frame(wm', t) = Frame(wm, t)
      <3>1. wm.border[t] = NULL => wm'.border[t] = NULL
        BY <2>2 DEF UpdateBorder
      <3>2. wm.border[t] # NULL =>
              /\ wm.geo[t] > 0 => wm.border[t].size = wm.geo[t]
              /\ wm'.border[t] # NULL /\ wm'.border[t].size = wm.geo[t]
        <4>1. wm.geo[t] \in Sizes
          BY <1>5 DEF WindowManager
        <4>2. ASSUME wm.border[t] # NULL
              PROVE  wm'.border[t] \in Borders /\ wm'.border[t].size = wm.geo[t]
          BY <2>2, <4>1, <4>2
            DEF UpdateBorder, Borders, Tops, Sides, TopColour, SideColour
        <4>3. wm.border[t] # NULL => (wm.geo[t] > 0 => wm.border[t].size = wm.geo[t])
          BY <1>5 DEF BorderSound
        <4> QED
          BY <4>2, <4>3, NullAssumption
      <3> QED
        BY <3>1, <3>2 DEF Frame
    <2>5. \/ /\ s = t /\ cursor < wm.geo[t] /\ cursor \notin Frame(wm, t)
             /\ \A p \in ToSet(trees[t]) : ~PopupAt(p, cursor)
          \/ /\ s \in ToSet(trees[t]) /\ PopupAt(s, cursor)
             /\ \A p \in ToSet(trees[t]) : Above(trees[t], p, s) => ~PopupAt(p, cursor)
      <3>1. PICK n \in ToSet(k) :
              \/ s = n /\ n \in Popups /\ PopupAt(n, cursor)
              \/ /\ s = n /\ n \in Mapped
                 /\ cursor < wm.geo[n] /\ cursor \notin Frame(wm, n)
                 /\ \A p \in ToSet(trees[n]) : ~PopupAt(p, cursor)
              \/ /\ n \in Mapped /\ s \in ToSet(trees[n]) /\ PopupAt(s, cursor)
                 /\ \A p \in ToSet(trees[n]) : Above(trees[n], p, s) => ~PopupAt(p, cursor)
        BY DEF SeenAt
      <3>2. ASSUME s = n, n \in Popups PROVE FALSE
        <4>1. n \in UNION {Children(q) : q \in Popups}
          BY <1>1, <3>1, <3>2 DEF PopupInv, PopupsAreOwned
        <4>2. popups[n].parent \in Popups
          BY <4>1 DEF Children
        <4> QED
          BY <1>0, <3>2, <4>2 DEF OwnerOf
      <3>3. ASSUME s = n, n \in Mapped PROVE n = t
        BY <1>0, <1>t, <3>3 DEF OwnerOf, Mapped
      <3>4. ASSUME n \in Mapped, s \in ToSet(trees[n]) PROVE n = t
        <4>1. n \in Slots /\ ToSet(trees[n]) = Children(n)
          BY <1>1, <3>4 DEF PopupInv, PopupsAreOwned, Mapped
        <4>2. s \in Popups /\ popups[s].parent = n
          BY <3>4, <4>1 DEF Children
        <4> QED
          BY <1>t, <4>1, <4>2 DEF OwnerOf
      <3> QED
        BY <3>1, <3>2, <3>3, <3>4
    <2>6. SeenAt(wm, s, cursor)'
      <3>1. t \in ToSet(wm'.stack) /\ Uncovered(wm, t, cursor)'
        BY <2>3 DEF Uncovered
      <3>2. t \in Mapped' /\ \A p : PopupAt(p, cursor)' <=> PopupAt(p, cursor)
        BY <1>3, <1>4 DEF Mapped, PopupAt
      <3>3. CASE /\ s = t /\ cursor < wm.geo[t] /\ cursor \notin Frame(wm, t)
                 /\ \A p \in ToSet(trees[t]) : ~PopupAt(p, cursor)
        <4>1. wm.geo[t] > 0
          BY <1>1, <1>5, <3>3 DEF Cells
        <4>2. cursor' < wm'.geo[t] /\ cursor' \notin Frame(wm', t)
          BY <1>4, <2>2, <2>4, <3>3, <4>1
        <4>3. \A p \in ToSet(trees'[t]) : ~PopupAt(p, cursor)'
          BY <1>4, <3>2, <3>3
        <4> QED
          BY <3>1, <3>2, <3>3, <4>2, <4>3 DEF SeenAt, Frame
      <3>4. CASE /\ s \in ToSet(trees[t]) /\ PopupAt(s, cursor)
                 /\ \A p \in ToSet(trees[t]) : Above(trees[t], p, s) => ~PopupAt(p, cursor)
        <4>1. /\ s \in ToSet(trees'[t]) /\ PopupAt(s, cursor)'
              /\ \A p \in ToSet(trees'[t]) : Above(trees'[t], p, s) => ~PopupAt(p, cursor)'
          BY <1>4, <3>2, <3>4
        <4> QED
          BY <3>1, <3>2, <4>1 DEF SeenAt
      <3> QED
        BY <2>5, <3>3, <3>4
    <2> QED
      BY <1>t, <2>2, <2>6
  <1> QED
    BY <1>6, <1>7

-----------------------------------------------------------------------------
(* The theorems *)

\* The inductive invariant holds in every reachable state.
THEOREM CursorInductive == CursorSpec => []CursorInv
PROOF
  <1>1. CursorInv /\ [CursorNext]_cursorVars => CursorInv'
    BY CursorNextInv
  <1> QED
    BY <1>1, CursorInitInv, PTL DEF CursorSpec

\* Clicks focus visible windows only, motion focuses none, and popups move no
\* window: every theorem about XdgShell is one about Cursor.
THEOREM CursorRefinesXdgShell == CursorSpec => ImplementsXdgShell
PROOF
  <1>1. CursorInit => Init
    BY DEF CursorInit, PopupInit
  <1>2. CursorInv /\ [CursorNext]_cursorVars => [Next]_shellVars
    BY CursorNextNext DEF CursorInv
  <1> QED
    BY <1>1, <1>2, CursorInductive, PTL DEF CursorSpec, Spec, ImplementsXdgShell

\* The cursor stays in the layout, and the pointer focus is on a live surface.
THEOREM CursorTypeCorrect == CursorSpec => []CursorTypeOK
PROOF
  <1>1. CursorInv => CursorTypeOK
    BY DEF CursorInv, PopupInv, PopupRecord, CursorTypeOK, PopupTypeOK, IInv, Sound, TypeOK
  <1> QED
    BY <1>1, CursorInductive, PTL

\* Every popup hangs once in the scene, where its parent says, for as long as
\* both exist.
THEOREM PopupsStayOwned == CursorSpec => []PopupsAreOwned
PROOF
  <1>1. CursorInv => PopupsAreOwned
    BY DEF CursorInv, PopupInv
  <1> QED
    BY <1>1, CursorInductive, PTL

\* A click on a window or on a popup of it focuses the window and activates it,
\* but for a window that was taken for focused and was not activated; the raise
\* leaves what was clicked under the cursor.
THEOREM ClicksFocus == CursorSpec => ClickGivesFocus
PROOF
  <1>1. CursorInv => (ButtonPress =>
          \A s \in Slots \cup Popups :
            SeenAt(wm, s, cursor) /\ OwnerOf(s) # NULL =>
              LET t == OwnerOf(s) IN
              /\ wm'.focused = t
              /\ t \in wm'.activated \/ (wm.focused = t /\ t \notin wm.activated)
              /\ SeenAt(wm, s, cursor)')
    BY ClickFocuses
  <1> QED
    BY <1>1, CursorInductive, PTL DEF ClickGivesFocus
=============================================================================
