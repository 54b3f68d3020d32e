--------------------------- MODULE XdgShellProofs ---------------------------
(***************************************************************************)
(* Proofs about XdgShell, for any number of toplevels, sizes, keyboards,   *)
(* backgrounds and popups.  IInv, the inductive invariant, is stated with  *)
(* predicates on the record a handler has in its hands (Sound, OnTop), so  *)
(* that a handler made of two others is proved by their two lemmas: the    *)
(* map handler, for one, hands the commit handler a record whose one       *)
(* border is not sound yet.                                                *)
(***************************************************************************)
EXTENDS XdgShellProperties, WlListProofs

-----------------------------------------------------------------------------
(* The border and the focus function, field by field *)

\* decoration_update_border keeps a window without border without one, and
\* gives any other the size and the colours it is called with.
LEMMA UpdateBorderType ==
  ASSUME NEW b \in Borders \cup {NULL}, NEW n \in Sizes, NEW f \in BOOLEAN
  PROVE  /\ UpdateBorder(b, n, f) \in Borders \cup {NULL}
         /\ UpdateBorder(b, n, f) = NULL <=> b = NULL
         /\ b # NULL => /\ UpdateBorder(b, n, f).size = n
                        /\ UpdateBorder(b, n, f).top = TopColour(f)
                        /\ UpdateBorder(b, n, f).sides = SideColour(f)
BY NullAssumption
   DEF UpdateBorder, Borders, Tops, Sides, TopColour, SideColour

\* What each part of the focus function assigns, field by field.
LEMMA DefocusFields ==
  ASSUME NEW w \in WindowManager
  PROVE  LET r == Defocus(w) IN
         /\ r \in WindowManager
         /\ r.focused = w.focused /\ r.toplevels = w.toplevels /\ r.geo = w.geo
         /\ r.left = w.left
         /\ r.keyboard = w.keyboard /\ r.kbdFocus = w.kbdFocus /\ r.stack = w.stack
         /\ r.activated = w.activated \ ({w.focused} \cap Allocated)
         /\ r.scheduled = w.scheduled \cup ({w.focused} \cap Allocated)
         /\ \A s \in Slots : r.border[s] =
              IF s = w.focused /\ s \in Allocated
                THEN UpdateBorder(w.border[s], w.geo[s], FALSE) ELSE w.border[s]
PROOF
  <1> DEFINE r == Defocus(w)
  <1>1. CASE w.focused \notin Allocated
    BY <1>1 DEF Defocus
  <1>2. CASE w.focused \in Allocated
    <2> DEFINE p == w.focused
               u == UpdateBorder(w.border[p], w.geo[p], FALSE)
    <2>1. p \in Slots /\ {w.focused} \cap Allocated = {p}
      BY <1>2 DEF Allocated
    <2>2. w.border \in [Slots -> Borders \cup {NULL}] /\ w.geo \in [Slots -> Sizes]
      BY DEF WindowManager
    <2>3. u \in Borders \cup {NULL}
      BY <2>1, <2>2, UpdateBorderType
    <2>4. r = [w EXCEPT !.activated = @ \ {p}, !.scheduled = @ \cup {p}, !.border[p] = u]
      BY <1>2 DEF Defocus
    <2>5. p = w.focused
      OBVIOUS
    <2> HIDE DEF u, p
    <2>6. r \in WindowManager
      <3>1. [w EXCEPT !.activated = @ \ {p}, !.scheduled = @ \cup {p}, !.border[p] = u]
              \in WindowManager
        BY <2>1, <2>3 DEF WindowManager
      <3> QED
        BY <2>4, <3>1
    <2>7. /\ r.focused = w.focused /\ r.toplevels = w.toplevels /\ r.geo = w.geo
          /\ r.left = w.left
          /\ r.keyboard = w.keyboard /\ r.kbdFocus = w.kbdFocus /\ r.stack = w.stack
          /\ r.activated = w.activated \ {p} /\ r.scheduled = w.scheduled \cup {p}
          /\ r.border = [w.border EXCEPT ![p] = u]
      BY <2>4 DEF WindowManager
    <2>8. ASSUME NEW s \in Slots
          PROVE  r.border[s] = IF s = w.focused /\ s \in Allocated
                   THEN UpdateBorder(w.border[s], w.geo[s], FALSE) ELSE w.border[s]
      <3>1. CASE s = p
        BY <1>2, <2>2, <2>5, <2>7, <3>1 DEF u
      <3>2. CASE s # p
        BY <2>2, <2>5, <2>7, <3>2
      <3> QED
        BY <3>1, <3>2
    <2> QED
      BY <2>1, <2>6, <2>7, <2>8
  <1> QED
    BY <1>1, <1>2

\* What raising and entering the new window assigns, but for the two sets.
LEMMA RefocusFields ==
  ASSUME NEW w \in WindowManager, NEW t \in Slots, IsInjective(w.stack)
  PROVE  LET r == Refocus(w, t) IN
         /\ r \in WindowManager
         /\ r.focused = t /\ r.toplevels = w.toplevels /\ r.geo = w.geo
         /\ r.left = w.left
         /\ r.keyboard = w.keyboard
         /\ r.kbdFocus = IF w.keyboard = NULL THEN w.kbdFocus ELSE t
         /\ r.stack = RaiseToTop(w.stack, t)
         /\ r.border = [w.border EXCEPT ![t] = UpdateBorder(w.border[t], w.geo[t], TRUE)]
PROOF
  <1> DEFINE r == Refocus(w, t)
             u == UpdateBorder(w.border[t], w.geo[t], TRUE)
             k == IF w.keyboard = NULL THEN w.kbdFocus ELSE t
             raised == RaiseToTop(w.stack, t)
  <1>1. w.border \in [Slots -> Borders \cup {NULL}] /\ w.geo \in [Slots -> Sizes]
    BY DEF WindowManager
  <1>2. u \in Borders \cup {NULL}
    BY <1>1, UpdateBorderType
  <1>3. w.stack \in Seq(Slots \cup Others)
    BY DEF WindowManager
  <1>4. raised \in Seq(Slots \cup Others)
    BY <1>3, RaiseToTopProperties
  <1>5. k \in Slots \cup Remnants \cup {NULL}
    BY DEF WindowManager
  <1>6. r = [w EXCEPT !.focused = t, !.stack = raised, !.activated = @ \cup {t},
                      !.scheduled = @ \cup {t}, !.border[t] = u, !.kbdFocus = k]
    BY DEF Refocus
  <1> HIDE DEF r, u, k, raised
  <1>7. r \in WindowManager
    <2>1. [w EXCEPT !.focused = t, !.stack = raised, !.activated = @ \cup {t},
                    !.scheduled = @ \cup {t}, !.border[t] = u, !.kbdFocus = k]
            \in WindowManager
      BY <1>2, <1>4, <1>5 DEF WindowManager
    <2> QED
      BY <1>6, <2>1
  <1>8. /\ r.focused = t /\ r.toplevels = w.toplevels /\ r.geo = w.geo
        /\ r.left = w.left
        /\ r.keyboard = w.keyboard /\ r.kbdFocus = k /\ r.stack = raised
        /\ r.activated = w.activated \cup {t} /\ r.scheduled = w.scheduled \cup {t}
        /\ r.border = [w.border EXCEPT ![t] = u]
    BY <1>6 DEF WindowManager
  <1> QED
    BY <1>7, <1>8 DEF r, u, k, raised

\* The new window is activated, and a configure that says so is pending.
LEMMA RefocusSets ==
  ASSUME NEW w \in WindowManager, NEW t \in Slots
  PROVE  /\ Refocus(w, t).activated = w.activated \cup {t}
         /\ Refocus(w, t).scheduled = w.scheduled \cup {t}
BY DEF Refocus, WindowManager

\* What a focus change to a toplevel does, whatever the window that loses it.
FocusMoved(w, t, r) ==
  /\ r \in WindowManager
  /\ r.focused = t /\ r.toplevels = w.toplevels /\ r.geo = w.geo /\ r.left = w.left
  /\ r.keyboard = w.keyboard
  /\ r.kbdFocus = IF w.keyboard = NULL THEN w.kbdFocus ELSE t
  /\ r.stack = RaiseToTop(w.stack, t)
  /\ r.activated = (w.activated \ ({w.focused} \cap Allocated)) \cup {t}
  /\ r.scheduled = (w.scheduled \cup ({w.focused} \cap Allocated)) \cup {t}
  /\ \A s \in Slots : r.border[s] =
       IF s = t THEN UpdateBorder(w.border[s], w.geo[s], TRUE)
       ELSE IF s = w.focused /\ s \in Allocated
         THEN UpdateBorder(w.border[s], w.geo[s], FALSE)
       ELSE w.border[s]

\* For another toplevel than the focused one, the focus function does what
\* FocusMoved says.
LEMMA FocusChange ==
  ASSUME NEW w \in WindowManager, NEW t \in Slots, IsInjective(w.stack), t # w.focused
  PROVE  FocusMoved(w, t, FocusToplevel(w, t))
PROOF
  <1> DEFINE r == FocusToplevel(w, t)
             d == Defocus(w)
             q == Refocus(d, t)
  <1>1. r = q
    BY NullAssumption DEF FocusToplevel
  <1>2. /\ d \in WindowManager
        /\ d.focused = w.focused /\ d.toplevels = w.toplevels /\ d.geo = w.geo
        /\ d.left = w.left
        /\ d.keyboard = w.keyboard /\ d.kbdFocus = w.kbdFocus /\ d.stack = w.stack
        /\ d.activated = w.activated \ ({w.focused} \cap Allocated)
        /\ d.scheduled = w.scheduled \cup ({w.focused} \cap Allocated)
        /\ \A s \in Slots : d.border[s] =
             IF s = w.focused /\ s \in Allocated
               THEN UpdateBorder(w.border[s], w.geo[s], FALSE) ELSE w.border[s]
    BY DefocusFields
  <1> HIDE DEF d
  <1>3. IsInjective(d.stack)
    BY <1>2
  <1>4. /\ q \in WindowManager
        /\ q.focused = t /\ q.toplevels = d.toplevels /\ q.geo = d.geo
        /\ q.left = d.left
        /\ q.keyboard = d.keyboard
        /\ q.kbdFocus = IF d.keyboard = NULL THEN d.kbdFocus ELSE t
        /\ q.stack = RaiseToTop(d.stack, t)
        /\ q.activated = d.activated \cup {t}
        /\ q.scheduled = d.scheduled \cup {t}
        /\ q.border = [d.border EXCEPT ![t] = UpdateBorder(d.border[t], d.geo[t], TRUE)]
    <2>0. d \in WindowManager /\ IsInjective(d.stack)
      BY <1>2, <1>3
    <2>1. q.activated = d.activated \cup {t} /\ q.scheduled = d.scheduled \cup {t}
      BY <2>0, RefocusSets
    <2>2. q \in WindowManager /\ q.focused = t /\ q.stack = RaiseToTop(d.stack, t)
      BY <2>0, RefocusFields
    <2>3. /\ q.toplevels = d.toplevels /\ q.geo = d.geo
          /\ q.left = d.left /\ q.keyboard = d.keyboard
          /\ q.kbdFocus = IF d.keyboard = NULL THEN d.kbdFocus ELSE t
      BY <2>0, RefocusFields
    <2>4. q.border = [d.border EXCEPT ![t] = UpdateBorder(d.border[t], d.geo[t], TRUE)]
      BY <2>0, RefocusFields
    <2> QED
      BY <2>1, <2>2, <2>3, <2>4
  <1> HIDE DEF q
  <1>5. ASSUME NEW s \in Slots
        PROVE  q.border[s] =
                 IF s = t THEN UpdateBorder(w.border[s], w.geo[s], TRUE)
                 ELSE IF s = w.focused /\ s \in Allocated
                   THEN UpdateBorder(w.border[s], w.geo[s], FALSE)
                 ELSE w.border[s]
    <2>1. d.border \in [Slots -> Borders \cup {NULL}]
      BY <1>2 DEF WindowManager
    <2>2. d.border[s] = IF s = w.focused /\ s \in Allocated
            THEN UpdateBorder(w.border[s], w.geo[s], FALSE) ELSE w.border[s]
      BY <1>2
    <2>3. CASE s = t
      <3>1. q.border[s] = UpdateBorder(d.border[s], d.geo[s], TRUE)
        BY <1>4, <2>1, <2>3
      <3>2. d.border[s] = w.border[s] /\ d.geo = w.geo /\ d.left = w.left
        BY <1>2, <2>2, <2>3
      <3> QED
        BY <2>3, <3>1, <3>2
    <2>4. CASE s # t
      BY <1>4, <2>1, <2>2, <2>4
    <2> QED
      BY <2>3, <2>4
  <1>6. /\ q.kbdFocus = IF w.keyboard = NULL THEN w.kbdFocus ELSE t
        /\ q.stack = RaiseToTop(w.stack, t)
        /\ q.activated = (w.activated \ ({w.focused} \cap Allocated)) \cup {t}
        /\ q.scheduled = (w.scheduled \cup ({w.focused} \cap Allocated)) \cup {t}
    BY <1>2, <1>4
  <1>7. r \in WindowManager /\ r = q
    BY <1>1, <1>4
  <1> HIDE DEF r
  <1>8. /\ r.focused = t /\ r.toplevels = w.toplevels /\ r.geo = w.geo
        /\ r.left = w.left
        /\ r.keyboard = w.keyboard
    BY <1>2, <1>4, <1>7
  <1> QED
    BY <1>5, <1>6, <1>7, <1>8 DEF r, FocusMoved

-----------------------------------------------------------------------------
(* The invariant, as predicates on the record a handler has in its hands *)

\* w, with M for the mapped toplevels, reaches allocated toplevels only, has
\* at most the focused one activated, and has sound borders outside X.
BorderSound(w, M, t) ==
  w.border[t] # NULL =>
    /\ t \in M
    /\ w.border[t].top = TopColour(t = w.focused)
    /\ w.border[t].sides = SideColour(t = w.focused)
    /\ w.geo[t] > 0 => w.border[t].size = w.geo[t]

Linked(w) ==
  /\ ToSet(w.toplevels) = Allocated
  /\ ToSet(w.stack) \ Others = Allocated
  /\ IsInjective(w.toplevels) /\ IsInjective(w.stack)
  /\ w.scheduled \subseteq Allocated
  /\ w.kbdFocus \in Allocated \cup w.left \cup {NULL}

Sound(w, M, X) ==
  /\ w \in WindowManager
  /\ Linked(w)
  /\ w.activated \subseteq {w.focused} \cap Allocated
  /\ \A t \in Slots \ X : BorderSound(w, M, t)

OnTop(w, M) == w.focused \in Allocated => \A u \in M : ~Above(w.stack, u, w.focused)

\* Moving the focus to an allocated toplevel keeps the record sound.
LEMMA FocusKeepsSound ==
  ASSUME NEW w, NEW M \in SUBSET Allocated, NEW X \in SUBSET Slots, Sound(w, M, X),
         NEW t \in Allocated, t # w.focused
  PROVE  /\ Sound(FocusToplevel(w, t), M, X)
         /\ OnTop(FocusToplevel(w, t), Slots)
         /\ FocusToplevel(w, t).focused = t
PROOF
  <1> DEFINE r == FocusToplevel(w, t)
  <1>1. /\ w \in WindowManager /\ t \in Slots /\ IsInjective(w.stack) /\ t # NULL
        /\ w.stack \in Seq(Slots \cup Others)
        /\ w.border \in [Slots -> Borders \cup {NULL}] /\ w.geo \in [Slots -> Sizes]
    BY NullAssumption DEF Sound, Linked, Allocated, WindowManager
  <1>0. FocusMoved(w, t, r)
    BY <1>1, FocusChange
  <1>2. /\ r \in WindowManager
        /\ r.focused = t /\ r.toplevels = w.toplevels /\ r.geo = w.geo
        /\ r.left = w.left
        /\ r.stack = RaiseToTop(w.stack, t)
    BY <1>0 DEF FocusMoved
  <1>3. /\ r.kbdFocus = IF w.keyboard = NULL THEN w.kbdFocus ELSE t
        /\ r.scheduled = (w.scheduled \cup ({w.focused} \cap Allocated)) \cup {t}
    BY <1>0 DEF FocusMoved
  <1>4. r.activated = (w.activated \ ({w.focused} \cap Allocated)) \cup {t}
    BY <1>0 DEF FocusMoved
  <1>5. \A s \in Slots : r.border[s] =
          IF s = t THEN UpdateBorder(w.border[s], w.geo[s], TRUE)
          ELSE IF s = w.focused /\ s \in Allocated
            THEN UpdateBorder(w.border[s], w.geo[s], FALSE)
          ELSE w.border[s]
    BY <1>0 DEF FocusMoved
  <1> HIDE DEF r
  <1>6. /\ ToSet(r.stack) = ToSet(w.stack) \cup {t} /\ IsInjective(r.stack)
        /\ \A a : ~Above(r.stack, a, t)
    BY <1>1, <1>2, RaiseToTopProperties
  <1>7. Linked(r)
    <2>1. t \notin Others
      BY <1>1, SceneAssumption
    <2>2. ToSet(r.stack) \ Others = Allocated
      BY <1>6, <2>1 DEF Sound, Linked
    <2> QED
      BY <1>2, <1>3, <1>6, <2>2 DEF Sound, Linked
  <1>8. r.activated \subseteq {r.focused} \cap Allocated
    BY <1>2, <1>4 DEF Sound
  <1>9. \A s \in Slots : r.border[s] = NULL <=> w.border[s] = NULL
    <2> TAKE s \in Slots
    <2>1. w.geo[s] \in Sizes /\ w.border[s] \in Borders \cup {NULL}
      BY <1>1
    <2>2. \A f \in BOOLEAN : UpdateBorder(w.border[s], w.geo[s], f) = NULL <=> w.border[s] = NULL
      BY <2>1, UpdateBorderType
    <2> QED
      BY <1>5, <2>2
  <1>10. ASSUME NEW s \in Slots \ X PROVE BorderSound(r, M, s)
    <2>1. BorderSound(w, M, s)
      BY DEF Sound
    <2>2. w.geo[s] \in Sizes /\ w.border[s] \in Borders \cup {NULL}
      BY <1>1
    <2>3. SUFFICES ASSUME r.border[s] # NULL
                   PROVE  /\ s \in M
                          /\ r.border[s].top = TopColour(s = r.focused)
                          /\ r.border[s].sides = SideColour(s = r.focused)
                          /\ r.geo[s] > 0 => r.border[s].size = r.geo[s]
      BY DEF BorderSound
    <2>4. w.border[s] # NULL /\ s \in M
      BY <1>9, <2>1, <2>3 DEF BorderSound
    <2>5. CASE s = t
      <3>1. r.border[s] = UpdateBorder(w.border[s], w.geo[s], TRUE) /\ s = r.focused
        BY <1>2, <1>5, <2>5
      <3>2. /\ r.border[s].size = w.geo[s] /\ r.border[s].top = "signal"
            /\ r.border[s].sides = "surface2"
        <4>1. w.border[s] \in Borders /\ w.geo[s] \in Sizes
          BY <2>2, <2>4
        <4>2. /\ UpdateBorder(w.border[s], w.geo[s], TRUE).size = w.geo[s]
              /\ UpdateBorder(w.border[s], w.geo[s], TRUE).top = "signal"
              /\ UpdateBorder(w.border[s], w.geo[s], TRUE).sides = "surface2"
          BY <4>1, NullAssumption DEF UpdateBorder, TopColour, SideColour
        <4> QED
          BY <3>1, <4>2
      <3>3. s \in M
        BY <2>4
      <3>4. r.geo[s] > 0 => r.border[s].size = r.geo[s]
        BY <1>2, <3>2
      <3>5. r.border[s].top = TopColour(s = r.focused)
        BY <3>1, <3>2 DEF TopColour
      <3>6. r.border[s].sides = SideColour(s = r.focused)
        BY <3>1, <3>2 DEF SideColour
      <3> QED
        BY <3>3, <3>4, <3>5, <3>6
    <2>6. CASE s # t /\ s = w.focused /\ s \in Allocated
      <3>1. r.border[s] = UpdateBorder(w.border[s], w.geo[s], FALSE) /\ s # r.focused
        BY <1>2, <1>5, <2>6
      <3>2. /\ r.border[s].size = w.geo[s] /\ r.border[s].top = "line"
            /\ r.border[s].sides = "line"
        <4>1. w.border[s] \in Borders /\ w.geo[s] \in Sizes
          BY <2>2, <2>4
        <4>2. /\ UpdateBorder(w.border[s], w.geo[s], FALSE).size = w.geo[s]
              /\ UpdateBorder(w.border[s], w.geo[s], FALSE).top = "line"
              /\ UpdateBorder(w.border[s], w.geo[s], FALSE).sides = "line"
          BY <4>1, NullAssumption DEF UpdateBorder, TopColour, SideColour
        <4> QED
          BY <3>1, <4>2
      <3>3. s \in M
        BY <2>4
      <3>4. r.geo[s] > 0 => r.border[s].size = r.geo[s]
        BY <1>2, <3>2
      <3>5. r.border[s].top = TopColour(s = r.focused)
        BY <3>1, <3>2 DEF TopColour
      <3>6. r.border[s].sides = SideColour(s = r.focused)
        BY <3>1, <3>2 DEF SideColour
      <3> QED
        BY <3>3, <3>4, <3>5, <3>6
    <2>7. CASE s # t /\ ~(s = w.focused /\ s \in Allocated)
      <3>1. r.border[s] = w.border[s] /\ s # r.focused /\ s # w.focused
        BY <1>2, <1>5, <2>4, <2>7
      <3> QED
        BY <1>2, <2>1, <2>4, <3>1 DEF BorderSound, TopColour, SideColour
    <2> QED
      BY <2>5, <2>6, <2>7
  <1>11. OnTop(r, Slots)
    BY <1>2, <1>6 DEF OnTop
  <1> QED
    BY <1>2, <1>7, <1>8, <1>9, <1>10, <1>11 DEF Sound, r

\* Clearing the focus keeps the record sound.
LEMMA ClearKeepsSound ==
  ASSUME NEW w, NEW M \in SUBSET Allocated, NEW X \in SUBSET Slots, Sound(w, M, X),
         w.focused # NULL
  PROVE  /\ Sound(FocusToplevel(w, NULL), M, X)
         /\ FocusToplevel(w, NULL).focused = NULL
PROOF
  <1> DEFINE r == FocusToplevel(w, NULL)
             d == Defocus(w)
  <1>1. /\ w \in WindowManager
        /\ w.border \in [Slots -> Borders \cup {NULL}] /\ w.geo \in [Slots -> Sizes]
    BY DEF Sound, WindowManager
  <1>2. /\ d \in WindowManager
        /\ d.focused = w.focused /\ d.toplevels = w.toplevels /\ d.geo = w.geo
        /\ d.left = w.left
        /\ d.keyboard = w.keyboard /\ d.kbdFocus = w.kbdFocus /\ d.stack = w.stack
        /\ d.activated = w.activated \ ({w.focused} \cap Allocated)
        /\ d.scheduled = w.scheduled \cup ({w.focused} \cap Allocated)
        /\ \A s \in Slots : d.border[s] =
             IF s = w.focused /\ s \in Allocated
               THEN UpdateBorder(w.border[s], w.geo[s], FALSE) ELSE w.border[s]
    BY <1>1, DefocusFields
  <1>3. r = [d EXCEPT !.focused = NULL, !.kbdFocus = NULL]
    BY DEF FocusToplevel
  <1> HIDE DEF d, r
  <1>4. r \in WindowManager
    <2>1. [d EXCEPT !.focused = NULL, !.kbdFocus = NULL] \in WindowManager
      BY <1>2 DEF WindowManager
    <2> QED
      BY <1>3, <2>1
  <1>5. /\ r.focused = NULL /\ r.kbdFocus = NULL /\ r.toplevels = w.toplevels
        /\ r.geo = w.geo
        /\ r.left = w.left /\ r.stack = w.stack /\ r.activated = d.activated
        /\ r.scheduled = d.scheduled /\ r.border = d.border
    BY <1>2, <1>3 DEF WindowManager
  <1>6. Linked(r)
    BY <1>2, <1>5 DEF Sound, Linked
  <1>7. r.activated \subseteq {r.focused} \cap Allocated
    BY <1>2, <1>5 DEF Sound
  <1>8. \A s \in Slots : r.border[s] = NULL <=> w.border[s] = NULL
    <2> TAKE s \in Slots
    <2>1. w.geo[s] \in Sizes /\ w.border[s] \in Borders \cup {NULL}
      BY <1>1
    <2>2. \A f \in BOOLEAN : UpdateBorder(w.border[s], w.geo[s], f) = NULL <=> w.border[s] = NULL
      BY <2>1, UpdateBorderType
    <2>3. r.border[s] = IF s = w.focused /\ s \in Allocated
                          THEN UpdateBorder(w.border[s], w.geo[s], FALSE) ELSE w.border[s]
      BY <1>2, <1>5
    <2> QED
      BY <2>2, <2>3
  <1>9. ASSUME NEW s \in Slots \ X PROVE BorderSound(r, M, s)
    <2>1. BorderSound(w, M, s)
      BY DEF Sound
    <2>2. w.geo[s] \in Sizes /\ w.border[s] \in Borders \cup {NULL} /\ s # NULL
      BY <1>1, NullAssumption
    <2>3. SUFFICES ASSUME r.border[s] # NULL
                   PROVE  /\ s \in M
                          /\ r.border[s].top = TopColour(s = r.focused)
                          /\ r.border[s].sides = SideColour(s = r.focused)
                          /\ r.geo[s] > 0 => r.border[s].size = r.geo[s]
      BY DEF BorderSound
    <2>4. w.border[s] # NULL /\ s \in M /\ s \in Allocated
      BY <1>8, <2>1, <2>3 DEF BorderSound
    <2>5. CASE s = w.focused
      <3>1. r.border[s] = UpdateBorder(w.border[s], w.geo[s], FALSE) /\ s # r.focused
        BY <1>2, <1>5, <2>2, <2>4, <2>5
      <3>2. w.border[s] \in Borders /\ w.geo[s] \in Sizes
        BY <2>2, <2>4
      <3>3. /\ UpdateBorder(w.border[s], w.geo[s], FALSE).size = w.geo[s]
            /\ UpdateBorder(w.border[s], w.geo[s], FALSE).top = "line"
            /\ UpdateBorder(w.border[s], w.geo[s], FALSE).sides = "line"
        BY <3>2, NullAssumption DEF UpdateBorder, TopColour, SideColour
      <3>4. r.geo[s] > 0 => r.border[s].size = r.geo[s]
        BY <1>5, <3>1, <3>3
      <3>5. r.border[s].top = TopColour(s = r.focused)
        BY <3>1, <3>3 DEF TopColour
      <3>6. r.border[s].sides = SideColour(s = r.focused)
        BY <3>1, <3>3 DEF SideColour
      <3> QED
        BY <2>4, <3>4, <3>5, <3>6
    <2>6. CASE s # w.focused
      <3>1. r.border[s] = w.border[s] /\ s # r.focused
        BY <1>2, <1>5, <2>2, <2>6
      <3> QED
        BY <1>5, <2>1, <2>4, <2>6, <3>1 DEF BorderSound, TopColour, SideColour
    <2> QED
      BY <2>5, <2>6
  <1> QED
    BY <1>4, <1>5, <1>6, <1>7, <1>8, <1>9 DEF Sound, r

\* The two together: any focus change keeps the record sound and puts the
\* window that gets the focus above the ones that were below the old one.
LEMMA FocusSound ==
  ASSUME NEW w, NEW M \in SUBSET Allocated, NEW X \in SUBSET Slots, Sound(w, M, X),
         NEW N \in SUBSET Slots, OnTop(w, N), NEW t \in Allocated \cup {NULL}
  PROVE  /\ Sound(FocusToplevel(w, t), M, X)
         /\ OnTop(FocusToplevel(w, t), N \cup ({t} \ {NULL}))
         /\ FocusToplevel(w, t).focused = t
PROOF
  <1>1. NULL \notin Allocated
    BY NullAssumption DEF Allocated
  <1>2. CASE t = w.focused
    <2>1. FocusToplevel(w, t) = w
      BY <1>2 DEF FocusToplevel
    <2>2. ~Above(w.stack, t, t)
      <3>1. w.stack \in Seq(Slots \cup Others) /\ IsInjective(w.stack)
        BY DEF Sound, Linked, WindowManager
      <3>2. Len(w.stack) \in Nat /\ DOMAIN w.stack = 1 .. Len(w.stack)
        BY <3>1
      <3> QED
        BY <3>1, <3>2 DEF IsInjective, Above
    <2>3. OnTop(w, N \cup ({t} \ {NULL}))
      BY <1>2, <2>2 DEF OnTop
    <2> QED
      BY <1>2, <2>1, <2>3
  <1>3. CASE t # w.focused /\ t = NULL
    <2>1. /\ Sound(FocusToplevel(w, NULL), M, X)
          /\ FocusToplevel(w, NULL).focused = NULL
      BY <1>3, ClearKeepsSound
    <2>2. OnTop(FocusToplevel(w, NULL), N \cup ({t} \ {NULL}))
      BY <1>1, <2>1 DEF OnTop
    <2> QED
      BY <1>3, <2>1, <2>2
  <1>4. CASE t # w.focused /\ t \in Allocated
    <2>1. /\ Sound(FocusToplevel(w, t), M, X)
          /\ OnTop(FocusToplevel(w, t), Slots)
          /\ FocusToplevel(w, t).focused = t
      BY <1>4, FocusKeepsSound
    <2>2. OnTop(FocusToplevel(w, t), N \cup ({t} \ {NULL}))
      BY <1>4, <2>1 DEF OnTop, Allocated
    <2> QED
      BY <2>1, <2>2
  <1> QED
    BY <1>2, <1>3, <1>4

\* The unmap handler finds an allocated toplevel other than t, or none.
LEMMA NextToplevelAllocated ==
  ASSUME NEW w, NEW M, NEW X, Sound(w, M, X), NEW t \in Slots
  PROVE  NextToplevel(w, t) \in (Allocated \ {t}) \cup {NULL}
PROOF
  <1> DEFINE others == Without(w.toplevels, t)
  <1>1. w.toplevels \in Seq(Slots) /\ IsInjective(w.toplevels)
        /\ ToSet(w.toplevels) = Allocated
    BY DEF Sound, Linked, WindowManager
  <1>2. others \in Seq(Slots) /\ ToSet(others) = Allocated \ {t}
    BY <1>1, WithoutProperties
  <1>3. NextToplevel(w, t) = IF others = << >> THEN NULL ELSE Head(others)
    BY DEF NextToplevel
  <1> HIDE DEF others
  <1>4. ASSUME others # << >> PROVE Head(others) \in ToSet(others)
    BY <1>2, <1>4 DEF ToSet
  <1> QED
    BY <1>2, <1>3, <1>4

\* Unmapping a toplevel takes its border and, if it had it, its focus.
LEMMA UnmapSound ==
  ASSUME NEW w, NEW M \in SUBSET Allocated, Sound(w, M, {}), OnTop(w, M), NEW t \in M
  PROVE  /\ Sound(UnmapHandler(w, t), M \ {t}, {})
         /\ OnTop(UnmapHandler(w, t), M)
         /\ UnmapHandler(w, t).focused # t
PROOF
  <1> DEFINE h == [w EXCEPT !.border[t] = NULL]
             n == NextToplevel(w, t)
  <1>1. t \in Slots /\ t \in Allocated /\ w \in WindowManager
    BY DEF Allocated, Sound
  <1>2. h \in WindowManager
    BY <1>1 DEF WindowManager
  <1>3. /\ h.focused = w.focused /\ h.toplevels = w.toplevels /\ h.geo = w.geo
        /\ h.left = w.left
        /\ h.kbdFocus = w.kbdFocus /\ h.stack = w.stack /\ h.activated = w.activated
        /\ h.scheduled = w.scheduled /\ h.border = [w.border EXCEPT ![t] = NULL]
        /\ w.border \in [Slots -> Borders \cup {NULL}]
    BY <1>1 DEF WindowManager
  <1>4. UnmapHandler(w, t) = IF w.focused = t THEN FocusToplevel(h, n) ELSE h
    BY DEF UnmapHandler
  <1> HIDE DEF h
  <1>5. Sound(h, M \ {t}, {})
    <2>1. ASSUME NEW s \in Slots PROVE BorderSound(h, M \ {t}, s)
      <3>1. BorderSound(w, M, s)
        BY DEF Sound
      <3>2. CASE s = t
        BY <1>1, <1>3, <3>2 DEF BorderSound
      <3>3. CASE s # t
        <4>1. h.border[s] = w.border[s]
          BY <1>3, <3>3
        <4> QED
          BY <1>3, <3>1, <3>3, <4>1 DEF BorderSound
      <3> QED
        BY <3>2, <3>3
    <2>2. Linked(h)
      BY <1>3 DEF Sound, Linked
    <2>3. h.activated \subseteq {h.focused} \cap Allocated
      BY <1>3 DEF Sound
    <2> QED
      BY <1>2, <2>1, <2>2, <2>3 DEF Sound
  <1>6. OnTop(h, M)
    BY <1>3 DEF OnTop
  <1>7. n \in (Allocated \ {t}) \cup {NULL} /\ t # NULL
    BY <1>1, NextToplevelAllocated, NullAssumption
  <1> HIDE DEF n
  <1>8. h.border[t] = NULL
    BY <1>1, <1>3
  <1>9. CASE w.focused # t
    BY <1>3, <1>4, <1>5, <1>6, <1>8, <1>9
  <1>10. CASE w.focused = t
    <2> DEFINE r == FocusToplevel(h, n)
    <2>1. /\ M \in SUBSET Slots /\ M \ {t} \in SUBSET Allocated
          /\ {} \in SUBSET Slots /\ n \in Allocated \cup {NULL}
      BY <1>7 DEF Allocated
    <2>2. /\ Sound(r, M \ {t}, {}) /\ OnTop(r, M \cup ({n} \ {NULL})) /\ r.focused = n
      BY <1>5, <1>6, <2>1, FocusSound
    <2> HIDE DEF r
    <2>3. OnTop(r, M)
      BY <2>2 DEF OnTop
    <2>4. r.focused # t
      BY <1>7, <2>2
    <2> QED
      BY <1>4, <1>10, <2>2, <2>3, <2>4 DEF r
  <1> QED
    BY <1>9, <1>10

\* The commit handler makes the border of t sound, if an empty t has it sound.
LEMMA CommitSound ==
  ASSUME NEW w, NEW M \in SUBSET Allocated, NEW t \in M, Sound(w, M, {t}),
         w.geo[t] = 0 => BorderSound(w, M, t)
  PROVE  /\ Sound(CommitHandler(w, t), M, {})
         /\ CommitHandler(w, t).focused = w.focused
         /\ CommitHandler(w, t).stack = w.stack
PROOF
  <1> DEFINE r == CommitHandler(w, t)
  <1>1. /\ w \in WindowManager /\ t \in Slots
        /\ w.border \in [Slots -> Borders \cup {NULL}] /\ w.geo \in [Slots -> Sizes]
    BY DEF Sound, WindowManager, Allocated
  <1>2. CASE w.border[t] = NULL \/ w.geo[t] = 0
    <2>1. r = w
      BY <1>2 DEF CommitHandler
    <2>2. BorderSound(w, M, t)
      BY <1>2 DEF BorderSound
    <2>3. \A s \in Slots : BorderSound(w, M, s)
      BY <2>2 DEF Sound
    <2> QED
      BY <2>1, <2>3 DEF Sound
  <1>3. CASE w.border[t] # NULL /\ w.geo[t] # 0
    <2>1. PICK f \in BOOLEAN : f = (w.focused = t)
      OBVIOUS
    <2> DEFINE u == UpdateBorder(w.border[t], w.geo[t], f)
    <2>2. r = [w EXCEPT !.border[t] = u]
      BY <1>3, <2>1 DEF CommitHandler
    <2>3. u \in Borders \cup {NULL}
      BY <1>1, <2>1, UpdateBorderType
    <2>4. u.size = w.geo[t] /\ u.top = TopColour(f) /\ u.sides = SideColour(f)
      BY <1>3 DEF UpdateBorder
    <2> HIDE DEF u, r
    <2>5. r \in WindowManager
      <3>1. [w EXCEPT !.border[t] = u] \in WindowManager
        BY <1>1, <2>3 DEF WindowManager
      <3> QED
        BY <2>2, <3>1
    <2>6. /\ r.focused = w.focused /\ r.toplevels = w.toplevels /\ r.geo = w.geo
          /\ r.left = w.left
          /\ r.kbdFocus = w.kbdFocus /\ r.stack = w.stack /\ r.activated = w.activated
          /\ r.scheduled = w.scheduled /\ r.border = [w.border EXCEPT ![t] = u]
      BY <1>1, <2>2 DEF WindowManager
    <2>7. Linked(r)
      BY <2>6 DEF Sound, Linked
    <2>8. r.activated \subseteq {r.focused} \cap Allocated
      BY <2>6 DEF Sound
    <2>9. ASSUME NEW s \in Slots PROVE BorderSound(r, M, s)
      <3>1. CASE s # t
        <4>1. BorderSound(w, M, s)
          BY <3>1 DEF Sound
        <4>2. r.border[s] = w.border[s]
          BY <1>1, <2>6, <3>1
        <4> QED
          BY <2>6, <4>1, <4>2 DEF BorderSound
      <3>2. CASE s = t
        <4>1. r.border[s] = u
          BY <1>1, <2>6, <3>2
        <4>2. r.border[s].size = r.geo[s]
          BY <2>4, <2>6, <3>2, <4>1
        <4>3. CASE w.focused = t
          <5>1. u.top = "signal" /\ u.sides = "surface2"
            BY <2>1, <2>4, <4>3 DEF TopColour, SideColour
          <5>2. r.border[s].top = TopColour(s = r.focused)
            BY <2>6, <3>2, <4>1, <4>3, <5>1 DEF TopColour
          <5>3. r.border[s].sides = SideColour(s = r.focused)
            BY <2>6, <3>2, <4>1, <4>3, <5>1 DEF SideColour
          <5> QED
            BY <3>2, <4>2, <5>2, <5>3 DEF BorderSound
        <4>4. CASE w.focused # t
          <5>1. u.top = "line" /\ u.sides = "line"
            BY <2>1, <2>4, <4>4 DEF TopColour, SideColour
          <5>2. r.border[s].top = TopColour(s = r.focused)
            BY <2>6, <3>2, <4>1, <4>4, <5>1 DEF TopColour
          <5>3. r.border[s].sides = SideColour(s = r.focused)
            BY <2>6, <3>2, <4>1, <4>4, <5>1 DEF SideColour
          <5> QED
            BY <3>2, <4>2, <5>2, <5>3 DEF BorderSound
        <4> QED
          BY <4>3, <4>4
      <3> QED
        BY <3>1, <3>2
    <2> QED
      BY <2>5, <2>6, <2>7, <2>8, <2>9 DEF Sound, r
  <1> QED
    BY <1>2, <1>3

\* A commit of another size by a mapped toplevel.
LEMMA SizeSound ==
  ASSUME NEW w, NEW M \in SUBSET Allocated, Sound(w, M, {}), OnTop(w, M),
         NEW t \in M, NEW size \in Sizes
  PROVE  LET r == CommitHandler([w EXCEPT !.geo[t] = size], t)
         IN Sound(r, M, {}) /\ OnTop(r, M)
PROOF
  <1> DEFINE g == [w EXCEPT !.geo[t] = size]
             r == CommitHandler(g, t)
  <1>1. /\ w \in WindowManager /\ t \in Slots
        /\ w.border \in [Slots -> Borders \cup {NULL}] /\ w.geo \in [Slots -> Sizes]
    BY DEF Sound, WindowManager, Allocated
  <1>2. g \in WindowManager
    BY <1>1 DEF WindowManager
  <1>3. /\ g.focused = w.focused /\ g.toplevels = w.toplevels
        /\ g.geo = [w.geo EXCEPT ![t] = size] /\ g.left = w.left
        /\ g.kbdFocus = w.kbdFocus /\ g.stack = w.stack /\ g.activated = w.activated
        /\ g.scheduled = w.scheduled /\ g.border = w.border
    BY <1>1 DEF WindowManager
  <1> HIDE DEF g
  <1>4. ASSUME NEW s \in Slots \ {t} PROVE BorderSound(g, M, s)
    <2>1. BorderSound(w, M, s)
      BY DEF Sound
    <2>2. g.geo[s] = w.geo[s]
      BY <1>1, <1>3
    <2> QED
      BY <1>3, <2>1, <2>2 DEF BorderSound
  <1>5. g.geo[t] = 0 => BorderSound(g, M, t)
    <2>1. BorderSound(w, M, t)
      BY <1>1 DEF Sound
    <2> QED
      BY <1>3, <2>1 DEF BorderSound
  <1>6. Linked(g) /\ g.activated \subseteq {g.focused} \cap Allocated
    BY <1>3 DEF Sound, Linked
  <1>7. Sound(g, M, {t})
    BY <1>2, <1>4, <1>6 DEF Sound
  <1>8. Sound(r, M, {}) /\ r.focused = g.focused /\ r.stack = g.stack
    BY <1>5, <1>7, CommitSound
  <1>9. OnTop(r, M)
    BY <1>3, <1>8 DEF OnTop
  <1> QED
    BY <1>8, <1>9 DEF g

\* The first buffer: the toplevel is mapped, gets its border and the focus.
LEMMA MapSound ==
  ASSUME NEW w, NEW M \in SUBSET Allocated, Sound(w, M, {}), OnTop(w, M),
         NEW t \in Allocated, NEW size \in Sizes, NEW ok \in BOOLEAN
  PROVE  LET r == CommitHandler(MapHandler([w EXCEPT !.geo[t] = size], t, ok), t)
         IN Sound(r, M \cup {t}, {}) /\ OnTop(r, M \cup {t})
PROOF
  <1> DEFINE N == M \cup {t}
             g == [w EXCEPT !.geo[t] = size]
             b == IF g.geo[t] > 0 /\ ok THEN CreateBorder(g.geo[t], TRUE) ELSE NULL
             h == [g EXCEPT !.border[t] = b]
             f == FocusToplevel(h, t)
             r == CommitHandler(f, t)
  <1>1. /\ w \in WindowManager /\ t \in Slots /\ t # NULL
        /\ w.border \in [Slots -> Borders \cup {NULL}] /\ w.geo \in [Slots -> Sizes]
    BY NullAssumption DEF Sound, WindowManager, Allocated
  <1>2. g \in WindowManager
    BY <1>1 DEF WindowManager
  <1>3. /\ g.focused = w.focused /\ g.toplevels = w.toplevels
        /\ g.geo = [w.geo EXCEPT ![t] = size] /\ g.left = w.left
        /\ g.kbdFocus = w.kbdFocus /\ g.stack = w.stack /\ g.activated = w.activated
        /\ g.scheduled = w.scheduled /\ g.border = w.border
    BY <1>1 DEF WindowManager
  <1>4. MapHandler(g, t, ok) = f
    BY DEF MapHandler
  <1> HIDE DEF g
  <1>5. g.geo[t] = size /\ b \in Borders \cup {NULL} /\ (b # NULL => size > 0)
    BY <1>1, <1>3 DEF CreateBorder, TopColour, Borders, Tops, Sides
  <1> HIDE DEF b
  <1>6. h \in WindowManager
    BY <1>1, <1>2, <1>5 DEF WindowManager
  <1>7. /\ h.focused = g.focused /\ h.toplevels = g.toplevels /\ h.geo = g.geo
        /\ h.left = g.left
        /\ h.kbdFocus = g.kbdFocus /\ h.stack = g.stack /\ h.activated = g.activated
        /\ h.scheduled = g.scheduled /\ h.border = [g.border EXCEPT ![t] = b]
    BY <1>2 DEF WindowManager
  <1> HIDE DEF h
  <1>8. h.border[t] = b /\ h.geo[t] = size
    BY <1>1, <1>3, <1>5, <1>7
  <1>9. N \in SUBSET Allocated /\ t \in N /\ {t} \in SUBSET Slots /\ M \in SUBSET Slots
    BY <1>1 DEF Allocated
  <1>10. ASSUME NEW s \in Slots \ {t} PROVE BorderSound(h, N, s)
    <2>1. BorderSound(w, M, s)
      BY DEF Sound
    <2>2. h.geo[s] = w.geo[s] /\ h.border[s] = w.border[s] /\ h.focused = w.focused
      BY <1>1, <1>3, <1>7
    <2> QED
      BY <2>1, <2>2 DEF BorderSound
  <1>11. Linked(h) /\ h.activated \subseteq {h.focused} \cap Allocated
    BY <1>3, <1>7 DEF Sound, Linked
  <1>12. Sound(h, N, {t})
    BY <1>6, <1>10, <1>11 DEF Sound
  <1>13. OnTop(h, M)
    BY <1>3, <1>7 DEF OnTop
  <1>14. /\ Sound(f, N, {t}) /\ OnTop(f, M \cup ({t} \ {NULL})) /\ f.focused = t
    BY <1>9, <1>12, <1>13, FocusSound
  <1>15. f.geo = h.geo /\ f.left = h.left /\ (f.border[t] # NULL => h.border[t] # NULL)
    <2>1. CASE t = h.focused
      BY <2>1 DEF FocusToplevel
    <2>2. CASE t # h.focused
      <3>1. IsInjective(h.stack)
        BY <1>11 DEF Linked
      <3>2. FocusMoved(h, t, f)
        BY <1>1, <1>6, <2>2, <3>1, FocusChange
      <3>3. f.geo = h.geo /\ f.left = h.left /\ f.border[t] = UpdateBorder(h.border[t], h.geo[t], TRUE)
        BY <1>1, <3>2 DEF FocusMoved
      <3> QED
        BY <3>3 DEF UpdateBorder
    <2> QED
      BY <2>1, <2>2
  <1> HIDE DEF f
  <1>16. f.geo[t] = 0 => BorderSound(f, N, t)
    BY <1>5, <1>8, <1>15 DEF BorderSound
  <1> HIDE DEF N
  <1>17. Sound(r, N, {}) /\ r.focused = f.focused /\ r.stack = f.stack
    BY <1>9, <1>14, <1>16, CommitSound
  <1>18. OnTop(r, N)
    <2>1. OnTop(f, N)
      BY <1>1, <1>14 DEF N
    <2> QED
      BY <1>17, <2>1 DEF OnTop
  <1> QED
    BY <1>4, <1>17, <1>18 DEF g, N

-----------------------------------------------------------------------------
(* The inductive invariant *)

IInv ==
  /\ life \in [Slots -> Lives]
  /\ status \in {"running", "terminated", "crashed"}
  /\ Sound(wm, Mapped, {})
  /\ OnTop(wm, Mapped)

\* A step that leaves the heap alone keeps IInv if its record is sound.
LEMMA Carry ==
  ASSUME NEW r, NEW M, Sound(r, M, {}), OnTop(r, M), wm' = r,
         Allocated' = Allocated, Mapped' = M
  PROVE  (Sound(wm, Mapped, {}) /\ OnTop(wm, Mapped))'
PROOF
  <1>1. Linked(wm)'
    BY DEF Sound, Linked
  <1>2. (\A t \in Slots : BorderSound(wm, Mapped, t))'
    <2>1. ASSUME NEW t \in Slots PROVE BorderSound(wm, Mapped, t)'
      <3>1. BorderSound(r, M, t)
        BY DEF Sound
      <3> QED
        BY <3>1 DEF BorderSound
    <2> QED
      BY <2>1
  <1>3. OnTop(wm, Mapped)'
    BY DEF OnTop
  <1> QED
    BY <1>1, <1>2, <1>3 DEF Sound

\* A record that differs from a sound one in the scheduled configures and
\* the keyboard alone is sound.
LEMMA OtherFields ==
  ASSUME NEW w, NEW M, Sound(w, M, {}), OnTop(w, M), NEW r \in WindowManager,
         r.focused = w.focused, r.toplevels = w.toplevels, r.geo = w.geo /\ r.left = w.left,
         r.kbdFocus = w.kbdFocus, r.stack = w.stack, r.activated = w.activated,
         r.border = w.border, r.scheduled \subseteq Allocated
  PROVE  Sound(r, M, {}) /\ OnTop(r, M)
PROOF
  <1>1. Linked(r)
    BY DEF Sound, Linked
  <1>2. ASSUME NEW t \in Slots PROVE BorderSound(r, M, t)
    <2>1. BorderSound(w, M, t)
      BY DEF Sound
    <2> QED
      BY <2>1 DEF BorderSound
  <1>3. OnTop(r, M)
    BY DEF OnTop
  <1> QED
    BY <1>1, <1>2, <1>3 DEF Sound

\* A step that only schedules or sends configures keeps the record sound.
LEMMA ScheduledStep ==
  ASSUME IInv, NEW S \in SUBSET Slots, S \subseteq Allocated,
         wm' = [wm EXCEPT !.scheduled = S], Allocated' = Allocated, Mapped' = Mapped
  PROVE  (Sound(wm, Mapped, {}) /\ OnTop(wm, Mapped))'
PROOF
  <1> DEFINE r == [wm EXCEPT !.scheduled = S]
  <1>1. wm \in WindowManager
    BY DEF IInv, Sound
  <1>2. r \in WindowManager
    BY <1>1 DEF WindowManager
  <1>3. /\ r.focused = wm.focused /\ r.toplevels = wm.toplevels /\ r.geo = wm.geo
        /\ r.left = wm.left
        /\ r.kbdFocus = wm.kbdFocus /\ r.stack = wm.stack /\ r.activated = wm.activated
        /\ r.border = wm.border /\ r.scheduled = S
    BY <1>1 DEF WindowManager
  <1>4. wm' = r
    OBVIOUS
  <1> HIDE DEF r
  <1>5. Sound(r, Mapped, {}) /\ OnTop(r, Mapped)
    BY <1>2, <1>3, OtherFields DEF IInv
  <1> QED
    BY <1>4, <1>5, Carry

\* The empty server satisfies the invariant.
LEMMA InitIInv == Init => IInv
PROOF
  <1> SUFFICES ASSUME Init PROVE IInv
    OBVIOUS
  <1>1. wm = [toplevels |-> << >>, focused |-> NULL,
           border |-> [t \in Slots |-> NULL], geo |-> [t \in Slots |-> 0],
           stack |-> << >>, activated |-> {}, scheduled |-> {}, left |-> {},
           keyboard |-> NULL, kbdFocus |-> NULL]
    BY DEF Init
  <1>2. wm \in WindowManager
    BY <1>1, SizesAssumption DEF WindowManager
  <1>3. Allocated = {} /\ life \in [Slots -> Lives]
    BY DEF Init, Allocated, Lives
  <1>4. Linked(wm)
    <2>1. ToSet(<< >>) = {} /\ IsInjective(<< >>)
      BY DEF ToSet, IsInjective
    <2> QED
      BY <1>1, <1>3, <2>1 DEF Linked
  <1>5. \A t \in Slots : BorderSound(wm, Mapped, t)
    BY <1>1 DEF BorderSound
  <1>6. OnTop(wm, Mapped)
    BY <1>3 DEF OnTop
  <1>7. Sound(wm, Mapped, {})
    BY <1>1, <1>2, <1>4, <1>5 DEF Sound
  <1> QED
    BY <1>3, <1>6, <1>7 DEF IInv, Init

\* What Goto does to the sets of allocated and of mapped toplevels.
LEMMA GotoSets ==
  ASSUME life \in [Slots -> Lives], NEW t \in Slots, NEW l \in Lives, Goto(t, l)
  PROVE  /\ life' \in [Slots -> Lives]
         /\ Allocated' = IF l = "free" THEN Allocated \ {t} ELSE Allocated \cup {t}
         /\ Mapped' = IF l = "mapped" THEN Mapped \cup {t} ELSE Mapped \ {t}
PROOF
  <1>1. life' = [life EXCEPT ![t] = l]
    BY DEF Goto
  <1>2. \A s \in Slots : life'[s] = IF s = t THEN l ELSE life[s]
    BY <1>1
  <1>3. Allocated' = IF l = "free" THEN Allocated \ {t} ELSE Allocated \cup {t}
    BY <1>2 DEF Allocated
  <1>4. Mapped' = IF l = "mapped" THEN Mapped \cup {t} ELSE Mapped \ {t}
    BY <1>2 DEF Mapped
  <1> QED
    BY <1>1, <1>3, <1>4

\* A mapped toplevel is allocated.
LEMMA MappedAllocated == Mapped \in SUBSET Allocated
BY DEF Mapped, Allocated

\* A new toplevel goes to the head of the list and to the top of the scene;
\* it may take the address focused_toplevel still holds.
LEMMA NewToplevelStep ==
  ASSUME IInv, NEW t \in Slots, NewToplevel(t) PROVE IInv'
PROOF
  <1> DEFINE l == Insert(wm.toplevels, t)
             k == Append(wm.stack, t)
  <1>1. /\ wm \in WindowManager /\ wm.toplevels \in Seq(Slots)
        /\ wm.stack \in Seq(Slots \cup Others)
        /\ IsInjective(wm.toplevels) /\ IsInjective(wm.stack)
        /\ ToSet(wm.toplevels) = Allocated /\ ToSet(wm.stack) \ Others = Allocated
    BY DEF IInv, Sound, Linked, WindowManager
  <1>2. t \notin Allocated /\ t \notin Mapped /\ t \notin Others
    BY SceneAssumption DEF NewToplevel, Allocated, Mapped
  <1>3. /\ life' \in [Slots -> Lives] /\ Allocated' = Allocated \cup {t} /\ Mapped' = Mapped
    BY <1>2, GotoSets DEF NewToplevel, IInv, Lives
  <1>4. t \notin ToSet(wm.toplevels) /\ t \notin ToSet(wm.stack)
    BY <1>1, <1>2
  <1>5. /\ l \in Seq(Slots) /\ ToSet(l) = Allocated \cup {t} /\ IsInjective(l)
    BY <1>1, <1>4, InsertProperties
  <1>6. /\ k \in Seq(Slots \cup Others) /\ IsInjective(k)
        /\ ToSet(k) = ToSet(wm.stack) \cup {t}
        /\ \A a, b : Above(k, a, b) => a = t \/ Above(wm.stack, a, b)
    BY <1>1, <1>4, OnTopProperties
  <1>7. wm' = [wm EXCEPT !.toplevels = l, !.stack = k]
    BY DEF NewToplevel
  <1> HIDE DEF l, k
  <1>8. wm' \in WindowManager
    <2>1. [wm EXCEPT !.toplevels = l, !.stack = k] \in WindowManager
      BY <1>1, <1>5, <1>6 DEF WindowManager
    <2> QED
      BY <1>7, <2>1
  <1>9. /\ wm'.focused = wm.focused /\ wm'.toplevels = l /\ wm'.geo = wm.geo
        /\ wm'.left = wm.left
        /\ wm'.kbdFocus = wm.kbdFocus /\ wm'.stack = k /\ wm'.activated = wm.activated
        /\ wm'.scheduled = wm.scheduled /\ wm'.border = wm.border
    BY <1>1, <1>7 DEF WindowManager
  <1>10. Linked(wm)'
    BY <1>1, <1>2, <1>3, <1>5, <1>6, <1>9 DEF IInv, Sound, Linked
  <1>11. ASSUME NEW s \in Slots PROVE BorderSound(wm, Mapped, s)'
    <2>1. BorderSound(wm, Mapped, s)
      BY DEF IInv, Sound
    <2> QED
      BY <1>3, <1>9, <2>1 DEF BorderSound
  <1>12. (wm.activated \subseteq {wm.focused} \cap Allocated)'
    BY <1>3, <1>9 DEF IInv, Sound
  <1>13. OnTop(wm, Mapped)'
    <2> SUFFICES ASSUME wm.focused \in Allocated \cup {t}, NEW u \in Mapped
                 PROVE  ~Above(k, u, wm.focused)
      BY <1>3, <1>9 DEF OnTop
    <2>1. u # t
      BY <1>2
    <2>2. CASE wm.focused \in Allocated
      BY <1>6, <2>1, <2>2 DEF IInv, OnTop
    <2>3. CASE wm.focused = t
      <3>1. ~Above(wm.stack, u, t)
        BY <1>4 DEF Above, ToSet
      <3> QED
        BY <1>6, <2>1, <2>3, <3>1
    <2> QED
      BY <2>2, <2>3
  <1>14. Sound(wm, Mapped, {})'
    BY <1>8, <1>10, <1>11, <1>12 DEF Sound
  <1> QED
    BY <1>3, <1>13, <1>14 DEF NewToplevel, IInv

\* The initial commit schedules the first configure.
LEMMA InitialCommitStep ==
  ASSUME IInv, NEW t \in Slots, InitialCommit(t) PROVE IInv'
PROOF
  <1> DEFINE S == wm.scheduled \cup {t}
  <1>1. t \in Allocated /\ t \notin Mapped
    BY DEF InitialCommit, Allocated, Mapped
  <1>2. life' \in [Slots -> Lives] /\ Allocated' = Allocated /\ Mapped' = Mapped
    BY <1>1, GotoSets DEF InitialCommit, IInv, Lives
  <1>3. S \in SUBSET Slots /\ S \subseteq Allocated
    BY <1>1 DEF IInv, Sound, Linked, WindowManager
  <1>4. wm' = [wm EXCEPT !.scheduled = S]
    BY DEF InitialCommit
  <1> HIDE DEF S
  <1>5. (Sound(wm, Mapped, {}) /\ OnTop(wm, Mapped))'
    BY <1>2, <1>3, <1>4, ScheduledStep
  <1> QED
    BY <1>2, <1>5 DEF InitialCommit, IInv

\* Sending a configure changes the protocol state of its window at most.
LEMMA SendConfigureStep ==
  ASSUME IInv, NEW t \in Slots, SendConfigure(t) PROVE IInv'
PROOF
  <1> DEFINE S == wm.scheduled \ {t}
             l == IF life[t] = "initial" THEN "configured" ELSE life[t]
  <1>1. t \in Allocated /\ l \in Lives /\ l # "free" /\ (l = "mapped" <=> t \in Mapped)
    BY DEF SendConfigure, Allocated, Mapped, IInv, Sound, Linked, Lives
  <1>2. Goto(t, l)
    BY DEF SendConfigure
  <1> HIDE DEF l
  <1>3. life' \in [Slots -> Lives] /\ Allocated' = Allocated /\ Mapped' = Mapped
    <2>1. life \in [Slots -> Lives]
      BY DEF IInv
    <2>2. /\ life' \in [Slots -> Lives]
          /\ Allocated' = IF l = "free" THEN Allocated \ {t} ELSE Allocated \cup {t}
          /\ Mapped' = IF l = "mapped" THEN Mapped \cup {t} ELSE Mapped \ {t}
      BY <1>1, <1>2, <2>1, GotoSets
    <2>3. Allocated' = Allocated
      BY <1>1, <2>2
    <2>4. Mapped' = Mapped
      BY <1>1, <2>2
    <2> QED
      BY <2>2, <2>3, <2>4
  <1>4. S \in SUBSET Slots /\ S \subseteq Allocated
    BY DEF IInv, Sound, Linked, WindowManager
  <1>5. wm' = [wm EXCEPT !.scheduled = S]
    BY DEF SendConfigure
  <1> HIDE DEF S
  <1>6. (Sound(wm, Mapped, {}) /\ OnTop(wm, Mapped))'
    BY <1>3, <1>4, <1>5, ScheduledStep
  <1> QED
    BY <1>3, <1>6 DEF SendConfigure, IInv

\* Denied requests and decorations only schedule a configure.
LEMMA ScheduleConfigureStep ==
  ASSUME IInv, NEW t \in Allocated, ScheduleConfigure(t) PROVE IInv'
PROOF
  <1> DEFINE S == wm.scheduled \cup {t}
  <1>1. S \in SUBSET Slots /\ S \subseteq Allocated
    BY DEF IInv, Sound, Linked, WindowManager, Allocated
  <1>2. wm' = [wm EXCEPT !.scheduled = S] /\ life' = life /\ status' = status
    BY DEF ScheduleConfigure
  <1> HIDE DEF S
  <1>3. Allocated' = Allocated /\ Mapped' = Mapped
    BY <1>2 DEF Allocated, Mapped
  <1>4. (Sound(wm, Mapped, {}) /\ OnTop(wm, Mapped))'
    BY <1>1, <1>2, <1>3, ScheduledStep
  <1> QED
    BY <1>2, <1>4 DEF IInv

\* Mapping a window: MapSound, and the process may die on a dangling focus.
LEMMA MapCommitStep ==
  ASSUME IInv, NEW t \in Slots, NEW size \in Sizes, NEW ok \in BOOLEAN, MapCommit(t, size, ok)
  PROVE  IInv'
PROOF
  <1> DEFINE r == CommitHandler(MapHandler([wm EXCEPT !.geo[t] = size], t, ok), t)
  <1>1. t \in Allocated
    BY DEF MapCommit, Allocated
  <1>2. life' \in [Slots -> Lives] /\ Allocated' = Allocated /\ Mapped' = Mapped \cup {t}
    BY <1>1, GotoSets DEF MapCommit, IInv, Lives
  <1>3. Sound(r, Mapped \cup {t}, {}) /\ OnTop(r, Mapped \cup {t})
    BY <1>1, MapSound, MappedAllocated DEF IInv
  <1>4. wm' = r
    BY DEF MapCommit
  <1> HIDE DEF r
  <1>5. (Sound(wm, Mapped, {}) /\ OnTop(wm, Mapped))'
    BY <1>2, <1>3, <1>4, Carry
  <1>6. status' \in {"running", "terminated", "crashed"}
    BY DEF MapCommit, Survives, IInv
  <1> QED
    BY <1>2, <1>5, <1>6 DEF IInv

\* A resize of a mapped window: SizeSound.
LEMMA SizeCommitStep ==
  ASSUME IInv, NEW t \in Slots, NEW size \in Sizes, SizeCommit(t, size)
  PROVE  IInv'
PROOF
  <1> DEFINE r == CommitHandler([wm EXCEPT !.geo[t] = size], t)
  <1>1. t \in Mapped
    BY DEF SizeCommit, Mapped
  <1>2. Sound(r, Mapped, {}) /\ OnTop(r, Mapped)
    BY <1>1, SizeSound, MappedAllocated DEF IInv
  <1>3. wm' = r /\ life' = life /\ status' = status
    BY DEF SizeCommit
  <1> HIDE DEF r
  <1>4. Allocated' = Allocated /\ Mapped' = Mapped
    BY <1>3 DEF Allocated, Mapped
  <1>5. (Sound(wm, Mapped, {}) /\ OnTop(wm, Mapped))'
    BY <1>2, <1>3, <1>4, Carry
  <1> QED
    BY <1>3, <1>5 DEF IInv

\* A focus request of the cursor: FocusSound.
LEMMA FocusRequestStep ==
  ASSUME IInv, NEW t \in Slots \cup {NULL}, FocusRequest(t) PROVE IInv'
PROOF
  <1> DEFINE r == FocusToplevel(wm, t)
  <1>1. t \in Allocated \cup {NULL} /\ Mapped \in SUBSET Slots /\ {} \in SUBSET Slots
    BY DEF FocusRequest, Mapped, Allocated
  <1>2. Sound(r, Mapped, {}) /\ OnTop(r, Mapped \cup ({t} \ {NULL}))
    BY <1>1, FocusSound, MappedAllocated DEF IInv
  <1>3. wm' = r /\ life' = life
    BY DEF FocusRequest
  <1> HIDE DEF r
  <1>4. OnTop(r, Mapped)
    BY <1>2 DEF OnTop
  <1>5. Allocated' = Allocated /\ Mapped' = Mapped
    BY <1>3 DEF Allocated, Mapped
  <1>6. (Sound(wm, Mapped, {}) /\ OnTop(wm, Mapped))'
    BY <1>2, <1>3, <1>4, <1>5, Carry
  <1>7. status' \in {"running", "terminated", "crashed"}
    BY DEF FocusRequest, Survives, IInv
  <1> QED
    BY <1>3, <1>6, <1>7 DEF IInv

\* Unmapping: UnmapSound, then the reset of the surface.
LEMMA UnmapCommitStep ==
  ASSUME IInv, NEW t \in Slots, UnmapCommit(t) PROVE IInv'
PROOF
  <1> DEFINE u == UnmapHandler(wm, t)
             r == SurfaceReset(u, t)
             M == Mapped \ {t}
  <1>1. t \in Mapped /\ t \in Allocated
    BY DEF UnmapCommit, Mapped, Allocated
  <1>2. life' \in [Slots -> Lives] /\ Allocated' = Allocated /\ Mapped' = M
    BY <1>1, GotoSets DEF UnmapCommit, IInv, Lives
  <1>3. Sound(u, M, {}) /\ OnTop(u, Mapped) /\ u.focused # t
    BY <1>1, UnmapSound, MappedAllocated DEF IInv
  <1>4. wm' = r
    BY DEF UnmapCommit
  <1> HIDE DEF u
  <1>5. u \in WindowManager /\ u.geo \in [Slots -> Sizes]
    BY <1>3 DEF Sound, WindowManager
  <1>6. r \in WindowManager
    <2>1. [u EXCEPT !.scheduled = @ \ {t}, !.geo[t] = 0] \in WindowManager
      BY <1>5, SizesAssumption DEF WindowManager
    <2> QED
      BY <2>1 DEF SurfaceReset
  <1>7. /\ r.focused = u.focused /\ r.toplevels = u.toplevels
        /\ r.geo = [u.geo EXCEPT ![t] = 0] /\ r.scheduled = u.scheduled \ {t}
        /\ r.left = u.left
        /\ r.kbdFocus = u.kbdFocus /\ r.stack = u.stack /\ r.activated = u.activated
        /\ r.border = u.border
    BY <1>5 DEF SurfaceReset, WindowManager
  <1> HIDE DEF r
  <1>8. ASSUME NEW s \in Slots PROVE BorderSound(r, M, s)
    <2>1. BorderSound(u, M, s)
      BY <1>3 DEF Sound
    <2>2. s # t => r.geo[s] = u.geo[s]
      BY <1>5, <1>7
    <2> QED
      BY <1>7, <2>1, <2>2 DEF BorderSound
  <1>9. Linked(r) /\ r.activated \subseteq {r.focused} \cap Allocated
    BY <1>3, <1>7 DEF Sound, Linked
  <1>10. Sound(r, M, {})
    BY <1>6, <1>8, <1>9 DEF Sound
  <1>11. OnTop(r, M)
    BY <1>3, <1>7 DEF OnTop
  <1> HIDE DEF M
  <1>12. (Sound(wm, Mapped, {}) /\ OnTop(wm, Mapped))'
    BY <1>2, <1>4, <1>10, <1>11, Carry
  <1> QED
    BY <1>2, <1>12 DEF UnmapCommit, IInv

\* A toplevel goes, unmapped first where it is mapped, with its surface (f is
\* NULL) or without it (f is what is left): everything that reached the slot
\* forgets it, but for focused_toplevel.
LEMMA GoneStep ==
  ASSUME IInv, NEW t \in Slots, life[t] # "free", Goto(t, "free"),
         status' \in {"running", "terminated", "crashed"}, NEW f \in Remnants \cup {NULL},
         wm' = IF f = NULL THEN SurfaceGone(Destroyed(t), t) ELSE SurfaceStays(Destroyed(t), t, f)
  PROVE  IInv'
PROOF
  <1> DEFINE u == IF life[t] = "mapped" THEN UnmapHandler(wm, t) ELSE wm
             d == DestroyHandler(u, t)
             r == IF f = NULL THEN SurfaceGone(d, t) ELSE SurfaceStays(d, t, f)
             M == Mapped \ {t}
             l == Without(u.toplevels, t)
             k == Without(u.stack, t)
             L == u.left \cup ({f} \ {NULL})
             F == IF u.kbdFocus = t THEN f ELSE u.kbdFocus
  <1>1. t \in Allocated
    BY DEF Allocated
  <1>2. life' \in [Slots -> Lives] /\ Allocated' = Allocated \ {t} /\ Mapped' = M
    BY GotoSets DEF IInv, Lives
  <1>3. Sound(u, M, {}) /\ OnTop(u, M)
    <2>1. CASE life[t] = "mapped"
      <3>1. t \in Mapped
        BY <2>1 DEF Mapped
      <3>2. Sound(UnmapHandler(wm, t), M, {}) /\ OnTop(UnmapHandler(wm, t), Mapped)
        BY <3>1, UnmapSound, MappedAllocated DEF IInv
      <3> QED
        BY <2>1, <3>2 DEF OnTop
    <2>2. CASE life[t] # "mapped"
      <3>1. M = Mapped
        BY <2>2 DEF Mapped
      <3> QED
        BY <2>2, <3>1 DEF IInv
    <2> QED
      BY <2>1, <2>2
  <1>4. wm' = r
    BY DEF Destroyed
  <1> HIDE DEF u
  <1>5. /\ u \in WindowManager /\ u.geo \in [Slots -> Sizes]
        /\ u.border \in [Slots -> Borders \cup {NULL}]
        /\ u.toplevels \in Seq(Slots) /\ u.stack \in Seq(Slots \cup Others)
        /\ IsInjective(u.toplevels) /\ IsInjective(u.stack)
        /\ ToSet(u.toplevels) = Allocated /\ ToSet(u.stack) \ Others = Allocated
        /\ u.left \in SUBSET Remnants
    BY <1>3 DEF Sound, Linked, WindowManager
  <1>6. l \in Seq(Slots) /\ ToSet(l) = Allocated \ {t} /\ IsInjective(l)
    BY <1>5, WithoutProperties
  <1>7. /\ k \in Seq(Slots \cup Others) /\ IsInjective(k)
        /\ ToSet(k) = ToSet(u.stack) \ {t}
        /\ \A a, b : Above(k, a, b) => Above(u.stack, a, b)
    BY <1>5, WithoutProperties
  <1>8. d = [u EXCEPT !.border[t] = NULL, !.toplevels = l]
    BY DEF DestroyHandler
  <1> HIDE DEF l, d
  <1>9. d \in WindowManager
    <2>1. [u EXCEPT !.border[t] = NULL, !.toplevels = l] \in WindowManager
      BY <1>5, <1>6 DEF WindowManager
    <2> QED
      BY <1>8, <2>1
  <1>10. /\ d.focused = u.focused /\ d.toplevels = l /\ d.geo = u.geo
         /\ d.left = u.left
         /\ d.scheduled = u.scheduled /\ d.kbdFocus = u.kbdFocus /\ d.stack = u.stack
         /\ d.activated = u.activated /\ d.border = [u.border EXCEPT ![t] = NULL]
    BY <1>5, <1>8 DEF WindowManager
  <1>11. SurfaceGone(d, t) = [d EXCEPT !.stack = k, !.activated = @ \ {t},
                                       !.scheduled = @ \ {t}, !.geo[t] = 0,
                                       !.kbdFocus = IF @ = t THEN NULL ELSE @]
    BY <1>10 DEF SurfaceGone
  <1> DEFINE g == SurfaceGone(d, t)
  <1> HIDE DEF k, g
  <1>12. /\ g.focused = u.focused /\ g.toplevels = l /\ g.geo = [u.geo EXCEPT ![t] = 0]
         /\ g.left = u.left /\ g.scheduled = u.scheduled \ {t} /\ g.stack = k
         /\ g.kbdFocus = IF u.kbdFocus = t THEN NULL ELSE u.kbdFocus
         /\ g.activated = u.activated \ {t} /\ g.border = [u.border EXCEPT ![t] = NULL]
         /\ g \in WindowManager
    <2>1. [d EXCEPT !.stack = k, !.activated = @ \ {t}, !.scheduled = @ \ {t},
                    !.geo[t] = 0, !.kbdFocus = IF @ = t THEN NULL ELSE @] \in WindowManager
      BY <1>7, <1>9, SizesAssumption DEF WindowManager
    <2>2. g \in WindowManager
      BY <1>11, <2>1 DEF g
    <2> QED
      BY <1>9, <1>10, <1>11, <2>2 DEF WindowManager, g
  <1>13. /\ r.focused = u.focused /\ r.toplevels = l /\ r.geo = [u.geo EXCEPT ![t] = 0]
         /\ r.scheduled = u.scheduled \ {t} /\ r.stack = k /\ r.kbdFocus = F /\ r.left = L
         /\ r.activated = u.activated \ {t} /\ r.border = [u.border EXCEPT ![t] = NULL]
         /\ r \in WindowManager
    <2>1. CASE f = NULL
      BY <1>12, <2>1 DEF g
    <2>2. CASE f # NULL
      <3>1. r = [g EXCEPT !.left = @ \cup {f}, !.kbdFocus = IF d.kbdFocus = t THEN f ELSE @]
        BY <2>2 DEF SurfaceStays, g
      <3>2. L \in SUBSET Remnants /\ F \in Slots \cup Remnants \cup {NULL}
        BY <1>5 DEF WindowManager
      <3>3. r = [g EXCEPT !.left = L, !.kbdFocus = F]
        <4>1. g.left \cup {f} = L
          BY <1>12, <2>2
        <4>2. (IF d.kbdFocus = t THEN f ELSE g.kbdFocus) = F
          BY <1>10, <1>12
        <4>3. r = [g EXCEPT !.left = g.left \cup {f},
                            !.kbdFocus = IF d.kbdFocus = t THEN f ELSE g.kbdFocus]
          BY <3>1
        <4> HIDE DEF r, L, F
        <4> QED
          BY <4>1, <4>2, <4>3
      <3> HIDE DEF r, L, F
      <3>4. [g EXCEPT !.left = L, !.kbdFocus = F] \in WindowManager
        BY <1>12, <3>2 DEF WindowManager
      <3> QED
        BY <1>12, <3>3, <3>4 DEF WindowManager
    <2> QED
      BY <2>1, <2>2
  <1> HIDE DEF r
  <1>14. ASSUME NEW s \in Slots PROVE BorderSound(wm, Mapped, s)'
    <2>1. BorderSound(u, M, s)
      BY <1>3 DEF Sound
    <2>2. CASE s = t
      BY <1>4, <1>5, <1>13, <2>2 DEF BorderSound
    <2>3. CASE s # t
      <3>1. r.geo[s] = u.geo[s] /\ r.border[s] = u.border[s]
        BY <1>5, <1>13, <2>3
      <3> QED
        BY <1>2, <1>4, <1>13, <2>1, <3>1 DEF BorderSound
    <2> QED
      BY <2>2, <2>3
  <1>15. Linked(wm)'
    <2>1. t \notin Others
      BY SceneAssumption
    <2>2. ToSet(k) \ Others = Allocated \ {t}
      BY <1>5, <1>7
    <2>3. u.scheduled \subseteq Allocated /\ u.kbdFocus \in Allocated \cup u.left \cup {NULL}
      BY <1>3 DEF Sound, Linked
    <2>4. F \in (Allocated \ {t}) \cup L \cup {NULL}
      BY <2>3
    <2> QED
      BY <1>2, <1>4, <1>6, <1>7, <1>13, <2>2, <2>3, <2>4 DEF Linked
  <1>16. (wm.activated \subseteq {wm.focused} \cap Allocated)'
    BY <1>2, <1>3, <1>4, <1>13 DEF Sound
  <1>17. Sound(wm, Mapped, {})'
    BY <1>4, <1>13, <1>14, <1>15, <1>16 DEF Sound
  <1>18. OnTop(wm, Mapped)'
    BY <1>2, <1>3, <1>4, <1>7, <1>13 DEF OnTop
  <1> QED
    BY <1>2, <1>17, <1>18 DEF IInv

\* The destruction of a toplevel alone.
LEMMA DestroyToplevelStep ==
  ASSUME IInv, NEW t \in Slots, NEW x \in Remnants, DestroyToplevel(t, x) PROVE IInv'
PROOF
  <1>1. x \in Remnants \cup {NULL} /\ x # NULL
    BY NullAssumption
  <1>2. /\ life[t] # "free" /\ Goto(t, "free")
        /\ wm' = IF x = NULL THEN SurfaceGone(Destroyed(t), t) ELSE SurfaceStays(Destroyed(t), t, x)
        /\ status' \in {"running", "terminated", "crashed"}
    BY <1>1 DEF DestroyToplevel, IInv
  <1> QED
    BY <1>1, <1>2, GoneStep

\* That of a toplevel with its surface.
LEMMA DisconnectStep ==
  ASSUME IInv, NEW t \in Slots, Disconnect(t) PROVE IInv'
PROOF
  <1> DEFINE f == NULL
  <1>1. /\ life[t] # "free" /\ Goto(t, "free") /\ f \in Remnants \cup {NULL}
        /\ wm' = IF f = NULL THEN SurfaceGone(Destroyed(t), t) ELSE SurfaceStays(Destroyed(t), t, f)
        /\ status' \in {"running", "terminated", "crashed"}
    BY DEF Disconnect, IInv
  <1> QED
    BY <1>1, GoneStep

\* The destruction of a surface that has outlived its toplevel.
LEMMA DestroySurfaceStep ==
  ASSUME IInv, NEW x \in Remnants, DestroySurface(x) PROVE IInv'
PROOF
  <1> DEFINE L == wm.left \ {x}
             F == IF wm.kbdFocus = x THEN NULL ELSE wm.kbdFocus
             r == [wm EXCEPT !.left = L, !.kbdFocus = F]
  <1>1. wm' = r /\ life' = life /\ status' = status
    BY DEF DestroySurface
  <1>2. wm \in WindowManager /\ wm.kbdFocus \in Allocated \cup wm.left \cup {NULL}
    BY DEF IInv, Sound, Linked
  <1>3. L \in SUBSET Remnants /\ F \in Slots \cup Remnants \cup {NULL}
    BY <1>2 DEF WindowManager
  <1>4. F \in Allocated \cup L \cup {NULL}
    BY <1>2
  <1> HIDE DEF L, F
  <1>5. r \in WindowManager
    BY <1>2, <1>3 DEF WindowManager
  <1>6. /\ r.focused = wm.focused /\ r.toplevels = wm.toplevels /\ r.geo = wm.geo
        /\ r.left = L /\ r.kbdFocus = F /\ r.stack = wm.stack
        /\ r.activated = wm.activated /\ r.border = wm.border /\ r.scheduled = wm.scheduled
    BY <1>2 DEF WindowManager
  <1> HIDE DEF r
  <1>7. ASSUME NEW s \in Slots PROVE BorderSound(r, Mapped, s)
    <2>1. BorderSound(wm, Mapped, s)
      BY DEF IInv, Sound
    <2> QED
      BY <1>6, <2>1 DEF BorderSound
  <1>8. Linked(r) /\ r.activated \subseteq {r.focused} \cap Allocated
    BY <1>4, <1>6 DEF IInv, Sound, Linked
  <1>9. Sound(r, Mapped, {})
    BY <1>5, <1>7, <1>8 DEF Sound
  <1>10. OnTop(r, Mapped)
    BY <1>6 DEF IInv, OnTop
  <1>11. Allocated' = Allocated /\ Mapped' = Mapped
    BY <1>1 DEF Allocated, Mapped
  <1>12. (Sound(wm, Mapped, {}) /\ OnTop(wm, Mapped))'
    BY <1>1, <1>9, <1>10, <1>11, Carry
  <1> QED
    BY <1>1, <1>12 DEF IInv

\* The seat's keyboard is no part of what the invariant relates.
LEMMA SeatKeyboardStep ==
  ASSUME IInv, NEW k \in Keyboards \cup {NULL}, SeatKeyboard(k) PROVE IInv'
PROOF
  <1> DEFINE r == [wm EXCEPT !.keyboard = k]
  <1>1. wm' = r /\ life' = life /\ status' = status
    BY DEF SeatKeyboard
  <1>2. wm \in WindowManager
    BY DEF IInv, Sound
  <1>3. r \in WindowManager
    BY <1>2 DEF WindowManager
  <1>4. /\ r.focused = wm.focused /\ r.toplevels = wm.toplevels /\ r.geo = wm.geo
        /\ r.left = wm.left
        /\ r.kbdFocus = wm.kbdFocus /\ r.stack = wm.stack /\ r.activated = wm.activated
        /\ r.border = wm.border /\ r.scheduled = wm.scheduled
    BY <1>2 DEF WindowManager
  <1> HIDE DEF r
  <1>5. Sound(r, Mapped, {}) /\ OnTop(r, Mapped)
    BY <1>3, <1>4, OtherFields DEF IInv, Sound, Linked
  <1>6. Allocated' = Allocated /\ Mapped' = Mapped
    BY <1>1 DEF Allocated, Mapped
  <1>7. (Sound(wm, Mapped, {}) /\ OnTop(wm, Mapped))'
    BY <1>1, <1>5, <1>6, Carry
  <1> QED
    BY <1>1, <1>7 DEF IInv

\* What is put on top of the scene beside the windows disturbs none of them.
LEMMA PutOnTopStep ==
  ASSUME IInv, NEW b \in Others, PutOnTop(b) PROVE IInv'
PROOF
  <1> DEFINE k == Append(wm.stack, b)
             r == [wm EXCEPT !.stack = k]
  <1>1. wm' = r /\ life' = life /\ status' = status /\ b \notin ToSet(wm.stack)
    BY DEF PutOnTop
  <1>2. /\ wm \in WindowManager /\ wm.stack \in Seq(Slots \cup Others)
        /\ IsInjective(wm.stack)
    BY DEF IInv, Sound, Linked, WindowManager
  <1>3. /\ k \in Seq(Slots \cup Others) /\ IsInjective(k)
        /\ ToSet(k) = ToSet(wm.stack) \cup {b}
        /\ \A x, y : Above(k, x, y) => x = b \/ Above(wm.stack, x, y)
    BY <1>1, <1>2, OnTopProperties
  <1> HIDE DEF k
  <1>4. r \in WindowManager
    BY <1>2, <1>3 DEF WindowManager
  <1>5. /\ r.focused = wm.focused /\ r.toplevels = wm.toplevels /\ r.geo = wm.geo
        /\ r.left = wm.left
        /\ r.kbdFocus = wm.kbdFocus /\ r.stack = k /\ r.activated = wm.activated
        /\ r.border = wm.border /\ r.scheduled = wm.scheduled
    BY <1>2 DEF WindowManager
  <1> HIDE DEF r
  <1>6. ASSUME NEW s \in Slots PROVE BorderSound(r, Mapped, s)
    <2>1. BorderSound(wm, Mapped, s)
      BY DEF IInv, Sound
    <2> QED
      BY <1>5, <2>1 DEF BorderSound
  <1>7. Linked(r) /\ r.activated \subseteq {r.focused} \cap Allocated
    BY <1>3, <1>5 DEF IInv, Sound, Linked
  <1>8. Sound(r, Mapped, {})
    BY <1>4, <1>6, <1>7 DEF Sound
  <1>9. OnTop(r, Mapped)
    <2>1. b \notin Mapped
      BY SceneAssumption DEF Mapped
    <2> QED
      BY <1>3, <1>5, <2>1 DEF IInv, OnTop
  <1>10. Allocated' = Allocated /\ Mapped' = Mapped
    BY <1>1 DEF Allocated, Mapped
  <1>11. (Sound(wm, Mapped, {}) /\ OnTop(wm, Mapped))'
    BY <1>1, <1>8, <1>9, <1>10, Carry
  <1> QED
    BY <1>1, <1>11 DEF IInv

\* Nor does what is taken out of it.
LEMMA DetachPopupStep ==
  ASSUME IInv, NEW b \in Others, DetachPopup(b) PROVE IInv'
PROOF
  <1> DEFINE k == Without(wm.stack, b)
             r == [wm EXCEPT !.stack = k]
  <1>1. wm' = r /\ life' = life /\ status' = status
    BY DEF DetachPopup
  <1>2. /\ wm \in WindowManager /\ wm.stack \in Seq(Slots \cup Others)
        /\ IsInjective(wm.stack)
    BY DEF IInv, Sound, Linked, WindowManager
  <1>3. /\ k \in Seq(Slots \cup Others) /\ IsInjective(k)
        /\ ToSet(k) = ToSet(wm.stack) \ {b}
        /\ \A x, y : Above(k, x, y) => Above(wm.stack, x, y)
    BY <1>1, <1>2, WithoutProperties
  <1> HIDE DEF k
  <1>4. r \in WindowManager
    BY <1>2, <1>3 DEF WindowManager
  <1>5. /\ r.focused = wm.focused /\ r.toplevels = wm.toplevels /\ r.geo = wm.geo
        /\ r.left = wm.left
        /\ r.kbdFocus = wm.kbdFocus /\ r.stack = k /\ r.activated = wm.activated
        /\ r.border = wm.border /\ r.scheduled = wm.scheduled
    BY <1>2 DEF WindowManager
  <1> HIDE DEF r
  <1>6. ASSUME NEW s \in Slots PROVE BorderSound(r, Mapped, s)
    <2>1. BorderSound(wm, Mapped, s)
      BY DEF IInv, Sound
    <2> QED
      BY <1>5, <2>1 DEF BorderSound
  <1>7. Linked(r) /\ r.activated \subseteq {r.focused} \cap Allocated
    BY <1>1, <1>3, <1>5, SceneAssumption DEF Allocated, IInv, Sound, Linked
  <1>8. Sound(r, Mapped, {})
    BY <1>4, <1>6, <1>7 DEF Sound
  <1>9. OnTop(r, Mapped)
    BY <1>3, <1>5 DEF IInv, OnTop
  <1>10. Allocated' = Allocated /\ Mapped' = Mapped
    BY <1>1 DEF Allocated, Mapped
  <1>11. (Sound(wm, Mapped, {}) /\ OnTop(wm, Mapped))'
    BY <1>1, <1>8, <1>9, <1>10, Carry
  <1> QED
    BY <1>1, <1>11 DEF IInv

\* A step that changes neither the heap nor the record.
LEMMA Stutter ==
  ASSUME IInv, life' = life, wm' = wm, status' \in {"running", "terminated", "crashed"}
  PROVE  IInv'
PROOF
  <1>1. Allocated' = Allocated /\ Mapped' = Mapped
    BY DEF Allocated, Mapped
  <1>2. (Sound(wm, Mapped, {}) /\ OnTop(wm, Mapped))'
    BY <1>1, Carry DEF IInv
  <1> QED
    BY <1>2 DEF IInv

\* Every step preserves the invariant.
LEMMA NextIInv == IInv /\ [Next]_shellVars => IInv'
PROOF
  <1> SUFFICES ASSUME IInv, [Next]_shellVars PROVE IInv'
    OBVIOUS
  <1>1. CASE UNCHANGED shellVars
    BY <1>1, Stutter DEF shellVars, IInv
  <1>2. ASSUME NEW t \in Slots, Client(t) PROVE IInv'
    <2>1. CASE RequestMaximize(t) \/ RequestFullscreen(t) \/ NewDecoration(t)
      <3>1. t \in Allocated /\ ScheduleConfigure(t)
        BY <2>1 DEF RequestMaximize, RequestFullscreen, NewDecoration, Allocated
      <3> QED
        BY <3>1, ScheduleConfigureStep
    <2>2. CASE NewToplevel(t)
      BY <2>2, NewToplevelStep
    <2>3. CASE InitialCommit(t)
      BY <2>3, InitialCommitStep
    <2>4. ASSUME NEW size \in Sizes, NEW ok \in BOOLEAN, MapCommit(t, size, ok) PROVE IInv'
      BY <2>4, MapCommitStep
    <2>5. ASSUME NEW size \in Sizes, SizeCommit(t, size) PROVE IInv'
      BY <2>5, SizeCommitStep
    <2>6. CASE UnmapCommit(t)
      BY <2>6, UnmapCommitStep
    <2>7. ASSUME NEW x \in Remnants, DestroyToplevel(t, x) PROVE IInv'
      BY <2>7, DestroyToplevelStep
    <2>8. CASE Disconnect(t)
      BY <2>8, DisconnectStep
    <2> QED
      BY <1>2, <2>1, <2>2, <2>3, <2>4, <2>5, <2>6, <2>7, <2>8 DEF Client
  <1>3. ASSUME NEW t \in Slots, SendConfigure(t) PROVE IInv'
    BY <1>3, SendConfigureStep
  <1>4. ASSUME NEW t \in Slots \cup {NULL}, FocusRequest(t) PROVE IInv'
    BY <1>4, FocusRequestStep
  <1>5. ASSUME NEW k \in Keyboards \cup {NULL}, SeatKeyboard(k) PROVE IInv'
    BY <1>5, SeatKeyboardStep
  <1>6. ASSUME NEW b \in Backgrounds, AddBackground(b) PROVE IInv'
    BY <1>6, PutOnTopStep DEF AddBackground, Others
  <1>7. CASE Terminate
    BY <1>7, Stutter DEF Terminate
  <1>8. ASSUME NEW p \in Popups, AttachPopup(p) \/ DetachPopup(p) PROVE IInv'
    BY <1>8, PutOnTopStep, DetachPopupStep DEF AttachPopup, Others
  <1>9. ASSUME NEW x \in Remnants, DestroySurface(x) PROVE IInv'
    BY <1>9, DestroySurfaceStep
  <1>10. ASSUME NEW b \in Backgrounds, LoseOutput(b) PROVE IInv'
    BY <1>10, Stutter DEF LoseOutput
  <1> QED
    BY <1>1, <1>2, <1>3, <1>4, <1>5, <1>6, <1>7, <1>8, <1>9, <1>10 DEF Next, Unattended

\* The inductive invariant holds in every reachable state.
THEOREM Inductive == Spec => []IInv
  BY InitIInv, NextIInv, PTL DEF Spec

\* Every field stays in its type, borders keep a size some window committed.
THEOREM TypeCorrect == Spec => []TypeOK
PROOF
  <1>1. IInv => TypeOK
    BY DEF IInv, Sound, TypeOK
  <1> QED
    BY <1>1, Inductive, PTL

\* The list, the visible scene, the pending configures and the seat reach
\* allocated toplevels only, each exactly once, however windows come and go; the
\* keyboard focus may still be on a surface whose toplevel has gone.
THEOREM NoDanglingLinks == Spec => []ReachableIsAllocated
PROOF
  <1>1. IInv => ReachableIsAllocated
    BY DEF IInv, Sound, Linked, ReachableIsAllocated
  <1> QED
    BY <1>1, Inductive, PTL

\* No two windows are ever told they are the active one.
THEOREM AtMostOneActivated == Spec => []OnlyFocusedIsActivated
PROOF
  <1>1. IInv => OnlyFocusedIsActivated
    BY DEF IInv, Sound, OnlyFocusedIsActivated
  <1> QED
    BY <1>1, Inductive, PTL

\* Every border there is shows the focus and the size of its window.
THEOREM BordersTellTheFocus == Spec => []BorderShowsFocusAndSize
PROOF
  <1>1. IInv => BorderShowsFocusAndSize
    BY DEF IInv, Sound, BorderSound, BorderShowsFocusAndSize
  <1> QED
    BY <1>1, Inductive, PTL

\* No visible window covers the focused one.
THEOREM FocusedIsRaised == Spec => []FocusedOnTop
PROOF
  <1>1. IInv => FocusedOnTop
    BY DEF IInv, OnTop, FocusedOnTop
  <1> QED
    BY <1>1, Inductive, PTL
=============================================================================
